------------------------------ MODULE JobLedger ------------------------------
(***************************************************************************)
(* What the AI report engine promises, without its workers, leases, slots  *)
(* or buckets: a ledger of paid jobs.                                      *)
(*                                                                         *)
(* A job is submitted against a monthly budget, may be called once, and is *)
(* published only from its call.  A job that ends before its call costs    *)
(* nothing; one that was called costs its reserved bound unless its call   *)
(* was published at a known cost.  A step may end many jobs and start one. *)
(***************************************************************************)
EXTENDS Integers, FiniteSets, FiniteSetsExt

CONSTANTS Job, Month, Cost, ActualCosts, Budget

VARIABLES
  phase,      \* each job's phase
  period,     \* the month each job is billed to
  committed   \* what each month has committed to pay

Phase == {"none", "waiting", "called", "published", "dropped"}

\* an idle job becomes a call in one step only when it was never queued
MayFollow == {<<"none", "waiting">>, <<"none", "called">>, <<"waiting", "called">>,
              <<"waiting", "dropped">>, <<"called", "published">>, <<"called", "dropped">>}

Moved == {j \in Job : phase'[j] # phase[j]}
Starts == {j \in Moved : phase'[j] \in {"waiting", "called"}}
Charged(m) == {j \in Starts : phase[j] = "none" /\ period'[j] = m}
Refunded(m) == {j \in Moved : phase[j] = "waiting" /\ phase'[j] = "dropped" /\ period[j] = m}
Priced(m) == {j \in Moved : phase'[j] = "published" /\ period[j] = m}

Init ==
  /\ phase = [j \in Job |-> "none"]
  /\ period \in [Job -> Month]
  /\ committed = [m \in Month |-> 0]

Next ==
  /\ phase' \in [Job -> Phase]
  /\ \A j \in Moved : <<phase[j], phase'[j]>> \in MayFollow
  /\ Cardinality(Starts) <= 1
  /\ \A j \in Job : phase[j] \in {"waiting", "called"} => phase'[j] \notin {"waiting", "called"} \/ period'[j] = period[j]
  /\ \A m \in Month :
       /\ \E rebate \in {Cost - c : c \in ActualCosts} \cup {0} :
            committed'[m] = committed[m] + Cost * Cardinality(Charged(m))
                              - Cost * Cardinality(Refunded(m))
                              - (IF Priced(m) = {} THEN 0 ELSE rebate)
       /\ Charged(m) # {} => committed'[m] <= Budget

Spec == Init /\ [][Next]_<<phase, period, committed>>
=============================================================================
