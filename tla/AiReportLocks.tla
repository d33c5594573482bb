---------------------------- MODULE AiReportLocks ----------------------------
(***************************************************************************)
(* The locks behind the transactions that AiReportJobs takes as atomic:    *)
(* in which order claimNextAiReport, an owner's cancellation and the       *)
(* source-deletion trigger take the advisory locks and the row locks, and  *)
(* whether they can wait for each other in a circle.                       *)
(*                                                                         *)
(* A session runs one transaction at a time.  It asks for its locks one    *)
(* after the other, keeps them all until it commits, and reads what it     *)
(* needs for the next locks when it holds the ones before.                 *)
(***************************************************************************)
EXTENDS Integers, Sequences, FiniteSets

CONSTANTS
  Owner,       \* accounts, each with at most one unfinished report
  Worker,      \* report workers
  InitialJob   \* the states the owners' reports start in

\* waiting; leased, or leased and lost; called, and its lease or its slot's
\* deadline over
JobState == {"none", "queued", "leased", "lost", "called", "lostCall", "overdue"}
Dispatched == {"called", "lostCall", "overdue"}

Global == <<"global">>
Budget == <<"budget">>        \* the deployment's usage bucket of the month
OwnerLock(u) == <<"owner", u>>
AttemptRow(u) == <<"attempt", u>>
ReportRow(u) == <<"report", u>>
Quota(u) == <<"quota", u>>    \* the owner's usage bucket of the month

Lock == {Global, Budget} \cup
        UNION {{OwnerLock(u), AttemptRow(u), ReportRow(u), Quota(u)} : u \in Owner}

\* sessions: a worker, an owner's cancellation, an owner's deletion of a source
Claim(w) == <<"claim", w>>
Cancel(u) == <<"cancel", u>>
Delete(u) == <<"delete", u>>
Session == {Claim(w) : w \in Worker} \cup {Cancel(u) : u \in Owner} \cup {Delete(u) : u \in Owner}
Free == <<"free">>

VARIABLES
  job,      \* the committed state of each owner's report
  holder,   \* the session that holds each lock
  session   \* each session's stage, the locks it still asks for, the owners whose
            \* rows its loop has not reached, and its candidate

vars == <<job, holder, session>>

Idle == [stage |-> "idle", wants |-> <<>>, todo |-> {}, candidate |-> {}]

-----------------------------------------------------------------------------
\* The loops of claimNextAiReport, and what each locks of one owner.
\* reapExpiredCallSlots: every expired attempt FOR UPDATE, then each one's accounts;
\* lost leases: the owners first, then the reports and the accounts of lost calls
LoopRows(loop, u) ==
  CASE loop = "reaping" -> <<AttemptRow(u)>>
    [] loop = "settling" -> <<Budget, Quota(u), ReportRow(u)>>
    [] loop = "owning" -> <<OwnerLock(u)>>
    [] loop = "recovering" /\ job[u] = "lostCall" -> <<ReportRow(u), AttemptRow(u), Budget, Quota(u)>>
    [] OTHER -> <<ReportRow(u)>>

\* mutant: the candidate is locked before its owner
CandidateRowsSwapped(u) == <<ReportRow(u), OwnerLock(u)>>

CandidateRows(u) == <<OwnerLock(u), ReportRow(u)>>

\* ai_invalidate_reports_for_source, under the owner's lock
SourceRows(u) ==
  CASE job[u] \in Dispatched -> <<AttemptRow(u), Budget, Quota(u), ReportRow(u)>>
    [] job[u] \in {"queued", "leased", "lost"} -> <<Quota(u), Budget, ReportRow(u)>>
    [] OTHER -> <<>>

\* cancelAiReport, under the global lock and the owner's
CancelRows(u) ==
  CASE job[u] \in Dispatched -> <<ReportRow(u), AttemptRow(u), Budget, Quota(u)>>
    [] job[u] \in {"queued", "leased", "lost"} -> <<ReportRow(u), Quota(u), Budget>>
    [] OTHER -> <<>>

-----------------------------------------------------------------------------
Holdings(s) == {l \in Lock : holder[l] = s}

\* the session holds all it asked for and may go on
Ready(s, stage) ==
  session[s].stage = stage /\ session[s].wants = <<>> /\ session[s].todo = {}

GoOn(s, stage, wants) ==
  /\ session' = [session EXCEPT ![s].stage = stage, ![s].wants = wants]
  /\ UNCHANGED <<job, holder>>

Commit(s) ==
  /\ holder' = [l \in Lock |-> IF holder[l] = s THEN Free ELSE holder[l]]
  /\ session' = [session EXCEPT ![s] = Idle]

\* a lock is granted when it is free or already the session's own
Acquire(s) ==
  /\ session[s].wants # <<>>
  /\ holder[Head(session[s].wants)] \in {Free, s}
  /\ holder' = [holder EXCEPT ![Head(session[s].wants)] = s]
  /\ session' = [session EXCEPT ![s].wants = Tail(@)]
  /\ UNCHANGED job

-----------------------------------------------------------------------------
(* claimNextAiReport                                                       *)

Lost == {u \in Owner : job[u] \in {"lost", "lostCall"}}

BeginClaim(w) == Ready(Claim(w), "idle") /\ GoOn(Claim(w), "begun", <<Global>>)

\* the transaction goes on from one loop to the next, over the owners S
Loop(w, from, to, S) ==
  /\ Ready(Claim(w), from)
  /\ session' = [session EXCEPT ![Claim(w)].stage = to, ![Claim(w)].todo = S]
  /\ UNCHANGED <<job, holder>>

ReapSlots(w) == Loop(w, "begun", "reaping", {u \in Owner : job[u] = "overdue"})

\* a row that was settled while the query waited for it no longer matches
SettleSlots(w) ==
  Loop(w, "reaping", "settling",
       {u \in Owner : job[u] = "overdue" /\ holder[AttemptRow(u)] = Claim(w)})

RecoverLeases(w) == Loop(w, "settling", "owning", Lost)

\* only what was lost before its owner's lock was asked for
UpdateLeases(w) ==
  Loop(w, "owning", "recovering", {u \in Lost : holder[OwnerLock(u)] = Claim(w)})

\* the loop's next row, in any order
LockNext(w) ==
  /\ session[Claim(w)].wants = <<>>
  /\ \E u \in session[Claim(w)].todo :
       session' = [session EXCEPT ![Claim(w)].wants = LoopRows(session[Claim(w)].stage, u),
                                  ![Claim(w)].todo = @ \ {u}]
  /\ UNCHANGED <<job, holder>>

\* the oldest waiting report, one that was just requeued included
ChooseCandidate(w) ==
  /\ Ready(Claim(w), "recovering")
  /\ \E u \in {v \in Owner : job[v] = "queued"
                              \/ (job[v] = "lost" /\ holder[ReportRow(v)] = Claim(w))} :
       /\ session' = [session EXCEPT ![Claim(w)] =
                        [stage |-> "chosen", wants |-> CandidateRows(u), todo |-> {}, candidate |-> {u}]]
       /\ UNCHANGED <<job, holder>>

\* what the transaction wrote to the rows it holds; a row that another
\* transaction changed while it waited no longer matches and is left alone
Claimed(w, u) ==
  IF holder[ReportRow(u)] # Claim(w) THEN job[u]
  ELSE CASE job[u] \in {"overdue", "lostCall"} -> "none"
         [] job[u] \in {"queued", "lost"} -> IF u \in session[Claim(w)].candidate THEN "leased" ELSE "queued"
         [] OTHER -> job[u]

\* the claim commits with its candidate, or returns null without one
EndClaim(w) ==
  /\ Ready(Claim(w), "chosen") \/ Ready(Claim(w), "recovering")
  /\ job' = [u \in Owner |-> Claimed(w, u)]
  /\ Commit(Claim(w))

-----------------------------------------------------------------------------
(* cancelAiReport, and the trigger of a deleted source                     *)

BeginCancel(u) == Ready(Cancel(u), "idle") /\ GoOn(Cancel(u), "begun", <<Global, OwnerLock(u)>>)

WriteCancel(u) == Ready(Cancel(u), "begun") /\ GoOn(Cancel(u), "written", CancelRows(u))

BeginDelete(u) == Ready(Delete(u), "idle") /\ GoOn(Delete(u), "begun", <<OwnerLock(u)>>)

WriteDelete(u) == Ready(Delete(u), "begun") /\ GoOn(Delete(u), "written", SourceRows(u))

\* either of them ends the owner's report
EndReport(s, u) ==
  /\ Ready(s, "written")
  /\ job' = [job EXCEPT ![u] = "none"]
  /\ Commit(s)

-----------------------------------------------------------------------------
Init ==
  /\ job \in [Owner -> InitialJob]
  /\ holder = [l \in Lock |-> Free]
  /\ session = [s \in Session |-> Idle]

Next ==
  \/ \E s \in Session : Acquire(s)
  \/ \E w \in Worker : \/ BeginClaim(w) \/ ReapSlots(w) \/ SettleSlots(w)
                        \/ RecoverLeases(w) \/ UpdateLeases(w) \/ LockNext(w)
                        \/ ChooseCandidate(w) \/ EndClaim(w)
  \/ \E u \in Owner : \/ BeginCancel(u) \/ WriteCancel(u) \/ EndReport(Cancel(u), u)
                      \/ BeginDelete(u) \/ WriteDelete(u) \/ EndReport(Delete(u), u)

Spec == Init /\ [][Next]_vars

-----------------------------------------------------------------------------
WaitsIn(s, S) ==
  session[s].wants # <<>> /\ holder[Head(session[s].wants)] \in S \ {s}

\* No set of transactions waits for itself: job-store.ts:154-156 says that the
\* order global, owner, report is preserved and that it cannot deadlock.
CannotDeadlock ==
  \A S \in SUBSET Session : S # {} => \E s \in S : ~WaitsIn(s, S)
=============================================================================
