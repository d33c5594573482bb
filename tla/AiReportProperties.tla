-------------------------- MODULE AiReportProperties --------------------------
(***************************************************************************)
(* What the AI report engine promises: its accounts, its fences, its       *)
(* provider slots and its progress, stated over AiReportJobs.              *)
(***************************************************************************)
EXTENDS AiReportJobs, FiniteSetsExt

\* The types of every table and local variable.
TypeOK ==
  /\ db \in Store
  /\ users \in SUBSET User
  /\ access \in [User -> BOOLEAN]
  /\ consent \in [User -> Nat]
  /\ runtime \in [enabled : BOOLEAN, provider : Provider, prompt : Prompt]
  /\ month \in Month
  /\ worker \in [Worker -> [pc : WorkerState, report : Report \cup {NoReport}, admitted : BOOLEAN]]
  /\ \A w \in Worker : worker[w].report = NoReport <=> worker[w].pc = "idle"

-----------------------------------------------------------------------------
(* Rows.                                                                   *)

\* An owner never has two unfinished jobs: generate's lookup and the partial
\* unique index agree with every path that ends, requeues or purges a job.
OneActiveJob ==
  LET unfinished == {r \in Report : db.report[r].status \in ActiveStatus /\ ~db.report[r].deleted}
  IN \A r, q \in unfinished : db.report[r].owner = db.report[q].owner => r = q

\* A job that is queued carries nothing of an earlier claim and was never
\* dispatched, a running one is leased: the table's CHECK constraints, which no
\* transaction may run into.
RowsWellFormed ==
  \A r \in Report : LET row == db.report[r] IN
    /\ row.status = "queued" => ~row.dispatched
    /\ row.status = "running" <=> row.token # NoWorker
    /\ row.status = "running" <=> row.lease # "none"

\* The report and its provider attempt end together: an attempt is open exactly
\* while its report runs dispatched, whichever of the ten ways ends either.
AttemptMatchesReport ==
  \A r \in Report : LET row == db.report[r] IN
    /\ db.attempt[r].status = "dispatched"
         <=> row.status = "running" /\ row.dispatched
    /\ row.status = "succeeded" <=> db.attempt[r].status = "succeeded" /\ row.status # "purged"
    /\ row.dispatched => db.attempt[r].status # "none"

\* A worker that is calling the provider, or holds its answer, is the only one
\* for that report: a lost lease, a requeue or a crash never pays twice.
OneCallPerReport ==
  \A v, w \in Worker :
    /\ worker[v].pc \in {"calling", "answered"} /\ worker[w].pc \in {"calling", "answered"}
    /\ worker[v].report = worker[w].report
    => v = w

\* What was settled stays settled: no report leaves a final status and no
\* attempt is settled twice or dispatched again, except that a deleted account
\* takes its rows with it.
SettledIsFinal ==
  [][/\ \A r \in Report :
          db.report[r].status \in {"succeeded", "failed", "cancelled"}
          => db'.report[r].status \in {db.report[r].status, "purged"}
     /\ \A a \in Attempt :
          /\ db.attempt[a].status \in Settled =>
               /\ db'.attempt[a].status = db.attempt[a].status
               /\ db'.attempt[a].cost = db.attempt[a].cost
          /\ db.attempt[a].status = "dispatched" => db'.attempt[a].status # "none"]_vars

\* A result is published only while generation is enabled, its provider is the
\* active one, and its owner has access, has not withdrawn consent and has not
\* deleted a source.  completeAiReport asks for none of these: it relies on each
\* of those changes ending the job in its own transaction.
NoPublicationAfterRevocation ==
  [][\A r \in Report :
       LET row == db.report[r] IN
       (row.status # "succeeded" /\ db'.report[r].status = "succeeded") =>
         /\ runtime.enabled /\ runtime.provider = row.provider
         /\ row.owner \in users /\ access[row.owner] /\ consent[row.owner] # 0
         /\ ~row.invalidated /\ ~row.deleted]_vars

-----------------------------------------------------------------------------
(* Accounts.                                                               *)

Waiting(m) == {r \in Active(db) \cap In(db, m) : ~db.report[r].dispatched}
Calls(m) == {a \in Attempt : db.attempt[a].status # "none" /\ db.attempt[a].month = m}

\* Every reservation in a bucket is owed to a job that still waits for its
\* dispatch, and every such job has one: none leaks and none is given back twice.
ReservationsBacked ==
  \A m \in Month :
    /\ db.global[m].reserved = Cardinality(Waiting(m))
    /\ db.global[m].reservedCost = Cost * Cardinality(Waiting(m))
    /\ \A u \in User : db.usage[u][m].reserved = Cardinality(Waiting(m) \cap Of(db, u))

\* The deployment's bill is exact: every provider call is consumed once, in the
\* month it was reserved in, at its settled cost when the provider reported one
\* and at the conservative bound otherwise, and is counted unknown once when it
\* ended without a cost.
BillIsExact ==
  \A m \in Month :
    LET calls == Calls(m)
        CostOf(a) == IF db.attempt[a].cost = NoCost THEN Cost ELSE db.attempt[a].cost
    IN
    /\ db.global[m].consumed = Cardinality(calls)
    /\ db.global[m].estimated = MapThenSumSet(CostOf, calls)
    /\ db.global[m].unknown =
         Cardinality({a \in calls : db.attempt[a].status \in Settled /\ db.attempt[a].cost = NoCost})

\* The owner's quota counts each of their dispatched reports once, and each call
\* that ended without a result is recorded unknown once, whoever settled it.
QuotaIsExact ==
  \A m \in Month : \A u \in User :
    LET calls == Calls(m) \cap Of(db, u) IN
    /\ db.usage[u][m].consumed = Cardinality(calls)
    /\ db.usage[u][m].unknown =
         Cardinality({r \in calls : db.attempt[r].status \in {"failed", "unknown", "cancelled"}})

\* What was paid and what may still be paid never exceed the monthly budget, nor
\* an owner's reports their quota, however submissions, tests and settlements
\* interleave.
WithinLimits ==
  \A m \in Month :
    /\ db.global[m].estimated + db.global[m].reservedCost <= Budget
    /\ \A u \in User : db.usage[u][m].reserved + db.usage[u][m].consumed <= Quota

\* A request given back is recorded in the month it was reserved in.
ReleasedInOwnMonth ==
  \A m \in Month : \A u \in User :
    db.usage[u][m].released =
      Cardinality({r \in Of(db, u) \cap In(db, m) :
                     db.report[r].status \in {"failed", "cancelled"} /\ ~db.report[r].dispatched})

-----------------------------------------------------------------------------
(* Provider slots.                                                         *)

\* No more than CallCapacity calls are in flight, reports and tests together.
CapacityRespected == Cardinality(Slots(db)) <= CallCapacity

\* A slot stays taken until its own call is over or its deadline has passed:
\* cancelling, deleting, revoking or purging a report, or settling its attempt
\* elsewhere, frees no capacity while the provider is still working on it.
SlotOutlivesCancellation ==
  [][\A r \in Report :
       (db.attempt[r].slot = "held" /\ db'.attempt[r].slot = "free") =>
         \E w \in Worker : worker[w].report = r /\ worker[w].pc \in {"answered", "erred", "finishing"}]_vars

-----------------------------------------------------------------------------
(* The ledger the engine implements.                                       *)

\* A job's phase is that of its attempt, and before it has one that of its row.
JobPhase(j) ==
  LET attempt == db.attempt[j].status IN
  CASE attempt = "dispatched" -> "called"
    [] attempt = "succeeded" -> "published"
    [] attempt \in Settled \ {"succeeded"} -> "dropped"
    [] attempt = "none" /\ (j \in Test \/ db.report[j].status = "absent") -> "none"
    [] attempt = "none" /\ j \in Active(db) -> "waiting"
    [] OTHER -> "dropped"

Ledger == INSTANCE JobLedger WITH
  Job <- Attempt,
  phase <- [j \in Attempt |-> JobPhase(j)],
  period <- [j \in Attempt |-> IF JobPhase(j) = "waiting" THEN db.report[j].month ELSE db.attempt[j].month],
  committed <- [m \in Month |-> db.global[m].estimated + db.global[m].reservedCost]

\* The engine implements the ledger: whatever its workers, deadlines and
\* administrators do, each step moves every job along one phase, starts at most
\* one call, and moves the buckets by exactly what those phases cost.
ImplementsLedger == Ledger!Spec

-----------------------------------------------------------------------------
(* Configuration.                                                          *)

\* docs/runbooks/ai-reports.md:33 says that publishing a prompt fences the
\* results that are not published yet, as publishing a provider does.
PromptPublicationFences ==
  [][\A r \in Report :
       (db.report[r].status # "succeeded" /\ db'.report[r].status = "succeeded") =>
         db.report[r].prompt = runtime.prompt]_vars

-----------------------------------------------------------------------------
(* Progress.                                                               *)

\* Every provider call is settled in the end and its slot comes back, whatever
\* dies: the worker, the next worker, or the administrator's request.
CallsEnd ==
  \A a \in Attempt :
    (db.attempt[a].status # "none") ~> (db.attempt[a].status \in Settled /\ db.attempt[a].slot = "free")

\* When crashes and stalls stop, no submitted job waits or runs for ever.
Fault == \/ \E w \in Worker : Crash(w)
         \/ \E r \in Report : Held(r) /\ LeaseLapse(r)
JobsEnd == <>[][~Fault]_vars => \A r \in Report : (r \in Active(db)) ~> (r \notin Active(db))

=============================================================================
