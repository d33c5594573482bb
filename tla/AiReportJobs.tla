----------------------------- MODULE AiReportJobs -----------------------------
(***************************************************************************)
(* The AI report job engine: owners submit reports, workers lease and      *)
(* dispatch them to a paid provider at most once, and cancellation,        *)
(* deletion, revocation, configuration changes, source deletion, account   *)
(* deletion, lost leases and call deadlines all end them, each exactly     *)
(* once in the accounts.                                                   *)
(*                                                                         *)
(* `db' is the database.  Every operation that runs in one transaction     *)
(* under the global and owner advisory locks is one action; an operator    *)
(* from store to store is one of its SQL statements or helpers.  A         *)
(* worker's local variables survive between its transactions in `worker',  *)
(* and are lost when it crashes.  A passed deadline is a flag: "lapsed"    *)
(* stands for expiresAt < now, set by a step of its own at any moment.     *)
(***************************************************************************)
EXTENDS Integers, FiniteSets, AiUsage

CONSTANTS
  User,          \* accounts
  Worker,        \* report worker processes
  NumReports,    \* bound: rows ai_report can hold in a behaviour
  NumTests,      \* bound: administrator provider tests in a behaviour
  LastMonth,     \* bound: billing months in a behaviour
  LastProvider,  \* bound: provider configurations published in a behaviour
  LastPrompt,    \* bound: prompt versions published in a behaviour
  MaxWithdrawn,  \* bound: permissions withdrawn at the same time
  RecipientOf,   \* the recipient revision of each provider configuration
  Cost,          \* reservationCostCents of one provider call
  ActualCosts,   \* the settled costs a provider's usage can amount to
  Budget,        \* monthlyBudgetCents
  Quota,         \* monthlyQuota of each owner
  NoUser, NoWorker, NoCost

Report   == 1..NumReports
Test     == (NumReports + 1)..(NumReports + NumTests)
Attempt  == 1..(NumReports + NumTests)
Month    == 1..LastMonth
Provider == 1..LastProvider
Prompt   == 1..LastPrompt
NoReport == 0

ASSUME ConstantAssumption ==
  /\ NumReports \in Nat \ {0} /\ NumTests \in Nat
  /\ LastMonth \in Nat \ {0} /\ LastProvider \in Nat \ {0} /\ LastPrompt \in Nat \ {0}
  /\ MaxWithdrawn \in Nat
  /\ RecipientOf \in [Provider -> Nat \ {0}]
  /\ Cost \in Nat \ {0} /\ ActualCosts \subseteq 0..Cost /\ Budget \in Nat /\ Quota \in Nat
  /\ NoUser \notin User /\ NoWorker \notin Worker /\ NoCost \notin ActualCosts

\* the deployment never has more provider calls than this in flight
CallCapacity == 2

VARIABLES
  db,       \* the tables ai_report, ai_report_attempt and ai_usage_bucket
  users,    \* the accounts that exist
  access,   \* ai_user_access.enabled
  consent,  \* ai_user_consent: the accepted recipient revision, 0 when none or revoked
  runtime,  \* ai_runtime_state: generationEnabled and the active versions
  month,    \* the current UTC billing month
  worker    \* each worker's local variables between its transactions

vars == <<db, users, access, consent, runtime, month, worker>>

-----------------------------------------------------------------------------
(* Tables.                                                                 *)

ActiveStatus == {"queued", "running"}
Status == ActiveStatus \cup {"absent", "succeeded", "failed", "cancelled", "purged"}

\* The owner of a row keeps its month of submission (created_at and
\* reservation_bucket_month).  Lease and token are those of a running row: the
\* paths that end a job differ in which of the two they clear, and no statement
\* reads either of a row that is not running.  "current" and "changed" sources
\* are one: only "invalidated" is ever asked for.
Row == [owner : User \cup {NoUser}, month : Month, status : Status,
        invalidated : BOOLEAN, deleted : BOOLEAN, dispatched : BOOLEAN,
        token : Worker \cup {NoWorker}, lease : {"none", "live", "lapsed"},
        provider : Provider, prompt : Prompt]

NoRow(status) ==
  [owner |-> NoUser, month |-> 1, status |-> status,
   invalidated |-> FALSE, deleted |-> FALSE, dispatched |-> FALSE, token |-> NoWorker, lease |-> "none",
   provider |-> 1, prompt |-> 1]

Settled == {"succeeded", "failed", "unknown", "cancelled"}

AttemptRow == [status : {"none", "dispatched"} \cup Settled,
               slot : {"none", "held", "lapsed", "free"},
               month : Month, cost : ActualCosts \cup {NoCost}]

NoAttempt == [status |-> "none", slot |-> "none", month |-> 1, cost |-> NoCost]

\* mutant: the call is billed to the month after its reservation
NextMonthAttempt(m) == [status |-> "dispatched", slot |-> "held", month |-> m + 1, cost |-> NoCost]

NewAttempt(m) == [status |-> "dispatched", slot |-> "held", month |-> m, cost |-> NoCost]

Store == [report : [Report -> Row], attempt : [Attempt -> AttemptRow],
          usage : [User -> [Month -> UserBucket]], global : [Month -> GlobalBucket]]

WorkerState == {"idle", "claimed", "checked", "requeueing", "rejected",
                "calling", "answered", "erred", "finishing"}

\* mutant: a leased job is not counted as unfinished
IsWaiting(row) == row.status = "queued" /\ ~row.deleted

\* the table's definition of an unfinished job (ai_reports_one_active_job_key)
IsActive(row) == row.status \in ActiveStatus /\ ~row.deleted

Active(s) == {r \in Report : IsActive(s.report[r])}
Of(s, u) == {r \in Report : s.report[r].owner = u}
In(s, m) == {r \in Report : s.report[r].month = m}

\* countActiveCallSlots: any attempt whose slot was not released, settled or not
Slots(s) == {a \in Attempt : s.attempt[a].slot \in {"held", "lapsed"}}

\* mutant: off by one
Overfull(s) == Cardinality(Slots(s)) > CallCapacity

\* both the claim and every admission ask this before they go on
Full(s) == Cardinality(Slots(s)) >= CallCapacity

\* mutant: the lease stays on the row
StillLeased(row, status) == [row EXCEPT !.status = status]

\* a row whose lease is over
Unleased(row, status) == [row EXCEPT !.status = status, !.token = NoWorker, !.lease = "none"]

\* a transaction that would break the accounts is rolled back
Commit(s) == (\A m \in Month : BudgetStands(s.global[m])) /\ db' = s

-----------------------------------------------------------------------------
(* Statements shared by the transactions.                                  *)

\* mutant: a dispatched report is refunded too
RefundAll(s, S, outcome) ==
  [s EXCEPT
     !.usage = [u \in User |-> [m \in Month |->
       ReleaseUserQuota(s.usage[u][m], Cardinality(S \cap Of(s, u) \cap In(s, m)))]],
     !.global = [m \in Month |-> ReleaseGlobalBudget(s.global[m], Cardinality(S \cap In(s, m)), Cost)]]

\* mutant: the report ends and its attempt does not
LeaveAttempts(s, S, outcome) ==
  LET refunded == {r \in S : ~s.report[r].dispatched} IN
  [s EXCEPT
     !.usage = [u \in User |-> [m \in Month |->
       ReleaseUserQuota(s.usage[u][m], Cardinality(refunded \cap Of(s, u) \cap In(s, m)))]],
     !.global = [m \in Month |->
       ReleaseGlobalBudget(s.global[m], Cardinality(refunded \cap In(s, m)), Cost)]]

\* mutant: ending a dispatched report gives its slot back as well
FreeSlots(s, S, outcome) ==
  [s EXCEPT !.attempt = [a \in Attempt |->
     IF a \in S /\ s.attempt[a].status = "dispatched"
     THEN [s.attempt[a] EXCEPT !.status = outcome, !.slot = "free"] ELSE s.attempt[a]]]

\* Accounting for active reports S that are being ended: an undispatched one
\* gives its reservation back, a dispatched one whose attempt is still open
\* closes it with `outcome' and is counted unknown.
Account(s, S, outcome) ==
  LET refunded == {r \in S : ~s.report[r].dispatched}
      won == {r \in S : s.report[r].dispatched /\ s.attempt[r].status = "dispatched"}
  IN [s EXCEPT
        !.attempt = [a \in Attempt |->
          IF a \in won THEN [s.attempt[a] EXCEPT !.status = outcome] ELSE s.attempt[a]],
        !.usage = [u \in User |-> [m \in Month |->
          RecordUnknownUserUsage(
            ReleaseUserQuota(s.usage[u][m], Cardinality(refunded \cap Of(s, u) \cap In(s, m))),
            Cardinality(won \cap Of(s, u) \cap In(s, m)))]],
        !.global = [m \in Month |->
          SettleUnknownGlobalBudget(
            ReleaseGlobalBudget(s.global[m], Cardinality(refunded \cap In(s, m)), Cost),
            Cardinality(won \cap In(s, m)))]]

CancelRows(s, S) ==
  [s EXCEPT !.report = [r \in Report |->
     IF r \in S THEN Unleased(s.report[r], "cancelled") ELSE s.report[r]]]

CancelPending(s, S) == CancelRows(Account(s, S, "cancelled"), S)

\* mutant: a slot is reaped only while its attempt is open
ReapOpen(s) ==
  LET open == {a \in Attempt : s.attempt[a].slot = "lapsed" /\ s.attempt[a].status = "dispatched"}
  IN [s EXCEPT
        !.attempt = [a \in Attempt |->
          IF a \in open THEN [s.attempt[a] EXCEPT !.slot = "free", !.status = "unknown"] ELSE s.attempt[a]],
        !.report = [r \in Report |->
          IF r \in open THEN [s.report[r] EXCEPT !.status = "failed", !.token = NoWorker, !.lease = "none"]
                        ELSE s.report[r]]]

\* mutant: every reaped slot is settled, its attempt open or not
ReapSettled(s) ==
  LET lapsed == {a \in Attempt : s.attempt[a].slot = "lapsed"}
  IN [s EXCEPT
        !.attempt = [a \in Attempt |->
          IF a \in lapsed THEN [s.attempt[a] EXCEPT !.slot = "free", !.status = "unknown"]
                          ELSE s.attempt[a]],
        !.usage = [u \in User |-> [m \in Month |->
          RecordUnknownUserUsage(s.usage[u][m],
            Cardinality({r \in lapsed \cap Of(s, u) : s.attempt[r].month = m}))]]]

\* reapExpiredCallSlots: free every slot whose provider deadline has passed and
\* settle the attempts still open, with their reports
Reap(s) ==
  LET lapsed == {a \in Attempt : s.attempt[a].slot = "lapsed"}
      open == {a \in lapsed : s.attempt[a].status = "dispatched"}
      lost == {r \in Report \cap open : s.report[r].status = "running" /\ s.report[r].dispatched
                                         /\ ~s.report[r].deleted}
  IN [s EXCEPT
        !.attempt = [a \in Attempt |->
          IF a \in lapsed
          THEN [s.attempt[a] EXCEPT !.slot = "free", !.status = IF a \in open THEN "unknown" ELSE @]
          ELSE s.attempt[a]],
        !.report = [r \in Report |->
          IF r \in lost THEN Unleased(s.report[r], "failed") ELSE s.report[r]],
        !.usage = [u \in User |-> [m \in Month |->
          RecordUnknownUserUsage(s.usage[u][m],
            Cardinality({r \in open \cap Of(s, u) : s.attempt[r].month = m}))]],
        !.global = [m \in Month |->
          SettleUnknownGlobalBudget(s.global[m], Cardinality({a \in open : s.attempt[a].month = m}))]]

\* mutant: a lost call is tried again
RetryExpired(s) ==
  LET expired == {r \in Report : s.report[r].status = "running" /\ s.report[r].lease = "lapsed"}
      called == {r \in expired : s.report[r].dispatched}
  IN [s EXCEPT
        !.global = [m \in Month |-> ReleaseGlobalBudget(s.global[m], -Cardinality(called \cap In(s, m)), Cost)],
        !.report = [r \in Report |->
          IF r \in expired THEN [Unleased(s.report[r], "queued") EXCEPT !.dispatched = FALSE]
                           ELSE s.report[r]]]

\* mutant: only lost calls are recovered
FailExpired(s) ==
  [s EXCEPT !.report = [r \in Report |->
     IF s.report[r].status = "running" /\ s.report[r].lease = "lapsed" /\ s.report[r].dispatched
     THEN Unleased(s.report[r], "failed") ELSE s.report[r]]]

\* the rows a lost lease leaves: requeued before dispatch, failed after it
ExpireLeases(s) ==
  LET expired == {r \in Report : s.report[r].status = "running" /\ s.report[r].lease = "lapsed"
                                  /\ ~s.report[r].deleted}
      called == {r \in expired : s.report[r].dispatched}
  IN [Account(s, called, "unknown") EXCEPT
        !.report = [r \in Report |->
          IF r \in expired
          THEN Unleased(s.report[r], IF r \in called THEN "failed" ELSE "queued")
          ELSE s.report[r]]]

\* ai_invalidate_reports_for_source: the reports S built from a deleted source.
\* The owner's release names no month, so it reaches every bucket the owner has.
InvalidateSource(s, u, S) ==
  LET live == {r \in S : s.report[r].status \in ActiveStatus}
      refunded == {r \in live : ~s.report[r].dispatched}
      ended == Account(s, live, "unknown")
  IN [ended EXCEPT
        !.usage[u] = [m \in Month |->
          IF s.usage[u][m] # EmptyUserBucket THEN [ended.usage[u][m] EXCEPT
                                !.reserved = AtLeastZero(s.usage[u][m].reserved - Cardinality(refunded)),
                                !.released = s.usage[u][m].released + Cardinality(refunded)]
                        ELSE ended.usage[u][m]],
        !.global = [m \in Month |->
          [ended.global[m] EXCEPT !.reserved = AtLeastZero(@), !.reservedCost = AtLeastZero(@)]],
        !.report = [r \in Report |->
          IF r \in S
          THEN [(IF r \in live THEN Unleased(s.report[r], "cancelled") ELSE s.report[r])
                  EXCEPT !.invalidated = TRUE]
          ELSE s.report[r]]]

\* ai_reconcile_report_delete and the cascades of a deleted account: the rows go,
\* the attempts stay without an owner, the deployment's bucket keeps their cost
PurgeAccount(s, u) ==
  LET ending == {r \in Of(s, u) : s.report[r].status \in ActiveStatus
                                   \/ s.attempt[r].status = "dispatched"}
      ended == Account(s, ending, "unknown")
  IN [ended EXCEPT
        !.usage[u] = [m \in Month |-> EmptyUserBucket],
        !.global = [m \in Month |->
          [ended.global[m] EXCEPT !.reserved = AtLeastZero(@), !.reservedCost = AtLeastZero(@)]],
        !.report = [r \in Report |-> IF r \in Of(s, u) THEN NoRow("purged") ELSE s.report[r]]]

-----------------------------------------------------------------------------
(* The owner's requests.                                                   *)

\* the accounts, accesses, consents and the generation switch that are off now
Withdrawn ==
  Cardinality(User \ users) + Cardinality({u \in users : ~access[u]})
    + Cardinality({u \in users : consent[u] = 0}) + (IF runtime.enabled THEN 0 ELSE 1)

MayWithdraw == Withdrawn < MaxWithdrawn

ConsentIsValid(u, provider) == consent[u] = RecipientOf[provider]

\* AiReportService.generate, past its idempotency lookup: a fresh submission
Generate(u) ==
  /\ u \in users /\ access[u] /\ runtime.enabled /\ ConsentIsValid(u, runtime.provider)
  /\ Active(db) \cap Of(db, u) = {}
  /\ HasGlobalBudget(db.global[month], Cost, Budget)
  /\ HasUserQuota(db.usage[u][month], Quota)
  /\ \E r \in Report :
       /\ db.report[r].status = "absent"
       /\ \A q \in Report : db.report[q].status = "absent" => r <= q
       /\ Commit([db EXCEPT
            !.global[month] = ReserveGlobalBudget(@, Cost),
            !.usage[u][month] = ReserveUserQuota(@),
            !.report[r] = [NoRow("queued") EXCEPT !.owner = u, !.month = month,
                             !.provider = runtime.provider, !.prompt = runtime.prompt]])
  /\ UNCHANGED <<users, access, consent, runtime, month, worker>>

\* cancelAiReport
CancelReport(r) ==
  /\ r \in Active(db)
  /\ Commit(CancelPending(db, {r}))
  /\ UNCHANGED <<users, access, consent, runtime, month, worker>>

\* deleteAiReport: any report of a live account, finished or not
DeleteReport(r) ==
  /\ db.report[r].owner # NoUser /\ ~db.report[r].deleted
  /\ Commit([CancelPending(db, {r} \cap Active(db)) EXCEPT
               !.report[r].deleted = TRUE, !.report[r].invalidated = TRUE])
  /\ UNCHANGED <<users, access, consent, runtime, month, worker>>

\* acceptConsent reads the active provider before it writes: the revision it
\* stores may be one that has been replaced meanwhile
AcceptConsent(u) ==
  /\ u \in users
  /\ \E p \in 1..runtime.provider : consent' = [consent EXCEPT ![u] = RecipientOf[p]]
  /\ UNCHANGED <<db, users, access, runtime, month, worker>>

RevokeConsent(u) ==
  /\ u \in users /\ MayWithdraw
  /\ consent' = [consent EXCEPT ![u] = 0]
  /\ Commit(CancelPending(db, Active(db) \cap Of(db, u)))
  /\ UNCHANGED <<users, access, runtime, month, worker>>

\* a diary, transaction or discipline that the reports S were built from is deleted
DeleteSource(u) ==
  /\ u \in users
  /\ \E S \in SUBSET {r \in Of(db, u) : ~db.report[r].deleted /\ ~db.report[r].invalidated} :
       Commit(InvalidateSource(db, u, S))
  /\ UNCHANGED <<users, access, consent, runtime, month, worker>>

-----------------------------------------------------------------------------
(* The administrator's requests.                                           *)

UpdateAccess(u) ==
  /\ u \in users /\ access[u] => MayWithdraw
  /\ access' = [access EXCEPT ![u] = ~@]
  /\ Commit(IF access[u] THEN CancelPending(db, Active(db) \cap Of(db, u)) ELSE db)
  /\ UNCHANGED <<users, consent, runtime, month, worker>>

UpdateGenerationEnabled ==
  /\ runtime.enabled => MayWithdraw
  /\ runtime' = [runtime EXCEPT !.enabled = ~@]
  /\ Commit(IF runtime.enabled THEN CancelPending(db, Active(db)) ELSE db)
  /\ UNCHANGED <<users, access, consent, month, worker>>

\* mutant: the jobs of the replaced configuration go on
PublishProviderQuietly ==
  /\ runtime.provider < LastProvider
  /\ runtime' = [runtime EXCEPT !.provider = @ + 1]
  /\ UNCHANGED <<db, users, access, consent, month, worker>>

\* publishProvider: the jobs pinned to the replaced configuration are cancelled
PublishProvider ==
  /\ runtime.provider < LastProvider
  /\ runtime' = [runtime EXCEPT !.provider = @ + 1]
  /\ Commit(CancelPending(db, {r \in Active(db) : db.report[r].provider = runtime.provider}))
  /\ UNCHANGED <<users, access, consent, month, worker>>

\* publishPrompt touches no job, and an earlier version stays published
PublishPrompt ==
  /\ runtime.prompt < LastPrompt
  /\ runtime' = [runtime EXCEPT !.prompt = @ + 1]
  /\ UNCHANGED <<db, users, access, consent, month, worker>>

DeleteAccount(u) ==
  /\ u \in users /\ MayWithdraw
  /\ users' = users \ {u}
  /\ access' = [access EXCEPT ![u] = FALSE]
  /\ consent' = [consent EXCEPT ![u] = 0]
  /\ Commit(PurgeAccount(db, u))
  /\ UNCHANGED <<runtime, month, worker>>

\* admitAdminAttempt: a provider test takes a slot and its cost before the call
AdmitTest ==
  LET s == Reap(db) IN
  /\ \/ /\ Full(s) \/ ~HasGlobalBudget(s.global[month], Cost, Budget)
        /\ Commit(s)
     \/ /\ ~Full(s) /\ HasGlobalBudget(s.global[month], Cost, Budget)
        /\ \E t \in Test :
             /\ s.attempt[t].status = "none"
             /\ Commit([s EXCEPT !.attempt[t] = NewAttempt(month),
                  !.global[month] = ConsumeGlobalBudget(ReserveGlobalBudget(@, Cost), Cost)])
  /\ UNCHANGED <<users, access, consent, runtime, month, worker>>

\* settleAdminAttempt: the first settlement of an attempt wins, a reaped one is left alone
SettleTest(t) ==
  /\ db.attempt[t].status = "dispatched"
  /\ \E outcome \in {"succeeded", "unknown"}, cost \in ActualCosts \cup {NoCost} :
       /\ outcome = "unknown" => cost = NoCost
       /\ Commit([db EXCEPT
            !.attempt[t] = [@ EXCEPT !.status = outcome, !.slot = "free", !.cost = cost],
            !.global[db.attempt[t].month] =
              IF cost = NoCost THEN SettleUnknownGlobalBudget(@, 1)
                               ELSE SettleKnownGlobalBudget(@, Cost, cost)])
  /\ UNCHANGED <<users, access, consent, runtime, month, worker>>

-----------------------------------------------------------------------------
(* A report worker: runAiReportOnce.  A worker runs one job at a time, so    *)
(* its name stands for the lease token of its current claim.                 *)

IdleWorker == [pc |-> "idle", report |-> NoReport, admitted |-> FALSE]

Proceed(w, pc) == worker' = [worker EXCEPT ![w].pc = pc]
Return(w) == worker' = [worker EXCEPT ![w] = IdleWorker]
Finish(w) == IF worker[w].admitted THEN Proceed(w, "finishing") ELSE Return(w)

\* the fence of every write a worker makes: the row still carries its claim
Holds(s, w, r) ==
  s.report[r].status = "running" /\ s.report[r].token = w /\ ~s.report[r].deleted

\* claimNextAiReport: reap, take back lost leases, then lease the oldest job
Claim(w) ==
  LET s == ExpireLeases(Reap(db))
      queue == {r \in Report : s.report[r].status = "queued" /\ ~s.report[r].deleted
                                 /\ ~s.report[r].invalidated}
  IN
  /\ worker[w].pc = "idle"
  /\ \/ /\ Full(s) \/ queue = {}
        /\ Commit(s)
        /\ UNCHANGED worker
     \/ /\ ~Full(s)
        /\ \E r \in queue :
             /\ \A q \in queue : r <= q
             /\ Commit([s EXCEPT !.report[r] = [@ EXCEPT !.status = "running", !.token = w, !.lease = "live"]])
             /\ worker' = [worker EXCEPT ![w] = [pc |-> "claimed", report |-> r, admitted |-> FALSE]]
  /\ UNCHANGED <<users, access, consent, runtime, month>>

\* what both admission checks ask of the configuration and of the owner
Admissible(row) ==
  /\ runtime.enabled /\ runtime.provider = row.provider
  /\ access[row.owner] /\ ConsentIsValid(row.owner, row.provider)

\* assertDispatchStillAdmissible and dispatchInput: unlocked reads, and nothing
\* here looks at the lease token.  Any of them may also fail for its own reasons.
Precheck(w) ==
  LET row == db.report[worker[w].report] IN
  /\ worker[w].pc = "claimed"
  /\ \/ /\ row.status = "running" /\ ~row.deleted /\ ~row.invalidated
        /\ Admissible(row)
        /\ Proceed(w, "checked")
     \/ Proceed(w, "erred")
  /\ UNCHANGED <<db, users, access, consent, runtime, month>>

\* admitAiReportDispatch: the billing boundary.  The worker may lose the answer
\* of a transaction that committed, or the transaction may fail.
Admit(w) ==
  LET s == Reap(db)
      r == worker[w].report
      row == s.report[r]
      granted == /\ Holds(s, w, r) /\ ~row.invalidated /\ ~row.dispatched
                 /\ Admissible(row)
  IN
  /\ worker[w].pc = "checked"
  /\ \/ Full(s) /\ Commit(s) /\ Proceed(w, "requeueing")
     \/ ~Full(s) /\ ~granted /\ Commit(s) /\ Proceed(w, "rejected")
     \/ /\ ~Full(s) /\ granted
        /\ Commit([s EXCEPT
             !.report[r].dispatched = TRUE,
             !.attempt[r] = NewAttempt(row.month),
             !.global[row.month] = ConsumeGlobalBudget(@, Cost),
             !.usage[row.owner][row.month] = ConsumeUserQuota(@)])
        /\ \/ worker' = [worker EXCEPT ![w] = [@ EXCEPT !.pc = "calling", !.admitted = TRUE]]
           \/ Proceed(w, "erred")
     \/ UNCHANGED db /\ Proceed(w, "erred")
  /\ UNCHANGED <<users, access, consent, runtime, month>>

\* requeueAiReport, when every slot was taken
Requeue(w) ==
  LET r == worker[w].report
      row == db.report[r] IN
  /\ worker[w].pc = "requeueing"
  /\ \/ /\ Holds(db, w, r) /\ ~row.dispatched /\ ~row.invalidated
        /\ db' = [db EXCEPT !.report[r] =
                    Unleased(@, "queued")]
        /\ Return(w)
     \/ /\ ~(Holds(db, w, r) /\ ~row.dispatched /\ ~row.invalidated)
        /\ UNCHANGED db
        /\ Return(w)
     \/ UNCHANGED db /\ Proceed(w, "erred")
  /\ UNCHANGED <<users, access, consent, runtime, month>>

\* generateAiAnalysis and validateAiAnalysis: a valid answer, or an error, a
\* timeout, an answer that does not validate, or an abort by the heartbeat
CallReturns(w) ==
  /\ worker[w].pc = "calling"
  /\ Proceed(w, "answered") \/ Proceed(w, "erred")
  /\ UNCHANGED <<db, users, access, consent, runtime, month>>

\* completeAiReport: the fence is the row and its open attempt, not the clock
Complete(w) ==
  LET r == worker[w].report
      row == db.report[r]
      attempt == db.attempt[r]
      current == /\ Holds(db, w, r) /\ ~row.invalidated /\ row.dispatched
                 /\ attempt.status = "dispatched" /\ attempt.slot # "free"
  IN
  /\ worker[w].pc = "answered"
  /\ \/ /\ current
        /\ \E cost \in ActualCosts \cup {NoCost} :
             Commit([db EXCEPT
               !.attempt[r] = [@ EXCEPT !.status = "succeeded", !.slot = "free", !.cost = cost],
               !.report[r] = Unleased(@, "succeeded"),
               !.global[row.month] = IF cost = NoCost THEN SettleUnknownGlobalBudget(@, 1)
                                     ELSE SettleKnownGlobalBudget(@, Cost, cost)])
        /\ Proceed(w, "finishing") \/ Proceed(w, "erred")
     \/ ~current /\ UNCHANGED db /\ Proceed(w, "finishing")
     \/ UNCHANGED db /\ Proceed(w, "erred")
  /\ UNCHANGED <<users, access, consent, runtime, month>>

\* failAiReport: a rejected admission is never an unknown outcome.  When it
\* fails itself, the error leaves runAiReportOnce with nothing written.
Fail(w) ==
  LET r == worker[w].report
      row == db.report[r]
      open == row.dispatched => db.attempt[r].status = "dispatched" /\ db.attempt[r].slot # "free"
      ended == [Account(db, {r}, "failed") EXCEPT
                  !.report[r] = Unleased(@, "failed")]
  IN
  /\ worker[w].pc \in {"rejected", "erred"}
  /\ \/ /\ Holds(db, w, r) /\ open
        /\ IF ~row.dispatched THEN Commit(ended)
           ELSE \E outcome \in {"failed"} \cup (IF worker[w].pc = "erred" THEN {"unknown"} ELSE {}) :
                  Commit([ended EXCEPT !.attempt[r] = [@ EXCEPT !.status = outcome, !.slot = "free"]])
     \/ ~(Holds(db, w, r) /\ open) /\ UNCHANGED db
     \/ worker[w].pc = "erred" /\ UNCHANGED db
  /\ Finish(w)
  /\ UNCHANGED <<users, access, consent, runtime, month>>

\* releaseAiCallSlot, which may fail: the deadline reaper is the fallback
ReleaseSlot(w) ==
  LET a == worker[w].report IN
  /\ worker[w].pc = "finishing"
  /\ db' = [db EXCEPT !.attempt[a].slot = "free"] \/ UNCHANGED db
  /\ Return(w)
  /\ UNCHANGED <<users, access, consent, runtime, month>>

\* the process dies: its variables go, the rows it leased stay
Crash(w) ==
  /\ worker[w].pc # "idle"
  /\ Return(w)
  /\ UNCHANGED <<db, users, access, consent, runtime, month>>

-----------------------------------------------------------------------------
(* Time.  A heartbeat that succeeds leaves the lease live, so it is no step. *)

LeaseLapse(r) ==
  /\ db.report[r].status = "running" /\ db.report[r].lease = "live"
  /\ db' = [db EXCEPT !.report[r].lease = "lapsed"]
  /\ UNCHANGED <<users, access, consent, runtime, month, worker>>

SlotLapse(a) ==
  /\ db.attempt[a].slot = "held"
  /\ db' = [db EXCEPT !.attempt[a].slot = "lapsed"]
  /\ UNCHANGED <<users, access, consent, runtime, month, worker>>

NextMonth ==
  /\ month < LastMonth
  /\ month' = month + 1
  /\ UNCHANGED <<db, users, access, consent, runtime, worker>>

-----------------------------------------------------------------------------
Init ==
  /\ db = [report |-> [r \in Report |-> NoRow("absent")],
           attempt |-> [a \in Attempt |-> NoAttempt],
           usage |-> [u \in User |-> [m \in Month |-> EmptyUserBucket]],
           global |-> [m \in Month |-> EmptyGlobalBucket]]
  /\ users = User
  /\ access = [u \in User |-> TRUE]
  /\ consent = [u \in User |-> RecipientOf[1]]
  /\ runtime = [enabled |-> TRUE, provider |-> 1, prompt |-> 1]
  /\ month = 1
  /\ worker = [w \in Worker |-> IdleWorker]

OwnerRequest(u) ==
  Generate(u) \/ AcceptConsent(u) \/ RevokeConsent(u) \/ DeleteSource(u)

OwnerReportRequest(r) == CancelReport(r) \/ DeleteReport(r)

AdminRequest ==
  \/ \E u \in User : UpdateAccess(u) \/ DeleteAccount(u)
  \/ UpdateGenerationEnabled \/ PublishProvider \/ PublishPrompt
  \/ AdmitTest \/ \E t \in Test : SettleTest(t)

\* what a worker does with the job it has claimed
Work(w) ==
  Precheck(w) \/ Admit(w) \/ Requeue(w) \/ CallReturns(w) \/ Complete(w) \/ Fail(w) \/ ReleaseSlot(w)

Time == \/ \E r \in Report : LeaseLapse(r)
        \/ \E a \in Attempt : SlotLapse(a)
        \/ NextMonth

Next ==
  \/ \E u \in User : OwnerRequest(u)
  \/ \E r \in Report : OwnerReportRequest(r)
  \/ AdminRequest
  \/ \E w \in Worker : Claim(w) \/ Work(w) \/ Crash(w)
  \/ Time

Spec == Init /\ [][Next]_vars

\* runAiWorker polls for ever and every call it makes returns or times out; a
\* deadline passes when nobody extends it, and only the worker that holds a
\* lease does.  Nobody owes the system a request, a crash or a test's answer.
Held(r) == \E w \in Worker : worker[w].pc # "idle" /\ worker[w].report = r

Fairness ==
  /\ \A w \in Worker : WF_vars(Claim(w) \/ Work(w))
  /\ \A r \in Report : WF_vars(~Held(r) /\ LeaseLapse(r))
  /\ \A a \in Attempt : WF_vars(SlotLapse(a))

FairSpec == Spec /\ Fairness

=============================================================================
