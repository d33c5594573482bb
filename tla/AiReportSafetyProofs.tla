------------------------- MODULE AiReportSafetyProofs -------------------------
(***************************************************************************)
(* Type correctness and safety of AiReportJobs, for every number of        *)
(* accounts, workers, reports, tests and months.                           *)
(*                                                                         *)
(* The types: a lemma for each statement that maps stores to stores, one   *)
(* for each action, and the theorem they make.  A statement that changes   *)
(* several fields is proved with the new values hidden behind names, one   *)
(* field at a time.                                                        *)
(*                                                                         *)
(* The safety comes from one inductive invariant without cardinalities:    *)
(* the row of a report and its attempt agree (Consistent),                 *)
(* an unfinished job still has every permission it was submitted under     *)
(* (Permitted), and a worker that has called the provider finds its report *)
(* marked (CallsMarked).                                                   *)
(*                                                                         *)
(* Every transaction but a submission and a publication is shown to be a   *)
(* Continues step: it starts no job, publishes none, and moves what is     *)
(* settled only to "purged".  The properties follow from that relation.    *)
(***************************************************************************)
EXTENDS AiReportProperties, FiniteSetTheorems, TLAPS

-----------------------------------------------------------------------------
(* Types                                                                   *)

\* The number of attempts in a set is a natural number: the bound on rows makes the set
\* finite.
LEMMA CountIsNat ==
  ASSUME NEW S, S \subseteq Attempt
  PROVE  Cardinality(S) \in Nat
<1>1. IsFiniteSet(Attempt)
  BY FS_Interval, ConstantAssumption DEF Attempt
<1>2. QED
  BY <1>1, FS_Subset, FS_CardinalityType

\* An owner's bucket with natural numbers put into its fields is an owner's bucket.
LEMMA UserBucketUpdate ==
  ASSUME NEW b \in UserBucket, NEW x \in Nat, NEW y \in Nat
  PROVE  /\ [b EXCEPT !.reserved = x] \in UserBucket
         /\ [b EXCEPT !.unknown = x] \in UserBucket
         /\ [b EXCEPT !.reserved = x, !.released = y] \in UserBucket
         /\ [b EXCEPT !.reserved = x, !.consumed = y] \in UserBucket
BY DEF UserBucket

\* The deployment's bucket with numbers put into its fields is a deployment's bucket.
LEMMA GlobalBucketUpdate ==
  ASSUME NEW b \in GlobalBucket, NEW x \in Int, NEW y \in Int, NEW z \in Int, NEW n \in Nat
  PROVE  /\ [b EXCEPT !.unknown = n] \in GlobalBucket
         /\ [b EXCEPT !.estimated = x] \in GlobalBucket
         /\ [b EXCEPT !.reserved = x, !.reservedCost = y] \in GlobalBucket
         /\ [b EXCEPT !.reserved = x, !.reservedCost = y, !.released = n] \in GlobalBucket
         /\ [b EXCEPT !.reserved = x, !.reservedCost = y, !.consumed = n, !.estimated = z] \in GlobalBucket
BY DEF GlobalBucket

\* Every statement of quota.ts leaves an owner's bucket behind.
LEMMA UserBucketType ==
  ASSUME NEW b \in UserBucket, NEW n \in Nat
  PROVE  /\ ReserveUserQuota(b) \in UserBucket
         /\ ReleaseUserQuota(b, n) \in UserBucket
         /\ ConsumeUserQuota(b) \in UserBucket
         /\ RecordUnknownUserUsage(b, n) \in UserBucket
<1>1. /\ b.reserved + 1 \in Nat /\ b.consumed + 1 \in Nat
      /\ b.released + n \in Nat /\ b.unknown + n \in Nat
      /\ AtLeastZero(b.reserved - n) \in Nat /\ AtLeastZero(b.reserved - 1) \in Nat
  BY DEF UserBucket, AtLeastZero
<1> QED
  BY <1>1, UserBucketUpdate, Zenon
  DEF ReserveUserQuota, ReleaseUserQuota, ConsumeUserQuota, RecordUnknownUserUsage

\* Every statement of budget.ts leaves a deployment's bucket behind.
LEMMA GlobalBucketType ==
  ASSUME NEW b \in GlobalBucket, NEW n \in Nat, NEW c \in Nat
  PROVE  /\ ReserveGlobalBudget(b, Cost) \in GlobalBucket
         /\ ReleaseGlobalBudget(b, n, Cost) \in GlobalBucket
         /\ ConsumeGlobalBudget(b, Cost) \in GlobalBucket
         /\ SettleUnknownGlobalBudget(b, n) \in GlobalBucket
         /\ SettleKnownGlobalBudget(b, Cost, c) \in GlobalBucket
<1>1. Cost \in Int /\ n * Cost \in Int
  BY ConstantAssumption
<1>2. /\ b.reserved + 1 \in Int /\ b.reserved - 1 \in Int /\ b.reserved - n \in Int
      /\ b.reservedCost + Cost \in Int /\ b.reservedCost - Cost \in Int
      /\ b.reservedCost - n * Cost \in Int
      /\ b.consumed + 1 \in Nat /\ b.released + n \in Nat /\ b.unknown + n \in Nat
      /\ b.estimated + Cost \in Int /\ b.estimated + (c - Cost) \in Int
  BY <1>1 DEF GlobalBucket
<1> QED
  BY <1>2, GlobalBucketUpdate, Zenon
  DEF ReserveGlobalBudget, ReleaseGlobalBudget, ConsumeGlobalBudget,
      SettleUnknownGlobalBudget, SettleKnownGlobalBudget

\* Accounting for any set of reports, with any outcome, keeps the tables' types.
LEMMA AccountType ==
  ASSUME NEW s \in Store, NEW S \in SUBSET Report, NEW outcome \in Settled
  PROVE  Account(s, S, outcome) \in Store
<1> DEFINE refunded == {r \in S : ~s.report[r].dispatched}
           won == {r \in S : s.report[r].dispatched /\ s.attempt[r].status = "dispatched"}
           attempt == [a \in Attempt |->
             IF a \in won THEN [s.attempt[a] EXCEPT !.status = outcome] ELSE s.attempt[a]]
           usage == [u \in User |-> [m \in Month |->
             RecordUnknownUserUsage(
               ReleaseUserQuota(s.usage[u][m], Cardinality(refunded \cap Of(s, u) \cap In(s, m))),
               Cardinality(won \cap Of(s, u) \cap In(s, m)))]]
           global == [m \in Month |->
             SettleUnknownGlobalBudget(
               ReleaseGlobalBudget(s.global[m], Cardinality(refunded \cap In(s, m)), Cost),
               Cardinality(won \cap In(s, m)))]
<1>0. Report \subseteq Attempt
  BY ConstantAssumption DEF Report, Attempt
<1>1. attempt \in [Attempt -> AttemptRow]
  BY DEF Store, AttemptRow, Settled
<1>2. usage \in [User -> [Month -> UserBucket]]
  <2> SUFFICES ASSUME NEW u \in User, NEW m \in Month
               PROVE  usage[u][m] \in UserBucket
    OBVIOUS
  <2>1. /\ Cardinality(refunded \cap Of(s, u) \cap In(s, m)) \in Nat
        /\ Cardinality(won \cap Of(s, u) \cap In(s, m)) \in Nat
    BY CountIsNat, <1>0
  <2>2. s.usage[u][m] \in UserBucket
    BY DEF Store
  <2> QED
    BY <2>1, <2>2, UserBucketType
<1>3. global \in [Month -> GlobalBucket]
  <2> SUFFICES ASSUME NEW m \in Month
               PROVE  global[m] \in GlobalBucket
    OBVIOUS
  <2>1. /\ Cardinality(refunded \cap In(s, m)) \in Nat
        /\ Cardinality(won \cap In(s, m)) \in Nat
    BY CountIsNat, <1>0
  <2>2. s.global[m] \in GlobalBucket
    BY DEF Store
  <2>3. ReleaseGlobalBudget(s.global[m], Cardinality(refunded \cap In(s, m)), Cost) \in GlobalBucket
    BY <2>1, <2>2, GlobalBucketType
  <2> QED
    BY <2>1, <2>3, GlobalBucketType
<1>4. Account(s, S, outcome) = [s EXCEPT !.attempt = attempt, !.usage = usage, !.global = global]
  BY DEF Account
<1> HIDE DEF attempt, usage, global
<1> QED
  BY <1>1, <1>2, <1>3, <1>4 DEF Store

\* A row whose lease is over is a row.
LEMMA UnleasedType ==
  ASSUME NEW row \in Row, NEW status \in Status
  PROVE  Unleased(row, status) \in Row
BY DEF Unleased, Row

\* Cancelling any set of reports keeps the tables' types.
LEMMA CancelPendingType ==
  ASSUME NEW s \in Store, NEW S \in SUBSET Report
  PROVE  CancelPending(s, S) \in Store
<1> DEFINE a == Account(s, S, "cancelled")
           rows == [r \in Report |-> IF r \in S THEN Unleased(a.report[r], "cancelled") ELSE a.report[r]]
<1>1. a \in Store
  BY AccountType DEF Settled
<1>2. "cancelled" \in Status
  BY DEF Status
<1>3. rows \in [Report -> Row]
  BY <1>1, <1>2, UnleasedType DEF Store
<1>4. CancelPending(s, S) = [a EXCEPT !.report = rows]
  BY DEF CancelPending, CancelRows
<1> HIDE DEF a, rows
<1> QED
  BY <1>1, <1>3, <1>4 DEF Store

\* Reaping expired slots keeps the tables' types.
LEMMA ReapType ==
  ASSUME NEW s \in Store
  PROVE  Reap(s) \in Store
<1> DEFINE lapsed == {a \in Attempt : s.attempt[a].slot = "lapsed"}
           open == {a \in lapsed : s.attempt[a].status = "dispatched"}
           lost == {r \in Report \cap open : s.report[r].status = "running" /\ s.report[r].dispatched
                                              /\ ~s.report[r].deleted}
           attempt == [a \in Attempt |->
             IF a \in lapsed
             THEN [s.attempt[a] EXCEPT !.slot = "free", !.status = IF a \in open THEN "unknown" ELSE @]
             ELSE s.attempt[a]]
           report == [r \in Report |->
             IF r \in lost THEN Unleased(s.report[r], "failed") ELSE s.report[r]]
           usage == [u \in User |-> [m \in Month |->
             RecordUnknownUserUsage(s.usage[u][m],
               Cardinality({r \in open \cap Of(s, u) : s.attempt[r].month = m}))]]
           global == [m \in Month |->
             SettleUnknownGlobalBudget(s.global[m], Cardinality({a \in open : s.attempt[a].month = m}))]
<1>1. attempt \in [Attempt -> AttemptRow]
  <2>1. \A row \in AttemptRow : \A status \in {row.status, "unknown"} :
          [row EXCEPT !.slot = "free", !.status = status] \in AttemptRow
    BY DEF AttemptRow, Settled
  <2>2. \A a \in Attempt : s.attempt[a] \in AttemptRow
    BY DEF Store
  <2>3. \A a \in Attempt : attempt[a] =
          IF a \in lapsed
          THEN [s.attempt[a] EXCEPT !.slot = "free",
                  !.status = IF a \in open THEN "unknown" ELSE s.attempt[a].status]
          ELSE s.attempt[a]
    OBVIOUS
  <2>4. attempt = [a \in Attempt |-> attempt[a]]
    BY SMTT(40), SMTT(80)
  <2> HIDE DEF attempt, lapsed, open
  <2>5. \A a \in Attempt : attempt[a] \in AttemptRow
    BY <2>1, <2>2, <2>3
  <2>6. QED
    BY <2>4, <2>5
<1>2. report \in [Report -> Row]
  BY UnleasedType DEF Store, Status
<1>3. usage \in [User -> [Month -> UserBucket]]
  <2> SUFFICES ASSUME NEW u \in User, NEW m \in Month
               PROVE  usage[u][m] \in UserBucket
    OBVIOUS
  <2>1. Cardinality({r \in open \cap Of(s, u) : s.attempt[r].month = m}) \in Nat
    BY CountIsNat
  <2>2. s.usage[u][m] \in UserBucket
    BY DEF Store
  <2> QED
    BY <2>1, <2>2, UserBucketType
<1>4. global \in [Month -> GlobalBucket]
  <2> SUFFICES ASSUME NEW m \in Month
               PROVE  global[m] \in GlobalBucket
    OBVIOUS
  <2>1. Cardinality({a \in open : s.attempt[a].month = m}) \in Nat
    BY CountIsNat
  <2>2. s.global[m] \in GlobalBucket
    BY DEF Store
  <2> QED
    BY <2>1, <2>2, GlobalBucketType
<1>5. Reap(s) = [s EXCEPT !.attempt = attempt, !.report = report, !.usage = usage, !.global = global]
  BY DEF Reap
<1> HIDE DEF attempt, report, usage, global
<1> QED
  BY <1>1, <1>2, <1>3, <1>4, <1>5 DEF Store

\* Recovering lost leases keeps the tables' types.
LEMMA ExpireLeasesType ==
  ASSUME NEW s \in Store
  PROVE  ExpireLeases(s) \in Store
<1> DEFINE expired == {r \in Report : s.report[r].status = "running" /\ s.report[r].lease = "lapsed"
                                       /\ ~s.report[r].deleted}
           called == {r \in expired : s.report[r].dispatched}
           a == Account(s, called, "unknown")
           report == [r \in Report |->
             IF r \in expired
             THEN Unleased(s.report[r], IF r \in called THEN "failed" ELSE "queued")
             ELSE s.report[r]]
<1>1. a \in Store
  BY AccountType DEF Settled
<1>2. report \in [Report -> Row]
  BY UnleasedType DEF Store, Status, ActiveStatus
<1>3. ExpireLeases(s) = [a EXCEPT !.report = report]
  BY DEF ExpireLeases
<1> HIDE DEF a, report
<1> QED
  BY <1>1, <1>2, <1>3 DEF Store

\* The triggers' greatest(0, ...) leaves a deployment's bucket behind.
LEMMA ShrunkBucketType ==
  ASSUME NEW b \in GlobalBucket
  PROVE  [b EXCEPT !.reserved = AtLeastZero(@), !.reservedCost = AtLeastZero(@)] \in GlobalBucket
<1>1. AtLeastZero(b.reserved) \in Int /\ AtLeastZero(b.reservedCost) \in Int
  BY DEF AtLeastZero, GlobalBucket
<1> QED
  BY <1>1, GlobalBucketUpdate, Zenon

\* The single-row updates of ai_report leave a row behind.
LEMMA RowUpdate ==
  ASSUME NEW row \in Row
  PROVE  /\ [row EXCEPT !.invalidated = TRUE] \in Row
         /\ [row EXCEPT !.deleted = TRUE, !.invalidated = TRUE] \in Row
         /\ [row EXCEPT !.dispatched = TRUE] \in Row
         /\ [row EXCEPT !.lease = "lapsed"] \in Row
         /\ \A w \in Worker :
              [row EXCEPT !.status = "running", !.token = w, !.lease = "live"] \in Row
BY DEF Row, Status, ActiveStatus

\* The single-row updates of ai_report_attempt leave an attempt behind.
LEMMA AttemptUpdate ==
  ASSUME NEW attempt \in AttemptRow, NEW status \in Settled, NEW cost \in ActualCosts \cup {NoCost}
  PROVE  /\ [attempt EXCEPT !.status = status, !.slot = "free", !.cost = cost] \in AttemptRow
         /\ [attempt EXCEPT !.status = status, !.slot = "free"] \in AttemptRow
         /\ [attempt EXCEPT !.slot = "free"] \in AttemptRow
         /\ [attempt EXCEPT !.slot = "lapsed"] \in AttemptRow
BY DEF AttemptRow

\* A row that does not exist, or not any more, is a row of the model.
LEMMA NoRowType ==
  ASSUME NEW status \in Status
  PROVE  NoRow(status) \in Row
<1>1. 1 \in Month /\ 1 \in Provider /\ 1 \in Prompt
  BY ConstantAssumption DEF Month, Provider, Prompt
<1> QED
  BY <1>1 DEF NoRow, Row

\* The source trigger keeps the tables' types.
LEMMA InvalidateSourceType ==
  ASSUME NEW s \in Store, NEW u \in User, NEW S \in SUBSET Report
  PROVE  InvalidateSource(s, u, S) \in Store
<1> DEFINE live == {r \in S : s.report[r].status \in ActiveStatus}
           n == Cardinality({r \in live : ~s.report[r].dispatched})
           ended == Account(s, live, "unknown")
           mine == [m \in Month |->
             IF s.usage[u][m] # EmptyUserBucket THEN [ended.usage[u][m] EXCEPT
                                   !.reserved = AtLeastZero(s.usage[u][m].reserved - n),
                                   !.released = s.usage[u][m].released + n]
                           ELSE ended.usage[u][m]]
           global == [m \in Month |->
             [ended.global[m] EXCEPT !.reserved = AtLeastZero(@), !.reservedCost = AtLeastZero(@)]]
           report == [r \in Report |->
             IF r \in S
             THEN [(IF r \in live THEN Unleased(s.report[r], "cancelled") ELSE s.report[r])
                     EXCEPT !.invalidated = TRUE]
             ELSE s.report[r]]
<1>1. ended \in Store
  BY AccountType DEF Settled
<1>2. n \in Nat
  <2>1. {r \in live : ~s.report[r].dispatched} \subseteq Attempt
    <3>1. Report \subseteq Attempt
      BY ConstantAssumption DEF Report, Attempt
    <3> QED
      BY <3>1, Zenon
  <2> QED
    BY <2>1, CountIsNat
<1>3. mine \in [Month -> UserBucket]
  <2> SUFFICES ASSUME NEW m \in Month
               PROVE  mine[m] \in UserBucket
    OBVIOUS
  <2>1. ended.usage[u][m] \in UserBucket /\ s.usage[u][m] \in UserBucket
    BY <1>1 DEF Store
  <2> HIDE DEF ended, n
  <2>2. AtLeastZero(s.usage[u][m].reserved - n) \in Nat /\ s.usage[u][m].released + n \in Nat
    BY SMTT(40), SMTT(80), <1>2, <2>1 DEF UserBucket, AtLeastZero
  <2> QED
    BY ZenonT(60), ZenonT(90), <2>1, <2>2, UserBucketUpdate
<1>4. global \in [Month -> GlobalBucket]
  BY <1>1, ShrunkBucketType DEF Store
<1>5. report \in [Report -> Row]
  BY UnleasedType, RowUpdate DEF Store, Status
<1> DEFINE usage == [ended.usage EXCEPT ![u] = mine]
<1>6. InvalidateSource(s, u, S) = [ended EXCEPT !.usage = usage, !.global = global, !.report = report]
  BY DEF InvalidateSource
<1> HIDE DEF ended, mine, global, report
<1>7. usage \in [User -> [Month -> UserBucket]]
  BY <1>1, <1>3 DEF Store
<1> HIDE DEF usage
<1> QED
  BY <1>1, <1>4, <1>5, <1>6, <1>7 DEF Store

\* Deleting an account keeps the tables' types.
LEMMA PurgeAccountType ==
  ASSUME NEW s \in Store, NEW u \in User
  PROVE  PurgeAccount(s, u) \in Store
<1> DEFINE ending == {r \in Of(s, u) : s.report[r].status \in ActiveStatus
                                        \/ s.attempt[r].status = "dispatched"}
           ended == Account(s, ending, "unknown")
           mine == [m \in Month |-> EmptyUserBucket]
           global == [m \in Month |->
             [ended.global[m] EXCEPT !.reserved = AtLeastZero(@), !.reservedCost = AtLeastZero(@)]]
           report == [r \in Report |-> IF r \in Of(s, u) THEN NoRow("purged") ELSE s.report[r]]
<1>1. ended \in Store
  BY AccountType DEF Settled, Of
<1>2. mine \in [Month -> UserBucket]
  BY DEF EmptyUserBucket, UserBucket
<1>3. global \in [Month -> GlobalBucket]
  BY <1>1, ShrunkBucketType DEF Store
<1>4. report \in [Report -> Row]
  BY NoRowType DEF Store, Status
<1> DEFINE usage == [ended.usage EXCEPT ![u] = mine]
<1>5. PurgeAccount(s, u) = [ended EXCEPT !.usage = usage, !.global = global, !.report = report]
  BY DEF PurgeAccount
<1> HIDE DEF ended, mine, global, report
<1>6. usage \in [User -> [Month -> UserBucket]]
  BY <1>1, <1>2 DEF Store
<1> HIDE DEF usage
<1> QED
  BY <1>1, <1>3, <1>4, <1>5, <1>6 DEF Store

-----------------------------------------------------------------------------
(* Types of the actions.                                                   *)

\* The empty database is of its type.
LEMMA InitType == Init => TypeOK
<1> SUFFICES ASSUME Init PROVE TypeOK
  OBVIOUS
<1>1. db \in Store
  <2>1. [r \in Report |-> NoRow("absent")] \in [Report -> Row]
    BY NoRowType DEF Status
  <2>2. [a \in Attempt |-> NoAttempt] \in [Attempt -> AttemptRow]
    BY ConstantAssumption DEF NoAttempt, AttemptRow, Month
  <2>3. /\ [u \in User |-> [m \in Month |-> EmptyUserBucket]] \in [User -> [Month -> UserBucket]]
        /\ [m \in Month |-> EmptyGlobalBucket] \in [Month -> GlobalBucket]
    BY DEF EmptyUserBucket, UserBucket, EmptyGlobalBucket, GlobalBucket
  <2> QED
    BY <2>1, <2>2, <2>3 DEF Init, Store
<1>2. 1 \in Provider /\ 1 \in Prompt /\ 1 \in Month /\ RecipientOf[1] \in Nat
  BY ConstantAssumption DEF Provider, Prompt, Month
<1> QED
  BY <1>1, <1>2 DEF Init, TypeOK, IdleWorker, WorkerState, NoReport

\* Writing one row keeps the tables' types.
LEMMA RowChange ==
  ASSUME NEW s \in Store, NEW r, NEW row \in Row
  PROVE  [s EXCEPT !.report[r] = row] \in Store
BY DEF Store

\* Writing one attempt keeps the tables' types.
LEMMA AttemptChange ==
  ASSUME NEW s \in Store, NEW a, NEW attempt \in AttemptRow
  PROVE  [s EXCEPT !.attempt[a] = attempt] \in Store
BY DEF Store

\* Writing one of the deployment's buckets keeps the tables' types.
LEMMA GlobalChange ==
  ASSUME NEW s \in Store, NEW m, NEW b \in GlobalBucket
  PROVE  [s EXCEPT !.global[m] = b] \in Store
BY DEF Store

\* Writing one of an owner's buckets keeps the tables' types.
LEMMA UsageChange ==
  ASSUME NEW s \in Store, NEW u, NEW m, NEW b \in UserBucket
  PROVE  [s EXCEPT !.usage[u][m] = b] \in Store
BY DEF Store

\* Switching generation and publishing a version keep the runtime state's type.
LEMMA RuntimeChange ==
  ASSUME TypeOK
  PROVE  /\ [runtime EXCEPT !.enabled = ~@] \in [enabled : BOOLEAN, provider : Provider, prompt : Prompt]
         /\ runtime.provider < LastProvider =>
              [runtime EXCEPT !.provider = @ + 1] \in [enabled : BOOLEAN, provider : Provider, prompt : Prompt]
         /\ runtime.prompt < LastPrompt =>
              [runtime EXCEPT !.prompt = @ + 1] \in [enabled : BOOLEAN, provider : Provider, prompt : Prompt]
<1>1. runtime \in [enabled : BOOLEAN, provider : Provider, prompt : Prompt]
  BY DEF TypeOK
<1>2. (~runtime.enabled) \in BOOLEAN
  OBVIOUS
<1>3. runtime.provider < LastProvider => runtime.provider + 1 \in Provider
  BY <1>1, ConstantAssumption DEF Provider
<1>4. runtime.prompt < LastPrompt => runtime.prompt + 1 \in Prompt
  BY <1>1, ConstantAssumption DEF Prompt
<1>5. /\ \A e \in BOOLEAN : [runtime EXCEPT !.enabled = e] \in [enabled : BOOLEAN, provider : Provider, prompt : Prompt]
      /\ \A p \in Provider : [runtime EXCEPT !.provider = p] \in [enabled : BOOLEAN, provider : Provider, prompt : Prompt]
      /\ \A p \in Prompt : [runtime EXCEPT !.prompt = p] \in [enabled : BOOLEAN, provider : Provider, prompt : Prompt]
  BY <1>1
<1> QED
  BY <1>2, <1>3, <1>4, <1>5, Zenon

\* Generate keeps the types.
LEMMA GenerateType ==
  ASSUME TypeOK, NEW u \in User, Generate(u)
  PROVE  TypeOK'
<1>1. PICK r \in Report :
        db' = [db EXCEPT
            !.global[month] = ReserveGlobalBudget(@, Cost),
            !.usage[u][month] = ReserveUserQuota(@),
            !.report[r] = [NoRow("queued") EXCEPT !.owner = u, !.month = month,
                             !.provider = runtime.provider, !.prompt = runtime.prompt]]
  BY DEF Generate, Commit
<1> DEFINE b == ReserveGlobalBudget(db.global[month], Cost)
           q == ReserveUserQuota(db.usage[u][month])
           row == [NoRow("queued") EXCEPT !.owner = u, !.month = month,
                             !.provider = runtime.provider, !.prompt = runtime.prompt]
           s1 == [db EXCEPT !.global[month] = b]
           s2 == [s1 EXCEPT !.usage[u][month] = q]
<1>2. b \in GlobalBucket /\ q \in UserBucket
  BY GlobalBucketType, UserBucketType DEF TypeOK, Store
<1>3. row \in Row
  BY DEF TypeOK, NoRow, Row, Status, ActiveStatus
<1>4. db' = [s2 EXCEPT !.report[r] = row]
  BY <1>1 DEF TypeOK, Store
<1> HIDE DEF b, q, row
<1>5. s1 \in Store
  BY <1>2, GlobalChange DEF TypeOK
<1> HIDE DEF s1
<1>6. s2 \in Store
  BY <1>2, <1>5, UsageChange
<1> HIDE DEF s2
<1>7. db' \in Store
  BY <1>3, <1>4, <1>6, RowChange
<1> QED
  BY <1>7 DEF Generate, TypeOK

\* CancelReport keeps the types.
LEMMA CancelReportType ==
  ASSUME TypeOK, NEW r \in Report, CancelReport(r)
  PROVE  TypeOK'
<1>1. db' \in Store
  BY CancelPendingType DEF CancelReport, Commit, TypeOK
<1> QED
  BY <1>1 DEF CancelReport, TypeOK

\* DeleteReport keeps the types.
LEMMA DeleteReportType ==
  ASSUME TypeOK, NEW r \in Report, DeleteReport(r)
  PROVE  TypeOK'
<1> DEFINE s == CancelPending(db, {r} \cap Active(db))
           row == [s.report[r] EXCEPT !.deleted = TRUE, !.invalidated = TRUE]
<1>1. s \in Store
  BY SMTT(40), SMTT(80), CancelPendingType DEF TypeOK
<1> HIDE DEF s
<1>2. row \in Row
  <2>1. s.report[r] \in Row
    BY <1>1 DEF Store
  <2> QED
    BY <2>1, RowUpdate
<1>3. db' = [s EXCEPT !.report[r].deleted = TRUE, !.report[r].invalidated = TRUE]
  BY DEF DeleteReport, Commit, s
<1>4. db' = [s EXCEPT !.report[r] = row]
  BY <1>1, <1>3 DEF Store
<1> HIDE DEF row
<1>5. db' \in Store
  BY <1>1, <1>2, <1>4, RowChange
<1> QED
  BY <1>5 DEF DeleteReport, TypeOK

\* AcceptConsent keeps the types.
LEMMA AcceptConsentType ==
  ASSUME TypeOK, NEW u \in User, AcceptConsent(u)
  PROVE  TypeOK'
<1>1. PICK p \in 1..runtime.provider : consent' = [consent EXCEPT ![u] = RecipientOf[p]]
  BY DEF AcceptConsent
<1>2. RecipientOf[p] \in Nat
  BY ConstantAssumption DEF TypeOK, Provider
<1> QED
  BY <1>1, <1>2 DEF AcceptConsent, TypeOK

\* RevokeConsent keeps the types.
LEMMA RevokeConsentType ==
  ASSUME TypeOK, NEW u \in User, RevokeConsent(u)
  PROVE  TypeOK'
<1>1. db' \in Store
  BY CancelPendingType DEF RevokeConsent, Commit, TypeOK, Active
<1> QED
  BY <1>1 DEF RevokeConsent, TypeOK

\* DeleteSource keeps the types.
LEMMA DeleteSourceType ==
  ASSUME TypeOK, NEW u \in User, DeleteSource(u)
  PROVE  TypeOK'
<1>1. PICK S \in SUBSET Report : db' = InvalidateSource(db, u, S)
  BY DEF DeleteSource, Commit, Of
<1>2. db' \in Store
  BY <1>1, InvalidateSourceType DEF TypeOK
<1> QED
  BY <1>2 DEF DeleteSource, TypeOK

\* UpdateAccess keeps the types.
LEMMA UpdateAccessType ==
  ASSUME TypeOK, NEW u \in User, UpdateAccess(u)
  PROVE  TypeOK'
<1>1. db' \in Store
  BY CancelPendingType DEF UpdateAccess, Commit, TypeOK, Active
<1>2. access' \in [User -> BOOLEAN]
  <2>1. (~access[u]) \in BOOLEAN
    OBVIOUS
  <2>2. \A e \in BOOLEAN : [access EXCEPT ![u] = e] \in [User -> BOOLEAN]
    BY DEF TypeOK
  <2> QED
    BY <2>1, <2>2, Zenon DEF UpdateAccess
<1> QED
  BY <1>1, <1>2 DEF UpdateAccess, TypeOK

\* UpdateGenerationEnabled keeps the types.
LEMMA UpdateGenerationEnabledType ==
  ASSUME TypeOK, UpdateGenerationEnabled
  PROVE  TypeOK'
<1>1. db' \in Store
  BY CancelPendingType DEF UpdateGenerationEnabled, Commit, TypeOK, Active
<1>2. runtime' \in [enabled : BOOLEAN, provider : Provider, prompt : Prompt]
  BY RuntimeChange, Zenon DEF UpdateGenerationEnabled
<1> QED
  BY <1>1, <1>2 DEF UpdateGenerationEnabled, TypeOK

\* PublishProvider keeps the types.
LEMMA PublishProviderType ==
  ASSUME TypeOK, PublishProvider
  PROVE  TypeOK'
<1>1. db' \in Store
  BY CancelPendingType DEF PublishProvider, Commit, TypeOK, Active
<1>2. runtime' \in [enabled : BOOLEAN, provider : Provider, prompt : Prompt]
  BY RuntimeChange, Zenon DEF PublishProvider
<1> QED
  BY <1>1, <1>2 DEF PublishProvider, TypeOK

\* PublishPrompt keeps the types.
LEMMA PublishPromptType ==
  ASSUME TypeOK, PublishPrompt
  PROVE  TypeOK'
<1>1. runtime' \in [enabled : BOOLEAN, provider : Provider, prompt : Prompt]
  BY RuntimeChange, Zenon DEF PublishPrompt
<1> QED
  BY <1>1 DEF PublishPrompt, TypeOK

\* DeleteAccount keeps the types.
LEMMA DeleteAccountType ==
  ASSUME TypeOK, NEW u \in User, DeleteAccount(u)
  PROVE  TypeOK'
<1>1. db' \in Store
  BY PurgeAccountType DEF DeleteAccount, Commit, TypeOK
<1>2. access' \in [User -> BOOLEAN] /\ consent' \in [User -> Nat] /\ users' \in SUBSET User
  BY DEF DeleteAccount, TypeOK
<1> QED
  BY <1>1, <1>2 DEF DeleteAccount, TypeOK

\* So does a settlement whose cost may be unknown.
LEMMA SettleBucketType ==
  ASSUME NEW b \in GlobalBucket, NEW c \in ActualCosts \cup {NoCost}
  PROVE  (IF c = NoCost THEN SettleUnknownGlobalBudget(b, 1)
                        ELSE SettleKnownGlobalBudget(b, Cost, c)) \in GlobalBucket
<1>1. c # NoCost => c \in Nat
  BY ConstantAssumption
<1>2. 1 \in Nat
  OBVIOUS
<1> QED
  BY <1>1, <1>2, GlobalBucketType

\* A new attempt is an attempt.
LEMMA NewAttemptType ==
  ASSUME NEW m \in Month
  PROVE  NewAttempt(m) \in AttemptRow
BY DEF NewAttempt, AttemptRow

\* AdmitTest keeps the types.
LEMMA AdmitTestType ==
  ASSUME TypeOK, AdmitTest
  PROVE  TypeOK'
<1> DEFINE s == Reap(db)
           b == ConsumeGlobalBudget(ReserveGlobalBudget(s.global[month], Cost), Cost)
           attempt == NewAttempt(month)
<1>1. s \in Store
  BY ReapType DEF TypeOK
<1> HIDE DEF s
<1>2. b \in GlobalBucket
  <2>1. s.global[month] \in GlobalBucket
    BY <1>1 DEF TypeOK, Store
  <2> QED
    BY <2>1, GlobalBucketType
<1>3. attempt \in AttemptRow
  BY NewAttemptType DEF TypeOK
<1> HIDE DEF b, attempt
<1>4. ASSUME NEW t \in Test,
             db' = [s EXCEPT !.attempt[t] = NewAttempt(month),
                  !.global[month] = ConsumeGlobalBudget(ReserveGlobalBudget(@, Cost), Cost)]
      PROVE  db' \in Store
  <2> DEFINE s1 == [s EXCEPT !.attempt[t] = attempt]
  <2>1. s1 \in Store
    BY <1>1, <1>3, AttemptChange
  <2>2. db' = [s1 EXCEPT !.global[month] = b]
    BY SMTT(40), SMTT(80), <1>1, <1>4 DEF Store, b, attempt
  <2> HIDE DEF s1
  <2> QED
    BY <1>2, <2>1, <2>2, GlobalChange
<1>5. db' = s \/ \E t \in Test :
        db' = [s EXCEPT !.attempt[t] = NewAttempt(month),
                  !.global[month] = ConsumeGlobalBudget(ReserveGlobalBudget(@, Cost), Cost)]
  BY DEF AdmitTest, Commit, s
<1>6. db' \in Store
  BY <1>1, <1>4, <1>5
<1> QED
  BY <1>6 DEF AdmitTest, TypeOK

\* SettleTest keeps the types.
LEMMA SettleTestType ==
  ASSUME TypeOK, NEW t \in Test, SettleTest(t)
  PROVE  TypeOK'
<1>1. PICK outcome \in {"succeeded", "unknown"}, cost \in ActualCosts \cup {NoCost} :
        db' = [db EXCEPT
            !.attempt[t] = [@ EXCEPT !.status = outcome, !.slot = "free", !.cost = cost],
            !.global[db.attempt[t].month] =
              IF cost = NoCost THEN SettleUnknownGlobalBudget(@, 1)
                               ELSE SettleKnownGlobalBudget(@, Cost, cost)]
  BY DEF SettleTest, Commit
<1> DEFINE attempt == [db.attempt[t] EXCEPT !.status = outcome, !.slot = "free", !.cost = cost]
           m == db.attempt[t].month
           b == IF cost = NoCost THEN SettleUnknownGlobalBudget(db.global[m], 1)
                                 ELSE SettleKnownGlobalBudget(db.global[m], Cost, cost)
           s1 == [db EXCEPT !.attempt[t] = attempt]
<1>2. t \in Attempt
  BY ConstantAssumption DEF Test, Attempt
<1>3. attempt \in AttemptRow
  <2>1. db.attempt[t] \in AttemptRow /\ outcome \in Settled
    BY <1>2 DEF TypeOK, Store, Settled
  <2> QED
    BY <2>1, AttemptUpdate
<1>4. b \in GlobalBucket
  BY <1>2, SettleBucketType DEF TypeOK, Store, AttemptRow
<1>5. db' = [s1 EXCEPT !.global[m] = b]
  <2>1. db.attempt[t].month \in Month
    BY <1>2 DEF TypeOK, Store, AttemptRow
  <2> QED
    BY <1>1, <2>1 DEF TypeOK, Store
<1> HIDE DEF attempt, b
<1>6. s1 \in Store
  BY <1>3, AttemptChange DEF TypeOK
<1> HIDE DEF s1
<1>7. db' \in Store
  BY <1>4, <1>5, <1>6, GlobalChange
<1> QED
  BY SMTT(40), SMTT(80), <1>7 DEF SettleTest, TypeOK

\* Leasing a row and taking its lease back keep the tables' types.
LEMMA LeaseType ==
  ASSUME NEW s \in Store, NEW r \in Report, NEW w \in Worker
  PROVE  /\ [s EXCEPT !.report[r] = [@ EXCEPT !.status = "running", !.token = w, !.lease = "live"]] \in Store
         /\ [s EXCEPT !.report[r] = Unleased(@, "queued")] \in Store
         /\ [s EXCEPT !.report[r] = Unleased(@, "failed")] \in Store
<1> DEFINE leased == [s.report[r] EXCEPT !.status = "running", !.token = w, !.lease = "live"]
           queued == Unleased(s.report[r], "queued")
           failed == Unleased(s.report[r], "failed")
<1>1. s.report[r] \in Row
  BY DEF Store
<1>2. leased \in Row /\ queued \in Row /\ failed \in Row
  BY <1>1, RowUpdate, UnleasedType DEF Status, ActiveStatus
<1>3. /\ [s EXCEPT !.report[r] = [@ EXCEPT !.status = "running", !.token = w, !.lease = "live"]]
           = [s EXCEPT !.report[r] = leased]
      /\ [s EXCEPT !.report[r] = Unleased(@, "queued")] = [s EXCEPT !.report[r] = queued]
      /\ [s EXCEPT !.report[r] = Unleased(@, "failed")] = [s EXCEPT !.report[r] = failed]
  BY DEF Store
<1> HIDE DEF leased, queued, failed
<1> QED
  BY <1>2, <1>3, RowChange

\* what a worker's step may do to the variables of the workers
LEMMA WorkerStepType ==
  ASSUME TypeOK, NEW w \in Worker, db' \in Store,
         UNCHANGED <<users, access, consent, runtime, month>>,
         \/ UNCHANGED worker
         \/ Return(w)
         \/ worker[w].pc # "idle" /\ \E pc \in WorkerState \ {"idle"} : Proceed(w, pc)
         \/ worker[w].pc # "idle" /\ worker' = [worker EXCEPT ![w] = [@ EXCEPT !.pc = "calling", !.admitted = TRUE]]
         \/ \E r \in Report : worker' = [worker EXCEPT ![w] = [pc |-> "claimed", report |-> r, admitted |-> FALSE]]
  PROVE  TypeOK'
<1> DEFINE Local == [pc : WorkerState, report : Report \cup {NoReport}, admitted : BOOLEAN]
<1>1. worker \in [Worker -> Local] /\ worker[w] \in Local
  BY DEF TypeOK
<1>2. NoReport \notin Report
  BY ConstantAssumption DEF NoReport, Report
<1>3. IdleWorker \in Local
  BY DEF IdleWorker, WorkerState
<1>4. \A pc \in WorkerState \ {"idle"} : worker[w].pc # "idle" =>
        /\ [worker[w] EXCEPT !.pc = pc] \in Local
        /\ [worker[w] EXCEPT !.pc = pc].report = worker[w].report
        /\ [worker[w] EXCEPT !.pc = pc].pc = pc
  BY <1>1
<1>5. /\ [worker[w] EXCEPT !.pc = "calling", !.admitted = TRUE] \in Local
      /\ [worker[w] EXCEPT !.pc = "calling", !.admitted = TRUE].report = worker[w].report
      /\ [worker[w] EXCEPT !.pc = "calling", !.admitted = TRUE].pc = "calling"
  BY <1>1 DEF WorkerState
<1>6. \A r \in Report : [pc |-> "claimed", report |-> r, admitted |-> FALSE] \in Local
  BY DEF WorkerState
<1>7. PICK x \in Local : /\ worker' = [worker EXCEPT ![w] = x]
                         /\ x.report = NoReport <=> x.pc = "idle"
  <2>1. CASE UNCHANGED worker
    BY <1>1, <2>1 DEF TypeOK
  <2>2. CASE Return(w)
    BY <1>3, <2>2 DEF Return, IdleWorker
  <2>3. CASE worker[w].pc # "idle" /\ \E pc \in WorkerState \ {"idle"} : Proceed(w, pc)
    <3>1. PICK pc \in WorkerState \ {"idle"} : Proceed(w, pc)
      BY <2>3
    <3>2. worker[w].report # NoReport
      BY <2>3 DEF TypeOK
    <3> DEFINE x == [worker[w] EXCEPT !.pc = pc]
    <3>3. worker' = [worker EXCEPT ![w] = x]
      BY <3>1, <1>1 DEF Proceed
    <3>4. x \in Local /\ x.report = worker[w].report /\ x.pc = pc
      BY <1>4, <2>3
    <3> HIDE DEF x
    <3> QED
      BY <3>2, <3>3, <3>4
  <2>4. CASE worker[w].pc # "idle" /\ worker' = [worker EXCEPT ![w] = [@ EXCEPT !.pc = "calling", !.admitted = TRUE]]
    <3> DEFINE x == [worker[w] EXCEPT !.pc = "calling", !.admitted = TRUE]
    <3>1. worker[w].report # NoReport
      BY <2>4 DEF TypeOK
    <3>2. worker' = [worker EXCEPT ![w] = x]
      BY <2>4, <1>1
    <3>3. x \in Local /\ x.report = worker[w].report /\ x.pc = "calling"
      BY <1>5
    <3> HIDE DEF x
    <3> QED
      BY <3>1, <3>2, <3>3
  <2>5. CASE \E r \in Report : worker' = [worker EXCEPT ![w] = [pc |-> "claimed", report |-> r, admitted |-> FALSE]]
    BY <1>2, <1>6, <2>5
  <2> QED
    BY <2>1, <2>2, <2>3, <2>4, <2>5
<1>8. /\ worker' \in [Worker -> Local]
      /\ \A v \in Worker : worker'[v] = IF v = w THEN x ELSE worker[v]
  BY <1>1, <1>7
<1>9. \A v \in Worker : worker'[v].report = NoReport <=> worker'[v].pc = "idle"
  BY <1>7, <1>8 DEF TypeOK
<1> QED
  BY <1>8, <1>9 DEF TypeOK

\* A worker that is not idle works on a report.
LEMMA WorkersReport ==
  ASSUME TypeOK, NEW w \in Worker, worker[w].pc # "idle"
  PROVE  worker[w].report \in Report /\ worker[w].report \in Attempt
<1>1. worker[w].report \in Report
  BY DEF TypeOK
<1>2. Report \subseteq Attempt
  BY ConstantAssumption DEF Report, Attempt
<1> QED
  BY <1>1, <1>2

\* Claim keeps the types.
LEMMA ClaimType ==
  ASSUME TypeOK, NEW w \in Worker, Claim(w)
  PROVE  TypeOK'
<1> DEFINE s == ExpireLeases(Reap(db))
<1>1. s \in Store
  BY ReapType, ExpireLeasesType DEF TypeOK
<1> HIDE DEF s
<1>2. \/ db' = s /\ UNCHANGED worker
      \/ \E r \in Report :
           /\ db' = [s EXCEPT !.report[r] = [@ EXCEPT !.status = "running", !.token = w, !.lease = "live"]]
           /\ worker' = [worker EXCEPT ![w] = [pc |-> "claimed", report |-> r, admitted |-> FALSE]]
  BY DEF Claim, Commit, s
<1>3. db' \in Store
  <2>1. CASE db' = s
    BY <1>1, <2>1
  <2>2. CASE \E r \in Report :
          db' = [s EXCEPT !.report[r] = [@ EXCEPT !.status = "running", !.token = w, !.lease = "live"]]
    <3>1. PICK r \in Report :
            db' = [s EXCEPT !.report[r] = [@ EXCEPT !.status = "running", !.token = w, !.lease = "live"]]
      BY <2>2
    <3>2. [s EXCEPT !.report[r] = [@ EXCEPT !.status = "running", !.token = w, !.lease = "live"]] \in Store
      BY <1>1, LeaseType, Zenon
    <3> QED
      BY <3>1, <3>2
  <2> QED
    BY <1>2, <2>1, <2>2
<1>4. UNCHANGED <<users, access, consent, runtime, month>>
  BY DEF Claim
<1> QED
  BY <1>2, <1>3, <1>4, WorkerStepType

\* Precheck keeps the types.
LEMMA PrecheckType ==
  ASSUME TypeOK, NEW w \in Worker, Precheck(w)
  PROVE  TypeOK'
<1>1. db' \in Store
  BY DEF Precheck, TypeOK
<1>2. worker[w].pc # "idle" /\ \E pc \in WorkerState \ {"idle"} : Proceed(w, pc)
  BY DEF Precheck, WorkerState
<1> QED
  BY <1>1, <1>2, WorkerStepType DEF Precheck

\* Admit keeps the types.
LEMMA AdmitType ==
  ASSUME TypeOK, NEW w \in Worker, Admit(w)
  PROVE  TypeOK'
<1> DEFINE s == Reap(db)
           r == worker[w].report
           row == s.report[r]
           b == ConsumeGlobalBudget(s.global[row.month], Cost)
           q == ConsumeUserQuota(s.usage[row.owner][row.month])
           attempt == NewAttempt(row.month)
           admitted == [row EXCEPT !.dispatched = TRUE]
           Granted == db' = [s EXCEPT
             !.report[r].dispatched = TRUE,
             !.attempt[r] = NewAttempt(row.month),
             !.global[row.month] = ConsumeGlobalBudget(@, Cost),
             !.usage[row.owner][row.month] = ConsumeUserQuota(@)]
<1>1. s \in Store
  BY SMTT(40), SMTT(80), ReapType DEF TypeOK
<1>2. worker[w].pc # "idle"
  BY DEF Admit
<1>3. r \in Report
  BY <1>2, WorkersReport
<1> HIDE DEF s, r
<1>4. row \in Row
  BY <1>1, <1>3 DEF Store
<1>5. row.month \in Month
  BY <1>4 DEF Row
<1>6. b \in GlobalBucket
  BY <1>1, <1>5, GlobalBucketType DEF Store
<1>7. row.owner \in User => q \in UserBucket
  BY <1>1, <1>5, UserBucketType DEF Store
<1>8. attempt \in AttemptRow
  BY <1>5, NewAttemptType
<1>9. admitted \in Row
  BY <1>4, RowUpdate
<1>10. ASSUME Granted PROVE db' \in Store
  <2> DEFINE s1 == [s EXCEPT !.report[r] = admitted]
             s2 == [s1 EXCEPT !.attempt[r] = attempt]
             s3 == [s2 EXCEPT !.global[row.month] = b]
             s4 == [s3 EXCEPT !.usage[row.owner][row.month] = q]
  <2>1. db' = s4
    BY <1>1, <1>3, <1>5, <1>10 DEF Store
  <2> HIDE DEF row, b, q, attempt, admitted
  <2>2. s1 \in Store
    BY <1>1, <1>9, RowChange
  <2> HIDE DEF s1
  <2>3. s2 \in Store
    BY <2>2, <1>8, AttemptChange
  <2> HIDE DEF s2
  <2>4. s3 \in Store
    BY <2>3, <1>6, GlobalChange
  <2> HIDE DEF s3
  <2>5. s4 \in Store
    <3>1. CASE row.owner \in User
      BY <3>1, <2>4, <1>7, UsageChange
    <3>2. CASE row.owner \notin User
      BY ZenonT(60), ZenonT(90), <3>2, <2>4 DEF Store
    <3> QED
      BY <3>1, <3>2
  <2> QED
    BY <2>1, <2>5
<1>11. db' = s \/ db' = db \/ Granted
  BY DEF Admit, Commit, s, r
<1>12. db' \in Store
  BY SMTT(40), SMTT(80), <1>1, <1>10, <1>11 DEF TypeOK
<1>13. \/ \E pc \in WorkerState \ {"idle"} : Proceed(w, pc)
       \/ worker' = [worker EXCEPT ![w] = [@ EXCEPT !.pc = "calling", !.admitted = TRUE]]
  <2>1. {"requeueing", "rejected", "erred"} \subseteq WorkerState \ {"idle"}
    BY DEF WorkerState
  <2>2. \/ Proceed(w, "requeueing") \/ Proceed(w, "rejected") \/ Proceed(w, "erred")
        \/ worker' = [worker EXCEPT ![w] = [@ EXCEPT !.pc = "calling", !.admitted = TRUE]]
    BY ZenonT(60), ZenonT(90) DEF Admit
  <2> DEFINE next == [worker EXCEPT ![w] = [@ EXCEPT !.pc = "calling", !.admitted = TRUE]]
  <2>3. \/ Proceed(w, "requeueing") \/ Proceed(w, "rejected") \/ Proceed(w, "erred")
        \/ worker' = next
    BY <2>2, Zenon
  <2> HIDE DEF next
  <2>4. (\E pc \in WorkerState \ {"idle"} : Proceed(w, pc)) \/ worker' = next
    BY <2>1, <2>3, Zenon
  <2> QED
    BY <2>4 DEF next
<1>14. UNCHANGED <<users, access, consent, runtime, month>>
  BY ZenonT(60), ZenonT(90) DEF Admit
<1> QED
  BY <1>2, <1>12, <1>13, <1>14, WorkerStepType

\* Requeue keeps the types.
LEMMA RequeueType ==
  ASSUME TypeOK, NEW w \in Worker, Requeue(w)
  PROVE  TypeOK'
<1>1. worker[w].pc # "idle" /\ worker[w].report \in Report
  BY WorkersReport DEF Requeue
<1>2. db' \in Store
  <2> DEFINE r == worker[w].report
             queued == [db EXCEPT !.report[r] = Unleased(@, "queued")]
  <2>1. db' = queued \/ db' = db
    BY DEF Requeue
  <2>2. queued \in Store
    BY <1>1, LeaseType, Zenon DEF TypeOK
  <2> QED
    BY <2>1, <2>2 DEF TypeOK
<1>3. Return(w) \/ \E pc \in WorkerState \ {"idle"} : Proceed(w, pc)
  BY DEF Requeue, WorkerState
<1> QED
  BY <1>1, <1>2, <1>3, WorkerStepType DEF Requeue

\* CallReturns keeps the types.
LEMMA CallReturnsType ==
  ASSUME TypeOK, NEW w \in Worker, CallReturns(w)
  PROVE  TypeOK'
<1>1. db' \in Store
  BY DEF CallReturns, TypeOK
<1>2. worker[w].pc # "idle" /\ \E pc \in WorkerState \ {"idle"} : Proceed(w, pc)
  <2>1. worker[w].pc = "calling" /\ {"answered", "erred"} \subseteq WorkerState \ {"idle"}
    BY DEF CallReturns, WorkerState
  <2>2. Proceed(w, "answered") \/ Proceed(w, "erred")
    BY Zenon DEF CallReturns
  <2> QED
    BY <2>1, <2>2, Zenon
<1> QED
  BY <1>1, <1>2, WorkerStepType DEF CallReturns

\* Complete keeps the types.
LEMMA CompleteType ==
  ASSUME TypeOK, NEW w \in Worker, Complete(w)
  PROVE  TypeOK'
<1> DEFINE r == worker[w].report
           row == db.report[r]
           m == row.month
           completed == Unleased(row, "succeeded")
           Attempted(cost) == [db.attempt[r] EXCEPT !.status = "succeeded", !.slot = "free", !.cost = cost]
           Bucket(cost) == IF cost = NoCost THEN SettleUnknownGlobalBudget(db.global[m], 1)
                           ELSE SettleKnownGlobalBudget(db.global[m], Cost, cost)
           Published(cost) == db' = [db EXCEPT
               !.attempt[r] = [@ EXCEPT !.status = "succeeded", !.slot = "free", !.cost = cost],
               !.report[r] = Unleased(@, "succeeded"),
               !.global[row.month] = IF cost = NoCost THEN SettleUnknownGlobalBudget(@, 1)
                                     ELSE SettleKnownGlobalBudget(@, Cost, cost)]
<1>1. worker[w].pc # "idle" /\ r \in Report /\ r \in Attempt
  BY WorkersReport DEF Complete
<1>2. row \in Row /\ db.attempt[r] \in AttemptRow
  BY <1>1 DEF TypeOK, Store
<1>3. m \in Month
  BY <1>2 DEF Row
<1>4. completed \in Row
  BY <1>2, UnleasedType DEF Status
<1>5. ASSUME NEW cost \in ActualCosts \cup {NoCost}, Published(cost)
      PROVE  db' \in Store
  <2> DEFINE attempt == Attempted(cost)
             b == Bucket(cost)
             s1 == [db EXCEPT !.attempt[r] = attempt]
             s2 == [s1 EXCEPT !.report[r] = completed]
             s3 == [s2 EXCEPT !.global[m] = b]
  <2>1. attempt \in AttemptRow
    BY <1>2, AttemptUpdate DEF Settled
  <2>2. b \in GlobalBucket
    BY <1>3, SettleBucketType DEF TypeOK, Store
  <2>3. db' = s3
    BY <1>1, <1>3, <1>5 DEF TypeOK, Store
  <2> HIDE DEF attempt, b, completed
  <2>4. s1 \in Store
    BY <2>1, AttemptChange DEF TypeOK
  <2> HIDE DEF s1
  <2>5. s2 \in Store
    BY <2>4, <1>4, RowChange
  <2> HIDE DEF s2
  <2>6. s3 \in Store
    BY <2>5, <2>2, GlobalChange
  <2> QED
    BY ZenonT(60), ZenonT(90), <2>3, <2>6
<1>6. UNCHANGED db \/ \E cost \in ActualCosts \cup {NoCost} : Published(cost)
  BY ZenonT(60), ZenonT(90) DEF Complete, Commit
<1>7. db' \in Store
  BY ZenonT(60), ZenonT(90), <1>5, <1>6 DEF TypeOK
<1>8. \E pc \in WorkerState \ {"idle"} : Proceed(w, pc)
  BY ZenonT(60), ZenonT(90) DEF Complete, WorkerState
<1>9. UNCHANGED <<users, access, consent, runtime, month>>
  BY ZenonT(60), ZenonT(90) DEF Complete
<1> QED
  BY ZenonT(60), ZenonT(90), <1>1, <1>7, <1>8, <1>9, WorkerStepType

\* Fail keeps the types.
LEMMA FailType ==
  ASSUME TypeOK, NEW w \in Worker, Fail(w)
  PROVE  TypeOK'
<1> DEFINE r == worker[w].report
           a == Account(db, {r}, "failed")
           failed == Unleased(a.report[r], "failed")
           ended == [a EXCEPT !.report[r] = failed]
<1>1. worker[w].pc # "idle" /\ r \in Report /\ r \in Attempt
  BY WorkersReport DEF Fail
<1>2. a \in Store
  BY <1>1, AccountType DEF TypeOK, Settled
<1> HIDE DEF a
<1>3. failed \in Row
  BY <1>1, <1>2, UnleasedType DEF Store, Status
<1> HIDE DEF failed
<1>4. ended \in Store
  BY <1>2, <1>3, RowChange
<1>5. ended = [Account(db, {r}, "failed") EXCEPT !.report[r] = Unleased(@, "failed")]
  BY <1>1, <1>2 DEF a, failed, Store
<1> HIDE DEF ended
<1>6. ASSUME NEW outcome \in {"failed", "unknown"},
             db' = [ended EXCEPT !.attempt[r] = [@ EXCEPT !.status = outcome, !.slot = "free"]]
      PROVE  db' \in Store
  <2> DEFINE attempt == [ended.attempt[r] EXCEPT !.status = outcome, !.slot = "free"]
  <2>1. ended.attempt[r] \in AttemptRow
    BY <1>1, <1>4 DEF Store
  <2>2. attempt \in AttemptRow
    BY <2>1, AttemptUpdate DEF Settled
  <2>3. db' = [ended EXCEPT !.attempt[r] = attempt]
    BY ZenonT(60), ZenonT(90), <1>6, <1>4, <1>1 DEF Store
  <2> HIDE DEF attempt
  <2> QED
    BY <1>4, <2>2, <2>3, AttemptChange
<1>7. \/ db' = ended \/ db' = db
      \/ \E outcome \in {"failed", "unknown"} :
           db' = [ended EXCEPT !.attempt[r] = [@ EXCEPT !.status = outcome, !.slot = "free"]]
  BY <1>5 DEF Fail, Commit
<1>8. db' \in Store
  BY ZenonT(60), ZenonT(90), <1>4, <1>6, <1>7 DEF TypeOK
<1>9. Return(w) \/ \E pc \in WorkerState \ {"idle"} : Proceed(w, pc)
  BY ZenonT(60), ZenonT(90) DEF Fail, Finish, WorkerState
<1>10. UNCHANGED <<users, access, consent, runtime, month>>
  BY DEF Fail
<1> QED
  BY ZenonT(60), ZenonT(90), <1>1, <1>8, <1>9, <1>10, WorkerStepType

\* Freeing a slot and the passing of its deadline keep the tables' types.
LEMMA SlotChange ==
  ASSUME NEW s \in Store, NEW a \in Attempt
  PROVE  /\ [s EXCEPT !.attempt[a].slot = "free"] \in Store
         /\ [s EXCEPT !.attempt[a].slot = "lapsed"] \in Store
<1> DEFINE free == [s.attempt[a] EXCEPT !.slot = "free"]
           lapsed == [s.attempt[a] EXCEPT !.slot = "lapsed"]
<1>1. s.attempt[a] \in AttemptRow
  BY DEF Store
<1>2. "failed" \in Settled /\ NoCost \in ActualCosts \cup {NoCost}
  BY DEF Settled
<1>3. free \in AttemptRow /\ lapsed \in AttemptRow
  BY <1>1, <1>2, AttemptUpdate
<1>4. /\ [s EXCEPT !.attempt[a].slot = "free"] = [s EXCEPT !.attempt[a] = free]
      /\ [s EXCEPT !.attempt[a].slot = "lapsed"] = [s EXCEPT !.attempt[a] = lapsed]
  BY DEF Store
<1> HIDE DEF free, lapsed
<1> QED
  BY <1>3, <1>4, AttemptChange

\* ReleaseSlot keeps the types.
LEMMA ReleaseSlotType ==
  ASSUME TypeOK, NEW w \in Worker, ReleaseSlot(w)
  PROVE  TypeOK'
<1>1. worker[w].pc # "idle" /\ worker[w].report \in Attempt
  BY WorkersReport DEF ReleaseSlot
<1>2. db' \in Store
  <2>1. [db EXCEPT !.attempt[worker[w].report].slot = "free"] \in Store
    BY <1>1, SlotChange, Zenon DEF TypeOK
  <2> QED
    BY <2>1 DEF ReleaseSlot, TypeOK
<1> QED
  BY <1>1, <1>2, WorkerStepType DEF ReleaseSlot

\* Crash keeps the types.
LEMMA CrashType ==
  ASSUME TypeOK, NEW w \in Worker, Crash(w)
  PROVE  TypeOK'
<1>1. db' \in Store
  BY DEF Crash, TypeOK
<1> QED
  BY <1>1, WorkerStepType DEF Crash

\* LeaseLapse keeps the types.
LEMMA LeaseLapseType ==
  ASSUME TypeOK, NEW r \in Report, LeaseLapse(r)
  PROVE  TypeOK'
<1> DEFINE row == [db.report[r] EXCEPT !.lease = "lapsed"]
<1>1. db.report[r] \in Row
  BY SMTT(40), SMTT(80) DEF TypeOK, Store
<1>2. row \in Row
  BY <1>1, RowUpdate
<1>3. db' = [db EXCEPT !.report[r] = row]
  BY DEF LeaseLapse, TypeOK, Store
<1> HIDE DEF row
<1>4. db' \in Store
  BY <1>2, <1>3, RowChange DEF TypeOK
<1> QED
  BY <1>4 DEF LeaseLapse, TypeOK

\* SlotLapse keeps the types.
LEMMA SlotLapseType ==
  ASSUME TypeOK, NEW a \in Attempt, SlotLapse(a)
  PROVE  TypeOK'
<1>1. [db EXCEPT !.attempt[a].slot = "lapsed"] \in Store
  BY SlotChange, Zenon DEF TypeOK
<1> QED
  BY <1>1 DEF SlotLapse, TypeOK

\* NextMonth keeps the types.
LEMMA NextMonthType ==
  ASSUME TypeOK, NextMonth
  PROVE  TypeOK'
BY ConstantAssumption DEF NextMonth, TypeOK, Month

\* Every step keeps the types.
LEMMA StepType == TypeOK /\ [Next]_vars => TypeOK'
<1> SUFFICES ASSUME TypeOK, [Next]_vars
             PROVE  TypeOK'
  OBVIOUS
<1>1. ASSUME NEW u \in User, OwnerRequest(u) PROVE TypeOK'
  BY <1>1, GenerateType, AcceptConsentType, RevokeConsentType, DeleteSourceType DEF OwnerRequest
<1>2. ASSUME NEW r \in Report, OwnerReportRequest(r) PROVE TypeOK'
  BY <1>2, CancelReportType, DeleteReportType DEF OwnerReportRequest
<1>3. ASSUME AdminRequest PROVE TypeOK'
  BY <1>3, UpdateAccessType, DeleteAccountType, UpdateGenerationEnabledType, PublishProviderType,
     PublishPromptType, AdmitTestType, SettleTestType DEF AdminRequest
<1>4. ASSUME NEW w \in Worker, Claim(w) \/ Work(w) \/ Crash(w) PROVE TypeOK'
  BY <1>4, ClaimType, PrecheckType, AdmitType, RequeueType, CallReturnsType, CompleteType, FailType,
     ReleaseSlotType, CrashType DEF Work
<1>5. ASSUME Time PROVE TypeOK'
  BY <1>5, LeaseLapseType, SlotLapseType, NextMonthType DEF Time
<1>6. CASE UNCHANGED vars
  BY <1>6 DEF vars, TypeOK
<1> QED
  BY <1>1, <1>2, <1>3, <1>4, <1>5, <1>6 DEF Next

\* Every table, local variable and configuration keeps its type, whatever the
\* owners, administrators, workers and deadlines do and for any number of each.
THEOREM TypeCorrect == Spec => []TypeOK
<1>1. Init => TypeOK
  BY InitType
<1>2. TypeOK /\ [Next]_vars => TypeOK'
  BY StepType
<1> QED
  BY <1>1, <1>2, PTL DEF Spec

-----------------------------------------------------------------------------
(* Safety                                                                  *)

Final == {"succeeded", "failed", "cancelled", "purged"}

\* what a row and the attempt with its number say of each other
RowMatches(row, attempt) ==
  /\ attempt.status = "dispatched" <=> row.status = "running" /\ row.dispatched
  /\ row.status = "succeeded" <=> attempt.status = "succeeded" /\ row.status # "purged"
  /\ row.dispatched => attempt.status # "none"
  /\ attempt.status # "none" => row.dispatched \/ row.status = "purged"
  /\ row.status \in {"queued", "absent"} => ~row.dispatched
  /\ row.status = "running" <=> row.token # NoWorker
  /\ row.status = "running" <=> row.lease # "none"
  /\ row.deleted \/ row.invalidated => row.status \notin ActiveStatus
  /\ row.status \in {"absent", "purged"} <=> row.owner = NoUser

Consistent(s) == \A r \in Report : RowMatches(s.report[r], s.attempt[r])

Permitted ==
  \A r \in Report : LET row == db.report[r] IN
    row.status \in ActiveStatus =>
      /\ runtime.enabled /\ row.provider = runtime.provider
      /\ row.owner \in users /\ access[row.owner] /\ consent[row.owner] # 0

Marked(row) == row.dispatched \/ row.status = "purged"

CallsMarked ==
  \A w \in Worker : worker[w].pc \in {"calling", "answered"} => Marked(db.report[worker[w].report])

IInv == TypeOK /\ Consistent(db) /\ OneActiveJob /\ Permitted /\ CallsMarked /\ OneCallPerReport

\* one report, one attempt and the whole store across a step that starts and
\* publishes no job
RowContinues(old, new) ==
  /\ new.status \in ActiveStatus =>
       old.status \in ActiveStatus /\ new.owner = old.owner /\ new.provider = old.provider
  /\ new.status = "succeeded" => old.status = "succeeded"
  /\ old.status \in Final => new.status \in {old.status, "purged"}
  /\ Marked(old) => Marked(new)

AttemptContinues(old, new) ==
  /\ old.status \in Settled => new.status = old.status /\ new.cost = old.cost
  /\ old.status = "dispatched" => new.status # "none"

Continues(s, t) ==
  /\ Consistent(t)
  /\ \A r \in Report : RowContinues(s.report[r], t.report[r])
  /\ \A a \in Attempt : AttemptContinues(s.attempt[a], t.attempt[a])

-----------------------------------------------------------------------------
(* The statements that map stores to stores.                               *)

\* A report and its attempt share their number.
LEMMA ReportsAreAttempts == Report \subseteq Attempt
BY ConstantAssumption DEF Report, Attempt

\* A transaction that writes nothing is a Continues step.
LEMMA ContinuesIsReflexive ==
  ASSUME NEW s \in Store, Consistent(s)
  PROVE  Continues(s, s)
BY DEF Continues, RowContinues, AttemptContinues

\* Two statements of one transaction are a Continues step when each of them is.
LEMMA ContinuesIsTransitive ==
  ASSUME NEW s \in Store, NEW t \in Store, NEW v \in Store, Continues(s, t), Continues(t, v)
  PROVE  Continues(s, v)
<1>1. ASSUME NEW r \in Report
      PROVE  RowContinues(s.report[r], v.report[r])
  BY DEF Continues, RowContinues, Final
<1>2. ASSUME NEW a \in Attempt
      PROVE  AttemptContinues(s.attempt[a], v.attempt[a])
  <2>1. t.attempt[a].status \in {"none", "dispatched"} \cup Settled
    BY DEF Store, AttemptRow
  <2> QED
    BY <2>1 DEF Continues, AttemptContinues
<1> QED
  BY <1>1, <1>2 DEF Continues

\* the statements leave most of a row as it is
LEMMA UnleasedFields ==
  ASSUME NEW row \in Row, NEW status \in Status
  PROVE  LET new == Unleased(row, status) IN
         /\ new.status = status /\ new.token = NoWorker /\ new.lease = "none"
         /\ new.owner = row.owner /\ new.provider = row.provider /\ new.dispatched = row.dispatched
         /\ new.deleted = row.deleted /\ new.invalidated = row.invalidated
BY DEF Unleased, Row

\* Accounting changes no row, and closes the open attempts of the reports it is about.
LEMMA AccountEffect ==
  ASSUME NEW s \in Store, NEW S \in SUBSET Report, NEW outcome \in Settled
  PROVE  LET t == Account(s, S, outcome) IN
         /\ t.report = s.report
         /\ \A a \in Attempt :
              IF a \in S /\ s.report[a].dispatched /\ s.attempt[a].status = "dispatched"
              THEN t.attempt[a].status = outcome /\ t.attempt[a].cost = s.attempt[a].cost
              ELSE t.attempt[a] = s.attempt[a]
<1> DEFINE won == {r \in S : s.report[r].dispatched /\ s.attempt[r].status = "dispatched"}
           attempt == [a \in Attempt |->
             IF a \in won THEN [s.attempt[a] EXCEPT !.status = outcome] ELSE s.attempt[a]]
<1>1. Account(s, S, outcome).report = s.report /\ Account(s, S, outcome).attempt = attempt
  BY DEF Account, Store
<1>2. \A a \in Attempt :
        IF a \in won
        THEN attempt[a].status = outcome /\ attempt[a].cost = s.attempt[a].cost
        ELSE attempt[a] = s.attempt[a]
  <2> SUFFICES ASSUME NEW a \in Attempt
               PROVE  IF a \in won
                      THEN attempt[a].status = outcome /\ attempt[a].cost = s.attempt[a].cost
                      ELSE attempt[a] = s.attempt[a]
    OBVIOUS
  <2>1. s.attempt[a] \in AttemptRow
    BY DEF Store
  <2> QED
    BY <2>1 DEF AttemptRow
<1> HIDE DEF attempt
<1> QED
  BY <1>1, <1>2

\* Ending active reports: what is true of one report and its attempt when the
\* report gets a final status and its open attempt is settled.
LEMMA EndingContinues ==
  ASSUME NEW old \in Row, NEW attempt \in AttemptRow, RowMatches(old, attempt),
         old.status \in ActiveStatus,
         NEW new \in Row, NEW closed \in AttemptRow,
         new.status \in {"failed", "cancelled"}, new.token = NoWorker, new.lease = "none",
         new.owner = old.owner, new.dispatched = old.dispatched,
         IF old.dispatched THEN closed.status \in Settled \ {"succeeded"}
                           ELSE closed = attempt
  PROVE  RowMatches(new, closed) /\ RowContinues(old, new)
BY DEF RowMatches, RowContinues, ActiveStatus, Settled, Final, Marked, AttemptRow

\* Cancelling unfinished reports ends their attempts with them.
LEMMA CancelPendingContinues ==
  ASSUME NEW s \in Store, Consistent(s), NEW S \in SUBSET Report,
         \A r \in S : s.report[r].status \in ActiveStatus
  PROVE  Continues(s, CancelPending(s, S))
<1> DEFINE a == Account(s, S, "cancelled")
           t == CancelPending(s, S)
<1>1. a \in Store /\ t \in Store
  BY AccountType, CancelPendingType DEF Settled
<1>2. /\ a.report = s.report
      /\ \A b \in Attempt :
           IF b \in S /\ s.report[b].dispatched /\ s.attempt[b].status = "dispatched"
           THEN a.attempt[b].status = "cancelled" /\ a.attempt[b].cost = s.attempt[b].cost
           ELSE a.attempt[b] = s.attempt[b]
  BY AccountEffect DEF Settled
<1>3. t.report = [r \in Report |-> IF r \in S THEN Unleased(s.report[r], "cancelled") ELSE s.report[r]]
  BY <1>1, <1>2 DEF CancelPending, CancelRows, Store
<1>4. t.attempt = a.attempt
  BY <1>1 DEF CancelPending, CancelRows, Store
<1> HIDE DEF a, t
<1>5. ASSUME NEW r \in Report
      PROVE  RowMatches(t.report[r], t.attempt[r]) /\ RowContinues(s.report[r], t.report[r])
  <2>1. /\ s.report[r] \in Row /\ t.report[r] \in Row
        /\ s.attempt[r] \in AttemptRow /\ t.attempt[r] \in AttemptRow
    BY <1>1, ReportsAreAttempts DEF Store
  <2>2. RowMatches(s.report[r], s.attempt[r])
    BY DEF Consistent
  <2>3. CASE r \notin S
    BY <2>2, <2>3, <1>2, <1>3, <1>4, ReportsAreAttempts DEF RowContinues
  <2>4. CASE r \in S
    <3>1. s.report[r].status \in ActiveStatus
      BY <2>4
    <3>2. t.report[r] = Unleased(s.report[r], "cancelled")
      BY <2>4, <1>3
    <3>3. IF s.report[r].dispatched THEN t.attempt[r].status \in Settled \ {"succeeded"}
                                    ELSE t.attempt[r] = s.attempt[r]
      BY <2>2, <2>4, <3>1, <1>2, <1>4, ReportsAreAttempts DEF RowMatches, ActiveStatus, Settled
    <3> QED
      BY <2>1, <2>2, <3>1, <3>2, <3>3, UnleasedFields, EndingContinues DEF Status
  <2> QED
    BY <2>3, <2>4
<1>6. ASSUME NEW b \in Attempt
      PROVE  AttemptContinues(s.attempt[b], t.attempt[b])
  BY <1>2, <1>4 DEF AttemptContinues, Settled
<1>7. Consistent(t)
  BY <1>5 DEF Consistent
<1>8. Continues(s, t)
  BY <1>5, <1>6, <1>7 DEF Continues
<1> QED
  BY <1>8 DEF t

\* The reaper closes an attempt and its report together.
LEMMA ReapContinues ==
  ASSUME NEW s \in Store, Consistent(s)
  PROVE  Continues(s, Reap(s))
<1> DEFINE lapsed == {a \in Attempt : s.attempt[a].slot = "lapsed"}
           open == {a \in lapsed : s.attempt[a].status = "dispatched"}
           lost == {r \in Report \cap open : s.report[r].status = "running" /\ s.report[r].dispatched
                                              /\ ~s.report[r].deleted}
           attempt == [a \in Attempt |->
             IF a \in lapsed
             THEN [s.attempt[a] EXCEPT !.slot = "free", !.status = IF a \in open THEN "unknown" ELSE @]
             ELSE s.attempt[a]]
           t == Reap(s)
<1>1. t \in Store
  BY ReapType
<1>2. t.attempt = attempt
  BY DEF Reap, Store
<1>3. t.report = [r \in Report |-> IF r \in lost THEN Unleased(s.report[r], "failed") ELSE s.report[r]]
  BY DEF Reap, Store
<1>4. ASSUME NEW a \in Attempt
      PROVE  /\ attempt[a].status = IF a \in open THEN "unknown" ELSE s.attempt[a].status
             /\ attempt[a].cost = s.attempt[a].cost
  <2>1. s.attempt[a] \in AttemptRow
    BY DEF Store
  <2> QED
    BY <2>1 DEF AttemptRow
<1> HIDE DEF attempt, t
<1>5. ASSUME NEW r \in Report
      PROVE  RowMatches(t.report[r], t.attempt[r]) /\ RowContinues(s.report[r], t.report[r])
  <2>1. /\ s.report[r] \in Row /\ t.report[r] \in Row
        /\ s.attempt[r] \in AttemptRow /\ t.attempt[r] \in AttemptRow
    BY <1>1, ReportsAreAttempts DEF Store
  <2>2. RowMatches(s.report[r], s.attempt[r])
    BY DEF Consistent
  <2>3. r \in lost <=> r \in open
    BY <2>2, ReportsAreAttempts DEF RowMatches, ActiveStatus
  <2>4. t.attempt[r].status = IF r \in open THEN "unknown" ELSE s.attempt[r].status
    BY SMTT(40), SMTT(80), <1>2, <1>4, ReportsAreAttempts
  <2>5. CASE r \notin lost
    BY <2>2, <2>3, <2>4, <2>5, <1>3 DEF RowContinues, RowMatches
  <2>6. CASE r \in lost
    <3>1. /\ t.report[r] = Unleased(s.report[r], "failed")
          /\ s.report[r].status \in ActiveStatus /\ s.report[r].dispatched
          /\ t.attempt[r].status \in Settled \ {"succeeded"}
      BY <2>3, <2>4, <2>6, <1>3 DEF ActiveStatus, Settled
    <3> QED
      BY <2>1, <2>2, <3>1, UnleasedFields, EndingContinues DEF Status
  <2> QED
    BY <2>5, <2>6
<1>6. ASSUME NEW a \in Attempt
      PROVE  AttemptContinues(s.attempt[a], t.attempt[a])
  BY <1>2, <1>4 DEF AttemptContinues, Settled
<1>7. Continues(s, t)
  BY <1>5, <1>6 DEF Continues, Consistent
<1> QED
  BY <1>7 DEF t

\* Requeueing an undispatched report keeps it consistent with its attempt.
LEMMA RequeueingContinues ==
  ASSUME NEW old \in Row, NEW attempt \in AttemptRow, RowMatches(old, attempt),
         old.status \in ActiveStatus, ~old.dispatched,
         NEW new, new = Unleased(old, "queued")
  PROVE  RowMatches(new, attempt) /\ RowContinues(old, new)
<1>1. /\ new.status = "queued" /\ new.token = NoWorker /\ new.lease = "none"
      /\ new.owner = old.owner /\ new.provider = old.provider /\ new.dispatched = old.dispatched
      /\ new.deleted = old.deleted /\ new.invalidated = old.invalidated
  BY UnleasedFields DEF Status, ActiveStatus
<1> QED
  BY <1>1 DEF RowMatches, RowContinues, ActiveStatus, Marked, Final

\* A lost lease ends or requeues its report, and its attempt with it.
LEMMA ExpireLeasesContinues ==
  ASSUME NEW s \in Store, Consistent(s)
  PROVE  Continues(s, ExpireLeases(s))
<1> DEFINE expired == {r \in Report : s.report[r].status = "running" /\ s.report[r].lease = "lapsed"
                                       /\ ~s.report[r].deleted}
           called == {r \in expired : s.report[r].dispatched}
           a == Account(s, called, "unknown")
           t == ExpireLeases(s)
<1>1. a \in Store /\ t \in Store
  BY SMTT(40), SMTT(80), AccountType, ExpireLeasesType DEF Settled
<1>2. /\ a.report = s.report
      /\ \A b \in Attempt :
           IF b \in called /\ s.report[b].dispatched /\ s.attempt[b].status = "dispatched"
           THEN a.attempt[b].status = "unknown" /\ a.attempt[b].cost = s.attempt[b].cost
           ELSE a.attempt[b] = s.attempt[b]
  BY ZenonT(60), ZenonT(90), AccountEffect DEF Settled
<1>3. t.report = [r \in Report |->
             IF r \in expired
             THEN Unleased(s.report[r], IF r \in called THEN "failed" ELSE "queued")
             ELSE s.report[r]]
  BY ZenonT(60), ZenonT(90), <1>1 DEF ExpireLeases, Store
<1>4. t.attempt = a.attempt
  BY <1>1 DEF ExpireLeases, Store
<1> HIDE DEF a, t
<1>5. ASSUME NEW r \in Report
      PROVE  RowMatches(t.report[r], t.attempt[r]) /\ RowContinues(s.report[r], t.report[r])
  <2>1. /\ s.report[r] \in Row /\ t.report[r] \in Row
        /\ s.attempt[r] \in AttemptRow /\ t.attempt[r] \in AttemptRow
    BY SMTT(40), SMTT(80), <1>1, ReportsAreAttempts DEF Store
  <2>2. RowMatches(s.report[r], s.attempt[r])
    BY DEF Consistent
  <2>3. CASE r \notin expired
    BY <2>2, <2>3, <1>2, <1>3, <1>4, ReportsAreAttempts DEF RowContinues
  <2>4. CASE r \in expired /\ r \notin called
    <3>1. t.report[r] = Unleased(s.report[r], "queued") /\ t.attempt[r] = s.attempt[r]
      BY <2>4, <1>2, <1>3, <1>4, ReportsAreAttempts
    <3> QED
      BY <2>1, <2>2, <2>4, <3>1, RequeueingContinues DEF ActiveStatus
  <2>5. CASE r \in called
    <3>1. t.report[r] = Unleased(s.report[r], "failed") /\ t.attempt[r].status = "unknown"
      BY <2>2, <2>5, <1>2, <1>3, <1>4, ReportsAreAttempts DEF RowMatches
    <3>2. s.report[r].status \in ActiveStatus /\ s.report[r].dispatched
      BY <2>5 DEF ActiveStatus
    <3> QED
      BY <2>1, <2>2, <3>1, <3>2, UnleasedFields, EndingContinues DEF Status, Settled
  <2> QED
    BY <2>3, <2>4, <2>5
<1>6. ASSUME NEW b \in Attempt
      PROVE  AttemptContinues(s.attempt[b], t.attempt[b])
  BY <1>2, <1>4 DEF AttemptContinues, Settled
<1>7. Continues(s, t)
  BY <1>5, <1>6 DEF Continues, Consistent
<1> QED
  BY <1>7 DEF t

\* So does the trigger of a deleted source, which invalidates finished reports too.
LEMMA InvalidateSourceContinues ==
  ASSUME NEW s \in Store, Consistent(s), NEW u \in User, NEW S \in SUBSET Report
  PROVE  Continues(s, InvalidateSource(s, u, S))
<1> DEFINE live == {r \in S : s.report[r].status \in ActiveStatus}
           a == Account(s, live, "unknown")
           t == InvalidateSource(s, u, S)
<1>1. a \in Store /\ t \in Store
  BY AccountType, InvalidateSourceType DEF Settled
<1>2. /\ a.report = s.report
      /\ \A b \in Attempt :
           IF b \in live /\ s.report[b].dispatched /\ s.attempt[b].status = "dispatched"
           THEN a.attempt[b].status = "unknown" /\ a.attempt[b].cost = s.attempt[b].cost
           ELSE a.attempt[b] = s.attempt[b]
  BY SMTT(40), SMTT(80), AccountEffect DEF Settled
<1>3. t.report = [r \in Report |->
          IF r \in S
          THEN [(IF r \in live THEN Unleased(s.report[r], "cancelled") ELSE s.report[r])
                  EXCEPT !.invalidated = TRUE]
          ELSE s.report[r]]
  BY ZenonT(60), ZenonT(90), <1>1 DEF InvalidateSource, Store
<1>4. t.attempt = a.attempt
  BY <1>1 DEF InvalidateSource, Store
<1> HIDE DEF a, t
<1>5. ASSUME NEW r \in Report
      PROVE  RowMatches(t.report[r], t.attempt[r]) /\ RowContinues(s.report[r], t.report[r])
  <2>1. /\ s.report[r] \in Row /\ t.report[r] \in Row
        /\ s.attempt[r] \in AttemptRow /\ t.attempt[r] \in AttemptRow
    BY <1>1, ReportsAreAttempts DEF Store
  <2>2. RowMatches(s.report[r], s.attempt[r])
    BY DEF Consistent
  <2>3. CASE r \notin S
    BY <2>2, <2>3, <1>2, <1>3, <1>4, ReportsAreAttempts DEF RowContinues
  <2>4. CASE r \in S /\ r \notin live
    <3>1. t.report[r] = [s.report[r] EXCEPT !.invalidated = TRUE] /\ t.attempt[r] = s.attempt[r]
      BY <2>4, <1>2, <1>3, <1>4, ReportsAreAttempts
    <3> DEFINE old == s.report[r]
               new == t.report[r]
    <3>2. /\ new.status = old.status /\ new.token = old.token /\ new.lease = old.lease
          /\ new.owner = old.owner /\ new.provider = old.provider /\ new.dispatched = old.dispatched
      BY <2>1, <3>1 DEF Row
    <3>3. old.status \notin ActiveStatus
      BY <2>4
    <3> HIDE DEF old, new
    <3>4. RowMatches(old, t.attempt[r])
      BY <2>2, <3>1 DEF old
    <3>5. RowMatches(new, t.attempt[r]) /\ RowContinues(old, new)
      BY <3>2, <3>3, <3>4 DEF RowMatches, RowContinues, Marked
    <3> QED
      BY <3>5 DEF old, new
  <2>5. CASE r \in live
    <3> DEFINE old == s.report[r]
               mid == Unleased(old, "cancelled")
               new == t.report[r]
    <3>1. new = [mid EXCEPT !.invalidated = TRUE]
      BY <2>5, <1>3
    <3>2. mid \in Row
      BY <2>1, UnleasedType DEF Status
    <3>3. /\ mid.status = "cancelled" /\ mid.token = NoWorker /\ mid.lease = "none"
          /\ mid.owner = old.owner /\ mid.dispatched = old.dispatched
      BY <2>1, UnleasedFields DEF Status
    <3> HIDE DEF mid
    <3>4. /\ new.status = "cancelled" /\ new.token = NoWorker /\ new.lease = "none"
          /\ new.owner = old.owner /\ new.dispatched = old.dispatched
      BY <3>1, <3>2, <3>3 DEF Row
    <3>5. IF old.dispatched THEN t.attempt[r].status \in Settled \ {"succeeded"}
                            ELSE t.attempt[r] = s.attempt[r]
      BY <2>2, <2>5, <1>2, <1>4, ReportsAreAttempts DEF RowMatches, ActiveStatus, Settled
    <3>6. old.status \in ActiveStatus
      BY <2>5
    <3> QED
      BY <2>1, <2>2, <3>4, <3>5, <3>6, EndingContinues
  <2> QED
    BY <2>3, <2>4, <2>5
<1>6. ASSUME NEW b \in Attempt
      PROVE  AttemptContinues(s.attempt[b], t.attempt[b])
  BY <1>2, <1>4 DEF AttemptContinues, Settled
<1>7. Continues(s, t)
  BY <1>5, <1>6 DEF Continues, Consistent
<1> QED
  BY <1>7 DEF t

\* A deleted account closes the attempts of the rows it takes away.
LEMMA PurgeAccountContinues ==
  ASSUME NEW s \in Store, Consistent(s), NEW u \in User
  PROVE  Continues(s, PurgeAccount(s, u))
<1> DEFINE ending == {r \in Of(s, u) : s.report[r].status \in ActiveStatus
                                        \/ s.attempt[r].status = "dispatched"}
           a == Account(s, ending, "unknown")
           t == PurgeAccount(s, u)
<1>1. a \in Store /\ t \in Store
  BY SMTT(40), SMTT(80), AccountType, PurgeAccountType DEF Settled, Of
<1>2. /\ a.report = s.report
      /\ \A b \in Attempt :
           IF b \in ending /\ s.report[b].dispatched /\ s.attempt[b].status = "dispatched"
           THEN a.attempt[b].status = "unknown" /\ a.attempt[b].cost = s.attempt[b].cost
           ELSE a.attempt[b] = s.attempt[b]
  BY ZenonT(60), ZenonT(90), AccountEffect DEF Settled, Of
<1>3. t.report = [r \in Report |-> IF r \in Of(s, u) THEN NoRow("purged") ELSE s.report[r]]
  BY ZenonT(60), ZenonT(90), <1>1 DEF PurgeAccount, Store
<1>4. t.attempt = a.attempt
  BY <1>1 DEF PurgeAccount, Store
<1> HIDE DEF a, t
<1>5. ASSUME NEW r \in Report
      PROVE  RowMatches(t.report[r], t.attempt[r]) /\ RowContinues(s.report[r], t.report[r])
  <2>1. RowMatches(s.report[r], s.attempt[r])
    BY DEF Consistent
  <2>2. CASE r \notin Of(s, u)
    BY <2>1, <2>2, <1>2, <1>3, <1>4, ReportsAreAttempts DEF RowContinues
  <2>3. CASE r \in Of(s, u)
    <3>1. t.report[r] = NoRow("purged")
      BY <2>3, <1>3
    <3>2. t.attempt[r].status # "dispatched"
      BY <2>1, <2>3, <1>2, <1>4, ReportsAreAttempts DEF RowMatches
    <3> QED
      BY <3>1, <3>2 DEF NoRow, RowMatches, RowContinues, ActiveStatus, Marked
  <2> QED
    BY <2>2, <2>3
<1>6. ASSUME NEW b \in Attempt
      PROVE  AttemptContinues(s.attempt[b], t.attempt[b])
  BY <1>2, <1>4 DEF AttemptContinues, Settled
<1>7. Continues(s, t)
  BY <1>5, <1>6 DEF Continues, Consistent
<1> QED
  BY <1>7 DEF t

\* A step that changes no row and no attempt's status continues every job.
LEMMA AttemptStep ==
  ASSUME NEW s \in Store, Consistent(s), NEW t \in Store, t.report = s.report,
         \A r \in Report : t.attempt[r].status = s.attempt[r].status,
         \A a \in Attempt : AttemptContinues(s.attempt[a], t.attempt[a])
  PROVE  Continues(s, t)
BY DEF Continues, Consistent, RowMatches, RowContinues

\* A step about one report continues every job when it continues that one.
LEMMA RowStep ==
  ASSUME NEW s \in Store, Consistent(s), NEW t \in Store, NEW r \in Report,
         \A q \in Report \ {r} : t.report[q] = s.report[q],
         \A a \in Attempt \ {r} : t.attempt[a] = s.attempt[a],
         RowMatches(t.report[r], t.attempt[r]),
         RowContinues(s.report[r], t.report[r]),
         AttemptContinues(s.attempt[r], t.attempt[r])
  PROVE  Continues(s, t)
<1>1. ASSUME NEW q \in Report
      PROVE  RowMatches(t.report[q], t.attempt[q]) /\ RowContinues(s.report[q], t.report[q])
  <2>1. CASE q = r
    BY <2>1
  <2>2. CASE q # r
    <3>1. t.report[q] = s.report[q] /\ t.attempt[q] = s.attempt[q] /\ RowMatches(s.report[q], s.attempt[q])
      BY <2>2, ReportsAreAttempts DEF Consistent
    <3> QED
      BY <3>1 DEF RowContinues
  <2> QED
    BY <2>1, <2>2
<1>2. ASSUME NEW a \in Attempt
      PROVE  AttemptContinues(s.attempt[a], t.attempt[a])
  BY DEF AttemptContinues
<1> QED
  BY <1>1, <1>2 DEF Continues, Consistent

\* Slots say nothing about a job.
LEMMA SlotStep ==
  ASSUME NEW s \in Store, Consistent(s), NEW b \in Attempt, NEW slot \in {"free", "lapsed"}
  PROVE  Continues(s, [s EXCEPT !.attempt[b].slot = slot])
<1> DEFINE t == [s EXCEPT !.attempt[b].slot = slot]
<1>1. t \in Store
  BY SlotChange, Zenon
<1>2. t.report = s.report
  BY DEF Store
<1>3. \A a \in Attempt : /\ t.attempt[a].status = s.attempt[a].status
                         /\ t.attempt[a].cost = s.attempt[a].cost
  <2> SUFFICES ASSUME NEW a \in Attempt
               PROVE  t.attempt[a].status = s.attempt[a].status /\ t.attempt[a].cost = s.attempt[a].cost
    OBVIOUS
  <2>1. s.attempt[a] \in AttemptRow
    BY DEF Store
  <2>2. t.attempt[a] = IF a = b THEN [s.attempt[a] EXCEPT !.slot = slot] ELSE s.attempt[a]
    BY DEF Store
  <2> QED
    BY <2>1, <2>2 DEF AttemptRow
<1> HIDE DEF t
<1>4. Continues(s, t)
  BY <1>1, <1>2, <1>3, ReportsAreAttempts, AttemptStep DEF AttemptContinues, Settled
<1> QED
  BY <1>4 DEF t

-----------------------------------------------------------------------------
(* The actions.                                                            *)

\* An active report is queued or running.
LEMMA ActiveAreUnfinished == \A r \in Active(db) : db.report[r].status \in ActiveStatus
BY DEF Active, IsActive

\* Every transaction that cancels active reports is a Continues step.
LEMMA CancellingContinues ==
  ASSUME TypeOK, Consistent(db), NEW S \in SUBSET Active(db), db' = CancelPending(db, S)
  PROVE  Continues(db, db')
<1>1. S \in SUBSET Report /\ \A r \in S : db.report[r].status \in ActiveStatus
  BY ActiveAreUnfinished DEF Active
<1> QED
  BY <1>1, CancelPendingContinues DEF TypeOK

\* Every step that leaves the database alone is a Continues step.
LEMMA SameStoreContinues ==
  ASSUME TypeOK, Consistent(db), db' = db
  PROVE  Continues(db, db')
BY ContinuesIsReflexive DEF TypeOK

\* An owner's deletion cancels the report first, so a deleted report is not active.
LEMMA DeleteReportContinues ==
  ASSUME TypeOK, Consistent(db), NEW r \in Report, DeleteReport(r)
  PROVE  Continues(db, db')
<1> DEFINE S == {r} \cap Active(db)
           s == CancelPending(db, S)
           row == [s.report[r] EXCEPT !.deleted = TRUE, !.invalidated = TRUE]
<1>1. S \in SUBSET Report /\ \A q \in S : db.report[q].status \in ActiveStatus
  BY ActiveAreUnfinished
<1> HIDE DEF S
<1>2. s \in Store /\ Continues(db, s)
  BY <1>1, CancelPendingType, CancelPendingContinues DEF TypeOK
<1>3. s.report[r].status \notin ActiveStatus
  <2>1. s.report[r] = IF r \in S THEN Unleased(Account(db, S, "cancelled").report[r], "cancelled")
                                 ELSE Account(db, S, "cancelled").report[r]
    <3>1. Account(db, S, "cancelled") \in Store
      BY <1>1, AccountType DEF TypeOK, Settled
    <3> QED
      BY <3>1 DEF CancelPending, CancelRows, Store
  <2>2. Account(db, S, "cancelled").report = db.report
    BY <1>1, AccountEffect DEF TypeOK, Settled
  <2>3. db.report[r] \in Row
    BY DEF TypeOK, Store
  <2>4. Unleased(db.report[r], "cancelled").status = "cancelled"
    BY <2>3, UnleasedFields DEF Status
  <2>5. db.report[r].status \in ActiveStatus => r \in S
    BY DEF Consistent, RowMatches, S, Active, IsActive
  <2> QED
    BY <2>1, <2>2, <2>4, <2>5 DEF ActiveStatus
<1>4. db' = [s EXCEPT !.report[r].deleted = TRUE, !.report[r].invalidated = TRUE]
  BY DEF DeleteReport, Commit, S, s
<1> HIDE DEF s
<1>5. db' = [s EXCEPT !.report[r] = row]
  BY <1>2, <1>4 DEF Store
<1>6. s.report[r] \in Row
  BY <1>2 DEF Store
<1>7. /\ row.status = s.report[r].status /\ row.token = s.report[r].token /\ row.lease = s.report[r].lease
      /\ row.owner = s.report[r].owner /\ row.dispatched = s.report[r].dispatched
  BY <1>6 DEF Row
<1>8. row \in Row
  BY <1>6, RowUpdate
<1> HIDE DEF row
<1>9. db' \in Store
  BY <1>2, <1>5, <1>8, RowChange
<1>10. RowMatches(s.report[r], s.attempt[r])
  BY <1>2 DEF Continues, Consistent
<1>11. RowMatches(row, s.attempt[r]) /\ RowContinues(s.report[r], row)
  BY <1>3, <1>7, <1>10 DEF RowMatches, RowContinues, Marked
<1>12. Continues(s, db')
  <2>1. db'.attempt = s.attempt /\ db'.report[r] = row
        /\ \A q \in Report \ {r} : db'.report[q] = s.report[q]
    BY <1>2, <1>5 DEF Store
  <2>2. AttemptContinues(s.attempt[r], db'.attempt[r])
    BY <2>1 DEF AttemptContinues
  <2>3. Consistent(s)
    BY <1>2 DEF Continues
  <2> QED
    BY <1>2, <1>9, <1>11, <2>1, <2>2, <2>3, RowStep
<1> QED
  BY <1>2, <1>9, <1>12, ContinuesIsTransitive DEF TypeOK

\* A deleted source is a Continues step.
LEMMA SourceContinues ==
  ASSUME TypeOK, Consistent(db), NEW u \in User, DeleteSource(u)
  PROVE  Continues(db, db')
<1>1. PICK S \in SUBSET Report : db' = InvalidateSource(db, u, S)
  BY DEF DeleteSource, Commit, Of
<1> QED
  BY <1>1, InvalidateSourceContinues DEF TypeOK

\* A provider test has an attempt and no report.
LEMMA TestsAreNotReports == \A t \in Test : t \in Attempt /\ t \notin Report
BY SMTT(40), SMTT(80), ConstantAssumption DEF Test, Attempt, Report

\* Admitting a provider test is a Continues step: it reaps, and opens an attempt of its
\* own.
LEMMA AdmitTestContinues ==
  ASSUME TypeOK, Consistent(db), AdmitTest
  PROVE  Continues(db, db')
<1> DEFINE s == Reap(db)
<1>1. s \in Store /\ Continues(db, s)
  BY ReapType, ReapContinues DEF TypeOK
<1>2. db' \in Store
  BY SMTT(40), SMTT(80), AdmitTestType DEF TypeOK
<1>3. \/ db' = s
      \/ \E t \in Test :
           /\ s.attempt[t].status = "none"
           /\ db' = [s EXCEPT !.attempt[t] = NewAttempt(month),
                  !.global[month] = ConsumeGlobalBudget(ReserveGlobalBudget(@, Cost), Cost)]
  BY DEF AdmitTest, Commit
<1> HIDE DEF s
<1>4. ASSUME NEW t \in Test, s.attempt[t].status = "none",
             db' = [s EXCEPT !.attempt[t] = NewAttempt(month),
                  !.global[month] = ConsumeGlobalBudget(ReserveGlobalBudget(@, Cost), Cost)]
      PROVE  Continues(s, db')
  <2>1. /\ db'.report = s.report
        /\ \A a \in Attempt : db'.attempt[a] = IF a = t THEN NewAttempt(month) ELSE s.attempt[a]
    BY <1>1, <1>4 DEF Store
  <2>2. \A r \in Report : db'.attempt[r].status = s.attempt[r].status
    BY <2>1, TestsAreNotReports, ReportsAreAttempts
  <2>3. \A a \in Attempt : AttemptContinues(s.attempt[a], db'.attempt[a])
    BY <1>4, <2>1 DEF AttemptContinues, Settled
  <2>4. Consistent(s)
    BY <1>1 DEF Continues
  <2> QED
    BY <1>1, <1>2, <2>1, <2>2, <2>3, <2>4, AttemptStep
<1> QED
  BY <1>1, <1>2, <1>3, <1>4, ContinuesIsTransitive DEF TypeOK

\* Settling a provider test is a Continues step.
LEMMA SettleTestContinues ==
  ASSUME TypeOK, Consistent(db), NEW t \in Test, SettleTest(t)
  PROVE  Continues(db, db')
<1>1. db' \in Store
  BY ZenonT(60), ZenonT(90), SettleTestType DEF TypeOK
<1>2. PICK outcome \in {"succeeded", "unknown"}, cost \in ActualCosts \cup {NoCost} :
        db' = [db EXCEPT
            !.attempt[t] = [@ EXCEPT !.status = outcome, !.slot = "free", !.cost = cost],
            !.global[db.attempt[t].month] =
              IF cost = NoCost THEN SettleUnknownGlobalBudget(@, 1)
                               ELSE SettleKnownGlobalBudget(@, Cost, cost)]
  BY DEF SettleTest, Commit
<1> DEFINE attempt == [db.attempt[t] EXCEPT !.status = outcome, !.slot = "free", !.cost = cost]
<1>3. /\ db'.report = db.report
      /\ \A a \in Attempt : db'.attempt[a] = IF a = t THEN attempt ELSE db.attempt[a]
  BY <1>2 DEF TypeOK, Store
<1>4. attempt.status = outcome
  <2>1. db.attempt[t] \in AttemptRow
    BY TestsAreNotReports DEF TypeOK, Store
  <2> QED
    BY <2>1 DEF AttemptRow
<1> HIDE DEF attempt
<1>5. db.attempt[t].status = "dispatched"
  BY DEF SettleTest
<1>6. \A r \in Report : db'.attempt[r].status = db.attempt[r].status
  BY <1>3, TestsAreNotReports, ReportsAreAttempts
<1>7. \A a \in Attempt : AttemptContinues(db.attempt[a], db'.attempt[a])
  BY SMTT(40), SMTT(80), <1>3, <1>4, <1>5 DEF AttemptContinues, Settled
<1> QED
  BY <1>1, <1>3, <1>6, <1>7, AttemptStep DEF TypeOK

\* A claim is a Continues step: it reaps, recovers lost leases and leases a queued
\* report.
LEMMA ClaimContinues ==
  ASSUME TypeOK, Consistent(db), NEW w \in Worker, Claim(w)
  PROVE  Continues(db, db')
<1> DEFINE s1 == Reap(db)
           s == ExpireLeases(s1)
<1>1. s1 \in Store /\ Continues(db, s1)
  BY ReapType, ReapContinues DEF TypeOK
<1>2. s \in Store /\ Continues(s1, s)
  <2>1. Consistent(s1)
    BY <1>1 DEF Continues
  <2> HIDE DEF s1
  <2> QED
    BY <1>1, <2>1, ExpireLeasesType, ExpireLeasesContinues
<1>3. db' \in Store
  BY SMTT(40), SMTT(80), ClaimType DEF TypeOK
<1>4. \/ db' = s
      \/ \E r \in Report :
           /\ s.report[r].status = "queued" /\ ~s.report[r].deleted /\ ~s.report[r].invalidated
           /\ db' = [s EXCEPT !.report[r] = [@ EXCEPT !.status = "running", !.token = w, !.lease = "live"]]
  BY DEF Claim, Commit
<1> HIDE DEF s1, s
<1>5. Continues(db, s)
  BY <1>1, <1>2, ContinuesIsTransitive DEF TypeOK
<1>6. ASSUME NEW r \in Report,
             s.report[r].status = "queued",
             db' = [s EXCEPT !.report[r] = [@ EXCEPT !.status = "running", !.token = w, !.lease = "live"]]
      PROVE  Continues(s, db')
  <2> DEFINE old == s.report[r]
             new == [old EXCEPT !.status = "running", !.token = w, !.lease = "live"]
  <2>1. old \in Row
    BY <1>2 DEF Store
  <2>2. /\ db'.attempt = s.attempt /\ db'.report[r] = new
        /\ \A q \in Report \ {r} : db'.report[q] = s.report[q]
    BY <1>2, <1>6 DEF Store
  <2>3. /\ new.status = "running" /\ new.token = w /\ new.lease = "live"
        /\ new.owner = old.owner /\ new.provider = old.provider /\ new.dispatched = old.dispatched
        /\ new.deleted = old.deleted /\ new.invalidated = old.invalidated
    BY <2>1 DEF Row
  <2>4. w # NoWorker
    BY ConstantAssumption
  <2>5. RowMatches(old, s.attempt[r])
    BY <1>2 DEF Continues, Consistent
  <2>6. old.status = "queued"
    BY <1>6
  <2> HIDE DEF old, new
  <2>7. RowMatches(new, s.attempt[r]) /\ RowContinues(old, new)
    BY <2>3, <2>4, <2>5, <2>6 DEF RowMatches, RowContinues, ActiveStatus, Final, Marked
  <2>8. AttemptContinues(s.attempt[r], db'.attempt[r])
    BY <2>2 DEF AttemptContinues
  <2>9. Consistent(s)
    BY <1>2 DEF Continues
  <2>10. RowContinues(s.report[r], db'.report[r]) /\ RowMatches(db'.report[r], db'.attempt[r])
    BY <2>2, <2>7 DEF old
  <2> QED
    BY <1>2, <1>3, <2>2, <2>8, <2>9, <2>10, RowStep
<1> QED
  BY <1>2, <1>3, <1>4, <1>5, <1>6, ContinuesIsTransitive DEF TypeOK

\* An admission is a Continues step: it opens the attempt of a report that had none.
LEMMA AdmitContinues ==
  ASSUME TypeOK, Consistent(db), NEW w \in Worker, Admit(w)
  PROVE  Continues(db, db')
<1> DEFINE s == Reap(db)
           r == worker[w].report
           row == s.report[r]
           Granted ==
             /\ Holds(s, w, r) /\ ~row.dispatched
             /\ db' = [s EXCEPT
                  !.report[r].dispatched = TRUE,
                  !.attempt[r] = NewAttempt(row.month),
                  !.global[row.month] = ConsumeGlobalBudget(@, Cost),
                  !.usage[row.owner][row.month] = ConsumeUserQuota(@)]
<1>1. s \in Store /\ Continues(db, s)
  BY ReapType, ReapContinues DEF TypeOK
<1>2. db' \in Store
  BY AdmitType DEF TypeOK
<1>3. r \in Report /\ r \in Attempt
  BY ZenonT(60), ZenonT(90), WorkersReport DEF Admit
<1>4. db' = s \/ db' = db \/ Granted
  BY DEF Admit, Commit
<1> HIDE DEF s, r
<1>5. ASSUME Granted PROVE Continues(s, db')
  <2> DEFINE old == s.report[r]
             new == db'.report[r]
             attempt == db'.attempt[r]
  <2>1. /\ new = [old EXCEPT !.dispatched = TRUE] /\ attempt = NewAttempt(row.month)
        /\ \A q \in Report \ {r} : db'.report[q] = s.report[q]
        /\ \A a \in Attempt \ {r} : db'.attempt[a] = s.attempt[a]
    BY <1>1, <1>3, <1>5 DEF Store
  <2>2. old \in Row
    BY <1>1, <1>3 DEF Store
  <2>3. /\ new.status = old.status /\ new.token = old.token /\ new.lease = old.lease
        /\ new.owner = old.owner /\ new.provider = old.provider /\ new.dispatched
        /\ new.deleted = old.deleted /\ new.invalidated = old.invalidated
    BY <2>1, <2>2 DEF Row
  <2>4. attempt.status = "dispatched"
    BY <2>1 DEF NewAttempt
  <2>5. old.status = "running" /\ ~old.dispatched
    BY <1>5 DEF Holds
  <2>6. RowMatches(old, s.attempt[r])
    BY <1>1, <1>3 DEF Continues, Consistent
  <2>7. Consistent(s)
    BY <1>1 DEF Continues
  <2> HIDE DEF old, new, attempt
  <2>8. RowMatches(new, attempt) /\ RowContinues(old, new)
    BY <2>3, <2>4, <2>5, <2>6 DEF RowMatches, RowContinues, ActiveStatus, Final, Marked
  <2>9. s.attempt[r].status = "none"
    BY <2>5, <2>6 DEF RowMatches
  <2>10. AttemptContinues(s.attempt[r], attempt)
    BY <2>9 DEF AttemptContinues, Settled
  <2>11. /\ RowMatches(db'.report[r], db'.attempt[r]) /\ RowContinues(s.report[r], db'.report[r])
         /\ AttemptContinues(s.attempt[r], db'.attempt[r])
    BY <2>8, <2>10 DEF old, new, attempt
  <2> QED
    BY <1>1, <1>2, <1>3, <2>1, <2>7, <2>11, RowStep
<1>6. CASE db' = db
  BY <1>6, SameStoreContinues
<1> QED
  BY ZenonT(60), ZenonT(90), <1>1, <1>2, <1>4, <1>5, <1>6, ContinuesIsTransitive DEF TypeOK

\* A worker's requeue is a Continues step.
LEMMA RequeueContinues ==
  ASSUME TypeOK, Consistent(db), NEW w \in Worker, Requeue(w)
  PROVE  Continues(db, db')
<1> DEFINE r == worker[w].report
<1>1. r \in Report
  BY WorkersReport DEF Requeue
<1>2. db' \in Store
  BY RequeueType DEF TypeOK
<1>3. \/ db' = db
      \/ /\ db.report[r].status = "running" /\ ~db.report[r].dispatched
         /\ db' = [db EXCEPT !.report[r] = Unleased(@, "queued")]
  BY DEF Requeue, Holds
<1> HIDE DEF r
<1>4. ASSUME db.report[r].status = "running", ~db.report[r].dispatched,
             db' = [db EXCEPT !.report[r] = Unleased(@, "queued")]
      PROVE  Continues(db, db')
  <2>1. /\ db'.attempt = db.attempt /\ db'.report[r] = Unleased(db.report[r], "queued")
        /\ \A q \in Report \ {r} : db'.report[q] = db.report[q]
    BY <1>1, <1>4 DEF TypeOK, Store
  <2>2. db.report[r] \in Row /\ db.attempt[r] \in AttemptRow
    BY <1>1, ReportsAreAttempts DEF TypeOK, Store
  <2>3. RowMatches(db.report[r], db.attempt[r])
    BY <1>1 DEF Consistent
  <2>4. RowMatches(db'.report[r], db'.attempt[r]) /\ RowContinues(db.report[r], db'.report[r])
    BY <1>4, <2>1, <2>2, <2>3, RequeueingContinues DEF ActiveStatus
  <2>5. AttemptContinues(db.attempt[r], db'.attempt[r])
    BY <2>1 DEF AttemptContinues
  <2> QED
    BY <1>1, <1>2, <2>1, <2>4, <2>5, RowStep DEF TypeOK
<1> QED
  BY <1>3, <1>4, SameStoreContinues

\* A worker's failure is a Continues step, whichever outcome it records.
LEMMA FailContinues ==
  ASSUME TypeOK, Consistent(db), NEW w \in Worker, Fail(w)
  PROVE  Continues(db, db')
<1> DEFINE r == worker[w].report
           a == Account(db, {r}, "failed")
           ended == [a EXCEPT !.report[r] = Unleased(@, "failed")]
<1>1. r \in Report /\ r \in Attempt
  BY ZenonT(60), ZenonT(90), WorkersReport DEF Fail
<1>2. db' \in Store
  BY FailType DEF TypeOK
<1>3. \/ db' = db
      \/ /\ db.report[r].status = "running"
         /\ db.report[r].dispatched => db.attempt[r].status = "dispatched"
         /\ \/ ~db.report[r].dispatched /\ db' = ended
            \/ \E outcome \in {"failed", "unknown"} :
                 /\ db.report[r].dispatched
                 /\ db' = [ended EXCEPT !.attempt[r] = [@ EXCEPT !.status = outcome, !.slot = "free"]]
  BY DEF Fail, Commit, Holds
<1> HIDE DEF r
<1>4. a \in Store
  BY <1>1, AccountType DEF TypeOK, Settled
<1>5. /\ a.report = db.report
      /\ \A b \in Attempt :
           IF b \in {r} /\ db.report[b].dispatched /\ db.attempt[b].status = "dispatched"
           THEN a.attempt[b].status = "failed" /\ a.attempt[b].cost = db.attempt[b].cost
           ELSE a.attempt[b] = db.attempt[b]
  BY <1>1, AccountEffect DEF TypeOK, Settled
<1>6. /\ ended.attempt = a.attempt /\ ended.report[r] = Unleased(db.report[r], "failed")
      /\ \A q \in Report \ {r} : ended.report[q] = db.report[q]
  BY <1>1, <1>4, <1>5 DEF Store
<1>7. ended \in [report : [Report -> {ended.report[q] : q \in Report}],
                 attempt : [Attempt -> AttemptRow], usage : {a.usage}, global : {a.global}]
  BY <1>4 DEF Store
<1> HIDE DEF a, ended
<1>8. /\ db.report[r] \in Row /\ db.attempt[r] \in AttemptRow /\ a.attempt[r] \in AttemptRow
      /\ RowMatches(db.report[r], db.attempt[r])
  BY <1>1, <1>4 DEF TypeOK, Store, Consistent
<1>9. ASSUME db'.report = ended.report,
             \A b \in Attempt \ {r} : db'.attempt[b] = a.attempt[b],
             db.report[r].status = "running",
             IF db.report[r].dispatched THEN db'.attempt[r].status \in {"failed", "unknown"}
                                        ELSE db'.attempt[r] = db.attempt[r],
             db.report[r].dispatched => db.attempt[r].status = "dispatched"
      PROVE  Continues(db, db')
  <2>1. db'.report[r] \in Row /\ db'.attempt[r] \in AttemptRow
    BY <1>1, <1>2 DEF Store
  <2>2. RowMatches(db'.report[r], db'.attempt[r]) /\ RowContinues(db.report[r], db'.report[r])
    <3>1. db'.report[r] = Unleased(db.report[r], "failed") /\ db.report[r].status \in ActiveStatus
      BY <1>6, <1>9 DEF ActiveStatus
    <3>2. IF db.report[r].dispatched THEN db'.attempt[r].status \in Settled \ {"succeeded"}
                                     ELSE db'.attempt[r] = db.attempt[r]
      BY <1>9 DEF Settled
    <3> QED
      BY <1>8, <2>1, <3>1, <3>2, UnleasedFields, EndingContinues DEF Status
  <2>3. AttemptContinues(db.attempt[r], db'.attempt[r])
    BY <1>9, <1>8 DEF AttemptContinues, Settled
  <2>4. /\ \A q \in Report \ {r} : db'.report[q] = db.report[q]
        /\ \A b \in Attempt \ {r} : db'.attempt[b] = db.attempt[b]
    BY <1>5, <1>6, <1>9
  <2> QED
    BY <1>1, <1>2, <2>2, <2>3, <2>4, RowStep DEF TypeOK
<1>10. ASSUME db.report[r].status = "running", ~db.report[r].dispatched, db' = ended
       PROVE  Continues(db, db')
  BY <1>1, <1>5, <1>6, <1>9, <1>10
<1>11. ASSUME db.report[r].status = "running", db.report[r].dispatched,
              db.attempt[r].status = "dispatched", NEW outcome \in {"failed", "unknown"},
              db' = [ended EXCEPT !.attempt[r] = [@ EXCEPT !.status = outcome, !.slot = "free"]]
       PROVE  Continues(db, db')
  <2>1. ended.attempt[r] \in AttemptRow
    BY <1>6, <1>8
  <2>2. [ended.attempt[r] EXCEPT !.status = outcome, !.slot = "free"].status = outcome
    BY <2>1 DEF AttemptRow
  <2>3. /\ db'.report = ended.report
        /\ db'.attempt[r] = [ended.attempt[r] EXCEPT !.status = outcome, !.slot = "free"]
        /\ \A b \in Attempt \ {r} : db'.attempt[b] = a.attempt[b]
    BY <1>1, <1>6, <1>7, <1>11
  <2> QED
    BY <1>9, <1>11, <2>2, <2>3
<1> QED
  BY ZenonT(60), ZenonT(90), <1>3, <1>10, <1>11, SameStoreContinues

\* A worker's last release is a Continues step.
LEMMA ReleaseSlotContinues ==
  ASSUME TypeOK, Consistent(db), NEW w \in Worker, ReleaseSlot(w)
  PROVE  Continues(db, db')
<1>1. worker[w].report \in Attempt
  BY WorkersReport DEF ReleaseSlot
<1>2. db' = db \/ db' = [db EXCEPT !.attempt[worker[w].report].slot = "free"]
  BY DEF ReleaseSlot
<1> QED
  BY ZenonT(60), ZenonT(90), <1>1, <1>2, SlotStep, SameStoreContinues DEF TypeOK

\* The passing of a lease is a Continues step.
LEMMA LeaseLapseContinues ==
  ASSUME TypeOK, Consistent(db), NEW r \in Report, LeaseLapse(r)
  PROVE  Continues(db, db')
<1> DEFINE old == db.report[r]
           new == [old EXCEPT !.lease = "lapsed"]
<1>1. db' \in Store
  BY LeaseLapseType DEF TypeOK
<1>2. /\ db'.attempt = db.attempt /\ db'.report[r] = new
      /\ \A q \in Report \ {r} : db'.report[q] = db.report[q]
  BY DEF LeaseLapse, TypeOK, Store
<1>3. old \in Row
  BY DEF TypeOK, Store
<1>4. /\ new.status = old.status /\ new.token = old.token /\ new.lease = "lapsed"
      /\ new.owner = old.owner /\ new.provider = old.provider /\ new.dispatched = old.dispatched
      /\ new.deleted = old.deleted /\ new.invalidated = old.invalidated
  BY <1>3 DEF Row
<1>5. old.status = "running" /\ RowMatches(old, db.attempt[r])
  BY DEF LeaseLapse, Consistent
<1> HIDE DEF old, new
<1>6. RowMatches(new, db.attempt[r]) /\ RowContinues(old, new)
  BY <1>4, <1>5 DEF RowMatches, RowContinues, Marked, Final
<1>7. AttemptContinues(db.attempt[r], db'.attempt[r])
  BY <1>2 DEF AttemptContinues
<1>8. RowMatches(db'.report[r], db'.attempt[r]) /\ RowContinues(db.report[r], db'.report[r])
  BY <1>2, <1>6 DEF old
<1> QED
  BY <1>1, <1>2, <1>7, <1>8, RowStep DEF TypeOK

-----------------------------------------------------------------------------
(* The two actions that are no Continues steps.                            *)

Others(r) ==
  /\ \A q \in Report \ {r} : db'.report[q] = db.report[q]
  /\ \A a \in Attempt \ {r} : db'.attempt[a] = db.attempt[a]

Submits(u, r) ==
  /\ db.report[r].status = "absent"
  /\ db'.report[r].status = "queued" /\ db'.report[r].owner = u
  /\ db'.report[r].provider = runtime.provider
  /\ db'.attempt[r] = db.attempt[r]
  /\ Others(r)

Publishes(r) ==
  /\ db.report[r].status = "running" /\ db.report[r].dispatched /\ db.attempt[r].status = "dispatched"
  /\ db'.report[r].status = "succeeded" /\ db'.report[r].dispatched
  /\ db'.attempt[r].status = "succeeded"
  /\ Others(r)

\* A submission adds one queued row, pinned to the active provider.
LEMMA GenerateSubmits ==
  ASSUME TypeOK, Consistent(db), NEW u \in User, Generate(u)
  PROVE  Consistent(db') /\ \E r \in Report : Submits(u, r)
<1>1. PICK r \in Report :
        /\ db.report[r].status = "absent"
        /\ db' = [db EXCEPT
            !.global[month] = ReserveGlobalBudget(@, Cost),
            !.usage[u][month] = ReserveUserQuota(@),
            !.report[r] = [NoRow("queued") EXCEPT !.owner = u, !.month = month,
                             !.provider = runtime.provider, !.prompt = runtime.prompt]]
  BY DEF Generate, Commit
<1> DEFINE new == [NoRow("queued") EXCEPT !.owner = u, !.month = month,
                             !.provider = runtime.provider, !.prompt = runtime.prompt]
<1>2. /\ db'.report[r] = new /\ db'.attempt = db.attempt
      /\ \A q \in Report \ {r} : db'.report[q] = db.report[q]
  BY <1>1 DEF TypeOK, Store
<1>3. /\ new.status = "queued" /\ new.owner = u /\ new.provider = runtime.provider /\ ~new.dispatched
      /\ new.token = NoWorker /\ new.lease = "none" /\ ~new.deleted /\ ~new.invalidated
  BY DEF NoRow
<1> HIDE DEF new
<1>4. u # NoUser
  BY ConstantAssumption
<1>5. RowMatches(db.report[r], db.attempt[r])
  BY DEF Consistent
<1>6. RowMatches(new, db.attempt[r])
  BY <1>1, <1>3, <1>4, <1>5 DEF RowMatches, ActiveStatus
<1>7. Consistent(db')
  BY <1>2, <1>6, ReportsAreAttempts DEF Consistent
<1>8. Submits(u, r)
  BY <1>1, <1>2, <1>3 DEF Submits, Others
<1> QED
  BY <1>7, <1>8

\* A completion publishes one running, dispatched report, or nothing.
LEMMA CompletePublishes ==
  ASSUME TypeOK, Consistent(db), NEW w \in Worker, Complete(w)
  PROVE  Consistent(db') /\ (db' = db \/ \E r \in Report : Publishes(r))
<1> DEFINE r == worker[w].report
           new == Unleased(db.report[r], "succeeded")
           Published(cost) == db' = [db EXCEPT
               !.attempt[r] = [@ EXCEPT !.status = "succeeded", !.slot = "free", !.cost = cost],
               !.report[r] = Unleased(@, "succeeded"),
               !.global[db.report[r].month] = IF cost = NoCost THEN SettleUnknownGlobalBudget(@, 1)
                                     ELSE SettleKnownGlobalBudget(@, Cost, cost)]
<1>1. r \in Report /\ r \in Attempt
  BY ZenonT(60), ZenonT(90), WorkersReport DEF Complete
<1>2. \/ db' = db
      \/ /\ db.report[r].status = "running" /\ db.report[r].dispatched
         /\ db.attempt[r].status = "dispatched"
         /\ \E cost \in ActualCosts \cup {NoCost} : Published(cost)
  BY DEF Complete, Commit, Holds
<1> HIDE DEF r
<1>3. ASSUME db.report[r].status = "running", db.report[r].dispatched,
             db.attempt[r].status = "dispatched",
             NEW cost \in ActualCosts \cup {NoCost}, Published(cost)
      PROVE  Consistent(db') /\ Publishes(r)
  <2> DEFINE attempt == [db.attempt[r] EXCEPT !.status = "succeeded", !.slot = "free", !.cost = cost]
  <2>1. /\ db'.report[r] = new /\ db'.attempt[r] = attempt
        /\ Others(r)
    BY <1>1, <1>3 DEF TypeOK, Store, Others
  <2>2. db.report[r] \in Row /\ db.attempt[r] \in AttemptRow
    BY <1>1 DEF TypeOK, Store
  <2>3. /\ new.status = "succeeded" /\ new.token = NoWorker /\ new.lease = "none"
        /\ new.owner = db.report[r].owner /\ new.dispatched = db.report[r].dispatched
    BY <2>2, UnleasedFields DEF Status
  <2>4. attempt.status = "succeeded"
    BY <2>2 DEF AttemptRow
  <2> HIDE DEF attempt, new
  <2>5. RowMatches(db.report[r], db.attempt[r])
    BY <1>1 DEF Consistent
  <2>6. RowMatches(new, attempt)
    BY <1>3, <2>3, <2>4, <2>5 DEF RowMatches, ActiveStatus
  <2>7. Consistent(db')
    BY <2>1, <2>6, ReportsAreAttempts DEF Consistent, Others
  <2>8. Publishes(r)
    BY <1>3, <2>1, <2>3, <2>4 DEF Publishes
  <2> QED
    BY <2>7, <2>8
<1> QED
  BY <1>1, <1>2, <1>3

-----------------------------------------------------------------------------
(* Permissions.                                                            *)

\* What is cancelled is not active any more.
LEMMA CancelledAreEnded ==
  ASSUME TypeOK, NEW S \in SUBSET Report
  PROVE  \A r \in S : CancelPending(db, S).report[r].status = "cancelled"
<1> DEFINE a == Account(db, S, "cancelled")
<1>1. a \in Store /\ a.report = db.report
  BY AccountType, AccountEffect DEF TypeOK, Settled
<1>2. CancelPending(db, S).report
        = [r \in Report |-> IF r \in S THEN Unleased(a.report[r], "cancelled") ELSE a.report[r]]
  BY <1>1 DEF CancelPending, CancelRows, Store
<1> HIDE DEF a
<1>3. ASSUME NEW r \in S
      PROVE  CancelPending(db, S).report[r].status = "cancelled"
  <2>1. db.report[r] \in Row
    BY DEF TypeOK, Store
  <2> QED
    BY <1>1, <1>2, <2>1, UnleasedFields DEF Status
<1> QED
  BY <1>3

\* A Continues step that touches no permission leaves every unfinished job permitted.
LEMMA PermissionsKept ==
  ASSUME TypeOK, Permitted, Continues(db, db'), UNCHANGED <<users, access, consent, runtime>>
  PROVE  Permitted'
BY DEF Permitted, Continues, RowContinues

\* What cancels S may withdraw the permissions of S and of no other job.
LEMMA WithdrawalsCancel ==
  ASSUME TypeOK, Consistent(db), Permitted, NEW S \in SUBSET Active(db), db' = CancelPending(db, S),
         \A r \in Active(db) \ S :
           LET row == db.report[r] IN
           /\ runtime'.enabled /\ row.provider = runtime'.provider
           /\ row.owner \in users' /\ access'[row.owner] /\ consent'[row.owner] # 0
  PROVE  Continues(db, db') /\ Permitted'
<1>1. Continues(db, db')
  BY CancellingContinues
<1>2. S \subseteq Report
  BY DEF Active
<1>3. \A r \in S : db'.report[r].status = "cancelled"
  BY <1>2, CancelledAreEnded
<1>4. ASSUME NEW r \in Report, db'.report[r].status \in ActiveStatus
      PROVE  LET row == db'.report[r] IN
             /\ runtime'.enabled /\ row.provider = runtime'.provider
             /\ row.owner \in users' /\ access'[row.owner] /\ consent'[row.owner] # 0
  <2>1. /\ db.report[r].status \in ActiveStatus
        /\ db'.report[r].owner = db.report[r].owner /\ db'.report[r].provider = db.report[r].provider
    BY <1>1, <1>4 DEF Continues, RowContinues
  <2>2. r \in Active(db)
    BY <2>1 DEF Active, IsActive, Consistent, RowMatches
  <2>3. r \notin S
    BY <1>3, <1>4 DEF ActiveStatus
  <2> QED
    BY <2>1, <2>2, <2>3
<1> QED
  BY <1>1, <1>4 DEF Permitted

\* An active job has all its permissions.
LEMMA PermittedOwner ==
  ASSUME Permitted, NEW r \in Active(db)
  PROVE  LET row == db.report[r] IN
         /\ r \in Report
         /\ runtime.enabled /\ row.provider = runtime.provider
         /\ row.owner \in users /\ access[row.owner] /\ consent[row.owner] # 0
BY DEF Permitted, Active, IsActive

\* A withdrawn consent ends the jobs that rest on it.
LEMMA RevokeConsentStep ==
  ASSUME TypeOK, Consistent(db), Permitted, NEW u \in User, RevokeConsent(u)
  PROVE  Continues(db, db') /\ Permitted'
<1> DEFINE S == Active(db) \cap Of(db, u)
<1>1. db' = CancelPending(db, S) /\ consent' = [consent EXCEPT ![u] = 0]
      /\ UNCHANGED <<users, access, runtime>>
  BY DEF RevokeConsent, Commit
<1>2. ASSUME NEW r \in Active(db) \ S
      PROVE  LET row == db.report[r] IN
             /\ runtime'.enabled /\ row.provider = runtime'.provider
             /\ row.owner \in users' /\ access'[row.owner] /\ consent'[row.owner] # 0
  <2>1. db.report[r].owner # u
    BY DEF Of, Active
  <2> QED
    BY <1>1, <2>1, PermittedOwner DEF TypeOK
<1> QED
  BY <1>1, <1>2, WithdrawalsCancel

\* Withdrawn access ends the jobs that rest on it.
LEMMA UpdateAccessStep ==
  ASSUME TypeOK, Consistent(db), Permitted, NEW u \in User, UpdateAccess(u)
  PROVE  Continues(db, db') /\ Permitted'
<1>1. /\ access' = [access EXCEPT ![u] = ~@]
      /\ UNCHANGED <<users, consent, runtime>>
  BY DEF UpdateAccess
<1>2. CASE access[u]
  <2> DEFINE S == Active(db) \cap Of(db, u)
  <2>1. db' = CancelPending(db, S)
    BY <1>2 DEF UpdateAccess, Commit
  <2>2. ASSUME NEW r \in Active(db) \ S
        PROVE  LET row == db.report[r] IN
               /\ runtime'.enabled /\ row.provider = runtime'.provider
               /\ row.owner \in users' /\ access'[row.owner] /\ consent'[row.owner] # 0
    <3>1. db.report[r].owner # u
      BY DEF Of, Active
    <3>2. db.report[r].owner \in User => access'[db.report[r].owner] = access[db.report[r].owner]
      BY <1>1, <3>1 DEF TypeOK
    <3> QED
      BY <1>1, <3>2, PermittedOwner DEF TypeOK
  <2> QED
    BY <2>1, <2>2, WithdrawalsCancel
<1>3. CASE ~access[u]
  <2>1. db' = db
    BY <1>3 DEF UpdateAccess, Commit
  <2>2. ASSUME NEW v \in User, access[v] PROVE access'[v]
    <3>1. v # u
      BY <1>3, <2>2
    <3> QED
      BY <1>1, <2>2, <3>1 DEF TypeOK
  <2>3. Permitted'
    BY <1>1, <2>1, <2>2 DEF Permitted, TypeOK
  <2> QED
    BY <2>1, <2>3, SameStoreContinues
<1> QED
  BY <1>2, <1>3

\* Switching generation off ends every job.
LEMMA UpdateGenerationEnabledStep ==
  ASSUME TypeOK, Consistent(db), Permitted, UpdateGenerationEnabled
  PROVE  Continues(db, db') /\ Permitted'
<1>1. UNCHANGED <<users, access, consent>>
  BY DEF UpdateGenerationEnabled
<1>2. CASE runtime.enabled
  <2>1. db' = CancelPending(db, Active(db))
    BY <1>2 DEF UpdateGenerationEnabled, Commit
  <2> QED
    BY <2>1, WithdrawalsCancel
<1>3. CASE ~runtime.enabled
  <2>1. db' = db
    BY <1>3 DEF UpdateGenerationEnabled, Commit
  <2>2. \A r \in Report : db.report[r].status \notin ActiveStatus
    BY <1>3 DEF Permitted
  <2>3. Permitted'
    BY <2>1, <2>2 DEF Permitted
  <2> QED
    BY <2>1, <2>3, SameStoreContinues
<1> QED
  BY <1>2, <1>3

\* Publishing a provider ends the jobs of the one it replaces, which are all there are.
LEMMA PublishProviderStep ==
  ASSUME TypeOK, Consistent(db), Permitted, PublishProvider
  PROVE  Continues(db, db') /\ Permitted'
<1> DEFINE S == {r \in Active(db) : db.report[r].provider = runtime.provider}
<1>1. db' = CancelPending(db, S) /\ UNCHANGED <<users, access, consent>>
  BY DEF PublishProvider, Commit
<1>2. Active(db) \ S = {}
  BY PermittedOwner
<1> QED
  BY <1>1, <1>2, WithdrawalsCancel

\* A deleted account leaves no job behind.
LEMMA DeleteAccountStep ==
  ASSUME TypeOK, Consistent(db), Permitted, NEW u \in User, DeleteAccount(u)
  PROVE  Continues(db, db') /\ Permitted'
<1>1. db' = PurgeAccount(db, u)
  BY DEF DeleteAccount, Commit
<1>2. Continues(db, db')
  BY <1>1, PurgeAccountContinues DEF TypeOK
<1>3. /\ users' = users \ {u} /\ access' = [access EXCEPT ![u] = FALSE]
      /\ consent' = [consent EXCEPT ![u] = 0] /\ UNCHANGED runtime
  BY DEF DeleteAccount
<1>4. ASSUME NEW r \in Report, db'.report[r].status \in ActiveStatus
      PROVE  LET row == db'.report[r] IN
             /\ runtime'.enabled /\ row.provider = runtime'.provider
             /\ row.owner \in users' /\ access'[row.owner] /\ consent'[row.owner] # 0
  <2> DEFINE ended == Account(db, {q \in Of(db, u) : db.report[q].status \in ActiveStatus
                                                    \/ db.attempt[q].status = "dispatched"}, "unknown")
  <2>1. /\ db.report[r].status \in ActiveStatus
        /\ db'.report[r].owner = db.report[r].owner /\ db'.report[r].provider = db.report[r].provider
    BY <1>2, <1>4 DEF Continues, RowContinues
  <2>2. ended \in Store
    BY ZenonT(60), ZenonT(90), AccountType DEF TypeOK, Settled, Of
  <2>3. db'.report = [q \in Report |-> IF q \in Of(db, u) THEN NoRow("purged") ELSE db.report[q]]
    BY <1>1, <2>2 DEF PurgeAccount, Store
  <2>4. r \notin Of(db, u)
    BY <1>4, <2>3 DEF NoRow, ActiveStatus
  <2>5. db.report[r].owner # u
    BY <2>4 DEF Of
  <2>6. /\ runtime.enabled /\ db.report[r].provider = runtime.provider
        /\ db.report[r].owner \in users /\ access[db.report[r].owner] /\ consent[db.report[r].owner] # 0
    BY <2>1 DEF Permitted
  <2> QED
    BY <1>3, <2>1, <2>5, <2>6 DEF TypeOK
<1> QED
  BY <1>2, <1>4 DEF Permitted

\* Accepting a consent, even an outdated one, withdraws nothing.
LEMMA AcceptConsentStep ==
  ASSUME TypeOK, Consistent(db), Permitted, NEW u \in User, AcceptConsent(u)
  PROVE  Continues(db, db') /\ Permitted'
<1>1. PICK p \in 1..runtime.provider : consent' = [consent EXCEPT ![u] = RecipientOf[p]]
  BY DEF AcceptConsent
<1>2. RecipientOf[p] # 0
  BY ConstantAssumption DEF TypeOK, Provider
<1>3. UNCHANGED <<db, users, access, runtime>>
  BY DEF AcceptConsent
<1>4. ASSUME NEW v \in User, consent[v] # 0 PROVE consent'[v] # 0
  BY <1>1, <1>2, <1>4 DEF TypeOK
<1>5. Permitted'
  BY <1>3, <1>4 DEF Permitted, TypeOK
<1> QED
  BY <1>3, <1>5, SameStoreContinues

\* Publishing a prompt changes no permission.
LEMMA PublishPromptStep ==
  ASSUME TypeOK, Consistent(db), Permitted, PublishPrompt
  PROVE  Continues(db, db') /\ Permitted'
<1>1. /\ UNCHANGED <<db, users, access, consent>>
      /\ runtime'.enabled = runtime.enabled /\ runtime'.provider = runtime.provider
  BY DEF PublishPrompt, TypeOK
<1>2. Permitted'
  BY <1>1 DEF Permitted
<1> QED
  BY <1>1, <1>2, SameStoreContinues

-----------------------------------------------------------------------------
(* Calls.                                                                  *)

InCall(pc) == pc \in {"calling", "answered"}

\* the workers start no call
NoNewCall ==
  \A w \in Worker : InCall(worker'[w].pc) =>
    InCall(worker[w].pc) /\ worker'[w].report = worker[w].report

\* a worker starts a call, on a report that was not marked before
NewCall(w) ==
  /\ ~Marked(db.report[worker[w].report]) /\ Marked(db'.report[worker[w].report])
  /\ worker'[w].report = worker[w].report
  /\ \A v \in Worker \ {w} : worker'[v] = worker[v]

\* A worker's step changes its own variables only.
LEMMA WorkerChange ==
  ASSUME TypeOK, NEW w \in Worker, NEW x, worker' = [worker EXCEPT ![w] = x]
  PROVE  worker'[w] = x /\ \A v \in Worker \ {w} : worker'[v] = worker[v]
BY DEF TypeOK

\* A worker that returns starts no call.
LEMMA ReturnsStartNoCall ==
  ASSUME TypeOK, NEW w \in Worker, Return(w)
  PROVE  NoNewCall
BY WorkerChange DEF Return, NoNewCall, IdleWorker, InCall

\* A worker that goes on starts no call, unless it goes on to one.
LEMMA ProceedingStartsNoCall ==
  ASSUME TypeOK, NEW w \in Worker, NEW pc, Proceed(w, pc), InCall(pc) => InCall(worker[w].pc)
  PROVE  NoNewCall
<1> DEFINE x == [worker[w] EXCEPT !.pc = pc]
<1>1. worker' = [worker EXCEPT ![w] = x]
  BY DEF Proceed, TypeOK
<1>2. x.pc = pc /\ x.report = worker[w].report
  BY DEF TypeOK
<1> HIDE DEF x
<1> QED
  BY <1>1, <1>2, WorkerChange DEF NoNewCall

\* A claim starts no call.
LEMMA ClaimStartsNoCall ==
  ASSUME TypeOK, NEW w \in Worker, Claim(w)
  PROVE  NoNewCall
<1>1. CASE UNCHANGED worker
  BY <1>1 DEF NoNewCall
<1>2. CASE \E r \in Report : worker' = [worker EXCEPT ![w] = [pc |-> "claimed", report |-> r, admitted |-> FALSE]]
  BY SMTT(40), SMTT(80), <1>2, WorkerChange DEF NoNewCall, InCall
<1> QED
  BY <1>1, <1>2 DEF Claim

\* An admission starts a call only on a report that was not marked, and marks it.
LEMMA AdmitCalls ==
  ASSUME TypeOK, Consistent(db), NEW w \in Worker, Admit(w)
  PROVE  NoNewCall \/ NewCall(w)
<1> DEFINE s == Reap(db)
           r == worker[w].report
<1>1. s \in Store /\ Continues(db, s)
  BY ReapType, ReapContinues DEF TypeOK
<1>2. r \in Report /\ r \in Attempt
  BY WorkersReport DEF Admit
<1>3. \/ \E pc \in {"requeueing", "rejected", "erred"} : Proceed(w, pc)
      \/ /\ Holds(s, w, r) /\ ~s.report[r].dispatched
         /\ db' = [s EXCEPT
              !.report[r].dispatched = TRUE,
              !.attempt[r] = NewAttempt(s.report[r].month),
              !.global[s.report[r].month] = ConsumeGlobalBudget(@, Cost),
              !.usage[s.report[r].owner][s.report[r].month] = ConsumeUserQuota(@)]
         /\ worker' = [worker EXCEPT ![w] = [@ EXCEPT !.pc = "calling", !.admitted = TRUE]]
  BY DEF Admit, Commit
<1> HIDE DEF s
<1>4. ASSUME NEW pc \in {"requeueing", "rejected", "erred"}, Proceed(w, pc)
      PROVE  NoNewCall
  BY <1>4, ProceedingStartsNoCall DEF InCall
<1>5. ASSUME Holds(s, w, r), ~s.report[r].dispatched,
             db' = [s EXCEPT
              !.report[r].dispatched = TRUE,
              !.attempt[r] = NewAttempt(s.report[r].month),
              !.global[s.report[r].month] = ConsumeGlobalBudget(@, Cost),
              !.usage[s.report[r].owner][s.report[r].month] = ConsumeUserQuota(@)],
             worker' = [worker EXCEPT ![w] = [@ EXCEPT !.pc = "calling", !.admitted = TRUE]]
      PROVE  NewCall(w)
  <2>1. ~Marked(s.report[r])
    BY <1>5 DEF Marked, Holds
  <2>2. ~Marked(db.report[r])
    BY <1>1, <1>2, <2>1 DEF Continues, RowContinues
  <2>3. db'.report[r].dispatched
    <3>1. s.report[r] \in Row
      BY ZenonT(60), ZenonT(90), <1>1, <1>2 DEF Store
    <3>2. db'.report[r] = [s.report[r] EXCEPT !.dispatched = TRUE]
      BY ZenonT(60), ZenonT(90), <1>1, <1>2, <1>5 DEF Store
    <3> QED
      BY <3>1, <3>2 DEF Row
  <2> DEFINE x == [worker[w] EXCEPT !.pc = "calling", !.admitted = TRUE]
  <2>4. worker' = [worker EXCEPT ![w] = x]
    BY <1>5
  <2>5. x.report = r
    BY DEF TypeOK
  <2> HIDE DEF x
  <2> QED
    BY ZenonT(60), ZenonT(90), <2>2, <2>3, <2>4, <2>5, WorkerChange DEF NewCall, Marked
<1> QED
  BY ZenonT(60), ZenonT(90), <1>3, <1>4, <1>5

\* Marks last, so the calls that were one per report stay so.
LEMMA CallsKept ==
  ASSUME TypeOK, CallsMarked, OneCallPerReport,
         \A r \in Report : Marked(db.report[r]) => Marked(db'.report[r]),
         NoNewCall \/ \E w \in Worker : worker[w].report \in Report /\ NewCall(w)
  PROVE  CallsMarked' /\ OneCallPerReport'
<1>1. \A w \in Worker : InCall(worker[w].pc) => worker[w].report \in Report
  BY DEF TypeOK, InCall
<1>2. CASE NoNewCall
  BY <1>1, <1>2 DEF NoNewCall, CallsMarked, OneCallPerReport, InCall
<1>3. ASSUME NEW w \in Worker, worker[w].report \in Report, NewCall(w)
      PROVE  CallsMarked' /\ OneCallPerReport'
  <2>1. CallsMarked'
    BY <1>1, <1>3 DEF NewCall, CallsMarked, InCall
  <2>2. ASSUME NEW v \in Worker \ {w}, InCall(worker'[v].pc)
        PROVE  worker'[v].report # worker'[w].report
    BY <1>3, <2>2 DEF NewCall, CallsMarked, InCall
  <2>3. OneCallPerReport'
    BY <1>3, <2>2 DEF NewCall, OneCallPerReport, InCall
  <2> QED
    BY <2>1, <2>3
<1> QED
  BY <1>2, <1>3

-----------------------------------------------------------------------------
(* The inductive invariant.                                                *)

\* The invariant holds of the empty database.
LEMMA InitInvariant == Init => IInv
<1> SUFFICES ASSUME Init PROVE IInv
  OBVIOUS
<1>1. \A r \in Report : db.report[r] = NoRow("absent") /\ db.attempt[r] = NoAttempt
  BY ReportsAreAttempts DEF Init
<1>2. Consistent(db)
  BY <1>1 DEF Consistent, RowMatches, NoRow, NoAttempt, ActiveStatus
<1>3. OneActiveJob /\ Permitted
  BY <1>1 DEF OneActiveJob, Permitted, NoRow, ActiveStatus
<1>4. CallsMarked /\ OneCallPerReport
  BY DEF Init, CallsMarked, OneCallPerReport, IdleWorker
<1> QED
  BY <1>2, <1>3, <1>4, InitType DEF IInv

\* Every step either continues the jobs there are, or submits one, or publishes one.
LEMMA StepKinds ==
  ASSUME TypeOK, Consistent(db), [Next]_vars
  PROVE  \/ Continues(db, db')
         \/ Consistent(db') /\ \E u \in User : Generate(u) /\ \E r \in Report : Submits(u, r)
         \/ /\ Consistent(db') /\ \E r \in Report : Publishes(r)
            /\ \E w \in Worker : Complete(w)
            /\ UNCHANGED <<users, access, consent, runtime>>
<1> DEFINE Kinds ==
         \/ Continues(db, db')
         \/ Consistent(db') /\ \E u \in User : Generate(u) /\ \E r \in Report : Submits(u, r)
         \/ /\ Consistent(db') /\ \E r \in Report : Publishes(r)
            /\ \E w \in Worker : Complete(w)
            /\ UNCHANGED <<users, access, consent, runtime>>
<1>1. ASSUME NEW u \in User, Generate(u) PROVE Kinds
  BY ZenonT(60), ZenonT(90), <1>1, GenerateSubmits
<1>2. ASSUME NEW w \in Worker, Complete(w) PROVE Kinds
  BY <1>2, CompletePublishes, SameStoreContinues DEF Complete
<1>3. ASSUME db' = db PROVE Kinds
  BY <1>3, SameStoreContinues
<1>4. ASSUME NEW S \in SUBSET Active(db), db' = CancelPending(db, S) PROVE Kinds
  BY <1>4, CancellingContinues
<1>5. ASSUME NEW u \in User, RevokeConsent(u) \/ UpdateAccess(u) PROVE Kinds
  BY <1>3, <1>4, <1>5 DEF RevokeConsent, UpdateAccess, Commit
<1>6. ASSUME UpdateGenerationEnabled \/ PublishProvider PROVE Kinds
  BY <1>3, <1>4, <1>6 DEF UpdateGenerationEnabled, PublishProvider, Commit
<1>7. ASSUME NEW r \in Report, OwnerReportRequest(r) PROVE Kinds
  <2>1. CASE CancelReport(r)
    BY <1>4, <2>1 DEF CancelReport, Commit
  <2> QED
    BY <1>7, <2>1, DeleteReportContinues DEF OwnerReportRequest
<1>8. ASSUME NEW u \in User, DeleteSource(u) \/ AcceptConsent(u) \/ DeleteAccount(u) PROVE Kinds
  <2>1. CASE DeleteAccount(u)
    BY <2>1, PurgeAccountContinues DEF DeleteAccount, Commit, TypeOK
  <2> QED
    BY <1>3, <1>8, <2>1, SourceContinues DEF AcceptConsent
<1>9. ASSUME PublishPrompt \/ AdmitTest \/ \E t \in Test : SettleTest(t) PROVE Kinds
  BY <1>3, <1>9, AdmitTestContinues, SettleTestContinues DEF PublishPrompt
<1>10. ASSUME NEW w \in Worker, Claim(w) \/ Work(w) \/ Crash(w) PROVE Kinds
  <2>1. CASE Precheck(w) \/ CallReturns(w) \/ Crash(w)
    BY <1>3, <2>1 DEF Precheck, CallReturns, Crash
  <2> QED
    BY <1>2, <1>10, <2>1, ClaimContinues, AdmitContinues, RequeueContinues, FailContinues,
       ReleaseSlotContinues DEF Work
<1>11. ASSUME Time PROVE Kinds
  <2>1. ASSUME NEW a \in Attempt, SlotLapse(a) PROVE Kinds
    BY <2>1, SlotStep DEF SlotLapse, TypeOK
  <2>2. CASE NextMonth
    BY <1>3, <2>2 DEF NextMonth
  <2> QED
    BY <1>11, <2>1, <2>2, LeaseLapseContinues DEF Time
<1> HIDE DEF Kinds
<1>12. Kinds
  <2>1. ASSUME NEW u \in User, OwnerRequest(u) PROVE Kinds
    BY <1>1, <1>5, <1>8, <2>1 DEF OwnerRequest
  <2>2. ASSUME AdminRequest PROVE Kinds
    BY <1>5, <1>6, <1>8, <1>9, <2>2 DEF AdminRequest
  <2> QED
    <3>1. CASE Next
      BY <1>7, <1>10, <1>11, <2>1, <2>2, <3>1 DEF Next
    <3>2. CASE UNCHANGED vars
      BY <1>3, <3>2 DEF vars
    <3> QED
      BY <3>1, <3>2
<1> QED
  BY <1>12 DEF Kinds

\* Every step leaves the unfinished jobs permitted.
LEMMA PermittedStep ==
  ASSUME TypeOK, Consistent(db), Permitted, [Next]_vars
  PROVE  Permitted'
<1>1. ASSUME UNCHANGED <<users, access, consent, runtime>> PROVE Permitted'
  <2>1. CASE Continues(db, db')
    BY <1>1, <2>1, PermissionsKept
  <2>2. ASSUME NEW u \in User, Generate(u), NEW r \in Report, Submits(u, r) PROVE Permitted'
    <3>1. /\ u \in users /\ access[u] /\ runtime.enabled /\ consent[u] = RecipientOf[runtime.provider]
      BY <2>2 DEF Generate, ConsentIsValid
    <3>2. RecipientOf[runtime.provider] # 0
      BY ConstantAssumption DEF TypeOK
    <3> QED
      BY <1>1, <2>2, <3>1, <3>2 DEF Permitted, Submits, Others
  <2>3. ASSUME NEW r \in Report, Publishes(r) PROVE Permitted'
    BY SMTT(40), SMTT(80), <1>1, <2>3 DEF Permitted, Publishes, Others, ActiveStatus
  <2> QED
    BY <2>1, <2>2, <2>3, StepKinds
<1>2. ASSUME NEW u \in User, OwnerRequest(u) PROVE Permitted'
  BY <1>1, <1>2, AcceptConsentStep, RevokeConsentStep DEF OwnerRequest, Generate, DeleteSource
<1>3. ASSUME NEW r \in Report, OwnerReportRequest(r) PROVE Permitted'
  BY ZenonT(60), ZenonT(90), <1>1, <1>3 DEF OwnerReportRequest, CancelReport, DeleteReport
<1>4. ASSUME AdminRequest PROVE Permitted'
  BY ZenonT(60), ZenonT(90), <1>1, <1>4, UpdateAccessStep, DeleteAccountStep, UpdateGenerationEnabledStep, PublishProviderStep,
     PublishPromptStep DEF AdminRequest, AdmitTest, SettleTest
<1>5. ASSUME NEW w \in Worker, Claim(w) \/ Work(w) \/ Crash(w) PROVE Permitted'
  BY <1>1, <1>5 DEF Work, Claim, Precheck, Admit, Requeue, CallReturns, Complete, Fail, ReleaseSlot, Crash
<1>6. ASSUME Time PROVE Permitted'
  BY <1>1, <1>6 DEF Time, LeaseLapse, SlotLapse, NextMonth
<1>7. CASE Next
  BY <1>2, <1>3, <1>4, <1>5, <1>6, <1>7 DEF Next
<1>8. CASE UNCHANGED vars
  BY <1>1, <1>8 DEF vars
<1> QED
  BY <1>7, <1>8

\* No step gives an owner a second unfinished job.
LEMMA OneActiveJobStep ==
  ASSUME TypeOK, Consistent(db), OneActiveJob, [Next]_vars
  PROVE  OneActiveJob'
<1>1. CASE Continues(db, db')
  <2>1. \A r \in Report : (db'.report[r].status \in ActiveStatus /\ ~db'.report[r].deleted) =>
          /\ db.report[r].status \in ActiveStatus /\ ~db.report[r].deleted
          /\ db'.report[r].owner = db.report[r].owner
    BY <1>1 DEF Continues, RowContinues, Consistent, RowMatches
  <2> QED
    BY <2>1 DEF OneActiveJob
<1>2. ASSUME NEW u \in User, Generate(u), NEW r \in Report, Submits(u, r) PROVE OneActiveJob'
  <2>1. \A q \in Report : db.report[q].status \in ActiveStatus /\ ~db.report[q].deleted =>
          db.report[q].owner # u
    BY <1>2 DEF Generate, Active, IsActive, Of
  <2>2. \A q \in Report \ {r} : db'.report[q] = db.report[q]
    BY <1>2 DEF Submits, Others
  <2>3. db'.report[r].owner = u
    BY <1>2 DEF Submits
  <2> QED
    BY <2>1, <2>2, <2>3 DEF OneActiveJob
<1>3. ASSUME NEW r \in Report, Publishes(r) PROVE OneActiveJob'
  BY <1>3 DEF OneActiveJob, Publishes, Others, ActiveStatus
<1> QED
  BY <1>1, <1>2, <1>3, StepKinds

\* No step gives a report a second call.
LEMMA CallsStep ==
  ASSUME TypeOK, Consistent(db), CallsMarked, OneCallPerReport, [Next]_vars
  PROVE  CallsMarked' /\ OneCallPerReport'
<1>1. \A r \in Report : Marked(db.report[r]) => Marked(db'.report[r])
  <2>1. CASE Continues(db, db')
    BY <2>1 DEF Continues, RowContinues
  <2>2. ASSUME NEW u \in User, NEW r \in Report, Submits(u, r)
        PROVE  \A q \in Report : Marked(db.report[q]) => Marked(db'.report[q])
    BY <2>2 DEF Submits, Others, Marked, Consistent, RowMatches
  <2>3. ASSUME NEW r \in Report, Publishes(r)
        PROVE  \A q \in Report : Marked(db.report[q]) => Marked(db'.report[q])
    BY <2>3 DEF Publishes, Others, Marked
  <2> QED
    BY <2>1, <2>2, <2>3, StepKinds
<1>2. ASSUME UNCHANGED worker PROVE NoNewCall
  BY <1>2 DEF NoNewCall
<1> DEFINE Called == \E w \in Worker : worker[w].report \in Report /\ NewCall(w)
<1>3. ASSUME NEW w \in Worker, Claim(w) \/ Work(w) \/ Crash(w) PROVE NoNewCall \/ Called
  <2>1. CASE Admit(w)
    BY <2>1, AdmitCalls, WorkersReport DEF Admit
  <2>2. ASSUME NEW pc \in {"checked", "erred", "finishing"}, Proceed(w, pc) PROVE NoNewCall
    BY <2>2, ProceedingStartsNoCall DEF InCall
  <2>3. CASE Return(w)
    BY <2>3, ReturnsStartNoCall
  <2>4. CASE CallReturns(w)
    BY ZenonT(60), ZenonT(90), <2>2, <2>4, ProceedingStartsNoCall DEF CallReturns, InCall
  <2>5. CASE Precheck(w) \/ Requeue(w) \/ Complete(w) \/ Fail(w) \/ ReleaseSlot(w) \/ Crash(w)
    BY <2>2, <2>3, <2>5 DEF Precheck, Requeue, Complete, Fail, Finish, ReleaseSlot, Crash
  <2> QED
    BY ZenonT(60), ZenonT(90), <1>3, <2>1, <2>4, <2>5, ClaimStartsNoCall DEF Work
<1>4. ASSUME Next PROVE NoNewCall \/ Called
  <2>1. ASSUME NEW u \in User, OwnerRequest(u) PROVE UNCHANGED worker
    BY <2>1 DEF OwnerRequest, Generate, AcceptConsent, RevokeConsent, DeleteSource
  <2>2. ASSUME NEW r \in Report, OwnerReportRequest(r) PROVE UNCHANGED worker
    BY ZenonT(60), ZenonT(90), <2>2 DEF OwnerReportRequest, CancelReport, DeleteReport
  <2>3. ASSUME AdminRequest PROVE UNCHANGED worker
    BY <2>3 DEF AdminRequest, UpdateAccess, DeleteAccount, UpdateGenerationEnabled, PublishProvider,
                PublishPrompt, AdmitTest, SettleTest
  <2>4. ASSUME Time PROVE UNCHANGED worker
    BY <2>4 DEF Time, LeaseLapse, SlotLapse, NextMonth
  <2> QED
    BY SMTT(40), SMTT(80), <1>2, <1>3, <1>4, <2>1, <2>2, <2>3, <2>4 DEF Next
<1>5. ASSUME UNCHANGED vars PROVE NoNewCall
  BY <1>2, <1>5 DEF vars
<1>6. NoNewCall \/ Called
  BY <1>3, <1>4, <1>5
<1> QED
  BY <1>1, <1>6, CallsKept

\* The invariant is inductive.
LEMMA InvariantStep == IInv /\ [Next]_vars => IInv'
<1> SUFFICES ASSUME IInv, [Next]_vars PROVE IInv'
  OBVIOUS
<1>1. TypeOK /\ Consistent(db) /\ OneActiveJob /\ Permitted /\ CallsMarked /\ OneCallPerReport
  BY DEF IInv
<1>2. TypeOK'
  BY <1>1, StepType
<1>3. Consistent(db)'
  <2>1. Consistent(db')
    BY <1>1, StepKinds DEF Continues
  <2> QED
    BY <2>1 DEF Consistent
<1>4. OneActiveJob' /\ Permitted' /\ CallsMarked' /\ OneCallPerReport'
  BY <1>1, OneActiveJobStep, PermittedStep, CallsStep
<1> QED
  BY <1>2, <1>3, <1>4 DEF IInv

\* The invariant holds in every reachable state.
LEMMA Invariant == Spec => []IInv
<1>1. Init => IInv
  BY InitInvariant
<1>2. IInv /\ [Next]_vars => IInv'
  BY InvariantStep
<1> QED
  BY <1>1, <1>2, PTL DEF Spec

-----------------------------------------------------------------------------
(* The theorems.                                                           *)

\* Whichever of the ways a job, a lease, a deadline, a permission or an account
\* ends, the report row and its provider attempt end together.
THEOREM RowsAndAttemptsAgree == Spec => []AttemptMatchesReport
<1>1. IInv => AttemptMatchesReport
  BY DEF IInv, Consistent, RowMatches, AttemptMatchesReport
<1> QED
  BY <1>1, Invariant, PTL

\* The table's CHECK constraints on a report row are never run into, by any
\* interleaving of the statements that write one.
THEOREM RowsAreWellFormed == Spec => []RowsWellFormed
<1>1. IInv => RowsWellFormed
  BY DEF IInv, Consistent, RowMatches, RowsWellFormed
<1> QED
  BY <1>1, Invariant, PTL

\* However submissions, requeues, cancellations and lost leases interleave, no
\* owner has two unfinished jobs.
THEOREM OneJobPerOwner == Spec => []OneActiveJob
<1>1. IInv => OneActiveJob
  BY DEF IInv
<1> QED
  BY <1>1, Invariant, PTL

\* Any number of workers, with any number of crashes, lost leases, requeues and
\* lost answers, call the provider at most once for one report.
THEOREM AtMostOneCall == Spec => []OneCallPerReport
<1>1. IInv => OneCallPerReport
  BY DEF IInv
<1> QED
  BY <1>1, Invariant, PTL

\* No transaction reopens what another one has settled.
THEOREM SettlementIsFinal == Spec => SettledIsFinal
<1> DEFINE Stays ==
      /\ \A r \in Report :
          db.report[r].status \in {"succeeded", "failed", "cancelled"}
          => db'.report[r].status \in {db.report[r].status, "purged"}
      /\ \A a \in Attempt :
          /\ db.attempt[a].status \in Settled =>
               /\ db'.attempt[a].status = db.attempt[a].status
               /\ db'.attempt[a].cost = db.attempt[a].cost
          /\ db.attempt[a].status = "dispatched" => db'.attempt[a].status # "none"
<1>1. IInv /\ [Next]_vars => [Stays]_vars
  <2> SUFFICES ASSUME IInv, [Next]_vars PROVE Stays
    OBVIOUS
  <2>1. TypeOK /\ Consistent(db)
    BY DEF IInv
  <2>2. CASE Continues(db, db')
    BY <2>2 DEF Continues, RowContinues, AttemptContinues, Final
  <2>3. ASSUME NEW u \in User, NEW r \in Report, Submits(u, r) PROVE Stays
    BY <2>3, ReportsAreAttempts DEF Submits, Others, Settled
  <2>4. ASSUME NEW r \in Report, Publishes(r) PROVE Stays
    BY <2>4, ReportsAreAttempts DEF Publishes, Others, Settled
  <2> HIDE DEF Stays
  <2> QED
    BY <2>1, <2>2, <2>3, <2>4, StepKinds
<1>2. [][Next]_vars /\ []IInv => [][Stays]_vars
  BY <1>1, PTL
<1> QED
  BY <1>2, Invariant, PTL DEF Spec, SettledIsFinal

\* The statement that publishes a result looks at no permission, and needs not:
\* whatever withdraws one has ended the jobs that depend on it.
THEOREM PublicationIsPermitted == Spec => NoPublicationAfterRevocation
<1> DEFINE Allowed ==
      \A r \in Report :
       LET row == db.report[r] IN
       (row.status # "succeeded" /\ db'.report[r].status = "succeeded") =>
         /\ runtime.enabled /\ runtime.provider = row.provider
         /\ row.owner \in users /\ access[row.owner] /\ consent[row.owner] # 0
         /\ ~row.invalidated /\ ~row.deleted
<1>1. IInv /\ [Next]_vars => [Allowed]_vars
  <2> SUFFICES ASSUME IInv, [Next]_vars PROVE Allowed
    OBVIOUS
  <2>1. TypeOK /\ Consistent(db) /\ Permitted
    BY DEF IInv
  <2>2. CASE Continues(db, db')
    BY <2>2 DEF Continues, RowContinues
  <2>3. ASSUME NEW u \in User, NEW r \in Report, Submits(u, r) PROVE Allowed
    BY <2>3 DEF Submits, Others
  <2>4. ASSUME NEW r \in Report, Publishes(r) PROVE Allowed
    <3>1. db.report[r].status \in ActiveStatus
      BY <2>4 DEF Publishes, ActiveStatus
    <3>2. /\ runtime.enabled /\ runtime.provider = db.report[r].provider
          /\ db.report[r].owner \in users /\ access[db.report[r].owner]
          /\ consent[db.report[r].owner] # 0
      BY <2>1, <3>1 DEF Permitted
    <3>3. ~db.report[r].invalidated /\ ~db.report[r].deleted
      BY <2>1, <3>1 DEF Consistent, RowMatches
    <3>4. \A q \in Report \ {r} : db'.report[q] = db.report[q]
      BY <2>4 DEF Publishes, Others
    <3> QED
      BY <3>2, <3>3, <3>4
  <2> HIDE DEF Allowed
  <2> QED
    BY <2>1, <2>2, <2>3, <2>4, StepKinds
<1>2. [][Next]_vars /\ []IInv => [][Allowed]_vars
  BY <1>1, PTL
<1> QED
  BY <1>2, Invariant, PTL DEF Spec, NoPublicationAfterRevocation

=============================================================================
