------------------------- MODULE AiReportLedgerProofs -------------------------
(***************************************************************************)
(* The engine implements the ledger of JobLedger.                          *)
(*                                                                         *)
(* What a month has committed to pay is what it has estimated plus one     *)
(* bound for each job that waits (Backed, of AiReportAccountProofs), so a  *)
(* step is a step of the ledger when its jobs move along their phases and  *)
(* the estimate changes by the calls it begins and the prices it settles.  *)
(* Almost every statement begins and settles none: Ends(s, t).             *)
(*                                                                         *)
(* The last section shows that the tallies of the accounts are the calls   *)
(* themselves: an owner's quota counts their calls of its month, and the   *)
(* deployment's bill counts the calls of its month and adds up their       *)
(* prices (Tallied).                                                       *)
(***************************************************************************)
EXTENDS AiReportAccountProofs, WellFoundedInduction

\* from s to t jobs only end, without a result and at the price they had
AttemptEnds(old, new) ==
  /\ new.month = old.month
  /\ new.status # old.status => old.status = "dispatched" /\ new.status \in Settled \ {"succeeded"}

RowEnds(old, new) ==
  /\ new.status = "absent" <=> old.status = "absent"
  /\ new.status \in ActiveStatus => old.status \in ActiveStatus /\ new.month = old.month

SamePrices(s, t) == \A m \in Month : t.global[m].estimated = s.global[m].estimated

Ends(s, t) ==
  /\ SamePrices(s, t)
  /\ \A a \in Attempt : AttemptEnds(s.attempt[a], t.attempt[a])
  /\ \A r \in Report : RowEnds(s.report[r], t.report[r])

-----------------------------------------------------------------------------
(* The statements.                                                         *)

\* Ending jobs twice is ending jobs.
LEMMA EndsIsTransitive ==
  ASSUME NEW s, NEW t, NEW v, Ends(s, t), Ends(t, v)
  PROVE  Ends(s, v)
BY DEF Ends, SamePrices, AttemptEnds, RowEnds, Settled

\* Nothing ends where nothing changes.
LEMMA EndsIsReflexive == ASSUME NEW s PROVE Ends(s, s)
BY DEF Ends, SamePrices, AttemptEnds, RowEnds

\* A row that has lost its lease is of its month.
LEMMA UnleasedMonth ==
  ASSUME NEW row \in Row, NEW status \in Status
  PROVE  /\ Unleased(row, status).status = status /\ Unleased(row, status).month = row.month
         /\ Unleased(row, status).dispatched = row.dispatched
         /\ Unleased(row, status).deleted = row.deleted
BY DEF Unleased, Row

\* Accounting for ended reports changes no price and closes attempts without a result.
LEMMA AccountEnds ==
  ASSUME NEW s \in Store, NEW S \in SUBSET Report, NEW outcome \in Settled \ {"succeeded"}
  PROVE  LET t == Account(s, S, outcome) IN
         /\ SamePrices(s, t)
         /\ \A a \in Attempt : AttemptEnds(s.attempt[a], t.attempt[a])
<1> DEFINE won == {r \in S : s.report[r].dispatched /\ s.attempt[r].status = "dispatched"}
           attempt == [a \in Attempt |->
             IF a \in won THEN [s.attempt[a] EXCEPT !.status = outcome] ELSE s.attempt[a]]
           t == Account(s, S, outcome)
<1>1. t.attempt = attempt
  BY DEF Account, Store
<1>2. \A m \in Month : t.global[m].estimated = s.global[m].estimated
  BY AccountBuckets, Zenon
<1> HIDE DEF t
<1>3. ASSUME NEW a \in Attempt PROVE AttemptEnds(s.attempt[a], t.attempt[a])
  <2>1. s.attempt[a] \in AttemptRow
    BY DEF Store
  <2>2. CASE a \in won
    <3>1. t.attempt[a] = [s.attempt[a] EXCEPT !.status = outcome]
      BY <1>1, <2>2
    <3>2. t.attempt[a].status = outcome /\ t.attempt[a].month = s.attempt[a].month
      BY <2>1, <3>1 DEF AttemptRow
    <3> QED
      BY <2>2, <3>2 DEF AttemptEnds
  <2>3. CASE a \notin won
    BY <1>1, <2>3 DEF AttemptEnds
  <2> QED
    BY <2>2, <2>3
<1>4. SamePrices(s, t) /\ \A a \in Attempt : AttemptEnds(s.attempt[a], t.attempt[a])
  BY <1>2, <1>3 DEF SamePrices
<1> QED
  BY <1>4 DEF t

\* Cancelling ends jobs.
LEMMA CancelPendingEnds ==
  ASSUME NEW s \in Store, NEW S \in SUBSET Active(s)
  PROVE  Ends(s, CancelPending(s, S))
<1> DEFINE a == Account(s, S, "cancelled")
           t == CancelPending(s, S)
<1>0. "cancelled" \in Settled \ {"succeeded"} /\ S \in SUBSET Report
  BY DEF Settled, Active
<1>1. a \in Store /\ a.report = s.report
  BY <1>0, AccountType, AccountEffect
<1>2. /\ t.report = [r \in Report |-> IF r \in S THEN Unleased(s.report[r], "cancelled") ELSE s.report[r]]
      /\ t.attempt = a.attempt /\ t.global = a.global
  BY <1>1 DEF CancelPending, CancelRows, Store
<1>3. SamePrices(s, a) /\ \A b \in Attempt : AttemptEnds(s.attempt[b], a.attempt[b])
  BY <1>0, AccountEnds
<1> HIDE DEF a, t
<1>4. ASSUME NEW r \in Report PROVE RowEnds(s.report[r], t.report[r])
  <2>1. s.report[r] \in Row
    BY DEF Store
  <2>2. Unleased(s.report[r], "cancelled").status = "cancelled"
    BY <2>1, UnleasedMonth DEF Status
  <2>3. r \in S => s.report[r].status \in ActiveStatus
    BY DEF Active, IsActive
  <2> QED
    BY <1>2, <2>2, <2>3 DEF RowEnds, ActiveStatus
<1>5. Ends(s, t)
  BY <1>2, <1>3, <1>4 DEF Ends, SamePrices
<1> QED
  BY <1>5 DEF t

\* The reaper ends the jobs of lapsed calls.
LEMMA ReapEnds ==
  ASSUME NEW s \in Store
  PROVE  Ends(s, Reap(s))
<1> DEFINE lapsed == {a \in Attempt : s.attempt[a].slot = "lapsed"}
           open == {a \in lapsed : s.attempt[a].status = "dispatched"}
           lost == {r \in Report \cap open : s.report[r].status = "running" /\ s.report[r].dispatched
                                              /\ ~s.report[r].deleted}
           attempt == [a \in Attempt |->
             IF a \in lapsed
             THEN [s.attempt[a] EXCEPT !.slot = "free", !.status = IF a \in open THEN "unknown" ELSE @]
             ELSE s.attempt[a]]
           count(m) == Cardinality({a \in open : s.attempt[a].month = m})
           global == [m \in Month |-> SettleUnknownGlobalBudget(s.global[m], count(m))]
           t == Reap(s)
<1>1. /\ t.report = [r \in Report |-> IF r \in lost THEN Unleased(s.report[r], "failed") ELSE s.report[r]]
      /\ t.attempt = attempt /\ t.global = global
  BY DEF Reap, Store
<1> HIDE DEF t
<1>2. SamePrices(s, t)
  <2> SUFFICES ASSUME NEW m \in Month PROVE t.global[m].estimated = s.global[m].estimated
    BY DEF SamePrices
  <2>1. t.global[m] = SettleUnknownGlobalBudget(s.global[m], count(m))
    BY <1>1
  <2>2. s.global[m] \in GlobalBucket
    BY DEF Store
  <2> HIDE DEF count
  <2> QED
    BY <2>1, <2>2 DEF SettleUnknownGlobalBudget, GlobalBucket
<1>3. ASSUME NEW a \in Attempt PROVE AttemptEnds(s.attempt[a], t.attempt[a])
  <2> DEFINE status == IF a \in open THEN "unknown" ELSE s.attempt[a].status
  <2>1. s.attempt[a] \in AttemptRow
    BY DEF Store
  <2>2. CASE a \in lapsed
    <3>1. t.attempt[a] = [s.attempt[a] EXCEPT !.slot = "free", !.status = status]
      BY <1>1, <2>2
    <3>2. /\ status # s.attempt[a].status => s.attempt[a].status = "dispatched"
          /\ status \in {s.attempt[a].status, "unknown"}
      OBVIOUS
    <3> HIDE DEF status
    <3>3. t.attempt[a].status = status /\ t.attempt[a].month = s.attempt[a].month
      BY <2>1, <3>1 DEF AttemptRow
    <3> QED
      BY <3>2, <3>3 DEF AttemptEnds, Settled
  <2>3. CASE a \notin lapsed
    BY <1>1, <2>3 DEF AttemptEnds
  <2> QED
    BY <2>2, <2>3
<1>4. \A r \in lost : s.report[r].status = "running"
  OBVIOUS
<1> HIDE DEF attempt, lost
<1>5. ASSUME NEW r \in Report PROVE RowEnds(s.report[r], t.report[r])
  <2>1. s.report[r] \in Row
    BY DEF Store
  <2>2. Unleased(s.report[r], "failed").status = "failed"
    BY <2>1, UnleasedMonth DEF Status
  <2> QED
    BY <1>1, <1>4, <2>2 DEF RowEnds, ActiveStatus
<1>6. Ends(s, t)
  BY <1>2, <1>3, <1>5 DEF Ends
<1> QED
  BY <1>6 DEF t

\* Recovering lost leases ends the calls that were lost.
LEMMA ExpireLeasesEnds ==
  ASSUME NEW s \in Store
  PROVE  Ends(s, ExpireLeases(s))
<1> DEFINE expired == {r \in Report : s.report[r].status = "running" /\ s.report[r].lease = "lapsed"
                                       /\ ~s.report[r].deleted}
           called == {r \in expired : s.report[r].dispatched}
           a == Account(s, called, "unknown")
           t == ExpireLeases(s)
<1>0. called \in SUBSET Report /\ "unknown" \in Settled \ {"succeeded"}
  BY DEF Settled
<1>1. a \in Store
  BY SMTT(40), SMTT(80), <1>0, AccountType
<1>2. /\ t.report = [r \in Report |->
             IF r \in expired
             THEN Unleased(s.report[r], IF r \in called THEN "failed" ELSE "queued")
             ELSE s.report[r]]
      /\ t.attempt = a.attempt /\ t.global = a.global
  BY <1>1 DEF ExpireLeases, Store
<1>3. SamePrices(s, a) /\ \A b \in Attempt : AttemptEnds(s.attempt[b], a.attempt[b])
  BY <1>0, AccountEnds
<1>4. \A r \in expired : s.report[r].status = "running"
  OBVIOUS
<1> HIDE DEF a, t, expired, called
<1>5. ASSUME NEW r \in Report PROVE RowEnds(s.report[r], t.report[r])
  <2>1. s.report[r] \in Row
    BY DEF Store
  <2>2. /\ Unleased(s.report[r], "failed").status = "failed"
        /\ Unleased(s.report[r], "queued").status = "queued"
        /\ Unleased(s.report[r], "queued").month = s.report[r].month
    BY <2>1, UnleasedMonth DEF Status, ActiveStatus
  <2> QED
    BY <1>2, <1>4, <2>2 DEF RowEnds, ActiveStatus
<1>6. Ends(s, t)
  BY <1>2, <1>3, <1>5 DEF Ends, SamePrices
<1> QED
  BY <1>6 DEF t

\* A deleted source ends the jobs built from it.
LEMMA InvalidateSourceEnds ==
  ASSUME NEW s \in Store, NEW u \in User, NEW S \in SUBSET Report
  PROVE  Ends(s, InvalidateSource(s, u, S))
<1> DEFINE live == {r \in S : s.report[r].status \in ActiveStatus}
           a == Account(s, live, "unknown")
           t == InvalidateSource(s, u, S)
           report == [r \in Report |->
             IF r \in S
             THEN [(IF r \in live THEN Unleased(s.report[r], "cancelled") ELSE s.report[r])
                     EXCEPT !.invalidated = TRUE]
             ELSE s.report[r]]
           global == [m \in Month |->
             [a.global[m] EXCEPT !.reserved = AtLeastZero(@), !.reservedCost = AtLeastZero(@)]]
<1>0. live \in SUBSET Report /\ "unknown" \in Settled \ {"succeeded"}
  BY DEF Settled
<1>1. a \in Store
  BY <1>0, AccountType
<1>2. t.report = report /\ t.attempt = a.attempt /\ t.global = global
  BY <1>1 DEF InvalidateSource, Store
<1>3. SamePrices(s, a) /\ \A b \in Attempt : AttemptEnds(s.attempt[b], a.attempt[b])
  BY <1>0, AccountEnds
<1> HIDE DEF a, t
<1>4. SamePrices(s, t)
  <2> SUFFICES ASSUME NEW m \in Month PROVE t.global[m].estimated = s.global[m].estimated
    BY DEF SamePrices
  <2>1. a.global[m] \in GlobalBucket /\ t.global[m] = global[m]
    BY <1>1, <1>2 DEF Store
  <2>2. t.global[m].estimated = a.global[m].estimated
    BY <2>1 DEF GlobalBucket
  <2> QED
    BY <1>3, <2>2 DEF SamePrices
<1>5. ASSUME NEW r \in Report PROVE RowEnds(s.report[r], t.report[r])
  <2>1. s.report[r] \in Row
    BY DEF Store
  <2>2. CASE r \notin S
    BY <1>2, <2>2 DEF RowEnds
  <2>3. CASE r \in live
    <3> DEFINE row == Unleased(s.report[r], "cancelled")
    <3>1. row \in Row /\ row.status = "cancelled"
      BY <2>1, UnleasedType, UnleasedFields DEF Status
    <3>2. t.report[r] = [row EXCEPT !.invalidated = TRUE]
      BY <2>3, <1>2
    <3> HIDE DEF row
    <3>3. t.report[r].status = "cancelled"
      BY <3>1, <3>2 DEF Row
    <3> QED
      BY <2>3, <3>3 DEF RowEnds, ActiveStatus
  <2>4. CASE r \in S /\ r \notin live
    <3>1. t.report[r] = [s.report[r] EXCEPT !.invalidated = TRUE]
      BY <2>4, <1>2
    <3>2. t.report[r].status = s.report[r].status /\ t.report[r].month = s.report[r].month
      BY <2>1, <3>1 DEF Row
    <3> QED
      BY <3>2 DEF RowEnds
  <2> QED
    BY <2>2, <2>3, <2>4
<1>6. Ends(s, t)
  BY <1>2, <1>3, <1>4, <1>5 DEF Ends
<1> QED
  BY <1>6 DEF t

\* A deleted account ends its jobs.
LEMMA PurgeAccountEnds ==
  ASSUME NEW s \in Store, Consistent(s), NEW u \in User
  PROVE  Ends(s, PurgeAccount(s, u))
<1> DEFINE ending == {r \in Of(s, u) : s.report[r].status \in ActiveStatus
                                        \/ s.attempt[r].status = "dispatched"}
           a == Account(s, ending, "unknown")
           t == PurgeAccount(s, u)
           global == [m \in Month |->
             [a.global[m] EXCEPT !.reserved = AtLeastZero(@), !.reservedCost = AtLeastZero(@)]]
<1>0. ending \in SUBSET Report /\ "unknown" \in Settled \ {"succeeded"}
  BY DEF Settled, Of
<1>1. a \in Store
  BY SMTT(40), SMTT(80), <1>0, AccountType
<1>2. /\ t.report = [r \in Report |-> IF r \in Of(s, u) THEN NoRow("purged") ELSE s.report[r]]
      /\ t.attempt = a.attempt /\ t.global = global
  BY <1>1 DEF PurgeAccount, Store
<1>3. SamePrices(s, a) /\ \A b \in Attempt : AttemptEnds(s.attempt[b], a.attempt[b])
  BY <1>0, AccountEnds
<1> HIDE DEF a, t
<1>4. SamePrices(s, t)
  <2> SUFFICES ASSUME NEW m \in Month PROVE t.global[m].estimated = s.global[m].estimated
    BY DEF SamePrices
  <2>1. a.global[m] \in GlobalBucket /\ t.global[m] = global[m]
    BY <1>1, <1>2 DEF Store
  <2>2. t.global[m].estimated = a.global[m].estimated
    BY <2>1 DEF GlobalBucket
  <2> QED
    BY <1>3, <2>2 DEF SamePrices
<1>5. NoRow("purged").status = "purged"
  BY DEF NoRow
<1>6. ASSUME NEW r \in Report PROVE RowEnds(s.report[r], t.report[r])
  <2>1. CASE r \in Of(s, u)
    <3>1. s.report[r].status # "absent"
      <4>1. s.report[r].owner = u /\ u # NoUser
        BY <2>1, ConstantAssumption DEF Of
      <4> QED
        BY <4>1 DEF Consistent, RowMatches
    <3> QED
      BY <1>2, <1>5, <2>1, <3>1 DEF RowEnds, ActiveStatus
  <2>2. CASE r \notin Of(s, u)
    BY <1>2, <2>2 DEF RowEnds
  <2> QED
    BY <2>1, <2>2
<1>7. Ends(s, t)
  BY <1>2, <1>3, <1>4, <1>6 DEF Ends
<1> QED
  BY <1>7 DEF t

-----------------------------------------------------------------------------
(* The actions that only end jobs.                                         *)

\* Writing a row that is no more active than it was, or an attempt that is as it was
\* but for its slot.
LEMMA RowEdit ==
  ASSUME NEW s \in Store, NEW t, NEW r \in Report, NEW row, RowEnds(s.report[r], row),
         t.report = [s.report EXCEPT ![r] = row], t.attempt = s.attempt, t.global = s.global
  PROVE  Ends(s, t)
<1>1. \A q \in Report : t.report[q] = IF q = r THEN row ELSE s.report[q]
  BY DEF Store
<1> QED
  BY <1>1 DEF Ends, SamePrices, AttemptEnds, RowEnds

\* A slot is no part of the ledger.
LEMMA SlotEdit ==
  ASSUME NEW s \in Store, NEW a \in Attempt, NEW slot, NEW t, t = [s EXCEPT !.attempt[a].slot = slot]
  PROVE  Ends(s, t)
<1> DEFINE edited == [s.attempt[a] EXCEPT !.slot = slot]
<1>1. s.attempt[a] \in AttemptRow
  BY DEF Store
<1>2. edited.status = s.attempt[a].status /\ edited.month = s.attempt[a].month
  BY <1>1 DEF AttemptRow
<1>3. t = [s EXCEPT !.attempt[a] = edited]
  BY DEF Store
<1> HIDE DEF edited
<1>4. /\ t.report = s.report /\ t.global = s.global
      /\ \A b \in Attempt : t.attempt[b] = IF b = a THEN edited ELSE s.attempt[b]
  BY <1>3 DEF Store
<1> QED
  BY <1>2, <1>4 DEF Ends, SamePrices, AttemptEnds, RowEnds

\* A deletion cancels the report, and marks it.
LEMMA DeleteReportEnds ==
  ASSUME TypeOK, NEW r \in Report, DeleteReport(r)
  PROVE  Ends(db, db')
<1> DEFINE s == CancelPending(db, {r} \cap Active(db))
           row == [s.report[r] EXCEPT !.deleted = TRUE, !.invalidated = TRUE]
<1>1. s \in Store /\ Ends(db, s)
  BY CancelPendingType, CancelPendingEnds DEF TypeOK
<1>2. db' = [s EXCEPT !.report[r].deleted = TRUE, !.report[r].invalidated = TRUE]
  BY DEF DeleteReport, Commit, s
<1> HIDE DEF s
<1>3. s.report[r] \in Row
  BY <1>1 DEF Store
<1>4. row.status = s.report[r].status /\ row.month = s.report[r].month
  BY <1>3 DEF Row
<1>5. db'.report = [s.report EXCEPT ![r] = row] /\ db'.attempt = s.attempt /\ db'.global = s.global
  BY <1>1, <1>2 DEF Store
<1> HIDE DEF row
<1>6. RowEnds(s.report[r], row)
  BY <1>4 DEF RowEnds
<1>7. Ends(s, db')
  BY <1>1, <1>5, <1>6, RowEdit
<1> QED
  BY <1>1, <1>7, EndsIsTransitive

\* A requeued report goes on waiting.
LEMMA RequeueEnds ==
  ASSUME TypeOK, NEW w \in Worker, Requeue(w)
  PROVE  Ends(db, db')
<1> DEFINE r == worker[w].report
           row == Unleased(db.report[r], "queued")
<1>1. r \in Report /\ db \in Store /\ db.report[r] \in Row
  BY WorkersReport DEF Requeue, TypeOK, Store
<1>2. \/ db' = db
      \/ db.report[r].status = "running" /\ db' = [db EXCEPT !.report[r] = Unleased(@, "queued")]
  BY DEF Requeue, Holds
<1> HIDE DEF r
<1>3. row.status = "queued" /\ row.month = db.report[r].month
  BY <1>1, UnleasedMonth DEF Status, ActiveStatus
<1>4. ASSUME db.report[r].status = "running", db' = [db EXCEPT !.report[r] = Unleased(@, "queued")]
      PROVE  Ends(db, db')
  <2>1. /\ db'.report = [db.report EXCEPT ![r] = row]
        /\ db'.attempt = db.attempt /\ db'.global = db.global
    BY <1>1, <1>4 DEF Store
  <2>2. RowEnds(db.report[r], row)
    BY <1>3, <1>4 DEF RowEnds, ActiveStatus
  <2> HIDE DEF row
  <2> QED
    BY <1>1, <2>1, <2>2, RowEdit
<1> QED
  BY <1>2, <1>4, EndsIsReflexive

\* A lost lease ends nothing yet.
LEMMA LeaseLapseEnds ==
  ASSUME TypeOK, NEW r \in Report, LeaseLapse(r)
  PROVE  Ends(db, db')
<1> DEFINE row == [db.report[r] EXCEPT !.lease = "lapsed"]
<1>1. db \in Store /\ db.report[r] \in Row
  BY DEF TypeOK, Store
<1>2. RowEnds(db.report[r], row)
  BY <1>1 DEF Row, RowEnds
<1>3. /\ db'.report = [db.report EXCEPT ![r] = row]
      /\ db'.attempt = db.attempt /\ db'.global = db.global
  BY DEF LeaseLapse, TypeOK, Store
<1> HIDE DEF row
<1> QED
  BY <1>1, <1>2, <1>3, RowEdit

\* A claim reaps, recovers, and leases a job that goes on waiting.
LEMMA ClaimEnds ==
  ASSUME TypeOK, NEW w \in Worker, Claim(w)
  PROVE  Ends(db, db')
<1> DEFINE s1 == Reap(db)
           s == ExpireLeases(s1)
<1>1. s1 \in Store /\ Ends(db, s1)
  BY SMTT(40), SMTT(80), ReapType, ReapEnds DEF TypeOK
<1>2. \/ db' = s
      \/ \E r \in Report :
           /\ s.report[r].status = "queued"
           /\ db' = [s EXCEPT !.report[r] = [@ EXCEPT !.status = "running", !.token = w, !.lease = "live"]]
  BY DEF Claim, Commit
<1> HIDE DEF s1
<1>3. s \in Store /\ Ends(s1, s)
  BY <1>1, ExpireLeasesType, ExpireLeasesEnds
<1> HIDE DEF s
<1>4. Ends(db, s)
  BY <1>1, <1>3, EndsIsTransitive
<1>5. ASSUME NEW r \in Report, s.report[r].status = "queued",
             db' = [s EXCEPT !.report[r] = [@ EXCEPT !.status = "running", !.token = w, !.lease = "live"]]
      PROVE  Ends(s, db')
  <2> DEFINE row == [s.report[r] EXCEPT !.status = "running", !.token = w, !.lease = "live"]
  <2>1. s.report[r] \in Row
    BY <1>3 DEF Store
  <2>2. RowEnds(s.report[r], row)
    BY <1>5, <2>1 DEF Row, RowEnds, ActiveStatus
  <2>3. /\ db'.report = [s.report EXCEPT ![r] = row]
        /\ db'.attempt = s.attempt /\ db'.global = s.global
    BY <1>3, <1>5 DEF Store
  <2> HIDE DEF row
  <2> QED
    BY <1>3, <2>2, <2>3, RowEdit
<1>6. db' = s \/ Ends(s, db')
  BY <1>2, <1>5, Zenon
<1> QED
  BY <1>4, <1>6, EndsIsTransitive

\* A failure ends one job, dispatched or not.
LEMMA FailEnds ==
  ASSUME TypeOK, NEW w \in Worker, Fail(w)
  PROVE  Ends(db, db')
<1> DEFINE r == worker[w].report
           a == Account(db, {r}, "failed")
           failed == Unleased(db.report[r], "failed")
           ended == [a EXCEPT !.report[r] = failed]
<1>1. r \in Report /\ r \in Attempt
  BY WorkersReport DEF Fail
<1>2. /\ a \in Store /\ a.report = db.report
      /\ SamePrices(db, a) /\ \A b \in Attempt : AttemptEnds(db.attempt[b], a.attempt[b])
  BY <1>1, AccountType, AccountEffect, AccountEnds DEF TypeOK, Settled
<1>3. ended = [a EXCEPT !.report[r] = Unleased(@, "failed")]
  BY <1>1, <1>2 DEF Store
<1>4. \/ db' = db
      \/ /\ db.report[r].status = "running"
         /\ db' = ended
      \/ /\ db.report[r].status = "running" /\ db.report[r].dispatched
         /\ db.attempt[r].status = "dispatched"
         /\ \E outcome \in {"failed", "unknown"} :
              db' = [ended EXCEPT !.attempt[r] = [@ EXCEPT !.status = outcome, !.slot = "free"]]
  <2> HIDE DEF failed, ended
  <2> QED
    BY <1>3 DEF Fail, Commit, Holds
<1> HIDE DEF r
<1>5. db.report[r] \in Row /\ db.report \in [Report -> Row]
  BY <1>1 DEF TypeOK, Store
<1>6. failed.status = "failed"
  BY <1>5, UnleasedFields DEF Status
<1>7. /\ ended.attempt = a.attempt /\ ended.global = a.global
      /\ ended.report = [db.report EXCEPT ![r] = failed]
  BY <1>2 DEF Store
<1> HIDE DEF a, failed, ended
<1>8. ASSUME db.report[r].status = "running"
      PROVE  \A q \in Report : RowEnds(db.report[q], ended.report[q])
  BY <1>1, <1>5, <1>6, <1>7, <1>8 DEF RowEnds, ActiveStatus
<1>9. ASSUME db.report[r].status = "running" PROVE Ends(db, ended)
  BY <1>2, <1>7, <1>8, <1>9 DEF Ends, SamePrices
<1>10. ASSUME db.report[r].status = "running", db.attempt[r].status = "dispatched",
              NEW outcome \in {"failed", "unknown"},
              db' = [ended EXCEPT !.attempt[r] = [@ EXCEPT !.status = outcome, !.slot = "free"]]
       PROVE  Ends(db, db')
  <2> DEFINE attempt == [ended.attempt[r] EXCEPT !.status = outcome, !.slot = "free"]
  <2>1. ended.attempt[r] \in AttemptRow /\ ended.attempt \in [Attempt -> AttemptRow]
    BY <1>1, <1>2, <1>7 DEF Store
  <2>2. attempt.status = outcome /\ attempt.month = ended.attempt[r].month
    BY <2>1 DEF AttemptRow
  <2>3. db'.report = ended.report /\ db'.global = ended.global
        /\ db'.attempt = [ended.attempt EXCEPT ![r] = attempt]
    <3>1. ended \in [report : {ended.report}, attempt : {ended.attempt},
                     usage : {ended.usage}, global : {ended.global}]
      BY <1>2 DEF ended, Store
    <3> QED
      BY <1>10, <3>1
  <2>4. AttemptEnds(db.attempt[r], attempt)
    BY <1>1, <1>2, <1>7, <1>10, <2>2 DEF AttemptEnds, Settled
  <2> HIDE DEF attempt
  <2>5. \A b \in Attempt : AttemptEnds(db.attempt[b], db'.attempt[b])
    BY <1>2, <1>7, <2>1, <2>3, <2>4
  <2>6. \A q \in Report : RowEnds(db.report[q], ended.report[q])
    BY <1>8, <1>10, Zenon
  <2> QED
    BY <1>2, <1>7, <2>3, <2>5, <2>6 DEF Ends, SamePrices
<1> QED
  BY ZenonT(60), ZenonT(90), <1>4, <1>9, <1>10, EndsIsReflexive

-----------------------------------------------------------------------------
(* The phases of the jobs of a store.                                      *)

\* JobPhase and the period of the refinement mapping, of any store
PhaseOf(s, j) ==
  LET attempt == s.attempt[j].status IN
  CASE attempt = "dispatched" -> "called"
    [] attempt = "succeeded" -> "published"
    [] attempt \in Settled \ {"succeeded"} -> "dropped"
    [] attempt = "none" /\ (j \in Test \/ s.report[j].status = "absent") -> "none"
    [] attempt = "none" /\ j \in Active(s) -> "waiting"
    [] OTHER -> "dropped"

PeriodOf(s, j) == IF PhaseOf(s, j) = "waiting" THEN s.report[j].month ELSE s.attempt[j].month

\* An attempt is a report's or a test's, never both.
LEMMA AttemptKinds ==
  /\ \A j \in Attempt : j \in Report \/ j \in Test
  /\ Report \cap Test = {}
BY ConstantAssumption DEF Attempt, Report, Test

\* What each phase means in the tables.
LEMMA Phases ==
  ASSUME NEW s \in Store, Consistent(s), NEW j \in Attempt
  PROVE  /\ PhaseOf(s, j) \in {"none", "waiting", "called", "published", "dropped"}
         /\ PhaseOf(s, j) = "called" <=> s.attempt[j].status = "dispatched"
         /\ PhaseOf(s, j) = "published" <=> s.attempt[j].status = "succeeded"
         /\ PhaseOf(s, j) = "waiting" <=> j \in Report /\ Waits(s.report[j])
         /\ PhaseOf(s, j) = "none" <=>
              s.attempt[j].status = "none" /\ (j \in Test \/ s.report[j].status = "absent")
<1>1. s.attempt[j].status \in {"none", "dispatched"} \cup Settled
  BY DEF Store, AttemptRow
<1>2. CASE s.attempt[j].status # "none"
  <2>1. PhaseOf(s, j) = IF s.attempt[j].status = "dispatched" THEN "called"
                        ELSE IF s.attempt[j].status = "succeeded" THEN "published" ELSE "dropped"
    BY <1>1, <1>2 DEF PhaseOf, Settled
  <2>2. j \in Report => ~Waits(s.report[j])
    BY <1>2 DEF Consistent, RowMatches, Waits, ActiveStatus
  <2> QED
    BY <1>2, <2>1, <2>2
<1>3. CASE s.attempt[j].status = "none" /\ j \in Test
  <2>1. PhaseOf(s, j) = "none"
    BY <1>3, AttemptKinds DEF PhaseOf, Settled, Active
  <2> QED
    BY <1>3, <2>1, AttemptKinds
<1>4. CASE s.attempt[j].status = "none" /\ j \notin Test
  <2>1. j \in Report
    BY <1>4, AttemptKinds
  <2>2. j \in Active(s) <=> Waits(s.report[j])
    BY <1>4, <2>1 DEF Active, IsActive, Waits, Consistent, RowMatches
  <2>3. PhaseOf(s, j) = IF s.report[j].status = "absent" THEN "none"
                        ELSE IF j \in Active(s) THEN "waiting" ELSE "dropped"
    BY <1>4 DEF PhaseOf, Settled, Active, IsActive, ActiveStatus
  <2>4. Waits(s.report[j]) => s.report[j].status # "absent"
    BY DEF Waits, ActiveStatus
  <2> QED
    BY <1>4, <2>1, <2>2, <2>3, <2>4
<1> QED
  BY <1>2, <1>3, <1>4

\* What is owed in a month is owed to the jobs that wait for it.
LEMMA OwedPhases ==
  ASSUME NEW s \in Store, Consistent(s), NEW m \in Month
  PROVE  Owed(s, m) = {j \in Attempt : PhaseOf(s, j) = "waiting" /\ PeriodOf(s, j) = m}
<1>1. \A j \in Attempt : PhaseOf(s, j) = "waiting" <=> j \in Report /\ Waits(s.report[j])
  BY Phases
<1> QED
  BY <1>1, ReportsAreAttempts DEF Owed, PeriodOf

\* A job's phase and period are those of its own rows.
LEMMA SameRows ==
  ASSUME NEW s \in Store, NEW t \in Store, Consistent(s), Consistent(t), NEW j \in Attempt,
         t.attempt[j] = s.attempt[j], j \in Report => t.report[j] = s.report[j]
  PROVE  PhaseOf(t, j) = PhaseOf(s, j) /\ PeriodOf(t, j) = PeriodOf(s, j)
<1>1. CASE j \in Report
  BY <1>1, AttemptKinds DEF PhaseOf, PeriodOf, Active
<1>2. CASE j \in Test
  <2>1. j \notin Report
    BY <1>2, AttemptKinds
  <2>2. PhaseOf(t, j) = PhaseOf(s, j)
    BY <1>2, <2>1 DEF PhaseOf, Active
  <2>3. PhaseOf(s, j) # "waiting"
    BY <2>1, Phases
  <2> QED
    BY <2>2, <2>3 DEF PeriodOf
<1> QED
  BY <1>1, <1>2, AttemptKinds

\* Where jobs only end, each keeps its phase and its period, or is dropped.
LEMMA EndsMoves ==
  ASSUME NEW s \in Store, NEW t \in Store, Consistent(s), Consistent(t), Ends(s, t), NEW j \in Attempt
  PROVE  /\ \/ PhaseOf(t, j) = PhaseOf(s, j)
            \/ PhaseOf(s, j) \in {"waiting", "called"} /\ PhaseOf(t, j) = "dropped"
         /\ PhaseOf(t, j) \in {"waiting", "called"} => PeriodOf(t, j) = PeriodOf(s, j)
<1>1. AttemptEnds(s.attempt[j], t.attempt[j]) /\ (j \in Report => RowEnds(s.report[j], t.report[j]))
  BY DEF Ends
<1>2. /\ s.attempt[j].status \in {"none", "dispatched"} \cup Settled
      /\ t.attempt[j].status \in {"none", "dispatched"} \cup Settled
  BY DEF Store, AttemptRow
<1>3. j \in Report \/ j \in Test
  BY AttemptKinds
<1>4. j \in Report => RowMatches(s.report[j], s.attempt[j]) /\ RowMatches(t.report[j], t.attempt[j])
  BY DEF Consistent
<1>5. /\ PhaseOf(s, j) \in {"none", "waiting", "called", "published", "dropped"}
      /\ PhaseOf(s, j) = "called" <=> s.attempt[j].status = "dispatched"
      /\ PhaseOf(s, j) = "published" <=> s.attempt[j].status = "succeeded"
      /\ PhaseOf(s, j) = "waiting" <=> j \in Report /\ Waits(s.report[j])
      /\ PhaseOf(s, j) = "none" <=>
           s.attempt[j].status = "none" /\ (j \in Test \/ s.report[j].status = "absent")
  BY Phases
<1>6. /\ PhaseOf(t, j) \in {"none", "waiting", "called", "published", "dropped"}
      /\ PhaseOf(t, j) = "called" <=> t.attempt[j].status = "dispatched"
      /\ PhaseOf(t, j) = "published" <=> t.attempt[j].status = "succeeded"
      /\ PhaseOf(t, j) = "waiting" <=> j \in Report /\ Waits(t.report[j])
      /\ PhaseOf(t, j) = "none" <=>
           t.attempt[j].status = "none" /\ (j \in Test \/ t.report[j].status = "absent")
  BY Phases
<1>7. CASE j \in Test
  <2>1. j \notin Report
    BY <1>7, AttemptKinds
  <2> QED
    BY <1>1, <1>2, <1>5, <1>6, <1>7, <2>1 DEF AttemptEnds, Settled, PeriodOf
<1>8. CASE j \in Report
  <2>0. j \notin Test
    BY <1>8, AttemptKinds
  <2>1. Waits(t.report[j]) => Waits(s.report[j]) /\ t.report[j].month = s.report[j].month
    BY <1>1, <1>2, <1>4, <1>8 DEF AttemptEnds, RowEnds, RowMatches, Waits, Settled, ActiveStatus
  <2>2. \/ PhaseOf(t, j) = PhaseOf(s, j)
        \/ PhaseOf(s, j) \in {"waiting", "called"} /\ PhaseOf(t, j) = "dropped"
    BY <1>1, <1>2, <1>4, <1>5, <1>6, <1>8, <2>0, <2>1 DEF AttemptEnds, RowEnds, RowMatches, Waits, Settled, ActiveStatus
  <2> QED
    BY <1>1, <1>5, <1>6, <1>8, <2>1, <2>2 DEF AttemptEnds, PeriodOf
<1> QED
  BY <1>3, <1>7, <1>8

-----------------------------------------------------------------------------
(* A step of the ledger, between two stores.                               *)

MovedJobs(s, t) == {j \in Attempt : PhaseOf(t, j) # PhaseOf(s, j)}
StartedJobs(s, t) == {j \in MovedJobs(s, t) : PhaseOf(t, j) \in {"waiting", "called"}}
ChargedJobs(s, t, m) == {j \in StartedJobs(s, t) : PhaseOf(s, j) = "none" /\ PeriodOf(t, j) = m}
RefundedJobs(s, t, m) ==
  {j \in MovedJobs(s, t) : PhaseOf(s, j) = "waiting" /\ PhaseOf(t, j) = "dropped" /\ PeriodOf(s, j) = m}
PricedJobs(s, t, m) == {j \in MovedJobs(s, t) : PhaseOf(t, j) = "published" /\ PeriodOf(s, j) = m}

\* the calls that begin in a month
BegunJobs(s, t, m) == {j \in StartedJobs(s, t) : PhaseOf(t, j) = "called" /\ PeriodOf(t, j) = m}

Rebates == {Cost - c : c \in ActualCosts} \cup {0}

Committed(s, m) == s.global[m].estimated + s.global[m].reservedCost

\* each job moves along its phases, and a job that goes on keeps its month
JobsMove(s, t) ==
  \A j \in Attempt :
    /\ PhaseOf(t, j) # PhaseOf(s, j) => <<PhaseOf(s, j), PhaseOf(t, j)>> \in Ledger!MayFollow
    /\ PhaseOf(s, j) \in {"waiting", "called"} /\ PhaseOf(t, j) \in {"waiting", "called"} =>
         PeriodOf(t, j) = PeriodOf(s, j)

\* the estimate changes by the calls that begin and the price of the one published
PricesMove(s, t) ==
  \A m \in Month : \E rebate \in Rebates :
    t.global[m].estimated = s.global[m].estimated + Cost * Cardinality(BegunJobs(s, t, m))
                              - (IF PricedJobs(s, t, m) = {} THEN 0 ELSE rebate)

CommitmentMoves(s, t, m) ==
  /\ \E rebate \in Rebates :
       Committed(t, m) = Committed(s, m) + Cost * Cardinality(ChargedJobs(s, t, m))
                           - Cost * Cardinality(RefundedJobs(s, t, m))
                           - (IF PricedJobs(s, t, m) = {} THEN 0 ELSE rebate)
  /\ ChargedJobs(s, t, m) # {} => Committed(t, m) <= Budget

\* What changes in what is owed when at most one job starts: what is refunded goes,
\* what is begun after waiting goes, and what is submitted comes.
LEMMA OwedMoves ==
  ASSUME NEW s \in Store, NEW t \in Store, Consistent(s), Consistent(t), JobsMove(s, t),
         NEW i \in Attempt, StartedJobs(s, t) \subseteq {i}, NEW m \in Month
  PROVE  /\ Cardinality(Owed(s, m)) \in Nat /\ Cardinality(Owed(t, m)) \in Nat
         /\ Cardinality(RefundedJobs(s, t, m)) \in Nat
         /\ Cardinality(BegunJobs(s, t, m)) \in 0..1 /\ Cardinality(ChargedJobs(s, t, m)) \in 0..1
         /\ Cardinality(Owed(t, m)) + Cardinality(BegunJobs(s, t, m))
              = Cardinality(Owed(s, m)) - Cardinality(RefundedJobs(s, t, m))
                  + Cardinality(ChargedJobs(s, t, m))
<1> DEFINE O == Owed(s, m)
           P == Owed(t, m)
           R == RefundedJobs(s, t, m)
           B == BegunJobs(s, t, m)
           C == ChargedJobs(s, t, m)
<1>1. /\ O = {j \in Attempt : PhaseOf(s, j) = "waiting" /\ PeriodOf(s, j) = m}
      /\ P = {j \in Attempt : PhaseOf(t, j) = "waiting" /\ PeriodOf(t, j) = m}
  BY OwedPhases
<1>2. R \subseteq O /\ O \subseteq Attempt /\ O \ R \subseteq Attempt
  BY <1>1 DEF RefundedJobs, MovedJobs
<1>3. /\ Cardinality(O) \in Nat /\ Cardinality(R) \in Nat /\ Cardinality(O \ R) \in Nat
      /\ Cardinality(O \ R) = Cardinality(O) - Cardinality(R)
  <2>1. R \in SUBSET O
    BY <1>2
  <2> QED
    BY <1>2, <2>1, Counts
<1>4. \A j \in Attempt : j # i => (j \in P <=> j \in O \ R)
  <2> SUFFICES ASSUME NEW j \in Attempt, j # i PROVE j \in P <=> j \in O \ R
    OBVIOUS
  <2>1. PhaseOf(t, j) # PhaseOf(s, j) => PhaseOf(t, j) \notin {"waiting", "called"}
    BY DEF StartedJobs, MovedJobs
  <2>2. /\ PhaseOf(t, j) # PhaseOf(s, j) => <<PhaseOf(s, j), PhaseOf(t, j)>> \in Ledger!MayFollow
        /\ PhaseOf(s, j) = "waiting" /\ PhaseOf(t, j) = "waiting" => PeriodOf(t, j) = PeriodOf(s, j)
    BY DEF JobsMove
  <2>3. j \in R <=> PhaseOf(s, j) = "waiting" /\ PhaseOf(t, j) = "dropped" /\ PeriodOf(s, j) = m
    BY DEF RefundedJobs, MovedJobs
  <2> QED
    BY <1>1, <2>1, <2>2, <2>3 DEF Ledger!MayFollow
<1>5. /\ i \in C <=> PhaseOf(s, i) = "none" /\ PhaseOf(t, i) \in {"waiting", "called"} /\ PeriodOf(t, i) = m
      /\ i \in B <=> PhaseOf(s, i) # "called" /\ PhaseOf(t, i) = "called" /\ PeriodOf(t, i) = m
      /\ i \in R <=> PhaseOf(s, i) = "waiting" /\ PhaseOf(t, i) = "dropped" /\ PeriodOf(s, i) = m
      /\ i \in O <=> PhaseOf(s, i) = "waiting" /\ PeriodOf(s, i) = m
      /\ i \in P <=> PhaseOf(t, i) = "waiting" /\ PeriodOf(t, i) = m
  BY <1>1 DEF ChargedJobs, BegunJobs, RefundedJobs, StartedJobs, MovedJobs
<1>6. C \in SUBSET {i} /\ B \in SUBSET {i}
  BY DEF ChargedJobs, BegunJobs
<1>7. /\ PhaseOf(t, i) # PhaseOf(s, i) => <<PhaseOf(s, i), PhaseOf(t, i)>> \in Ledger!MayFollow
      /\ PhaseOf(s, i) \in {"waiting", "called"} /\ PhaseOf(t, i) \in {"waiting", "called"} =>
           PeriodOf(t, i) = PeriodOf(s, i)
  BY DEF JobsMove
<1>8. P \subseteq Attempt
  BY <1>1
<1>9. Cardinality({}) = 0 /\ Cardinality({i}) = 1
  BY FS_EmptySet, FS_Singleton
<1> HIDE DEF O, P, R, B, C
<1>10. \/ i \notin B /\ i \notin C /\ (i \in P <=> i \in O \ R)
       \/ i \notin B /\ i \in C /\ i \in P /\ i \notin O \ R
       \/ i \in B /\ i \in C /\ i \notin P /\ i \notin O \ R
       \/ i \in B /\ i \notin C /\ i \notin P /\ i \in O \ R
  BY <1>5, <1>7 DEF Ledger!MayFollow
<1>11. \A D \in SUBSET {i} : D = IF i \in D THEN {i} ELSE {}
  OBVIOUS
<1>12. Cardinality(C) = (IF i \in C THEN 1 ELSE 0) /\ Cardinality(B) = (IF i \in B THEN 1 ELSE 0)
  BY <1>6, <1>9, <1>11
<1>13. CASE i \in P <=> i \in O \ R
  <2>1. P = O \ R
    BY <1>2, <1>4, <1>8, <1>13
  <2> QED
    BY <1>3, <1>10, <1>12, <1>13, <2>1 DEF O, P, R, B, C
<1>14. CASE i \in P /\ i \notin O \ R
  <2>1. P = (O \ R) \cup {i}
    BY <1>2, <1>4, <1>8, <1>14
  <2>2. Cardinality(P) = Cardinality(O \ R) + 1
    <3>1. i \in Attempt \ (O \ R)
      BY <1>14
    <3>2. Cardinality((O \ R) \cup {i}) = Cardinality(O \ R) + 1
      BY <1>2, <3>1, Counts
    <3> QED
      BY <2>1, <3>2, Zenon
  <2> QED
    BY <1>3, <1>10, <1>12, <1>14, <2>2 DEF O, P, R, B, C
<1>15. CASE i \notin P /\ i \in O \ R
  <2>1. P = (O \ R) \ {i}
    BY <1>2, <1>4, <1>8, <1>15
  <2>2. Cardinality(P) = Cardinality(O \ R) - 1
    <3>1. {i} \in SUBSET (O \ R)
      BY <1>15
    <3>2. Cardinality((O \ R) \ {i}) = Cardinality(O \ R) - Cardinality({i})
      BY <1>2, <3>1, Counts
    <3>3. Cardinality(P) = Cardinality(O \ R) - Cardinality({i})
      BY <2>1, <3>2, Zenon
    <3> QED
      BY <1>9, <3>3
  <2>3. Cardinality(P) \in Nat
    BY <1>8, Counts
  <2> QED
    BY <1>3, <1>10, <1>12, <1>15, <2>2, <2>3 DEF O, P, R, B, C
<1> QED
  BY <1>13, <1>14, <1>15

\* A step that moves jobs along their phases, starts at most one and moves the
\* estimate as their prices say moves what is committed as the ledger says.
LEMMA CommitmentFollows ==
  ASSUME NEW s \in Store, NEW t \in Store, Consistent(s), Consistent(t), Sound(s), Sound(t),
         JobsMove(s, t), PricesMove(s, t),
         NEW i \in Attempt, StartedJobs(s, t) \subseteq {i}, NEW m \in Month
  PROVE  CommitmentMoves(s, t, m)
<1> DEFINE o == Cardinality(Owed(s, m))
           p == Cardinality(Owed(t, m))
           r == Cardinality(RefundedJobs(s, t, m))
           b == Cardinality(BegunJobs(s, t, m))
           c == Cardinality(ChargedJobs(s, t, m))
<1>1. /\ o \in Nat /\ p \in Nat /\ r \in Nat /\ b \in 0..1 /\ c \in 0..1
      /\ p + b = o - r + c
  BY OwedMoves
<1>2. s.global[m].reservedCost = Cost * o /\ t.global[m].reservedCost = Cost * p
  BY DEF Sound, Backed
<1>3. PICK rebate \in Rebates :
        t.global[m].estimated = s.global[m].estimated + Cost * b
                                  - (IF PricedJobs(s, t, m) = {} THEN 0 ELSE rebate)
  BY DEF PricesMove
<1>4. Committed(t, m) <= Budget
  BY DEF Sound, Limits, Committed
<1> DEFINE paid == IF PricedJobs(s, t, m) = {} THEN 0 ELSE rebate
<1>5. /\ s.global[m].estimated \in Int /\ t.global[m].estimated \in Int /\ Cost \in Nat
      /\ paid \in Int
  BY ConstantAssumption DEF Store, GlobalBucket, Rebates
<1>6. t.global[m].estimated = s.global[m].estimated + Cost * b - paid
  BY <1>3
<1> HIDE DEF o, p, r, b, c, paid
<1>7. Committed(t, m) = Committed(s, m) + Cost * c - Cost * r - paid
  <2>1. p = o - r + c - b
    BY <1>1
  <2>2. Cost * p = Cost * o - Cost * r + Cost * c - Cost * b
    BY <1>1, <1>5, <2>1
  <2>3. Cost * o \in Int /\ Cost * r \in Int /\ Cost * c \in Int /\ Cost * b \in Int
    BY <1>1, <1>5
  <2> QED
    BY <1>2, <1>5, <1>6, <2>2, <2>3 DEF Committed
<1> QED
  BY <1>4, <1>7 DEF CommitmentMoves, c, r, paid

\* a step that moves one job and may end others
LedgerMove(s, t) ==
  /\ JobsMove(s, t) /\ PricesMove(s, t)
  /\ \E i \in Attempt : StartedJobs(s, t) \subseteq {i}

Endures(s, t, j) ==
  /\ \/ PhaseOf(t, j) = PhaseOf(s, j)
     \/ PhaseOf(s, j) \in {"waiting", "called"} /\ PhaseOf(t, j) = "dropped"
  /\ PhaseOf(t, j) \in {"waiting", "called"} => PeriodOf(t, j) = PeriodOf(s, j)

\* the call of job i begins in month m, or is published and billed there
Begins(s, t, i, m) == PhaseOf(s, i) # "called" /\ PhaseOf(t, i) = "called" /\ PeriodOf(t, i) = m
Pays(s, t, i, m) == PhaseOf(s, i) # "published" /\ PhaseOf(t, i) = "published" /\ PeriodOf(s, i) = m

\* It is enough to look at the one job that moves.
LEMMA OneJobMoves ==
  ASSUME NEW s, NEW t, NEW i \in Attempt,
         \A j \in Attempt : j # i => Endures(s, t, j),
         PhaseOf(t, i) # PhaseOf(s, i) => <<PhaseOf(s, i), PhaseOf(t, i)>> \in Ledger!MayFollow,
         PhaseOf(s, i) \in {"waiting", "called"} /\ PhaseOf(t, i) \in {"waiting", "called"} =>
           PeriodOf(t, i) = PeriodOf(s, i),
         \A m \in Month : \E rebate \in Rebates :
           t.global[m].estimated = s.global[m].estimated + (IF Begins(s, t, i, m) THEN Cost ELSE 0)
                                     - (IF Pays(s, t, i, m) THEN rebate ELSE 0)
  PROVE  LedgerMove(s, t)
<1>1. JobsMove(s, t)
  BY DEF JobsMove, Endures, Ledger!MayFollow
<1>2. StartedJobs(s, t) \subseteq {i}
  BY DEF StartedJobs, MovedJobs, Endures
<1>3. Cardinality({}) = 0 /\ Cardinality({i}) = 1 /\ Cost \in Nat
  BY FS_EmptySet, FS_Singleton, ConstantAssumption
<1>4. ASSUME NEW m \in Month
      PROVE  \E rebate \in Rebates :
               t.global[m].estimated = s.global[m].estimated + Cost * Cardinality(BegunJobs(s, t, m))
                                         - (IF PricedJobs(s, t, m) = {} THEN 0 ELSE rebate)
  <2>1. PICK rebate \in Rebates :
          t.global[m].estimated = s.global[m].estimated + (IF Begins(s, t, i, m) THEN Cost ELSE 0)
                                    - (IF Pays(s, t, i, m) THEN rebate ELSE 0)
    OBVIOUS
  <2>2. BegunJobs(s, t, m) = IF Begins(s, t, i, m) THEN {i} ELSE {}
    BY <1>2 DEF BegunJobs, StartedJobs, MovedJobs, Begins
  <2>3. PricedJobs(s, t, m) = IF Pays(s, t, i, m) THEN {i} ELSE {}
    BY DEF PricedJobs, MovedJobs, Pays, Endures
  <2>4. Cardinality(BegunJobs(s, t, m)) = IF Begins(s, t, i, m) THEN 1 ELSE 0
    BY <1>3, <2>2
  <2>5. PricedJobs(s, t, m) = {} <=> ~Pays(s, t, i, m)
    BY <2>3
  <2>6. Cost * Cardinality(BegunJobs(s, t, m)) = IF Begins(s, t, i, m) THEN Cost ELSE 0
    BY <1>3, <2>4
  <2> QED
    BY <2>1, <2>5, <2>6
<1>5. PricesMove(s, t)
  BY <1>4 DEF PricesMove
<1> QED
  BY <1>1, <1>2, <1>5 DEF LedgerMove

\* an open call is billed to the month of its report
MonthsMatch(s) ==
  \A r \in Report : s.attempt[r].status = "dispatched" => s.attempt[r].month = s.report[r].month

\* A step in which jobs only end is a step of the ledger.
LEMMA EndsStep ==
  ASSUME NEW s \in Store, NEW t \in Store, Consistent(s), Consistent(t), Ends(s, t)
  PROVE  /\ LedgerMove(s, t)
         /\ MonthsMatch(s) => MonthsMatch(t)
<1>1. \A j \in Attempt : Endures(s, t, j)
  BY EndsMoves DEF Endures
<1>2. 1 \in Attempt
  BY ConstantAssumption DEF Attempt
<1>3. ASSUME NEW m \in Month
      PROVE  \E rebate \in Rebates :
               t.global[m].estimated = s.global[m].estimated + (IF Begins(s, t, 1, m) THEN Cost ELSE 0)
                                         - (IF Pays(s, t, 1, m) THEN rebate ELSE 0)
  <2>1. ~Begins(s, t, 1, m) /\ ~Pays(s, t, 1, m)
    BY <1>1, <1>2 DEF Begins, Pays, Endures
  <2>2. t.global[m].estimated = s.global[m].estimated /\ s.global[m].estimated \in Int
    BY DEF Ends, SamePrices, Store, GlobalBucket
  <2>3. 0 \in Rebates
    BY DEF Rebates
  <2> QED
    BY <2>1, <2>2, <2>3
<1>4. /\ PhaseOf(t, 1) # PhaseOf(s, 1) => <<PhaseOf(s, 1), PhaseOf(t, 1)>> \in Ledger!MayFollow
      /\ PhaseOf(s, 1) \in {"waiting", "called"} /\ PhaseOf(t, 1) \in {"waiting", "called"} =>
           PeriodOf(t, 1) = PeriodOf(s, 1)
  BY <1>1, <1>2 DEF Endures, Ledger!MayFollow
<1>5. LedgerMove(s, t)
  BY <1>1, <1>2, <1>3, <1>4, OneJobMoves
<1>6. ASSUME MonthsMatch(s), NEW r \in Report, t.attempt[r].status = "dispatched"
      PROVE  t.attempt[r].month = t.report[r].month
  <2>1. /\ AttemptEnds(s.attempt[r], t.attempt[r]) /\ RowEnds(s.report[r], t.report[r])
        /\ RowMatches(t.report[r], t.attempt[r])
    BY ReportsAreAttempts DEF Ends, Consistent
  <2>2. s.attempt[r].status = "dispatched" /\ t.attempt[r].month = s.attempt[r].month
    BY <1>6, <2>1 DEF AttemptEnds, Settled
  <2>3. t.report[r].month = s.report[r].month
    BY <1>6, <2>1 DEF RowEnds, RowMatches, ActiveStatus
  <2> QED
    BY <1>6, <2>2, <2>3 DEF MonthsMatch
<1> QED
  BY <1>5, <1>6 DEF MonthsMatch

\* a step of the ledger that keeps the months matched
Advances(s, t) == LedgerMove(s, t) /\ (MonthsMatch(s) => MonthsMatch(t))

\* the rows of the jobs other than i are as they were
OthersStay(s, t, i) ==
  /\ \A j \in Attempt : j # i => t.attempt[j] = s.attempt[j]
  /\ \A r \in Report : r # i => t.report[r] = s.report[r]

\* Jobs whose rows stay endure.
LEMMA OthersEndure ==
  ASSUME NEW s \in Store, NEW t \in Store, Consistent(s), Consistent(t), NEW i, OthersStay(s, t, i),
         NEW j \in Attempt, j # i
  PROVE  PhaseOf(t, j) = PhaseOf(s, j) /\ PeriodOf(t, j) = PeriodOf(s, j)
BY SameRows DEF OthersStay

\* A job that nothing was known of, or that waited, begins its call, billed to its month
\* at its bound, after other jobs have ended.
LEMMA CallBegins ==
  ASSUME NEW d \in Store, NEW s \in Store, NEW t \in Store,
         Consistent(d), Consistent(s), Consistent(t), Ends(d, s),
         NEW i \in Attempt, NEW n \in Month, OthersStay(s, t, i),
         t.attempt[i].status = "dispatched", t.attempt[i].month = n,
         PhaseOf(s, i) \in {"none", "waiting"}, PhaseOf(s, i) = "waiting" => PeriodOf(s, i) = n,
         i \in Report => t.report[i].month = n,
         \A m \in Month : t.global[m].estimated = s.global[m].estimated + (IF m = n THEN Cost ELSE 0)
  PROVE  Advances(d, t)
<1>1. ASSUME NEW j \in Attempt, j # i PROVE Endures(d, t, j)
  <2>1. PhaseOf(t, j) = PhaseOf(s, j) /\ PeriodOf(t, j) = PeriodOf(s, j)
    BY <1>1, OthersEndure
  <2>2. /\ \/ PhaseOf(s, j) = PhaseOf(d, j)
           \/ PhaseOf(d, j) \in {"waiting", "called"} /\ PhaseOf(s, j) = "dropped"
        /\ PhaseOf(s, j) \in {"waiting", "called"} => PeriodOf(s, j) = PeriodOf(d, j)
    BY EndsMoves
  <2> QED
    BY <2>1, <2>2 DEF Endures
<1>2. /\ PhaseOf(d, i) = PhaseOf(s, i)
      /\ PhaseOf(s, i) = "waiting" => PeriodOf(d, i) = n
  <2>1. /\ \/ PhaseOf(s, i) = PhaseOf(d, i)
           \/ PhaseOf(d, i) \in {"waiting", "called"} /\ PhaseOf(s, i) = "dropped"
        /\ PhaseOf(s, i) \in {"waiting", "called"} => PeriodOf(s, i) = PeriodOf(d, i)
    BY EndsMoves
  <2> QED
    BY <2>1
<1>3. PhaseOf(t, i) = "called"
  BY Phases
<1>4. PeriodOf(t, i) = n
  BY <1>3 DEF PeriodOf
<1>5. ASSUME NEW m \in Month
      PROVE  \E rebate \in Rebates :
               t.global[m].estimated = d.global[m].estimated + (IF Begins(d, t, i, m) THEN Cost ELSE 0)
                                         - (IF Pays(d, t, i, m) THEN rebate ELSE 0)
  <2>1. (Begins(d, t, i, m) <=> m = n) /\ ~Pays(d, t, i, m)
    BY <1>2, <1>3, <1>4 DEF Begins, Pays
  <2>2. t.global[m].estimated = d.global[m].estimated + (IF m = n THEN Cost ELSE 0)
    BY DEF Ends, SamePrices
  <2>3. d.global[m].estimated \in Int /\ Cost \in Int /\ 0 \in Rebates
    BY ConstantAssumption DEF Store, GlobalBucket, Rebates
  <2> QED
    BY <2>1, <2>2, <2>3
<1>6. LedgerMove(d, t)
  BY <1>1, <1>2, <1>3, <1>4, <1>5, OneJobMoves DEF Ledger!MayFollow
<1>7. MonthsMatch(d) => MonthsMatch(s)
  BY EndsStep
<1>8. MonthsMatch(s) => MonthsMatch(t)
  BY ReportsAreAttempts DEF MonthsMatch, OthersStay
<1> QED
  BY <1>6, <1>7, <1>8 DEF Advances

\* An open call is settled: without a result at its bound, or with one at its price.
LEMMA CallSettles ==
  ASSUME NEW s \in Store, NEW t \in Store, Consistent(s), Consistent(t),
         NEW i \in Attempt, OthersStay(s, t, i),
         s.attempt[i].status = "dispatched", t.attempt[i].status \in Settled,
         NEW rebate \in Rebates,
         \A m \in Month :
           t.global[m].estimated = s.global[m].estimated
             - (IF m = s.attempt[i].month /\ t.attempt[i].status = "succeeded" THEN rebate ELSE 0)
  PROVE  Advances(s, t)
<1>1. ASSUME NEW j \in Attempt, j # i PROVE Endures(s, t, j)
  BY <1>1, OthersEndure DEF Endures
<1>2. PhaseOf(s, i) = "called" /\ PeriodOf(s, i) = s.attempt[i].month
  <2>1. PhaseOf(s, i) = "called"
    BY Phases
  <2> QED
    BY <2>1 DEF PeriodOf
<1>3. PhaseOf(t, i) = IF t.attempt[i].status = "succeeded" THEN "published" ELSE "dropped"
  BY DEF PhaseOf, Settled
<1>4. ASSUME NEW m \in Month
      PROVE  \E r \in Rebates :
               t.global[m].estimated = s.global[m].estimated + (IF Begins(s, t, i, m) THEN Cost ELSE 0)
                                         - (IF Pays(s, t, i, m) THEN r ELSE 0)
  <2>1. /\ ~Begins(s, t, i, m)
        /\ Pays(s, t, i, m) <=> m = s.attempt[i].month /\ t.attempt[i].status = "succeeded"
    BY <1>2, <1>3 DEF Begins, Pays
  <2>2. s.global[m].estimated \in Int
    BY DEF Store, GlobalBucket
  <2>3. rebate \in Int
    BY ConstantAssumption DEF Rebates
  <2> QED
    BY <2>1, <2>2, <2>3
<1>5. LedgerMove(s, t)
  BY <1>1, <1>2, <1>3, <1>4, OneJobMoves DEF Ledger!MayFollow
<1>6. MonthsMatch(s) => MonthsMatch(t)
  BY ReportsAreAttempts DEF MonthsMatch, OthersStay, Settled
<1> QED
  BY <1>5, <1>6 DEF Advances

\* What a settlement gives back of the bound.
LEMMA SettledPrice ==
  ASSUME NEW b \in GlobalBucket, NEW c \in ActualCosts \cup {NoCost},
         NEW new, new = IF c = NoCost THEN SettleUnknownGlobalBudget(b, 1)
                                      ELSE SettleKnownGlobalBudget(b, Cost, c)
  PROVE  \E rebate \in Rebates :
           new.estimated = b.estimated - rebate /\ (c = NoCost => rebate = 0)
<1>1. b.estimated \in Int /\ 1 \in Nat /\ 0 \in Nat /\ Cost \in Nat
  BY ConstantAssumption DEF GlobalBucket
<1>2. CASE c = NoCost
  <2>1. new = SettleUnknownGlobalBudget(b, 1)
    BY <1>2
  <2>2. new.estimated = b.estimated - 0 /\ 0 \in Rebates
    BY <1>1, <2>1, GlobalBucketFields DEF Rebates
  <2> QED
    BY <1>2, <2>2
<1>3. CASE c # NoCost
  <2>1. new = SettleKnownGlobalBudget(b, Cost, c)
    BY <1>3
  <2>2. c \in ActualCosts /\ c \in Nat
    BY <1>3, <1>1, ConstantAssumption
  <2>4. Cost - c \in Rebates
    BY <2>2 DEF Rebates
  <2>3. new.estimated = b.estimated - (Cost - c)
    BY <1>1, <2>1, <2>2, GlobalBucketFields
  <2> QED
    BY <1>3, <2>3, <2>4
<1> QED
  BY <1>2, <1>3

-----------------------------------------------------------------------------
(* The steps of the engine.                                                *)

\* A step that ends jobs advances the ledger.
LEMMA EndsAdvances ==
  ASSUME NEW s \in Store, NEW t \in Store, Consistent(s), Consistent(t), Ends(s, t)
  PROVE  Advances(s, t)
BY EndsStep DEF Advances

\* A submission starts one job, which waits, and begins no call.
LEMMA GenerateAdvances ==
  ASSUME TypeOK, Consistent(db), db' \in Store, Consistent(db'), NEW u \in User, Generate(u)
  PROVE  Advances(db, db')
<1>1. PICK r \in Report :
        /\ db.report[r].status = "absent"
        /\ db' = [db EXCEPT
            !.global[month] = ReserveGlobalBudget(@, Cost),
            !.usage[u][month] = ReserveUserQuota(@),
            !.report[r] = [NoRow("queued") EXCEPT !.owner = u, !.month = month,
                             !.provider = runtime.provider, !.prompt = runtime.prompt]]
  BY DEF Generate, Commit
<1> DEFINE b == ReserveGlobalBudget(db.global[month], Cost)
           row == [NoRow("queued") EXCEPT !.owner = u, !.month = month,
                             !.provider = runtime.provider, !.prompt = runtime.prompt]
<1>2. db \in Store /\ month \in Month /\ r \in Attempt /\ db.global[month] \in GlobalBucket
  BY SMTT(40), SMTT(80), ReportsAreAttempts DEF TypeOK, Store
<1>3. /\ db'.attempt = db.attempt
      /\ \A p \in Report : db'.report[p] = IF p = r THEN row ELSE db.report[p]
      /\ \A m \in Month : db'.global[m] = IF m = month THEN b ELSE db.global[m]
  BY <1>1, <1>2 DEF Store
<1>4. row.status = "queued" /\ ~row.deleted /\ ~row.dispatched
  BY DEF NoRow
<1>5. b.estimated = db.global[month].estimated
  BY <1>2, GlobalBucketFields
<1>6. db.report[r].status = "absent"
  BY <1>1
<1> HIDE DEF b, row
<1>7. Waits(db'.report[r])
  BY <1>3, <1>4 DEF Waits, ActiveStatus
<1>8. db.attempt[r].status = "none"
  BY <1>6 DEF Consistent, RowMatches
<1>9. PhaseOf(db, r) = "none" /\ PhaseOf(db', r) = "waiting"
  BY <1>2, <1>6, <1>7, <1>8, Phases
<1>10. OthersStay(db, db', r)
  BY <1>3 DEF OthersStay
<1>11. ASSUME NEW j \in Attempt, j # r PROVE Endures(db, db', j)
  BY <1>2, <1>10, <1>11, OthersEndure DEF Endures
<1>12. ASSUME NEW m \in Month
       PROVE  \E rebate \in Rebates :
                db'.global[m].estimated = db.global[m].estimated + (IF Begins(db, db', r, m) THEN Cost ELSE 0)
                                            - (IF Pays(db, db', r, m) THEN rebate ELSE 0)
  <2>1. ~Begins(db, db', r, m) /\ ~Pays(db, db', r, m)
    BY <1>9 DEF Begins, Pays
  <2>2. db'.global[m].estimated = db.global[m].estimated /\ db.global[m].estimated \in Int /\ 0 \in Rebates
    BY <1>2, <1>3, <1>5 DEF Store, GlobalBucket, Rebates
  <2> QED
    BY <2>1, <2>2
<1>13. LedgerMove(db, db')
  BY <1>2, <1>9, <1>11, <1>12, OneJobMoves DEF Ledger!MayFollow
<1>14. MonthsMatch(db) => MonthsMatch(db')
  BY <1>3, <1>8 DEF MonthsMatch
<1> QED
  BY <1>13, <1>14 DEF Advances

\* An admission begins the call of a report that waited, or ends jobs.
LEMMA AdmitAdvances ==
  ASSUME TypeOK, Consistent(db), db' \in Store, Consistent(db'), NEW w \in Worker, Admit(w)
  PROVE  Advances(db, db')
<1> DEFINE s == Reap(db)
           r == worker[w].report
           n == s.report[r].month
           Granted ==
             /\ Holds(s, w, r) /\ ~s.report[r].dispatched
             /\ db' = [s EXCEPT
                  !.report[r].dispatched = TRUE,
                  !.attempt[r] = NewAttempt(n),
                  !.global[n] = ConsumeGlobalBudget(@, Cost),
                  !.usage[s.report[r].owner][n] = ConsumeUserQuota(@)]
<1>1. db \in Store /\ s \in Store /\ Consistent(s) /\ Ends(db, s)
  BY ZenonT(60), ZenonT(90), ReapType, ReapContinues, ReapEnds DEF TypeOK, Continues
<1>2. r \in Report /\ r \in Attempt
  BY ZenonT(60), ZenonT(90), WorkersReport DEF Admit
<1>3. db' = s \/ db' = db \/ Granted
  BY DEF Admit, Commit
<1> HIDE DEF s, r
<1>4. ASSUME Granted PROVE Advances(db, db')
  <2> DEFINE b == ConsumeGlobalBudget(s.global[n], Cost)
             attempt == NewAttempt(n)
             row == [s.report[r] EXCEPT !.dispatched = TRUE]
  <2>1. s.report[r] \in Row /\ n \in Month
    BY <1>1, <1>2 DEF Store, Row
  <2>2. s.global[n] \in GlobalBucket /\ 0 \in Nat
    BY ZenonT(60), ZenonT(90), <1>1, <2>1 DEF Store
  <2>3. /\ db'.attempt = [s.attempt EXCEPT ![r] = attempt]
        /\ db'.report = [s.report EXCEPT ![r] = row]
        /\ db'.global = [s.global EXCEPT ![n] = b]
    BY <1>1, <1>4 DEF Store
  <2>4. b.estimated = s.global[n].estimated + Cost
    BY <2>2, GlobalBucketFields
  <2>5. attempt.status = "dispatched" /\ attempt.month = n
    BY DEF NewAttempt
  <2>6. row.month = n
    BY ZenonT(60), ZenonT(90), <2>1 DEF Row
  <2>7. Waits(s.report[r])
    BY <1>4 DEF Holds, Waits, ActiveStatus
  <2> HIDE DEF b, attempt, row
  <2>8. PhaseOf(s, r) = "waiting"
    BY <1>1, <1>2, <2>7, Phases
  <2>9. PeriodOf(s, r) = n
    BY <2>8 DEF PeriodOf
  <2> HIDE DEF n
  <2>10. /\ db'.attempt[r] = attempt /\ db'.report[r] = row
         /\ OthersStay(s, db', r)
    BY <1>1, <1>2, <2>3 DEF OthersStay, Store
  <2>11. \A m \in Month : db'.global[m].estimated = s.global[m].estimated + (IF m = n THEN Cost ELSE 0)
    BY SMTT(40), SMTT(80), <1>1, <2>3, <2>4 DEF Store, GlobalBucket
  <2> QED
    BY <1>1, <1>2, <2>1, <2>5, <2>6, <2>8, <2>9, <2>10, <2>11, CallBegins
<1> QED
  BY <1>1, <1>3, <1>4, EndsIsReflexive, EndsAdvances

\* A provider test begins its call at once, or ends jobs.
LEMMA AdmitTestAdvances ==
  ASSUME TypeOK, Consistent(db), db' \in Store, Consistent(db'), AdmitTest
  PROVE  Advances(db, db')
<1> DEFINE s == Reap(db)
<1>1. db \in Store /\ s \in Store /\ Consistent(s) /\ Ends(db, s) /\ month \in Month
  BY SMTT(40), SMTT(80), ReapType, ReapContinues, ReapEnds DEF TypeOK, Continues
<1>2. \/ db' = s
      \/ \E t \in Test :
        /\ s.attempt[t].status = "none"
        /\ db' = [s EXCEPT !.attempt[t] = NewAttempt(month),
                  !.global[month] = ConsumeGlobalBudget(ReserveGlobalBudget(@, Cost), Cost)]
  BY DEF AdmitTest, Commit
<1> HIDE DEF s
<1>3. ASSUME NEW t \in Test, s.attempt[t].status = "none",
             db' = [s EXCEPT !.attempt[t] = NewAttempt(month),
                  !.global[month] = ConsumeGlobalBudget(ReserveGlobalBudget(@, Cost), Cost)]
      PROVE  Advances(db, db')
  <2> DEFINE reserved == ReserveGlobalBudget(s.global[month], Cost)
             b == ConsumeGlobalBudget(reserved, Cost)
             attempt == NewAttempt(month)
  <2>1. t \in Attempt /\ t \notin Report
    BY TestsAreNotReports, AttemptKinds
  <2>2. s.global[month] \in GlobalBucket /\ 0 \in Nat
    BY <1>1 DEF Store
  <2>3. /\ db'.attempt = [s.attempt EXCEPT ![t] = attempt]
        /\ db'.report = s.report
        /\ db'.global = [s.global EXCEPT ![month] = b]
    BY <1>1, <1>3 DEF Store
  <2>4. reserved \in GlobalBucket
    BY <2>2, GlobalBucketType
  <2>5. b.estimated = reserved.estimated + Cost /\ reserved.estimated = s.global[month].estimated
    <3> HIDE DEF reserved
    <3>1. b.estimated = reserved.estimated + Cost
      BY <2>2, <2>4, GlobalBucketFields
    <3>2. reserved.estimated = s.global[month].estimated
      BY <2>2, GlobalBucketFields DEF reserved
    <3> QED
      BY <3>1, <3>2
  <2>6. attempt.status = "dispatched" /\ attempt.month = month
    BY DEF NewAttempt
  <2> HIDE DEF b, reserved, attempt
  <2>7. PhaseOf(s, t) = "none"
    BY <1>1, <1>3, <2>1, Phases
  <2>8. db'.attempt[t] = attempt /\ OthersStay(s, db', t)
    BY <1>1, <2>1, <2>3 DEF OthersStay, Store
  <2>9. \A m \in Month : db'.global[m].estimated = s.global[m].estimated + (IF m = month THEN Cost ELSE 0)
    BY <1>1, <2>3, <2>5 DEF Store, GlobalBucket
  <2> QED
    BY <1>1, <2>1, <2>6, <2>7, <2>8, <2>9, CallBegins
<1> QED
  BY <1>1, <1>2, <1>3, EndsAdvances

\* A provider test is settled: published at its price, or ended at its bound.
LEMMA SettleTestAdvances ==
  ASSUME TypeOK, Consistent(db), db' \in Store, Consistent(db'), NEW t \in Test, SettleTest(t)
  PROVE  Advances(db, db')
<1>1. PICK outcome \in {"succeeded", "unknown"}, cost \in ActualCosts \cup {NoCost} :
        /\ outcome = "unknown" => cost = NoCost
        /\ db' = [db EXCEPT
            !.attempt[t] = [@ EXCEPT !.status = outcome, !.slot = "free", !.cost = cost],
            !.global[db.attempt[t].month] =
              IF cost = NoCost THEN SettleUnknownGlobalBudget(@, 1)
                               ELSE SettleKnownGlobalBudget(@, Cost, cost)]
  BY DEF SettleTest, Commit
<1> DEFINE attempt == [db.attempt[t] EXCEPT !.status = outcome, !.slot = "free", !.cost = cost]
           n == db.attempt[t].month
           b == IF cost = NoCost THEN SettleUnknownGlobalBudget(db.global[n], 1)
                                 ELSE SettleKnownGlobalBudget(db.global[n], Cost, cost)
<1>2. db \in Store /\ t \in Attempt /\ t \notin Report /\ db.attempt[t] \in AttemptRow
  BY TestsAreNotReports DEF TypeOK, Store
<1>3. n \in Month /\ db.global[n] \in GlobalBucket
  BY <1>2 DEF Store, AttemptRow
<1>4. attempt.status = outcome /\ outcome \in Settled
  BY ZenonT(60), ZenonT(90), <1>2 DEF AttemptRow, Settled
<1>5. /\ db'.attempt = [db.attempt EXCEPT ![t] = attempt]
      /\ db'.report = db.report
      /\ db'.global = [db.global EXCEPT ![n] = b]
  BY ZenonT(60), ZenonT(90), <1>1, <1>2 DEF Store
<1>6. db.attempt[t].status = "dispatched" /\ (outcome = "unknown" => cost = NoCost)
  BY <1>1 DEF SettleTest
<1> HIDE DEF attempt, n
<1>7. PICK rebate \in Rebates : b.estimated = db.global[n].estimated - rebate /\ (cost = NoCost => rebate = 0)
  BY SMTT(40), SMTT(80), <1>3, SettledPrice
<1> HIDE DEF b
<1>8. db'.attempt[t] = attempt /\ OthersStay(db, db', t)
  BY <1>2, <1>5 DEF OthersStay, Store
<1>9. ASSUME NEW m \in Month
      PROVE  db'.global[m].estimated = db.global[m].estimated
               - (IF m = db.attempt[t].month /\ db'.attempt[t].status = "succeeded" THEN rebate ELSE 0)
  <2>1. db'.global[m] = IF m = n THEN b ELSE db.global[m]
    BY <1>2, <1>5 DEF Store
  <2>2. db.global[m].estimated \in Int
    BY <1>2 DEF Store, GlobalBucket
  <2>3. outcome # "succeeded" => rebate = 0
    BY ZenonT(60), ZenonT(90), <1>6, <1>7
  <2> QED
    BY <1>4, <1>7, <1>8, <2>1, <2>2, <2>3 DEF n
<1> QED
  BY ZenonT(60), ZenonT(90), <1>2, <1>4, <1>6, <1>8, <1>9, CallSettles

\* A result is published at its price, in the month its report and its call share.
LEMMA CompleteAdvances ==
  ASSUME TypeOK, Consistent(db), MonthsMatch(db), db' \in Store, Consistent(db'),
         NEW w \in Worker, Complete(w)
  PROVE  Advances(db, db')
<1> DEFINE r == worker[w].report
           n == db.report[r].month
           completed == Unleased(db.report[r], "succeeded")
           Published(cost) == db' = [db EXCEPT
               !.attempt[r] = [@ EXCEPT !.status = "succeeded", !.slot = "free", !.cost = cost],
               !.report[r] = Unleased(@, "succeeded"),
               !.global[n] = IF cost = NoCost THEN SettleUnknownGlobalBudget(@, 1)
                                     ELSE SettleKnownGlobalBudget(@, Cost, cost)]
<1>1. r \in Report /\ r \in Attempt
  BY WorkersReport DEF Complete
<1>2. db \in Store /\ db.report[r] \in Row /\ db.attempt[r] \in AttemptRow
  BY <1>1 DEF TypeOK, Store
<1>3. n \in Month /\ db.global[n] \in GlobalBucket
  BY ZenonT(60), ZenonT(90), <1>2 DEF Row, Store
<1>4. \/ UNCHANGED db
      \/ db.attempt[r].status = "dispatched" /\ \E cost \in ActualCosts \cup {NoCost} : Published(cost)
  BY DEF Complete, Commit
<1> HIDE DEF r
<1>5. ASSUME db.attempt[r].status = "dispatched", NEW cost \in ActualCosts \cup {NoCost}, Published(cost)
      PROVE  Advances(db, db')
  <2> DEFINE attempt == [db.attempt[r] EXCEPT !.status = "succeeded", !.slot = "free", !.cost = cost]
             b == IF cost = NoCost THEN SettleUnknownGlobalBudget(db.global[n], 1)
                  ELSE SettleKnownGlobalBudget(db.global[n], Cost, cost)
  <2>1. attempt.status = "succeeded"
    BY ZenonT(60), ZenonT(90), <1>2 DEF AttemptRow
  <2>2. /\ db'.attempt = [db.attempt EXCEPT ![r] = attempt]
        /\ db'.report = [db.report EXCEPT ![r] = completed]
        /\ db'.global = [db.global EXCEPT ![n] = b]
    BY <1>2, <1>5 DEF Store
  <2>3. db.attempt[r].month = n /\ db.attempt[r].status = "dispatched"
    BY <1>1, <1>5 DEF MonthsMatch
  <2> HIDE DEF attempt, completed, n
  <2>4. PICK rebate \in Rebates : b.estimated = db.global[n].estimated - rebate
    BY <1>3, SettledPrice
  <2> HIDE DEF b
  <2>5. db'.attempt[r] = attempt /\ OthersStay(db, db', r)
    BY <1>1, <1>2, <2>2 DEF OthersStay, Store
  <2>6. ASSUME NEW m \in Month
        PROVE  db'.global[m].estimated = db.global[m].estimated
                 - (IF m = db.attempt[r].month /\ db'.attempt[r].status = "succeeded" THEN rebate ELSE 0)
    <3>1. db'.global[m] = IF m = n THEN b ELSE db.global[m]
      BY <1>2, <2>2 DEF Store
    <3>2. db.global[m].estimated \in Int
      BY <1>2 DEF Store, GlobalBucket
    <3> QED
      BY <2>1, <2>3, <2>4, <2>5, <3>1, <3>2
  <2>7. db'.attempt[r].status \in Settled
    BY <2>1, <2>5 DEF Settled
  <2> QED
    BY <1>1, <1>2, <2>3, <2>5, <2>6, <2>7, CallSettles
<1> QED
  BY ZenonT(60), ZenonT(90), <1>2, <1>4, <1>5, EndsIsReflexive, EndsAdvances

\* Every step of the engine advances the ledger.
LEMMA StepAdvances ==
  ASSUME IInv, MonthsMatch(db), [Next]_vars
  PROVE  Advances(db, db')
<1>1. TypeOK /\ Consistent(db) /\ db \in Store
  BY DEF IInv, TypeOK
<1>2. db' \in Store /\ Consistent(db')
  BY InvariantStep DEF IInv, TypeOK, Consistent
<1>3. Ends(db, db') => Advances(db, db')
  BY <1>1, <1>2, EndsAdvances
<1>4. db' = db => Advances(db, db')
  BY <1>3, EndsIsReflexive
<1>5. \A S \in SUBSET Active(db) : db' = CancelPending(db, S) => Advances(db, db')
  BY <1>1, <1>3, CancelPendingEnds
<1>6. ASSUME NEW u \in User, OwnerRequest(u) PROVE Advances(db, db')
  <2>1. CASE Generate(u)
    BY <1>1, <1>2, <2>1, GenerateAdvances
  <2>2. CASE AcceptConsent(u)
    BY <1>4, <2>2 DEF AcceptConsent
  <2>3. CASE RevokeConsent(u)
    <3>1. db' = CancelPending(db, Active(db) \cap Of(db, u))
      BY <2>3 DEF RevokeConsent, Commit
    <3> QED
      BY <1>5, <3>1
  <2>4. CASE DeleteSource(u)
    <3>1. PICK S \in SUBSET Of(db, u) : db' = InvalidateSource(db, u, S)
      BY <2>4 DEF DeleteSource, Commit
    <3>2. S \subseteq Report
      BY DEF Of
    <3> QED
      BY <1>1, <1>3, <3>1, <3>2, InvalidateSourceEnds
  <2> QED
    BY <1>6, <2>1, <2>2, <2>3, <2>4 DEF OwnerRequest
<1>7. ASSUME NEW r \in Report, OwnerReportRequest(r) PROVE Advances(db, db')
  <2>1. CASE CancelReport(r)
    <3>1. r \in Active(db) /\ db' = CancelPending(db, {r})
      BY <2>1 DEF CancelReport, Commit
    <3> QED
      BY <1>5, <3>1
  <2>2. CASE DeleteReport(r)
    BY <1>1, <1>3, <2>2, DeleteReportEnds
  <2> QED
    BY <1>7, <2>1, <2>2 DEF OwnerReportRequest
<1>8. ASSUME AdminRequest PROVE Advances(db, db')
  <2>1. ASSUME NEW u \in User, UpdateAccess(u) PROVE Advances(db, db')
    <3>1. db' = db \/ db' = CancelPending(db, Active(db) \cap Of(db, u))
      BY <2>1 DEF UpdateAccess, Commit
    <3> QED
      BY <1>4, <1>5, <3>1
  <2>2. ASSUME NEW u \in User, DeleteAccount(u) PROVE Advances(db, db')
    <3>1. db' = PurgeAccount(db, u)
      BY <2>2 DEF DeleteAccount, Commit
    <3> QED
      BY <1>1, <1>3, <3>1, PurgeAccountEnds
  <2>3. CASE UpdateGenerationEnabled
    <3>1. db' = db \/ db' = CancelPending(db, Active(db))
      BY <2>3 DEF UpdateGenerationEnabled, Commit
    <3> QED
      BY <1>4, <1>5, <3>1
  <2>4. CASE PublishProvider
    <3>1. db' = CancelPending(db, {r \in Active(db) : db.report[r].provider = runtime.provider})
      BY <2>4 DEF PublishProvider, Commit
    <3> QED
      BY <1>5, <3>1
  <2>5. CASE PublishPrompt
    BY <1>4, <2>5 DEF PublishPrompt
  <2>6. CASE AdmitTest
    BY <1>1, <1>2, <2>6, AdmitTestAdvances
  <2>7. ASSUME NEW t \in Test, SettleTest(t) PROVE Advances(db, db')
    BY <1>1, <1>2, <2>7, SettleTestAdvances
  <2> QED
    BY <1>8, <2>1, <2>2, <2>3, <2>4, <2>5, <2>6, <2>7 DEF AdminRequest
<1>9. ASSUME NEW w \in Worker, Claim(w) \/ Work(w) \/ Crash(w) PROVE Advances(db, db')
  <2>1. CASE Claim(w)
    BY <1>1, <1>3, <2>1, ClaimEnds
  <2>2. CASE Precheck(w) \/ CallReturns(w) \/ Crash(w)
    BY <1>4, <2>2 DEF Precheck, CallReturns, Crash
  <2>3. CASE Admit(w)
    BY <1>1, <1>2, <2>3, AdmitAdvances
  <2>4. CASE Requeue(w)
    BY <1>1, <1>3, <2>4, RequeueEnds
  <2>5. CASE Complete(w)
    BY <1>1, <1>2, <2>5, CompleteAdvances
  <2>6. CASE Fail(w)
    BY <1>1, <1>3, <2>6, FailEnds
  <2>7. CASE ReleaseSlot(w)
    <3>1. worker[w].report \in Attempt
      BY <1>1, <2>7, WorkersReport DEF ReleaseSlot
    <3>2. db' = db \/ db' = [db EXCEPT !.attempt[worker[w].report].slot = "free"]
      BY <2>7 DEF ReleaseSlot
    <3> QED
      BY <1>1, <1>3, <1>4, <3>1, <3>2, SlotEdit, Zenon
  <2> QED
    BY <1>9, <2>1, <2>2, <2>3, <2>4, <2>5, <2>6, <2>7 DEF Work
<1>10. ASSUME Time PROVE Advances(db, db')
  <2>1. ASSUME NEW r \in Report, LeaseLapse(r) PROVE Advances(db, db')
    BY <1>1, <1>3, <2>1, LeaseLapseEnds
  <2>2. ASSUME NEW a \in Attempt, SlotLapse(a) PROVE Advances(db, db')
    <3>1. db' = [db EXCEPT !.attempt[a].slot = "lapsed"]
      BY <2>2 DEF SlotLapse
    <3> QED
      BY <1>1, <1>3, <3>1, SlotEdit, Zenon
  <2>3. CASE NextMonth
    BY <1>4, <2>3 DEF NextMonth
  <2> QED
    BY <1>10, <2>1, <2>2, <2>3 DEF Time
<1>11. CASE UNCHANGED vars
  BY <1>4, <1>11 DEF vars
<1> QED
  BY <1>6, <1>7, <1>8, <1>9, <1>10, <1>11 DEF Next

-----------------------------------------------------------------------------
(* The refinement.                                                         *)

\* The refinement mapping in the terms above.
LEMMA Mapping ==
  /\ \A j \in Attempt : JobPhase(j) = PhaseOf(db, j) /\ JobPhase(j)' = PhaseOf(db', j)
  /\ [j \in Attempt |-> JobPhase(j)] = [j \in Attempt |-> PhaseOf(db, j)]
  /\ [j \in Attempt |-> JobPhase(j)]' = [j \in Attempt |-> PhaseOf(db', j)]
<1>1. ASSUME NEW j \in Attempt PROVE JobPhase(j) = PhaseOf(db, j) /\ JobPhase(j)' = PhaseOf(db', j)
  BY DEF JobPhase, PhaseOf, Active
<1> QED
  BY <1>1

\* The engine begins where the ledger does.
LEMMA LedgerInit == Init => Ledger!Init
<1> SUFFICES ASSUME Init PROVE Ledger!Init
  OBVIOUS
<1>1. /\ \A r \in Report : db.report[r].status = "absent"
      /\ \A a \in Attempt : db.attempt[a].status = "none" /\ db.attempt[a].month = 1
      /\ \A m \in Month : db.global[m].estimated + db.global[m].reservedCost = 0
  BY DEF Init, NoRow, NoAttempt, EmptyGlobalBucket
<1>2. \A j \in Attempt : JobPhase(j) = "none"
  BY <1>1, AttemptKinds DEF JobPhase, Settled, Active, IsActive, ActiveStatus
<1>3. 1 \in Month
  BY ConstantAssumption DEF Month
<1> QED
  BY <1>1, <1>2, <1>3 DEF Ledger!Init

\* The ledger counts as the engine does.
LEMMA SameCount == \A S : Ledger!Cardinality(S) = Cardinality(S)
BY Zenon DEF Ledger!Cardinality, Cardinality

\* A step that advances the engine's jobs is a step of the ledger.
LEMMA LedgerNext ==
  ASSUME TypeOK, Consistent(db), Sound(db), TypeOK', Consistent(db'), Sound(db'), LedgerMove(db, db')
  PROVE  Ledger!Next
<1> DEFINE phase == [j \in Attempt |-> JobPhase(j)]
           period == [j \in Attempt |->
             IF JobPhase(j) = "waiting" THEN db.report[j].month ELSE db.attempt[j].month]
           committed == [m \in Month |-> db.global[m].estimated + db.global[m].reservedCost]
<1>1. db \in Store /\ db' \in Store
  BY DEF TypeOK
<1>2. /\ \A j \in Attempt : phase[j] = PhaseOf(db, j) /\ phase'[j] = PhaseOf(db', j)
      /\ \A j \in Attempt : period[j] = PeriodOf(db, j) /\ period'[j] = PeriodOf(db', j)
      /\ \A m \in Month : committed[m] = Committed(db, m) /\ committed'[m] = Committed(db', m)
  BY Mapping DEF PeriodOf, Committed
<1>3. phase' = [j \in Attempt |-> PhaseOf(db', j)]
  BY Mapping
<1>4. phase' \in [Attempt -> Ledger!Phase]
  <2>1. \A j \in Attempt : PhaseOf(db', j) \in Ledger!Phase
    BY <1>1, Phases DEF Ledger!Phase
  <2> QED
    BY <1>3, <2>1
<1>5. /\ Ledger!Moved = {j \in Attempt : phase'[j] # phase[j]}
      /\ Ledger!Starts = {j \in Ledger!Moved : phase'[j] \in {"waiting", "called"}}
      /\ \A m : Ledger!Charged(m) = {j \in Ledger!Starts : phase[j] = "none" /\ period'[j] = m}
      /\ \A m : Ledger!Refunded(m) =
                  {j \in Ledger!Moved : phase[j] = "waiting" /\ phase'[j] = "dropped" /\ period[j] = m}
      /\ \A m : Ledger!Priced(m) = {j \in Ledger!Moved : phase'[j] = "published" /\ period[j] = m}
  BY DEF Ledger!Moved, Ledger!Starts, Ledger!Charged, Ledger!Refunded, Ledger!Priced
<1> HIDE DEF phase, period, committed
<1>6. Ledger!Moved = MovedJobs(db, db')
  BY <1>2, <1>5 DEF MovedJobs
<1>7. Ledger!Starts = StartedJobs(db, db')
  BY <1>2, <1>5, <1>6 DEF StartedJobs, MovedJobs
<1>8. ASSUME NEW m \in Month
      PROVE  /\ Ledger!Charged(m) = ChargedJobs(db, db', m)
             /\ Ledger!Refunded(m) = RefundedJobs(db, db', m)
             /\ Ledger!Priced(m) = PricedJobs(db, db', m)
  BY <1>2, <1>5, <1>6, <1>7 DEF ChargedJobs, RefundedJobs, PricedJobs, StartedJobs, MovedJobs
<1>9. PICK i \in Attempt : StartedJobs(db, db') \subseteq {i}
  BY DEF LedgerMove
<1>10. Ledger!Cardinality(Ledger!Starts) <= 1
  <2>1. Cardinality({i}) = 1 /\ IsFiniteSet({i})
    BY FS_Singleton
  <2> QED
    BY <1>7, <1>9, <2>1, FS_Subset, SameCount
<1>11. \A j \in Ledger!Moved : <<phase[j], phase'[j]>> \in Ledger!MayFollow
  BY <1>2, <1>6 DEF LedgerMove, JobsMove, MovedJobs
<1>12. \A j \in Attempt : phase[j] \in {"waiting", "called"} =>
         phase'[j] \notin {"waiting", "called"} \/ period'[j] = period[j]
  BY <1>2 DEF LedgerMove, JobsMove
<1>13. ASSUME NEW m \in Month
       PROVE  /\ \E rebate \in {Cost - c : c \in ActualCosts} \cup {0} :
                   committed'[m] = committed[m] + Cost * Ledger!Cardinality(Ledger!Charged(m))
                                     - Cost * Ledger!Cardinality(Ledger!Refunded(m))
                                     - (IF Ledger!Priced(m) = {} THEN 0 ELSE rebate)
              /\ Ledger!Charged(m) # {} => committed'[m] <= Budget
  <2>1. CommitmentMoves(db, db', m)
    BY <1>1, <1>9, CommitmentFollows DEF LedgerMove
  <2> QED
    BY <1>2, <1>8, <2>1, SameCount DEF CommitmentMoves, Rebates
<1> QED
  BY <1>4, <1>10, <1>11, <1>12, <1>13, Zenon DEF Ledger!Next, phase, period, committed

\* The invariant of the refinement.
LInv == IInv /\ Sound(db) /\ MonthsMatch(db)

\* Nothing has been called at first.
LEMMA InitMonths == Init => MonthsMatch(db)
BY ReportsAreAttempts DEF Init, MonthsMatch, NoAttempt

\* The engine implements the ledger: every behaviour of its workers, owners and
\* administrators moves each job along its phases, starts at most one job at a time, and
\* commits and gives back exactly what those moves cost, within the budget.
THEOREM EngineImplementsLedger == Spec => ImplementsLedger
<1>1. Init => LInv /\ Ledger!Init
  BY InitInvariant, InitSound, InitMonths, LedgerInit DEF LInv
<1>2. LInv /\ [Next]_vars => LInv'
  BY InvariantStep, SoundStep, StepAdvances DEF LInv, Advances, IInv, Sound, Backed, Limits, Capacity, MonthsMatch
<1>3. LInv /\ LInv' /\ [Next]_vars => Ledger!Next
  BY StepAdvances, LedgerNext DEF LInv, IInv, Advances
<1> QED
  BY <1>1, <1>2, <1>3, PTL DEF Spec, ImplementsLedger, Ledger!Spec

-----------------------------------------------------------------------------
(* The tallies: what the buckets say of the calls that were made, the      *)
(* owners' quotas and the deployment's bill, both exactly.                 *)
(*                                                                         *)
(* Almost every statement only closes calls and records each one unknown,  *)
(* in the month of its report; by MonthsMatch that is the month its call   *)
(* is counted in (Records).  The two admissions begin one call, the two    *)
(* settlements price one.                                                  *)

\* the statuses of a call that ended without a result
Fruitless == Settled \ {"succeeded"}

CallsIn(s, m) == {a \in Attempt : s.attempt[a].status # "none" /\ s.attempt[a].month = m}
UnknownIn(s, m) == {a \in CallsIn(s, m) : s.attempt[a].status \in Settled /\ s.attempt[a].cost = NoCost}
FruitlessIn(s, m) == {a \in CallsIn(s, m) : s.attempt[a].status \in Fruitless}

\* only a call with a result has a price
Priced(s) == \A a \in Attempt : s.attempt[a].cost # NoCost => s.attempt[a].status = "succeeded"

\* what a call is billed at, and what calls amount to
PriceOf(s, a) == IF s.attempt[a].cost = NoCost THEN Cost ELSE s.attempt[a].cost

Billed(s, S) ==
  MapThenSumSet(LAMBDA a : IF s.attempt[a].cost = NoCost THEN Cost ELSE s.attempt[a].cost, S)

\* the deployment's bucket of a month: its calls, what they amount to, and those whose cost
\* nobody knows
BillStands(s, m) ==
  /\ s.global[m].consumed = Cardinality(CallsIn(s, m))
  /\ s.global[m].unknown = Cardinality(UnknownIn(s, m))
  /\ s.global[m].estimated = Billed(s, CallsIn(s, m))

QuotaStands(s, u, m) ==
  /\ s.usage[u][m].consumed = Cardinality(CallsIn(s, m) \cap Of(s, u))
  /\ s.usage[u][m].unknown = Cardinality(FruitlessIn(s, m) \cap Of(s, u))

Tallied(s) == Priced(s) /\ \A m \in Month : BillStands(s, m) /\ \A u \in User : QuotaStands(s, u, m)

\* the calls of a month that are closed from s to t
ClosedIn(s, t, m) ==
  {a \in Attempt : s.attempt[a].status = "dispatched" /\ t.attempt[a].status # "dispatched"
                    /\ s.attempt[a].month = m}

\* who owns the calls of u
SameOwned(s, t, u) ==
  \A r \in Report : s.attempt[r].status # "none" => (t.report[r].owner = u <=> s.report[r].owner = u)

\* from s to t calls only end without a result, and each is recorded unknown, to the
\* deployment and to its owner, unless the owner's account is gone
CallRecords(old, new) == AttemptEnds(old, new) /\ new.cost = old.cost

BillRecords(s, t, m) ==
  /\ t.global[m].consumed = s.global[m].consumed
  /\ t.global[m].unknown = s.global[m].unknown + Cardinality(ClosedIn(s, t, m))
  /\ t.global[m].estimated = s.global[m].estimated

QuotaRecords(s, t, u, m) ==
  /\ SameOwned(s, t, u)
  /\ t.usage[u][m].consumed = s.usage[u][m].consumed
  /\ t.usage[u][m].unknown = s.usage[u][m].unknown + Cardinality(ClosedIn(s, t, m) \cap Of(s, u))

QuotaGone(t, u, m) ==
  Of(t, u) = {} /\ t.usage[u][m].consumed = 0 /\ t.usage[u][m].unknown = 0

Records(s, t) ==
  /\ \A a \in Attempt : CallRecords(s.attempt[a], t.attempt[a])
  /\ \A m \in Month : BillRecords(s, t, m)
  /\ \A u \in User, m \in Month : QuotaRecords(s, t, u, m) \/ QuotaGone(t, u, m)

-----------------------------------------------------------------------------
(* Adding up.  A fold adds the weights of a set in an order it chooses;    *)
(* the sum is the same for every order (SumAdds) and for every larger set  *)
(* the weights are given for (SumsAgree), by induction on the cardinality. *)

\* Every set of numbers has a least one.
LEMMA LeastNumber ==
  ASSUME NEW T, T \subseteq Nat, T # {}
  PROVE  \E n \in T : \A m \in T : n <= m
<1>1. \E x \in T : \A y \in T : ~ (<<y, x>> \in OpToRel(<, Nat))
  BY WFMin, NatLessThanWellFounded
<1>2. PICK n \in T : \A y \in T : ~ (<<y, n>> \in OpToRel(<, Nat))
  BY <1>1
<1> DEFINE R == {ss \in Nat \X Nat : ss[1] < ss[2]}
<1>4. OpToRel(<, Nat) = R
  BY Zenon DEF OpToRel
<1>5. \A y \in T : ~ (<<y, n>> \in R)
  BY <1>2, <1>4
<1>3. ASSUME NEW m \in T PROVE n <= m
  <2>1. m \in Nat /\ n \in Nat
    OBVIOUS
  <2>2. m < n => <<m, n>> \in R
    BY <2>1
  <2> QED
    BY <1>5, <2>1, <2>2
<1> QED
  BY <1>3

\* Induction over the numbers, for a set of them.
LEMMA SetInduction ==
  ASSUME NEW T, 0 \in T, \A n \in Nat : n \in T => n + 1 \in T
  PROVE  Nat \subseteq T
<1> DEFINE U == Nat \ T
<1> SUFFICES ASSUME U # {} PROVE FALSE
  OBVIOUS
<1>1. PICK n \in U : \A m \in U : n <= m
  BY LeastNumber
<1>2. n # 0 /\ n - 1 \in Nat
  BY DEF U
<1>3. n - 1 \notin U
  BY <1>1, <1>2
<1> QED
  BY <1>1, <1>2, <1>3

\* the element a fold takes next
Pick(s) == CHOOSE x \in s : TRUE

\* the function that adds the weights c of the subsets of S
AddsUp(g, c, S) ==
  g = [s \in SUBSET S |-> IF s = {} THEN 0 ELSE c[Pick(s)] + g[s \ {Pick(s)}]]

\* A set that is not empty has an element to take.
LEMMA PickIsElement ==
  ASSUME NEW s, s # {}
  PROVE  Pick(s) \in s
BY DEF Pick

\* A finite set without one of its elements is smaller by one.
LEMMA Smaller ==
  ASSUME NEW S, IsFiniteSet(S), NEW s \in SUBSET S, NEW x \in s
  PROVE  /\ Cardinality(s) \in Nat /\ Cardinality(s) # 0
         /\ Cardinality(s \ {x}) \in Nat /\ Cardinality(s \ {x}) = Cardinality(s) - 1
<1>1. IsFiniteSet(s)
  BY FS_Subset
<1>2. IsFiniteSet(s \ {x}) /\ Cardinality(s \ {x}) = Cardinality(s) - 1
  BY <1>1, FS_RemoveElement
<1> QED
  BY <1>1, <1>2, FS_CardinalityType, FS_EmptySet

\* Every set of weights has a function that adds them up.
LEMMA SumExists ==
  ASSUME NEW S, IsFiniteSet(S), NEW c \in [S -> Int]
  PROVE  \E g \in [SUBSET S -> Int] : AddsUp(g, c, S)
<1> DEFINE Body(g, s) == IF s = {} THEN 0 ELSE c[Pick(s)] + g[s \ {Pick(s)}]
           UpTo(g, n) == \A s \in SUBSET S : Cardinality(s) <= n => g[s] = Body(g, s)
           T == {n \in Nat : \E g \in [SUBSET S -> Int] : UpTo(g, n)}
<1>1. ASSUME NEW s \in SUBSET S, s # {}
      PROVE  /\ Pick(s) \in s /\ Pick(s) \in S /\ s \ {Pick(s)} \in SUBSET S
             /\ Cardinality(s) \in Nat /\ Cardinality(s) # 0
             /\ Cardinality(s \ {Pick(s)}) = Cardinality(s) - 1
  BY <1>1, PickIsElement, Smaller
<1>2. 0 \in T
  <2> DEFINE z == [s \in SUBSET S |-> 0]
  <2>1. ASSUME NEW s \in SUBSET S, Cardinality(s) <= 0 PROVE s = {}
    <3> SUFFICES ASSUME s # {} PROVE FALSE
      OBVIOUS
    <3>1. Cardinality(s) \in Nat /\ Cardinality(s) # 0
      BY <1>1
    <3> QED
      BY <2>1, <3>1
  <2>2. z \in [SUBSET S -> Int] /\ UpTo(z, 0)
    BY <2>1
  <2> QED
    BY <2>2
<1>3. ASSUME NEW n \in Nat, n \in T
      PROVE  n + 1 \in T
  <2>1. PICK g \in [SUBSET S -> Int] : UpTo(g, n)
    BY <1>3
  <2> DEFINE h == [s \in SUBSET S |-> Body(g, s)]
  <2>2. ASSUME NEW s \in SUBSET S PROVE Body(g, s) \in Int
    <3>1. CASE s = {}
      BY <3>1
    <3>2. CASE s # {}
      <4>1. Pick(s) \in S /\ s \ {Pick(s)} \in SUBSET S
        BY <1>1, <3>2
      <4>2. c[Pick(s)] \in Int /\ g[s \ {Pick(s)}] \in Int
        BY <4>1
      <4> QED
        BY <3>2, <4>2
    <3> QED
      BY <3>1, <3>2
  <2>3. h \in [SUBSET S -> Int]
    BY <2>2
  <2>4. ASSUME NEW s \in SUBSET S, Cardinality(s) <= n + 1
        PROVE  h[s] = Body(h, s)
    <3>1. CASE s = {}
      BY <3>1
    <3>2. CASE s # {}
      <4>1. s \ {Pick(s)} \in SUBSET S /\ Cardinality(s \ {Pick(s)}) <= n
        BY <1>1, <2>4, <3>2
      <4>2. g[s \ {Pick(s)}] = Body(g, s \ {Pick(s)})
        BY <2>1, <4>1
      <4>3. h[s \ {Pick(s)}] = g[s \ {Pick(s)}]
        BY <4>1, <4>2
      <4> QED
        BY <3>2, <4>3
    <3> QED
      BY <3>1, <3>2
  <2> HIDE DEF h
  <2>5. UpTo(h, n + 1)
    BY <2>4
  <2> HIDE DEF UpTo
  <2>6. \E f \in [SUBSET S -> Int] : UpTo(f, n + 1)
    BY <2>3, <2>5
  <2> QED
    BY <2>6
<1>4. Cardinality(S) \in T
  <2> HIDE DEF T
  <2>1. Nat \subseteq T
    BY <1>2, <1>3, SetInduction
  <2> QED
    BY <2>1, FS_CardinalityType
<1>5. PICK g \in [SUBSET S -> Int] : UpTo(g, Cardinality(S))
  BY <1>4
<1>6. \A s \in SUBSET S : Cardinality(s) <= Cardinality(S)
  BY FS_Subset
<1>7. \A s \in SUBSET S : g[s] = Body(g, s)
  BY <1>5, <1>6
<1>8. g = [s \in SUBSET S |-> g[s]]
  OBVIOUS
<1>9. AddsUp(g, c, S)
  BY <1>7, <1>8 DEF AddsUp
<1> QED
  BY <1>9

\* g adds c whichever element is taken first
AddsAny(g, c, S) == \A s \in SUBSET S : \A x \in s : g[s] = c[x] + g[s \ {x}]

\* A sum is that of the set without any one element, and the element's weight.
LEMMA SumAdds ==
  ASSUME NEW S, IsFiniteSet(S), NEW c \in [S -> Int], NEW g \in [SUBSET S -> Int], AddsUp(g, c, S)
  PROVE  AddsAny(g, c, S)
<1> DEFINE T == {n \in Nat : \A s \in SUBSET S : Cardinality(s) <= n => \A x \in s : g[s] = c[x] + g[s \ {x}]}
<1>1. ASSUME NEW s \in SUBSET S, NEW x \in s
      PROVE  /\ s \ {x} \in SUBSET S /\ x \in S /\ Cardinality(s) \in Nat /\ Cardinality(s) # 0
             /\ Cardinality(s \ {x}) = Cardinality(s) - 1
  BY Smaller
<1>2. ASSUME NEW s \in SUBSET S, s # {}
      PROVE  Pick(s) \in s /\ g[s] = c[Pick(s)] + g[s \ {Pick(s)}]
  BY <1>2, PickIsElement DEF AddsUp
<1>3. 0 \in T
  <2>1. ASSUME NEW s \in SUBSET S, Cardinality(s) <= 0, NEW x \in s PROVE FALSE
    <3>1. Cardinality(s) \in Nat /\ Cardinality(s) # 0
      BY <1>1
    <3> HIDE DEF T
    <3> QED
      BY <2>1, <3>1
  <2> QED
    BY <2>1
<1>4. ASSUME NEW n \in Nat, n \in T PROVE n + 1 \in T
  <2> SUFFICES ASSUME NEW s \in SUBSET S, Cardinality(s) <= n + 1, NEW x \in s
               PROVE  g[s] = c[x] + g[s \ {x}]
    OBVIOUS
  <2> DEFINE y == Pick(s)
  <2>1. y \in s /\ g[s] = c[y] + g[s \ {y}]
    BY <1>2
  <2> HIDE DEF y
  <2>2. CASE y = x
    BY <2>1, <2>2
  <2>3. CASE y # x
    <3>1. /\ s \ {y} \in SUBSET S /\ x \in s \ {y} /\ Cardinality(s \ {y}) <= n
          /\ s \ {x} \in SUBSET S /\ y \in s \ {x} /\ Cardinality(s \ {x}) <= n
      BY <1>1, <2>1, <2>3
    <3>2. g[s \ {y}] = c[x] + g[(s \ {y}) \ {x}] /\ g[s \ {x}] = c[y] + g[(s \ {x}) \ {y}]
      BY <1>4, <3>1
    <3>3. (s \ {y}) \ {x} = (s \ {x}) \ {y} /\ (s \ {x}) \ {y} \in SUBSET S
      OBVIOUS
    <3> DEFINE rest == g[(s \ {x}) \ {y}]
    <3>4. c[x] \in Int /\ c[y] \in Int /\ rest \in Int
      BY <1>1, <2>1, <3>3
    <3>5. g[s] = c[y] + g[s \ {y}] /\ g[s \ {y}] = c[x] + rest /\ g[s \ {x}] = c[y] + rest
      BY <2>1, <3>2, <3>3
    <3> HIDE DEF rest
    <3>6. g[s] = c[y] + (c[x] + rest) /\ g[s \ {x}] = c[y] + rest
      BY <3>5
    <3>7. c[y] + (c[x] + rest) = c[x] + (c[y] + rest)
      BY <3>4
    <3> QED
      BY <3>6, <3>7
  <2> QED
    BY <2>2, <2>3
<1>5. Nat \subseteq T
  <2> HIDE DEF T
  <2> QED
    BY <1>3, <1>4, SetInduction
<1> SUFFICES ASSUME NEW s \in SUBSET S, NEW x \in s PROVE g[s] = c[x] + g[s \ {x}]
  BY DEF AddsAny
<1>6. Cardinality(s) \in T /\ Cardinality(s) \in Nat
  BY <1>1, <1>5
<1> QED
  BY <1>6

\* The sum over a set does not depend on the function that adds it up.
LEMMA SumsAgree ==
  ASSUME NEW S, IsFiniteSet(S), NEW R \in SUBSET S,
         NEW c \in [S -> Int], NEW d \in [R -> Int], \A x \in R : d[x] = c[x],
         NEW g \in [SUBSET S -> Int], AddsUp(g, c, S),
         NEW h, AddsUp(h, d, R)
  PROVE  \A s \in SUBSET R : h[s] = g[s]
<1> DEFINE T == {n \in Nat : \A s \in SUBSET R : Cardinality(s) <= n => h[s] = g[s]}
<1>1. ASSUME NEW s \in SUBSET R
      PROVE  /\ s \in SUBSET S /\ Cardinality(s) \in Nat
             /\ s = {} => h[s] = g[s]
             /\ s # {} => /\ s \ {Pick(s)} \in SUBSET R /\ Cardinality(s) # 0
                          /\ Cardinality(s \ {Pick(s)}) = Cardinality(s) - 1
                          /\ h[s \ {Pick(s)}] = g[s \ {Pick(s)}] => h[s] = g[s]
  <2>1. s \in SUBSET S /\ Cardinality(s) \in Nat
    BY FS_Subset, FS_CardinalityType
  <2>2. /\ g[s] = IF s = {} THEN 0 ELSE c[Pick(s)] + g[s \ {Pick(s)}]
        /\ h[s] = IF s = {} THEN 0 ELSE d[Pick(s)] + h[s \ {Pick(s)}]
    BY <2>1 DEF AddsUp
  <2>3. s # {} => Pick(s) \in s
    BY PickIsElement
  <2>4. s # {} => Cardinality(s) # 0 /\ Cardinality(s \ {Pick(s)}) = Cardinality(s) - 1
    BY <2>1, <2>3, Smaller
  <2> QED
    BY <2>1, <2>2, <2>3, <2>4
<1>2. 0 \in T
  <2> SUFFICES ASSUME NEW s \in SUBSET R, Cardinality(s) <= 0 PROVE h[s] = g[s]
    OBVIOUS
  <2> HIDE DEF T
  <2>1. Cardinality(s) \in Nat
    BY <1>1
  <2>2. Cardinality(s) = 0
    BY <2>1
  <2> QED
    BY <1>1, <2>2
<1>3. ASSUME NEW n \in Nat, n \in T PROVE n + 1 \in T
  <2> SUFFICES ASSUME NEW s \in SUBSET R, Cardinality(s) <= n + 1
               PROVE  h[s] = g[s]
    OBVIOUS
  <2>1. CASE s = {}
    BY <1>1, <2>1
  <2>2. CASE s # {}
    <3>1. s \ {Pick(s)} \in SUBSET R /\ Cardinality(s \ {Pick(s)}) <= n
      BY <1>1, <2>2
    <3>2. h[s \ {Pick(s)}] = g[s \ {Pick(s)}]
      BY <1>3, <3>1
    <3> QED
      BY <1>1, <2>2, <3>2
  <2> QED
    BY <2>1, <2>2
<1>4. Nat \subseteq T
  <2> HIDE DEF T
  <2> QED
    BY <1>2, <1>3, SetInduction
<1> SUFFICES ASSUME NEW s \in SUBSET R PROVE h[s] = g[s]
  OBVIOUS
<1>5. Cardinality(s) \in T /\ Cardinality(s) \in Nat
  BY <1>1, <1>4
<1> QED
  BY <1>5

\* The fold of the community modules is such a function.
LEMMA BilledUnfolds ==
  ASSUME NEW s, NEW S
  PROVE  Billed(s, S) = (CHOOSE h : h = [R \in SUBSET S |->
            IF R = {} THEN 0 ELSE PriceOf(s, Pick(R)) + h[R \ {Pick(R)}]])[S]
BY Zenon DEF Billed, MapThenSumSet, MapThenFoldSet, PriceOf, Pick

\* Prices are numbers.
LEMMA PricesAreInt ==
  ASSUME NEW s \in Store, NEW a \in Attempt
  PROVE  PriceOf(s, a) \in Int
<1>1. s.attempt[a].cost \in ActualCosts \cup {NoCost}
  BY DEF Store, AttemptRow
<1>2. ActualCosts \subseteq Int /\ Cost \in Int
  BY ConstantAssumption
<1> QED
  BY <1>1, <1>2 DEF PriceOf

\* There are finitely many attempts.
LEMMA AttemptsAreFinite ==
  IsFiniteSet(Attempt) /\ \A S \in SUBSET Attempt : IsFiniteSet(S)
<1>1. 1 \in Int /\ NumReports + NumTests \in Int
  BY ConstantAssumption
<1>2. IsFiniteSet(Attempt)
  BY <1>1, FS_Interval DEF Attempt
<1> QED
  BY <1>2, FS_Subset

\* What a set of calls amounts to is read off any function that adds up their prices.
LEMMA BilledIsSum ==
  ASSUME NEW s \in Store, NEW S \in SUBSET Attempt,
         NEW c \in [Attempt -> Int], \A a \in S : c[a] = PriceOf(s, a),
         NEW g \in [SUBSET Attempt -> Int], AddsUp(g, c, Attempt)
  PROVE  Billed(s, S) = g[S]
<1> DEFINE d == [a \in S |-> PriceOf(s, a)]
           Adding(h) == h = [R \in SUBSET S |->
             IF R = {} THEN 0 ELSE PriceOf(s, Pick(R)) + h[R \ {Pick(R)}]]
           h == CHOOSE f : Adding(f)
<1>2. d \in [S -> Int] /\ \A x \in S : d[x] = c[x]
  BY PricesAreInt
<1>3. ASSUME NEW f PROVE AddsUp(f, d, S) <=> Adding(f)
  <2>1. [R \in SUBSET S |-> IF R = {} THEN 0 ELSE d[Pick(R)] + f[R \ {Pick(R)}]]
          = [R \in SUBSET S |-> IF R = {} THEN 0 ELSE PriceOf(s, Pick(R)) + f[R \ {Pick(R)}]]
    <3>1. \A R \in SUBSET S : R # {} => d[Pick(R)] = PriceOf(s, Pick(R))
      BY PickIsElement
    <3> HIDE DEF d
    <3> QED
      BY <3>1
  <2> QED
    BY <2>1 DEF AddsUp
<1> HIDE DEF d
<1>4. \E f : Adding(f)
  <2>1. IsFiniteSet(S)
    BY AttemptsAreFinite
  <2>2. \E f \in [SUBSET S -> Int] : AddsUp(f, d, S)
    BY <2>1, <1>2, SumExists
  <2> QED
    BY <2>2, <1>3
<1>5. Adding(h)
  <2> HIDE DEF Adding
  <2> QED
    BY <1>4, Zenon
<1>6. Billed(s, S) = h[S]
  BY BilledUnfolds, Zenon
<1> HIDE DEF h, Adding
<1>7. AddsUp(h, d, S)
  BY <1>3, <1>5
<1>8. \A R \in SUBSET S : h[R] = g[R]
  BY SMTT(40), SMTT(80), AttemptsAreFinite, <1>2, <1>7, SumsAgree
<1> QED
  BY <1>6, <1>8

\* the weights of all attempts, and their sums
PricesOf(s) == [a \in Attempt |-> PriceOf(s, a)]

\* The prices of a store have a function that adds them up.
LEMMA PriceSums ==
  ASSUME NEW s \in Store
  PROVE  /\ PricesOf(s) \in [Attempt -> Int] /\ IsFiniteSet(Attempt)
         /\ \E g \in [SUBSET Attempt -> Int] : AddsUp(g, PricesOf(s), Attempt)
<1>1. PricesOf(s) \in [Attempt -> Int] /\ IsFiniteSet(Attempt)
  BY PricesAreInt, AttemptsAreFinite DEF PricesOf
<1> QED
  BY <1>1, SumExists

\* No calls amount to nothing.
LEMMA BilledNothing ==
  ASSUME NEW s \in Store
  PROVE  Billed(s, {}) = 0
<1>1. PICK g \in [SUBSET Attempt -> Int] : AddsUp(g, PricesOf(s), Attempt)
  BY PriceSums
<1>2. {} \in SUBSET Attempt /\ \A a \in {} : PricesOf(s)[a] = PriceOf(s, a)
  OBVIOUS
<1>3. Billed(s, {}) = g[{}]
  BY <1>1, <1>2, PriceSums, BilledIsSum
<1>4. g[{}] = 0
  BY <1>1 DEF AddsUp
<1> QED
  BY <1>3, <1>4

\* Calls at the same prices amount to the same.
LEMMA BilledSame ==
  ASSUME NEW s \in Store, NEW t \in Store, NEW S \in SUBSET Attempt,
         \A a \in S : t.attempt[a].cost = s.attempt[a].cost
  PROVE  Billed(t, S) = Billed(s, S)
<1>1. PICK g \in [SUBSET Attempt -> Int] : AddsUp(g, PricesOf(s), Attempt)
  BY PriceSums
<1>2. \A a \in S : PricesOf(s)[a] = PriceOf(s, a) /\ PricesOf(s)[a] = PriceOf(t, a)
  BY DEF PricesOf, PriceOf
<1>3. Billed(s, S) = g[S] /\ Billed(t, S) = g[S]
  BY ZenonT(60), ZenonT(90), <1>1, <1>2, PriceSums, BilledIsSum
<1> QED
  BY <1>3

\* One call more amounts to its price more.
LEMMA BilledMore ==
  ASSUME NEW s \in Store, NEW S \in SUBSET Attempt, NEW i \in Attempt, i \notin S
  PROVE  /\ Billed(s, S) \in Int /\ PriceOf(s, i) \in Int
         /\ Billed(s, S \cup {i}) = Billed(s, S) + PriceOf(s, i)
<1> DEFINE c == PricesOf(s)
           more == S \cup {i}
<1>1. PICK g \in [SUBSET Attempt -> Int] : AddsUp(g, c, Attempt)
  BY PriceSums
<1>2. \A a \in Attempt : c[a] = PriceOf(s, a)
  BY DEF PricesOf
<1>3. c \in [Attempt -> Int]
  BY PriceSums
<1>4. more \in SUBSET Attempt /\ i \in more /\ more \ {i} = S
  OBVIOUS
<1> HIDE DEF c
<1>5. \A R \in SUBSET Attempt : Billed(s, R) = g[R]
  BY ZenonT(60), ZenonT(90), <1>1, <1>2, <1>3, BilledIsSum
<1>6. AddsAny(g, c, Attempt)
  BY <1>1, <1>3, AttemptsAreFinite, SumAdds
<1> HIDE DEF more
<1>7. g[more] = c[i] + g[more \ {i}]
  BY <1>4, <1>6 DEF AddsAny
<1>8. g[S] \in Int /\ c[i] \in Int /\ c[i] = PriceOf(s, i)
  BY <1>2, <1>3
<1>9. Billed(s, more) = g[more] /\ Billed(s, S) = g[S]
  BY <1>4, <1>5
<1>10. g[more] = c[i] + g[S]
  BY <1>4, <1>7
<1>11. Billed(s, more) = Billed(s, S) + PriceOf(s, i)
  BY <1>8, <1>9, <1>10
<1> QED
  BY <1>8, <1>9, <1>11 DEF more

-----------------------------------------------------------------------------
(* Counting.                                                               *)

\* Two disjoint sets of calls are counted one after the other.
LEMMA CountsAdd ==
  ASSUME NEW S, S \subseteq Attempt, NEW D, D \subseteq Attempt, S \cap D = {}, NEW T, T = S \cup D
  PROVE  /\ Cardinality(S) \in Nat /\ Cardinality(D) \in Nat
         /\ Cardinality(T) = Cardinality(S) + Cardinality(D)
<1>1. T \subseteq Attempt /\ D \in SUBSET T /\ T \ D = S
  OBVIOUS
<1>2. /\ Cardinality(T) \in Nat /\ Cardinality(D) \in Nat /\ Cardinality(S) \in Nat
      /\ Cardinality(T \ D) = Cardinality(T) - Cardinality(D)
  BY <1>1, Counts
<1>3. Cardinality(S) = Cardinality(T) - Cardinality(D)
  BY <1>1, <1>2
<1> QED
  BY <1>2, <1>3

\* Recording what has ended keeps the tallies.
LEMMA RecordsKeepTallies ==
  ASSUME NEW s \in Store, NEW t \in Store, Tallied(s), Records(s, t)
  PROVE  Tallied(t)
<1>1. ASSUME NEW a \in Attempt
      PROVE  /\ t.attempt[a].status # "none" <=> s.attempt[a].status # "none"
             /\ t.attempt[a].month = s.attempt[a].month /\ t.attempt[a].cost = s.attempt[a].cost
             /\ s.attempt[a].cost # NoCost => s.attempt[a].status = "succeeded"
             /\ t.attempt[a].status # s.attempt[a].status =>
                  s.attempt[a].status = "dispatched" /\ t.attempt[a].status \in Fruitless
  BY DEF Records, CallRecords, AttemptEnds, Tallied, Priced, Fruitless, Settled
<1>2. Priced(t)
  BY <1>1 DEF Priced
<1>3. ASSUME NEW m \in Month PROVE BillStands(t, m)
  <2>1. BillRecords(s, t, m) /\ BillStands(s, m)
    BY DEF Records, Tallied
  <2>2. CallsIn(t, m) = CallsIn(s, m) /\ Billed(t, CallsIn(s, m)) = Billed(s, CallsIn(s, m))
    <3>1. CallsIn(t, m) = CallsIn(s, m) /\ CallsIn(s, m) \in SUBSET Attempt
      BY <1>1 DEF CallsIn
    <3>2. \A a \in CallsIn(s, m) : t.attempt[a].cost = s.attempt[a].cost
      BY <1>1, <3>1
    <3> QED
      BY <3>1, <3>2, BilledSame
  <2>3. /\ UnknownIn(t, m) = UnknownIn(s, m) \cup ClosedIn(s, t, m)
        /\ UnknownIn(s, m) \cap ClosedIn(s, t, m) = {}
        /\ UnknownIn(s, m) \subseteq Attempt /\ ClosedIn(s, t, m) \subseteq Attempt
    BY <1>1 DEF CallsIn, UnknownIn, ClosedIn, Fruitless, Settled
  <2>4. Cardinality(UnknownIn(t, m)) = Cardinality(UnknownIn(s, m)) + Cardinality(ClosedIn(s, t, m))
    BY <2>3, CountsAdd
  <2> QED
    BY <2>1, <2>2, <2>4 DEF BillRecords, BillStands
<1>4. ASSUME NEW u \in User, NEW m \in Month PROVE QuotaStands(t, u, m)
  <2>1. QuotaStands(s, u, m) /\ (QuotaRecords(s, t, u, m) \/ QuotaGone(t, u, m))
    BY DEF Records, Tallied
  <2>2. CASE QuotaGone(t, u, m)
    <3>1. CallsIn(t, m) \cap Of(t, u) = {} /\ FruitlessIn(t, m) \cap Of(t, u) = {}
      BY <2>2 DEF QuotaGone
    <3>2. Cardinality({}) = 0
      BY FS_EmptySet
    <3> QED
      BY <2>2, <3>1, <3>2 DEF QuotaGone, QuotaStands
  <2>3. CASE QuotaRecords(s, t, u, m)
    <3>1. CallsIn(t, m) \cap Of(t, u) = CallsIn(s, m) \cap Of(s, u)
      BY SMTT(40), SMTT(80), <1>1, <2>3 DEF QuotaRecords, SameOwned, CallsIn, Of
    <3> DEFINE old == FruitlessIn(s, m) \cap Of(s, u)
               closed == ClosedIn(s, t, m) \cap Of(s, u)
    <3>2. /\ FruitlessIn(t, m) \cap Of(t, u) = old \cup closed
          /\ old \cap closed = {} /\ old \subseteq Attempt /\ closed \subseteq Attempt
      BY <1>1, <2>3, ReportsAreAttempts DEF QuotaRecords, SameOwned, CallsIn, Of, FruitlessIn, ClosedIn, Fruitless, Settled
    <3>3. Cardinality(FruitlessIn(t, m) \cap Of(t, u)) = Cardinality(old) + Cardinality(closed)
      <4> HIDE DEF old, closed
      <4> QED
        BY <3>2, CountsAdd
    <3> QED
      BY <2>1, <2>3, <3>1, <3>3 DEF QuotaRecords, QuotaStands
  <2> QED
    BY <2>1, <2>2, <2>3
<1> QED
  BY <1>2, <1>3, <1>4 DEF Tallied

-----------------------------------------------------------------------------
(* The statements.                                                         *)

\* What the statements of quota.ts and budget.ts do to the tallies of a bucket.
LEMMA TallyFields ==
  ASSUME NEW b \in UserBucket, NEW g \in GlobalBucket, NEW n \in Nat, NEW c \in Nat
  PROVE  /\ ReserveUserQuota(b).unknown = b.unknown
         /\ ReleaseUserQuota(b, n).unknown = b.unknown
         /\ ConsumeUserQuota(b).unknown = b.unknown
         /\ RecordUnknownUserUsage(b, n).unknown = b.unknown + n
         /\ ReserveGlobalBudget(g, Cost).consumed = g.consumed
         /\ ReserveGlobalBudget(g, Cost).unknown = g.unknown
         /\ ReleaseGlobalBudget(g, n, Cost).consumed = g.consumed
         /\ ReleaseGlobalBudget(g, n, Cost).unknown = g.unknown
         /\ ConsumeGlobalBudget(g, Cost).consumed = g.consumed + 1
         /\ ConsumeGlobalBudget(g, Cost).unknown = g.unknown
         /\ SettleUnknownGlobalBudget(g, n).consumed = g.consumed
         /\ SettleUnknownGlobalBudget(g, n).unknown = g.unknown + n
         /\ SettleKnownGlobalBudget(g, Cost, c).consumed = g.consumed
         /\ SettleKnownGlobalBudget(g, Cost, c).unknown = g.unknown
BY DEF UserBucket, GlobalBucket, ReserveUserQuota, ReleaseUserQuota, ConsumeUserQuota,
       RecordUnknownUserUsage, ReserveGlobalBudget, ReleaseGlobalBudget, ConsumeGlobalBudget,
       SettleUnknownGlobalBudget, SettleKnownGlobalBudget

\* Accounting for ended reports records each call it closes, in the month of the call.
LEMMA AccountRecords ==
  ASSUME NEW s \in Store, MonthsMatch(s), Consistent(s),
         NEW S \in SUBSET Report, NEW outcome \in Fruitless
  PROVE  LET t == Account(s, S, outcome) IN
         /\ t.report = s.report
         /\ \A a \in Attempt : CallRecords(s.attempt[a], t.attempt[a])
         /\ \A m \in Month : BillRecords(s, t, m)
         /\ \A u \in User, m \in Month : QuotaRecords(s, t, u, m)
<1> DEFINE won == {r \in S : s.report[r].dispatched /\ s.attempt[r].status = "dispatched"}
           D == Undispatched(s, S)
           t == Account(s, S, outcome)
           usage == [u \in User |-> [m \in Month |->
             RecordUnknownUserUsage(
               ReleaseUserQuota(s.usage[u][m], Cardinality(D \cap Of(s, u) \cap In(s, m))),
               Cardinality(won \cap Of(s, u) \cap In(s, m)))]]
           global == [m \in Month |->
             SettleUnknownGlobalBudget(
               ReleaseGlobalBudget(s.global[m], Cardinality(D \cap In(s, m)), Cost),
               Cardinality(won \cap In(s, m)))]
<1>0. outcome \in Settled /\ outcome # "dispatched" /\ outcome \in Settled \ {"succeeded"}
  BY DEF Fruitless, Settled
<1>1. t.usage = usage /\ t.global = global
  BY DEF Account, Undispatched, Store
<1>2. /\ t.report = s.report
      /\ \A a \in Attempt :
           IF a \in S /\ s.report[a].dispatched /\ s.attempt[a].status = "dispatched"
           THEN t.attempt[a].status = outcome /\ t.attempt[a].cost = s.attempt[a].cost
           ELSE t.attempt[a] = s.attempt[a]
  BY <1>0, AccountEffect
<1>3. SamePrices(s, t) /\ \A a \in Attempt : AttemptEnds(s.attempt[a], t.attempt[a])
  BY <1>0, AccountEnds
<1>4. D \subseteq Attempt /\ won \subseteq Attempt
  BY ReportsAreAttempts DEF Undispatched
<1> HIDE DEF D, t
<1>5. \A a \in Attempt : CallRecords(s.attempt[a], t.attempt[a])
  BY <1>2, <1>3 DEF CallRecords
<1>6. ASSUME NEW m \in Month
      PROVE  won \cap In(s, m) = ClosedIn(s, t, m)
  <2>1. \A r \in Report : s.attempt[r].status = "dispatched" => s.attempt[r].month = s.report[r].month
    BY DEF MonthsMatch
  <2> QED
    BY <1>0, <1>2, <2>1, ReportsAreAttempts DEF ClosedIn, In
<1> HIDE DEF won
<1>7. ASSUME NEW m \in Month PROVE BillRecords(s, t, m)
  <2> DEFINE n == Cardinality(D \cap In(s, m))
             k == Cardinality(won \cap In(s, m))
             b == ReleaseGlobalBudget(s.global[m], n, Cost)
  <2>1. D \cap In(s, m) \subseteq Attempt /\ won \cap In(s, m) \subseteq Attempt
    BY <1>4
  <2>2. n \in Nat /\ k \in Nat
    BY <2>1, CountIsNat
  <2>3. s.global[m] \in GlobalBucket /\ t.global[m] = SettleUnknownGlobalBudget(b, k)
    BY <1>1 DEF Store
  <2>4. k = Cardinality(ClosedIn(s, t, m))
    BY <1>6
  <2>5. s.usage \in [User -> [Month -> UserBucket]] /\ EmptyUserBucket \in UserBucket /\ Cost \in Nat
    BY ConstantAssumption DEF Store, EmptyUserBucket, UserBucket
  <2> HIDE DEF n, k
  <2>6. /\ b \in GlobalBucket /\ b.consumed = s.global[m].consumed /\ b.unknown = s.global[m].unknown
    BY <2>2, <2>3, <2>5, GlobalBucketType, TallyFields
  <2> HIDE DEF b
  <2>7. t.global[m].consumed = b.consumed /\ t.global[m].unknown = b.unknown + k
    BY <2>2, <2>3, <2>5, <2>6, TallyFields
  <2> QED
    BY <1>3, <2>4, <2>6, <2>7 DEF BillRecords, SamePrices
<1>8. ASSUME NEW u \in User, NEW m \in Month PROVE QuotaRecords(s, t, u, m)
  <2> DEFINE n == Cardinality(D \cap Of(s, u) \cap In(s, m))
             k == Cardinality(won \cap Of(s, u) \cap In(s, m))
             b == ReleaseUserQuota(s.usage[u][m], n)
  <2>1. D \cap Of(s, u) \cap In(s, m) \subseteq Attempt /\ won \cap Of(s, u) \cap In(s, m) \subseteq Attempt
    BY <1>4
  <2>2. n \in Nat /\ k \in Nat
    BY <2>1, CountIsNat
  <2>3. s.usage[u][m] \in UserBucket /\ t.usage[u][m] = RecordUnknownUserUsage(b, k)
    BY <1>1 DEF Store
  <2>4. k = Cardinality(ClosedIn(s, t, m) \cap Of(s, u))
    <3>1. won \cap Of(s, u) \cap In(s, m) = ClosedIn(s, t, m) \cap Of(s, u)
      BY <1>6
    <3> QED
      BY <3>1
  <2>5. EmptyGlobalBucket \in GlobalBucket /\ Cost \in Nat
    BY ConstantAssumption DEF EmptyGlobalBucket, GlobalBucket
  <2> HIDE DEF n, k
  <2>6. b \in UserBucket /\ b.consumed = s.usage[u][m].consumed /\ b.unknown = s.usage[u][m].unknown
    BY ZenonT(60), ZenonT(90), <2>2, <2>3, <2>5, UserBucketType, UserBucketFields, TallyFields
  <2> HIDE DEF b
  <2>7. t.usage[u][m].consumed = b.consumed /\ t.usage[u][m].unknown = b.unknown + k
    BY <2>2, <2>3, <2>5, <2>6, UserBucketFields, TallyFields
  <2>8. SameOwned(s, t, u)
    BY <1>2 DEF SameOwned
  <2> QED
    BY <2>4, <2>6, <2>7, <2>8 DEF QuotaRecords
<1>9. /\ t.report = s.report
      /\ \A a \in Attempt : CallRecords(s.attempt[a], t.attempt[a])
      /\ \A m \in Month : BillRecords(s, t, m)
      /\ \A u \in User, m \in Month : QuotaRecords(s, t, u, m)
  BY <1>2, <1>5, <1>7, <1>8
<1> QED
  BY <1>9 DEF t

\* what the tallies are about is the same in both stores: calls, buckets and owners
SameCalls(s, t) ==
  \A a \in Attempt : /\ t.attempt[a].status = s.attempt[a].status
                     /\ t.attempt[a].month = s.attempt[a].month
                     /\ t.attempt[a].cost = s.attempt[a].cost

SameBill(s, t, m) ==
  /\ t.global[m].consumed = s.global[m].consumed
  /\ t.global[m].unknown = s.global[m].unknown
  /\ t.global[m].estimated = s.global[m].estimated

SameQuota(s, t, u, m) ==
  /\ t.usage[u][m].consumed = s.usage[u][m].consumed
  /\ t.usage[u][m].unknown = s.usage[u][m].unknown

SameTallies(s, t) ==
  /\ SameCalls(s, t)
  /\ \A m \in Month : SameBill(s, t, m)
  /\ \A u \in User, m \in Month : SameOwned(s, t, u) /\ SameQuota(s, t, u, m)

\* Nothing else than the tallies' subjects changes them.
LEMMA SameTalliesKeep ==
  ASSUME NEW s \in Store, NEW t \in Store, Tallied(s), SameTallies(s, t)
  PROVE  Tallied(t)
<1>1. Priced(t)
  BY DEF Tallied, Priced, SameTallies, SameCalls
<1>2. ASSUME NEW m \in Month PROVE BillStands(t, m)
  <2>1. SameBill(s, t, m) /\ BillStands(s, m)
    BY DEF Tallied, SameTallies
  <2>2. /\ CallsIn(t, m) = CallsIn(s, m) /\ UnknownIn(t, m) = UnknownIn(s, m)
        /\ CallsIn(s, m) \in SUBSET Attempt
        /\ \A a \in CallsIn(s, m) : t.attempt[a].cost = s.attempt[a].cost
    BY DEF SameTallies, SameCalls, CallsIn, UnknownIn
  <2>3. Billed(t, CallsIn(s, m)) = Billed(s, CallsIn(s, m))
    BY <2>2, BilledSame
  <2> QED
    BY <2>1, <2>2, <2>3 DEF SameBill, BillStands
<1>3. ASSUME NEW u \in User, NEW m \in Month PROVE QuotaStands(t, u, m)
  <2>1. SameQuota(s, t, u, m) /\ QuotaStands(s, u, m) /\ SameOwned(s, t, u)
    BY DEF Tallied, SameTallies
  <2>2. /\ CallsIn(t, m) \cap Of(t, u) = CallsIn(s, m) \cap Of(s, u)
        /\ FruitlessIn(t, m) \cap Of(t, u) = FruitlessIn(s, m) \cap Of(s, u)
    BY <2>1 DEF SameTallies, SameCalls, SameOwned, CallsIn, FruitlessIn, Of
  <2> QED
    BY <2>1, <2>2 DEF SameQuota, QuotaStands
<1> QED
  BY <1>1, <1>2, <1>3 DEF Tallied

\* A statement that accounts for reports and then edits the store beside the tallies,
\* or removes an owner's, keeps them.
LEMMA AccountingKeepsTallies ==
  ASSUME NEW s \in Store, MonthsMatch(s), Consistent(s), Tallied(s),
         NEW S \in SUBSET Report, NEW outcome \in Fruitless,
         NEW t \in Store, SameCalls(Account(s, S, outcome), t),
         \A m \in Month : SameBill(Account(s, S, outcome), t, m),
         \A u \in User : \/ /\ \A r \in Report : t.report[r].owner = u <=> s.report[r].owner = u
                            /\ \A m \in Month : SameQuota(Account(s, S, outcome), t, u, m)
                         \/ \A m \in Month : QuotaGone(t, u, m)
  PROVE  Tallied(t)
<1> DEFINE a == Account(s, S, outcome)
<1>1. /\ \A b \in Attempt : CallRecords(s.attempt[b], a.attempt[b])
      /\ \A m \in Month : BillRecords(s, a, m)
      /\ \A u \in User, m \in Month : QuotaRecords(s, a, u, m)
  BY AccountRecords
<1>2. SameCalls(a, t) /\ \A m \in Month : SameBill(a, t, m)
  OBVIOUS
<1>3. \A u \in User : \/ /\ \A r \in Report : t.report[r].owner = u <=> s.report[r].owner = u
                         /\ \A m \in Month : SameQuota(a, t, u, m)
                      \/ \A m \in Month : QuotaGone(t, u, m)
  OBVIOUS
<1> HIDE DEF a
<1>4. \A b \in Attempt : CallRecords(s.attempt[b], t.attempt[b])
  BY <1>1, <1>2 DEF SameCalls, CallRecords, AttemptEnds
<1>5. ASSUME NEW m \in Month PROVE ClosedIn(s, t, m) = ClosedIn(s, a, m)
  BY <1>2 DEF ClosedIn, SameCalls
<1>6. \A m \in Month : BillRecords(s, t, m)
  BY <1>1, <1>2, <1>5 DEF BillRecords, SameBill
<1>7. ASSUME NEW u \in User, NEW m \in Month PROVE QuotaRecords(s, t, u, m) \/ QuotaGone(t, u, m)
  <2>1. QuotaRecords(s, a, u, m)
    BY <1>1
  <2>2. \/ (\A r \in Report : t.report[r].owner = u <=> s.report[r].owner = u) /\ SameQuota(a, t, u, m)
        \/ QuotaGone(t, u, m)
    BY <1>3
  <2> QED
    BY <1>5, <2>1, <2>2 DEF QuotaRecords, SameQuota, SameOwned
<1> QED
  BY <1>4, <1>6, <1>7, RecordsKeepTallies DEF Records

\* A row that is rewritten keeps its owner.
LEMMA UnleasedOwner ==
  ASSUME NEW row \in Row, NEW status
  PROVE  Unleased(row, status).owner = row.owner
BY DEF Unleased, Row

\* Cancelling keeps the tallies.
LEMMA CancelPendingTallied ==
  ASSUME NEW s \in Store, MonthsMatch(s), Consistent(s), Tallied(s), NEW S \in SUBSET Active(s)
  PROVE  Tallied(CancelPending(s, S))
<1> DEFINE a == Account(s, S, "cancelled")
           t == CancelPending(s, S)
<1>0. "cancelled" \in Settled /\ "cancelled" \in Fruitless /\ S \in SUBSET Report
  BY DEF Settled, Fruitless, Active
<1>1. a \in Store /\ a.report = s.report /\ t \in Store
  BY <1>0, AccountType, AccountEffect, CancelPendingType
<1>2. /\ t.report = [r \in Report |-> IF r \in S THEN Unleased(s.report[r], "cancelled") ELSE s.report[r]]
      /\ t.attempt = a.attempt /\ t.global = a.global /\ t.usage = a.usage
  BY <1>1 DEF CancelPending, CancelRows, Store
<1> HIDE DEF t
<1>3. \A r \in Report : t.report[r].owner = s.report[r].owner
  BY <1>2, UnleasedOwner DEF Store
<1>4. /\ SameCalls(a, t) /\ \A m \in Month : SameBill(a, t, m)
      /\ \A u \in User, m \in Month : SameQuota(a, t, u, m)
  <2> HIDE DEF a
  <2> QED
    BY <1>2 DEF SameCalls, SameBill, SameQuota
<1>5. Tallied(t)
  BY <1>0, <1>1, <1>3, <1>4, AccountingKeepsTallies
<1> QED
  BY <1>5 DEF t

\* So does the recovery of lost leases.
LEMMA ExpireLeasesTallied ==
  ASSUME NEW s \in Store, MonthsMatch(s), Consistent(s), Tallied(s)
  PROVE  Tallied(ExpireLeases(s))
<1> DEFINE expired == {r \in Report : s.report[r].status = "running" /\ s.report[r].lease = "lapsed"
                                       /\ ~s.report[r].deleted}
           called == {r \in expired : s.report[r].dispatched}
           a == Account(s, called, "unknown")
           t == ExpireLeases(s)
<1>0. called \in SUBSET Report /\ "unknown" \in Settled /\ "unknown" \in Fruitless
  BY DEF Settled, Fruitless
<1>1. a \in Store /\ a.report = s.report /\ t \in Store
  BY ZenonT(60), ZenonT(90), <1>0, AccountType, AccountEffect, ExpireLeasesType
<1>2. /\ t.report = [r \in Report |->
             IF r \in expired
             THEN Unleased(s.report[r], IF r \in called THEN "failed" ELSE "queued")
             ELSE s.report[r]]
      /\ t.attempt = a.attempt /\ t.global = a.global /\ t.usage = a.usage
  BY <1>1 DEF ExpireLeases, Store
<1> HIDE DEF t, called, expired
<1>3. \A r \in Report : t.report[r].owner = s.report[r].owner
  BY <1>2, UnleasedOwner DEF Store
<1>4. /\ SameCalls(a, t) /\ \A m \in Month : SameBill(a, t, m)
      /\ \A u \in User, m \in Month : SameQuota(a, t, u, m)
  <2> HIDE DEF a
  <2> QED
    BY <1>2 DEF SameCalls, SameBill, SameQuota
<1>5. Tallied(t)
  BY <1>0, <1>1, <1>3, <1>4, AccountingKeepsTallies
<1> QED
  BY <1>5 DEF t

\* So does the trigger of a deleted source: what it rewrites of its owner's buckets is no tally.
LEMMA InvalidateSourceTallied ==
  ASSUME NEW s \in Store, MonthsMatch(s), Consistent(s), Tallied(s),
         NEW u \in User, NEW S \in SUBSET Report
  PROVE  Tallied(InvalidateSource(s, u, S))
<1> DEFINE live == {r \in S : s.report[r].status \in ActiveStatus}
           refunded == {r \in live : ~s.report[r].dispatched}
           a == Account(s, live, "unknown")
           t == InvalidateSource(s, u, S)
           report == [r \in Report |->
             IF r \in S
             THEN [(IF r \in live THEN Unleased(s.report[r], "cancelled") ELSE s.report[r])
                     EXCEPT !.invalidated = TRUE]
             ELSE s.report[r]]
           global == [m \in Month |->
             [a.global[m] EXCEPT !.reserved = AtLeastZero(@), !.reservedCost = AtLeastZero(@)]]
           quota == [m \in Month |->
             IF s.usage[u][m] # EmptyUserBucket THEN [a.usage[u][m] EXCEPT
                                !.reserved = AtLeastZero(s.usage[u][m].reserved - Cardinality(refunded)),
                                !.released = s.usage[u][m].released + Cardinality(refunded)]
                        ELSE a.usage[u][m]]
<1>0. live \in SUBSET Report /\ "unknown" \in Settled /\ "unknown" \in Fruitless
  BY DEF Settled, Fruitless
<1>1. a \in Store /\ a.report = s.report /\ t \in Store
  BY ZenonT(60), ZenonT(90), <1>0, AccountType, AccountEffect, InvalidateSourceType
<1>2. /\ t.report = report /\ t.attempt = a.attempt /\ t.global = global
      /\ t.usage = [a.usage EXCEPT ![u] = quota]
  BY <1>1 DEF InvalidateSource, Store
<1> HIDE DEF t
<1>3. ASSUME NEW r \in Report PROVE t.report[r].owner = s.report[r].owner
  <2> DEFINE row == IF r \in live THEN Unleased(s.report[r], "cancelled") ELSE s.report[r]
  <2>1. s.report[r] \in Row
    BY DEF Store
  <2>2. row \in Row /\ row.owner = s.report[r].owner
    BY ZenonT(60), ZenonT(90), <2>1, UnleasedType, UnleasedOwner DEF Status
  <2>3. r \in S => t.report[r] = [row EXCEPT !.invalidated = TRUE]
    BY ZenonT(60), ZenonT(90), <1>2
  <2>4. r \notin S => t.report[r] = s.report[r]
    BY <1>2
  <2> HIDE DEF row
  <2>5. [row EXCEPT !.invalidated = TRUE].owner = row.owner
    BY <2>2 DEF Row
  <2> QED
    BY ZenonT(60), ZenonT(90), <2>2, <2>3, <2>4, <2>5
<1>4. /\ SameCalls(a, t) /\ \A m \in Month : SameBill(a, t, m)
      /\ \A v \in User, m \in Month : SameQuota(a, t, v, m)
  <2>1. SameCalls(a, t)
    BY <1>2 DEF SameCalls
  <2>2. ASSUME NEW m \in Month PROVE SameBill(a, t, m)
    <3> HIDE DEF a
    <3>1. a.global[m] \in GlobalBucket /\ t.global[m] = global[m]
      BY <1>1, <1>2 DEF Store
    <3> QED
      BY <3>1 DEF GlobalBucket, SameBill
  <2>3. ASSUME NEW v \in User, NEW m \in Month PROVE SameQuota(a, t, v, m)
    <3> DEFINE x == AtLeastZero(s.usage[u][m].reserved - Cardinality(refunded))
               y == s.usage[u][m].released + Cardinality(refunded)
    <3> HIDE DEF a, x, y
    <3>1. a.usage[v][m] \in UserBucket /\ a.usage[u][m] \in UserBucket
      BY SMTT(40), SMTT(80), <1>1 DEF Store
    <3>2. v # u => t.usage[v][m] = a.usage[v][m]
      BY ZenonT(60), ZenonT(90), <1>1, <1>2 DEF Store
    <3>3. t.usage[u][m] = quota[m]
      BY <1>1, <1>2 DEF Store
    <3>4. quota[m] = a.usage[u][m] \/ quota[m] = [a.usage[u][m] EXCEPT !.reserved = x, !.released = y]
      BY DEF x, y
    <3> HIDE DEF quota
    <3>5. quota[m].consumed = a.usage[u][m].consumed /\ quota[m].unknown = a.usage[u][m].unknown
      BY <3>1, <3>4 DEF UserBucket
    <3> QED
      BY <3>2, <3>3, <3>5 DEF SameQuota
  <2> QED
    BY ZenonT(60), ZenonT(90), <2>1, <2>2, <2>3
<1> HIDE DEF report, global, quota, live
<1>5. Tallied(t)
  BY <1>0, <1>1, <1>3, <1>4, AccountingKeepsTallies
<1> QED
  BY <1>5 DEF t

\* A deleted account takes its calls out of the quotas with its buckets, and leaves them in the bill.
LEMMA PurgeAccountTallied ==
  ASSUME NEW s \in Store, MonthsMatch(s), Consistent(s), Tallied(s), NEW u \in User
  PROVE  Tallied(PurgeAccount(s, u))
<1> DEFINE ending == {r \in Of(s, u) : s.report[r].status \in ActiveStatus
                                        \/ s.attempt[r].status = "dispatched"}
           a == Account(s, ending, "unknown")
           t == PurgeAccount(s, u)
           global == [m \in Month |->
             [a.global[m] EXCEPT !.reserved = AtLeastZero(@), !.reservedCost = AtLeastZero(@)]]
<1>0. ending \in SUBSET Report /\ "unknown" \in Settled /\ "unknown" \in Fruitless
  BY DEF Settled, Fruitless, Of
<1>1. a \in Store /\ a.report = s.report /\ t \in Store
  BY <1>0, AccountType, AccountEffect, PurgeAccountType
<1>2. /\ t.report = [r \in Report |-> IF r \in Of(s, u) THEN NoRow("purged") ELSE s.report[r]]
      /\ t.attempt = a.attempt /\ t.global = global
      /\ t.usage = [a.usage EXCEPT ![u] = [m \in Month |-> EmptyUserBucket]]
  BY <1>1 DEF PurgeAccount, Store
<1> HIDE DEF t, ending
<1>3. SameCalls(a, t)
  BY <1>2 DEF SameCalls
<1>4. ASSUME NEW m \in Month PROVE SameBill(a, t, m)
  <2> HIDE DEF a
  <2>1. a.global[m] \in GlobalBucket /\ t.global[m] = global[m]
    BY <1>1, <1>2 DEF Store
  <2> QED
    BY <2>1 DEF GlobalBucket, SameBill
<1>5. NoRow("purged").owner = NoUser /\ NoUser \notin User
  BY ConstantAssumption DEF NoRow
<1>6. \A m \in Month : QuotaGone(t, u, m)
  <2> HIDE DEF a
  <2> SUFFICES ASSUME NEW m \in Month PROVE QuotaGone(t, u, m)
    OBVIOUS
  <2>1. Of(t, u) = {}
    BY ZenonT(60), ZenonT(90), <1>2, <1>5 DEF Of
  <2>2. t.usage[u][m] = EmptyUserBucket
    <3>1. a.usage \in [User -> [Month -> UserBucket]]
      BY <1>1 DEF Store
    <3>2. t.usage = [a.usage EXCEPT ![u] = [n \in Month |-> EmptyUserBucket]]
      BY <1>2
    <3>3. t.usage[u] = [n \in Month |-> EmptyUserBucket]
      BY <3>1, <3>2
    <3> QED
      BY <3>3
  <2> QED
    BY <2>1, <2>2 DEF QuotaGone, EmptyUserBucket
<1>7. ASSUME NEW v \in User, v # u
      PROVE  /\ \A r \in Report : t.report[r].owner = v <=> s.report[r].owner = v
             /\ \A m \in Month : SameQuota(a, t, v, m)
  <2> HIDE DEF a
  <2>1. \A r \in Report : t.report[r].owner = v <=> s.report[r].owner = v
    <3> SUFFICES ASSUME NEW r \in Report PROVE t.report[r].owner = v <=> s.report[r].owner = v
      OBVIOUS
    <3>1. t.report[r] = IF r \in Of(s, u) THEN NoRow("purged") ELSE s.report[r]
      BY <1>2
    <3>2. r \in Of(s, u) => s.report[r].owner = u
      BY DEF Of
    <3> QED
      BY <1>5, <1>7, <3>1, <3>2
  <2>2. \A m \in Month : SameQuota(a, t, v, m)
    BY <1>1, <1>2, <1>7 DEF Store, SameQuota
  <2> QED
    BY <2>1, <2>2
<1>8. \A v \in User : \/ /\ \A r \in Report : t.report[r].owner = v <=> s.report[r].owner = v
                         /\ \A m \in Month : SameQuota(a, t, v, m)
                      \/ \A m \in Month : QuotaGone(t, v, m)
  <2> HIDE DEF a
  <2> QED
    BY <1>6, <1>7
<1>9. Tallied(t)
  BY <1>0, <1>1, <1>3, <1>4, <1>8, AccountingKeepsTallies
<1> QED
  BY <1>9 DEF t

\* The reaper records each open call it closes.
LEMMA ReapTallied ==
  ASSUME NEW s \in Store, Tallied(s)
  PROVE  Tallied(Reap(s))
<1> DEFINE lapsed == {a \in Attempt : s.attempt[a].slot = "lapsed"}
           open == {a \in lapsed : s.attempt[a].status = "dispatched"}
           lost == {r \in Report \cap open : s.report[r].status = "running" /\ s.report[r].dispatched
                                              /\ ~s.report[r].deleted}
           attempt == [a \in Attempt |->
             IF a \in lapsed
             THEN [s.attempt[a] EXCEPT !.slot = "free", !.status = IF a \in open THEN "unknown" ELSE @]
             ELSE s.attempt[a]]
           OpenOf(u, m) == {r \in open \cap Of(s, u) : s.attempt[r].month = m}
           OpenIn(m) == {a \in open : s.attempt[a].month = m}
           t == Reap(s)
<1>1. t \in Store
  BY ReapType
<1>2. /\ t.attempt = attempt
      /\ t.report = [r \in Report |-> IF r \in lost THEN Unleased(s.report[r], "failed") ELSE s.report[r]]
      /\ t.usage = [u \in User |-> [m \in Month |->
                      RecordUnknownUserUsage(s.usage[u][m], Cardinality(OpenOf(u, m)))]]
      /\ t.global = [m \in Month |-> SettleUnknownGlobalBudget(s.global[m], Cardinality(OpenIn(m)))]
  BY DEF Reap, Store
<1> HIDE DEF t
<1>3. ASSUME NEW a \in Attempt
      PROVE  /\ AttemptEnds(s.attempt[a], t.attempt[a]) /\ t.attempt[a].cost = s.attempt[a].cost
             /\ t.attempt[a].status = IF a \in open THEN "unknown" ELSE s.attempt[a].status
  <2> DEFINE status == IF a \in open THEN "unknown" ELSE s.attempt[a].status
  <2>1. s.attempt[a] \in AttemptRow
    BY DEF Store
  <2>2. CASE a \in lapsed
    <3>1. t.attempt[a] = [s.attempt[a] EXCEPT !.slot = "free", !.status = status]
      BY <1>2, <2>2
    <3>2. /\ status # s.attempt[a].status => s.attempt[a].status = "dispatched"
          /\ status \in {s.attempt[a].status, "unknown"}
      OBVIOUS
    <3>4. status = IF a \in open THEN "unknown" ELSE s.attempt[a].status
      OBVIOUS
    <3> HIDE DEF status, open
    <3>3. /\ t.attempt[a].status = status /\ t.attempt[a].month = s.attempt[a].month
          /\ t.attempt[a].cost = s.attempt[a].cost
      BY <2>1, <3>1 DEF AttemptRow
    <3> QED
      BY <3>2, <3>3, <3>4 DEF AttemptEnds, Settled
  <2>3. CASE a \notin lapsed
    <3>1. a \notin open /\ t.attempt[a] = s.attempt[a]
      BY <1>2, <2>3
    <3> QED
      BY <3>1 DEF AttemptEnds
  <2> QED
    BY <2>2, <2>3
<1>4. open = {a \in Attempt : s.attempt[a].status = "dispatched" /\ t.attempt[a].status # "dispatched"}
  BY <1>3
<1> HIDE DEF attempt, open, lost, lapsed
<1>5. ASSUME NEW m \in Month
      PROVE  /\ OpenIn(m) = ClosedIn(s, t, m) /\ OpenIn(m) \subseteq Attempt
             /\ \A u \in User : OpenOf(u, m) = ClosedIn(s, t, m) \cap Of(s, u) /\ OpenOf(u, m) \subseteq Attempt
  BY <1>4 DEF ClosedIn
<1>6. \A m \in Month : /\ Cardinality(OpenIn(m)) \in Nat
                       /\ \A u \in User : Cardinality(OpenOf(u, m)) \in Nat
  BY <1>5, CountIsNat
<1>7. ASSUME NEW m \in Month PROVE BillRecords(s, t, m)
  <2> DEFINE n == Cardinality(OpenIn(m))
  <2>1. s.global[m] \in GlobalBucket /\ n \in Nat
    BY <1>6 DEF Store
  <2>2. t.global[m] = SettleUnknownGlobalBudget(s.global[m], n)
    BY <1>2
  <2>3. n = Cardinality(ClosedIn(s, t, m))
    BY <1>5
  <2>4. EmptyUserBucket \in UserBucket /\ 0 \in Nat
    BY DEF EmptyUserBucket, UserBucket
  <2> HIDE DEF n
  <2>5. /\ t.global[m].consumed = s.global[m].consumed /\ t.global[m].unknown = s.global[m].unknown + n
        /\ t.global[m].estimated = s.global[m].estimated
    BY <2>1, <2>2, <2>4, TallyFields, GlobalBucketFields
  <2> QED
    BY <2>3, <2>5 DEF BillRecords
<1>8. ASSUME NEW u \in User, NEW m \in Month PROVE QuotaRecords(s, t, u, m)
  <2> DEFINE n == Cardinality(OpenOf(u, m))
  <2>1. s.usage[u][m] \in UserBucket /\ n \in Nat
    BY <1>6 DEF Store
  <2>2. t.usage[u][m] = RecordUnknownUserUsage(s.usage[u][m], n)
    BY <1>2
  <2>3. n = Cardinality(ClosedIn(s, t, m) \cap Of(s, u))
    BY <1>5
  <2>4. EmptyGlobalBucket \in GlobalBucket /\ 0 \in Nat
    BY DEF EmptyGlobalBucket, GlobalBucket
  <2>5. SameOwned(s, t, u)
    BY <1>2, UnleasedOwner DEF SameOwned, Store
  <2> HIDE DEF n
  <2>6. t.usage[u][m].consumed = s.usage[u][m].consumed /\ t.usage[u][m].unknown = s.usage[u][m].unknown + n
    BY <2>1, <2>2, <2>4, TallyFields, UserBucketFields
  <2> QED
    BY <2>3, <2>5, <2>6 DEF QuotaRecords
<1>9. Records(s, t)
  BY <1>3, <1>7, <1>8 DEF Records, CallRecords
<1>10. Tallied(t)
  BY <1>1, <1>9, RecordsKeepTallies
<1> QED
  BY <1>10 DEF t

\* Writing a row that keeps its owner, or that nobody was called for, keeps the tallies;
\* the fields of the buckets that count reservations are no tallies.
LEMMA RowEditTallied ==
  ASSUME NEW s \in Store, NEW t \in Store, Tallied(s), NEW r \in Report, NEW row,
         t.report = [s.report EXCEPT ![r] = row],
         row.owner = s.report[r].owner \/ s.attempt[r].status = "none",
         t.attempt = s.attempt, \A m \in Month : SameBill(s, t, m),
         \A u \in User, m \in Month : SameQuota(s, t, u, m)
  PROVE  Tallied(t)
<1>1. \A q \in Report : t.report[q] = IF q = r THEN row ELSE s.report[q]
  BY DEF Store
<1>2. \A u \in User : SameOwned(s, t, u)
  BY <1>1 DEF SameOwned
<1>3. SameCalls(s, t)
  BY DEF SameCalls
<1> QED
  BY <1>2, <1>3, SameTalliesKeep DEF SameTallies

\* A slot is no part of the tallies.
LEMMA SlotEditTallied ==
  ASSUME NEW s \in Store, NEW t \in Store, Tallied(s), NEW a \in Attempt, NEW slot,
         t = [s EXCEPT !.attempt[a].slot = slot]
  PROVE  Tallied(t)
<1> DEFINE edited == [s.attempt[a] EXCEPT !.slot = slot]
<1>1. s.attempt[a] \in AttemptRow
  BY DEF Store
<1>2. edited.status = s.attempt[a].status /\ edited.month = s.attempt[a].month /\ edited.cost = s.attempt[a].cost
  BY <1>1 DEF AttemptRow
<1>3. t = [s EXCEPT !.attempt[a] = edited]
  BY DEF Store
<1> HIDE DEF edited
<1>4. /\ t.report = s.report /\ t.global = s.global /\ t.usage = s.usage
      /\ \A b \in Attempt : t.attempt[b] = IF b = a THEN edited ELSE s.attempt[b]
  BY <1>3 DEF Store
<1>5. SameTallies(s, t)
  BY <1>2, <1>4 DEF SameTallies, SameCalls, SameBill, SameQuota, SameOwned
<1> QED
  BY <1>5, SameTalliesKeep

\* One call more.
LEMMA OneMore ==
  ASSUME NEW S, S \subseteq Attempt, NEW i \in Attempt, i \notin S, NEW T, T = S \cup {i}
  PROVE  Cardinality(S) \in Nat /\ Cardinality(T) = Cardinality(S) + 1
BY Counts

\* A call that begins is billed at its bound and counted for its owner.
LEMMA CallBeginsTallied ==
  ASSUME NEW s \in Store, NEW t \in Store, Tallied(s), NEW i \in Attempt, NEW n \in Month,
         s.attempt[i].status = "none",
         t.attempt[i].status = "dispatched", t.attempt[i].month = n, t.attempt[i].cost = NoCost,
         \A j \in Attempt : j # i => t.attempt[j] = s.attempt[j],
         \A r \in Report : t.report[r].owner = s.report[r].owner,
         \A m \in Month : m # n => SameBill(s, t, m),
         t.global[n].consumed = s.global[n].consumed + 1, t.global[n].unknown = s.global[n].unknown,
         t.global[n].estimated = s.global[n].estimated + Cost,
         \A u \in User, m \in Month : m # n \/ i \notin Of(s, u) => SameQuota(s, t, u, m),
         \A u \in User : i \in Of(s, u) =>
            /\ t.usage[u][n].consumed = s.usage[u][n].consumed + 1
            /\ t.usage[u][n].unknown = s.usage[u][n].unknown
  PROVE  Tallied(t)
<1>1. Priced(t)
  BY DEF Tallied, Priced
<1>2. \A u \in User : Of(t, u) = Of(s, u)
  BY DEF Of
<1>3. ASSUME NEW m \in Month
      PROVE  /\ UnknownIn(t, m) = UnknownIn(s, m) /\ FruitlessIn(t, m) = FruitlessIn(s, m)
             /\ m # n => CallsIn(t, m) = CallsIn(s, m)
             /\ m = n => CallsIn(t, m) = CallsIn(s, m) \cup {i}
             /\ i \notin CallsIn(s, m) /\ CallsIn(s, m) \subseteq Attempt
  BY DEF CallsIn, UnknownIn, FruitlessIn, Fruitless, Settled
<1>4. ASSUME NEW m \in Month
      PROVE  Billed(t, CallsIn(s, m)) = Billed(s, CallsIn(s, m))
  <2>1. CallsIn(s, m) \in SUBSET Attempt /\ \A a \in CallsIn(s, m) : t.attempt[a].cost = s.attempt[a].cost
    BY <1>3
  <2> QED
    BY <2>1, BilledSame
<1>5. ASSUME NEW m \in Month PROVE BillStands(t, m)
  <2>1. BillStands(s, m)
    BY DEF Tallied
  <2>2. CASE m # n
    BY <1>3, <1>4, <2>1, <2>2 DEF BillStands, SameBill
  <2>3. CASE m = n
    <3>1. Cardinality(CallsIn(t, m)) = Cardinality(CallsIn(s, m)) + 1
      BY <1>3, <2>3, OneMore
    <3>2. Billed(t, CallsIn(s, m) \cup {i}) = Billed(t, CallsIn(s, m)) + PriceOf(t, i)
      BY <1>3, BilledMore
    <3>3. PriceOf(t, i) = Cost
      BY DEF PriceOf
    <3>4. Billed(t, CallsIn(t, m)) = Billed(s, CallsIn(s, m)) + Cost
      BY <1>3, <1>4, <2>3, <3>2, <3>3
    <3> QED
      BY <1>3, <2>1, <2>3, <3>1, <3>4 DEF BillStands
  <2> QED
    BY <2>2, <2>3
<1>6. ASSUME NEW u \in User, NEW m \in Month PROVE QuotaStands(t, u, m)
  <2>1. QuotaStands(s, u, m)
    BY DEF Tallied
  <2>2. CASE m # n \/ i \notin Of(s, u)
    <3>1. SameQuota(s, t, u, m)
      BY <2>2
    <3>2. CallsIn(t, m) \cap Of(t, u) = CallsIn(s, m) \cap Of(s, u)
      BY <1>2, <1>3, <2>2
    <3> QED
      BY <1>2, <1>3, <2>1, <3>1, <3>2 DEF QuotaStands, SameQuota
  <2>3. CASE m = n /\ i \in Of(s, u)
    <3> DEFINE old == CallsIn(s, m) \cap Of(s, u)
               new == CallsIn(t, m) \cap Of(t, u)
    <3>1. new = old \cup {i} /\ i \notin old /\ old \subseteq Attempt
      BY <1>2, <1>3, <2>3
    <3>2. Cardinality(new) = Cardinality(old) + 1
      <4> HIDE DEF new, old
      <4> QED
        BY <3>1, OneMore
    <3>3. t.usage[u][m].consumed = s.usage[u][m].consumed + 1 /\ t.usage[u][m].unknown = s.usage[u][m].unknown
      BY <2>3
    <3> QED
      BY ZenonT(60), ZenonT(90), <1>2, <1>3, <2>1, <3>2, <3>3 DEF QuotaStands
  <2> QED
    BY <2>2, <2>3
<1> QED
  BY <1>1, <1>5, <1>6 DEF Tallied

\* A call that is settled with a result, or a test's, is billed at its price, or at its
\* bound and counted unknown; the owner's quota knows the report already.
LEMMA CallSettlesTallied ==
  ASSUME NEW s \in Store, NEW t \in Store, Tallied(s), NEW i \in Attempt,
         s.attempt[i].status = "dispatched", t.attempt[i].status \in Settled,
         t.attempt[i].month = s.attempt[i].month,
         t.attempt[i].cost # NoCost => t.attempt[i].status = "succeeded",
         i \in Report => t.attempt[i].status = "succeeded",
         \A j \in Attempt : j # i => t.attempt[j] = s.attempt[j],
         \A r \in Report : t.report[r].owner = s.report[r].owner,
         \A m \in Month : m # s.attempt[i].month => SameBill(s, t, m),
         t.global[s.attempt[i].month].consumed = s.global[s.attempt[i].month].consumed,
         t.attempt[i].cost = NoCost =>
           /\ t.global[s.attempt[i].month].unknown = s.global[s.attempt[i].month].unknown + 1
           /\ t.global[s.attempt[i].month].estimated = s.global[s.attempt[i].month].estimated,
         t.attempt[i].cost # NoCost =>
           /\ t.global[s.attempt[i].month].unknown = s.global[s.attempt[i].month].unknown
           /\ t.global[s.attempt[i].month].estimated =
                s.global[s.attempt[i].month].estimated + (t.attempt[i].cost - Cost),
         \A u \in User, m \in Month : SameQuota(s, t, u, m)
  PROVE  Tallied(t)
<1> DEFINE n == s.attempt[i].month
           cost == t.attempt[i].cost
<1>0. s.attempt[i].cost = NoCost /\ cost \in ActualCosts \cup {NoCost} /\ n \in Month
  BY DEF Tallied, Priced, Store, AttemptRow
<1>1. Priced(t)
  BY DEF Tallied, Priced
<1>2. \A u \in User : Of(t, u) = Of(s, u)
  BY SMTT(40), SMTT(80) DEF Of
<1>3. ASSUME NEW m \in Month
      PROVE  /\ CallsIn(t, m) = CallsIn(s, m)
             /\ \A u \in User : FruitlessIn(t, m) \cap Of(t, u) = FruitlessIn(s, m) \cap Of(s, u)
             /\ m # n \/ cost # NoCost => UnknownIn(t, m) = UnknownIn(s, m)
             /\ m = n /\ cost = NoCost => UnknownIn(t, m) = UnknownIn(s, m) \cup {i}
             /\ i \notin UnknownIn(s, m) /\ UnknownIn(s, m) \subseteq Attempt
             /\ CallsIn(s, m) \subseteq Attempt
  <2>1. CallsIn(t, m) = CallsIn(s, m)
    BY SMTT(40), SMTT(80) DEF CallsIn, Settled
  <2>2. ASSUME NEW u \in User PROVE FruitlessIn(t, m) \cap Of(t, u) = FruitlessIn(s, m) \cap Of(s, u)
    <3>1. ASSUME NEW r \in Report
          PROVE  t.attempt[r].status \in Fruitless <=> s.attempt[r].status \in Fruitless
      <4>1. CASE r = i
        BY <4>1 DEF Fruitless, Settled
      <4>2. CASE r # i
        BY SMTT(40), SMTT(80), <4>2, ReportsAreAttempts
      <4> QED
        BY <4>1, <4>2
    <3>2. Of(s, u) \subseteq Report /\ Of(t, u) = Of(s, u)
      BY <1>2 DEF Of
    <3>3. /\ FruitlessIn(t, m) = {a \in CallsIn(s, m) : t.attempt[a].status \in Fruitless}
          /\ FruitlessIn(s, m) = {a \in CallsIn(s, m) : s.attempt[a].status \in Fruitless}
      BY SMTT(40), SMTT(80), <2>1 DEF FruitlessIn
    <3> QED
      BY <3>1, <3>2, <3>3
  <2>3. /\ m # n \/ cost # NoCost => UnknownIn(t, m) = UnknownIn(s, m)
        /\ m = n /\ cost = NoCost => UnknownIn(t, m) = UnknownIn(s, m) \cup {i}
        /\ i \notin UnknownIn(s, m)
    BY SMTT(40), SMTT(80), <1>0, <2>1 DEF UnknownIn, CallsIn, Settled
  <2> QED
    BY <2>1, <2>2, <2>3 DEF UnknownIn, CallsIn
<1>4. ASSUME NEW m \in Month, m # n \/ cost = NoCost
      PROVE  Billed(t, CallsIn(s, m)) = Billed(s, CallsIn(s, m))
  <2>1. CallsIn(s, m) \in SUBSET Attempt /\ \A a \in CallsIn(s, m) : t.attempt[a].cost = s.attempt[a].cost
    BY SMTT(40), SMTT(80), <1>0, <1>4 DEF CallsIn
  <2> QED
    BY SMTT(40), SMTT(80), <2>1, BilledSame
<1>5. ASSUME cost # NoCost
      PROVE  /\ Billed(t, CallsIn(s, n)) = Billed(s, CallsIn(s, n)) + (cost - Cost)
             /\ Billed(s, CallsIn(s, n)) \in Int
  <2> DEFINE rest == CallsIn(s, n) \ {i}
  <2>1. /\ rest \in SUBSET Attempt /\ i \notin rest /\ CallsIn(s, n) = rest \cup {i}
        /\ \A a \in rest : t.attempt[a].cost = s.attempt[a].cost
    BY SMTT(40), SMTT(80) DEF CallsIn
  <2>2. PriceOf(s, i) = Cost /\ PriceOf(t, i) = cost
    BY SMTT(40), SMTT(80), <1>0, <1>5 DEF PriceOf
  <2>3. cost \in Int /\ Cost \in Int
    <3>1. cost \in ActualCosts
      BY <1>0, <1>5
    <3>2. ActualCosts \subseteq Int /\ Cost \in Int
      BY ConstantAssumption
    <3> HIDE DEF cost
    <3> QED
      BY <3>1, <3>2
  <2> HIDE DEF rest, cost, n
  <2>4. Billed(t, rest) = Billed(s, rest)
    BY SMTT(40), SMTT(80), <2>1, BilledSame
  <2>5. /\ Billed(s, rest) \in Int /\ Billed(s, rest \cup {i}) = Billed(s, rest) + PriceOf(s, i)
        /\ Billed(t, rest \cup {i}) = Billed(t, rest) + PriceOf(t, i)
    BY SMTT(40), SMTT(80), <2>1, BilledMore
  <2>6. /\ Billed(s, CallsIn(s, n)) = Billed(s, rest) + Cost
        /\ Billed(t, CallsIn(s, n)) = Billed(s, rest) + cost
    BY SMTT(40), SMTT(80), <2>1, <2>2, <2>4, <2>5
  <2> QED
    BY SMTT(40), SMTT(80), <2>3, <2>5, <2>6
<1> HIDE DEF n, cost
<1>6. ASSUME NEW m \in Month PROVE BillStands(t, m)
  <2>1. BillStands(s, m)
    BY SMTT(40), SMTT(80) DEF Tallied
  <2>2. CASE m # n
    BY SMTT(40), SMTT(80), <1>3, <1>4, <2>1, <2>2 DEF BillStands, SameBill, n
  <2>3. CASE m = n /\ cost = NoCost
    <3>1. Cardinality(UnknownIn(t, m)) = Cardinality(UnknownIn(s, m)) + 1
      BY SMTT(40), SMTT(80), <1>3, <2>3, OneMore
    <3>2. /\ t.global[m].consumed = s.global[m].consumed
          /\ t.global[m].unknown = s.global[m].unknown + 1 /\ t.global[m].estimated = s.global[m].estimated
      BY <2>3 DEF n, cost
    <3> QED
      BY <1>3, <1>4, <2>1, <2>3, <3>1, <3>2 DEF BillStands
  <2>4. CASE m = n /\ cost # NoCost
    <3>1. /\ t.global[m].consumed = s.global[m].consumed
          /\ t.global[m].unknown = s.global[m].unknown /\ t.global[m].estimated = s.global[m].estimated + (cost - Cost)
      BY SMTT(40), SMTT(80), <2>4 DEF n, cost
    <3>2. Billed(t, CallsIn(t, m)) = Billed(s, CallsIn(s, m)) + (cost - Cost)
      BY SMTT(40), SMTT(80), <1>3, <1>5, <2>4
    <3> QED
      BY SMTT(40), SMTT(80), <1>3, <2>1, <2>4, <3>1, <3>2 DEF BillStands
  <2> QED
    BY SMTT(40), SMTT(80), <2>2, <2>3, <2>4
<1>7. ASSUME NEW u \in User, NEW m \in Month PROVE QuotaStands(t, u, m)
  <2>1. QuotaStands(s, u, m) /\ SameQuota(s, t, u, m)
    BY DEF Tallied
  <2> QED
    BY <1>2, <1>3, <2>1 DEF QuotaStands, SameQuota
<1> QED
  BY <1>1, <1>6, <1>7 DEF Tallied

-----------------------------------------------------------------------------
(* The actions.                                                            *)

\* what the tallies of a store rest on
Accounted(s) == Consistent(s) /\ MonthsMatch(s) /\ Tallied(s)

\* The reaper leaves a store whose tallies stand.
LEMMA ReapAccounted ==
  ASSUME NEW s \in Store, Accounted(s)
  PROVE  Reap(s) \in Store /\ Accounted(Reap(s))
<1>1. Reap(s) \in Store /\ Consistent(Reap(s)) /\ Ends(s, Reap(s)) /\ Tallied(Reap(s))
  BY ReapType, ReapContinues, ReapEnds, ReapTallied DEF Accounted, Continues
<1>2. MonthsMatch(Reap(s))
  BY <1>1, EndsStep DEF Accounted
<1> QED
  BY <1>1, <1>2 DEF Accounted

\* A deletion cancels the report, and marks it.
LEMMA DeleteReportTallied ==
  ASSUME TypeOK, db' \in Store, Accounted(db), NEW r \in Report, DeleteReport(r)
  PROVE  Tallied(db')
<1> DEFINE s == CancelPending(db, {r} \cap Active(db))
           row == [s.report[r] EXCEPT !.deleted = TRUE, !.invalidated = TRUE]
<1>1. s \in Store /\ Tallied(s)
  BY CancelPendingType, CancelPendingTallied DEF TypeOK, Accounted
<1>2. db' = [s EXCEPT !.report[r].deleted = TRUE, !.report[r].invalidated = TRUE]
  BY DEF DeleteReport, Commit, s
<1> HIDE DEF s
<1>3. s.report[r] \in Row
  BY <1>1 DEF Store
<1>4. row.owner = s.report[r].owner
  BY <1>3 DEF Row
<1>5. /\ db'.report = [s.report EXCEPT ![r] = row] /\ db'.attempt = s.attempt
      /\ db'.global = s.global /\ db'.usage = s.usage
  BY <1>1, <1>2 DEF Store
<1> HIDE DEF row
<1>6. (\A m \in Month : SameBill(s, db', m)) /\ \A u \in User, m \in Month : SameQuota(s, db', u, m)
  BY <1>5 DEF SameBill, SameQuota
<1> QED
  BY <1>1, <1>4, <1>5, <1>6, RowEditTallied

\* Writing one row of the store and nothing else.
LEMMA RowChangeTallied ==
  ASSUME db \in Store, db' \in Store, Tallied(db), NEW r \in Report, NEW row,
         row.owner = db.report[r].owner, db' = [db EXCEPT !.report[r] = row]
  PROVE  Tallied(db')
<1>1. /\ db'.report = [db.report EXCEPT ![r] = row] /\ db'.attempt = db.attempt
      /\ db'.global = db.global /\ db'.usage = db.usage
  BY DEF Store
<1>2. (\A m \in Month : SameBill(db, db', m)) /\ \A u \in User, m \in Month : SameQuota(db, db', u, m)
  BY <1>1 DEF SameBill, SameQuota
<1> QED
  BY <1>1, <1>2, RowEditTallied

\* A requeued report keeps its owner.
LEMMA RequeueTallied ==
  ASSUME TypeOK, db' \in Store, Tallied(db), NEW w \in Worker, Requeue(w)
  PROVE  Tallied(db')
<1> DEFINE r == worker[w].report
           row == Unleased(db.report[r], "queued")
<1>1. r \in Report /\ db \in Store /\ db.report[r] \in Row
  BY WorkersReport DEF Requeue, TypeOK, Store
<1>2. db' = db \/ db' = [db EXCEPT !.report[r] = Unleased(@, "queued")]
  BY DEF Requeue
<1> HIDE DEF r
<1>3. row.owner = db.report[r].owner
  BY <1>1, UnleasedOwner
<1>4. db' = db \/ db' = [db EXCEPT !.report[r] = row]
  BY <1>1, <1>2 DEF Store
<1> HIDE DEF row
<1> QED
  BY <1>1, <1>3, <1>4, RowChangeTallied

\* So does one whose lease is lost.
LEMMA LeaseLapseTallied ==
  ASSUME TypeOK, db' \in Store, Tallied(db), NEW r \in Report, LeaseLapse(r)
  PROVE  Tallied(db')
<1> DEFINE row == [db.report[r] EXCEPT !.lease = "lapsed"]
<1>1. db \in Store /\ db.report[r] \in Row
  BY DEF TypeOK, Store
<1>2. row.owner = db.report[r].owner
  BY <1>1 DEF Row
<1>3. db' = [db EXCEPT !.report[r] = row]
  BY <1>1 DEF LeaseLapse, Store
<1> HIDE DEF row
<1> QED
  BY <1>1, <1>2, <1>3, RowChangeTallied

\* A claim reaps, recovers and leases.
LEMMA ClaimTallied ==
  ASSUME TypeOK, db' \in Store, Accounted(db), NEW w \in Worker, Claim(w)
  PROVE  Tallied(db')
<1> DEFINE s1 == Reap(db)
           s == ExpireLeases(s1)
<1>1. s1 \in Store /\ Accounted(s1)
  BY SMTT(40), SMTT(80), ReapAccounted DEF TypeOK
<1>2. \/ db' = s
      \/ \E r \in Report :
           db' = [s EXCEPT !.report[r] = [@ EXCEPT !.status = "running", !.token = w, !.lease = "live"]]
  BY DEF Claim, Commit
<1> HIDE DEF s1
<1>3. s \in Store /\ Tallied(s)
  BY <1>1, ExpireLeasesType, ExpireLeasesTallied DEF Accounted
<1> HIDE DEF s
<1>4. ASSUME NEW r \in Report,
             db' = [s EXCEPT !.report[r] = [@ EXCEPT !.status = "running", !.token = w, !.lease = "live"]]
      PROVE  Tallied(db')
  <2> DEFINE row == [s.report[r] EXCEPT !.status = "running", !.token = w, !.lease = "live"]
  <2>1. s.report[r] \in Row
    BY <1>3 DEF Store
  <2>2. row.owner = s.report[r].owner
    BY <2>1 DEF Row
  <2>3. /\ db'.report = [s.report EXCEPT ![r] = row] /\ db'.attempt = s.attempt
        /\ db'.global = s.global /\ db'.usage = s.usage
    BY <1>3, <1>4 DEF Store
  <2> HIDE DEF row
  <2>4. (\A m \in Month : SameBill(s, db', m)) /\ \A u \in User, m \in Month : SameQuota(s, db', u, m)
    BY <2>3 DEF SameBill, SameQuota
  <2> QED
    BY <1>3, <2>2, <2>3, <2>4, RowEditTallied
<1> QED
  BY <1>2, <1>3, <1>4, Zenon

\* A failure records its call, if it made one, under whichever outcome the worker gives it.
LEMMA FailTallied ==
  ASSUME TypeOK, db' \in Store, Accounted(db), NEW w \in Worker, Fail(w)
  PROVE  Tallied(db')
<1> DEFINE r == worker[w].report
           a == Account(db, {r}, "failed")
           failed == Unleased(db.report[r], "failed")
           ended == [a EXCEPT !.report[r] = failed]
<1>1. r \in Report /\ r \in Attempt /\ {r} \in SUBSET Report
  BY WorkersReport DEF Fail
<1>2. a \in Store /\ a.report = db.report
  BY <1>1, AccountType, AccountEffect DEF TypeOK, Settled
<1>3. ended = [a EXCEPT !.report[r] = Unleased(@, "failed")]
  BY <1>1, <1>2 DEF Store
<1>4. \/ db' = db
      \/ db' = ended
      \/ /\ db.report[r].dispatched /\ db.attempt[r].status = "dispatched"
         /\ \E outcome \in {"failed", "unknown"} :
              db' = [ended EXCEPT !.attempt[r] = [@ EXCEPT !.status = outcome, !.slot = "free"]]
  <2> HIDE DEF failed, ended
  <2> QED
    BY <1>3 DEF Fail, Commit, Holds
<1>5. /\ db.report[r] \in Row /\ db.report \in [Report -> Row] /\ db \in Store
      /\ Consistent(db) /\ MonthsMatch(db) /\ Tallied(db)
  BY <1>1 DEF TypeOK, Store, Accounted
<1>6. failed.owner = db.report[r].owner
  BY <1>5, UnleasedOwner
<1>7. /\ ended.attempt = a.attempt /\ ended.global = a.global /\ ended.usage = a.usage
      /\ ended.report = [db.report EXCEPT ![r] = failed]
  BY <1>2 DEF Store
<1>8. {"failed", "unknown"} \subseteq Fruitless /\ {"failed", "unknown"} \subseteq Settled
  BY DEF Fruitless, Settled
<1> HIDE DEF r
<1>9. CASE db' = ended
  <2>1. \A q \in Report : db'.report[q].owner = db.report[q].owner
    BY <1>1, <1>5, <1>6, <1>7, <1>9
  <2>2. /\ SameCalls(a, db') /\ \A m \in Month : SameBill(a, db', m)
        /\ \A u \in User, m \in Month : SameQuota(a, db', u, m)
    <3> HIDE DEF a, failed
    <3> QED
      BY <1>7, <1>9 DEF SameCalls, SameBill, SameQuota
  <2> HIDE DEF ended, failed
  <2> QED
    BY <1>1, <1>5, <1>8, <2>1, <2>2, AccountingKeepsTallies
<1>10. ASSUME db.report[r].dispatched, db.attempt[r].status = "dispatched",
              NEW outcome \in {"failed", "unknown"},
              db' = [ended EXCEPT !.attempt[r] = [@ EXCEPT !.status = outcome, !.slot = "free"]]
       PROVE  Tallied(db')
  <2> DEFINE b == Account(db, {r}, outcome)
             attempt == [ended.attempt[r] EXCEPT !.status = outcome, !.slot = "free"]
  <2>0. outcome \in Fruitless /\ outcome \in Settled
    BY <1>8
  <2>1. /\ b \in Store /\ b.report = db.report
        /\ b.global = a.global /\ b.usage = a.usage
        /\ \A c \in Attempt : c # r => b.attempt[c] = a.attempt[c]
        /\ b.attempt[r].status = outcome
        /\ b.attempt[r].month = a.attempt[r].month /\ b.attempt[r].cost = a.attempt[r].cost
    <3>1. b \in Store /\ b.report = db.report
      BY <1>1, <1>5, <2>0, AccountType, AccountEffect
    <3>2. b.global = a.global /\ b.usage = a.usage
      BY <1>5 DEF Account, Store
    <3>3. /\ \A c \in Attempt :
               IF c \in {r} /\ db.report[c].dispatched /\ db.attempt[c].status = "dispatched"
               THEN b.attempt[c].status = outcome /\ b.attempt[c].cost = db.attempt[c].cost
               ELSE b.attempt[c] = db.attempt[c]
          /\ \A c \in Attempt :
               IF c \in {r} /\ db.report[c].dispatched /\ db.attempt[c].status = "dispatched"
               THEN a.attempt[c].status = "failed" /\ a.attempt[c].cost = db.attempt[c].cost
               ELSE a.attempt[c] = db.attempt[c]
      BY SMTT(40), SMTT(80), <1>1, <1>5, <2>0, AccountEffect DEF Settled
    <3>4. b.attempt[r].month = db.attempt[r].month /\ a.attempt[r].month = db.attempt[r].month
      <4>1. outcome \in Settled \ {"succeeded"} /\ "failed" \in Settled \ {"succeeded"}
        BY <2>0 DEF Fruitless, Settled
      <4>2. AttemptEnds(db.attempt[r], b.attempt[r]) /\ AttemptEnds(db.attempt[r], a.attempt[r])
        BY <1>1, <1>5, <4>1, AccountEnds
      <4> QED
        BY <4>2 DEF AttemptEnds
    <3> HIDE DEF a, b
    <3> QED
      BY <1>1, <1>10, <3>1, <3>2, <3>3, <3>4
  <2>2. ended.attempt[r] \in AttemptRow /\ ended.attempt \in [Attempt -> AttemptRow]
    <3> HIDE DEF a, failed, ended
    <3> QED
      BY <1>1, <1>2, <1>7 DEF Store
  <2>3. attempt.status = outcome /\ attempt.month = ended.attempt[r].month /\ attempt.cost = ended.attempt[r].cost
    <3> HIDE DEF a, failed, ended
    <3> QED
      BY <2>2 DEF AttemptRow
  <2> HIDE DEF a, b, failed
  <2>4. /\ db'.report = ended.report /\ db'.global = ended.global /\ db'.usage = ended.usage
        /\ db'.attempt = [ended.attempt EXCEPT ![r] = attempt]
    <3>1. ended \in [report : {ended.report}, attempt : {ended.attempt},
                     usage : {ended.usage}, global : {ended.global}]
      BY <1>2 DEF ended, Store
    <3> QED
      BY <1>10, <3>1
  <2> HIDE DEF attempt, ended
  <2>5. \A q \in Report : db'.report[q].owner = db.report[q].owner
    BY <1>1, <1>5, <1>6, <1>7, <2>4
  <2>6. SameCalls(b, db')
    BY <1>1, <1>7, <2>1, <2>2, <2>3, <2>4 DEF SameCalls
  <2>7. (\A m \in Month : SameBill(b, db', m)) /\ \A u \in User, m \in Month : SameQuota(b, db', u, m)
    BY <1>7, <2>1, <2>4 DEF SameBill, SameQuota
  <2> QED
    BY <1>1, <1>5, <2>0, <2>5, <2>6, <2>7, AccountingKeepsTallies DEF b
<1> HIDE DEF a, failed, ended
<1> QED
  BY ZenonT(60), ZenonT(90), <1>4, <1>5, <1>9, <1>10

\* A submission reserves, and nothing has been called for it.
LEMMA GenerateTallied ==
  ASSUME TypeOK, db' \in Store, Accounted(db), NEW u \in User, Generate(u)
  PROVE  Tallied(db')
<1>1. PICK r \in Report :
        /\ db.report[r].status = "absent"
        /\ db' = [db EXCEPT
            !.global[month] = ReserveGlobalBudget(@, Cost),
            !.usage[u][month] = ReserveUserQuota(@),
            !.report[r] = [NoRow("queued") EXCEPT !.owner = u, !.month = month,
                             !.provider = runtime.provider, !.prompt = runtime.prompt]]
  BY DEF Generate, Commit
<1> DEFINE g == ReserveGlobalBudget(db.global[month], Cost)
           b == ReserveUserQuota(db.usage[u][month])
           row == [NoRow("queued") EXCEPT !.owner = u, !.month = month,
                             !.provider = runtime.provider, !.prompt = runtime.prompt]
<1>2. /\ db \in Store /\ month \in Month /\ db.global[month] \in GlobalBucket
      /\ db.usage[u][month] \in UserBucket /\ 0 \in Nat
  BY DEF TypeOK, Store
<1>3. /\ db'.attempt = db.attempt
      /\ db'.report = [db.report EXCEPT ![r] = row]
      /\ db'.global = [db.global EXCEPT ![month] = g]
      /\ db'.usage = [db.usage EXCEPT ![u] = [db.usage[u] EXCEPT ![month] = b]]
  BY <1>1, <1>2 DEF Store
<1>4. /\ g.consumed = db.global[month].consumed /\ g.unknown = db.global[month].unknown
      /\ g.estimated = db.global[month].estimated
      /\ b.consumed = db.usage[u][month].consumed /\ b.unknown = db.usage[u][month].unknown
  BY <1>2, TallyFields, GlobalBucketFields, UserBucketFields
<1>5. db.attempt[r].status = "none" /\ Tallied(db)
  BY <1>1 DEF Accounted, Consistent, RowMatches
<1> HIDE DEF g, b, row
<1>6. \A m \in Month : SameBill(db, db', m)
  BY <1>2, <1>3, <1>4 DEF SameBill, Store
<1>7. \A v \in User, m \in Month : SameQuota(db, db', v, m)
  <2> SUFFICES ASSUME NEW v \in User, NEW m \in Month PROVE SameQuota(db, db', v, m)
    OBVIOUS
  <2>1. db.usage \in [User -> [Month -> UserBucket]]
    BY <1>2 DEF Store
  <2>2. db'.usage[v][m] = IF v = u /\ m = month THEN b ELSE db.usage[v][m]
    BY <1>3, <2>1
  <2> QED
    BY <1>4, <2>2 DEF SameQuota
<1> QED
  BY <1>2, <1>3, <1>5, <1>6, <1>7, RowEditTallied

\* An admission begins the call of a report, in the month of its reservation.
LEMMA AdmitTallied ==
  ASSUME TypeOK, db' \in Store, Accounted(db), NEW w \in Worker, Admit(w)
  PROVE  Tallied(db')
<1> DEFINE s == Reap(db)
           r == worker[w].report
           n == s.report[r].month
           v == s.report[r].owner
           Granted ==
             /\ Holds(s, w, r) /\ ~s.report[r].dispatched
             /\ db' = [s EXCEPT
                  !.report[r].dispatched = TRUE,
                  !.attempt[r] = NewAttempt(n),
                  !.global[n] = ConsumeGlobalBudget(@, Cost),
                  !.usage[v][n] = ConsumeUserQuota(@)]
<1>1. db \in Store /\ s \in Store /\ Accounted(s) /\ Tallied(db) /\ Tallied(s) /\ Consistent(s)
  BY ZenonT(60), ZenonT(90), ReapAccounted DEF TypeOK, Accounted
<1>2. r \in Report /\ r \in Attempt
  BY ZenonT(60), ZenonT(90), WorkersReport DEF Admit
<1>3. db' = s \/ db' = db \/ Granted
  BY DEF Admit, Commit
<1> HIDE DEF s, r
<1>4. ASSUME Granted PROVE Tallied(db')
  <2> DEFINE g == ConsumeGlobalBudget(s.global[n], Cost)
             b == ConsumeUserQuota(s.usage[v][n])
             attempt == NewAttempt(n)
             row == [s.report[r] EXCEPT !.dispatched = TRUE]
  <2>1. s.report[r] \in Row /\ n \in Month
    BY SMTT(40), SMTT(80), <1>1, <1>2 DEF Store, Row
  <2>2. s.report[r].status = "running" /\ ~s.report[r].dispatched /\ RowMatches(s.report[r], s.attempt[r])
    BY <1>1, <1>2, <1>4 DEF Holds, Consistent
  <2>3. v \in User /\ s.attempt[r].status = "none"
    BY <2>1, <2>2 DEF RowMatches, Row
  <2>4. s.global[n] \in GlobalBucket /\ s.usage[v][n] \in UserBucket /\ 0 \in Nat
    BY ZenonT(60), ZenonT(90), <1>1, <2>1, <2>3 DEF Store
  <2>5. /\ db'.attempt = [s.attempt EXCEPT ![r] = attempt]
        /\ db'.report = [s.report EXCEPT ![r] = row]
        /\ db'.global = [s.global EXCEPT ![n] = g]
        /\ db'.usage = [s.usage EXCEPT ![v] = [s.usage[v] EXCEPT ![n] = b]]
    BY ZenonT(60), ZenonT(90), <1>1, <1>4 DEF Store
  <2>6. /\ g.consumed = s.global[n].consumed + 1 /\ g.unknown = s.global[n].unknown
        /\ g.estimated = s.global[n].estimated + Cost
        /\ b.consumed = s.usage[v][n].consumed + 1 /\ b.unknown = s.usage[v][n].unknown
    <3> DEFINE G == s.global[n]  U == s.usage[v][n]
    <3>1. G \in GlobalBucket /\ U \in UserBucket /\ 0 \in Nat
      BY <2>4
    <3>2. g = ConsumeGlobalBudget(G, Cost) /\ b = ConsumeUserQuota(U)
      OBVIOUS
    <3> HIDE DEF g, b, G, U
    <3>3. /\ ConsumeGlobalBudget(G, Cost).consumed = G.consumed + 1
          /\ ConsumeGlobalBudget(G, Cost).unknown = G.unknown /\ ConsumeUserQuota(U).unknown = U.unknown
      BY <3>1, TallyFields
    <3>4. ConsumeGlobalBudget(G, Cost).estimated = G.estimated + Cost
      BY <3>1, GlobalBucketFields
    <3>5. ConsumeUserQuota(U).consumed = U.consumed + 1
      BY <3>1, UserBucketFields
    <3> QED
      BY <3>2, <3>3, <3>4, <3>5 DEF G, U
  <2>7. attempt.status = "dispatched" /\ attempt.month = n /\ attempt.cost = NoCost
    BY DEF NewAttempt
  <2>8. row.owner = s.report[r].owner
    BY <2>1 DEF Row
  <2> HIDE DEF g, b, attempt, row
  <2>9. \A q \in Report : db'.report[q].owner = s.report[q].owner
    BY <1>1, <1>2, <2>5, <2>8 DEF Store
  <2>10. \A u \in User : r \in Of(s, u) <=> u = v
    BY <1>2 DEF Of
  <2> HIDE DEF n, v
  <2>11. db'.attempt[r] = attempt /\ \A j \in Attempt : j # r => db'.attempt[j] = s.attempt[j]
    BY <1>1, <1>2, <2>5 DEF Store
  <2>12. db'.global[n] = g /\ \A m \in Month : m # n => SameBill(s, db', m)
    BY <1>1, <2>1, <2>5 DEF Store, SameBill
  <2>13. ASSUME NEW u \in User, NEW m \in Month
         PROVE  db'.usage[u][m] = IF u = v /\ m = n THEN b ELSE s.usage[u][m]
    <3>1. s.usage \in [User -> [Month -> UserBucket]]
      BY <1>1 DEF Store
    <3> QED
      BY <2>5, <3>1
  <2>14. \A u \in User, m \in Month : m # n \/ r \notin Of(s, u) => SameQuota(s, db', u, m)
    BY <2>10, <2>13 DEF SameQuota
  <2>15. \A u \in User : r \in Of(s, u) =>
            /\ db'.usage[u][n].consumed = s.usage[u][n].consumed + 1
            /\ db'.usage[u][n].unknown = s.usage[u][n].unknown
    BY SMTT(40), SMTT(80), <2>1, <2>6, <2>10, <2>13
  <2> QED
    BY <1>1, <1>2, <2>1, <2>3, <2>6, <2>7, <2>9, <2>11, <2>12, <2>14, <2>15, CallBeginsTallied
<1> QED
  BY <1>1, <1>3, <1>4

\* A provider test begins its call for nobody's quota.
LEMMA AdmitTestTallied ==
  ASSUME TypeOK, db' \in Store, Accounted(db), AdmitTest
  PROVE  Tallied(db')
<1> DEFINE s == Reap(db)
<1>1. db \in Store /\ s \in Store /\ Tallied(s) /\ month \in Month
  BY SMTT(40), SMTT(80), ReapAccounted DEF TypeOK, Accounted
<1>2. \/ db' = s
      \/ \E t \in Test :
        /\ s.attempt[t].status = "none"
        /\ db' = [s EXCEPT !.attempt[t] = NewAttempt(month),
                  !.global[month] = ConsumeGlobalBudget(ReserveGlobalBudget(@, Cost), Cost)]
  BY DEF AdmitTest, Commit
<1> HIDE DEF s
<1>3. ASSUME NEW t \in Test, s.attempt[t].status = "none",
             db' = [s EXCEPT !.attempt[t] = NewAttempt(month),
                  !.global[month] = ConsumeGlobalBudget(ReserveGlobalBudget(@, Cost), Cost)]
      PROVE  Tallied(db')
  <2> DEFINE reserved == ReserveGlobalBudget(s.global[month], Cost)
             g == ConsumeGlobalBudget(reserved, Cost)
             attempt == NewAttempt(month)
  <2>1. t \in Attempt /\ t \notin Report
    BY TestsAreNotReports, AttemptKinds
  <2>2. s.global[month] \in GlobalBucket /\ 0 \in Nat /\ EmptyUserBucket \in UserBucket
    BY <1>1 DEF Store, EmptyUserBucket, UserBucket
  <2>3. /\ db'.attempt = [s.attempt EXCEPT ![t] = attempt]
        /\ db'.report = s.report /\ db'.usage = s.usage
        /\ db'.global = [s.global EXCEPT ![month] = g]
    BY <1>1, <1>3 DEF Store
  <2>4. /\ reserved \in GlobalBucket
        /\ reserved.consumed = s.global[month].consumed /\ reserved.unknown = s.global[month].unknown
        /\ reserved.estimated = s.global[month].estimated
    BY <2>2, GlobalBucketType, GlobalBucketFields, TallyFields
  <2>5. attempt.status = "dispatched" /\ attempt.month = month /\ attempt.cost = NoCost
    BY DEF NewAttempt
  <2> HIDE DEF reserved, attempt
  <2>6. /\ g.consumed = reserved.consumed + 1 /\ g.unknown = reserved.unknown
        /\ g.estimated = reserved.estimated + Cost
    BY <2>2, <2>4, GlobalBucketFields, TallyFields
  <2> HIDE DEF g
  <2>7. db'.attempt[t] = attempt /\ \A j \in Attempt : j # t => db'.attempt[j] = s.attempt[j]
    BY <1>1, <2>1, <2>3 DEF Store
  <2>8. db'.global[month] = g /\ \A m \in Month : m # month => SameBill(s, db', m)
    BY <1>1, <2>3 DEF Store, SameBill
  <2>9. \A u \in User : t \notin Of(s, u) /\ \A m \in Month : SameQuota(s, db', u, m)
    BY <2>1, <2>3 DEF Of, SameQuota
  <2>10. /\ s.attempt[t].status = "none"
         /\ \A r \in Report : db'.report[r].owner = s.report[r].owner
    BY <1>3, <2>3
  <2>11. /\ db'.global[month].consumed = s.global[month].consumed + 1
         /\ db'.global[month].unknown = s.global[month].unknown
         /\ db'.global[month].estimated = s.global[month].estimated + Cost
    BY <2>4, <2>6, <2>8
  <2>12. /\ \A u \in User, m \in Month : m # month \/ t \notin Of(s, u) => SameQuota(s, db', u, m)
         /\ \A u \in User : t \in Of(s, u) =>
              /\ db'.usage[u][month].consumed = s.usage[u][month].consumed + 1
              /\ db'.usage[u][month].unknown = s.usage[u][month].unknown
    BY <2>9
  <2> QED
    BY <1>1, <2>1, <2>5, <2>7, <2>8, <2>10, <2>11, <2>12, CallBeginsTallied
<1> QED
  BY <1>1, <1>2, <1>3

\* What a settlement records in a bucket.
LEMMA SettledTallies ==
  ASSUME NEW b \in GlobalBucket, NEW c \in ActualCosts \cup {NoCost},
         NEW new, new = IF c = NoCost THEN SettleUnknownGlobalBudget(b, 1)
                                      ELSE SettleKnownGlobalBudget(b, Cost, c)
  PROVE  /\ new.consumed = b.consumed
         /\ c = NoCost => new.unknown = b.unknown + 1 /\ new.estimated = b.estimated
         /\ c # NoCost => new.unknown = b.unknown /\ new.estimated = b.estimated + (c - Cost)
<1>1. 1 \in Nat /\ 0 \in Nat /\ Cost \in Nat /\ EmptyUserBucket \in UserBucket
  BY ConstantAssumption DEF EmptyUserBucket, UserBucket
<1>2. CASE c = NoCost
  <2>1. new = SettleUnknownGlobalBudget(b, 1)
    BY <1>2
  <2> QED
    BY <1>1, <1>2, <2>1, GlobalBucketFields, TallyFields
<1>3. CASE c # NoCost
  <2>1. new = SettleKnownGlobalBudget(b, Cost, c)
    BY <1>3
  <2>2. c \in Nat
    BY SMTT(40), SMTT(80), <1>3, <1>1, ConstantAssumption
  <2> QED
    BY <1>1, <1>3, <2>1, <2>2, GlobalBucketFields, TallyFields
<1> QED
  BY <1>2, <1>3

\* A provider test is settled.
LEMMA SettleTestTallied ==
  ASSUME TypeOK, db' \in Store, Accounted(db), NEW t \in Test, SettleTest(t)
  PROVE  Tallied(db')
<1>1. PICK outcome \in {"succeeded", "unknown"}, cost \in ActualCosts \cup {NoCost} :
        /\ outcome = "unknown" => cost = NoCost
        /\ db' = [db EXCEPT
            !.attempt[t] = [@ EXCEPT !.status = outcome, !.slot = "free", !.cost = cost],
            !.global[db.attempt[t].month] =
              IF cost = NoCost THEN SettleUnknownGlobalBudget(@, 1)
                               ELSE SettleKnownGlobalBudget(@, Cost, cost)]
  BY ZenonT(60), ZenonT(90) DEF SettleTest, Commit
<1> DEFINE attempt == [db.attempt[t] EXCEPT !.status = outcome, !.slot = "free", !.cost = cost]
           n == db.attempt[t].month
           b == IF cost = NoCost THEN SettleUnknownGlobalBudget(db.global[n], 1)
                                 ELSE SettleKnownGlobalBudget(db.global[n], Cost, cost)
<1>2. db \in Store /\ t \in Attempt /\ t \notin Report /\ db.attempt[t] \in AttemptRow /\ Tallied(db)
  BY TestsAreNotReports DEF TypeOK, Store, Accounted
<1>3. n \in Month /\ db.global[n] \in GlobalBucket
  BY <1>2 DEF Store, AttemptRow
<1>4. attempt.status = outcome /\ attempt.month = n /\ attempt.cost = cost /\ outcome \in Settled
  BY ZenonT(60), ZenonT(90), <1>2 DEF AttemptRow, Settled
<1>5. /\ db'.attempt = [db.attempt EXCEPT ![t] = attempt]
      /\ db'.report = db.report /\ db'.usage = db.usage
      /\ db'.global = [db.global EXCEPT ![n] = b]
  BY <1>1, <1>2 DEF Store
<1>6. db.attempt[t].status = "dispatched" /\ (cost # NoCost => outcome = "succeeded")
  BY SMTT(40), SMTT(80), <1>1 DEF SettleTest
<1> HIDE DEF attempt
<1>7. /\ b.consumed = db.global[n].consumed
      /\ cost = NoCost => b.unknown = db.global[n].unknown + 1 /\ b.estimated = db.global[n].estimated
      /\ cost # NoCost => b.unknown = db.global[n].unknown /\ b.estimated = db.global[n].estimated + (cost - Cost)
  BY SMTT(40), SMTT(80), <1>3, SettledTallies
<1> HIDE DEF b
<1>8. db'.attempt[t] = attempt /\ \A j \in Attempt : j # t => db'.attempt[j] = db.attempt[j]
  BY <1>2, <1>5 DEF Store
<1>9. db'.global[n] = b /\ \A m \in Month : m # n => SameBill(db, db', m)
  BY <1>2, <1>3, <1>5 DEF Store, SameBill
<1>10. \A u \in User, m \in Month : SameQuota(db, db', u, m)
  BY <1>5 DEF SameQuota
<1>11. n = db.attempt[t].month
  BY ZenonT(60), ZenonT(90)
<1> QED
  BY ZenonT(60), ZenonT(90), <1>2, <1>4, <1>5, <1>6, <1>7, <1>8, <1>9, <1>10, <1>11, CallSettlesTallied

\* A result is published.
LEMMA CompleteTallied ==
  ASSUME TypeOK, db' \in Store, Accounted(db), NEW w \in Worker, Complete(w)
  PROVE  Tallied(db')
<1> DEFINE r == worker[w].report
           n == db.report[r].month
           completed == Unleased(db.report[r], "succeeded")
           Published(cost) == db' = [db EXCEPT
               !.attempt[r] = [@ EXCEPT !.status = "succeeded", !.slot = "free", !.cost = cost],
               !.report[r] = Unleased(@, "succeeded"),
               !.global[n] = IF cost = NoCost THEN SettleUnknownGlobalBudget(@, 1)
                                     ELSE SettleKnownGlobalBudget(@, Cost, cost)]
<1>1. r \in Report /\ r \in Attempt
  BY WorkersReport DEF Complete
<1>2. db \in Store /\ db.report[r] \in Row /\ db.attempt[r] \in AttemptRow /\ Tallied(db) /\ MonthsMatch(db)
  BY <1>1 DEF TypeOK, Store, Accounted
<1>3. n \in Month /\ db.global[n] \in GlobalBucket
  BY ZenonT(60), ZenonT(90), <1>2 DEF Row, Store
<1>4. \/ UNCHANGED db
      \/ db.attempt[r].status = "dispatched" /\ \E cost \in ActualCosts \cup {NoCost} : Published(cost)
  BY DEF Complete, Commit
<1> HIDE DEF r
<1>5. ASSUME db.attempt[r].status = "dispatched", NEW cost \in ActualCosts \cup {NoCost}, Published(cost)
      PROVE  Tallied(db')
  <2> DEFINE attempt == [db.attempt[r] EXCEPT !.status = "succeeded", !.slot = "free", !.cost = cost]
             b == IF cost = NoCost THEN SettleUnknownGlobalBudget(db.global[n], 1)
                  ELSE SettleKnownGlobalBudget(db.global[n], Cost, cost)
  <2>1. /\ attempt.status = "succeeded" /\ attempt.cost = cost /\ attempt.month = db.attempt[r].month
        /\ completed.owner = db.report[r].owner /\ attempt.status \in Settled
    BY SMTT(40), SMTT(80), <1>2, UnleasedOwner DEF AttemptRow, Settled
  <2>2. /\ db'.attempt = [db.attempt EXCEPT ![r] = attempt]
        /\ db'.report = [db.report EXCEPT ![r] = completed]
        /\ db'.global = [db.global EXCEPT ![n] = b]
        /\ db'.usage = db.usage
    BY <1>2, <1>5 DEF Store
  <2>3. db.attempt[r].month = n
    BY SMTT(40), SMTT(80), <1>1, <1>2, <1>5 DEF MonthsMatch
  <2> HIDE DEF attempt, completed
  <2>4. /\ b.consumed = db.global[n].consumed
        /\ cost = NoCost => b.unknown = db.global[n].unknown + 1 /\ b.estimated = db.global[n].estimated
        /\ cost # NoCost => b.unknown = db.global[n].unknown /\ b.estimated = db.global[n].estimated + (cost - Cost)
    BY SMTT(40), SMTT(80), <1>3, SettledTallies
  <2> HIDE DEF b, n
  <2>5. db'.attempt[r] = attempt /\ \A j \in Attempt : j # r => db'.attempt[j] = db.attempt[j]
    BY <1>1, <1>2, <2>2 DEF Store
  <2>6. db'.global[n] = b /\ \A m \in Month : m # n => SameBill(db, db', m)
    BY <1>2, <1>3, <2>2 DEF Store, SameBill
  <2>7. \A u \in User, m \in Month : SameQuota(db, db', u, m)
    BY <2>2 DEF SameQuota
  <2>8. \A q \in Report : db'.report[q].owner = db.report[q].owner
    BY <1>1, <1>2, <2>1, <2>2 DEF Store
  <2>9. db.attempt[r].status = "dispatched" /\ db \in Store /\ db' \in Store /\ Tallied(db)
    BY <1>2, <1>5
  <2> QED
    BY <1>1, <2>1, <2>3, <2>4, <2>5, <2>6, <2>7, <2>8, <2>9, CallSettlesTallied
<1> QED
  BY ZenonT(60), ZenonT(90), <1>2, <1>4, <1>5

\* Every step of the engine keeps the tallies.
LEMMA StepTallied ==
  ASSUME IInv, IInv', MonthsMatch(db), Tallied(db), [Next]_vars
  PROVE  Tallied(db')
<1>1. TypeOK /\ Consistent(db) /\ db \in Store /\ Accounted(db)
  BY DEF IInv, TypeOK, Accounted
<1>2. db' \in Store
  BY DEF IInv, TypeOK
<1>3. db' = db => Tallied(db')
  OBVIOUS
<1>4. \A S \in SUBSET Active(db) : db' = CancelPending(db, S) => Tallied(db')
  BY <1>1, CancelPendingTallied
<1>5. ASSUME NEW u \in User, OwnerRequest(u) PROVE Tallied(db')
  <2>1. CASE Generate(u)
    BY <1>1, <1>2, <2>1, GenerateTallied
  <2>2. CASE AcceptConsent(u)
    BY <1>3, <2>2 DEF AcceptConsent
  <2>3. CASE RevokeConsent(u)
    <3>1. db' = CancelPending(db, Active(db) \cap Of(db, u))
      BY <2>3 DEF RevokeConsent, Commit
    <3> QED
      BY <1>4, <3>1
  <2>4. CASE DeleteSource(u)
    <3>1. PICK S \in SUBSET Of(db, u) : db' = InvalidateSource(db, u, S)
      BY <2>4 DEF DeleteSource, Commit
    <3>2. S \subseteq Report
      BY DEF Of
    <3> QED
      BY <1>1, <3>1, <3>2, InvalidateSourceTallied
  <2> QED
    BY <1>5, <2>1, <2>2, <2>3, <2>4 DEF OwnerRequest
<1>6. ASSUME NEW r \in Report, OwnerReportRequest(r) PROVE Tallied(db')
  <2>1. CASE CancelReport(r)
    <3>1. r \in Active(db) /\ db' = CancelPending(db, {r})
      BY <2>1 DEF CancelReport, Commit
    <3> QED
      BY <1>4, <3>1
  <2>2. CASE DeleteReport(r)
    BY <1>1, <1>2, <2>2, DeleteReportTallied
  <2> QED
    BY <1>6, <2>1, <2>2 DEF OwnerReportRequest
<1>7. ASSUME AdminRequest PROVE Tallied(db')
  <2>1. ASSUME NEW u \in User, UpdateAccess(u) PROVE Tallied(db')
    <3>1. db' = db \/ db' = CancelPending(db, Active(db) \cap Of(db, u))
      BY <2>1 DEF UpdateAccess, Commit
    <3> QED
      BY <1>3, <1>4, <3>1
  <2>2. ASSUME NEW u \in User, DeleteAccount(u) PROVE Tallied(db')
    <3>1. db' = PurgeAccount(db, u)
      BY <2>2 DEF DeleteAccount, Commit
    <3> QED
      BY <1>1, <3>1, PurgeAccountTallied
  <2>3. CASE UpdateGenerationEnabled
    <3>1. db' = db \/ db' = CancelPending(db, Active(db))
      BY <2>3 DEF UpdateGenerationEnabled, Commit
    <3> QED
      BY <1>3, <1>4, <3>1
  <2>4. CASE PublishProvider
    <3>1. db' = CancelPending(db, {r \in Active(db) : db.report[r].provider = runtime.provider})
      BY <2>4 DEF PublishProvider, Commit
    <3> QED
      BY <1>4, <3>1
  <2>5. CASE PublishPrompt
    BY <1>3, <2>5 DEF PublishPrompt
  <2>6. CASE AdmitTest
    BY <1>1, <1>2, <2>6, AdmitTestTallied
  <2>7. ASSUME NEW t \in Test, SettleTest(t) PROVE Tallied(db')
    BY <1>1, <1>2, <2>7, SettleTestTallied
  <2> QED
    BY <1>7, <2>1, <2>2, <2>3, <2>4, <2>5, <2>6, <2>7 DEF AdminRequest
<1>8. ASSUME NEW w \in Worker, Claim(w) \/ Work(w) \/ Crash(w) PROVE Tallied(db')
  <2>1. CASE Claim(w)
    BY <1>1, <1>2, <2>1, ClaimTallied
  <2>2. CASE Precheck(w) \/ CallReturns(w) \/ Crash(w)
    BY <1>3, <2>2 DEF Precheck, CallReturns, Crash
  <2>3. CASE Admit(w)
    BY <1>1, <1>2, <2>3, AdmitTallied
  <2>4. CASE Requeue(w)
    BY <1>1, <1>2, <2>4, RequeueTallied
  <2>5. CASE Complete(w)
    BY <1>1, <1>2, <2>5, CompleteTallied
  <2>6. CASE Fail(w)
    BY <1>1, <1>2, <2>6, FailTallied
  <2>7. CASE ReleaseSlot(w)
    <3>1. worker[w].report \in Attempt
      BY <1>1, <2>7, WorkersReport DEF ReleaseSlot
    <3>2. db' = db \/ db' = [db EXCEPT !.attempt[worker[w].report].slot = "free"]
      BY <2>7 DEF ReleaseSlot
    <3> QED
      BY <1>1, <1>2, <1>3, <3>1, <3>2, SlotEditTallied, Zenon
  <2> QED
    BY <1>8, <2>1, <2>2, <2>3, <2>4, <2>5, <2>6, <2>7 DEF Work
<1>9. ASSUME Time PROVE Tallied(db')
  <2>1. ASSUME NEW r \in Report, LeaseLapse(r) PROVE Tallied(db')
    BY <1>1, <1>2, <2>1, LeaseLapseTallied
  <2>2. ASSUME NEW a \in Attempt, SlotLapse(a) PROVE Tallied(db')
    <3>1. db' = [db EXCEPT !.attempt[a].slot = "lapsed"]
      BY <2>2 DEF SlotLapse
    <3> QED
      BY <1>1, <1>2, <3>1, SlotEditTallied, Zenon
  <2>3. CASE NextMonth
    BY <1>3, <2>3 DEF NextMonth
  <2> QED
    BY <1>9, <2>1, <2>2, <2>3 DEF Time
<1>10. CASE UNCHANGED vars
  BY <1>3, <1>10 DEF vars
<1> QED
  BY <1>5, <1>6, <1>7, <1>8, <1>9, <1>10 DEF Next

\* Nothing has been called and nothing is counted at first.
LEMMA InitTallied == Init => Tallied(db)
<1> SUFFICES ASSUME Init PROVE Tallied(db)
  OBVIOUS
<1>1. \A a \in Attempt : db.attempt[a].status = "none" /\ db.attempt[a].cost = NoCost
  BY DEF Init, NoAttempt
<1>2. \A m \in Month : CallsIn(db, m) = {} /\ UnknownIn(db, m) = {} /\ FruitlessIn(db, m) = {}
  BY <1>1 DEF CallsIn, UnknownIn, FruitlessIn
<1>3. Cardinality({}) = 0 /\ Billed(db, {}) = 0
  <2>1. db \in Store
    BY InitInvariant DEF IInv, TypeOK
  <2> QED
    BY <2>1, FS_EmptySet, BilledNothing
<1>4. ASSUME NEW m \in Month PROVE BillStands(db, m)
  <2>1. db.global[m] = EmptyGlobalBucket
    BY DEF Init
  <2> QED
    BY <1>2, <1>3, <2>1 DEF BillStands, EmptyGlobalBucket
<1>5. ASSUME NEW u \in User, NEW m \in Month PROVE QuotaStands(db, u, m)
  <2>1. db.usage[u][m] = EmptyUserBucket
    BY DEF Init
  <2>2. CallsIn(db, m) \cap Of(db, u) = {} /\ FruitlessIn(db, m) \cap Of(db, u) = {}
    BY <1>2
  <2> QED
    BY <1>3, <2>1, <2>2 DEF QuotaStands, EmptyUserBucket
<1> QED
  BY <1>1, <1>4, <1>5 DEF Tallied, Priced

\* The tallies stand in every state.
LEMMA TallyInvariant == Spec => [](Tallied(db))
<1>1. Init => IInv /\ MonthsMatch(db) /\ Tallied(db)
  BY InitInvariant, InitMonths, InitTallied
<1>2. ASSUME IInv, MonthsMatch(db), Tallied(db), [Next]_vars
      PROVE  IInv' /\ MonthsMatch(db)' /\ Tallied(db)'
  <2>1. IInv'
    BY <1>2, InvariantStep
  <2>2. MonthsMatch(db')
    BY <1>2, StepAdvances DEF Advances
  <2>3. Tallied(db')
    BY <1>2, <2>1, StepTallied
  <2>4. (MonthsMatch(db') <=> MonthsMatch(db)') /\ (Tallied(db') <=> Tallied(db)')
    BY Zenon DEF MonthsMatch, Tallied, Priced, BillStands, Billed, QuotaStands, CallsIn, UnknownIn, FruitlessIn, Of,
             MapThenSumSet, MapThenFoldSet
  <2> QED
    BY <2>1, <2>2, <2>3, <2>4
<1> QED
  BY <1>1, <1>2, PTL DEF Spec

\* An owner's quota counts each of their dispatched reports once, in the month it was
\* reserved in, and each that ended without a result is recorded unknown once, whichever of
\* the cancellations, deadlines, lost leases, deleted sources and workers settled it.
THEOREM QuotasAreExact == Spec => []QuotaIsExact
<1>1. Tallied(db) => QuotaIsExact
  <2> SUFFICES ASSUME Tallied(db), NEW m \in Month, NEW u \in User
               PROVE  /\ db.usage[u][m].consumed = Cardinality(Calls(m) \cap Of(db, u))
                      /\ db.usage[u][m].unknown =
                           Cardinality({r \in Calls(m) \cap Of(db, u) :
                                          db.attempt[r].status \in {"failed", "unknown", "cancelled"}})
    BY DEF QuotaIsExact
  <2>1. QuotaStands(db, u, m)
    BY DEF Tallied
  <2>2. Calls(m) \cap Of(db, u) = CallsIn(db, m) \cap Of(db, u)
    BY DEF Calls, CallsIn
  <2>3. {r \in Calls(m) \cap Of(db, u) : db.attempt[r].status \in {"failed", "unknown", "cancelled"}}
          = FruitlessIn(db, m) \cap Of(db, u)
    BY DEF Calls, CallsIn, FruitlessIn, Fruitless, Settled
  <2> QED
    BY <2>1, <2>2, <2>3 DEF QuotaStands
<1> QED
  BY <1>1, TallyInvariant, PTL

\* The deployment's bill is exact: each call is consumed once in the month it was reserved
\* in, is billed at the price the provider gave or at the bound, never twice and never
\* rebated twice, and is counted unknown once when nobody knows what it cost.
THEOREM BillsAreExact == Spec => []BillIsExact
<1>1. Tallied(db) => BillIsExact
  <2> SUFFICES ASSUME Tallied(db) PROVE BillIsExact
    OBVIOUS
  <2>1. ASSUME NEW m \in Month
        PROVE  /\ db.global[m].consumed = Cardinality(Calls(m))
               /\ db.global[m].estimated =
                    MapThenSumSet(LAMBDA a : IF db.attempt[a].cost = NoCost THEN Cost ELSE db.attempt[a].cost, Calls(m))
               /\ db.global[m].unknown =
                    Cardinality({a \in Calls(m) : db.attempt[a].status \in Settled /\ db.attempt[a].cost = NoCost})
    <3>1. BillStands(db, m)
      BY DEF Tallied
    <3>2. /\ Calls(m) = CallsIn(db, m)
          /\ {a \in Calls(m) : db.attempt[a].status \in Settled /\ db.attempt[a].cost = NoCost} = UnknownIn(db, m)
      BY DEF Calls, CallsIn, UnknownIn
    <3>3. Billed(db, Calls(m)) = db.global[m].estimated
      BY <3>1, <3>2 DEF BillStands
    <3>4. db.global[m].consumed = Cardinality(Calls(m))
      BY <3>1, <3>2 DEF BillStands
    <3>5. db.global[m].unknown =
            Cardinality({a \in Calls(m) : db.attempt[a].status \in Settled /\ db.attempt[a].cost = NoCost})
      BY <3>1, <3>2 DEF BillStands
    <3> QED
      BY <3>3, <3>4, <3>5, Zenon DEF Billed
  <2> QED
    BY <2>1, Zenon DEF BillIsExact
<1> QED
  BY <1>1, TallyInvariant, PTL
=============================================================================
