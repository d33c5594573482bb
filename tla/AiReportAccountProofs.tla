------------------------ MODULE AiReportAccountProofs ------------------------
(***************************************************************************)
(* The counts of AiReportJobs: every reservation is owed to a job that     *)
(* waits (Backed), what is paid and promised stays within the limits       *)
(* (Limits), and no more calls than the capacity are in flight.            *)
(*                                                                         *)
(* Almost every statement gives back, or uses up, the reservations of some *)
(* jobs that stop waiting, and frees slots: Releases(s, t, D) says so, and *)
(* ReleasesKeep shows that such a step keeps the counts.  A submission and *)
(* the two admissions are the others.                                      *)
(*                                                                         *)
(* The last part is about the slots a step leaves held (Keeps).            *)
(***************************************************************************)
EXTENDS AiReportSafetyProofs

Waits(row) == row.status \in ActiveStatus /\ ~row.deleted /\ ~row.dispatched

Undispatched(s, S) == {r \in S : ~s.report[r].dispatched}

Owed(s, m) == {r \in Report : Waits(s.report[r]) /\ s.report[r].month = m}

Backed(s) ==
  \A m \in Month :
    /\ s.global[m].reserved = Cardinality(Owed(s, m))
    /\ s.global[m].reservedCost = Cost * Cardinality(Owed(s, m))
    /\ \A u \in User : s.usage[u][m].reserved = Cardinality(Owed(s, m) \cap Of(s, u))

Limits(s) ==
  \A m \in Month :
    /\ s.global[m].estimated + s.global[m].reservedCost <= Budget
    /\ \A u \in User : s.usage[u][m].reserved + s.usage[u][m].consumed <= Quota

Capacity(s) == Cardinality(Slots(s)) <= CallCapacity

Sound(s) == Backed(s) /\ Limits(s) /\ Capacity(s)

\* from s to t the reports D stop waiting, and no other starts to
RowsRelease(s, t, D) ==
  \A r \in Report :
    /\ r \in D => Waits(s.report[r]) /\ ~Waits(t.report[r])
    /\ r \notin D => Waits(t.report[r]) = Waits(s.report[r])
    /\ Waits(t.report[r]) =>
         t.report[r].month = s.report[r].month /\ t.report[r].owner = s.report[r].owner

GlobalReleases(s, t, D) ==
  \A m \in Month :
    LET old == s.global[m]
        new == t.global[m]
        n == Cardinality(D \cap In(s, m)) IN
    /\ new.reserved = old.reserved - n
    /\ new.reservedCost = old.reservedCost - n * Cost
    /\ \/ new.estimated + new.reservedCost <= old.estimated + old.reservedCost
       \/ new.estimated + new.reservedCost <= Budget

UsageReleased(old, new, n) ==
  /\ new.reserved = AtLeastZero(old.reserved - n)
  /\ new.reserved + new.consumed <= old.reserved + old.consumed

UsageReleases(s, t, D) ==
  \A u \in User, m \in Month :
    UsageReleased(s.usage[u][m], t.usage[u][m], Cardinality(D \cap Of(s, u) \cap In(s, m)))

Releases(s, t, D) ==
  /\ D \subseteq Report
  /\ RowsRelease(s, t, D) /\ GlobalReleases(s, t, D) /\ UsageReleases(s, t, D)
  /\ Slots(t) \subseteq Slots(s) \/ Capacity(t)

-----------------------------------------------------------------------------
(* Counting.                                                               *)

\* Sets of reports and of attempts are finite.
LEMMA CountedAreFinite ==
  ASSUME NEW S, S \subseteq Attempt
  PROVE  IsFiniteSet(S)
<1>1. IsFiniteSet(Attempt)
  BY FS_Interval, ConstantAssumption DEF Attempt
<1> QED
  BY <1>1, FS_Subset

\* Counts of a set of reports or attempts: taking a part away, adding one, being a part of.
LEMMA Counts ==
  ASSUME NEW S, S \subseteq Attempt
  PROVE  /\ Cardinality(S) \in Nat
         /\ \A D \in SUBSET S : Cardinality(S \ D) = Cardinality(S) - Cardinality(D)
         /\ \A D \in SUBSET S : Cardinality(D) \in Nat /\ Cardinality(D) <= Cardinality(S)
         /\ \A r \in Attempt \ S : Cardinality(S \cup {r}) = Cardinality(S) + 1
<1>1. IsFiniteSet(S)
  BY CountedAreFinite
<1>2. ASSUME NEW D \in SUBSET S
      PROVE  /\ Cardinality(D) \in Nat /\ Cardinality(D) <= Cardinality(S)
             /\ Cardinality(S \ D) = Cardinality(S) - Cardinality(D)
  <2>1. IsFiniteSet(D) /\ Cardinality(D) <= Cardinality(S)
    BY <1>1, FS_Subset
  <2>2. IsFiniteSet(S \ D)
    BY <1>1, FS_Subset
  <2>3. (S \ D) \cup D = S /\ (S \ D) \cap D = {}
    OBVIOUS
  <2>4. /\ Cardinality(D) \in Nat /\ Cardinality(S) \in Nat /\ Cardinality(S \ D) \in Nat
        /\ Cardinality({}) = 0
    BY <1>1, <2>1, <2>2, FS_CardinalityType, FS_EmptySet
  <2>5. Cardinality((S \ D) \cup D) = Cardinality(S \ D) + Cardinality(D) - Cardinality((S \ D) \cap D)
    BY <2>1, <2>2, FS_Union
  <2>6. Cardinality(S) = Cardinality(S \ D) + Cardinality(D) - Cardinality({})
    BY <2>3, <2>5, Zenon
  <2> QED
    BY <2>1, <2>4, <2>6
<1>3. ASSUME NEW r \in Attempt \ S
      PROVE  Cardinality(S \cup {r}) = Cardinality(S) + 1
  BY <1>1, FS_AddElement
<1> QED
  BY <1>1, <1>2, <1>3, FS_CardinalityType

\* Nothing counts as nothing.
LEMMA NoCount == \A S : Cardinality({} \cap S) = 0
<1>1. Cardinality({}) = 0
  BY FS_EmptySet
<1>2. ASSUME NEW S PROVE {} \cap S = {}
  OBVIOUS
<1> QED
  BY <1>1, <1>2

\* Each reservation has its price.
LEMMA Prices ==
  ASSUME NEW a \in Int, NEW b \in Int
  PROVE  /\ a * Cost \in Int /\ Cost * a \in Int
         /\ Cost * (a - b) = Cost * a - b * Cost
         /\ Cost * (a + 1) = Cost * a + Cost
         /\ a >= 0 => Cost * a >= 0
<1>1. Cost \in Nat
  BY ConstantAssumption
<1> QED
  BY <1>1

\* Releasing keeps the counts.
LEMMA ReleasesKeep ==
  ASSUME NEW s \in Store, NEW t \in Store, NEW D, Sound(s), Releases(s, t, D)
  PROVE  Sound(t)
<1>0. Report \subseteq Attempt /\ D \subseteq Report
  BY ReportsAreAttempts DEF Releases
<1>1. ASSUME NEW m \in Month
      PROVE  /\ Owed(t, m) = Owed(s, m) \ (D \cap In(s, m))
             /\ D \cap In(s, m) \subseteq Owed(s, m)
             /\ Owed(s, m) \subseteq Attempt
             /\ \A u \in User :
                  /\ Owed(t, m) \cap Of(t, u) = (Owed(s, m) \cap Of(s, u)) \ (D \cap Of(s, u) \cap In(s, m))
                  /\ D \cap Of(s, u) \cap In(s, m) \subseteq Owed(s, m) \cap Of(s, u)
  BY <1>0 DEF Releases, RowsRelease, Owed, In, Of
<1>2. ASSUME NEW m \in Month
      PROVE  /\ t.global[m].reserved = Cardinality(Owed(t, m))
             /\ t.global[m].reservedCost = Cost * Cardinality(Owed(t, m))
             /\ t.global[m].estimated + t.global[m].reservedCost <= Budget
  <2> DEFINE a == Cardinality(Owed(s, m))
             b == Cardinality(D \cap In(s, m))
  <2>1. a \in Nat /\ b \in Nat /\ b <= a /\ Cardinality(Owed(t, m)) = a - b
    BY <1>1, Counts
  <2>2. s.global[m].reserved = a /\ s.global[m].reservedCost = Cost * a
    BY DEF Sound, Backed
  <2>3. /\ t.global[m].reserved = s.global[m].reserved - b
        /\ t.global[m].reservedCost = s.global[m].reservedCost - b * Cost
        /\ \/ t.global[m].estimated + t.global[m].reservedCost
                <= s.global[m].estimated + s.global[m].reservedCost
           \/ t.global[m].estimated + t.global[m].reservedCost <= Budget
    BY DEF Releases, GlobalReleases
  <2>4. s.global[m].estimated + s.global[m].reservedCost <= Budget
    BY DEF Sound, Limits
  <2>5. /\ s.global[m].estimated \in Int /\ s.global[m].reservedCost \in Int
        /\ t.global[m].estimated \in Int /\ t.global[m].reservedCost \in Int /\ Budget \in Int
    BY ConstantAssumption DEF Store, GlobalBucket
  <2> HIDE DEF a, b
  <2>6. Cost * (a - b) = Cost * a - b * Cost
    BY <2>1, Prices
  <2>7. t.global[m].estimated + t.global[m].reservedCost <= Budget
    BY <2>3, <2>4, <2>5
  <2> QED
    BY <2>1, <2>2, <2>3, <2>6, <2>7
<1>3. ASSUME NEW m \in Month, NEW u \in User
      PROVE  /\ t.usage[u][m].reserved = Cardinality(Owed(t, m) \cap Of(t, u))
             /\ t.usage[u][m].reserved + t.usage[u][m].consumed <= Quota
  <2> DEFINE a == Cardinality(Owed(s, m) \cap Of(s, u))
             b == Cardinality(D \cap Of(s, u) \cap In(s, m))
  <2>0. Owed(s, m) \cap Of(s, u) \subseteq Attempt
    BY <1>1
  <2>1. a \in Nat /\ b \in Nat /\ b <= a /\ Cardinality(Owed(t, m) \cap Of(t, u)) = a - b
    BY <2>0, <1>1, Counts
  <2>2. s.usage[u][m].reserved = a
    BY DEF Sound, Backed
  <2>3. /\ t.usage[u][m].reserved = AtLeastZero(s.usage[u][m].reserved - b)
        /\ t.usage[u][m].reserved + t.usage[u][m].consumed
             <= s.usage[u][m].reserved + s.usage[u][m].consumed
    BY DEF Releases, UsageReleases, UsageReleased
  <2>4. s.usage[u][m].reserved + s.usage[u][m].consumed <= Quota
    BY DEF Sound, Limits
  <2>5. /\ s.usage[u][m].reserved \in Int /\ s.usage[u][m].consumed \in Int
        /\ t.usage[u][m].reserved \in Int /\ t.usage[u][m].consumed \in Int /\ Quota \in Int
    BY ConstantAssumption DEF Store, UserBucket
  <2> HIDE DEF a, b
  <2>6. t.usage[u][m].reserved + t.usage[u][m].consumed <= Quota
    BY <2>3, <2>4, <2>5
  <2> QED
    BY <2>1, <2>2, <2>3, <2>6 DEF AtLeastZero
<1>4. Capacity(t)
  <2>1. CASE Capacity(t)
    BY <2>1
  <2>2. CASE Slots(t) \subseteq Slots(s)
    <3>1. Slots(s) \subseteq Attempt
      BY DEF Slots
    <3>2. /\ Cardinality(Slots(s)) \in Nat /\ Cardinality(Slots(t)) \in Nat
          /\ Cardinality(Slots(t)) <= Cardinality(Slots(s))
      BY <2>2, <3>1, Counts
    <3>3. Cardinality(Slots(s)) <= CallCapacity /\ CallCapacity \in Nat
      BY DEF Sound, Capacity, CallCapacity
    <3> QED
      BY <3>2, <3>3 DEF Capacity
  <2> QED
    BY <2>1, <2>2 DEF Releases
<1>5. Backed(t)
  BY <1>2, <1>3 DEF Backed
<1>6. Limits(t)
  BY <1>2, <1>3 DEF Limits
<1> QED
  BY <1>4, <1>5, <1>6 DEF Sound

-----------------------------------------------------------------------------
(* What the statements of quota.ts and budget.ts do to the fields that count. *)

\* An owner's bucket: reserved and consumed.
LEMMA UserBucketFields ==
  ASSUME NEW b \in UserBucket, NEW n \in Nat
  PROVE  /\ ReserveUserQuota(b).reserved = b.reserved + 1
         /\ ReserveUserQuota(b).consumed = b.consumed
         /\ ReleaseUserQuota(b, n).reserved = AtLeastZero(b.reserved - n)
         /\ ReleaseUserQuota(b, n).consumed = b.consumed
         /\ ConsumeUserQuota(b).reserved = AtLeastZero(b.reserved - 1)
         /\ ConsumeUserQuota(b).consumed = b.consumed + 1
         /\ RecordUnknownUserUsage(b, n).reserved = b.reserved
         /\ RecordUnknownUserUsage(b, n).consumed = b.consumed
BY DEF UserBucket, ReserveUserQuota, ReleaseUserQuota, ConsumeUserQuota, RecordUnknownUserUsage

\* The deployment's bucket: reserved, its cost and the estimated spending.
LEMMA GlobalBucketFields ==
  ASSUME NEW b \in GlobalBucket, NEW n \in Nat, NEW c \in Nat
  PROVE  /\ ReserveGlobalBudget(b, Cost).reserved = b.reserved + 1
         /\ ReserveGlobalBudget(b, Cost).reservedCost = b.reservedCost + Cost
         /\ ReserveGlobalBudget(b, Cost).estimated = b.estimated
         /\ ReleaseGlobalBudget(b, n, Cost).reserved = b.reserved - n
         /\ ReleaseGlobalBudget(b, n, Cost).reservedCost = b.reservedCost - n * Cost
         /\ ReleaseGlobalBudget(b, n, Cost).estimated = b.estimated
         /\ ConsumeGlobalBudget(b, Cost).reserved = b.reserved - 1
         /\ ConsumeGlobalBudget(b, Cost).reservedCost = b.reservedCost - Cost
         /\ ConsumeGlobalBudget(b, Cost).estimated = b.estimated + Cost
         /\ SettleUnknownGlobalBudget(b, n).reserved = b.reserved
         /\ SettleUnknownGlobalBudget(b, n).reservedCost = b.reservedCost
         /\ SettleUnknownGlobalBudget(b, n).estimated = b.estimated
         /\ SettleKnownGlobalBudget(b, Cost, c).reserved = b.reserved
         /\ SettleKnownGlobalBudget(b, Cost, c).reservedCost = b.reservedCost
         /\ SettleKnownGlobalBudget(b, Cost, c).estimated = b.estimated + (c - Cost)
BY DEF GlobalBucket, ReserveGlobalBudget, ReleaseGlobalBudget, ConsumeGlobalBudget,
       SettleUnknownGlobalBudget, SettleKnownGlobalBudget

\* Accounting gives the reservations of the undispatched reports back, and frees no slot.
LEMMA AccountBuckets ==
  ASSUME NEW s \in Store, NEW S \in SUBSET Report, NEW outcome \in Settled
  PROVE  LET t == Account(s, S, outcome)
             D == Undispatched(s, S) IN
         /\ \A m \in Month :
              /\ t.global[m].reserved = s.global[m].reserved - Cardinality(D \cap In(s, m))
              /\ t.global[m].reservedCost = s.global[m].reservedCost - Cardinality(D \cap In(s, m)) * Cost
              /\ t.global[m].estimated = s.global[m].estimated
         /\ \A u \in User, m \in Month :
              /\ t.usage[u][m].reserved =
                   AtLeastZero(s.usage[u][m].reserved - Cardinality(D \cap Of(s, u) \cap In(s, m)))
              /\ t.usage[u][m].consumed = s.usage[u][m].consumed
         /\ \A a \in Attempt : t.attempt[a].slot = s.attempt[a].slot
<1> DEFINE won == {r \in S : s.report[r].dispatched /\ s.attempt[r].status = "dispatched"}
           D == Undispatched(s, S)
           t == Account(s, S, outcome)
           attempt == [a \in Attempt |->
             IF a \in won THEN [s.attempt[a] EXCEPT !.status = outcome] ELSE s.attempt[a]]
           usage == [u \in User |-> [m \in Month |->
             RecordUnknownUserUsage(
               ReleaseUserQuota(s.usage[u][m], Cardinality(D \cap Of(s, u) \cap In(s, m))),
               Cardinality(won \cap Of(s, u) \cap In(s, m)))]]
           global == [m \in Month |->
             SettleUnknownGlobalBudget(
               ReleaseGlobalBudget(s.global[m], Cardinality(D \cap In(s, m)), Cost),
               Cardinality(won \cap In(s, m)))]
<1>1. t = [s EXCEPT !.attempt = attempt, !.usage = usage, !.global = global]
  BY DEF Account, Undispatched
<1> HIDE DEF t
<1>2. D \subseteq Attempt /\ won \subseteq Attempt
  BY ReportsAreAttempts DEF Undispatched
<1> HIDE DEF D
<1>3. ASSUME NEW m \in Month
      PROVE  /\ global[m].reserved = s.global[m].reserved - Cardinality(D \cap In(s, m))
             /\ global[m].reservedCost = s.global[m].reservedCost - Cardinality(D \cap In(s, m)) * Cost
             /\ global[m].estimated = s.global[m].estimated
  <2> DEFINE n == Cardinality(D \cap In(s, m))
             k == Cardinality(won \cap In(s, m))
             b == ReleaseGlobalBudget(s.global[m], n, Cost)
  <2>1. n \in Nat /\ k \in Nat
    BY <1>2, CountIsNat
  <2>2. s.global[m] \in GlobalBucket
    BY DEF Store
  <2>3. global[m] = SettleUnknownGlobalBudget(b, k)
    OBVIOUS
  <2> HIDE DEF n, k, global
  <2>4. /\ b \in GlobalBucket /\ b.reserved = s.global[m].reserved - n
        /\ b.reservedCost = s.global[m].reservedCost - n * Cost /\ b.estimated = s.global[m].estimated
    BY <2>1, <2>2, GlobalBucketType, GlobalBucketFields
  <2> HIDE DEF b
  <2>5. /\ global[m].reserved = b.reserved /\ global[m].reservedCost = b.reservedCost
        /\ global[m].estimated = b.estimated
    BY <2>1, <2>3, <2>4, GlobalBucketFields
  <2> QED
    BY <2>4, <2>5 DEF n
<1>4. ASSUME NEW u \in User, NEW m \in Month
      PROVE  /\ usage[u][m].reserved =
                  AtLeastZero(s.usage[u][m].reserved - Cardinality(D \cap Of(s, u) \cap In(s, m)))
             /\ usage[u][m].consumed = s.usage[u][m].consumed
  <2> DEFINE n == Cardinality(D \cap Of(s, u) \cap In(s, m))
             k == Cardinality(won \cap Of(s, u) \cap In(s, m))
             b == ReleaseUserQuota(s.usage[u][m], n)
  <2>1. n \in Nat /\ k \in Nat
    BY <1>2, CountIsNat
  <2>2. s.usage[u][m] \in UserBucket
    BY DEF Store
  <2>3. usage[u][m] = RecordUnknownUserUsage(b, k)
    OBVIOUS
  <2> HIDE DEF n, k, usage
  <2>4. /\ b \in UserBucket /\ b.reserved = AtLeastZero(s.usage[u][m].reserved - n)
        /\ b.consumed = s.usage[u][m].consumed
    BY <2>1, <2>2, UserBucketType, UserBucketFields
  <2> HIDE DEF b
  <2>5. usage[u][m].reserved = b.reserved /\ usage[u][m].consumed = b.consumed
    BY <2>1, <2>3, <2>4, UserBucketFields
  <2> QED
    BY <2>4, <2>5 DEF n
<1>5. ASSUME NEW a \in Attempt
      PROVE  attempt[a].slot = s.attempt[a].slot
  <2>1. s.attempt[a] \in AttemptRow
    BY DEF Store
  <2> QED
    BY <2>1 DEF AttemptRow
<1> HIDE DEF attempt, usage, global
<1>6. t.attempt = attempt /\ t.usage = usage /\ t.global = global
  BY <1>1 DEF Store
<1>7. /\ \A m \in Month :
              /\ t.global[m].reserved = s.global[m].reserved - Cardinality(D \cap In(s, m))
              /\ t.global[m].reservedCost = s.global[m].reservedCost - Cardinality(D \cap In(s, m)) * Cost
              /\ t.global[m].estimated = s.global[m].estimated
      /\ \A u \in User, m \in Month :
              /\ t.usage[u][m].reserved =
                   AtLeastZero(s.usage[u][m].reserved - Cardinality(D \cap Of(s, u) \cap In(s, m)))
              /\ t.usage[u][m].consumed = s.usage[u][m].consumed
      /\ \A a \in Attempt : t.attempt[a].slot = s.attempt[a].slot
  BY <1>3, <1>4, <1>5, <1>6, Zenon
<1> QED
  BY <1>7, Zenon DEF t, D

-----------------------------------------------------------------------------
(* The statements.                                                         *)

\* Accounting for reports releases their cost.
LEMMA AccountReleasesCost ==
  ASSUME NEW s \in Store, NEW S \in SUBSET Report, NEW outcome \in Settled,
         NEW t, t.global = Account(s, S, outcome).global
  PROVE  GlobalReleases(s, t, Undispatched(s, S))
<1> DEFINE a == Account(s, S, outcome)
           D == Undispatched(s, S)
<1>1. D \subseteq Attempt
  BY ReportsAreAttempts DEF Undispatched
<1>2. \A m \in Month :
        /\ a.global[m].reserved = s.global[m].reserved - Cardinality(D \cap In(s, m))
        /\ a.global[m].reservedCost = s.global[m].reservedCost - Cardinality(D \cap In(s, m)) * Cost
        /\ a.global[m].estimated = s.global[m].estimated
  BY AccountBuckets, Zenon
<1>3. t.global = a.global
  OBVIOUS
<1> HIDE DEF a, D
<1>4. GlobalReleases(s, t, D)
  <2> SUFFICES ASSUME NEW m \in Month
               PROVE  LET old == s.global[m]
                          new == t.global[m]
                          n == Cardinality(D \cap In(s, m)) IN
                      /\ new.reserved = old.reserved - n
                      /\ new.reservedCost = old.reservedCost - n * Cost
                      /\ new.estimated + new.reservedCost <= old.estimated + old.reservedCost
    BY DEF GlobalReleases
  <2> DEFINE n == Cardinality(D \cap In(s, m))
  <2>1. n \in Nat
    BY <1>1, CountIsNat
  <2>2. /\ t.global[m].reserved = s.global[m].reserved - n
        /\ t.global[m].reservedCost = s.global[m].reservedCost - n * Cost
        /\ t.global[m].estimated = s.global[m].estimated
    BY <1>2, <1>3, Zenon
  <2>3. s.global[m].reservedCost \in Int /\ s.global[m].estimated \in Int
    BY DEF Store, GlobalBucket
  <2> HIDE DEF n
  <2>4. n * Cost \in Nat
    BY <2>1, ConstantAssumption
  <2>5. s.global[m].estimated + (s.global[m].reservedCost - n * Cost)
          <= s.global[m].estimated + s.global[m].reservedCost
    BY <2>3, <2>4
  <2> QED
    BY <2>2, <2>5 DEF n
<1> QED
  BY <1>4 DEF D

\* Accounting for reports releases their owners' requests.
LEMMA AccountReleasesQuota ==
  ASSUME NEW s \in Store, NEW S \in SUBSET Report, NEW outcome \in Settled,
         NEW t, NEW u \in User, NEW m \in Month,
         t.usage[u][m] = Account(s, S, outcome).usage[u][m]
  PROVE  UsageReleased(s.usage[u][m], t.usage[u][m],
                       Cardinality(Undispatched(s, S) \cap Of(s, u) \cap In(s, m)))
<1> DEFINE n == Cardinality(Undispatched(s, S) \cap Of(s, u) \cap In(s, m))
<1>1. Undispatched(s, S) \subseteq Attempt
  BY ReportsAreAttempts DEF Undispatched
<1>2. n \in Nat
  BY <1>1, CountIsNat
<1>0. /\ Account(s, S, outcome).usage[u][m].reserved = AtLeastZero(s.usage[u][m].reserved - n)
      /\ Account(s, S, outcome).usage[u][m].consumed = s.usage[u][m].consumed
  BY AccountBuckets, Zenon
<1>3. /\ t.usage[u][m].reserved = AtLeastZero(s.usage[u][m].reserved - n)
      /\ t.usage[u][m].consumed = s.usage[u][m].consumed
  BY <1>0, Zenon
<1>4. s.usage[u][m].reserved \in Nat /\ s.usage[u][m].consumed \in Nat
  BY DEF Store, UserBucket
<1> HIDE DEF n
<1>5. AtLeastZero(s.usage[u][m].reserved - n) + s.usage[u][m].consumed
        <= s.usage[u][m].reserved + s.usage[u][m].consumed
  BY <1>2, <1>4 DEF AtLeastZero
<1>6. UsageReleased(s.usage[u][m], t.usage[u][m], n)
  BY <1>3, <1>5 DEF UsageReleased
<1> QED
  BY <1>6 DEF n

\* Accounting for reports is a release when the rows follow it.
LEMMA AccountReleases ==
  ASSUME NEW s \in Store, NEW S \in SUBSET Report, NEW outcome \in Settled,
         NEW t, t.global = Account(s, S, outcome).global, t.usage = Account(s, S, outcome).usage,
         RowsRelease(s, t, Undispatched(s, S)), Slots(t) \subseteq Slots(s)
  PROVE  Releases(s, t, Undispatched(s, S))
<1>1. GlobalReleases(s, t, Undispatched(s, S))
  BY AccountReleasesCost
<1>2. \A u \in User, m \in Month : t.usage[u][m] = Account(s, S, outcome).usage[u][m]
  OBVIOUS
<1>3. UsageReleases(s, t, Undispatched(s, S))
  BY <1>2, AccountReleasesQuota, Zenon DEF UsageReleases
<1> QED
  BY <1>1, <1>3 DEF Releases, Undispatched

\* Freeing slots, or leaving them, takes none.
LEMMA SlotsStay ==
  ASSUME NEW s \in Store, NEW t \in Store,
         \A a \in Attempt : t.attempt[a].slot \in {s.attempt[a].slot, "free"}
  PROVE  Slots(t) \subseteq Slots(s)
BY DEF Slots

\* Cancelling gives the reservations of what waits back.
LEMMA CancelPendingReleases ==
  ASSUME NEW s \in Store, NEW S \in SUBSET Active(s)
  PROVE  \E D : Releases(s, CancelPending(s, S), D)
<1> DEFINE a == Account(s, S, "cancelled")
           t == CancelPending(s, S)
           D == Undispatched(s, S)
<1>0. S \in SUBSET Report /\ "cancelled" \in Settled
  BY DEF Active, Settled
<1>1. a \in Store /\ t \in Store
  BY <1>0, AccountType, CancelPendingType
<1>2. /\ t.report = [r \in Report |-> IF r \in S THEN Unleased(a.report[r], "cancelled") ELSE a.report[r]]
      /\ t.attempt = a.attempt /\ t.global = a.global /\ t.usage = a.usage
  BY <1>1 DEF CancelPending, CancelRows, Store
<1>3. a.report = s.report /\ \A b \in Attempt : a.attempt[b].slot = s.attempt[b].slot
  BY <1>0, AccountEffect, AccountBuckets
<1>4. Slots(t) \subseteq Slots(s)
  BY <1>1, <1>2, <1>3, SlotsStay
<1> HIDE DEF t
<1>5. RowsRelease(s, t, D)
  <2> SUFFICES ASSUME NEW r \in Report
               PROVE  /\ r \in D => Waits(s.report[r]) /\ ~Waits(t.report[r])
                      /\ r \notin D => Waits(t.report[r]) = Waits(s.report[r])
                      /\ Waits(t.report[r]) =>
                           t.report[r].month = s.report[r].month /\ t.report[r].owner = s.report[r].owner
    BY DEF RowsRelease
  <2>1. s.report[r] \in Row
    BY DEF Store
  <2>2. CASE r \notin S
    BY <2>2, <1>2, <1>3 DEF Undispatched
  <2>3. CASE r \in S
    <3>1. t.report[r] = Unleased(s.report[r], "cancelled")
      BY <2>3, <1>2, <1>3
    <3>2. t.report[r].status = "cancelled"
      BY <3>1, <2>1, UnleasedFields DEF Status
    <3>3. IsActive(s.report[r])
      BY <2>3 DEF Active
    <3> QED
      BY <2>1, <2>3, <3>2, <3>3 DEF IsActive, Waits, ActiveStatus, Row, Undispatched
  <2> QED
    BY <2>2, <2>3
<1>6. Releases(s, t, D)
  BY <1>0, <1>1, <1>2, <1>4, <1>5, AccountReleases
<1> QED
  BY <1>6 DEF t

\* A step that releases nothing: the rows that wait go on waiting, the buckets keep
\* what is reserved and no owner's consumption grows.
LEMMA NothingReleased ==
  ASSUME NEW s \in Store, NEW t \in Store, RowsRelease(s, t, {}),
         \A m \in Month :
           /\ t.global[m].reserved = s.global[m].reserved
           /\ t.global[m].reservedCost = s.global[m].reservedCost
           /\ \/ t.global[m].estimated <= s.global[m].estimated
              \/ t.global[m].estimated + t.global[m].reservedCost <= Budget,
         \A u \in User, m \in Month :
           /\ t.usage[u][m].reserved = s.usage[u][m].reserved
           /\ t.usage[u][m].consumed = s.usage[u][m].consumed,
         Slots(t) \subseteq Slots(s) \/ Capacity(t)
  PROVE  Releases(s, t, {})
<1>1. GlobalReleases(s, t, {})
  <2> SUFFICES ASSUME NEW m \in Month
               PROVE  LET old == s.global[m]
                          new == t.global[m]
                          n == Cardinality({} \cap In(s, m)) IN
                      /\ new.reserved = old.reserved - n
                      /\ new.reservedCost = old.reservedCost - n * Cost
                      /\ \/ new.estimated + new.reservedCost <= old.estimated + old.reservedCost
                         \/ new.estimated + new.reservedCost <= Budget
    BY DEF GlobalReleases
  <2> DEFINE n == Cardinality({} \cap In(s, m))
  <2>1. n = 0
    BY NoCount
  <2>2. /\ s.global[m].reserved \in Int /\ s.global[m].reservedCost \in Int
        /\ s.global[m].estimated \in Int /\ t.global[m].estimated \in Int
    BY DEF Store, GlobalBucket
  <2> HIDE DEF n
  <2>3. n * Cost = 0
    BY <2>1, ConstantAssumption
  <2> QED
    BY <2>1, <2>2, <2>3 DEF n
<1>2. UsageReleases(s, t, {})
  <2> SUFFICES ASSUME NEW u \in User, NEW m \in Month
               PROVE  UsageReleased(s.usage[u][m], t.usage[u][m], Cardinality({} \cap Of(s, u) \cap In(s, m)))
    BY DEF UsageReleases
  <2> DEFINE n == Cardinality({} \cap Of(s, u) \cap In(s, m))
  <2>0. {} \cap Of(s, u) \cap In(s, m) = {} \cap In(s, m)
    OBVIOUS
  <2>1. n = 0
    BY <2>0, NoCount, Zenon
  <2>2. s.usage[u][m].reserved \in Nat /\ s.usage[u][m].consumed \in Nat
    BY DEF Store, UserBucket
  <2> HIDE DEF n
  <2>3. UsageReleased(s.usage[u][m], t.usage[u][m], n)
    BY <2>1, <2>2 DEF UsageReleased, AtLeastZero
  <2> QED
    BY <2>3 DEF n
<1> QED
  BY <1>1, <1>2 DEF Releases

\* The reaper frees slots and closes dispatched jobs: nothing that waits is touched.
LEMMA ReapReleases ==
  ASSUME NEW s \in Store
  PROVE  Releases(s, Reap(s), {})
<1> DEFINE lapsed == {a \in Attempt : s.attempt[a].slot = "lapsed"}
           open == {a \in lapsed : s.attempt[a].status = "dispatched"}
           lost == {r \in Report \cap open : s.report[r].status = "running" /\ s.report[r].dispatched
                                              /\ ~s.report[r].deleted}
           attempt == [a \in Attempt |->
             IF a \in lapsed
             THEN [s.attempt[a] EXCEPT !.slot = "free", !.status = IF a \in open THEN "unknown" ELSE @]
             ELSE s.attempt[a]]
           Unknown(u, m) == Cardinality({r \in open \cap Of(s, u) : s.attempt[r].month = m})
           Lost(m) == Cardinality({a \in open : s.attempt[a].month = m})
           t == Reap(s)
<1>1. t \in Store
  BY ReapType
<1>2. /\ t.attempt = attempt
      /\ t.report = [r \in Report |-> IF r \in lost THEN Unleased(s.report[r], "failed") ELSE s.report[r]]
      /\ t.usage = [u \in User |-> [m \in Month |-> RecordUnknownUserUsage(s.usage[u][m], Unknown(u, m))]]
      /\ t.global = [m \in Month |-> SettleUnknownGlobalBudget(s.global[m], Lost(m))]
  BY DEF Reap, Store
<1>3. ASSUME NEW a \in Attempt PROVE attempt[a].slot \in {s.attempt[a].slot, "free"}
  <2>1. s.attempt[a] \in AttemptRow
    BY DEF Store
  <2> QED
    BY <2>1 DEF AttemptRow
<1>4. \A m \in Month : Lost(m) \in Nat /\ \A u \in User : Unknown(u, m) \in Nat
  <2>1. ASSUME NEW m \in Month
        PROVE  /\ {a \in open : s.attempt[a].month = m} \subseteq Attempt
               /\ \A u \in User : {r \in open \cap Of(s, u) : s.attempt[r].month = m} \subseteq Attempt
    OBVIOUS
  <2> QED
    BY <2>1, CountIsNat
<1> HIDE DEF t, attempt, Unknown, Lost
<1>5. Slots(t) \subseteq Slots(s)
  BY <1>1, <1>2, <1>3, SlotsStay
<1>6. RowsRelease(s, t, {})
  <2> SUFFICES ASSUME NEW r \in Report
               PROVE  /\ Waits(t.report[r]) = Waits(s.report[r])
                      /\ Waits(t.report[r]) =>
                           t.report[r].month = s.report[r].month /\ t.report[r].owner = s.report[r].owner
    BY DEF RowsRelease
  <2>1. s.report[r] \in Row
    BY DEF Store
  <2>2. CASE r \notin lost
    BY <2>2, <1>2
  <2>3. CASE r \in lost
    <3>1. t.report[r] = Unleased(s.report[r], "failed") /\ s.report[r].dispatched
      BY <2>3, <1>2
    <3>2. t.report[r].status = "failed"
      BY <3>1, <2>1, UnleasedFields DEF Status
    <3> QED
      BY <3>1, <3>2 DEF Waits, ActiveStatus
  <2> QED
    BY <2>2, <2>3
<1>7. ASSUME NEW m \in Month
      PROVE  /\ t.global[m].reserved = s.global[m].reserved
             /\ t.global[m].reservedCost = s.global[m].reservedCost
             /\ t.global[m].estimated <= s.global[m].estimated
  <2>1. s.global[m] \in GlobalBucket /\ Lost(m) \in Nat
    BY <1>4 DEF Store
  <2>2. t.global[m] = SettleUnknownGlobalBudget(s.global[m], Lost(m))
    BY <1>2
  <2>3. /\ t.global[m].reserved = s.global[m].reserved
        /\ t.global[m].reservedCost = s.global[m].reservedCost
        /\ t.global[m].estimated = s.global[m].estimated
    BY <2>1, <2>2, GlobalBucketFields
  <2> QED
    BY <2>1, <2>3 DEF GlobalBucket
<1>8. ASSUME NEW u \in User, NEW m \in Month
      PROVE  /\ t.usage[u][m].reserved = s.usage[u][m].reserved
             /\ t.usage[u][m].consumed = s.usage[u][m].consumed
  <2>1. s.usage[u][m] \in UserBucket /\ Unknown(u, m) \in Nat
    BY <1>4 DEF Store
  <2>2. t.usage[u][m] = RecordUnknownUserUsage(s.usage[u][m], Unknown(u, m))
    BY <1>2
  <2> QED
    BY <2>1, <2>2, UserBucketFields
<1>9. Releases(s, t, {})
  BY <1>1, <1>5, <1>6, <1>7, <1>8, NothingReleased
<1> QED
  BY <1>9 DEF t

\* A lost lease ends a called job or puts an uncalled one back: it waits on.
LEMMA ExpireLeasesReleases ==
  ASSUME NEW s \in Store
  PROVE  \E D : Releases(s, ExpireLeases(s), D)
<1> DEFINE expired == {r \in Report : s.report[r].status = "running" /\ s.report[r].lease = "lapsed"
                                       /\ ~s.report[r].deleted}
           called == {r \in expired : s.report[r].dispatched}
           a == Account(s, called, "unknown")
           t == ExpireLeases(s)
<1>0. called \in SUBSET Report /\ "unknown" \in Settled
  BY DEF Settled
<1>1. a \in Store /\ t \in Store
  BY ZenonT(60), ZenonT(90), <1>0, AccountType, ExpireLeasesType
<1>2. /\ t.report = [r \in Report |->
             IF r \in expired
             THEN Unleased(s.report[r], IF r \in called THEN "failed" ELSE "queued")
             ELSE s.report[r]]
      /\ t.attempt = a.attempt /\ t.global = a.global /\ t.usage = a.usage
  BY <1>1 DEF ExpireLeases, Store
<1>3. \A b \in Attempt : a.attempt[b].slot = s.attempt[b].slot
  BY <1>0, AccountBuckets
<1>4. Slots(t) \subseteq Slots(s)
  BY <1>1, <1>2, <1>3, SlotsStay
<1> HIDE DEF t
<1>5. RowsRelease(s, t, Undispatched(s, called))
  <2> SUFFICES ASSUME NEW r \in Report
               PROVE  /\ r \notin Undispatched(s, called)
                      /\ Waits(t.report[r]) = Waits(s.report[r])
                      /\ Waits(t.report[r]) =>
                           t.report[r].month = s.report[r].month /\ t.report[r].owner = s.report[r].owner
    BY DEF RowsRelease
  <2>0. r \notin Undispatched(s, called)
    BY SMTT(40), SMTT(80) DEF Undispatched
  <2>1. s.report[r] \in Row
    BY DEF Store
  <2>2. CASE r \notin expired
    BY <2>0, <2>2, <1>2
  <2>3. CASE r \in called
    <3>1. t.report[r] = Unleased(s.report[r], "failed") /\ s.report[r].dispatched
      BY <2>3, <1>2
    <3>2. t.report[r].status = "failed"
      BY <3>1, <2>1, UnleasedFields DEF Status
    <3> QED
      BY SMTT(40), SMTT(80), <2>0, <3>1, <3>2 DEF Waits, ActiveStatus
  <2>4. CASE r \in expired /\ r \notin called
    <3>1. t.report[r] = Unleased(s.report[r], "queued") /\ s.report[r].status = "running"
      BY <2>4, <1>2
    <3>2. /\ t.report[r].status = "queued" /\ t.report[r].deleted = s.report[r].deleted
          /\ t.report[r].dispatched = s.report[r].dispatched
          /\ t.report[r].owner = s.report[r].owner /\ t.report[r].month = s.report[r].month
      BY SMTT(40), SMTT(80), <3>1, <2>1 DEF Unleased, Row
    <3> QED
      BY SMTT(40), SMTT(80), <2>0, <3>1, <3>2 DEF Waits, ActiveStatus
  <2> QED
    BY <2>2, <2>3, <2>4
<1>6. Releases(s, t, Undispatched(s, called))
  BY <1>0, <1>2, <1>4, <1>5, AccountReleases
<1> QED
  BY <1>6 DEF t

\* The floors of the triggers change nothing, for what is released was reserved.
LEMMA Floors ==
  ASSUME NEW s \in Store, Sound(s), NEW S \in SUBSET Report, NEW outcome \in Settled,
         \A r \in Undispatched(s, S) : Waits(s.report[r])
  PROVE  LET a == Account(s, S, outcome) IN
         [m \in Month |-> [a.global[m] EXCEPT !.reserved = AtLeastZero(@), !.reservedCost = AtLeastZero(@)]]
           = a.global
<1> DEFINE a == Account(s, S, outcome)
           D == Undispatched(s, S)
<1>1. a \in Store
  BY AccountType
<1>2. \A m \in Month :
        /\ a.global[m].reserved = s.global[m].reserved - Cardinality(D \cap In(s, m))
        /\ a.global[m].reservedCost = s.global[m].reservedCost - Cardinality(D \cap In(s, m)) * Cost
  BY AccountBuckets, Zenon
<1>3. \A m \in Month : D \cap In(s, m) \subseteq Owed(s, m) /\ Owed(s, m) \subseteq Attempt
  BY ReportsAreAttempts DEF Undispatched, In, Owed
<1> HIDE DEF a, D
<1>4. ASSUME NEW m \in Month
      PROVE  [a.global[m] EXCEPT !.reserved = AtLeastZero(@), !.reservedCost = AtLeastZero(@)] = a.global[m]
  <2> DEFINE n == Cardinality(Owed(s, m))
             d == Cardinality(D \cap In(s, m))
             b == a.global[m]
  <2>1. n \in Nat /\ d \in Nat /\ d <= n
    BY <1>3, Counts
  <2>2. s.global[m].reserved = n /\ s.global[m].reservedCost = Cost * n
    BY DEF Sound, Backed
  <2>3. b \in GlobalBucket
    BY <1>1 DEF Store
  <2>4. b.reserved = s.global[m].reserved - d /\ b.reservedCost = s.global[m].reservedCost - d * Cost
    BY <1>2
  <2> HIDE DEF n, d, b
  <2>5. n - d \in Int /\ n - d >= 0
    BY <2>1
  <2>6. Cost * (n - d) = Cost * n - d * Cost /\ Cost * (n - d) >= 0 /\ Cost * (n - d) \in Int
    BY <2>1, <2>5, Prices
  <2>7. b.reserved >= 0 /\ b.reservedCost >= 0 /\ b.reserved \in Int /\ b.reservedCost \in Int
    BY <2>2, <2>4, <2>5, <2>6
  <2>8. AtLeastZero(b.reserved) = b.reserved /\ AtLeastZero(b.reservedCost) = b.reservedCost
    BY <2>7 DEF AtLeastZero
  <2>9. [b EXCEPT !.reserved = b.reserved, !.reservedCost = b.reservedCost] = b
    BY <2>3 DEF GlobalBucket
  <2>10. [b EXCEPT !.reserved = AtLeastZero(@), !.reservedCost = AtLeastZero(@)]
           = [b EXCEPT !.reserved = b.reserved, !.reservedCost = b.reservedCost]
    BY <2>8, Zenon
  <2> QED
    BY <2>9, <2>10 DEF b
<1>5. a.global \in [Month -> GlobalBucket]
  BY <1>1 DEF Store
<1>6. [m \in Month |-> [a.global[m] EXCEPT !.reserved = AtLeastZero(@), !.reservedCost = AtLeastZero(@)]]
        = [m \in Month |-> a.global[m]]
  BY <1>4
<1>7. [m \in Month |-> a.global[m]] = a.global
  BY <1>5
<1>8. [m \in Month |-> [a.global[m] EXCEPT !.reserved = AtLeastZero(@), !.reservedCost = AtLeastZero(@)]]
        = a.global
  BY <1>6, <1>7
<1> QED
  BY <1>8, Zenon DEF a

\* No two unfinished jobs have the same owner.
Alone(s) == \A r, q \in Active(s) : s.report[r].owner = s.report[q].owner => r = q

\* The trigger's release names no month; its owner's only job makes it right.
LEMMA SourceReleasesQuota ==
  ASSUME NEW s \in Store, Consistent(s), Sound(s), Alone(s), NEW u \in User,
         NEW D \in SUBSET (Active(s) \cap Of(s, u)), \A r \in D : ~s.report[r].dispatched,
         NEW m \in Month
  PROVE  AtLeastZero(s.usage[u][m].reserved - Cardinality(D))
           = AtLeastZero(s.usage[u][m].reserved - Cardinality(D \cap Of(s, u) \cap In(s, m)))
<1>1. D \subseteq Attempt
  BY ReportsAreAttempts DEF Active
<1>2. CASE D \cap Of(s, u) \cap In(s, m) = D
  BY <1>2, Zenon
<1>3. CASE D \cap Of(s, u) \cap In(s, m) # D
  <2>1. PICK r \in D : r \notin In(s, m)
    BY <1>3
  <2>2. \A q \in Active(s) \cap Of(s, u) : q = r
    BY <2>1 DEF Alone, Of
  <2>3. Owed(s, m) \cap Of(s, u) = {}
    BY <2>1, <2>2 DEF Owed, In, Active, IsActive, Waits, ActiveStatus
  <2>4. D \cap Of(s, u) \cap In(s, m) = {}
    BY <2>1, <2>2
  <2>5. Cardinality({}) = 0
    BY FS_EmptySet
  <2>6. s.usage[u][m].reserved = 0 /\ Cardinality(D \cap Of(s, u) \cap In(s, m)) = 0
    BY <2>3, <2>4, <2>5, Zenon DEF Sound, Backed
  <2>7. Cardinality(D) \in Nat
    BY <1>1, CountIsNat
  <2> QED
    BY <2>6, <2>7 DEF AtLeastZero
<1> QED
  BY <1>2, <1>3

\* A deleted source gives the reservation of the job that was built from it back.
LEMMA InvalidateSourceReleases ==
  ASSUME NEW s \in Store, Consistent(s), Sound(s), Alone(s), NEW u \in User, NEW S \in SUBSET Of(s, u)
  PROVE  \E D : Releases(s, InvalidateSource(s, u, S), D)
<1> DEFINE live == {r \in S : s.report[r].status \in ActiveStatus}
           refunded == {r \in live : ~s.report[r].dispatched}
           a == Account(s, live, "unknown")
           t == InvalidateSource(s, u, S)
           owned == [m \in Month |->
             IF s.usage[u][m] # EmptyUserBucket
             THEN [a.usage[u][m] EXCEPT
                     !.reserved = AtLeastZero(s.usage[u][m].reserved - Cardinality(refunded)),
                     !.released = s.usage[u][m].released + Cardinality(refunded)]
             ELSE a.usage[u][m]]
           report == [r \in Report |->
             IF r \in S
             THEN [(IF r \in live THEN Unleased(s.report[r], "cancelled") ELSE s.report[r])
                     EXCEPT !.invalidated = TRUE]
             ELSE s.report[r]]
           global == [m \in Month |->
             [a.global[m] EXCEPT !.reserved = AtLeastZero(@), !.reservedCost = AtLeastZero(@)]]
<1>0. live \in SUBSET Report /\ S \in SUBSET Report /\ "unknown" \in Settled
  BY DEF Settled, Of
<1>1. a \in Store /\ t \in Store
  BY ZenonT(60), ZenonT(90), <1>0, AccountType, InvalidateSourceType
<1>2. /\ t.report = report /\ t.attempt = a.attempt /\ t.global = global
      /\ t.usage = [a.usage EXCEPT ![u] = owned]
  BY <1>1 DEF InvalidateSource, Store
<1>3. \A b \in Attempt : a.attempt[b].slot = s.attempt[b].slot
  BY <1>0, AccountBuckets
<1>4. Slots(t) \subseteq Slots(s)
  BY <1>1, <1>2, <1>3, SlotsStay
<1>5. \A r \in live : IsActive(s.report[r])
  BY <1>0 DEF Consistent, RowMatches, IsActive
<1>6. /\ refunded = Undispatched(s, live) /\ refunded \in SUBSET (Active(s) \cap Of(s, u))
      /\ \A r \in refunded : ~s.report[r].dispatched
  BY <1>0, <1>5 DEF Undispatched, Active
<1>7. \A r \in Undispatched(s, live) : Waits(s.report[r])
  BY <1>5 DEF Undispatched, Waits, IsActive
<1>8. t.global = a.global
  <2> HIDE DEF live
  <2>1. global = a.global
    BY ZenonT(60), ZenonT(90), <1>0, <1>7, Floors
  <2> QED
    BY <1>2, <2>1, Zenon
<1>13. ASSUME NEW m \in Month
       PROVE  \/ owned[m] = a.usage[u][m]
              \/ owned[m] = [a.usage[u][m] EXCEPT
                     !.reserved = AtLeastZero(s.usage[u][m].reserved - Cardinality(refunded)),
                     !.released = s.usage[u][m].released + Cardinality(refunded)]
  <2>1. CASE s.usage[u][m] # EmptyUserBucket
    BY <2>1, Zenon
  <2>2. CASE s.usage[u][m] = EmptyUserBucket
    BY <2>2, Zenon
  <2> QED
    BY <2>1, <2>2
<1> HIDE DEF t, global, owned
<1>9. RowsRelease(s, t, Undispatched(s, live))
  <2> SUFFICES ASSUME NEW r \in Report
               PROVE  /\ r \in Undispatched(s, live) => Waits(s.report[r]) /\ ~Waits(t.report[r])
                      /\ r \notin Undispatched(s, live) => Waits(t.report[r]) = Waits(s.report[r])
                      /\ Waits(t.report[r]) =>
                           t.report[r].month = s.report[r].month /\ t.report[r].owner = s.report[r].owner
    BY DEF RowsRelease
  <2>1. s.report[r] \in Row
    BY DEF Store
  <2>2. CASE r \notin S
    BY <2>2, <1>2 DEF Undispatched
  <2>3. CASE r \in live
    <3> DEFINE row == Unleased(s.report[r], "cancelled")
    <3>1. row \in Row /\ row.status = "cancelled"
      BY <2>1, UnleasedType, UnleasedFields DEF Status
    <3>2. t.report[r] = [row EXCEPT !.invalidated = TRUE]
      BY <2>3, <1>2
    <3> HIDE DEF row
    <3>3. t.report[r].status = "cancelled"
      BY <3>1, <3>2 DEF Row
    <3> QED
      BY <2>1, <2>3, <1>5, <3>3 DEF IsActive, Waits, ActiveStatus, Row, Undispatched
  <2>4. CASE r \in S /\ r \notin live
    <3>1. t.report[r] = [s.report[r] EXCEPT !.invalidated = TRUE]
      BY <2>4, <1>2
    <3>2. t.report[r].status = s.report[r].status /\ s.report[r].status \notin ActiveStatus
      BY <2>1, <2>4, <3>1 DEF Row
    <3> QED
      BY <2>4, <3>2 DEF Waits, Undispatched
  <2> QED
    BY <2>2, <2>3, <2>4
<1>10. GlobalReleases(s, t, Undispatched(s, live))
  BY <1>0, <1>8, AccountReleasesCost
<1>11. UsageReleases(s, t, Undispatched(s, live))
  <2> SUFFICES ASSUME NEW v \in User, NEW m \in Month
               PROVE  UsageReleased(s.usage[v][m], t.usage[v][m],
                                    Cardinality(Undispatched(s, live) \cap Of(s, v) \cap In(s, m)))
    BY DEF UsageReleases
  <2>1. a.usage \in [User -> [Month -> UserBucket]] /\ s.usage[v][m] \in UserBucket
    BY <1>1 DEF Store
  <2>2. CASE t.usage[v][m] = a.usage[v][m]
    BY <2>2, <1>0, AccountReleasesQuota
  <2>3. CASE t.usage[v][m] # a.usage[v][m]
    <3> DEFINE x == AtLeastZero(s.usage[u][m].reserved - Cardinality(refunded))
               y == s.usage[u][m].released + Cardinality(refunded)
               b == a.usage[u][m]
               n == Cardinality(Undispatched(s, live) \cap Of(s, u) \cap In(s, m))
    <3>0. v = u /\ t.usage[u] = owned
      BY <2>1, <2>3, <1>2
    <3>1. v = u /\ t.usage[u][m] = [b EXCEPT !.reserved = x, !.released = y]
      BY <2>3, <3>0, <1>13, Zenon
    <3>2. b \in UserBucket
      BY <2>1
    <3>3. x = AtLeastZero(s.usage[u][m].reserved - n)
      <4> HIDE DEF refunded
      <4>1. x = AtLeastZero(s.usage[u][m].reserved - Cardinality(refunded \cap Of(s, u) \cap In(s, m)))
        BY <1>6, SourceReleasesQuota
      <4> QED
        BY <4>1, <1>6, Zenon
    <3>4. b.consumed = s.usage[u][m].consumed
      BY ZenonT(60), ZenonT(90), <1>0, AccountBuckets
    <3>5. UsageReleased(s.usage[u][m], b, n)
      BY <1>0, AccountReleasesQuota
    <3> HIDE DEF x, y, b, n
    <3>6. t.usage[u][m].reserved = x /\ t.usage[u][m].consumed = b.consumed
      BY <3>1, <3>2 DEF UserBucket
    <3>7. UsageReleased(s.usage[u][m], t.usage[u][m], n)
      BY <3>3, <3>5, <3>6 DEF UsageReleased
    <3> QED
      BY <3>1, <3>7 DEF n
  <2> QED
    BY <2>2, <2>3
<1>12. Releases(s, t, Undispatched(s, live))
  BY <1>0, <1>4, <1>9, <1>10, <1>11 DEF Releases, Undispatched
<1> QED
  BY <1>12 DEF t

\* A deleted account takes its owner's buckets and gives the deployment's cost back.
LEMMA PurgeAccountReleases ==
  ASSUME NEW s \in Store, Consistent(s), Sound(s), NEW u \in User
  PROVE  \E D : Releases(s, PurgeAccount(s, u), D)
<1> DEFINE ending == {r \in Of(s, u) : s.report[r].status \in ActiveStatus
                                        \/ s.attempt[r].status = "dispatched"}
           a == Account(s, ending, "unknown")
           t == PurgeAccount(s, u)
           owned == [m \in Month |-> EmptyUserBucket]
           report == [r \in Report |-> IF r \in Of(s, u) THEN NoRow("purged") ELSE s.report[r]]
           global == [m \in Month |->
             [a.global[m] EXCEPT !.reserved = AtLeastZero(@), !.reservedCost = AtLeastZero(@)]]
           D == Undispatched(s, ending)
<1>0. ending \in SUBSET Report /\ "unknown" \in Settled
  BY DEF Settled, Of
<1>1. a \in Store /\ t \in Store
  BY ZenonT(60), ZenonT(90), <1>0, AccountType, PurgeAccountType
<1>2. /\ t.report = report /\ t.attempt = a.attempt /\ t.global = global
      /\ t.usage = [a.usage EXCEPT ![u] = owned]
  BY <1>1 DEF PurgeAccount, Store
<1>3. \A b \in Attempt : a.attempt[b].slot = s.attempt[b].slot
  BY <1>0, AccountBuckets
<1>4. Slots(t) \subseteq Slots(s)
  BY <1>1, <1>2, <1>3, SlotsStay
<1>5. \A r \in Of(s, u) : Waits(s.report[r]) <=> r \in D
  BY DEF Of, Consistent, RowMatches, Waits, Undispatched
<1>6. D \subseteq Of(s, u)
  BY DEF Undispatched
<1>7. t.global = a.global
  <2> HIDE DEF ending
  <2>1. \A r \in Undispatched(s, ending) : Waits(s.report[r])
    BY <1>5, <1>6
  <2>2. global = a.global
    BY <1>0, <2>1, Floors
  <2> QED
    BY <1>2, <2>2, Zenon
<1>8. ~Waits(NoRow("purged"))
  BY DEF Waits, NoRow, ActiveStatus
<1> HIDE DEF t, global
<1>9. RowsRelease(s, t, D)
  <2> HIDE DEF D
  <2> SUFFICES ASSUME NEW r \in Report
               PROVE  /\ r \in D => Waits(s.report[r]) /\ ~Waits(t.report[r])
                      /\ r \notin D => Waits(t.report[r]) = Waits(s.report[r])
                      /\ Waits(t.report[r]) =>
                           t.report[r].month = s.report[r].month /\ t.report[r].owner = s.report[r].owner
    BY DEF RowsRelease
  <2>1. CASE r \notin Of(s, u)
    BY <2>1, <1>2, <1>6
  <2>2. CASE r \in Of(s, u)
    <3>1. t.report[r] = NoRow("purged")
      BY <2>2, <1>2
    <3>2. ~Waits(t.report[r])
      BY <3>1, <1>8
    <3> QED
      BY <2>2, <3>2, <1>5 DEF Waits
  <2> QED
    BY <2>1, <2>2
<1>10. GlobalReleases(s, t, D)
  BY <1>0, <1>7, AccountReleasesCost
<1>11. UsageReleases(s, t, D)
  <2> SUFFICES ASSUME NEW v \in User, NEW m \in Month
               PROVE  UsageReleased(s.usage[v][m], t.usage[v][m], Cardinality(D \cap Of(s, v) \cap In(s, m)))
    BY SMTT(40), SMTT(80) DEF UsageReleases
  <2>1. a.usage \in [User -> [Month -> UserBucket]] /\ s.usage[v][m] \in UserBucket
    BY SMTT(40), SMTT(80), <1>1 DEF Store
  <2>2. CASE v # u
    <3>1. t.usage[v][m] = a.usage[v][m]
      BY <2>1, <2>2, <1>2
    <3> QED
      BY <3>1, <1>0, AccountReleasesQuota
  <2>3. CASE v = u
    <3> DEFINE n == Cardinality(D \cap Of(s, u) \cap In(s, m))
    <3>1. t.usage[u][m] = EmptyUserBucket
      BY <2>1, <1>2
    <3>2. D \cap Of(s, u) \cap In(s, m) = Owed(s, m) \cap Of(s, u)
      <4> HIDE DEF D
      <4> QED
        BY <1>5, <1>6 DEF Owed, Of, In
    <3>3. s.usage[u][m].reserved = n
      BY <3>2, Zenon DEF Sound, Backed
    <3>4. s.usage[u][m].reserved \in Nat /\ s.usage[u][m].consumed \in Nat
      BY <2>1, <2>3 DEF UserBucket
    <3>5. t.usage[u][m].reserved = 0 /\ t.usage[u][m].consumed = 0
      BY <3>1 DEF EmptyUserBucket
    <3> HIDE DEF n
    <3>6. UsageReleased(s.usage[u][m], t.usage[u][m], n)
      BY <3>3, <3>4, <3>5 DEF UsageReleased, AtLeastZero
    <3> QED
      BY SMTT(40), SMTT(80), <2>3, <3>6 DEF n
  <2> QED
    BY <2>2, <2>3
<1>12. Releases(s, t, D)
  BY <1>0, <1>4, <1>9, <1>10, <1>11 DEF Releases, Undispatched
<1> QED
  BY <1>12 DEF t

-----------------------------------------------------------------------------
(* Writes to one row, attempt or bucket.                                   *)

\* A row that is written and goes on waiting, or not, keeps the counts.
LEMMA RowRewrite ==
  ASSUME NEW s \in Store, Sound(s), NEW r \in Report, NEW row \in Row,
         Waits(row) <=> Waits(s.report[r]),
         Waits(row) => row.month = s.report[r].month /\ row.owner = s.report[r].owner
  PROVE  LET t == [s EXCEPT !.report[r] = row] IN t \in Store /\ Sound(t)
<1> DEFINE t == [s EXCEPT !.report[r] = row]
<1>1. t \in Store
  BY RowChange
<1>2. /\ t.report = [s.report EXCEPT ![r] = row] /\ t.attempt = s.attempt
      /\ t.global = s.global /\ t.usage = s.usage
  BY DEF Store
<1>3. \A q \in Report : t.report[q] = IF q = r THEN row ELSE s.report[q]
  BY <1>2 DEF Store
<1> HIDE DEF t
<1>4. RowsRelease(s, t, {})
  <2> SUFFICES ASSUME NEW q \in Report
               PROVE  /\ Waits(t.report[q]) = Waits(s.report[q])
                      /\ Waits(t.report[q]) =>
                           t.report[q].month = s.report[q].month /\ t.report[q].owner = s.report[q].owner
    BY DEF RowsRelease
  <2>1. CASE q = r
    <3>1. t.report[q] = row /\ s.report[q] = s.report[r]
      BY <2>1, <1>3
    <3>2. Waits(row) \in BOOLEAN /\ Waits(s.report[r]) \in BOOLEAN
      BY DEF Waits
    <3> QED
      BY <3>1, <3>2, Zenon
  <2>2. CASE q # r
    BY <2>2, <1>3
  <2> QED
    BY <2>1, <2>2
<1>5. \A m \in Month : s.global[m].estimated \in Int
  BY DEF Store, GlobalBucket
<1>6. Releases(s, t, {})
  <2>1. Slots(t) \subseteq Slots(s)
    BY <1>2 DEF Slots
  <2> QED
    BY <1>1, <1>2, <1>4, <1>5, <2>1, NothingReleased
<1>7. t \in Store /\ Sound(t)
  BY <1>1, <1>6, ReleasesKeep
<1> QED
  BY <1>7 DEF t

\* An attempt that is written keeps the counts unless it takes a slot that is not there.
LEMMA AttemptRewrite ==
  ASSUME NEW s \in Store, Sound(s), NEW a \in Attempt, NEW attempt \in AttemptRow,
         \/ ~Full(s)
         \/ attempt.slot \in {"held", "lapsed"} => s.attempt[a].slot \in {"held", "lapsed"}
  PROVE  LET t == [s EXCEPT !.attempt[a] = attempt] IN t \in Store /\ Sound(t)
<1> DEFINE t == [s EXCEPT !.attempt[a] = attempt]
<1>1. t \in Store
  BY AttemptChange
<1>2. /\ t.attempt = [s.attempt EXCEPT ![a] = attempt] /\ t.report = s.report
      /\ t.global = s.global /\ t.usage = s.usage
  BY DEF Store
<1>3. \A b \in Attempt : t.attempt[b] = IF b = a THEN attempt ELSE s.attempt[b]
  BY <1>2 DEF Store
<1> HIDE DEF t
<1>4. Slots(t) \subseteq Slots(s) \/ Capacity(t)
  <2>1. CASE ~Full(s)
    <3>1. Slots(s) \subseteq Attempt /\ Slots(t) \subseteq Slots(s) \cup {a}
      BY <1>3 DEF Slots
    <3>2. IsFiniteSet(Slots(s)) /\ Cardinality(Slots(s)) \in Nat
      BY <3>1, CountedAreFinite, CountIsNat
    <3>3. /\ IsFiniteSet(Slots(s) \cup {a})
          /\ Cardinality(Slots(s) \cup {a}) = IF a \in Slots(s) THEN Cardinality(Slots(s))
                                              ELSE Cardinality(Slots(s)) + 1
      BY <3>2, FS_AddElement
    <3>4. Cardinality(Slots(t)) <= Cardinality(Slots(s) \cup {a}) /\ Cardinality(Slots(t)) \in Nat
      BY <3>1, <3>3, FS_Subset, FS_CardinalityType
    <3>5. Cardinality(Slots(s)) < CallCapacity /\ CallCapacity \in Nat
      BY <2>1, <3>2 DEF Full, CallCapacity
    <3> QED
      BY <3>2, <3>3, <3>4, <3>5 DEF Capacity
  <2>2. CASE attempt.slot \in {"held", "lapsed"} => s.attempt[a].slot \in {"held", "lapsed"}
    BY <2>2, <1>3 DEF Slots
  <2> QED
    BY <2>1, <2>2
<1>5. RowsRelease(s, t, {}) /\ \A m \in Month : s.global[m].estimated \in Int
  BY <1>2 DEF RowsRelease, Store, GlobalBucket
<1>6. Releases(s, t, {})
  BY <1>1, <1>2, <1>4, <1>5, NothingReleased
<1>7. t \in Store /\ Sound(t)
  BY <1>1, <1>6, ReleasesKeep
<1> QED
  BY <1>7 DEF t

\* The deployment's bucket may be charged within the budget.
LEMMA GlobalRewrite ==
  ASSUME NEW s \in Store, Sound(s), NEW m \in Month, NEW b \in GlobalBucket,
         b.reserved = s.global[m].reserved, b.reservedCost = s.global[m].reservedCost,
         \/ b.estimated <= s.global[m].estimated
         \/ b.estimated + b.reservedCost <= Budget
  PROVE  LET t == [s EXCEPT !.global[m] = b] IN t \in Store /\ Sound(t)
<1> DEFINE t == [s EXCEPT !.global[m] = b]
<1>1. t \in Store
  BY GlobalChange
<1>2. /\ t.global = [s.global EXCEPT ![m] = b] /\ t.report = s.report
      /\ t.attempt = s.attempt /\ t.usage = s.usage
  BY DEF Store
<1>3. \A n \in Month : t.global[n] = IF n = m THEN b ELSE s.global[n]
  BY <1>2 DEF Store
<1> HIDE DEF t
<1>4. RowsRelease(s, t, {}) /\ Slots(t) \subseteq Slots(s)
  BY <1>2 DEF RowsRelease, Slots
<1>5. \A n \in Month : s.global[n].estimated \in Int
  BY DEF Store, GlobalBucket
<1>6. \A n \in Month :
        /\ t.global[n].reserved = s.global[n].reserved
        /\ t.global[n].reservedCost = s.global[n].reservedCost
        /\ \/ t.global[n].estimated <= s.global[n].estimated
           \/ t.global[n].estimated + t.global[n].reservedCost <= Budget
  BY <1>3, <1>5
<1>7. Releases(s, t, {})
  BY <1>1, <1>2, <1>4, <1>6, NothingReleased
<1>8. t \in Store /\ Sound(t)
  BY <1>1, <1>7, ReleasesKeep
<1> QED
  BY <1>8 DEF t

-----------------------------------------------------------------------------
(* The actions.                                                            *)

\* Every transaction that cancels active reports keeps the counts.
LEMMA CancellingSound ==
  ASSUME TypeOK, Sound(db), NEW S \in SUBSET Active(db), db' = CancelPending(db, S)
  PROVE  Sound(db')
<1>1. db \in Store /\ db' \in Store
  BY CancelPendingType DEF TypeOK, Active
<1>2. PICK D : Releases(db, CancelPending(db, S), D)
  BY <1>1, CancelPendingReleases
<1>3. Releases(db, db', D)
  BY <1>2
<1> QED
  BY <1>1, <1>3, ReleasesKeep

\* Deleting a report keeps the counts: what is deleted no longer waits.
LEMMA DeleteReportSound ==
  ASSUME TypeOK, Sound(db), NEW r \in Report, DeleteReport(r)
  PROVE  Sound(db')
<1> DEFINE S == {r} \cap Active(db)
           s == CancelPending(db, S)
           row == [s.report[r] EXCEPT !.deleted = TRUE, !.invalidated = TRUE]
<1>0. S \in SUBSET Active(db) /\ S \in SUBSET Report
  OBVIOUS
<1>1. db' = [s EXCEPT !.report[r].deleted = TRUE, !.report[r].invalidated = TRUE]
  BY DEF DeleteReport, Commit, S, s
<1>5. db \in Store
  BY DEF TypeOK
<1>6. Account(db, S, "cancelled") \in Store /\ Account(db, S, "cancelled").report = db.report
  BY <1>0, <1>5, AccountType, AccountEffect DEF Settled
<1>7. r \in Report => (r \in Active(db) => r \in S) /\ db.report[r] \in Row
  BY <1>5 DEF Store
<1> HIDE DEF S
<1>2. s \in Store
  BY <1>0, CancelPendingType DEF TypeOK
<1>3. Sound(s)
  <2>1. PICK D : Releases(db, CancelPending(db, S), D)
    BY <1>0, <1>5, CancelPendingReleases
  <2> QED
    BY <1>2, <1>5, <2>1, ReleasesKeep
<1>4. ~Waits(s.report[r])
  <2>1. s.report[r] = IF r \in S THEN Unleased(db.report[r], "cancelled") ELSE db.report[r]
    BY <1>6 DEF CancelPending, CancelRows, Store
  <2>2. Unleased(db.report[r], "cancelled").status = "cancelled"
    BY <1>7, UnleasedFields DEF Status
  <2>3. CASE r \in S
    BY <2>1, <2>2, <2>3 DEF Waits, ActiveStatus
  <2>4. CASE r \notin S
    BY <2>1, <2>4, <1>7 DEF Waits, Active, IsActive
  <2> QED
    BY <2>3, <2>4
<1> HIDE DEF s
<1>8. s.report[r] \in Row
  BY <1>2 DEF Store
<1>9. row \in Row /\ row.deleted
  BY ZenonT(60), ZenonT(90), <1>8, RowUpdate DEF Row
<1>10. db' = [s EXCEPT !.report[r] = row]
  BY <1>1, <1>2 DEF Store
<1> HIDE DEF row
<1>11. ~Waits(row)
  BY <1>9 DEF Waits
<1> QED
  BY <1>2, <1>3, <1>4, <1>9, <1>10, <1>11, RowRewrite, Zenon

\* A deleted source keeps the counts, in every month.
LEMMA DeleteSourceSound ==
  ASSUME TypeOK, Consistent(db), Alone(db), Sound(db), NEW u \in User, DeleteSource(u)
  PROVE  Sound(db')
<1>1. PICK S \in SUBSET Of(db, u) : db' = InvalidateSource(db, u, S)
  BY DEF DeleteSource, Commit
<1>2. db \in Store /\ db' \in Store
  BY <1>1, InvalidateSourceType DEF TypeOK, Of
<1>3. PICK D : Releases(db, InvalidateSource(db, u, S), D)
  BY <1>2, InvalidateSourceReleases
<1>4. Releases(db, db', D)
  BY <1>1, <1>3
<1> QED
  BY <1>2, <1>4, ReleasesKeep

\* A deleted account keeps the counts of everyone else and of the deployment.
LEMMA DeleteAccountSound ==
  ASSUME TypeOK, Consistent(db), Sound(db), NEW u \in User, DeleteAccount(u)
  PROVE  Sound(db')
<1>1. db' = PurgeAccount(db, u)
  BY DEF DeleteAccount, Commit
<1>2. db \in Store /\ db' \in Store
  BY <1>1, PurgeAccountType DEF TypeOK
<1>3. PICK D : Releases(db, PurgeAccount(db, u), D)
  BY <1>2, PurgeAccountReleases
<1>4. Releases(db, db', D)
  BY <1>1, <1>3
<1> QED
  BY <1>2, <1>4, ReleasesKeep

\* Reaping keeps the counts.
LEMMA ReapSound ==
  ASSUME NEW s \in Store, Sound(s)
  PROVE  Reap(s) \in Store /\ Sound(Reap(s))
BY ReapType, ReapReleases, ReleasesKeep

\* Recovering lost leases keeps the counts.
LEMMA ExpireLeasesSound ==
  ASSUME NEW s \in Store, Sound(s)
  PROVE  ExpireLeases(s) \in Store /\ Sound(ExpireLeases(s))
<1>1. PICK D : Releases(s, ExpireLeases(s), D)
  BY SMTT(40), SMTT(80), ExpireLeasesReleases
<1> QED
  BY <1>1, ExpireLeasesType, ReleasesKeep

\* A claim keeps the counts: the report it leases waits for its dispatch.
LEMMA ClaimSound ==
  ASSUME TypeOK, Sound(db), NEW w \in Worker, Claim(w)
  PROVE  Sound(db')
<1> DEFINE s1 == Reap(db)
           s == ExpireLeases(s1)
<1>1. s1 \in Store /\ Sound(s1)
  BY SMTT(40), SMTT(80), ReapSound DEF TypeOK
<1>4. \/ db' = s
      \/ \E r \in Report :
           /\ s.report[r].status = "queued"
           /\ db' = [s EXCEPT !.report[r] = [@ EXCEPT !.status = "running", !.token = w, !.lease = "live"]]
  BY DEF Claim, Commit
<1> HIDE DEF s1
<1>2. s \in Store /\ Sound(s)
  BY <1>1, ExpireLeasesSound
<1> HIDE DEF s
<1>6. ASSUME NEW r \in Report,
             s.report[r].status = "queued",
             db' = [s EXCEPT !.report[r] = [@ EXCEPT !.status = "running", !.token = w, !.lease = "live"]]
      PROVE  Sound(db')
  <2> DEFINE old == s.report[r]
             new == [old EXCEPT !.status = "running", !.token = w, !.lease = "live"]
  <2>1. old \in Row
    BY SMTT(40), SMTT(80), <1>2 DEF Store
  <2>2. new \in Row
    BY <2>1, RowUpdate
  <2>3. /\ new.status = "running" /\ new.dispatched = old.dispatched /\ new.deleted = old.deleted
        /\ new.month = old.month /\ new.owner = old.owner
    BY <2>1 DEF Row
  <2>4. old.status = "queued"
    BY <1>6
  <2>5. db' = [s EXCEPT !.report[r] = new]
    BY <1>2, <1>6 DEF Store
  <2> HIDE DEF new
  <2>6. Waits(new) <=> Waits(s.report[r])
    BY <2>3, <2>4 DEF Waits, ActiveStatus
  <2> QED
    BY <1>2, <2>2, <2>3, <2>5, <2>6, RowRewrite, Zenon
<1> QED
  BY <1>2, <1>4, <1>6

\* A requeue keeps the counts: the report goes on waiting.
LEMMA RequeueSound ==
  ASSUME TypeOK, Sound(db), NEW w \in Worker, Requeue(w)
  PROVE  Sound(db')
<1> DEFINE r == worker[w].report
           new == Unleased(db.report[r], "queued")
<1>1. r \in Report /\ db \in Store
  BY WorkersReport DEF Requeue, TypeOK
<1>2. db.report[r] \in Row
  BY SMTT(40), SMTT(80), <1>1 DEF Store
<1>3. \/ db' = db
      \/ db.report[r].status = "running" /\ db' = [db EXCEPT !.report[r] = Unleased(@, "queued")]
  BY DEF Requeue, Holds
<1>4. new \in Row
  BY <1>2, UnleasedType DEF Status, ActiveStatus
<1>5. /\ new.status = "queued" /\ new.dispatched = db.report[r].dispatched
      /\ new.deleted = db.report[r].deleted /\ new.month = db.report[r].month
      /\ new.owner = db.report[r].owner
  BY <1>2 DEF Unleased, Row
<1> HIDE DEF r
<1>6. [db EXCEPT !.report[r] = Unleased(@, "queued")] = [db EXCEPT !.report[r] = new]
  BY <1>1 DEF Store
<1> HIDE DEF new
<1>7. ASSUME db.report[r].status = "running", db' = [db EXCEPT !.report[r] = new]
      PROVE  Sound(db')
  <2>1. Waits(new) <=> Waits(db.report[r])
    BY <1>5, <1>7 DEF Waits, ActiveStatus
  <2> QED
    BY <1>1, <1>4, <1>5, <1>7, <2>1, RowRewrite, Zenon
<1> QED
  BY <1>3, <1>6, <1>7, Zenon

\* The deployment's bucket after a call is settled: nothing is reserved, and no more is
\* spent than the bound its admission committed.
LEMMA SettledBucket ==
  ASSUME NEW b \in GlobalBucket, NEW c \in ActualCosts \cup {NoCost},
         NEW new, new = IF c = NoCost THEN SettleUnknownGlobalBudget(b, 1)
                                      ELSE SettleKnownGlobalBudget(b, Cost, c)
  PROVE  /\ new \in GlobalBucket
         /\ new.reserved = b.reserved /\ new.reservedCost = b.reservedCost
         /\ new.estimated <= b.estimated
<1>1. new \in GlobalBucket
  BY SettleBucketType
<1>2. b.estimated \in Int /\ 1 \in Nat /\ 0 \in Nat /\ Cost \in Nat
  BY ConstantAssumption DEF GlobalBucket
<1>3. CASE c = NoCost
  <2>1. new = SettleUnknownGlobalBudget(b, 1)
    BY <1>3
  <2>2. /\ new.reserved = b.reserved /\ new.reservedCost = b.reservedCost
        /\ new.estimated = b.estimated
    BY <1>2, <2>1, GlobalBucketFields
  <2> QED
    BY <1>1, <1>2, <2>2
<1>4. CASE c # NoCost
  <2>1. new = SettleKnownGlobalBudget(b, Cost, c)
    BY <1>4
  <2>2. c \in Nat /\ c <= Cost
    BY <1>4, <1>2, ConstantAssumption
  <2>3. /\ new.reserved = b.reserved /\ new.reservedCost = b.reservedCost
        /\ new.estimated = b.estimated + (c - Cost)
    BY SMTT(40), SMTT(80), <1>2, <2>1, <2>2, GlobalBucketFields
  <2> QED
    BY <1>1, <1>2, <2>2, <2>3
<1> QED
  BY <1>3, <1>4

\* A provider test keeps the counts: its price is reserved and consumed at once, within
\* the budget, and it takes a slot that was free.
LEMMA AdmitTestSound ==
  ASSUME TypeOK, Sound(db), AdmitTest
  PROVE  Sound(db')
<1> DEFINE s == Reap(db)
           old == s.global[month]
           b == ConsumeGlobalBudget(ReserveGlobalBudget(old, Cost), Cost)
           attempt == NewAttempt(month)
<1>1. s \in Store /\ Sound(s)
  BY SMTT(40), SMTT(80), ReapSound DEF TypeOK
<1>2. \/ db' = s
      \/ \E t \in Test :
        /\ ~Full(s) /\ HasGlobalBudget(s.global[month], Cost, Budget)
        /\ db' = [s EXCEPT !.attempt[t] = NewAttempt(month),
                  !.global[month] = ConsumeGlobalBudget(ReserveGlobalBudget(@, Cost), Cost)]
  BY DEF AdmitTest, Commit
<1> HIDE DEF s
<1>3. month \in Month /\ old \in GlobalBucket
  BY <1>1 DEF TypeOK, Store
<1>4. attempt \in AttemptRow
  BY <1>3, NewAttemptType
<1>5. ASSUME NEW t \in Test,
             ~Full(s), HasGlobalBudget(s.global[month], Cost, Budget),
             db' = [s EXCEPT !.attempt[t] = NewAttempt(month),
                  !.global[month] = ConsumeGlobalBudget(ReserveGlobalBudget(@, Cost), Cost)]
      PROVE  Sound(db')
  <2> DEFINE s1 == [s EXCEPT !.attempt[t] = attempt]
             reserved == ReserveGlobalBudget(old, Cost)
  <2>1. db' = [s1 EXCEPT !.global[month] = b]
    BY <1>1, <1>3, <1>5 DEF Store
  <2>2. t \in Attempt
    BY TestsAreNotReports
  <2>3. old.estimated + old.reservedCost + Cost <= Budget
    BY <1>5 DEF HasGlobalBudget
  <2>8. s1.global = s.global
    BY <1>1 DEF Store
  <2> HIDE DEF attempt
  <2>4. s1 \in Store /\ Sound(s1)
    BY <1>1, <1>4, <1>5, <2>2, AttemptRewrite
  <2> HIDE DEF s1, old
  <2>5. 0 \in Nat /\ reserved \in GlobalBucket /\ b \in GlobalBucket
    BY <1>3, GlobalBucketType
  <2>6. /\ reserved.reserved = old.reserved + 1 /\ reserved.reservedCost = old.reservedCost + Cost
        /\ reserved.estimated = old.estimated
        /\ b.reserved = reserved.reserved - 1 /\ b.reservedCost = reserved.reservedCost - Cost
        /\ b.estimated = reserved.estimated + Cost
    BY <1>3, <2>5, GlobalBucketFields
  <2>7. /\ old.reserved \in Int /\ old.reservedCost \in Int /\ old.estimated \in Int /\ Cost \in Int
        /\ Budget \in Int
    BY <1>3, ConstantAssumption DEF GlobalBucket
  <2> HIDE DEF b, reserved
  <2>9. /\ b.reserved = old.reserved /\ b.reservedCost = old.reservedCost
        /\ b.estimated + b.reservedCost <= Budget
    BY <2>3, <2>6, <2>7
  <2> QED
    BY <1>3, <2>1, <2>4, <2>5, <2>8, <2>9, GlobalRewrite, Zenon DEF old
<1> QED
  BY <1>1, <1>2, <1>5

\* Settling a provider test keeps the counts, at its price or below.
LEMMA SettleTestSound ==
  ASSUME TypeOK, Sound(db), NEW t \in Test, SettleTest(t)
  PROVE  Sound(db')
<1>1. PICK outcome \in {"succeeded", "unknown"}, cost \in ActualCosts \cup {NoCost} :
        db' = [db EXCEPT
            !.attempt[t] = [@ EXCEPT !.status = outcome, !.slot = "free", !.cost = cost],
            !.global[db.attempt[t].month] =
              IF cost = NoCost THEN SettleUnknownGlobalBudget(@, 1)
                               ELSE SettleKnownGlobalBudget(@, Cost, cost)]
  BY DEF SettleTest, Commit
<1> DEFINE attempt == [db.attempt[t] EXCEPT !.status = outcome, !.slot = "free", !.cost = cost]
           m == db.attempt[t].month
           b == IF cost = NoCost THEN SettleUnknownGlobalBudget(db.global[m], 1)
                                 ELSE SettleKnownGlobalBudget(db.global[m], Cost, cost)
           s1 == [db EXCEPT !.attempt[t] = attempt]
<1>2. t \in Attempt /\ db.attempt[t] \in AttemptRow
  BY TestsAreNotReports DEF TypeOK, Store
<1>3. attempt \in AttemptRow /\ attempt.slot = "free"
  <2>1. outcome \in Settled
    BY DEF Settled
  <2> QED
    BY <1>2, <2>1, AttemptUpdate DEF AttemptRow
<1>4. m \in Month /\ db.global[m] \in GlobalBucket
  BY <1>2 DEF TypeOK, Store, AttemptRow
<1>5. db' = [s1 EXCEPT !.global[m] = b] /\ s1.global = db.global
  BY <1>1, <1>4 DEF TypeOK, Store
<1> HIDE DEF attempt
<1>6. s1 \in Store /\ Sound(s1)
  <2>1. attempt.slot \in {"held", "lapsed"} => db.attempt[t].slot \in {"held", "lapsed"}
    BY <1>3
  <2> QED
    BY <1>2, <1>3, <2>1, AttemptRewrite, Zenon DEF TypeOK
<1> HIDE DEF s1, m
<1>7. /\ b \in GlobalBucket /\ b.reserved = db.global[m].reserved
      /\ b.reservedCost = db.global[m].reservedCost /\ b.estimated <= db.global[m].estimated
  BY ZenonT(60), ZenonT(90), <1>4, SettledBucket
<1> HIDE DEF b
<1> QED
  BY <1>4, <1>5, <1>6, <1>7, GlobalRewrite, ZenonT(60), ZenonT(90)

\* Publishing a result keeps the counts: its reservation was consumed at the dispatch.
LEMMA CompleteSound ==
  ASSUME TypeOK, Sound(db), NEW w \in Worker, Complete(w)
  PROVE  Sound(db')
<1> DEFINE r == worker[w].report
           row == db.report[r]
           m == row.month
           completed == Unleased(row, "succeeded")
           Published(cost) == db' = [db EXCEPT
               !.attempt[r] = [@ EXCEPT !.status = "succeeded", !.slot = "free", !.cost = cost],
               !.report[r] = Unleased(@, "succeeded"),
               !.global[row.month] = IF cost = NoCost THEN SettleUnknownGlobalBudget(@, 1)
                                     ELSE SettleKnownGlobalBudget(@, Cost, cost)]
<1>1. r \in Report /\ r \in Attempt
  BY WorkersReport DEF Complete
<1>2. row \in Row /\ db.attempt[r] \in AttemptRow
  BY <1>1 DEF TypeOK, Store
<1>3. m \in Month /\ db.global[m] \in GlobalBucket
  BY <1>2 DEF Row, TypeOK, Store
<1>4. completed \in Row /\ completed.status = "succeeded"
  BY ZenonT(60), ZenonT(90), <1>2, UnleasedType, UnleasedFields DEF Status
<1>6. \/ UNCHANGED db
      \/ row.dispatched /\ \E cost \in ActualCosts \cup {NoCost} : Published(cost)
  BY DEF Complete, Commit
<1> HIDE DEF r
<1>5. ASSUME row.dispatched, NEW cost \in ActualCosts \cup {NoCost}, Published(cost)
      PROVE  Sound(db')
  <2> DEFINE attempt == [db.attempt[r] EXCEPT !.status = "succeeded", !.slot = "free", !.cost = cost]
             b == IF cost = NoCost THEN SettleUnknownGlobalBudget(db.global[m], 1)
                  ELSE SettleKnownGlobalBudget(db.global[m], Cost, cost)
             s1 == [db EXCEPT !.attempt[r] = attempt]
             s2 == [s1 EXCEPT !.report[r] = completed]
  <2>1. attempt \in AttemptRow /\ attempt.slot = "free"
    <3>1. "succeeded" \in Settled /\ db.attempt[r] \in AttemptRow
      BY SMTT(40), SMTT(80), <1>2 DEF Settled
    <3>2. attempt \in AttemptRow
      BY <3>1, AttemptUpdate
    <3>3. attempt.slot = "free"
      BY <3>1 DEF AttemptRow
    <3> QED
      BY <3>2, <3>3
  <2>2. db' = [s2 EXCEPT !.global[m] = b]
    BY <1>1, <1>3, <1>5 DEF TypeOK, Store
  <2>3. s1.report = db.report /\ s2.global = db.global
    BY DEF TypeOK, Store
  <2> HIDE DEF attempt, completed
  <2>4. s1 \in Store /\ Sound(s1)
    <3>1. attempt.slot \in {"held", "lapsed"} => db.attempt[r].slot \in {"held", "lapsed"}
      BY <2>1
    <3> QED
      BY <1>1, <2>1, <3>1, AttemptRewrite, Zenon DEF TypeOK
  <2> HIDE DEF s1
  <2>5. ~Waits(completed) /\ ~Waits(s1.report[r])
    BY <1>4, <1>5, <2>3 DEF Waits, ActiveStatus
  <2>6. s2 \in Store /\ Sound(s2)
    BY <1>1, <1>4, <2>4, <2>5, RowRewrite, Zenon
  <2> HIDE DEF s2, m
  <2>7. /\ b \in GlobalBucket /\ b.reserved = db.global[m].reserved
        /\ b.reservedCost = db.global[m].reservedCost /\ b.estimated <= db.global[m].estimated
    BY <1>3, SettledBucket
  <2> HIDE DEF b
  <2> QED
    BY <1>3, <2>2, <2>3, <2>6, <2>7, GlobalRewrite, Zenon
<1> QED
  BY ZenonT(60), ZenonT(90), <1>5, <1>6

\* A lost lease keeps the counts.
LEMMA LeaseLapseSound ==
  ASSUME TypeOK, Sound(db), NEW r \in Report, LeaseLapse(r)
  PROVE  Sound(db')
<1> DEFINE new == [db.report[r] EXCEPT !.lease = "lapsed"]
<1>1. db \in Store /\ db.report[r] \in Row
  BY SMTT(40), SMTT(80) DEF TypeOK, Store
<1>2. new \in Row
  BY <1>1, RowUpdate
<1>3. /\ new.status = db.report[r].status /\ new.dispatched = db.report[r].dispatched
      /\ new.deleted = db.report[r].deleted /\ new.month = db.report[r].month
      /\ new.owner = db.report[r].owner
  BY <1>1 DEF Row
<1>4. db' = [db EXCEPT !.report[r] = new]
  BY <1>1 DEF LeaseLapse, Store
<1> HIDE DEF new
<1>5. Waits(new) <=> Waits(db.report[r])
  BY <1>3 DEF Waits
<1> QED
  BY <1>1, <1>2, <1>3, <1>4, <1>5, RowRewrite, Zenon

\* The deadline of a call frees no slot, and the end of a call takes none.
LEMMA SlotSound ==
  ASSUME TypeOK, Sound(db), NEW a \in Attempt,
         \/ db' = [db EXCEPT !.attempt[a].slot = "free"]
         \/ db.attempt[a].slot = "held" /\ db' = [db EXCEPT !.attempt[a].slot = "lapsed"]
  PROVE  Sound(db')
<1> DEFINE free == [db.attempt[a] EXCEPT !.slot = "free"]
           lapsed == [db.attempt[a] EXCEPT !.slot = "lapsed"]
<1>1. db \in Store /\ db.attempt[a] \in AttemptRow
  BY DEF TypeOK, Store
<1>2. free \in AttemptRow /\ lapsed \in AttemptRow /\ free.slot = "free"
  BY <1>1 DEF AttemptRow
<1>3. /\ [db EXCEPT !.attempt[a].slot = "free"] = [db EXCEPT !.attempt[a] = free]
      /\ [db EXCEPT !.attempt[a].slot = "lapsed"] = [db EXCEPT !.attempt[a] = lapsed]
  BY <1>1 DEF Store
<1> HIDE DEF free, lapsed
<1>4. CASE db' = [db EXCEPT !.attempt[a] = free]
  <2>1. free.slot \in {"held", "lapsed"} => db.attempt[a].slot \in {"held", "lapsed"}
    BY <1>2
  <2> QED
    BY <1>1, <1>2, <1>4, <2>1, AttemptRewrite, Zenon
<1>5. CASE db.attempt[a].slot = "held" /\ db' = [db EXCEPT !.attempt[a] = lapsed]
  <2>1. lapsed.slot \in {"held", "lapsed"} => db.attempt[a].slot \in {"held", "lapsed"}
    BY <1>5
  <2> QED
    BY <1>1, <1>2, <1>5, <2>1, AttemptRewrite, Zenon
<1> QED
  BY <1>3, <1>4, <1>5, Zenon

\* A failure keeps the counts: an undispatched report gives its reservation back, a
\* dispatched one has none.
LEMMA FailSound ==
  ASSUME TypeOK, Sound(db), NEW w \in Worker, Fail(w)
  PROVE  Sound(db')
<1> DEFINE r == worker[w].report
           a == Account(db, {r}, "failed")
           failed == Unleased(db.report[r], "failed")
           ended == [a EXCEPT !.report[r] = failed]
<1>1. r \in Report /\ r \in Attempt
  BY WorkersReport DEF Fail
<1>2. /\ a \in Store /\ a.report = db.report
      /\ \A b \in Attempt : a.attempt[b].slot = db.attempt[b].slot
  BY <1>1, AccountType, AccountEffect, AccountBuckets DEF TypeOK, Settled
<1>3. ended = [a EXCEPT !.report[r] = Unleased(@, "failed")]
  BY <1>1, <1>2 DEF Store
<1>4. \/ db' = db
      \/ /\ db.report[r].status = "running" /\ ~db.report[r].deleted
         /\ \/ db' = ended
            \/ \E outcome \in {"failed", "unknown"} :
                 db' = [ended EXCEPT !.attempt[r] = [@ EXCEPT !.status = outcome, !.slot = "free"]]
  <2> HIDE DEF failed, ended
  <2> QED
    BY <1>3 DEF Fail, Commit, Holds
<1> HIDE DEF r
<1>5. db.report[r] \in Row /\ db \in Store
  BY <1>1 DEF TypeOK, Store
<1>6. failed \in Row /\ failed.status = "failed"
  BY <1>5, UnleasedType, UnleasedFields DEF Status
<1>7. /\ ended.attempt = a.attempt /\ ended.global = a.global /\ ended.usage = a.usage
      /\ ended.report = [db.report EXCEPT ![r] = failed]
  BY <1>2 DEF Store
<1> HIDE DEF failed
<1>8. ended \in Store
  BY <1>2, <1>6, RowChange
<1> HIDE DEF ended
<1>9. ASSUME db.report[r].status = "running", ~db.report[r].deleted PROVE Sound(ended)
  <2>1. RowsRelease(db, ended, Undispatched(db, {r}))
    <3> SUFFICES ASSUME NEW q \in Report
                 PROVE  /\ q \in Undispatched(db, {r}) => Waits(db.report[q]) /\ ~Waits(ended.report[q])
                        /\ q \notin Undispatched(db, {r}) => Waits(ended.report[q]) = Waits(db.report[q])
                        /\ Waits(ended.report[q]) =>
                             ended.report[q].month = db.report[q].month
                             /\ ended.report[q].owner = db.report[q].owner
      BY DEF RowsRelease
    <3>1. CASE q # r
      BY <1>5, <1>7, <3>1 DEF Undispatched, Store
    <3>2. CASE q = r
      <4>1. ended.report[q].status = "failed"
        BY <1>1, <1>5, <1>6, <1>7, <3>2 DEF Store
      <4>2. ~Waits(ended.report[q])
        BY <4>1 DEF Waits, ActiveStatus
      <4>3. Waits(db.report[q]) <=> ~db.report[q].dispatched
        BY <1>9, <3>2 DEF Waits, ActiveStatus
      <4>4. q \in Undispatched(db, {r}) <=> ~db.report[q].dispatched
        BY <3>2 DEF Undispatched
      <4> QED
        BY <4>2, <4>3, <4>4 DEF Waits
    <3> QED
      BY <3>1, <3>2
  <2>2. \A b \in Attempt : ended.attempt[b].slot \in {db.attempt[b].slot, "free"}
    BY <1>2, <1>7
  <2>3. Slots(ended) \subseteq Slots(db)
    BY <1>5, <1>8, <2>2, SlotsStay
  <2>4. {r} \in SUBSET Report /\ "failed" \in Settled
    BY <1>1 DEF Settled
  <2>5. Releases(db, ended, Undispatched(db, {r}))
    BY <1>5, <1>7, <2>1, <2>3, <2>4, AccountReleases
  <2> QED
    BY <1>5, <1>8, <2>5, ReleasesKeep
<1>10. ASSUME db.report[r].status = "running", ~db.report[r].deleted,
              NEW outcome \in {"failed", "unknown"},
              db' = [ended EXCEPT !.attempt[r] = [@ EXCEPT !.status = outcome, !.slot = "free"]]
       PROVE  Sound(db')
  <2> DEFINE attempt == [ended.attempt[r] EXCEPT !.status = outcome, !.slot = "free"]
  <2>1. ended.attempt[r] \in AttemptRow /\ outcome \in Settled
    BY SMTT(40), SMTT(80), <1>1, <1>8 DEF Store, Settled
  <2>2. attempt \in AttemptRow
    BY <2>1, AttemptUpdate
  <2>3. attempt.slot = "free"
    BY <2>1 DEF AttemptRow
  <2>4. db' = [ended EXCEPT !.attempt[r] = attempt]
    BY <1>1, <1>8, <1>10 DEF Store
  <2> HIDE DEF attempt
  <2>5. attempt.slot \in {"held", "lapsed"} => ended.attempt[r].slot \in {"held", "lapsed"}
    BY <2>3
  <2>6. Sound(ended)
    BY <1>9, <1>10
  <2> QED
    BY <1>1, <1>8, <2>2, <2>4, <2>5, <2>6, AttemptRewrite, Zenon
<1> QED
  BY ZenonT(60), ZenonT(90), <1>4, <1>9, <1>10

\* A report counts once where it belongs.
LEMMA OneCount ==
  ASSUME NEW r \in Report
  PROVE  \A S : Cardinality({r} \cap S) = IF r \in S THEN 1 ELSE 0
<1>1. Cardinality({}) = 0 /\ Cardinality({r}) = 1
  BY ZenonT(60), ZenonT(90), FS_EmptySet, FS_Singleton
<1>2. ASSUME NEW S PROVE {r} \cap S = IF r \in S THEN {r} ELSE {}
  BY SMTT(40), SMTT(80)
<1> QED
  BY <1>1, <1>2

\* A dispatch keeps the counts: it consumes the reservation of the report, which waited,
\* and takes a slot that was free.
LEMMA DispatchSound ==
  ASSUME NEW s \in Store, Sound(s), ~Full(s), NEW r \in Report, Waits(s.report[r]),
         s.report[r].owner \in User,
         NEW t, t = [s EXCEPT
             !.report[r].dispatched = TRUE,
             !.attempt[r] = NewAttempt(s.report[r].month),
             !.global[s.report[r].month] = ConsumeGlobalBudget(@, Cost),
             !.usage[s.report[r].owner][s.report[r].month] = ConsumeUserQuota(@)]
  PROVE  Sound(t)
<1> DEFINE row == s.report[r]
           n == row.month
           o == row.owner
           old == s.global[n]
           mine == s.usage[o][n]
           b == ConsumeGlobalBudget(old, Cost)
           q == ConsumeUserQuota(mine)
           attempt == NewAttempt(n)
           admitted == [row EXCEPT !.dispatched = TRUE]
           s1 == [s EXCEPT !.attempt[r] = attempt]
           s2 == [s1 EXCEPT !.report[r] = admitted]
           s3 == [s2 EXCEPT !.global[n] = b]
           s4 == [s3 EXCEPT !.usage[o][n] = q]
<1>1. row \in Row /\ n \in Month /\ o \in User /\ r \in Attempt
  BY SMTT(40), SMTT(80), ReportsAreAttempts DEF Store, Row
<1>2. old \in GlobalBucket /\ mine \in UserBucket /\ 0 \in Nat
  BY ZenonT(60), ZenonT(90), <1>1 DEF Store
<1>3. b \in GlobalBucket /\ q \in UserBucket /\ attempt \in AttemptRow /\ admitted \in Row
  BY ZenonT(60), ZenonT(90), <1>1, <1>2, GlobalBucketType, UserBucketType, NewAttemptType, RowUpdate
<1>4. t = s4
  BY ZenonT(60), ZenonT(90), <1>1 DEF Store
<1>5. /\ b.reserved = old.reserved - 1 /\ b.reservedCost = old.reservedCost - Cost
      /\ b.estimated = old.estimated + Cost
  BY ZenonT(60), ZenonT(90), <1>2, GlobalBucketFields
<1>6. q.reserved = AtLeastZero(mine.reserved - 1) /\ q.consumed = mine.consumed + 1
  BY <1>2, UserBucketFields
<1>7. /\ s4.attempt = s1.attempt
      /\ s4.report = [s.report EXCEPT ![r] = admitted]
      /\ s4.global = [s.global EXCEPT ![n] = b]
      /\ s4.usage = [s.usage EXCEPT ![o][n] = q]
  BY DEF Store
<1>8. admitted.dispatched
  BY <1>1 DEF Row
<1> HIDE DEF b, q, attempt, admitted
<1>9. s1 \in Store /\ Sound(s1)
  BY <1>1, <1>3, AttemptRewrite
<1> HIDE DEF s1
<1>10. s4 \in Store
  <2>1. s2 \in Store
    BY <1>3, <1>9, RowChange
  <2> HIDE DEF s2, n, o
  <2>2. s3 \in Store
    BY <1>3, <2>1, GlobalChange
  <2> HIDE DEF s3
  <2> QED
    BY <1>3, <2>2, UsageChange
<1> HIDE DEF s4
<1>11. RowsRelease(s, s4, {r})
  <2> SUFFICES ASSUME NEW p \in Report
               PROVE  /\ p = r => Waits(s.report[p]) /\ ~Waits(s4.report[p])
                      /\ p # r => Waits(s4.report[p]) = Waits(s.report[p])
                      /\ Waits(s4.report[p]) =>
                           s4.report[p].month = s.report[p].month /\ s4.report[p].owner = s.report[p].owner
    BY DEF RowsRelease
  <2>1. s4.report[p] = IF p = r THEN admitted ELSE s.report[p]
    BY SMTT(40), SMTT(80), <1>7 DEF Store
  <2> QED
    BY <1>8, <2>1 DEF Waits
<1>12. GlobalReleases(s, s4, {r})
  <2> SUFFICES ASSUME NEW m \in Month
               PROVE  /\ s4.global[m].reserved = s.global[m].reserved - Cardinality({r} \cap In(s, m))
                      /\ s4.global[m].reservedCost
                           = s.global[m].reservedCost - Cardinality({r} \cap In(s, m)) * Cost
                      /\ \/ s4.global[m].estimated + s4.global[m].reservedCost
                              <= s.global[m].estimated + s.global[m].reservedCost
                         \/ s4.global[m].estimated + s4.global[m].reservedCost <= Budget
    BY DEF GlobalReleases
  <2> DEFINE k == Cardinality({r} \cap In(s, m))
  <2>1. k = IF r \in In(s, m) THEN 1 ELSE 0
    BY OneCount
  <2>2. r \in In(s, m) <=> m = n
    BY DEF In
  <2>3. s4.global[m] = IF m = n THEN b ELSE s.global[m]
    BY <1>7 DEF Store
  <2>4. /\ s.global[m].reserved \in Int /\ s.global[m].reservedCost \in Int
        /\ s.global[m].estimated \in Int /\ Cost \in Int
    BY ConstantAssumption DEF Store, GlobalBucket
  <2> HIDE DEF k, n
  <2>5. CASE m = n
    BY <1>5, <2>1, <2>2, <2>3, <2>4, <2>5 DEF k
  <2>6. CASE m # n
    BY <2>1, <2>2, <2>3, <2>4, <2>6 DEF k
  <2> QED
    BY SMTT(40), SMTT(80), <2>5, <2>6
<1>13. UsageReleases(s, s4, {r})
  <2> SUFFICES ASSUME NEW u \in User, NEW m \in Month
               PROVE  UsageReleased(s.usage[u][m], s4.usage[u][m],
                                    Cardinality({r} \cap Of(s, u) \cap In(s, m)))
    BY DEF UsageReleases
  <2> DEFINE k == Cardinality({r} \cap (Of(s, u) \cap In(s, m)))
  <2>1. k = IF r \in Of(s, u) \cap In(s, m) THEN 1 ELSE 0
    BY OneCount
  <2>2. r \in Of(s, u) \cap In(s, m) <=> u = o /\ m = n
    BY SMTT(40), SMTT(80) DEF Of, In
  <2>3. s4.usage[u][m] = IF u = o /\ m = n THEN q ELSE s.usage[u][m]
    BY <1>7 DEF Store
  <2>4. s.usage[u][m].reserved \in Nat /\ s.usage[u][m].consumed \in Nat
    BY SMTT(40), SMTT(80) DEF Store, UserBucket
  <2>5. mine.reserved >= 1
    <3>1. r \in Owed(s, n) \cap Of(s, o) /\ Owed(s, n) \cap Of(s, o) \subseteq Attempt
      BY ReportsAreAttempts DEF Owed, Of
    <3>2. {r} \in SUBSET (Owed(s, n) \cap Of(s, o))
      BY <3>1
    <3>3. Cardinality({r}) <= Cardinality(Owed(s, n) \cap Of(s, o)) /\ Cardinality({r}) = 1
      BY <3>1, <3>2, Counts, FS_Singleton
    <3>4. mine.reserved = Cardinality(Owed(s, n) \cap Of(s, o))
      BY <1>1 DEF Sound, Backed
    <3>5. Cardinality(Owed(s, n) \cap Of(s, o)) \in Nat
      BY <3>1, Counts
    <3> QED
      BY <3>3, <3>4, <3>5
  <2>6. {r} \cap Of(s, u) \cap In(s, m) = {r} \cap (Of(s, u) \cap In(s, m))
    OBVIOUS
  <2>10. s.usage[o][n] = mine
    OBVIOUS
  <2> HIDE DEF k, n, o, mine
  <2>7. CASE u = o /\ m = n
    <3>1. k = 1 /\ s4.usage[u][m] = q /\ s.usage[u][m] = mine
      BY <2>1, <2>2, <2>3, <2>7, <2>10
    <3>2. UsageReleased(s.usage[u][m], s4.usage[u][m], k)
      BY <1>6, <2>4, <2>5, <3>1 DEF UsageReleased, AtLeastZero
    <3> QED
      BY <2>6, <3>2 DEF k
  <2>8. CASE ~(u = o /\ m = n)
    <3>1. k = 0 /\ s4.usage[u][m] = s.usage[u][m]
      BY SMTT(40), SMTT(80), <2>1, <2>2, <2>3, <2>8
    <3>2. UsageReleased(s.usage[u][m], s4.usage[u][m], k)
      BY SMTT(40), SMTT(80), <2>4, <3>1 DEF UsageReleased, AtLeastZero
    <3> QED
      BY <2>6, <3>2 DEF k
  <2> QED
    BY <2>7, <2>8
<1>14. Capacity(s4)
  BY <1>7, <1>9 DEF Sound, Capacity, Slots
<1>15. Releases(s, s4, {r})
  BY <1>11, <1>12, <1>13, <1>14 DEF Releases
<1> QED
  BY <1>4, <1>10, <1>15, ReleasesKeep

\* An admission keeps the counts.
LEMMA AdmitSound ==
  ASSUME TypeOK, Consistent(db), Sound(db), NEW w \in Worker, Admit(w)
  PROVE  Sound(db')
<1> DEFINE s == Reap(db)
           r == worker[w].report
           Granted ==
             /\ Holds(s, w, r) /\ ~s.report[r].dispatched /\ ~Full(s)
             /\ db' = [s EXCEPT
                  !.report[r].dispatched = TRUE,
                  !.attempt[r] = NewAttempt(s.report[r].month),
                  !.global[s.report[r].month] = ConsumeGlobalBudget(@, Cost),
                  !.usage[s.report[r].owner][s.report[r].month] = ConsumeUserQuota(@)]
<1>1. s \in Store /\ Sound(s) /\ Consistent(s)
  BY ZenonT(60), ZenonT(90), ReapSound, ReapContinues DEF TypeOK, Continues
<1>2. r \in Report
  BY ZenonT(60), ZenonT(90), WorkersReport DEF Admit
<1>3. db' = s \/ db' = db \/ Granted
  BY DEF Admit, Commit
<1> HIDE DEF s, r
<1>4. ASSUME Granted PROVE Sound(db')
  <2>1. Waits(s.report[r])
    BY SMTT(40), SMTT(80), <1>4 DEF Holds, Waits, ActiveStatus
  <2>2. s.report[r].owner \in User
    <3>1. s.report[r] \in Row /\ RowMatches(s.report[r], s.attempt[r])
      BY <1>1, <1>2 DEF Store, Consistent
    <3> QED
      BY <1>4, <3>1 DEF RowMatches, Row, Holds
  <2> QED
    BY <1>1, <1>2, <1>4, <2>1, <2>2, DispatchSound, Zenon
<1> QED
  BY <1>1, <1>3, <1>4

\* A submission keeps the counts: the report it adds waits, with one reservation in the
\* owner's and in the deployment's bucket, each below its limit.
LEMMA GenerateSound ==
  ASSUME TypeOK, Sound(db), NEW u \in User, Generate(u)
  PROVE  Sound(db')
<1>1. PICK r \in Report :
        /\ db.report[r].status = "absent"
        /\ db' = [db EXCEPT
            !.global[month] = ReserveGlobalBudget(@, Cost),
            !.usage[u][month] = ReserveUserQuota(@),
            !.report[r] = [NoRow("queued") EXCEPT !.owner = u, !.month = month,
                             !.provider = runtime.provider, !.prompt = runtime.prompt]]
  BY DEF Generate, Commit
<1> DEFINE old == db.global[month]
           mine == db.usage[u][month]
           b == ReserveGlobalBudget(old, Cost)
           q == ReserveUserQuota(mine)
           row == [NoRow("queued") EXCEPT !.owner = u, !.month = month,
                             !.provider = runtime.provider, !.prompt = runtime.prompt]
<1>2. db \in Store /\ db' \in Store /\ month \in Month /\ r \in Attempt
  BY GenerateType, ReportsAreAttempts DEF TypeOK
<1>3. old \in GlobalBucket /\ mine \in UserBucket /\ 0 \in Nat
  BY <1>2 DEF Store
<1>4. /\ b.reserved = old.reserved + 1 /\ b.reservedCost = old.reservedCost + Cost
      /\ b.estimated = old.estimated
      /\ q.reserved = mine.reserved + 1 /\ q.consumed = mine.consumed
  BY SMTT(40), SMTT(80), <1>3, GlobalBucketFields, UserBucketFields
<1>5. /\ row.status = "queued" /\ ~row.deleted /\ ~row.dispatched
      /\ row.owner = u /\ row.month = month
  BY DEF NoRow
<1>6. /\ db'.attempt = db.attempt
      /\ \A p \in Report : db'.report[p] = IF p = r THEN row ELSE db.report[p]
      /\ \A m \in Month : db'.global[m] = IF m = month THEN b ELSE db.global[m]
      /\ \A v \in User, m \in Month :
           db'.usage[v][m] = IF v = u /\ m = month THEN q ELSE db.usage[v][m]
  BY <1>1, <1>2 DEF Store
<1>7. /\ old.estimated + old.reservedCost + Cost <= Budget
      /\ mine.reserved + mine.consumed < Quota
  BY DEF Generate, HasGlobalBudget, HasUserQuota
<1>8. db.global[month] = old /\ db.usage[u][month] = mine
  OBVIOUS
<1>9. /\ old.reserved \in Int /\ old.reservedCost \in Int /\ old.estimated \in Int
      /\ mine.reserved \in Int /\ mine.consumed \in Int
      /\ Cost \in Int /\ Budget \in Int /\ Quota \in Int
  BY <1>3, ConstantAssumption DEF GlobalBucket, UserBucket
<1>10. db.report[r].status = "absent"
  BY <1>1
<1> HIDE DEF old, mine, b, q, row
<1>11. ~Waits(db.report[r]) /\ Waits(row)
  BY <1>5, <1>10 DEF Waits, ActiveStatus
<1>12. ASSUME NEW m \in Month
       PROVE  /\ Owed(db, m) \subseteq Attempt /\ r \notin Owed(db, m)
              /\ Owed(db', m) = IF m = month THEN Owed(db, m) \cup {r} ELSE Owed(db, m)
  BY <1>5, <1>6, <1>11, ReportsAreAttempts DEF Owed
<1>13. ASSUME NEW m \in Month, NEW v \in User
       PROVE  Owed(db', m) \cap Of(db', v)
                = IF v = u /\ m = month THEN (Owed(db, m) \cap Of(db, v)) \cup {r}
                                        ELSE Owed(db, m) \cap Of(db, v)
  BY <1>5, <1>6, <1>11 DEF Owed, Of
<1>14. ASSUME NEW m \in Month
       PROVE  /\ db'.global[m].reserved = Cardinality(Owed(db', m))
              /\ db'.global[m].reservedCost = Cost * Cardinality(Owed(db', m))
              /\ db'.global[m].estimated + db'.global[m].reservedCost <= Budget
  <2>1. /\ db.global[m].reserved = Cardinality(Owed(db, m))
        /\ db.global[m].reservedCost = Cost * Cardinality(Owed(db, m))
        /\ db.global[m].estimated + db.global[m].reservedCost <= Budget
    BY DEF Sound, Backed, Limits
  <2>2. CASE m = month
    <3> DEFINE n == Cardinality(Owed(db, m))
    <3>1. n \in Nat /\ Cardinality(Owed(db', m)) = n + 1
      BY <1>2, <1>12, <2>2, Counts
    <3>2. old.reserved = n /\ old.reservedCost = Cost * n
      BY <2>1, <2>2, <1>8
    <3>3. db'.global[m] = b
      BY <1>6, <2>2
    <3> HIDE DEF n
    <3>4. Cost * (n + 1) = Cost * n + Cost
      BY <3>1, Prices
    <3>5. b.reserved = n + 1 /\ b.reservedCost = Cost * (n + 1)
      BY <1>4, <3>2, <3>4
    <3>6. b.estimated + b.reservedCost <= Budget
      BY <1>4, <1>7, <1>9
    <3> QED
      BY <3>1, <3>3, <3>5, <3>6
  <2>3. CASE m # month
    BY <1>6, <1>12, <2>1, <2>3
  <2> QED
    BY <2>2, <2>3
<1>15. ASSUME NEW m \in Month, NEW v \in User
       PROVE  /\ db'.usage[v][m].reserved = Cardinality(Owed(db', m) \cap Of(db', v))
              /\ db'.usage[v][m].reserved + db'.usage[v][m].consumed <= Quota
  <2>1. /\ db.usage[v][m].reserved = Cardinality(Owed(db, m) \cap Of(db, v))
        /\ db.usage[v][m].reserved + db.usage[v][m].consumed <= Quota
    BY DEF Sound, Backed, Limits
  <2>2. CASE v = u /\ m = month
    <3> DEFINE n == Cardinality(Owed(db, m) \cap Of(db, v))
    <3>0. /\ Owed(db, m) \cap Of(db, v) \subseteq Attempt /\ r \in Attempt \ (Owed(db, m) \cap Of(db, v))
          /\ Owed(db', m) \cap Of(db', v) = (Owed(db, m) \cap Of(db, v)) \cup {r}
      BY <1>2, <1>12, <1>13, <2>2
    <3>1. n \in Nat /\ Cardinality(Owed(db', m) \cap Of(db', v)) = n + 1
      BY <3>0, Counts
    <3>2. mine.reserved = n
      BY <2>1, <2>2, <1>8
    <3>3. db'.usage[v][m] = q
      BY <1>6, <2>2
    <3> HIDE DEF n
    <3>4. q.reserved = n + 1 /\ q.reserved + q.consumed <= Quota
      BY <1>4, <1>7, <1>9, <3>2
    <3> QED
      BY <3>1, <3>3, <3>4
  <2>3. CASE ~(v = u /\ m = month)
    BY <1>6, <1>13, <2>1, <2>3
  <2> QED
    BY <2>2, <2>3
<1>16. Backed(db')
  BY <1>14, <1>15 DEF Backed
<1>17. Limits(db')
  BY <1>14, <1>15 DEF Limits
<1>18. Capacity(db')
  BY <1>6 DEF Sound, Capacity, Slots
<1> QED
  BY <1>16, <1>17, <1>18 DEF Sound

-----------------------------------------------------------------------------
(* The invariant and the theorems.                                         *)

\* Nothing is reserved, spent or called at first.
LEMMA InitSound == Init => Sound(db)
<1> SUFFICES ASSUME Init PROVE Sound(db)
  OBVIOUS
<1>1. db \in Store
  BY InitType DEF TypeOK
<1>2. /\ \A r \in Report : db.report[r] = NoRow("absent")
      /\ \A a \in Attempt : db.attempt[a] = NoAttempt
      /\ \A u \in User, m \in Month : db.usage[u][m] = EmptyUserBucket
      /\ \A m \in Month : db.global[m] = EmptyGlobalBucket
  BY DEF Init
<1>3. Slots(db) = {} /\ \A m \in Month : Owed(db, m) = {}
  BY <1>2 DEF Slots, Owed, Waits, NoRow, NoAttempt, ActiveStatus
<1>4. Cardinality({}) = 0 /\ \A S : Cardinality({} \cap S) = 0
  BY FS_EmptySet, NoCount
<1>5. Budget \in Nat /\ Quota \in Nat /\ Cost \in Nat
  BY ConstantAssumption
<1>6. Backed(db)
  <2>1. ASSUME NEW m \in Month
        PROVE  db.global[m].reserved = 0 /\ db.global[m].reservedCost = 0
    BY <1>2 DEF EmptyGlobalBucket
  <2>2. ASSUME NEW u \in User, NEW m \in Month
        PROVE  db.usage[u][m].reserved = 0
    BY <1>2 DEF EmptyUserBucket
  <2>3. Cost * 0 = 0
    BY <1>5
  <2>4. ASSUME NEW m \in Month
        PROVE  /\ Cardinality(Owed(db, m)) = 0
               /\ \A u \in User : Cardinality(Owed(db, m) \cap Of(db, u)) = 0
    BY <1>3, <1>4, Zenon
  <2> QED
    BY <2>1, <2>2, <2>3, <2>4 DEF Backed
<1>7. Limits(db)
  BY <1>2, <1>5 DEF Limits, EmptyGlobalBucket, EmptyUserBucket
<1>8. Capacity(db)
  BY <1>3, <1>4 DEF Capacity, CallCapacity
<1> QED
  BY <1>6, <1>7, <1>8 DEF Sound

\* Every step keeps the counts.
LEMMA SoundStep == IInv /\ Sound(db) /\ [Next]_vars => Sound(db')
<1> SUFFICES ASSUME IInv, Sound(db), [Next]_vars PROVE Sound(db')
  OBVIOUS
<1>1. TypeOK /\ Consistent(db)
  BY DEF IInv
<1>2. Alone(db)
  BY DEF IInv, OneActiveJob, Alone, Active, IsActive
<1>3. ASSUME NEW u \in User, OwnerRequest(u) PROVE Sound(db')
  <2>1. CASE Generate(u)
    BY <1>1, <2>1, GenerateSound
  <2>2. CASE AcceptConsent(u)
    BY <2>2 DEF AcceptConsent
  <2>3. CASE RevokeConsent(u)
    <3>1. db' = CancelPending(db, Active(db) \cap Of(db, u))
      BY <2>3 DEF RevokeConsent, Commit
    <3> QED
      BY <1>1, <3>1, CancellingSound
  <2>4. CASE DeleteSource(u)
    BY <1>1, <1>2, <2>4, DeleteSourceSound
  <2> QED
    BY <1>3, <2>1, <2>2, <2>3, <2>4 DEF OwnerRequest
<1>4. ASSUME NEW r \in Report, OwnerReportRequest(r) PROVE Sound(db')
  <2>1. CASE CancelReport(r)
    <3>1. r \in Active(db) /\ db' = CancelPending(db, {r})
      BY <2>1 DEF CancelReport, Commit
    <3> QED
      BY <1>1, <3>1, CancellingSound
  <2>2. CASE DeleteReport(r)
    BY <1>1, <2>2, DeleteReportSound
  <2> QED
    BY <1>4, <2>1, <2>2 DEF OwnerReportRequest
<1>5. ASSUME AdminRequest PROVE Sound(db')
  <2>1. ASSUME NEW u \in User, UpdateAccess(u) PROVE Sound(db')
    <3>1. db' = db \/ db' = CancelPending(db, Active(db) \cap Of(db, u))
      BY <2>1 DEF UpdateAccess, Commit
    <3> QED
      BY <1>1, <3>1, CancellingSound
  <2>2. ASSUME NEW u \in User, DeleteAccount(u) PROVE Sound(db')
    BY <1>1, <2>2, DeleteAccountSound
  <2>3. CASE UpdateGenerationEnabled
    <3>1. db' = db \/ db' = CancelPending(db, Active(db))
      BY <2>3 DEF UpdateGenerationEnabled, Commit
    <3> QED
      BY <1>1, <3>1, CancellingSound
  <2>4. CASE PublishProvider
    <3>1. db' = CancelPending(db, {r \in Active(db) : db.report[r].provider = runtime.provider})
      BY <2>4 DEF PublishProvider, Commit
    <3> QED
      BY <1>1, <3>1, CancellingSound
  <2>5. CASE PublishPrompt
    BY <2>5 DEF PublishPrompt
  <2>6. CASE AdmitTest
    BY <1>1, <2>6, AdmitTestSound
  <2>7. ASSUME NEW t \in Test, SettleTest(t) PROVE Sound(db')
    BY <1>1, <2>7, SettleTestSound
  <2> QED
    BY <1>5, <2>1, <2>2, <2>3, <2>4, <2>5, <2>6, <2>7 DEF AdminRequest
<1>6. ASSUME NEW w \in Worker, Claim(w) \/ Work(w) \/ Crash(w) PROVE Sound(db')
  <2>1. CASE Claim(w)
    BY <1>1, <2>1, ClaimSound
  <2>2. CASE Precheck(w) \/ CallReturns(w) \/ Crash(w)
    BY <2>2 DEF Precheck, CallReturns, Crash
  <2>3. CASE Admit(w)
    BY <1>1, <2>3, AdmitSound
  <2>4. CASE Requeue(w)
    BY <1>1, <2>4, RequeueSound
  <2>5. CASE Complete(w)
    BY <1>1, <2>5, CompleteSound
  <2>6. CASE Fail(w)
    BY <1>1, <2>6, FailSound
  <2>7. CASE ReleaseSlot(w)
    <3>1. worker[w].report \in Attempt
      BY <1>1, <2>7, WorkersReport DEF ReleaseSlot
    <3>2. db' = db \/ db' = [db EXCEPT !.attempt[worker[w].report].slot = "free"]
      BY <2>7 DEF ReleaseSlot
    <3> QED
      BY <1>1, <3>1, <3>2, SlotSound, Zenon
  <2> QED
    BY <1>6, <2>1, <2>2, <2>3, <2>4, <2>5, <2>6, <2>7 DEF Work
<1>7. ASSUME Time PROVE Sound(db')
  <2>1. ASSUME NEW r \in Report, LeaseLapse(r) PROVE Sound(db')
    BY <1>1, <2>1, LeaseLapseSound
  <2>2. ASSUME NEW a \in Attempt, SlotLapse(a) PROVE Sound(db')
    <3>1. db.attempt[a].slot = "held" /\ db' = [db EXCEPT !.attempt[a].slot = "lapsed"]
      BY <2>2 DEF SlotLapse
    <3> QED
      BY <1>1, <3>1, SlotSound, Zenon
  <2>3. CASE NextMonth
    BY <2>3 DEF NextMonth
  <2> QED
    BY <1>7, <2>1, <2>2, <2>3 DEF Time
<1>8. CASE UNCHANGED vars
  BY <1>8 DEF vars
<1> QED
  BY <1>3, <1>4, <1>5, <1>6, <1>7, <1>8 DEF Next

\* The counts always hold.
LEMMA AccountInvariant == Spec => [](IInv /\ Sound(db))
<1>1. Init => IInv /\ Sound(db)
  BY InitInvariant, InitSound
<1>2. IInv /\ Sound(db) /\ [Next]_vars => (IInv /\ Sound(db))'
  BY InvariantStep, SoundStep
<1> QED
  BY <1>1, <1>2, PTL DEF Spec

\* What waits in a month is what the properties count as waiting.
LEMMA WaitingIsOwed == \A m \in Month : Waiting(m) = Owed(db, m)
BY DEF Waiting, Owed, Waits, Active, IsActive, In

\* No reservation leaks and none is given back twice: cancelling, deleting, revoking,
\* dispatching and losing leases leave one reservation for each job that still waits.
THEOREM EveryReservationIsBacked == Spec => []ReservationsBacked
<1>1. IInv /\ Sound(db) => ReservationsBacked
  BY WaitingIsOwed DEF Sound, Backed, ReservationsBacked
<1> QED
  BY <1>1, AccountInvariant, PTL

\* Neither the monthly budget nor an owner's quota is ever exceeded, whatever
\* submissions, dispatches, provider tests and settlements interleave.
THEOREM LimitsHold == Spec => []WithinLimits
<1>1. IInv /\ Sound(db) => WithinLimits
  BY DEF Sound, Limits, WithinLimits
<1> QED
  BY <1>1, AccountInvariant, PTL

\* Reports and provider tests together never have more calls in flight than the
\* deployment's capacity.
THEOREM CapacityHolds == Spec => []CapacityRespected
<1>1. IInv /\ Sound(db) => CapacityRespected
  BY DEF Sound, Capacity, CapacityRespected
<1> QED
  BY <1>1, AccountInvariant, PTL

-----------------------------------------------------------------------------
(* Who frees a provider slot: only the worker whose call it was, or the    *)
(* deadline.                                                               *)
(*                                                                         *)
(* Almost every statement leaves held slots held and starts or dispatches  *)
(* no claim (Keeps).  The exception that needs an argument is the failure  *)
(* of a worker whose admission was rejected: it frees a slot when its      *)
(* report is dispatched, which PreAdmitted shows it never is.              *)

\* the stages of a worker that has a claim and was not admitted yet
Early == {"claimed", "checked", "requeueing", "rejected"}

\* a worker that was not admitted and still has its claim has dispatched nothing
PreAdmitted ==
  \A w \in Worker :
    worker[w].pc \in Early /\ Holds(db, w, worker[w].report)
      => ~db.report[worker[w].report].dispatched

\* from s to t no report is claimed, dispatched or loses its slot
RunKept(old, new) ==
  new.status = "running" =>
    old.status = "running" /\ new.token = old.token /\ new.dispatched = old.dispatched

Keeps(s, t) ==
  \A r \in Report :
    /\ RunKept(s.report[r], t.report[r])
    /\ s.attempt[r].slot = "held" => t.attempt[r].slot = "held"

\* no worker comes to a stage before its admission
NoNewClaim ==
  \A w \in Worker : worker'[w].pc \in Early =>
    worker[w].pc \in Early /\ worker'[w].report = worker[w].report

SlotsOutlive ==
  \A r \in Report :
    db.attempt[r].slot = "held" /\ db'.attempt[r].slot = "free" =>
      \E w \in Worker : worker[w].report = r /\ worker[w].pc \in {"answered", "erred", "finishing"}

-----------------------------------------------------------------------------
(* The statements.                                                         *)

\* Keeping is transitive.
LEMMA KeepsIsTransitive ==
  ASSUME NEW s, NEW t, NEW v, Keeps(s, t), Keeps(t, v)
  PROVE  Keeps(s, v)
BY DEF Keeps, RunKept

\* Cancelling ends runs and keeps their slots.
LEMMA CancelPendingKeeps ==
  ASSUME NEW s \in Store, NEW S \in SUBSET Report
  PROVE  Keeps(s, CancelPending(s, S))
<1> DEFINE a == Account(s, S, "cancelled")
           t == CancelPending(s, S)
<1>0. "cancelled" \in Settled
  BY DEF Settled
<1>1. a \in Store /\ a.report = s.report
  BY <1>0, AccountType, AccountEffect
<1>2. /\ t.report = [r \in Report |-> IF r \in S THEN Unleased(s.report[r], "cancelled") ELSE s.report[r]]
      /\ t.attempt = a.attempt
  BY <1>1 DEF CancelPending, CancelRows, Store
<1>3. \A b \in Attempt : a.attempt[b].slot = s.attempt[b].slot
  BY <1>0, AccountBuckets
<1> HIDE DEF a, t
<1>4. ASSUME NEW r \in Report
      PROVE  RunKept(s.report[r], t.report[r]) /\ t.attempt[r].slot = s.attempt[r].slot
  <2>1. s.report[r] \in Row
    BY DEF Store
  <2>2. Unleased(s.report[r], "cancelled").status = "cancelled"
    BY <2>1, UnleasedFields DEF Status
  <2> QED
    BY <1>2, <1>3, <2>2, ReportsAreAttempts DEF RunKept
<1>5. Keeps(s, t)
  BY <1>4 DEF Keeps
<1> QED
  BY <1>5 DEF t

\* The reaper frees slots whose deadline has passed, and no other.
LEMMA ReapKeeps ==
  ASSUME NEW s \in Store
  PROVE  Keeps(s, Reap(s))
<1> DEFINE lapsed == {a \in Attempt : s.attempt[a].slot = "lapsed"}
           open == {a \in lapsed : s.attempt[a].status = "dispatched"}
           lost == {r \in Report \cap open : s.report[r].status = "running" /\ s.report[r].dispatched
                                              /\ ~s.report[r].deleted}
           attempt == [a \in Attempt |->
             IF a \in lapsed
             THEN [s.attempt[a] EXCEPT !.slot = "free", !.status = IF a \in open THEN "unknown" ELSE @]
             ELSE s.attempt[a]]
           t == Reap(s)
<1>1. /\ t.report = [r \in Report |-> IF r \in lost THEN Unleased(s.report[r], "failed") ELSE s.report[r]]
      /\ t.attempt = attempt
  BY DEF Reap, Store
<1>2. \A r \in Report : s.attempt[r].slot = "held" => attempt[r] = s.attempt[r]
  BY ReportsAreAttempts
<1> HIDE DEF t, attempt, lost
<1>3. ASSUME NEW r \in Report
      PROVE  RunKept(s.report[r], t.report[r])
  <2>1. s.report[r] \in Row
    BY DEF Store
  <2>2. Unleased(s.report[r], "failed").status = "failed"
    BY <2>1, UnleasedFields DEF Status
  <2> QED
    BY <1>1, <2>2 DEF RunKept
<1>4. Keeps(s, t)
  BY <1>1, <1>2, <1>3 DEF Keeps
<1> QED
  BY <1>4 DEF t

\* Recovering lost leases ends runs and keeps their slots.
LEMMA ExpireLeasesKeeps ==
  ASSUME NEW s \in Store
  PROVE  Keeps(s, ExpireLeases(s))
<1> DEFINE expired == {r \in Report : s.report[r].status = "running" /\ s.report[r].lease = "lapsed"
                                       /\ ~s.report[r].deleted}
           called == {r \in expired : s.report[r].dispatched}
           a == Account(s, called, "unknown")
           t == ExpireLeases(s)
<1>0. called \in SUBSET Report /\ "unknown" \in Settled
  BY DEF Settled
<1>1. a \in Store
  BY SMTT(40), SMTT(80), <1>0, AccountType
<1>2. /\ t.report = [r \in Report |->
             IF r \in expired
             THEN Unleased(s.report[r], IF r \in called THEN "failed" ELSE "queued")
             ELSE s.report[r]]
      /\ t.attempt = a.attempt
  BY <1>1 DEF ExpireLeases, Store
<1>3. \A b \in Attempt : a.attempt[b].slot = s.attempt[b].slot
  BY <1>0, AccountBuckets
<1> HIDE DEF a, t, expired, called
<1>4. ASSUME NEW r \in Report
      PROVE  RunKept(s.report[r], t.report[r]) /\ t.attempt[r].slot = s.attempt[r].slot
  <2>1. s.report[r] \in Row
    BY DEF Store
  <2>2. /\ Unleased(s.report[r], "failed").status = "failed"
        /\ Unleased(s.report[r], "queued").status = "queued"
    BY <2>1 DEF Unleased, Row
  <2> QED
    BY <1>2, <1>3, <2>2, ReportsAreAttempts DEF RunKept
<1>5. Keeps(s, t)
  BY <1>4 DEF Keeps
<1> QED
  BY <1>5 DEF t

\* A deleted source ends runs and keeps their slots.
LEMMA InvalidateSourceKeeps ==
  ASSUME NEW s \in Store, Consistent(s), NEW u \in User, NEW S \in SUBSET Report
  PROVE  Keeps(s, InvalidateSource(s, u, S))
<1> DEFINE live == {r \in S : s.report[r].status \in ActiveStatus}
           a == Account(s, live, "unknown")
           t == InvalidateSource(s, u, S)
           report == [r \in Report |->
             IF r \in S
             THEN [(IF r \in live THEN Unleased(s.report[r], "cancelled") ELSE s.report[r])
                     EXCEPT !.invalidated = TRUE]
             ELSE s.report[r]]
<1>0. live \in SUBSET Report /\ "unknown" \in Settled
  BY DEF Settled
<1>1. a \in Store
  BY <1>0, AccountType
<1>2. t.report = report /\ t.attempt = a.attempt
  BY <1>1 DEF InvalidateSource, Store
<1>3. \A b \in Attempt : a.attempt[b].slot = s.attempt[b].slot
  BY <1>0, AccountBuckets
<1> HIDE DEF a, t
<1>4. ASSUME NEW r \in Report
      PROVE  RunKept(s.report[r], t.report[r]) /\ t.attempt[r].slot = s.attempt[r].slot
  <2>1. s.report[r] \in Row
    BY DEF Store
  <2>2. CASE r \notin S
    BY <1>2, <1>3, <2>2, ReportsAreAttempts DEF RunKept
  <2>3. CASE r \in live
    <3> DEFINE row == Unleased(s.report[r], "cancelled")
    <3>1. row \in Row /\ row.status = "cancelled"
      BY <2>1, UnleasedType, UnleasedFields DEF Status
    <3>2. t.report[r] = [row EXCEPT !.invalidated = TRUE]
      BY <2>3, <1>2
    <3> HIDE DEF row
    <3>3. t.report[r].status = "cancelled"
      BY <3>1, <3>2 DEF Row
    <3> QED
      BY <1>2, <1>3, <3>3, ReportsAreAttempts DEF RunKept
  <2>4. CASE r \in S /\ r \notin live
    <3>1. t.report[r] = [s.report[r] EXCEPT !.invalidated = TRUE]
      BY <2>4, <1>2
    <3>2. t.report[r].status = s.report[r].status /\ s.report[r].status \notin ActiveStatus
      BY <2>1, <2>4, <3>1 DEF Row
    <3> QED
      BY <1>2, <1>3, <3>2, ReportsAreAttempts DEF RunKept, ActiveStatus
  <2> QED
    BY <2>2, <2>3, <2>4
<1>5. Keeps(s, t)
  BY <1>4 DEF Keeps
<1> QED
  BY <1>5 DEF t

\* A deleted account takes its rows, and leaves the slots of their calls.
LEMMA PurgeAccountKeeps ==
  ASSUME NEW s \in Store, NEW u \in User
  PROVE  Keeps(s, PurgeAccount(s, u))
<1> DEFINE ending == {r \in Of(s, u) : s.report[r].status \in ActiveStatus
                                        \/ s.attempt[r].status = "dispatched"}
           a == Account(s, ending, "unknown")
           t == PurgeAccount(s, u)
<1>0. ending \in SUBSET Report /\ "unknown" \in Settled
  BY DEF Settled, Of
<1>1. a \in Store
  BY SMTT(40), SMTT(80), <1>0, AccountType
<1>2. /\ t.report = [r \in Report |-> IF r \in Of(s, u) THEN NoRow("purged") ELSE s.report[r]]
      /\ t.attempt = a.attempt
  BY <1>1 DEF PurgeAccount, Store
<1>3. \A b \in Attempt : a.attempt[b].slot = s.attempt[b].slot
  BY <1>0, AccountBuckets
<1>4. NoRow("purged").status = "purged"
  BY DEF NoRow
<1> HIDE DEF a, t
<1>5. Keeps(s, t)
  BY <1>2, <1>3, <1>4, ReportsAreAttempts DEF Keeps, RunKept
<1> QED
  BY <1>5 DEF t

-----------------------------------------------------------------------------
(* The actions.                                                            *)

\* Cancelling active reports keeps runs and slots.
LEMMA CancellingKeeps ==
  ASSUME TypeOK, NEW S \in SUBSET Active(db), db' = CancelPending(db, S)
  PROVE  Keeps(db, db')
BY CancelPendingKeeps DEF TypeOK, Active

\* A submission keeps runs and slots.
LEMMA GenerateKeeps ==
  ASSUME TypeOK, NEW u \in User, Generate(u)
  PROVE  Keeps(db, db')
<1>1. PICK r \in Report :
        db' = [db EXCEPT
            !.global[month] = ReserveGlobalBudget(@, Cost),
            !.usage[u][month] = ReserveUserQuota(@),
            !.report[r] = [NoRow("queued") EXCEPT !.owner = u, !.month = month,
                             !.provider = runtime.provider, !.prompt = runtime.prompt]]
  BY DEF Generate, Commit
<1> DEFINE row == [NoRow("queued") EXCEPT !.owner = u, !.month = month,
                             !.provider = runtime.provider, !.prompt = runtime.prompt]
<1>2. row.status = "queued"
  BY DEF NoRow
<1>3. db'.attempt = db.attempt /\ \A q \in Report : db'.report[q] = IF q = r THEN row ELSE db.report[q]
  BY <1>1 DEF TypeOK, Store
<1> HIDE DEF row
<1> QED
  BY <1>2, <1>3 DEF Keeps, RunKept

\* Deleting a report ends its run and keeps its slot.
LEMMA DeleteReportKeeps ==
  ASSUME TypeOK, NEW r \in Report, DeleteReport(r)
  PROVE  Keeps(db, db')
<1> DEFINE s == CancelPending(db, {r} \cap Active(db))
           row == [s.report[r] EXCEPT !.deleted = TRUE, !.invalidated = TRUE]
<1>1. s \in Store /\ Keeps(db, s)
  BY CancelPendingType, CancelPendingKeeps DEF TypeOK
<1>2. db' = [s EXCEPT !.report[r].deleted = TRUE, !.report[r].invalidated = TRUE]
  BY DEF DeleteReport, Commit, s
<1> HIDE DEF s
<1>3. s.report[r] \in Row
  BY <1>1 DEF Store
<1>4. /\ row.status = s.report[r].status /\ row.token = s.report[r].token
      /\ row.dispatched = s.report[r].dispatched
  BY <1>3 DEF Row
<1>5. db'.attempt = s.attempt /\ \A q \in Report : db'.report[q] = IF q = r THEN row ELSE s.report[q]
  BY <1>1, <1>2 DEF Store
<1> HIDE DEF row
<1>6. Keeps(s, db')
  BY <1>4, <1>5 DEF Keeps, RunKept
<1> QED
  BY <1>1, <1>6, KeepsIsTransitive

\* A provider test is admitted and settled without a report.
LEMMA TestKeeps ==
  ASSUME TypeOK, AdmitTest \/ \E t \in Test : SettleTest(t)
  PROVE  Keeps(db, db')
<1>1. CASE AdmitTest
  <2> DEFINE s == Reap(db)
  <2>1. s \in Store /\ Keeps(db, s)
    BY ZenonT(60), ZenonT(90), ReapType, ReapKeeps DEF TypeOK
  <2>2. \/ db' = s
        \/ \E t \in Test :
             db' = [s EXCEPT !.attempt[t] = NewAttempt(month),
                  !.global[month] = ConsumeGlobalBudget(ReserveGlobalBudget(@, Cost), Cost)]
    BY <1>1 DEF AdmitTest, Commit
  <2> HIDE DEF s
  <2>3. ASSUME NEW t \in Test,
               db' = [s EXCEPT !.attempt[t] = NewAttempt(month),
                  !.global[month] = ConsumeGlobalBudget(ReserveGlobalBudget(@, Cost), Cost)]
        PROVE  Keeps(s, db')
    <3>1. db'.report = s.report /\ \A r \in Report : db'.attempt[r] = s.attempt[r]
      BY <2>1, <2>3, TestsAreNotReports, ReportsAreAttempts DEF Store
    <3> QED
      BY <3>1 DEF Keeps, RunKept
  <2>4. db' = s \/ Keeps(s, db')
    BY <2>2, <2>3, Zenon
  <2> QED
    BY <2>1, <2>4, KeepsIsTransitive
<1>2. ASSUME NEW t \in Test, SettleTest(t) PROVE Keeps(db, db')
  <2>1. PICK outcome \in {"succeeded", "unknown"}, cost \in ActualCosts \cup {NoCost} :
          db' = [db EXCEPT
            !.attempt[t] = [@ EXCEPT !.status = outcome, !.slot = "free", !.cost = cost],
            !.global[db.attempt[t].month] =
              IF cost = NoCost THEN SettleUnknownGlobalBudget(@, 1)
                               ELSE SettleKnownGlobalBudget(@, Cost, cost)]
    BY <1>2 DEF SettleTest, Commit
  <2> DEFINE attempt == [db.attempt[t] EXCEPT !.status = outcome, !.slot = "free", !.cost = cost]
  <2>2. db'.report = db.report /\ db'.attempt = [db.attempt EXCEPT ![t] = attempt]
    BY <2>1 DEF TypeOK, Store
  <2> HIDE DEF attempt
  <2>3. \A r \in Report : db'.attempt[r] = db.attempt[r]
    BY <2>2, TestsAreNotReports, ReportsAreAttempts DEF TypeOK, Store
  <2> QED
    BY ZenonT(60), ZenonT(90), <2>2, <2>3 DEF Keeps, RunKept
<1> QED
  BY <1>1, <1>2

\* A requeue ends the run of a report that was not dispatched.
LEMMA RequeueKeeps ==
  ASSUME TypeOK, NEW w \in Worker, Requeue(w)
  PROVE  Keeps(db, db')
<1> DEFINE r == worker[w].report
<1>1. r \in Report /\ db.report[r] \in Row
  BY WorkersReport DEF Requeue, TypeOK, Store
<1>2. db' = db \/ db' = [db EXCEPT !.report[r] = Unleased(@, "queued")]
  BY DEF Requeue
<1> HIDE DEF r
<1>3. Unleased(db.report[r], "queued").status = "queued"
  BY <1>1 DEF Unleased, Row
<1>4. ASSUME db' = [db EXCEPT !.report[r] = Unleased(@, "queued")] PROVE Keeps(db, db')
  <2>1. /\ db'.attempt = db.attempt /\ db'.report[r] = Unleased(db.report[r], "queued")
        /\ \A q \in Report \ {r} : db'.report[q] = db.report[q]
    BY <1>1, <1>4 DEF TypeOK, Store
  <2> QED
    BY <1>3, <2>1 DEF Keeps, RunKept
<1> QED
  BY <1>2, <1>4 DEF Keeps, RunKept

\* A lost lease leaves its run's token.
LEMMA LeaseLapseKeeps ==
  ASSUME TypeOK, NEW r \in Report, LeaseLapse(r)
  PROVE  Keeps(db, db')
<1> DEFINE row == [db.report[r] EXCEPT !.lease = "lapsed"]
<1>1. db.report[r] \in Row
  BY DEF TypeOK, Store
<1>2. /\ row.status = db.report[r].status /\ row.token = db.report[r].token
      /\ row.dispatched = db.report[r].dispatched
  BY <1>1 DEF Row
<1>3. /\ db'.attempt = db.attempt
      /\ \A q \in Report : db'.report[q] = IF q = r THEN row ELSE db.report[q]
  BY DEF LeaseLapse, TypeOK, Store
<1> HIDE DEF row
<1> QED
  BY <1>2, <1>3 DEF Keeps, RunKept

-----------------------------------------------------------------------------
(* The workers.                                                            *)

\* A worker that returns makes no new claim.
LEMMA ReturnsClaimNothing ==
  ASSUME TypeOK, NEW w \in Worker, Return(w)
  PROVE  NoNewClaim
BY WorkerChange DEF Return, NoNewClaim, IdleWorker, Early

\* A worker that goes on makes no new claim.
LEMMA ProceedingClaimsNothing ==
  ASSUME TypeOK, NEW w \in Worker, NEW pc, Proceed(w, pc), pc \in Early => worker[w].pc \in Early
  PROVE  NoNewClaim
<1> DEFINE x == [worker[w] EXCEPT !.pc = pc]
<1>1. worker' = [worker EXCEPT ![w] = x]
  BY DEF Proceed, TypeOK
<1>2. x.pc = pc /\ x.report = worker[w].report
  BY DEF TypeOK
<1> HIDE DEF x
<1> QED
  BY <1>1, <1>2, WorkerChange DEF NoNewClaim

\* Where no report is claimed or dispatched, early workers stay undispatched.
LEMMA KeepingStaysEarly ==
  ASSUME TypeOK, Consistent(db), PreAdmitted, NoNewClaim,
         \A r \in Report : RunKept(db.report[r], db'.report[r])
  PROVE  PreAdmitted'
<1> SUFFICES ASSUME NEW w \in Worker, worker'[w].pc \in Early, Holds(db', w, worker'[w].report)
             PROVE  ~db'.report[worker'[w].report].dispatched
  BY DEF PreAdmitted, Holds
<1> DEFINE r == worker[w].report
<1>1. worker[w].pc \in Early /\ worker'[w].report = r
  BY DEF NoNewClaim
<1>2. r \in Report
  BY <1>1, WorkersReport DEF Early
<1>3. /\ db.report[r].status = "running" /\ db.report[r].token = w
      /\ db'.report[r].dispatched = db.report[r].dispatched
  BY <1>1, <1>2 DEF RunKept, Holds
<1>4. ~db.report[r].deleted
  BY <1>2, <1>3 DEF Consistent, RowMatches, ActiveStatus
<1>5. ~db.report[r].dispatched
  BY <1>1, <1>3, <1>4 DEF PreAdmitted, Holds
<1> QED
  BY <1>1, <1>3, <1>5

\* A claim leases a queued report, which was not dispatched.
LEMMA ClaimSlots ==
  ASSUME TypeOK, Consistent(db), PreAdmitted, NEW w \in Worker, Claim(w)
  PROVE  SlotsOutlive /\ PreAdmitted'
<1> DEFINE s1 == Reap(db)
           s == ExpireLeases(s1)
<1>1. s1 \in Store /\ Keeps(db, s1) /\ Continues(db, s1)
  BY SMTT(40), SMTT(80), ReapType, ReapKeeps, ReapContinues DEF TypeOK
<1>2. \/ db' = s /\ UNCHANGED worker
      \/ \E r \in Report :
           /\ s.report[r].status = "queued"
           /\ db' = [s EXCEPT !.report[r] = [@ EXCEPT !.status = "running", !.token = w, !.lease = "live"]]
           /\ worker' = [worker EXCEPT ![w] = [pc |-> "claimed", report |-> r, admitted |-> FALSE]]
  BY DEF Claim, Commit
<1> HIDE DEF s1
<1>3. s \in Store /\ Keeps(s1, s) /\ Continues(s1, s)
  BY <1>1, ExpireLeasesType, ExpireLeasesKeeps, ExpireLeasesContinues DEF Continues
<1> HIDE DEF s
<1>4. Keeps(db, s)
  BY <1>1, <1>3, KeepsIsTransitive
<1>5. CASE db' = s /\ UNCHANGED worker
  <2>1. NoNewClaim /\ SlotsOutlive
    BY <1>4, <1>5 DEF NoNewClaim, SlotsOutlive, Keeps
  <2> QED
    BY <1>4, <1>5, <2>1, KeepingStaysEarly DEF Keeps
<1>6. ASSUME NEW r \in Report, s.report[r].status = "queued",
             db' = [s EXCEPT !.report[r] = [@ EXCEPT !.status = "running", !.token = w, !.lease = "live"]],
             worker' = [worker EXCEPT ![w] = [pc |-> "claimed", report |-> r, admitted |-> FALSE]]
      PROVE  SlotsOutlive /\ PreAdmitted'
  <2> DEFINE row == [s.report[r] EXCEPT !.status = "running", !.token = w, !.lease = "live"]
             claim == [pc |-> "claimed", report |-> r, admitted |-> FALSE]
  <2>1. /\ db'.attempt = s.attempt
        /\ \A q \in Report : db'.report[q] = IF q = r THEN row ELSE s.report[q]
    BY <1>3, <1>6 DEF Store
  <2>2. /\ row.token = w /\ row.dispatched = s.report[r].dispatched
    BY <1>3 DEF Store, Row
  <2>3. ~s.report[r].dispatched
    BY <1>3, <1>6 DEF Continues, Consistent, RowMatches
  <2>4. worker'[w].report = r /\ \A v \in Worker \ {w} : worker'[v] = worker[v]
    <3>1. worker' = [worker EXCEPT ![w] = claim] /\ claim.report = r
      BY <1>6, Zenon
    <3> HIDE DEF claim
    <3> QED
      BY <3>1, WorkerChange
  <2>5. SlotsOutlive
    BY <1>4, <2>1 DEF Keeps, SlotsOutlive
  <2> HIDE DEF row
  <2>6. ASSUME NEW v \in Worker, worker'[v].pc \in Early, Holds(db', v, worker'[v].report)
        PROVE  ~db'.report[worker'[v].report].dispatched
    <3>1. CASE worker'[v].report = r
      BY <2>1, <2>2, <2>3, <3>1
    <3>2. CASE worker'[v].report # r
      <4> DEFINE q == worker[v].report
      <4>1. v # w /\ worker'[v] = worker[v]
        BY <2>4, <3>2
      <4>2. worker[v].pc \in Early /\ q \in Report /\ worker'[v].report = q
        BY <2>6, <4>1, WorkersReport DEF Early
      <4>3. /\ db.report[q].status = "running" /\ db.report[q].token = v
            /\ db'.report[q].dispatched = db.report[q].dispatched
        BY <1>4, <2>1, <2>6, <3>2, <4>2 DEF Keeps, RunKept, Holds
      <4>4. ~db.report[q].deleted
        BY <4>2, <4>3 DEF Consistent, RowMatches, ActiveStatus
      <4> QED
        BY <4>2, <4>3, <4>4 DEF PreAdmitted, Holds
    <3> QED
      BY <3>1, <3>2
  <2> QED
    BY <2>5, <2>6 DEF PreAdmitted, Holds
<1>7. SlotsOutlive /\ PreAdmitted'
  BY <1>2, <1>5, <1>6, Zenon
<1> QED
  BY <1>7

\* An admission dispatches the worker's own report, and the worker is not early any more.
LEMMA AdmitSlots ==
  ASSUME TypeOK, Consistent(db), PreAdmitted, NEW w \in Worker, Admit(w)
  PROVE  SlotsOutlive /\ PreAdmitted'
<1> DEFINE s == Reap(db)
           r == worker[w].report
           Granted ==
             /\ Holds(s, w, r)
             /\ db' = [s EXCEPT
                  !.report[r].dispatched = TRUE,
                  !.attempt[r] = NewAttempt(s.report[r].month),
                  !.global[s.report[r].month] = ConsumeGlobalBudget(@, Cost),
                  !.usage[s.report[r].owner][s.report[r].month] = ConsumeUserQuota(@)]
             /\ worker'[w].pc \notin Early
             /\ \A v \in Worker \ {w} : worker'[v] = worker[v]
<1>1. s \in Store /\ Keeps(db, s)
  BY ZenonT(60), ZenonT(90), ReapType, ReapKeeps DEF TypeOK
<1>2. r \in Report /\ r \in Attempt
  BY WorkersReport DEF Admit
<1>3. /\ \/ worker' = [worker EXCEPT ![w] = [@ EXCEPT !.pc = "calling", !.admitted = TRUE]]
         \/ Proceed(w, "erred")
      => worker'[w].pc \notin Early /\ \A v \in Worker \ {w} : worker'[v] = worker[v]
  <2> DEFINE x == [worker[w] EXCEPT !.pc = "calling", !.admitted = TRUE]
             y == [worker[w] EXCEPT !.pc = "erred"]
  <2>1. /\ worker' = [worker EXCEPT ![w] = [@ EXCEPT !.pc = "calling", !.admitted = TRUE]]
           => worker' = [worker EXCEPT ![w] = x]
        /\ Proceed(w, "erred") => worker' = [worker EXCEPT ![w] = y]
    BY DEF Proceed, TypeOK
  <2>2. x.pc \notin Early /\ y.pc \notin Early
    BY DEF Early, TypeOK
  <2> HIDE DEF x, y
  <2>3. ASSUME NEW z, z.pc \notin Early, worker' = [worker EXCEPT ![w] = z]
        PROVE  worker'[w].pc \notin Early /\ \A v \in Worker \ {w} : worker'[v] = worker[v]
    BY ZenonT(60), ZenonT(90), <2>3, WorkerChange
  <2> QED
    BY <2>1, <2>2, <2>3
<1>4. \/ /\ db' = s \/ db' = db
         /\ \E pc \in {"requeueing", "rejected", "erred"} : Proceed(w, pc)
      \/ Granted
  BY ZenonT(60), ZenonT(90), <1>3 DEF Admit, Commit
<1>5. worker[w].pc \in Early
  BY DEF Admit, Early
<1> HIDE DEF s, r
<1>6. ASSUME db' = s \/ db' = db, NEW pc \in {"requeueing", "rejected", "erred"}, Proceed(w, pc)
      PROVE  SlotsOutlive /\ PreAdmitted'
  <2>1. NoNewClaim
    BY <1>5, <1>6, ProceedingClaimsNothing
  <2>2. Keeps(db, db')
    BY <1>1, <1>6 DEF Keeps, RunKept
  <2>3. SlotsOutlive
    BY <2>2 DEF Keeps, SlotsOutlive
  <2> QED
    BY <2>1, <2>2, <2>3, KeepingStaysEarly DEF Keeps
<1>7. ASSUME Granted PROVE SlotsOutlive /\ PreAdmitted'
  <2> DEFINE row == [s.report[r] EXCEPT !.dispatched = TRUE]
             attempt == NewAttempt(s.report[r].month)
  <2>1. /\ \A q \in Report : db'.report[q] = IF q = r THEN row ELSE s.report[q]
        /\ \A a \in Attempt : db'.attempt[a] = IF a = r THEN attempt ELSE s.attempt[a]
    BY <1>1, <1>2, <1>7 DEF Store
  <2>2. attempt.slot = "held"
    BY DEF NewAttempt
  <2>3. row.token = s.report[r].token
    BY <1>1, <1>2 DEF Store, Row
  <2>4. s.report[r].token = w
    BY <1>7 DEF Holds
  <2> HIDE DEF row, attempt
  <2>5. SlotsOutlive
    BY <1>1, <2>1, <2>2, ReportsAreAttempts DEF Keeps, SlotsOutlive
  <2>6. ASSUME NEW v \in Worker, worker'[v].pc \in Early, Holds(db', v, worker'[v].report)
        PROVE  ~db'.report[worker'[v].report].dispatched
    <3> DEFINE q == worker[v].report
    <3>1. v # w /\ worker'[v] = worker[v]
      BY <1>7, <2>6
    <3>2. worker[v].pc \in Early /\ q \in Report /\ worker'[v].report = q
      BY <2>6, <3>1, WorkersReport DEF Early
    <3>3. q # r
      BY <2>1, <2>3, <2>4, <2>6, <3>1, <3>2 DEF Holds
    <3>4. /\ db.report[q].status = "running" /\ db.report[q].token = v
          /\ db'.report[q].dispatched = db.report[q].dispatched
      BY <1>1, <2>1, <2>6, <3>2, <3>3 DEF Keeps, RunKept, Holds
    <3>5. ~db.report[q].deleted
      BY <3>2, <3>4 DEF Consistent, RowMatches, ActiveStatus
    <3> QED
      BY SMTT(40), SMTT(80), <3>2, <3>4, <3>5 DEF PreAdmitted, Holds
  <2> QED
    BY <2>5, <2>6 DEF PreAdmitted, Holds
<1> HIDE DEF Granted
<1>8. SlotsOutlive /\ PreAdmitted'
  BY <1>4, <1>6, <1>7, Zenon
<1> QED
  BY <1>8

\* A step that keeps every run and takes no slot but that of a worker past its call is sound.
LEMMA OwnSlot ==
  ASSUME TypeOK, Consistent(db), PreAdmitted, NoNewClaim, NEW w \in Worker,
         worker[w].pc \in {"answered", "erred", "finishing"},
         \A q \in Report : RunKept(db.report[q], db'.report[q]),
         \A q \in Report \ {worker[w].report} :
           db.attempt[q].slot = "held" => db'.attempt[q].slot = "held"
  PROVE  SlotsOutlive /\ PreAdmitted'
BY KeepingStaysEarly DEF SlotsOutlive

\* So is one that keeps runs and slots altogether.
LEMMA KeptSlots ==
  ASSUME TypeOK, Consistent(db), PreAdmitted, NoNewClaim, Keeps(db, db')
  PROVE  SlotsOutlive /\ PreAdmitted'
BY ZenonT(60), ZenonT(90), KeepingStaysEarly DEF SlotsOutlive, Keeps

\* A completion frees the slot of its own call.
LEMMA CompleteSlots ==
  ASSUME TypeOK, Consistent(db), PreAdmitted, NEW w \in Worker, Complete(w)
  PROVE  SlotsOutlive /\ PreAdmitted'
<1> DEFINE r == worker[w].report
           new == Unleased(db.report[r], "succeeded")
           Published(cost) == db' = [db EXCEPT
               !.attempt[r] = [@ EXCEPT !.status = "succeeded", !.slot = "free", !.cost = cost],
               !.report[r] = Unleased(@, "succeeded"),
               !.global[db.report[r].month] = IF cost = NoCost THEN SettleUnknownGlobalBudget(@, 1)
                                     ELSE SettleKnownGlobalBudget(@, Cost, cost)]
<1>1. r \in Report /\ r \in Attempt /\ worker[w].pc = "answered"
  BY ZenonT(60), ZenonT(90), WorkersReport DEF Complete
<1>2. db' = db \/ \E cost \in ActualCosts \cup {NoCost} : Published(cost)
  BY ZenonT(60), ZenonT(90) DEF Complete, Commit
<1>3. NoNewClaim
  <2>1. Proceed(w, "finishing") \/ Proceed(w, "erred")
    BY DEF Complete
  <2> QED
    BY ZenonT(60), ZenonT(90), <2>1, ProceedingClaimsNothing DEF Early
<1> HIDE DEF r
<1>4. ASSUME NEW cost \in ActualCosts \cup {NoCost}, Published(cost)
      PROVE  SlotsOutlive /\ PreAdmitted'
  <2>1. /\ db'.report[r] = new
        /\ \A q \in Report \ {r} : db'.report[q] = db.report[q] /\ db'.attempt[q] = db.attempt[q]
    BY <1>1, <1>4, ReportsAreAttempts DEF TypeOK, Store
  <2>2. new.status = "succeeded"
    BY <1>1, UnleasedFields DEF Status, TypeOK, Store
  <2> HIDE DEF new
  <2>3. \A q \in Report : RunKept(db.report[q], db'.report[q])
    BY <2>1, <2>2 DEF RunKept
  <2> QED
    BY <1>1, <1>3, <2>1, <2>3, OwnSlot DEF r
<1>5. CASE db' = db
  BY <1>3, <1>5, KeptSlots DEF Keeps, RunKept
<1> QED
  BY ZenonT(60), ZenonT(90), <1>2, <1>4, <1>5

\* A failure frees the slot of its own call: a worker whose admission was rejected
\* has none.
LEMMA FailSlots ==
  ASSUME TypeOK, Consistent(db), PreAdmitted, NEW w \in Worker, Fail(w)
  PROVE  SlotsOutlive /\ PreAdmitted'
<1> DEFINE r == worker[w].report
           a == Account(db, {r}, "failed")
           failed == Unleased(db.report[r], "failed")
           ended == [a EXCEPT !.report[r] = failed]
<1>1. r \in Report /\ r \in Attempt /\ worker[w].pc \in {"rejected", "erred"}
  BY WorkersReport DEF Fail
<1>2. /\ a \in Store /\ a.report = db.report
      /\ \A b \in Attempt : a.attempt[b].slot = db.attempt[b].slot
  BY <1>1, AccountType, AccountEffect, AccountBuckets DEF TypeOK, Settled
<1>3. ended = [a EXCEPT !.report[r] = Unleased(@, "failed")]
  BY <1>1, <1>2 DEF Store
<1>4. \/ db' = db
      \/ db' = ended
      \/ /\ Holds(db, w, r) /\ db.report[r].dispatched
         /\ \E outcome \in {"failed", "unknown"} :
              db' = [ended EXCEPT !.attempt[r] = [@ EXCEPT !.status = outcome, !.slot = "free"]]
  <2> HIDE DEF failed, ended
  <2> QED
    BY <1>3 DEF Fail, Commit
<1>5. NoNewClaim
  <2>1. Proceed(w, "finishing") \/ Return(w)
    BY DEF Fail, Finish
  <2> QED
    BY ZenonT(60), ZenonT(90), <2>1, ProceedingClaimsNothing, ReturnsClaimNothing DEF Early
<1> HIDE DEF r
<1>6. failed.status = "failed"
  BY <1>1, UnleasedFields DEF Status, TypeOK, Store
<1>7. /\ ended.attempt = a.attempt /\ ended.report = [db.report EXCEPT ![r] = failed]
      /\ \A b \in Attempt : db.attempt[b].slot = "held" => ended.attempt[b].slot = "held"
  BY <1>2 DEF Store
<1>8. \A t : t.report = ended.report => \A q \in Report : RunKept(db.report[q], t.report[q])
  <2> HIDE DEF failed, ended
  <2> QED
    BY <1>1, <1>6, <1>7 DEF RunKept, TypeOK, Store
<1> HIDE DEF a, failed
<1>9. CASE db' = ended
  <2> HIDE DEF ended
  <2>1. Keeps(db, db')
    BY <1>7, <1>8, <1>9, ReportsAreAttempts DEF Keeps
  <2> QED
    BY <1>5, <2>1, KeptSlots
<1>10. ASSUME Holds(db, w, r), db.report[r].dispatched, NEW outcome \in {"failed", "unknown"},
              db' = [ended EXCEPT !.attempt[r] = [@ EXCEPT !.status = outcome, !.slot = "free"]]
       PROVE  SlotsOutlive /\ PreAdmitted'
  <2>1. worker[w].pc = "erred"
    BY <1>1, <1>10 DEF PreAdmitted, Early, r
  <2> DEFINE attempt == [ended.attempt[r] EXCEPT !.status = outcome, !.slot = "free"]
  <2>2. /\ db'.report = ended.report
        /\ \A q \in Attempt \ {r} : db'.attempt[q] = ended.attempt[q]
    BY <1>1, <1>2, <1>7, <1>10 DEF Store
  <2>3. \A q \in Report : RunKept(db.report[q], db'.report[q])
    BY <1>8, <2>2
  <2>4. \A q \in Report \ {r} : db.attempt[q].slot = "held" => db'.attempt[q].slot = "held"
    BY <1>7, <2>2, ReportsAreAttempts
  <2> QED
    BY <1>5, <2>1, <2>3, <2>4, OwnSlot DEF r
<1> HIDE DEF ended
<1>11. CASE db' = db
  BY <1>5, <1>11, KeptSlots DEF Keeps, RunKept
<1> QED
  BY ZenonT(60), ZenonT(90), <1>4, <1>9, <1>10, <1>11

\* A worker's last release is that of its own slot.
LEMMA ReleaseSlots ==
  ASSUME TypeOK, Consistent(db), PreAdmitted, NEW w \in Worker, ReleaseSlot(w)
  PROVE  SlotsOutlive /\ PreAdmitted'
<1> DEFINE r == worker[w].report
<1>1. r \in Attempt /\ worker[w].pc = "finishing" /\ Return(w)
  BY WorkersReport DEF ReleaseSlot
<1>2. db' = db \/ db' = [db EXCEPT !.attempt[r].slot = "free"]
  BY DEF ReleaseSlot
<1>3. NoNewClaim
  BY <1>1, ReturnsClaimNothing
<1> HIDE DEF r
<1>4. /\ db'.report = db.report
      /\ \A q \in Attempt \ {r} : db'.attempt[q] = db.attempt[q]
  <2> DEFINE free == [db.attempt[r] EXCEPT !.slot = "free"]
  <2>1. db' = db \/ db' = [db EXCEPT !.attempt[r] = free]
    BY <1>1, <1>2 DEF TypeOK, Store
  <2> HIDE DEF free
  <2> QED
    BY <1>1, <2>1 DEF TypeOK, Store
<1> QED
  BY <1>1, <1>3, <1>4, OwnSlot, ReportsAreAttempts DEF r, RunKept

\* A passed deadline takes a slot from held to lapsed, not to free.
LEMMA LapseSlots ==
  ASSUME TypeOK, Consistent(db), PreAdmitted, NEW a \in Attempt, SlotLapse(a)
  PROVE  SlotsOutlive /\ PreAdmitted'
<1> DEFINE lapsed == [db.attempt[a] EXCEPT !.slot = "lapsed"]
<1>1. db' = [db EXCEPT !.attempt[a] = lapsed] /\ UNCHANGED worker
  BY DEF SlotLapse, TypeOK, Store
<1>2. lapsed.slot = "lapsed"
  BY DEF TypeOK, Store, AttemptRow
<1> HIDE DEF lapsed
<1>3. /\ db'.report = db.report
      /\ \A q \in Attempt : db'.attempt[q] = IF q = a THEN lapsed ELSE db.attempt[q]
  BY <1>1 DEF TypeOK, Store
<1>4. SlotsOutlive
  BY <1>2, <1>3, ReportsAreAttempts DEF SlotsOutlive
<1>5. NoNewClaim
  BY <1>1 DEF NoNewClaim
<1> QED
  BY <1>3, <1>4, <1>5, KeepingStaysEarly DEF RunKept

-----------------------------------------------------------------------------
(* The theorem.                                                            *)

\* A request, or a passed month, that keeps runs and slots leaves the workers alone.
LEMMA RequestSlots ==
  ASSUME TypeOK, Consistent(db), PreAdmitted, UNCHANGED worker, db' = db \/ Keeps(db, db')
  PROVE  SlotsOutlive /\ PreAdmitted'
<1>1. NoNewClaim
  BY DEF NoNewClaim
<1>2. Keeps(db, db')
  BY DEF Keeps, RunKept
<1> QED
  BY <1>1, <1>2, KeptSlots

\* Every step takes no slot but that of a worker past its call.
LEMMA SlotsStep == IInv /\ PreAdmitted /\ [Next]_vars => SlotsOutlive /\ PreAdmitted'
<1> DEFINE Goal == SlotsOutlive /\ PreAdmitted'
<1> SUFFICES ASSUME IInv, PreAdmitted, [Next]_vars PROVE Goal
  OBVIOUS
<1>1. TypeOK /\ Consistent(db)
  BY DEF IInv
<1>2. ASSUME UNCHANGED worker, db' = db \/ Keeps(db, db') PROVE Goal
  BY <1>1, <1>2, RequestSlots
<1> HIDE DEF Goal
<1>3. ASSUME NEW S \in SUBSET Active(db), db' = CancelPending(db, S) PROVE Keeps(db, db')
  BY <1>1, <1>3, CancellingKeeps
<1>4. ASSUME NEW u \in User, OwnerRequest(u) PROVE Goal
  <2>1. CASE Generate(u)
    BY <1>1, <1>2, <2>1, GenerateKeeps DEF Generate
  <2>2. CASE AcceptConsent(u)
    BY <1>2, <2>2 DEF AcceptConsent
  <2>3. CASE RevokeConsent(u)
    BY <1>2, <1>3, <2>3 DEF RevokeConsent, Commit
  <2>4. CASE DeleteSource(u)
    <3>1. PICK S \in SUBSET Report : db' = InvalidateSource(db, u, S)
      BY <2>4 DEF DeleteSource, Commit, Of
    <3> QED
      BY <1>1, <1>2, <2>4, <3>1, InvalidateSourceKeeps DEF DeleteSource, TypeOK
  <2> QED
    BY SMTT(40), SMTT(80), <1>4, <2>1, <2>2, <2>3, <2>4 DEF OwnerRequest
<1>5. ASSUME NEW r \in Report, OwnerReportRequest(r) PROVE Goal
  <2>1. CASE CancelReport(r)
    <3>1. {r} \in SUBSET Active(db) /\ db' = CancelPending(db, {r})
      BY SMTT(40), SMTT(80), <2>1 DEF CancelReport, Commit
    <3> QED
      BY <1>2, <1>3, <2>1, <3>1 DEF CancelReport
  <2>2. CASE DeleteReport(r)
    BY <1>1, <1>2, <2>2, DeleteReportKeeps DEF DeleteReport
  <2> QED
    BY <1>5, <2>1, <2>2 DEF OwnerReportRequest
<1>6. ASSUME AdminRequest PROVE Goal
  <2>1. ASSUME NEW u \in User, UpdateAccess(u) PROVE Goal
    BY <1>2, <1>3, <2>1 DEF UpdateAccess, Commit
  <2>2. ASSUME NEW u \in User, DeleteAccount(u) PROVE Goal
    BY <1>1, <1>2, <2>2, PurgeAccountKeeps DEF DeleteAccount, Commit, TypeOK
  <2>3. CASE UpdateGenerationEnabled
    BY <1>2, <1>3, <2>3 DEF UpdateGenerationEnabled, Commit
  <2>4. CASE PublishProvider
    BY <1>2, <1>3, <2>4 DEF PublishProvider, Commit
  <2>5. CASE PublishPrompt
    BY <1>2, <2>5 DEF PublishPrompt
  <2>6. CASE AdmitTest \/ \E t \in Test : SettleTest(t)
    <3>1. UNCHANGED worker
      BY <2>6 DEF AdmitTest, SettleTest
    <3> QED
      BY ZenonT(60), ZenonT(90), <1>1, <1>2, <2>6, <3>1, TestKeeps
  <2> QED
    BY <1>6, <2>1, <2>2, <2>3, <2>4, <2>5, <2>6 DEF AdminRequest
<1>7. ASSUME NEW w \in Worker, Claim(w) \/ Work(w) \/ Crash(w) PROVE Goal
  <2>1. CASE Claim(w)
    BY <1>1, <2>1, ClaimSlots DEF Goal
  <2>2. CASE Precheck(w) \/ CallReturns(w) \/ Crash(w)
    <3>1. NoNewClaim
      <4>1. CASE Precheck(w)
        BY <1>1, <4>1, ProceedingClaimsNothing DEF Precheck, Early
      <4>2. CASE CallReturns(w)
        BY <1>1, <4>2, ProceedingClaimsNothing DEF CallReturns, Early
      <4>3. CASE Crash(w)
        BY <1>1, <4>3, ReturnsClaimNothing DEF Crash
      <4> QED
        BY <2>2, <4>1, <4>2, <4>3
    <3>2. Keeps(db, db')
      BY <2>2 DEF Precheck, CallReturns, Crash, Keeps, RunKept
    <3> QED
      BY <1>1, <3>1, <3>2, KeptSlots DEF Goal
  <2>3. CASE Admit(w)
    BY <1>1, <2>3, AdmitSlots DEF Goal
  <2>4. CASE Requeue(w)
    <3>1. NoNewClaim
      <4>1. Return(w) \/ Proceed(w, "erred")
        BY <2>4 DEF Requeue
      <4> QED
        BY <1>1, <4>1, ReturnsClaimNothing, ProceedingClaimsNothing DEF Early
    <3> QED
      BY <1>1, <2>4, <3>1, RequeueKeeps, KeptSlots DEF Goal
  <2>5. CASE Complete(w)
    BY <1>1, <2>5, CompleteSlots DEF Goal
  <2>6. CASE Fail(w)
    BY <1>1, <2>6, FailSlots DEF Goal
  <2>7. CASE ReleaseSlot(w)
    BY <1>1, <2>7, ReleaseSlots DEF Goal
  <2> QED
    BY <1>7, <2>1, <2>2, <2>3, <2>4, <2>5, <2>6, <2>7 DEF Work
<1>8. ASSUME Time PROVE Goal
  <2>1. ASSUME NEW r \in Report, LeaseLapse(r) PROVE Goal
    BY <1>1, <1>2, <2>1, LeaseLapseKeeps DEF LeaseLapse
  <2>2. ASSUME NEW a \in Attempt, SlotLapse(a) PROVE Goal
    BY <1>1, <2>2, LapseSlots DEF Goal
  <2>3. CASE NextMonth
    BY <1>2, <2>3 DEF NextMonth
  <2> QED
    BY <1>8, <2>1, <2>2, <2>3 DEF Time
<1>9. CASE UNCHANGED vars
  BY <1>2, <1>9 DEF vars
<1> QED
  BY <1>4, <1>5, <1>6, <1>7, <1>8, <1>9 DEF Next

\* Cancelling, deleting, revoking, purging or settling a job elsewhere frees no slot
\* while the provider is still working on it.
THEOREM SlotsAreTheirCalls == Spec => SlotOutlivesCancellation
<1>1. Init => PreAdmitted
  BY DEF Init, PreAdmitted, IdleWorker, Early
<1>2. IInv /\ PreAdmitted /\ [Next]_vars => PreAdmitted' /\ [SlotsOutlive]_vars
  BY SlotsStep
<1>3. Spec => [][SlotsOutlive]_vars
  BY <1>1, <1>2, Invariant, PTL DEF Spec
<1>4. SlotsOutlive <=>
        \A r \in Report :
          (db.attempt[r].slot = "held" /\ db'.attempt[r].slot = "free") =>
            \E w \in Worker : worker[w].report = r /\ worker[w].pc \in {"answered", "erred", "finishing"}
  BY DEF SlotsOutlive
<1> QED
  BY <1>3, <1>4, PTL DEF SlotOutlivesCancellation

=============================================================================
