--------------------------- MODULE MarketQueueProofs ---------------------------
(***************************************************************************)
(* The safety of MarketQueue, and that it implements SharedCalls, for       *)
(* every number of keys, callers, jobs, slots, places and attempts.         *)
(*                                                                         *)
(* The invariant relates the records of the jobs to each of the other      *)
(* structures in turn: to the sequence of waiters (QueueFits), to the      *)
(* count of slots (SlotsFit), to the map (MapFits) and to the callers      *)
(* (CallersFit).  The map and the callers only look at the unsettled jobs  *)
(* and their keys, so a start, a delay and an unwinding do not touch them  *)
(* (SameOpenJobs), and the end of a job is one lemma (EndedIsForgotten).   *)
(* One turn of pump is enough (PumpFits): it finds a slot for the only job *)
(* that waits, or at most one slot.                                        *)
(***************************************************************************)
EXTENDS MarketQueue, SequenceTheorems, FiniteSetTheorems, TLAPS

LEMMA ConstantFacts ==
  /\ Slots \in Nat \ {0} /\ MaxWaiters \in Nat \ {0}
  /\ MaxConsumers \in Nat \ {0} /\ MaxAttempts \in Nat \ {0}
  /\ NoJob \notin Job /\ IsFiniteSet(Job) /\ Key # {}
  BY QueueAssumption

-----------------------------------------------------------------------------
(* Sequences without duplicates.                                           *)

Distinct(Q) == \A h, i \in 1..Len(Q) : Q[h] = Q[i] => h = i

Elements(Q) == {Q[i] : i \in 1..Len(Q)}

\* indexOf finds the one place of an element
LEMMA RemovedAt ==
  ASSUME NEW S, NEW Q \in Seq(S), Distinct(Q), NEW p \in 1..Len(Q)
  PROVE  removeWaiter(Q, Q[p]) = SubSeq(Q, 1, p-1) \o SubSeq(Q, p+1, Len(Q))
<1> DEFINE j == Q[p]  I == {i \in 1..Len(Q) : Q[i] = j}
<1>1. I = {p}
  BY DEF Distinct
<1>2. (CHOOSE x \in I : \A y \in I : x <= y) = p
  BY <1>1
<1>3. SelectInSeq(Q, LAMBDA v : v = j) = p
  BY <1>1, <1>2 DEF SelectInSeq, Min
<1>4. QED
  BY <1>3 DEF removeWaiter, RemoveFirst, RemoveAt

\* removeWaiter takes j out of the queue, from wherever it waits
LEMMA RemovedWaiter ==
  ASSUME NEW S, NEW Q \in Seq(S), Distinct(Q), NEW j
  PROVE  /\ removeWaiter(Q, j) \in Seq(S) /\ Distinct(removeWaiter(Q, j))
         /\ Elements(removeWaiter(Q, j)) = Elements(Q) \ {j}
         /\ Len(removeWaiter(Q, j)) <= Len(Q)
<1>1. CASE \A i \in 1..Len(Q) : Q[i] # j
  <2>1. removeWaiter(Q, j) = Q
    BY <1>1 DEF removeWaiter, RemoveFirst
  <2>2. QED
    BY <1>1, <2>1 DEF Elements
<1>2. CASE \E i \in 1..Len(Q) : Q[i] = j
  <2>1. PICK p \in 1..Len(Q) : Q[p] = j
    BY <1>2
  <2> DEFINE A == SubSeq(Q, 1, p-1)  B == SubSeq(Q, p+1, Len(Q))  R == A \o B
  <2>2. removeWaiter(Q, j) = R
    BY <2>1, RemovedAt
  <2>3. /\ A \in Seq(S) /\ Len(A) = p-1
        /\ \A i \in 1..p-1 : A[i] = Q[i]
    BY SubSeqProperties, ElementOfSeq
  <2>4. /\ B \in Seq(S) /\ Len(B) = Len(Q) - p
        /\ \A i \in 1..Len(Q)-p : B[i] = Q[p+i]
    BY SubSeqProperties, ElementOfSeq
  <2>5. /\ R \in Seq(S) /\ Len(R) = Len(Q) - 1
        /\ \A i \in 1..Len(Q)-1 : R[i] = IF i < p THEN Q[i] ELSE Q[i+1]
    <3> HIDE DEF A, B
    <3>1. /\ R \in Seq(S) /\ Len(R) = Len(A) + Len(B)
          /\ \A i \in 1..Len(A)+Len(B) : R[i] = IF i <= Len(A) THEN A[i] ELSE B[i - Len(A)]
      BY <2>3, <2>4, ConcatProperties
    <3>2. QED
      BY <3>1, <2>3, <2>4
  <2> HIDE DEF R
  <2> DEFINE At(i) == IF i < p THEN i ELSE i + 1
  <2>9. Len(Q) \in Nat /\ p \in Nat
    BY LenProperties
  <2>10. \A i \in 1..Len(Q)-1 : At(i) \in 1..Len(Q) /\ At(i) # p /\ R[i] = Q[At(i)]
    BY <2>5, <2>9
  <2>11. \A h, i \in 1..Len(Q)-1 : At(h) = At(i) => h = i
    BY <2>9
  <2>12. Len(R) = Len(Q) - 1
    BY <2>5
  <2> HIDE DEF At
  <2>6. Distinct(R)
    <3>1. ASSUME NEW h \in 1..Len(Q)-1, NEW i \in 1..Len(Q)-1, R[h] = R[i] PROVE h = i
      <4>1. At(h) \in 1..Len(Q) /\ At(i) \in 1..Len(Q) /\ Q[At(h)] = Q[At(i)]
        BY <2>10, <3>1
      <4>2. At(h) = At(i)
        BY <4>1 DEF Distinct
      <4>3. QED
        BY <2>11, <4>2
    <3>2. QED
      BY <2>12, <3>1 DEF Distinct
  <2>7. Elements(R) = Elements(Q) \ {j}
    <3>1. ASSUME NEW x \in Elements(R)
          PROVE  x \in Elements(Q) \ {j}
      <4>1. PICK i \in 1..Len(Q)-1 : x = R[i]
        BY <2>12 DEF Elements
      <4>2. At(i) \in 1..Len(Q) /\ At(i) # p /\ x = Q[At(i)]
        BY <2>10, <4>1
      <4>3. x # Q[p]
        BY <4>2 DEF Distinct
      <4>4. QED
        BY <2>1, <4>2, <4>3 DEF Elements
    <3>2. ASSUME NEW x \in Elements(Q) \ {j}
          PROVE  x \in Elements(R)
      <4>1. PICK i \in 1..Len(Q) : x = Q[i] /\ i # p
        BY <2>1 DEF Elements
      <4>2. CASE i < p
        BY <4>1, <4>2, <2>5 DEF Elements
      <4>3. CASE i > p
        <5>1. i-1 \in 1..Len(R) /\ R[i-1] = Q[i]
          BY <4>3, <2>5
        <5>2. QED
          BY <5>1, <4>1 DEF Elements
      <4>4. QED
        BY <4>1, <4>2, <4>3
    <3>3. QED
      BY <3>1, <3>2
  <2>8. QED
    BY <2>2, <2>5, <2>6, <2>7
<1>3. QED
  BY <1>1, <1>2

LEMMA AppendedElement ==
  ASSUME NEW S, NEW Q \in Seq(S), Distinct(Q), NEW j \in S, j \notin Elements(Q)
  PROVE  /\ Append(Q, j) \in Seq(S) /\ Distinct(Append(Q, j))
         /\ Elements(Append(Q, j)) = Elements(Q) \cup {j}
         /\ Len(Append(Q, j)) = Len(Q) + 1
<1> DEFINE R == Append(Q, j)
<1>1. /\ R \in Seq(S) /\ Len(R) = Len(Q) + 1 /\ Len(Q) \in Nat
      /\ \A i \in 1..Len(Q) : R[i] = Q[i]
      /\ R[Len(Q) + 1] = j
  BY AppendProperties
<1> HIDE DEF R
<1>2. Distinct(R)
  BY <1>1 DEF Distinct, Elements
<1>3. Elements(R) = Elements(Q) \cup {j}
  BY <1>1 DEF Elements
<1>4. QED
  BY <1>1, <1>2, <1>3 DEF R

LEMMA RemovedHead ==
  ASSUME NEW S, NEW Q \in Seq(S), Distinct(Q), Q # <<>>
  PROVE  /\ Head(Q) \in Elements(Q) /\ Head(Q) \in S
         /\ Tail(Q) \in Seq(S) /\ Distinct(Tail(Q))
         /\ Elements(Tail(Q)) = Elements(Q) \ {Head(Q)}
         /\ Len(Tail(Q)) = Len(Q) - 1 /\ Len(Q) \in Nat \ {0}
<1> DEFINE R == Tail(Q)
<1>1. /\ R \in Seq(S) /\ Len(R) = Len(Q) - 1 /\ Len(Q) \in Nat \ {0}
      /\ \A i \in 1..Len(R) : R[i] = Q[i+1]
      /\ Head(Q) = Q[1] /\ Head(Q) \in S
  BY HeadTailProperties, EmptySeq
<1> HIDE DEF R
<1>2. Distinct(R)
  BY <1>1 DEF Distinct
<1>3. Elements(R) = Elements(Q) \ {Head(Q)}
  <2>1. ASSUME NEW x \in Elements(R)
        PROVE  x \in Elements(Q) \ {Head(Q)}
    <3>1. PICK i \in 1..Len(R) : x = R[i]
      BY DEF Elements
    <3>2. i+1 \in 1..Len(Q) /\ 1 \in 1..Len(Q) /\ i+1 # 1 /\ x = Q[i+1]
      BY <1>1, <3>1
    <3>3. x # Q[1]
      BY <3>2 DEF Distinct
    <3>4. QED
      BY <1>1, <3>2, <3>3 DEF Elements
  <2>2. ASSUME NEW x \in Elements(Q) \ {Head(Q)}
        PROVE  x \in Elements(R)
    <3>1. PICK i \in 1..Len(Q) : x = Q[i] /\ i # 1
      BY <1>1 DEF Elements
    <3>2. i-1 \in 1..Len(R) /\ R[i-1] = Q[i]
      BY <3>1, <1>1
    <3>3. QED
      BY <3>1, <3>2 DEF Elements
  <2>3. QED
    BY <2>1, <2>2
<1>4. Head(Q) \in Elements(Q)
  BY <1>1 DEF Elements
<1>5. QED
  BY <1>1, <1>2, <1>3, <1>4 DEF R

\* a queue without duplicates is as long as it has elements
LEMMA LengthIsCount ==
  ASSUME NEW S, NEW Q \in Seq(S), Distinct(Q)
  PROVE  Len(Q) = Cardinality(Elements(Q))
<1> DEFINE D == 1..Len(Q)
<1>1. Len(Q) \in Nat /\ IsFiniteSet(D) /\ Cardinality(D) = Len(Q)
  <2> DEFINE n == Len(Q)
  <2>1. n \in Nat
    BY LenProperties
  <2> HIDE DEF n
  <2>2. 1 \in Int /\ n \in Int /\ (1 > n => n = 0) /\ n - 1 + 1 = n
    BY <2>1
  <2>3. IsFiniteSet(1..n) /\ Cardinality(1..n) = IF 1 > n THEN 0 ELSE n - 1 + 1
    BY <2>2, FS_Interval
  <2>4. Cardinality(1..n) = n
    BY <2>2, <2>3
  <2>5. QED
    BY <2>1, <2>3, <2>4 DEF n
<1> DEFINE E == Elements(Q)  F == [i \in D |-> Q[i]]
<1>2. (\A i \in D : Q[i] \in E) /\ (\A x \in E : \E i \in D : Q[i] = x)
  BY DEF Elements
<1>3. \A h, i \in D : Q[h] = Q[i] => h = i
  BY DEF Distinct
<1> HIDE DEF D, E
<1>4. F \in Bijection(D, E)
  BY <1>2, <1>3 DEF Bijection, Injection, Surjection, IsInjective
<1>5. ExistsBijection(D, E)
  BY <1>4 DEF ExistsBijection
<1>6. QED
  BY <1>1, <1>5, FS_Bijection DEF E
-----------------------------------------------------------------------------
(* The invariant, over values of the variables.                            *)

Held(J) == {j \in Job : J[j].slotHeld}
Queued(J) == {j \in Job : J[j].state = "queued"}
Open(J) == {j \in Job : J[j].state \in {"queued", "active"}}

\* a job holds a slot from its start until its execution has unwound, and waits for
\* another attempt only when it has one
JobsFit(J) ==
  /\ J \in [Job -> JobRecord]
  /\ \A j \in Job : J[j].state = "active" /\ J[j].phase = "delaying" => J[j].attempt < MaxAttempts
  /\ \A j \in Job : J[j].slotHeld <=> J[j].state \in {"active", "settled"}

\* what waits is queued, once
QueueFits(J, Q) ==
  Q \in Seq(Job) /\ Distinct(Q) /\ Elements(Q) = Queued(J) /\ Len(Q) <= MaxWaiters

AllTimed(J) == \A j \in Queued(J) : J[j].timed

\* jobs wait only while the queue is open and every slot is taken
SlotsFit(J, Q, n, shut) ==
  /\ n \in 0..Slots /\ n = Cardinality(Held(J))
  /\ Q # <<>> => ~shut /\ n = Slots

MapFits(J, F) ==
  /\ F \in [Key -> Job \cup {NoJob}]
  /\ \A j \in Open(J) : F[J[j].key] = j
  /\ \A k \in Key : F[k] # NoJob => F[k] \in Open(J) /\ J[F[k]].key = k

\* the jobs with callers are the unsettled ones
CallersFit(J, C, P) ==
  /\ C \in [Job -> SUBSET Caller] /\ P \in SUBSET Caller
  /\ \A j \in Job : IsFiniteSet(C[j]) /\ Cardinality(C[j]) <= MaxConsumers
  /\ \A j \in Job : C[j] # {} <=> j \in Open(J)
  /\ \A c \in Caller : c \in P <=> \E j \in Job : c \in C[j]
  /\ \A i, j \in Job, c \in Caller : c \in C[i] /\ c \in C[j] => i = j

Inv ==
  /\ closed \in BOOLEAN
  /\ JobsFit(job) /\ QueueFits(job, waiters) /\ AllTimed(job)
  /\ SlotsFit(job, waiters, active, closed)
  /\ MapFits(job, inFlight) /\ CallersFit(job, consumers, pending)

-----------------------------------------------------------------------------
(* Records of jobs.                                                        *)

LEMMA NoWorkFields ==
  NoWork \in JobRecord /\ NoWork.state = "none" /\ ~NoWork.slotHeld
  BY ConstantFacts DEF NoWork, JobRecord

LEMMA SettledFields ==
  ASSUME NEW r \in JobRecord
  PROVE  /\ Settled(r) \in JobRecord
         /\ Settled(r).slotHeld = r.slotHeld
         /\ Settled(r).state = IF r.slotHeld THEN "settled" ELSE "none"
<1>1. CASE r.slotHeld
  BY <1>1 DEF Settled, JobRecord
<1>2. CASE ~r.slotHeld
  BY <1>2, NoWorkFields DEF Settled, JobRecord
<1>3. QED
  BY <1>1, <1>2

LEMMA StartedFields ==
  ASSUME NEW J \in [Job -> JobRecord], NEW j \in Job
  PROVE  /\ StartedJob(J, j) \in [Job -> JobRecord]
         /\ StartedJob(J, j)[j].state = "active" /\ StartedJob(J, j)[j].slotHeld
         /\ StartedJob(J, j)[j].key = J[j].key /\ StartedJob(J, j)[j].phase = "fetching"
         /\ \A i \in Job \ {j} : StartedJob(J, j)[i] = J[i]
<1> DEFINE r == [J[j] EXCEPT !.state = "active", !.slotHeld = TRUE, !.timed = FALSE,
                             !.attempt = 1, !.phase = "fetching"]
<1>1. r \in JobRecord /\ r.state = "active" /\ r.slotHeld /\ r.key = J[j].key /\ r.phase = "fetching"
  <2>1. J[j] \in JobRecord /\ 1 \in 1..MaxAttempts
    BY ConstantFacts
  <2>2. QED
    BY <2>1 DEF JobRecord
<1>2. StartedJob(J, j) = [J EXCEPT ![j] = r]
  BY DEF StartedJob
<1> HIDE DEF r
<1>3. QED
  BY <1>1, <1>2

LEMMA NewJobFields ==
  ASSUME NEW k \in Key
  PROVE  /\ NewJob(k) \in JobRecord
         /\ NewJob(k).key = k /\ NewJob(k).state = "queued" /\ ~NewJob(k).slotHeld
         /\ active >= Slots => NewJob(k).timed
<1> DEFINE b == active >= Slots
<1>1. b \in BOOLEAN /\ (active >= Slots => b)
  OBVIOUS
<1> HIDE DEF b
<1>2. NewJob(k) = [NoWork EXCEPT !.key = k, !.state = "queued", !.timed = b]
  BY DEF NewJob, b
<1>3. QED
  BY <1>1, <1>2, NoWorkFields DEF JobRecord

LEMMA HeldIsFinite ==
  ASSUME NEW J
  PROVE  IsFiniteSet(Held(J)) /\ Cardinality(Held(J)) \in Nat
  BY ConstantFacts, FS_Subset, FS_CardinalityType DEF Held

-----------------------------------------------------------------------------
(* The parts of the invariant under one job's change.                      *)

\* the map and the callers only look at the unsettled jobs and their keys
LEMMA SameOpenJobs ==
  ASSUME NEW J, NEW K, NEW F, NEW C, NEW P, Open(K) = Open(J),
         \A j \in Open(J) : K[j].key = J[j].key,
         MapFits(J, F), CallersFit(J, C, P)
  PROVE  MapFits(K, F) /\ CallersFit(K, C, P)
<1>1. MapFits(K, F)
  <2>1. \A k \in Key : F[k] # NoJob => F[k] \in Open(K) /\ K[F[k]].key = k
    BY DEF MapFits
  <2>2. QED
    BY <2>1 DEF MapFits
<1>2. QED
  BY <1>1 DEF CallersFit

LEMMA EndedFits ==
  ASSUME NEW J, JobsFit(J), NEW j \in Open(J), NEW r \in JobRecord,
         r.state \in {"none", "settled"}, r.slotHeld <=> r.state = "settled",
         NEW K, K = [J EXCEPT ![j] = r]
  PROVE  /\ JobsFit(K) /\ Open(K) = Open(J) \ {j} /\ Queued(K) = Queued(J) \ {j}
         /\ \A i \in Job \ {j} : K[i] = J[i]
         /\ AllTimed(J) => AllTimed(K)
         /\ r.slotHeld => Held(K) = Held(J) \cup {j}
         /\ ~r.slotHeld => Held(K) = Held(J) \ {j}
<1>1. j \in Job /\ K \in [Job -> JobRecord] /\ K[j] = r /\ \A i \in Job \ {j} : K[i] = J[i]
  BY DEF JobsFit, Open
<1>2. JobsFit(K)
  BY <1>1 DEF JobsFit
<1>3. Open(K) = Open(J) \ {j} /\ Queued(K) = Queued(J) \ {j}
  BY <1>1 DEF Open, Queued
<1>4. /\ r.slotHeld => Held(K) = Held(J) \cup {j}
      /\ ~r.slotHeld => Held(K) = Held(J) \ {j}
  BY <1>1 DEF Held
<1>5. AllTimed(J) => AllTimed(K)
  BY <1>1, <1>3 DEF AllTimed, Queued
<1>6. QED
  BY <1>1, <1>2, <1>3, <1>4, <1>5

\* the map forgets a job, and its callers are answered
LEMMA EndedIsForgotten ==
  ASSUME NEW J, NEW K, NEW F, NEW C, NEW P, NEW j \in Job, JobsFit(J),
         Open(K) = Open(J) \ {j}, \A i \in Job \ {j} : K[i] = J[i],
         MapFits(J, F), CallersFit(J, C, P)
  PROVE  MapFits(K, Forgotten(F, j)) /\ CallersFit(K, [C EXCEPT ![j] = {}], P \ C[j])
<1>1. MapFits(K, Forgotten(F, j))
  <2> DEFINE G == Forgotten(F, j)
  <2>1. G \in [Key -> Job \cup {NoJob}] /\ \A k \in Key : G[k] = IF F[k] = j THEN NoJob ELSE F[k]
    BY DEF Forgotten, MapFits
  <2> HIDE DEF G
  <2>2. Open(J) \subseteq Job /\ NoJob \notin Job
    BY ConstantFacts DEF Open
  <2>3. ASSUME NEW i \in Open(K)
        PROVE  G[K[i].key] = i
    <3>1. i # j /\ i \in Open(J) /\ K[i] = J[i] /\ F[J[i].key] = i
      BY <2>2 DEF MapFits
    <3>2. J[i].key \in Key
      BY <3>1, <2>2 DEF JobsFit, JobRecord
    <3>3. QED
      BY <3>1, <3>2, <2>1
  <2>4. ASSUME NEW k \in Key, G[k] # NoJob
        PROVE  G[k] \in Open(K) /\ K[G[k]].key = k
    BY <2>1, <2>2, <2>4 DEF MapFits
  <2>5. QED
    BY <2>1, <2>3, <2>4 DEF MapFits, G
<1>2. CallersFit(K, [C EXCEPT ![j] = {}], P \ C[j])
  <2> DEFINE D == [C EXCEPT ![j] = {}]
  <2>1. D \in [Job -> SUBSET Caller] /\ D[j] = {} /\ \A i \in Job \ {j} : D[i] = C[i]
    BY DEF CallersFit
  <2>2. \A i \in Job : IsFiniteSet(D[i]) /\ Cardinality(D[i]) <= MaxConsumers
    BY <2>1, ConstantFacts, FS_EmptySet DEF CallersFit
  <2> HIDE DEF D
  <2>3. \A i \in Job : D[i] # {} <=> i \in Open(K)
    BY <2>1 DEF CallersFit
  <2>4. \A c \in Caller : c \in P \ C[j] <=> \E i \in Job : c \in D[i]
    BY <2>1 DEF CallersFit
  <2>5. \A i, h \in Job, c \in Caller : c \in D[i] /\ c \in D[h] => i = h
    BY <2>1 DEF CallersFit
  <2>6. P \ C[j] \in SUBSET Caller
    BY DEF CallersFit
  <2>7. QED
    BY <2>1, <2>2, <2>3, <2>4, <2>5, <2>6 DEF CallersFit, D
<1>3. QED
  BY <1>1, <1>2

\* a pump that finds a free slot for all that waits, or for the one that came free
LEMMA PumpFits ==
  ASSUME NEW J, NEW Q, NEW n \in 0..Slots, n = Cardinality(Held(J)), JobsFit(J), QueueFits(J, Q),
         Q # <<>> => /\ ~closed
                     /\ \/ n < Slots /\ Len(Q) = 1
                        \/ n \in {Slots - 1, Slots} /\ AllTimed(J),
         Pump(J, Q, n), UNCHANGED closed
  PROVE  /\ JobsFit(job') /\ QueueFits(job', waiters') /\ AllTimed(job')
         /\ SlotsFit(job', waiters', active', closed')
         /\ Open(job') = Open(J) /\ \A j \in Open(J) : job'[j].key = J[j].key
<1>1. CASE ~closed /\ n < Slots /\ Q # <<>>
  <2> DEFINE j == Head(Q)
  <2>1. job' = StartedJob(J, j) /\ waiters' = Tail(Q) /\ active' = n + 1
    BY <1>1 DEF Pump
  <2>2. /\ j \in Queued(J) /\ j \in Job
        /\ waiters' \in Seq(Job) /\ Distinct(waiters') /\ Elements(waiters') = Queued(J) \ {j}
        /\ Len(waiters') = Len(Q) - 1 /\ Len(Q) \in Nat \ {0}
    BY <1>1, <2>1, RemovedHead DEF QueueFits
  <2> HIDE DEF j
  <2>3. /\ job' \in [Job -> JobRecord] /\ job'[j].state = "active" /\ job'[j].slotHeld
        /\ job'[j].key = J[j].key /\ job'[j].phase = "fetching" /\ \A i \in Job \ {j} : job'[i] = J[i]
    BY <2>1, <2>2, StartedFields DEF JobsFit
  <2>4. JobsFit(job')
    BY <2>3 DEF JobsFit
  <2>5. Queued(job') = Queued(J) \ {j} /\ Open(job') = Open(J) /\ Held(job') = Held(J) \cup {j}
    BY <2>2, <2>3 DEF Queued, Open, Held
  <2>6. j \notin Held(J)
    BY <2>2 DEF JobsFit, Queued, Held
  <2>7. active' = Cardinality(Held(job')) /\ active' \in 0..Slots
    <3>1. Cardinality(Held(J) \cup {j}) = Cardinality(Held(J)) + 1
      BY <2>6, HeldIsFinite, FS_AddElement
    <3>2. n + 1 \in 0..Slots
      BY <1>1, ConstantFacts
    <3>3. QED
      BY <3>1, <3>2, <2>1, <2>5
  <2>8. QueueFits(job', waiters')
    BY <2>2, <2>5, ConstantFacts DEF QueueFits
  <2>9. waiters' # <<>> => n + 1 = Slots /\ AllTimed(J)
    <3>1. CASE Len(Q) = 1
      <4>1. Len(waiters') = 0
        BY <3>1, <2>2
      <4>2. QED
        BY <4>1, <2>2, EmptySeq
    <3>2. CASE Len(Q) # 1
      BY <1>1, <3>2, ConstantFacts
    <3>3. QED
      BY <3>1, <3>2
  <2>10. AllTimed(job')
    <3>1. CASE waiters' = <<>>
      <4>1. Queued(job') = {}
        BY <3>1, <2>2, <2>5, EmptySeq DEF Elements
      <4>2. QED
        BY <4>1 DEF AllTimed
    <3>2. CASE waiters' # <<>>
      BY <3>2, <2>9, <2>3, <2>5 DEF AllTimed, Queued
    <3>3. QED
      BY <3>1, <3>2
  <2>11. SlotsFit(job', waiters', active', closed')
    BY <1>1, <2>1, <2>7, <2>9 DEF SlotsFit
  <2>12. \A i \in Open(J) : job'[i].key = J[i].key
    BY <2>3 DEF Open
  <2>13. QED
    BY <2>4, <2>5, <2>8, <2>10, <2>11, <2>12
<1>2. CASE ~(~closed /\ n < Slots /\ Q # <<>>)
  <2>1. job' = J /\ waiters' = Q /\ active' = n
    BY <1>2 DEF Pump
  <2>2. Q # <<>> => ~closed /\ n = Slots /\ AllTimed(J)
    BY <1>2, ConstantFacts
  <2>3. AllTimed(J)
    <3>1. CASE Q = <<>>
      <4>1. Queued(J) = {}
        BY <3>1, EmptySeq DEF QueueFits, Elements
      <4>2. QED
        BY <4>1 DEF AllTimed
    <3>2. QED
      BY <3>1, <2>2
  <2>4. QED
    BY <2>1, <2>2, <2>3 DEF SlotsFit
<1>3. QED
  BY <1>1, <1>2

-----------------------------------------------------------------------------
(* The actions.                                                            *)

LEMMA UnsettledIsOpen == Unsettled = Open(job)
  BY DEF Unsettled, Open

LEMMA NothingWaits ==
  <<>> \in Seq(Job) /\ Distinct(<<>>) /\ Elements(<<>>) = {} /\ Len(<<>>) <= MaxWaiters
<1> DEFINE Q == <<>>
<1>1. Q \in Seq(Job) /\ Len(Q) = 0
  BY EmptySeq
<1>2. Len(Q) <= MaxWaiters
  BY <1>1, ConstantFacts
<1> HIDE DEF Q
<1>3. 1..Len(Q) = {}
  BY <1>1
<1>4. Elements(Q) = {} /\ Distinct(Q)
  BY <1>3 DEF Elements, Distinct
<1>5. QED
  BY <1>1, <1>2, <1>4 DEF Q

LEMMA InitInv == Init => Inv
<1> SUFFICES ASSUME Init PROVE Inv
  OBVIOUS
<1>1. \A j \in Job : job[j] = NoWork /\ consumers[j] = {}
  BY DEF Init
<1>2. JobsFit(job)
  BY <1>1, NoWorkFields DEF JobsFit, Init
<1>3. Queued(job) = {} /\ Open(job) = {} /\ Held(job) = {}
  BY <1>1, NoWorkFields DEF Queued, Open, Held
<1>5. QueueFits(job, waiters)
  BY <1>3, NothingWaits DEF QueueFits, Init
<1>6. SlotsFit(job, waiters, active, closed) /\ AllTimed(job)
  <2>1. Cardinality(Held(job)) = 0 /\ waiters = <<>> /\ active = 0
    BY <1>3, FS_EmptySet DEF Init
  <2>2. QED
    BY <2>1, <1>3, ConstantFacts DEF SlotsFit, AllTimed
<1>7. MapFits(job, inFlight)
  BY <1>3 DEF MapFits, Init
<1>8. CallersFit(job, consumers, pending)
  BY <1>1, <1>3, ConstantFacts, FS_EmptySet DEF CallersFit, Init
<1>9. QED
  BY <1>2, <1>5, <1>6, <1>7, <1>8 DEF Inv, Init

LEMMA JoinStep ==
  ASSUME Inv, NEW c \in Caller, NEW k \in Key, Join(c, k)
  PROVE  Inv'
<1> DEFINE j == inFlight[k]  D == consumers'
<1>1. /\ c \notin pending /\ j # NoJob /\ Cardinality(consumers[j]) < MaxConsumers
      /\ D = [consumers EXCEPT ![j] = @ \cup {c}] /\ pending' = pending \cup {c}
      /\ UNCHANGED <<job, inFlight, waiters, active, closed>>
  BY DEF Join
<1>2. j \in Open(job) /\ j \in Job
  BY <1>1 DEF Inv, MapFits, Open
<1> HIDE DEF j
<1>3. /\ D \in [Job -> SUBSET Caller] /\ D[j] = consumers[j] \cup {c}
      /\ \A i \in Job \ {j} : D[i] = consumers[i]
  BY <1>1, <1>2 DEF Inv, CallersFit
<1>4. IsFiniteSet(D[j]) /\ Cardinality(D[j]) <= MaxConsumers
  <2>1. IsFiniteSet(consumers[j])
    BY <1>2 DEF Inv, CallersFit
  <2>2. Cardinality(consumers[j]) \in Nat
    BY <2>1, FS_CardinalityType
  <2>3. c \notin consumers[j]
    BY <1>1, <1>2 DEF Inv, CallersFit
  <2>4. IsFiniteSet(consumers[j] \cup {c}) /\ Cardinality(consumers[j] \cup {c}) = Cardinality(consumers[j]) + 1
    BY <2>1, <2>3, FS_AddElement
  <2>5. Cardinality(consumers[j]) + 1 <= MaxConsumers
    BY <2>2, <1>1, ConstantFacts DEF j
  <2>6. QED
    BY <2>4, <2>5, <1>3
<1> HIDE DEF D
<1>5. CallersFit(job, D, pending')
  <2>1. \A i \in Job : c \notin consumers[i]
    BY <1>1 DEF Inv, CallersFit
  <2>2. \A i \in Job : IsFiniteSet(D[i]) /\ Cardinality(D[i]) <= MaxConsumers
    BY <1>3, <1>4 DEF Inv, CallersFit
  <2>3. \A i \in Job : D[i] # {} <=> i \in Open(job)
    BY <1>2, <1>3 DEF Inv, CallersFit
  <2>4. \A d \in Caller : d \in pending' <=> \E i \in Job : d \in D[i]
    <3>1. \A d \in Caller : d \in pending <=> \E i \in Job : d \in consumers[i]
      BY DEF Inv, CallersFit
    <3>2. pending' = pending \cup {c}
      BY <1>1
    <3>3. \A d \in Caller : (\E i \in Job : d \in D[i]) <=> (d = c \/ \E i \in Job : d \in consumers[i])
      BY <1>2, <1>3
    <3>4. QED
      BY <3>1, <3>2, <3>3
  <2>5. \A h, i \in Job, d \in Caller : d \in D[h] /\ d \in D[i] => h = i
    BY <1>3, <2>1 DEF Inv, CallersFit
  <2>6. pending' \in SUBSET Caller
    BY <1>1 DEF Inv, CallersFit
  <2>7. QED
    BY <1>3, <2>2, <2>3, <2>4, <2>5, <2>6 DEF CallersFit
<1>6. /\ JobsFit(job) /\ QueueFits(job, waiters) /\ AllTimed(job)
      /\ SlotsFit(job, waiters, active, closed) /\ closed \in BOOLEAN /\ MapFits(job, inFlight)
  BY DEF Inv
<1>7. QED
  BY <1>1, <1>5, <1>6 DEF Inv, D

LEMMA AddStep ==
  ASSUME Inv, NEW c \in Caller, NEW k \in Key, Add(c, k)
  PROVE  Inv'
<1>1. PICK j \in Free :
        /\ inFlight' = [inFlight EXCEPT ![k] = j]
        /\ consumers' = [consumers EXCEPT ![j] = {c}]
        /\ Pump([job EXCEPT ![j] = NewJob(k)], Append(waiters, j), active)
  BY Zenon DEF Add
<1>2. /\ ~closed /\ c \notin pending /\ inFlight[k] = NoJob
      /\ active < Slots \/ Len(waiters) < MaxWaiters
      /\ pending' = pending \cup {c} /\ UNCHANGED closed
  BY Zenon DEF Add
<1>3. j \in Job /\ job[j].state = "none" /\ j # NoJob
  BY ConstantFacts DEF Free
<1> DEFINE J == [job EXCEPT ![j] = NewJob(k)]  Q == Append(waiters, j)
<1>4. /\ J \in [Job -> JobRecord] /\ J[j].key = k /\ J[j].state = "queued" /\ ~J[j].slotHeld
      /\ active >= Slots => J[j].timed
      /\ \A i \in Job \ {j} : J[i] = job[i]
  BY <1>3, NewJobFields DEF Inv, JobsFit
<1>5. Pump(J, Q, active)
  BY <1>1
<1> HIDE DEF J
<1>6. JobsFit(J)
  BY <1>4 DEF Inv, JobsFit
<1>7. /\ Queued(J) = Queued(job) \cup {j} /\ Open(J) = Open(job) \cup {j} /\ Held(J) = Held(job)
      /\ j \notin Queued(job) /\ j \notin Open(job)
  BY <1>3, <1>4 DEF Inv, JobsFit, Queued, Open, Held
<1>8. /\ waiters \in Seq(Job) /\ Distinct(waiters) /\ Elements(waiters) = Queued(job)
      /\ Len(waiters) \in Nat /\ Len(waiters) <= MaxWaiters
  BY LenProperties DEF Inv, QueueFits
<1>9. /\ Q \in Seq(Job) /\ Distinct(Q) /\ Elements(Q) = Queued(J) /\ Len(Q) = Len(waiters) + 1
  BY <1>3, <1>7, <1>8, AppendedElement
<1> HIDE DEF Q
<1>10. active \in 0..Slots /\ active = Cardinality(Held(J)) /\ (active < Slots => waiters = <<>>)
  BY <1>7, ConstantFacts DEF Inv, SlotsFit
<1>11. active < Slots => Len(Q) = 1
  BY <1>9, <1>10, EmptySeq
<1>12. QueueFits(J, Q)
  BY <1>2, <1>8, <1>9, <1>11, ConstantFacts DEF QueueFits
<1>13. active = Slots => AllTimed(J)
  BY <1>4, <1>7, ConstantFacts DEF AllTimed, Inv, Queued
<1>14. Q # <<>> => /\ ~closed
                   /\ \/ active < Slots /\ Len(Q) = 1
                      \/ active \in {Slots - 1, Slots} /\ AllTimed(J)
  <2>1. active < Slots \/ active = Slots
    BY <1>10, ConstantFacts
  <2>2. QED
    BY <2>1, <1>2, <1>11, <1>13
<1>15. /\ JobsFit(job') /\ QueueFits(job', waiters') /\ AllTimed(job')
       /\ SlotsFit(job', waiters', active', closed')
       /\ Open(job') = Open(J) /\ \A i \in Open(J) : job'[i].key = J[i].key
  BY <1>2, <1>5, <1>6, <1>10, <1>12, <1>14, PumpFits
<1> DEFINE F == inFlight'  D == consumers'
<1>16. MapFits(J, F)
  <2>1. /\ F \in [Key -> Job \cup {NoJob}] /\ F[k] = j /\ \A l \in Key \ {k} : F[l] = inFlight[l]
    BY <1>1, <1>3 DEF Inv, MapFits
  <2> HIDE DEF F
  <2>2. \A i \in Open(job) : J[i] = job[i] /\ job[i].key \in Key /\ job[i].key # k /\ inFlight[job[i].key] = i
    BY <1>2, <1>4, <1>7, ConstantFacts DEF Inv, JobsFit, MapFits, Open, JobRecord
  <2>3. \A i \in Open(J) : F[J[i].key] = i
    BY <2>1, <2>2, <1>4, <1>7
  <2>4. \A l \in Key : F[l] # NoJob => F[l] \in Open(J) /\ J[F[l]].key = l
    BY <2>1, <2>2, <1>4, <1>7 DEF Inv, MapFits
  <2>5. QED
    BY <2>1, <2>3, <2>4 DEF MapFits
<1>17. CallersFit(J, D, pending')
  <2>1. /\ D \in [Job -> SUBSET Caller] /\ D[j] = {c} /\ \A i \in Job \ {j} : D[i] = consumers[i]
    BY <1>1, <1>3 DEF Inv, CallersFit
  <2> HIDE DEF D
  <2>2. \A i \in Job : c \notin consumers[i]
    BY <1>2 DEF Inv, CallersFit
  <2>3. IsFiniteSet({c}) /\ Cardinality({c}) <= MaxConsumers
    <3>1. IsFiniteSet({c}) /\ Cardinality({c}) = 1
      BY FS_Singleton
    <3>2. QED
      BY <3>1, ConstantFacts
  <2>4. \A i \in Job : IsFiniteSet(D[i]) /\ Cardinality(D[i]) <= MaxConsumers
    BY <2>1, <2>3 DEF Inv, CallersFit
  <2>5. \A i \in Job : D[i] # {} <=> i \in Open(J)
    BY <2>1, <1>7 DEF Inv, CallersFit
  <2>6. consumers[j] = {}
    BY <1>3, <1>7 DEF Inv, CallersFit
  <2>7. \A d \in Caller : d \in pending' <=> \E i \in Job : d \in D[i]
    BY <1>2, <1>3, <2>1, <2>6 DEF Inv, CallersFit
  <2>8. \A h, i \in Job, d \in Caller : d \in D[h] /\ d \in D[i] => h = i
    BY <2>1, <2>2 DEF Inv, CallersFit
  <2>9. pending' \in SUBSET Caller
    BY <1>2 DEF Inv, CallersFit
  <2>10. QED
    BY <2>1, <2>4, <2>5, <2>7, <2>8, <2>9 DEF CallersFit
<1>18. MapFits(job', F) /\ CallersFit(job', D, pending')
  BY <1>15, <1>16, <1>17, SameOpenJobs
<1>19. QED
  BY <1>2, <1>15, <1>18 DEF Inv

LEMMA AbortStep ==
  ASSUME Inv, NEW j, Abort(j)
  PROVE  Inv'
<1> DEFINE r == Settled(job[j])
<1>1. /\ j \in Open(job) /\ j \in Job /\ job[j] \in JobRecord
      /\ job' = [job EXCEPT ![j] = r]
      /\ waiters' = removeWaiter(waiters, j) /\ inFlight' = Forgotten(inFlight, j)
      /\ consumers' = [consumers EXCEPT ![j] = {}] /\ pending' = pending \ consumers[j]
      /\ UNCHANGED <<active, closed>>
  BY UnsettledIsOpen DEF Abort, Answer, Inv, JobsFit, Open
<1>2. /\ r \in JobRecord /\ r.state \in {"none", "settled"} /\ (r.slotHeld <=> r.state = "settled")
      /\ r.slotHeld = job[j].slotHeld
  BY <1>1, SettledFields
<1> HIDE DEF r
<1>11. JobsFit(job) /\ AllTimed(job) /\ MapFits(job, inFlight) /\ CallersFit(job, consumers, pending)
  BY DEF Inv
<1>3. /\ JobsFit(job') /\ Open(job') = Open(job) \ {j} /\ Queued(job') = Queued(job) \ {j}
      /\ \A i \in Job \ {j} : job'[i] = job[i]
      /\ AllTimed(job')
      /\ r.slotHeld => Held(job') = Held(job) \cup {j}
      /\ ~r.slotHeld => Held(job') = Held(job) \ {j}
  <2>1. /\ JobsFit(job) /\ AllTimed(job) /\ j \in Open(job) /\ r \in JobRecord
        /\ r.state \in {"none", "settled"} /\ (r.slotHeld <=> r.state = "settled")
    BY <1>11, <1>1, <1>2
  <2> DEFINE K == [job EXCEPT ![j] = r]
  <2>2. /\ JobsFit(K) /\ Open(K) = Open(job) \ {j} /\ Queued(K) = Queued(job) \ {j}
        /\ \A i \in Job \ {j} : K[i] = job[i]
        /\ AllTimed(job) => AllTimed(K)
        /\ r.slotHeld => Held(K) = Held(job) \cup {j}
        /\ ~r.slotHeld => Held(K) = Held(job) \ {j}
    BY <2>1, EndedFits
  <2>3. job' = K
    BY <1>1
  <2> HIDE DEF K
  <2>4. QED
    BY <2>1, <2>2, <2>3
<1>4. Held(job') = Held(job)
  BY <1>1, <1>2, <1>3 DEF Held
<1>5. MapFits(job', inFlight') /\ CallersFit(job', consumers', pending')
  BY <1>11, <1>1, <1>3, EndedIsForgotten
<1>6. /\ waiters' \in Seq(Job) /\ Distinct(waiters') /\ Elements(waiters') = Queued(job')
      /\ Len(waiters') <= Len(waiters)
  <2>1. waiters \in Seq(Job) /\ Distinct(waiters) /\ Elements(waiters) = Queued(job)
    BY DEF Inv, QueueFits
  <2>2. /\ removeWaiter(waiters, j) \in Seq(Job) /\ Distinct(removeWaiter(waiters, j))
        /\ Elements(removeWaiter(waiters, j)) = Elements(waiters) \ {j}
        /\ Len(removeWaiter(waiters, j)) <= Len(waiters)
    BY <2>1, RemovedWaiter
  <2>3. waiters' = removeWaiter(waiters, j) /\ Queued(job') = Queued(job) \ {j}
    BY <1>1, <1>3
  <2>4. QED
    BY <2>1, <2>2, <2>3
<1>7. Len(waiters') \in Nat /\ Len(waiters) \in Nat /\ (waiters = <<>> => waiters' = <<>>)
  BY <1>6, LenProperties, EmptySeq DEF Inv, QueueFits
<1>8. QueueFits(job', waiters')
  BY <1>6, <1>7, ConstantFacts DEF Inv, QueueFits
<1>9. SlotsFit(job', waiters', active', closed')
  BY <1>1, <1>4, <1>7 DEF Inv, SlotsFit
<1>10. QED
  BY <1>1, <1>3, <1>5, <1>8, <1>9 DEF Inv

\* an execution ends, its job unsettled or aborted before, and the slot is offered
LEMMA SlotComesBack ==
  ASSUME Inv, NEW j \in Job, job[j].slotHeld,
         Pump([job EXCEPT ![j] = NoWork], waiters, active - 1), UNCHANGED closed
  PROVE  /\ JobsFit(job') /\ QueueFits(job', waiters') /\ AllTimed(job')
         /\ SlotsFit(job', waiters', active', closed')
         /\ Open(job') = Open(job) \ {j}
         /\ \A i \in Open(job) \ {j} : job'[i].key = job[i].key
<1> DEFINE J == [job EXCEPT ![j] = NoWork]
<1>1. Pump(J, waiters, active - 1)
  OBVIOUS
<1>2. J \in [Job -> JobRecord] /\ J[j] = NoWork /\ \A i \in Job \ {j} : J[i] = job[i]
  BY NoWorkFields DEF Inv, JobsFit
<1> HIDE DEF J
<1>3. JobsFit(J)
  BY <1>2, NoWorkFields DEF Inv, JobsFit
<1>4. job[j].state \in {"active", "settled"}
  BY DEF Inv, JobsFit
<1>5. Queued(J) = Queued(job) /\ Open(J) = Open(job) \ {j} /\ Held(J) = Held(job) \ {j} /\ j \in Held(job)
  BY <1>2, <1>4, NoWorkFields DEF Queued, Open, Held
<1>6. QueueFits(J, waiters) /\ AllTimed(J)
  BY <1>2, <1>4, <1>5 DEF Inv, QueueFits, AllTimed, Queued
<1>7. active - 1 \in 0..Slots /\ active - 1 = Cardinality(Held(J))
  <2>1. Cardinality(Held(J)) = Cardinality(Held(job)) - 1 /\ Cardinality(Held(J)) \in Nat
    BY <1>5, HeldIsFinite, FS_RemoveElement
  <2>2. QED
    BY <2>1, ConstantFacts DEF Inv, SlotsFit
<1>8. waiters # <<>> => ~closed /\ active - 1 \in {Slots - 1, Slots} /\ AllTimed(J)
  BY <1>6, ConstantFacts DEF Inv, SlotsFit
<1>9. /\ JobsFit(job') /\ QueueFits(job', waiters') /\ AllTimed(job')
      /\ SlotsFit(job', waiters', active', closed')
      /\ Open(job') = Open(J) /\ \A i \in Open(J) : job'[i].key = J[i].key
  BY <1>1, <1>3, <1>6, <1>7, <1>8, PumpFits
<1>10. \A i \in Open(J) : i \in Job \ {j}
  BY <1>5 DEF Open
<1>11. QED
  BY <1>2, <1>5, <1>9, <1>10

LEMMA EndExecutionStep ==
  ASSUME Inv, NEW j \in Open(job), job[j].state = "active", EndExecution(j)
  PROVE  Inv'
<1>1. /\ inFlight' = Forgotten(inFlight, j)
      /\ consumers' = [consumers EXCEPT ![j] = {}] /\ pending' = pending \ consumers[j]
      /\ Pump([job EXCEPT ![j] = NoWork], waiters, active - 1)
      /\ UNCHANGED closed
  BY DEF EndExecution, Answer
<1>2. j \in Job /\ job[j].slotHeld
  BY DEF Inv, JobsFit, Open
<1>3. /\ JobsFit(job') /\ QueueFits(job', waiters') /\ AllTimed(job')
      /\ SlotsFit(job', waiters', active', closed')
      /\ Open(job') = Open(job) \ {j}
      /\ \A i \in Open(job) \ {j} : job'[i].key = job[i].key
  BY <1>1, <1>2, SlotComesBack
<1> DEFINE J == [job EXCEPT ![j] = NoWork]
<1>4. /\ Open(J) = Open(job) \ {j} /\ \A i \in Job \ {j} : J[i] = job[i]
  <2>1. J[j].state = "none" /\ \A i \in Job \ {j} : J[i] = job[i]
    BY <1>2, NoWorkFields DEF Inv, JobsFit
  <2>2. QED
    BY <2>1 DEF Open
<1> HIDE DEF J
<1>5. MapFits(J, Forgotten(inFlight, j)) /\ CallersFit(J, [consumers EXCEPT ![j] = {}], pending \ consumers[j])
  <2>1. JobsFit(job) /\ MapFits(job, inFlight) /\ CallersFit(job, consumers, pending)
    BY DEF Inv
  <2>2. QED
    BY <2>1, <1>2, <1>4, EndedIsForgotten
<1>6. Open(job') = Open(J) /\ \A i \in Open(J) : job'[i].key = J[i].key
  BY <1>3, <1>4 DEF Open
<1>7. MapFits(job', Forgotten(inFlight, j)) /\ CallersFit(job', [consumers EXCEPT ![j] = {}], pending \ consumers[j])
  BY <1>5, <1>6, SameOpenJobs
<1>8. MapFits(job', inFlight') /\ CallersFit(job', consumers', pending')
  BY <1>1, <1>7, Zenon
<1>9. QED
  BY <1>1, <1>3, <1>8 DEF Inv

LEMMA UnwindStep ==
  ASSUME Inv, NEW j \in Job, Unwind(j)
  PROVE  Inv'
<1>1. /\ job[j].state = "settled" /\ job[j].slotHeld
      /\ Pump([job EXCEPT ![j] = NoWork], waiters, active - 1)
      /\ UNCHANGED <<consumers, inFlight, closed, pending>>
  BY DEF Unwind, Unwinding
<1>2. /\ JobsFit(job') /\ QueueFits(job', waiters') /\ AllTimed(job')
      /\ SlotsFit(job', waiters', active', closed')
      /\ Open(job') = Open(job) \ {j}
      /\ \A i \in Open(job) \ {j} : job'[i].key = job[i].key
  BY <1>1, SlotComesBack
<1>3. j \notin Open(job)
  BY <1>1 DEF Open
<1>4. MapFits(job', inFlight) /\ CallersFit(job', consumers, pending)
  <2>1. MapFits(job, inFlight) /\ CallersFit(job, consumers, pending)
    BY DEF Inv
  <2>2. Open(job') = Open(job) /\ \A i \in Open(job) : job'[i].key = job[i].key
    BY <1>2, <1>3
  <2>3. QED
    BY <2>1, <2>2, SameOpenJobs
<1>5. QED
  BY <1>1, <1>2, <1>4 DEF Inv

\* an active job begins, or ends, the delay between two attempts
LEMMA AttemptStep ==
  ASSUME Inv, NEW j \in Job, NEW r \in JobRecord, job' = [job EXCEPT ![j] = r],
         job[j].state = "active", r.state = "active", r.slotHeld, r.key = job[j].key,
         r.phase = "delaying" => r.attempt < MaxAttempts,
         UNCHANGED <<consumers, inFlight, waiters, active, closed, pending>>
  PROVE  Inv'
<1>1. job' \in [Job -> JobRecord] /\ job'[j] = r /\ \A i \in Job \ {j} : job'[i] = job[i]
  BY DEF Inv, JobsFit
<1>2. job[j].slotHeld
  BY DEF Inv, JobsFit
<1>3. JobsFit(job')
  BY <1>1 DEF Inv, JobsFit
<1>4. Queued(job') = Queued(job) /\ Open(job') = Open(job) /\ Held(job') = Held(job)
  BY <1>1, <1>2 DEF Queued, Open, Held
<1>5. MapFits(job', inFlight) /\ CallersFit(job', consumers, pending)
  <2>1. MapFits(job, inFlight) /\ CallersFit(job, consumers, pending)
    BY DEF Inv
  <2>2. \A i \in Open(job) : job'[i].key = job[i].key
    BY <1>1 DEF Open
  <2>3. QED
    BY <2>1, <2>2, <1>4, SameOpenJobs
<1>6. AllTimed(job')
  BY <1>1, <1>4 DEF AllTimed, Queued, Inv
<1>7. QED
  BY <1>3, <1>4, <1>5, <1>6 DEF Inv, QueueFits, SlotsFit

LEMMA FetchFailsStep ==
  ASSUME Inv, NEW j \in Job, FetchFails(j)
  PROVE  Inv'
<1>1. job[j] \in JobRecord /\ job[j].state = "active" /\ job[j].slotHeld /\ j \in Open(job)
  BY DEF Inv, JobsFit, FetchFails, Fetching, Open
<1>2. CASE EndExecution(j)
  BY <1>1, <1>2, EndExecutionStep
<1>3. CASE /\ job[j].attempt < MaxAttempts
           /\ job' = [job EXCEPT ![j] = [@ EXCEPT !.phase = "delaying"]]
           /\ UNCHANGED <<consumers, inFlight, waiters, active, closed, pending>>
  <2> DEFINE r == [job[j] EXCEPT !.phase = "delaying"]
  <2>1. /\ r \in JobRecord /\ r.state = "active" /\ r.slotHeld /\ r.key = job[j].key
        /\ r.attempt < MaxAttempts
    BY <1>1, <1>3 DEF JobRecord
  <2>2. job' = [job EXCEPT ![j] = r] /\ UNCHANGED <<consumers, inFlight, waiters, active, closed, pending>>
    BY <1>3
  <2> HIDE DEF r
  <2>3. QED
    BY <1>1, <2>1, <2>2, AttemptStep
<1>4. QED
  BY <1>2, <1>3 DEF FetchFails

LEMMA DelayEndsStep ==
  ASSUME Inv, NEW j \in Job, DelayEnds(j)
  PROVE  Inv'
<1>1. job[j] \in JobRecord /\ job[j].state = "active" /\ job[j].slotHeld /\ job[j].attempt < MaxAttempts
  BY DEF Inv, JobsFit, DelayEnds
<1> DEFINE r == [job[j] EXCEPT !.phase = "fetching", !.attempt = job[j].attempt + 1]
<1>2. r \in JobRecord /\ r.state = "active" /\ r.slotHeld /\ r.key = job[j].key /\ r.phase = "fetching"
  <2>1. job[j].attempt + 1 \in 1..MaxAttempts
    BY <1>1, ConstantFacts DEF JobRecord
  <2>2. QED
    BY <1>1, <2>1 DEF JobRecord
<1>3. job' = [job EXCEPT ![j] = r] /\ UNCHANGED <<consumers, inFlight, waiters, active, closed, pending>>
  BY DEF DelayEnds
<1> HIDE DEF r
<1>4. QED
  BY <1>1, <1>2, <1>3, AttemptStep

LEMMA LeaveStep ==
  ASSUME Inv, NEW c \in Caller, Leave(c)
  PROVE  Inv'
<1>1. PICK j \in Job :
        /\ c \in consumers[j]
        /\ \/ consumers[j] = {c} /\ Abort(j)
           \/ /\ consumers[j] # {c}
              /\ consumers' = [consumers EXCEPT ![j] = @ \ {c}]
              /\ pending' = pending \ {c}
              /\ UNCHANGED <<job, inFlight, waiters, active, closed>>
  BY DEF Leave
<1>2. CASE Abort(j)
  BY <1>2, AbortStep
<1>3. CASE /\ consumers[j] # {c}
           /\ consumers' = [consumers EXCEPT ![j] = @ \ {c}]
           /\ pending' = pending \ {c}
           /\ UNCHANGED <<job, inFlight, waiters, active, closed>>
  <2> DEFINE D == consumers'
  <2>1. /\ D \in [Job -> SUBSET Caller] /\ D[j] = consumers[j] \ {c} /\ D[j] # {}
        /\ \A i \in Job \ {j} : D[i] = consumers[i]
    BY <1>1, <1>3 DEF Inv, CallersFit
  <2>2. IsFiniteSet(D[j]) /\ Cardinality(D[j]) <= MaxConsumers
    <3>1. IsFiniteSet(consumers[j]) /\ Cardinality(consumers[j]) <= MaxConsumers
      BY DEF Inv, CallersFit
    <3>2. IsFiniteSet(consumers[j] \ {c}) /\ Cardinality(consumers[j] \ {c}) = Cardinality(consumers[j]) - 1
      BY <3>1, <1>1, FS_RemoveElement
    <3>3. Cardinality(consumers[j]) \in Nat
      BY <3>1, FS_CardinalityType
    <3>4. QED
      BY <3>1, <3>2, <3>3, <2>1, ConstantFacts
  <2> HIDE DEF D
  <2>3. \A i \in Job : IsFiniteSet(D[i]) /\ Cardinality(D[i]) <= MaxConsumers
    BY <2>1, <2>2 DEF Inv, CallersFit
  <2>4. \A i \in Job : D[i] # {} <=> i \in Open(job)
    BY <1>1, <2>1 DEF Inv, CallersFit
  <2>5. \A i \in Job : c \notin D[i]
    BY <1>1, <2>1 DEF Inv, CallersFit
  <2>6. \A d \in Caller : d \in pending' <=> \E i \in Job : d \in D[i]
    BY <1>3, <2>1, <2>5 DEF Inv, CallersFit
  <2>7. \A h, i \in Job, d \in Caller : d \in D[h] /\ d \in D[i] => h = i
    BY <2>1 DEF Inv, CallersFit
  <2>8. pending' \in SUBSET Caller
    BY <1>3 DEF Inv, CallersFit
  <2>9. CallersFit(job, D, pending')
    BY <2>1, <2>3, <2>4, <2>6, <2>7, <2>8 DEF CallersFit
  <2>10. /\ JobsFit(job) /\ QueueFits(job, waiters) /\ AllTimed(job)
         /\ SlotsFit(job, waiters, active, closed) /\ closed \in BOOLEAN /\ MapFits(job, inFlight)
    BY DEF Inv
  <2>11. QED
    BY <1>3, <2>9, <2>10 DEF Inv, D
<1>4. QED
  BY <1>1, <1>2, <1>3

LEMMA CloseStep ==
  ASSUME Inv, Close
  PROVE  Inv'
<1> DEFINE J == job'  D == consumers'
<1>1. /\ closed' = TRUE /\ active' = active /\ waiters' = <<>> /\ inFlight' = [k \in Key |-> NoJob]
      /\ J = [j \in Job |-> IF j \in Open(job) THEN Settled(job[j]) ELSE job[j]]
      /\ D = [j \in Job |-> IF j \in Open(job) THEN {} ELSE consumers[j]]
      /\ pending' = pending \ UNION {consumers[j] : j \in Open(job)}
  BY UnsettledIsOpen DEF Close
<1>2. \A j \in Job : job[j] \in JobRecord
  BY DEF Inv, JobsFit
<1>3. /\ J \in [Job -> JobRecord]
      /\ \A j \in Job : /\ j \in Open(job) => J[j] = Settled(job[j])
                        /\ j \notin Open(job) => J[j] = job[j]
  <2>1. \A j \in Job : Settled(job[j]) \in JobRecord
    BY <1>2, SettledFields
  <2>2. QED
    BY <1>1, <1>2, <2>1
<1>4. /\ D \in [Job -> SUBSET Caller]
      /\ \A j \in Job : D[j] = {}
  <2>1. \A j \in Job : j \notin Open(job) => consumers[j] = {}
    BY DEF Inv, CallersFit
  <2>2. QED
    BY <1>1, <2>1
<1> HIDE DEF J, D
<1>5. \A j \in Job : /\ J[j].slotHeld = job[j].slotHeld
                     /\ J[j].state \notin {"queued", "active"}
                     /\ J[j].slotHeld <=> J[j].state = "settled"
  <2>1. \A j \in Job : job[j].slotHeld \in BOOLEAN /\ (job[j].slotHeld <=> job[j].state \in {"active", "settled"})
    BY <1>2 DEF Inv, JobsFit, JobRecord
  <2>2. ASSUME NEW j \in Job, j \in Open(job)
        PROVE  J[j].slotHeld = job[j].slotHeld /\ J[j].state = IF job[j].slotHeld THEN "settled" ELSE "none"
    BY <1>2, <1>3, <2>2, SettledFields
  <2>3. ASSUME NEW j \in Job, j \notin Open(job)
        PROVE  J[j] = job[j] /\ job[j].state \notin {"queued", "active"}
    BY <1>3, <2>3 DEF Open
  <2>4. QED
    BY <2>1, <2>2, <2>3
<1>6. JobsFit(J)
  BY <1>3, <1>5 DEF JobsFit
<1>7. Queued(J) = {} /\ Open(J) = {} /\ Held(J) = Held(job)
  BY <1>5 DEF Queued, Open, Held
<1>8. QueueFits(J, waiters') /\ AllTimed(J)
  <2>1. QueueFits(J, <<>>)
    BY <1>7, NothingWaits DEF QueueFits
  <2>2. AllTimed(J)
    BY <1>7 DEF AllTimed
  <2>3. QED
    BY <2>1, <2>2, <1>1
<1>9. SlotsFit(J, waiters', active', closed')
  BY <1>1, <1>7 DEF Inv, SlotsFit
<1>14. \A j \in Open(job) : j \in Job
  BY DEF Open
<1>10. MapFits(J, inFlight')
  BY <1>1, <1>7 DEF MapFits
<1>11. pending' = {}
  BY <1>1 DEF Inv, CallersFit
<1>12. CallersFit(J, D, pending')
  BY <1>4, <1>7, <1>11, FS_EmptySet, ConstantFacts DEF CallersFit
<1>13. QED
  BY <1>1, <1>6, <1>8, <1>9, <1>10, <1>12 DEF Inv, J, D

-----------------------------------------------------------------------------
LEMMA InvStep ==
  ASSUME Inv, [Next]_vars
  PROVE  Inv'
<1>1. CASE \E c \in Caller, k \in Key : Join(c, k) \/ Add(c, k)
  BY <1>1, JoinStep, AddStep
<1>2. CASE \E c \in Caller : Leave(c)
  BY <1>2, LeaveStep
<1>3. CASE \E j \in Job : Execution(j)
  <2> PICK j \in Job : Execution(j)
    BY <1>3
  <2>1. CASE FetchReturns(j)
    <3>1. job[j].state = "active" /\ j \in Open(job) /\ EndExecution(j)
      BY <2>1 DEF FetchReturns, Fetching, Open
    <3>2. QED
      BY <3>1, EndExecutionStep
  <2>2. QED
    BY <2>1, FetchFailsStep, DelayEndsStep, UnwindStep DEF Execution
<1>4. CASE \E j \in Job : Deadline(j)
  BY <1>4, AbortStep DEF Deadline, QueueTimeout, OverallTimeout
<1>5. CASE Close
  BY <1>5, CloseStep
<1>6. CASE UNCHANGED vars
  BY <1>6 DEF vars, Inv, SlotsFit, AllTimed, QueueFits, JobsFit, MapFits, CallersFit, Queued, Open, Held
<1>7. QED
  BY <1>1, <1>2, <1>3, <1>4, <1>5, <1>6 DEF Next

\* The invariant from which the theorems below follow.
THEOREM QueueInvariant == Spec => []Inv
  BY InitInv, InvStep, PTL DEF Spec

LEMMA WaitingIsElements ==
  ASSUME Inv
  PROVE  Waiting = Elements(waiters) /\ DOMAIN waiters = 1..Len(waiters)
<1>1. DOMAIN waiters = 1..Len(waiters)
  BY LenProperties DEF Inv, QueueFits
<1>2. QED
  BY <1>1, Zenon DEF Waiting, Elements

\* The queue keeps its types and never runs, holds or shares more than its limits.
THEOREM QueueTypes == Spec => []TypeOK
<1>1. Inv => TypeOK
  BY DEF Inv, JobsFit, QueueFits, SlotsFit, MapFits, CallersFit, TypeOK
<1>2. QED
  BY <1>1, QueueInvariant, PTL

\* Every slot is held by one execution, and nothing waits while one is free.
THEOREM SlotsAccounted == Spec => []SlotsAreAccounted
<1>1. Inv => SlotsAreAccounted
  <2> SUFFICES ASSUME Inv PROVE SlotsAreAccounted
    OBVIOUS
  <2>1. Waiting = Queued(job) /\ Waiting = Elements(waiters)
    BY WaitingIsElements DEF Inv, QueueFits
  <2>2. Len(waiters) = Cardinality(Waiting)
    BY <2>1, LengthIsCount DEF Inv, QueueFits
  <2>3. \A j \in Waiting : job[j].timed /\ ~job[j].slotHeld
    BY <2>1 DEF Inv, AllTimed, JobsFit, Queued
  <2>4. active = Cardinality({j \in Job : job[j].slotHeld}) /\ (waiters # <<>> => active = Slots)
    BY DEF Inv, SlotsFit, Held
  <2>5. QED
    BY <2>1, <2>2, <2>3, <2>4 DEF SlotsAreAccounted, Queued
<1>2. QED
  BY <1>1, QueueInvariant, PTL

\* A job is in the map exactly while it is unsettled, and somebody wants it.
THEOREM JobsWanted == Spec => []JobsAreWanted
<1>1. Inv => JobsAreWanted
  BY UnsettledIsOpen DEF Inv, MapFits, CallersFit, JobsAreWanted, Open
<1>2. QED
  BY <1>1, QueueInvariant, PTL

\* A caller that waits is a consumer of exactly one unsettled job.
THEOREM CallersHeld == Spec => []CallersAreHeld
<1>1. Inv => CallersAreHeld
  BY UnsettledIsOpen DEF Inv, CallersFit, CallersAreHeld, Open
<1>2. QED
  BY <1>1, QueueInvariant, PTL
-----------------------------------------------------------------------------
(* The queue shares calls.                                                 *)
(*                                                                         *)
(* The callers of a key are the consumers of the job the map has for it,   *)
(* and by MapFits and CallersFit every consumer is one of them and a job   *)
(* has one key: what happens to a job happens to the group of its key.     *)
(* That a new group finds its place counts the unsettled jobs: each one    *)
(* waits or holds a slot.                                                  *)

LEMMA SameCardinality == \A S : Calls!Cardinality(S) = Cardinality(S)
  BY DEF Calls!Cardinality, Cardinality

\* who is where
LEMMA Groups ==
  ASSUME Inv
  PROVE  /\ \A k \in Key : inFlight[k] # NoJob =>
              inFlight[k] \in Job /\ job[inFlight[k]].key = k /\ Sharers[k] = consumers[inFlight[k]]
         /\ \A k \in Key : inFlight[k] = NoJob => Sharers[k] = {}
         /\ \A j \in Open(job) : job[j].key \in Key /\ inFlight[job[j].key] = j /\ j \in Job /\ j # NoJob
         /\ \A j \in Job : job[j].key \in Key /\ (j \notin Open(job) => consumers[j] = {})
         /\ \A i, j \in Job, c \in Caller : c \in consumers[i] /\ c \in consumers[j] => i = j
         /\ consumers \in [Job -> SUBSET Caller] /\ inFlight \in [Key -> Job \cup {NoJob}]
         /\ Sharers \in [Key -> SUBSET Caller]
<1>1. consumers \in [Job -> SUBSET Caller] /\ inFlight \in [Key -> Job \cup {NoJob}]
  BY DEF Inv, CallersFit, MapFits
<1>2. \A k \in Key : /\ inFlight[k] # NoJob => Sharers[k] = consumers[inFlight[k]]
                     /\ inFlight[k] = NoJob => Sharers[k] = {}
  BY DEF Sharers
<1>3. /\ \A k \in Key : inFlight[k] # NoJob => inFlight[k] \in Job /\ job[inFlight[k]].key = k
      /\ \A j \in Open(job) : inFlight[job[j].key] = j /\ j \in Job /\ j # NoJob
  BY ConstantFacts DEF Inv, MapFits, Open
<1>4. \A j \in Job : job[j].key \in Key
  BY DEF Inv, JobsFit, JobRecord
<1>5. Sharers \in [Key -> SUBSET Caller]
  BY <1>1 DEF Sharers
<1>6. /\ \A j \in Job : j \notin Open(job) => consumers[j] = {}
      /\ \A i, j \in Job, c \in Caller : c \in consumers[i] /\ c \in consumers[j] => i = j
  BY DEF Inv, CallersFit
<1>7. QED
  BY <1>1, <1>2, <1>3, <1>4, <1>5, <1>6

\* the group of a job that ends is answered, the others are not touched
LEMMA GroupEnds ==
  ASSUME Inv, NEW j \in Open(job),
         inFlight' = Forgotten(inFlight, j), consumers' = [consumers EXCEPT ![j] = {}],
         UNCHANGED closed
  PROVE  Calls!Next
<1> DEFINE k == job[j].key
<1>1. k \in Key /\ inFlight[k] = j /\ j \in Job /\ j # NoJob
  BY Groups
<1>2. \A i \in Key : inFlight[i] = j => i = k
  BY <1>1, Groups
<1> HIDE DEF k
<1>3. \A i \in Key : Sharers'[i] = IF i = k THEN {} ELSE Sharers[i]
  <2>1. ASSUME NEW i \in Key
        PROVE  Sharers'[i] = IF inFlight'[i] = NoJob THEN {} ELSE consumers'[inFlight'[i]]
    BY DEF Sharers
  <2>2. \A i \in Key : inFlight'[i] = IF inFlight[i] = j THEN NoJob ELSE inFlight[i]
    BY DEF Forgotten
  <2>3. consumers'[j] = {} /\ \A i \in Job \ {j} : consumers'[i] = consumers[i]
    BY <1>1, Groups
  <2>7. \A i \in Key : Sharers[i] = IF inFlight[i] = NoJob THEN {} ELSE consumers[inFlight[i]]
    BY DEF Sharers
  <2>4. ASSUME NEW i \in Key, i # k
        PROVE  Sharers'[i] = Sharers[i]
    <3>1. inFlight'[i] = inFlight[i] /\ inFlight[i] # j
      BY <1>2, <2>2, <2>4
    <3>2. CASE inFlight[i] = NoJob
      BY <3>1, <3>2, <2>1, <2>7
    <3>3. CASE inFlight[i] # NoJob
      <4>1. inFlight[i] \in Job \ {j}
        BY <3>1, <3>3, Groups
      <4>2. QED
        BY <3>1, <3>3, <4>1, <2>1, <2>3, <2>7
    <3>4. QED
      BY <3>2, <3>3
  <2>5. Sharers'[k] = {}
    BY <1>1, <2>1, <2>2
  <2>6. QED
    BY <2>4, <2>5
<1>4. Sharers' = [Sharers EXCEPT ![k] = {}]
  <2>1. Sharers' = [i \in Key |-> Sharers'[i]]
    BY DEF Sharers
  <2>2. Sharers \in [Key -> SUBSET Caller]
    BY Groups
  <2>3. QED
    BY <1>3, <2>1, <2>2
<1>5. Calls!End(k)
  BY <1>4, Zenon DEF Calls!End
<1>6. QED
  BY <1>1, <1>5 DEF Calls!Next

\* the unsettled jobs wait or hold a slot
LEMMA OpenIsCounted ==
  ASSUME Inv, active < Slots \/ Len(waiters) < MaxWaiters
  PROVE  IsFiniteSet(Open(job)) /\ Cardinality(Open(job)) \in Nat /\ Cardinality(Open(job)) < Slots + MaxWaiters
<1> DEFINE O == Open(job)  H == Held(job)  Q == Queued(job)
<1>1. /\ IsFiniteSet(H) /\ Cardinality(H) \in Nat /\ IsFiniteSet(Q) /\ Cardinality(Q) \in Nat
      /\ IsFiniteSet(O) /\ Cardinality(O) \in Nat
  BY ConstantFacts, FS_Subset, FS_CardinalityType DEF Held, Queued, Open
<1>2. O \subseteq Q \cup H
  BY DEF Inv, JobsFit, Open, Queued, Held
<1>3. Cardinality(H) = active /\ active <= Slots /\ (active < Slots => waiters = <<>>)
  BY ConstantFacts DEF Inv, SlotsFit
<1>4. Cardinality(Q) = Len(waiters) /\ Len(waiters) <= MaxWaiters
  BY LengthIsCount DEF Inv, QueueFits
<1>5. waiters = <<>> => Len(waiters) = 0
  BY EmptySeq
<1> HIDE DEF O, H, Q
<1>6. IsFiniteSet(Q \cup H) /\ Cardinality(Q \cup H) \in Nat /\ Cardinality(Q \cup H) <= Cardinality(Q) + Cardinality(H)
  <2>1. /\ IsFiniteSet(Q \cup H)
        /\ Cardinality(Q \cup H) = Cardinality(Q) + Cardinality(H) - Cardinality(Q \cap H)
    BY <1>1, FS_Union
  <2>2. IsFiniteSet(Q \cap H) /\ Cardinality(Q \cap H) \in Nat /\ Cardinality(Q \cup H) \in Nat
    BY <1>1, <2>1, FS_Subset, FS_CardinalityType
  <2>3. QED
    BY <2>1, <2>2, <1>1
<1>7. Cardinality(O) <= Cardinality(Q \cup H)
  BY <1>2, <1>6, FS_Subset
<1>8. Cardinality(O) < Slots + MaxWaiters
  BY <1>1, <1>3, <1>4, <1>5, <1>6, <1>7, ConstantFacts
<1>9. QED
  BY <1>1, <1>8 DEF O

\* as many keys are asked for as there are unsettled jobs at most
LEMMA AskedIsCounted ==
  ASSUME Inv, active < Slots \/ Len(waiters) < MaxWaiters
  PROVE  Cardinality(Calls!Asked) < Slots + MaxWaiters
<1> DEFINE A == Calls!Asked  O == Open(job)  I == {job[j].key : j \in O}
<1>1. A \subseteq I
  <2>1. ASSUME NEW k \in Key, Sharers[k] # {}
        PROVE  k \in I
    <3>1. inFlight[k] \in Job /\ job[inFlight[k]].key = k /\ consumers[inFlight[k]] # {}
      BY <2>1, Groups
    <3>2. inFlight[k] \in O
      BY <3>1, Groups
    <3>3. QED
      BY <3>1, <3>2
  <2>2. QED
    BY <2>1 DEF Calls!Asked
<1>2. IsFiniteSet(O) /\ Cardinality(O) \in Nat /\ Cardinality(O) < Slots + MaxWaiters
  BY OpenIsCounted
<1> DEFINE f == [j \in O |-> job[j].key]
<1>3. I = {f[j] : j \in O} /\ \A x \in I : \E j \in O : f[j] = x
  OBVIOUS
<1> HIDE DEF A, O, I
<1>4. f \in Surjection(O, I)
  <2>1. \A j \in O : f[j] \in I
    BY <1>3
  <2>2. QED
    BY <2>1, <1>3 DEF Surjection
<1>5. IsFiniteSet(I) /\ Cardinality(I) <= Cardinality(O) /\ Cardinality(I) \in Nat
  <2> HIDE DEF f
  <2>1. IsFiniteSet(I) /\ Cardinality(I) <= Cardinality(O)
    BY <1>2, <1>4, FS_Surjection
  <2>2. QED
    BY <2>1, FS_CardinalityType
<1>6. Cardinality(A) <= Cardinality(I) /\ Cardinality(A) \in Nat
  BY <1>1, <1>5, FS_Subset, FS_CardinalityType
<1>7. Cardinality(A) < Slots + MaxWaiters
  BY <1>2, <1>5, <1>6, ConstantFacts
<1>8. QED
  BY <1>7 DEF A

LEMMA JoinShares ==
  ASSUME Inv, NEW c \in Caller, NEW k \in Key, Join(c, k)
  PROVE  Calls!Next
<1> DEFINE j == inFlight[k]
<1>1. /\ ~closed /\ c \notin pending /\ j # NoJob /\ Cardinality(consumers[j]) < MaxConsumers
      /\ consumers' = [consumers EXCEPT ![j] = @ \cup {c}]
      /\ UNCHANGED <<inFlight, closed>>
  BY DEF Join
<1>2. j \in Job /\ j \in Open(job) /\ Sharers[k] = consumers[j] /\ \A i \in Key : inFlight[i] = j => i = k
  <2>1. j \in Open(job)
    BY <1>1 DEF Inv, MapFits
  <2>2. QED
    BY <1>1, <2>1, Groups
<1> HIDE DEF j
<1>3. consumers'[j] = consumers[j] \cup {c} /\ \A i \in Job \ {j} : consumers'[i] = consumers[i]
  BY <1>1, <1>2, Groups
<1>4. Sharers' = [Sharers EXCEPT ![k] = @ \cup {c}]
  <2>1. \A i \in Key : Sharers'[i] = IF inFlight[i] = NoJob THEN {} ELSE consumers'[inFlight[i]]
    BY <1>1 DEF Sharers
  <2>2. Sharers'[k] = Sharers[k] \cup {c}
    BY <2>1, <1>1, <1>2, <1>3 DEF j
  <2>6. \A i \in Key : Sharers[i] = IF inFlight[i] = NoJob THEN {} ELSE consumers[inFlight[i]]
    BY DEF Sharers
  <2>3. ASSUME NEW i \in Key, i # k
        PROVE  Sharers'[i] = Sharers[i]
    <3>1. CASE inFlight[i] = NoJob
      BY <2>1, <2>6, <3>1
    <3>2. CASE inFlight[i] # NoJob
      <4>1. inFlight[i] \in Job \ {j}
        BY <2>3, <3>2, <1>2, Groups
      <4>2. QED
        BY <2>1, <2>6, <3>2, <4>1, <1>3
    <3>3. QED
      BY <3>1, <3>2
  <2>4. Sharers \in [Key -> SUBSET Caller] /\ Sharers' = [i \in Key |-> Sharers'[i]]
    BY Groups DEF Sharers
  <2>5. QED
    BY <2>2, <2>3, <2>4
<1>5. \A i \in Key : c \notin Sharers[i]
  <2>1. \A i \in Job : c \notin consumers[i]
    BY <1>1 DEF Inv, CallersFit
  <2>2. QED
    BY <2>1, Groups
<1>6. k \in Calls!Asked
  <2>1. consumers[j] # {}
    BY <1>2 DEF Inv, CallersFit
  <2>2. QED
    BY <2>1, <1>2 DEF Calls!Asked
<1>7. Cardinality(Sharers[k]) < MaxConsumers
  BY <1>1, <1>2
<1>8. Calls!Ask(c, k)
  BY <1>1, <1>4, <1>5, <1>6, <1>7, SameCardinality, Zenon DEF Calls!Ask
<1>9. QED
  BY <1>8 DEF Calls!Next

LEMMA AddShares ==
  ASSUME Inv, NEW c \in Caller, NEW k \in Key, Add(c, k)
  PROVE  Calls!Next
<1>1. PICK j \in Free :
        /\ inFlight' = [inFlight EXCEPT ![k] = j]
        /\ consumers' = [consumers EXCEPT ![j] = {c}]
  BY Zenon DEF Add
<1>2. /\ ~closed /\ c \notin pending /\ inFlight[k] = NoJob
      /\ active < Slots \/ Len(waiters) < MaxWaiters
      /\ UNCHANGED closed
  BY Zenon DEF Add
<1>3. j \in Job /\ j # NoJob /\ j \notin Open(job)
  BY ConstantFacts DEF Free, Open
<1>4. /\ inFlight'[k] = j /\ \A i \in Key \ {k} : inFlight'[i] = inFlight[i]
      /\ consumers'[j] = {c} /\ \A i \in Job \ {j} : consumers'[i] = consumers[i]
  BY <1>1, <1>3, Groups
<1>5. \A i \in Key : inFlight[i] # j
  BY <1>3 DEF Inv, MapFits
<1>6. Sharers[k] = {}
  BY <1>2, Groups
<1>7. Sharers' = [Sharers EXCEPT ![k] = @ \cup {c}]
  <2>1. \A i \in Key : Sharers'[i] = IF inFlight'[i] = NoJob THEN {} ELSE consumers'[inFlight'[i]]
    BY DEF Sharers
  <2>2. Sharers'[k] = Sharers[k] \cup {c}
    BY <2>1, <1>3, <1>4, <1>6
  <2>6. \A i \in Key : Sharers[i] = IF inFlight[i] = NoJob THEN {} ELSE consumers[inFlight[i]]
    BY DEF Sharers
  <2>3. ASSUME NEW i \in Key, i # k
        PROVE  Sharers'[i] = Sharers[i]
    <3>1. CASE inFlight[i] = NoJob
      BY <2>1, <2>3, <2>6, <3>1, <1>4
    <3>2. CASE inFlight[i] # NoJob
      <4>1. inFlight[i] \in Job \ {j}
        BY <2>3, <3>2, <1>5, Groups
      <4>2. QED
        BY <2>1, <2>3, <2>6, <3>2, <4>1, <1>4
    <3>3. QED
      BY <3>1, <3>2
  <2>4. Sharers \in [Key -> SUBSET Caller] /\ Sharers' = [i \in Key |-> Sharers'[i]]
    BY Groups DEF Sharers
  <2>5. QED
    BY <2>2, <2>3, <2>4
<1>8. \A i \in Key : c \notin Sharers[i]
  <2>1. \A i \in Job : c \notin consumers[i]
    BY <1>2 DEF Inv, CallersFit
  <2>2. QED
    BY <2>1, Groups
<1>9. Cardinality(Sharers[k]) < MaxConsumers
  BY <1>6, FS_EmptySet, ConstantFacts
<1>10. Cardinality(Calls!Asked) < Slots + MaxWaiters
  BY <1>2, AskedIsCounted
<1>11. Calls!Ask(c, k)
  BY <1>2, <1>7, <1>8, <1>9, <1>10, SameCardinality, Zenon DEF Calls!Ask
<1>12. QED
  BY <1>11 DEF Calls!Next

LEMMA AbortShares ==
  ASSUME Inv, NEW j, Abort(j)
  PROVE  Calls!Next
<1>1. /\ j \in Open(job) /\ inFlight' = Forgotten(inFlight, j)
      /\ consumers' = [consumers EXCEPT ![j] = {}] /\ UNCHANGED closed
  BY UnsettledIsOpen DEF Abort, Answer
<1>2. QED
  BY <1>1, GroupEnds

LEMMA LeaveShares ==
  ASSUME Inv, NEW c \in Caller, Leave(c)
  PROVE  Calls!Next
<1>1. PICK j \in Job :
        /\ c \in consumers[j]
        /\ \/ consumers[j] = {c} /\ Abort(j)
           \/ /\ consumers' = [consumers EXCEPT ![j] = @ \ {c}]
              /\ UNCHANGED <<inFlight, closed>>
  BY DEF Leave
<1>2. CASE Abort(j)
  BY <1>2, AbortShares
<1>3. CASE /\ consumers' = [consumers EXCEPT ![j] = @ \ {c}]
           /\ UNCHANGED <<inFlight, closed>>
  <2>1. \A i \in Job : consumers'[i] = consumers[i] \ {c}
    BY <1>1, <1>3, Groups
  <2>2. \A i \in Key : Sharers'[i] = IF inFlight[i] = NoJob THEN {} ELSE consumers'[inFlight[i]]
    BY <1>3 DEF Sharers
  <2>3. ASSUME NEW i \in Key
        PROVE  Sharers'[i] = Sharers[i] \ {c}
    <3>1. CASE inFlight[i] = NoJob
      BY <2>2, <3>1, Groups
    <3>2. CASE inFlight[i] # NoJob
      BY <2>1, <2>2, <3>2, Groups
    <3>3. QED
      BY <3>1, <3>2
  <2>4. Sharers' = [i \in Key |-> Sharers'[i]]
    BY DEF Sharers
  <2>5. Sharers' = [i \in Key |-> Sharers[i] \ {c}]
    BY <2>3, <2>4
  <2>6. Calls!Leave(c)
    BY <1>3, <2>5, Zenon DEF Calls!Leave
  <2>7. QED
    BY <2>6 DEF Calls!Next
<1>4. QED
  BY <1>1, <1>2, <1>3

LEMMA CloseShares ==
  ASSUME Close
  PROVE  Calls!Next
<1>1. closed' = TRUE /\ inFlight' = [k \in Key |-> NoJob]
  BY DEF Close
<1>2. \A k \in Key : Sharers'[k] = {}
  BY <1>1 DEF Sharers
<1>3. Sharers' = [k \in Key |-> Sharers'[k]]
  BY DEF Sharers
<1>4. Sharers' = [k \in Key |-> {}]
  BY <1>2, <1>3
<1>5. QED
  BY <1>1, <1>4 DEF Calls!Next, Calls!Close

\* what the executions do between two attempts, or after an abort, nobody sees
LEMMA HiddenStep ==
  ASSUME UNCHANGED <<consumers, inFlight, closed>>
  PROVE  UNCHANGED Calls!callVars
  BY DEF Calls!callVars, Sharers

LEMMA ExecutionShares ==
  ASSUME Inv, NEW j \in Job, Execution(j)
  PROVE  Calls!Next \/ UNCHANGED Calls!callVars
<1>1. CASE Fetching(j) /\ EndExecution(j)
  <2>1. /\ j \in Open(job) /\ inFlight' = Forgotten(inFlight, j)
        /\ consumers' = [consumers EXCEPT ![j] = {}] /\ UNCHANGED closed
    BY <1>1 DEF Fetching, Open, EndExecution, Answer
  <2>2. QED
    BY <2>1, GroupEnds
<1>2. CASE UNCHANGED <<consumers, inFlight, closed>>
  BY <1>2, HiddenStep
<1>3. \/ Fetching(j) /\ EndExecution(j)
      \/ UNCHANGED <<consumers, inFlight, closed>>
  BY DEF Execution, FetchReturns, FetchFails, DelayEnds, Unwind
<1>4. QED
  BY <1>1, <1>2, <1>3

\* Every step of the queue is a call that joins, leaves, or ends with its group, or
\* shows nothing: jobs, slots, attempts and timers keep what is promised to callers.
THEOREM QueueSharesCalls == Spec => ImplementsSharedCalls
<1>1. Init => Calls!Init
  <2> SUFFICES ASSUME Init PROVE Calls!Init
    OBVIOUS
  <2>1. \A k \in Key : Sharers[k] = {}
    BY DEF Init, Sharers
  <2>2. Sharers = [k \in Key |-> Sharers[k]]
    BY DEF Sharers
  <2>3. Sharers = [k \in Key |-> {}]
    BY <2>1, <2>2
  <2>4. QED
    BY <2>3 DEF Calls!Init, Init
<1>2. Inv /\ [Next]_vars => [Calls!Next]_(Calls!callVars)
  <2> SUFFICES ASSUME Inv, [Next]_vars PROVE Calls!Next \/ UNCHANGED Calls!callVars
    OBVIOUS
  <2>1. CASE \E c \in Caller, k \in Key : Join(c, k) \/ Add(c, k)
    BY <2>1, JoinShares, AddShares
  <2>2. CASE \E c \in Caller : Leave(c)
    BY <2>2, LeaveShares
  <2>3. CASE \E j \in Job : Execution(j)
    BY <2>3, ExecutionShares
  <2>4. CASE \E j \in Job : Deadline(j)
    BY <2>4, AbortShares DEF Deadline, QueueTimeout, OverallTimeout
  <2>5. CASE Close
    BY <2>5, CloseShares
  <2>6. CASE UNCHANGED vars
    BY <2>6, HiddenStep DEF vars
  <2>7. QED
    BY <2>1, <2>2, <2>3, <2>4, <2>5, <2>6 DEF Next
<1>3. QED
  BY <1>1, <1>2, QueueInvariant, PTL DEF Spec, ImplementsSharedCalls, Calls!Spec
=============================================================================
