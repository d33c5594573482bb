-------------------------- MODULE AiReportLockProofs --------------------------
(***************************************************************************)
(* Without a lost call the transactions of AiReportLocks never wait for    *)
(* each other in a circle, whatever the number of owners and workers.      *)
(*                                                                         *)
(* A row is only taken under its owner's lock (RowsHeld), so nobody waits  *)
(* for one; the deployment's bucket is taken when all advisory locks are   *)
(* (BudgetLast), so whoever holds it goes on; whoever holds an owner's     *)
(* lock and waits for another's is a claim, which holds the global lock    *)
(* (ClaimFits), so there is one of them at most; and nobody holds anything *)
(* who waits for the global lock (GlobalFirst).                            *)
(***************************************************************************)
EXTENDS AiReportLocks, TLAPS

\* the states of a job without a lost call
Steady == JobState \ {"lostCall", "overdue"}

\* the rows that belong to one owner
Rows(u) == {AttemptRow(u), ReportRow(u), Quota(u)}

StageName ==
  {"idle", "begun", "reaping", "settling", "owning", "recovering", "chosen", "written"}

Stage == [stage : StageName, wants : Seq(Lock), todo : SUBSET Owner, candidate : SUBSET Owner]

LocksTyped ==
  /\ job \in [Owner -> Steady]
  /\ holder \in [Lock -> Session \cup {Free}]
  /\ session \in [Session -> Stage]

\* a row is only held by the holder of its owner's lock
RowsHeld(h) == \A u \in Owner : \A r \in Rows(u) : h[r] # Free => h[r] = h[OwnerLock(u)]

\* what a session s with the record x may ask for when the locks are held as in h

RowsBehindOwner(s, x, h) ==
  \A u \in Owner : \A i \in 1..Len(x.wants) : x.wants[i] \in Rows(u) =>
    h[OwnerLock(u)] = s \/ \E j \in 1..(i - 1) : x.wants[j] = OwnerLock(u)

BudgetLast(s, x, h) ==
  \A i \in 1..Len(x.wants) :
    (x.wants[i] = Global \/ \E u \in Owner : x.wants[i] = OwnerLock(u)) =>
      h[Budget] # s /\ \A j \in 1..(i - 1) : x.wants[j] # Budget

GlobalFirst(s, x, h) ==
  \A i \in 1..Len(x.wants) : x.wants[i] = Global => i = 1 /\ \A l \in Lock : h[l] # s

LoopsFit(s, x, h) ==
  \/ x.todo = {}
  \/ x.stage = "owning"
  \/ x.stage = "recovering" /\ \A u \in x.todo : h[OwnerLock(u)] = s

IdleHolds(s, x, h) ==
  x.stage = "idle" => x.wants = <<>> /\ x.todo = {} /\ \A l \in Lock : h[l] # s

ClaimFits(s, x, h) ==
  \A w \in Worker : s = Claim(w) =>
    /\ x.stage # "idle" => h[Global] = s \/ x.wants = <<Global>>
    /\ \A u \in Owner : h[OwnerLock(u)] = s => h[Global] = s
    /\ h[Budget] # s
    /\ \A i \in 1..Len(x.wants) : x.wants[i] # Budget

OwnerFits(s, x, h) ==
  \A u \in Owner : s \in {Cancel(u), Delete(u)} =>
    /\ \A v \in Owner : h[OwnerLock(v)] = s => v = u
    /\ \A v \in Owner : \A i \in 1..Len(x.wants) : x.wants[i] = OwnerLock(v) => v = u
    /\ x.stage = "begun" => h[OwnerLock(u)] = s \/ \E i \in 1..Len(x.wants) : x.wants[i] = OwnerLock(u)

Fits(s, x, h) ==
  /\ RowsBehindOwner(s, x, h)
  /\ BudgetLast(s, x, h)
  /\ GlobalFirst(s, x, h)
  /\ LoopsFit(s, x, h)
  /\ IdleHolds(s, x, h)
  /\ ClaimFits(s, x, h)
  /\ OwnerFits(s, x, h)

LockInvariant ==
  /\ LocksTyped
  /\ RowsHeld(holder)
  /\ \A s \in Session : Fits(s, session[s], holder)

-----------------------------------------------------------------------------
(* Locks and sessions are told apart                                       *)

LEMMA LocksDiffer ==
  /\ Global \in Lock /\ Budget \in Lock /\ Global # Budget
  /\ \A u \in Owner :
       /\ OwnerLock(u) \in Lock
       /\ Rows(u) \subseteq Lock
       /\ OwnerLock(u) # Global /\ OwnerLock(u) # Budget
       /\ Global \notin Rows(u) /\ Budget \notin Rows(u)
  /\ \A u, v \in Owner :
       /\ OwnerLock(u) = OwnerLock(v) => u = v
       /\ OwnerLock(u) \notin Rows(v)
       /\ u # v => Rows(u) \cap Rows(v) = {}
BY DEF Lock, Global, Budget, OwnerLock, AttemptRow, ReportRow, Quota, Rows

LEMMA LockKinds ==
  ASSUME NEW l \in Lock
  PROVE  l = Global \/ l = Budget \/ \E u \in Owner : l = OwnerLock(u) \/ l \in Rows(u)
BY DEF Lock, Rows

LEMMA SessionsDiffer ==
  /\ Free \notin Session
  /\ \A w \in Worker : Claim(w) \in Session
  /\ \A u \in Owner : Cancel(u) \in Session /\ Delete(u) \in Session
  /\ \A v, w \in Worker : Claim(v) = Claim(w) => v = w
  /\ \A u \in Owner, w \in Worker : Claim(w) # Cancel(u) /\ Claim(w) # Delete(u)
  /\ \A u, v \in Owner :
       /\ Cancel(u) # Delete(v)
       /\ Cancel(u) = Cancel(v) => u = v
       /\ Delete(u) = Delete(v) => u = v
BY DEF Session, Free, Claim, Cancel, Delete

LEMMA SessionKinds ==
  ASSUME NEW s \in Session
  PROVE  (\E w \in Worker : s = Claim(w)) \/ (\E u \in Owner : s = Cancel(u) \/ s = Delete(u))
BY DEF Session

-----------------------------------------------------------------------------
(* No circle                                                               *)

\* what a waiting session waits for: nobody waits for a row, and the holder
\* of the deployment's bucket does not wait
LEMMA WaitsForAdvisoryLock ==
  ASSUME LockInvariant, NEW S \in SUBSET Session, NEW s \in S,
         \A t \in S : WaitsIn(t, S)
  PROVE  LET l == Head(session[s].wants)
         IN  /\ holder[l] \in S \ {s}
             /\ l = Global \/ \E u \in Owner : l = OwnerLock(u)
<1> DEFINE Wanted(t) == Head(session[t].wants)
<1>1. ASSUME NEW t \in S
      PROVE  /\ session[t].wants \in Seq(Lock) /\ session[t].wants # <<>>
             /\ Len(session[t].wants) \in Nat /\ 1 \in 1..Len(session[t].wants)
             /\ Wanted(t) = session[t].wants[1] /\ Wanted(t) \in Lock
             /\ holder[Wanted(t)] \in S \ {t}
             /\ Fits(t, session[t], holder)
  <2>1. session[t].wants \in Seq(Lock) /\ Fits(t, session[t], holder)
    BY DEF LockInvariant, LocksTyped, Stage
  <2>2. session[t].wants # <<>> /\ holder[Wanted(t)] \in S \ {t}
    BY DEF WaitsIn
  <2> QED
    BY <2>1, <2>2
<1>2. ASSUME NEW t \in S, NEW u \in Owner
      PROVE  Wanted(t) \notin Rows(u)
  <2> SUFFICES ASSUME Wanted(t) \in Rows(u)
               PROVE  FALSE
    OBVIOUS
  <2>1. holder[OwnerLock(u)] = t
    BY <1>1 DEF Fits, RowsBehindOwner
  <2>2. holder[Wanted(t)] # Free => holder[Wanted(t)] = holder[OwnerLock(u)]
    BY DEF LockInvariant, RowsHeld
  <2> QED
    BY <1>1, <2>1, <2>2, SessionsDiffer
<1>3. ASSUME NEW t \in S
      PROVE  Wanted(t) # Budget
  <2> SUFFICES ASSUME Wanted(t) = Budget
               PROVE  FALSE
    OBVIOUS
  <2> DEFINE b == holder[Budget]
  <2>1. b \in S \ {t}
    BY <1>1
  <2>2. Wanted(b) # Global /\ \A u \in Owner : Wanted(b) # OwnerLock(u)
    BY <1>1, <2>1 DEF Fits, BudgetLast
  <2>3. Wanted(b) = Budget
    BY <1>1, <1>2, <2>1, <2>2, LockKinds
  <2> QED
    BY <1>1, <2>1, <2>3
<1> QED
  BY <1>1, <1>2, <1>3, LockKinds

\* the holder of an owner's lock that waits for another's is a claim, and has
\* the global lock
LEMMA ClaimHoldsGlobal ==
  ASSUME LockInvariant, NEW s \in Session, NEW u \in Owner, NEW v \in Owner,
         holder[OwnerLock(u)] = s,
         session[s].wants # <<>>, Head(session[s].wants) = OwnerLock(v),
         holder[OwnerLock(v)] # s
  PROVE  holder[Global] = s
<1>1. Fits(s, session[s], holder) /\ session[s].wants \in Seq(Lock)
  BY DEF LockInvariant, LocksTyped, Stage
<1>2. 1 \in 1..Len(session[s].wants) /\ session[s].wants[1] = OwnerLock(v)
  BY <1>1
<1>3. CASE \E w \in Worker : s = Claim(w)
  BY <1>1, <1>3 DEF Fits, ClaimFits
<1>4. CASE \E o \in Owner : s = Cancel(o) \/ s = Delete(o)
  <2>1. PICK o \in Owner : s \in {Cancel(o), Delete(o)}
    BY <1>4
  <2>2. u = o /\ v = o
    BY ZenonT(60), ZenonT(90), <1>1, <1>2, <2>1 DEF Fits, OwnerFits
  <2> QED
    BY <2>2
<1> QED
  BY <1>3, <1>4, SessionKinds

LEMMA NoCircle ==
  ASSUME LockInvariant
  PROVE  CannotDeadlock
<1> SUFFICES ASSUME NEW S \in SUBSET Session, S # {}, \A t \in S : WaitsIn(t, S)
             PROVE  FALSE
  BY DEF CannotDeadlock
<1> DEFINE Wanted(t) == Head(session[t].wants)
<1>1. \A t \in S : /\ session[t].wants # <<>> /\ holder[Wanted(t)] \in S \ {t}
                   /\ Wanted(t) = Global \/ \E u \in Owner : Wanted(t) = OwnerLock(u)
  BY WaitsForAdvisoryLock DEF WaitsIn
<1>2. \A t \in S : Wanted(t) = Global => \A l \in Lock : holder[l] # t
  <2> SUFFICES ASSUME NEW t \in S, Wanted(t) = Global
               PROVE  \A l \in Lock : holder[l] # t
    OBVIOUS
  <2>1. session[t].wants \in Seq(Lock) /\ Fits(t, session[t], holder)
    BY SMTT(40), SMTT(80) DEF LockInvariant, LocksTyped, Stage
  <2> QED
    BY <1>1, <2>1 DEF Fits, GlobalFirst
<1>3. ASSUME NEW t \in S
      PROVE  LET h == holder[Wanted(t)]
             IN  h \in S \ {t} /\ \E v \in Owner : Wanted(h) = OwnerLock(v)
  <2>1. Wanted(t) \in Lock
    BY <1>1, LocksDiffer
  <2>2. Wanted(holder[Wanted(t)]) # Global
    BY <1>1, <1>2, <2>1
  <2> QED
    BY <1>1, <2>2
<1>4. PICK t \in S : \E u \in Owner : Wanted(t) = OwnerLock(u)
  BY <1>3
<1> DEFINE a == holder[Wanted(t)]
           b == holder[Wanted(a)]
<1>5. a \in S /\ \E v \in Owner : Wanted(a) = OwnerLock(v)
  BY ZenonT(60), ZenonT(90), <1>3
<1>6. b \in S \ {a} /\ \E v \in Owner : Wanted(b) = OwnerLock(v)
  BY <1>3, <1>5
<1>7. holder[Global] = a
  BY <1>1, <1>4, <1>5, ClaimHoldsGlobal
<1>8. holder[Global] = b
  <2>1. PICK u \in Owner : Wanted(a) = OwnerLock(u)
    BY ZenonT(60), ZenonT(90), <1>5
  <2>2. PICK v \in Owner : Wanted(b) = OwnerLock(v)
    BY ZenonT(60), ZenonT(90), <1>6
  <2>3. session[b].wants # <<>> /\ holder[OwnerLock(v)] # b
    BY ZenonT(60), ZenonT(90), <1>1, <1>6, <2>2
  <2>4. b \in Session /\ holder[OwnerLock(u)] = b
    BY <1>6, <2>1
  <2> HIDE DEF a, b
  <2> QED
    BY <2>2, <2>3, <2>4, ClaimHoldsGlobal
<1> QED
  BY <1>6, <1>7, <1>8

-----------------------------------------------------------------------------
(* The invariant                                                           *)

LEMMA IdleTyped == Idle \in Stage
<1>1. <<>> \in Seq(Lock)
  OBVIOUS
<1>2. {} \in SUBSET Owner /\ "idle" \in StageName
  BY DEF StageName
<1> QED
  BY <1>1, <1>2 DEF Idle, Stage

LEMMA InitLocks ==
  ASSUME InitialJob \subseteq Steady, Init
  PROVE  LockInvariant
<1>1. \A s \in Session : session[s] = Idle
  BY DEF Init
<1>2. \A l \in Lock : holder[l] = Free
  BY DEF Init
<1>3. LocksTyped
  BY IdleTyped DEF Init, LocksTyped
<1>4. RowsHeld(holder)
  BY <1>2, LocksDiffer DEF RowsHeld
<1>5. ASSUME NEW s \in Session
      PROVE  Fits(s, session[s], holder)
  <2>1. /\ session[s].stage = "idle" /\ session[s].wants = <<>> /\ session[s].todo = {}
        /\ \A l \in Lock : holder[l] # s
    BY <1>1, <1>2, SessionsDiffer DEF Idle
  <2> QED
    BY <2>1, LocksDiffer
    DEF Fits, RowsBehindOwner, BudgetLast, GlobalFirst, LoopsFit, IdleHolds, ClaimFits, OwnerFits
<1> QED
  BY <1>3, <1>4, <1>5 DEF LockInvariant

\* a statement that asks for locks only moves its own session
LEMMA SessionMoves ==
  ASSUME LockInvariant, NEW s \in Session, NEW x \in Stage,
         session' = [session EXCEPT ![s] = x], holder' = holder,
         job' \in [Owner -> Steady],
         Fits(s, x, holder)
  PROVE  LockInvariant'
<1>1. LocksTyped'
  BY DEF LockInvariant, LocksTyped
<1>2. RowsHeld(holder')
  BY DEF LockInvariant
<1>3. \A t \in Session : session'[t] = IF t = s THEN x ELSE session[t]
  BY DEF LockInvariant, LocksTyped
<1>4. \A t \in Session : Fits(t, session'[t], holder')
  BY <1>3 DEF LockInvariant
<1> QED
  BY <1>1, <1>2, <1>4 DEF LockInvariant

\* a lock that s takes was free, or its own: what the others hold stays
LEMMA OthersFit ==
  ASSUME NEW h, NEW k, NEW t \in Session, NEW x \in Stage, Fits(t, x, h),
         \A l \in Lock : h[l] = t <=> k[l] = t
  PROVE  Fits(t, x, k)
BY LocksDiffer
DEF Fits, RowsBehindOwner, BudgetLast, GlobalFirst, LoopsFit, IdleHolds, ClaimFits, OwnerFits, Stage

LEMMA AcquireKeeps ==
  ASSUME LockInvariant, NEW s \in Session, Acquire(s)
  PROVE  LockInvariant'
<1> DEFINE q == session[s].wants
           l == Head(q)
           x == [session[s] EXCEPT !.wants = Tail(q)]
<1>1. /\ session[s] \in Stage /\ q \in Seq(Lock) /\ q # <<>>
      /\ holder \in [Lock -> Session \cup {Free}] /\ session \in [Session -> Stage]
  BY DEF LockInvariant, LocksTyped, Stage, Acquire
<1>2. /\ 1 \in 1..Len(q) /\ l = q[1] /\ l \in Lock /\ Tail(q) \in Seq(Lock)
      /\ Len(Tail(q)) = Len(q) - 1 /\ Len(q) \in Nat
      /\ \A i \in 1..Len(Tail(q)) : Tail(q)[i] = q[i + 1] /\ i + 1 \in 1..Len(q)
  BY <1>1
<1>3. holder[l] \in {Free, s} /\ holder' = [holder EXCEPT ![l] = s] /\ job' = job
  BY DEF Acquire
<1>4. session' = [session EXCEPT ![s] = x]
  BY DEF Acquire
<1>5. /\ x \in Stage /\ x.wants = Tail(q) /\ x.stage = session[s].stage
      /\ x.todo = session[s].todo
  BY <1>1, <1>2 DEF Stage
<1> HIDE DEF q, l, x
<1>6. LocksTyped'
  BY <1>1, <1>2, <1>3, <1>4, <1>5 DEF LockInvariant, LocksTyped
<1>7. \A k \in Lock : holder'[k] = IF k = l THEN s ELSE holder[k]
  BY <1>1, <1>3
<1>8. Fits(s, session[s], holder) /\ RowsHeld(holder)
  BY DEF LockInvariant
<1>9. \A u \in Owner : l \in Rows(u) => holder[OwnerLock(u)] = s
  BY <1>2, <1>8 DEF Fits, RowsBehindOwner, q
<1>10. RowsHeld(holder')
  <2> SUFFICES ASSUME NEW u \in Owner, NEW r \in Rows(u), holder'[r] # Free
               PROVE  holder'[r] = holder'[OwnerLock(u)]
    BY DEF RowsHeld
  <2>1. r \in Lock /\ OwnerLock(u) \in Lock /\ r # OwnerLock(u)
    BY LocksDiffer
  <2>2. CASE r = l
    BY <1>7, <1>9, <2>1, <2>2
  <2>3. CASE r # l
    <3>1. holder[r] = holder[OwnerLock(u)] /\ holder[r] # Free /\ holder'[r] = holder[r]
      BY <1>7, <1>8, <2>1, <2>3 DEF RowsHeld
    <3> QED
      BY <1>3, <1>7, <2>1, <3>1
  <2> QED
    BY <2>2, <2>3
<1>11. ASSUME NEW t \in Session, t # s
       PROVE  Fits(t, session'[t], holder')
  <2>1. session'[t] = session[t] /\ session[t] \in Stage /\ Fits(t, session[t], holder)
    BY <1>1, <1>4, <1>11 DEF LockInvariant
  <2>2. \A k \in Lock : holder[k] = t <=> holder'[k] = t
    BY <1>3, <1>7, <1>11, SessionsDiffer
  <2> QED
    BY <2>1, <2>2, OthersFit
<1>12. Fits(s, x, holder')
  <2>1. /\ \A k \in Lock : holder'[k] = s <=> k = l \/ holder[k] = s
        /\ Len(Tail(q)) = Len(q) - 1 /\ Len(q) \in Nat /\ 1 \in 1..Len(q) /\ q[1] = l
        /\ \A i \in 1..Len(Tail(q)) : Tail(q)[i] = q[i + 1] /\ i + 1 \in 1..Len(q)
        /\ x.wants = Tail(q) /\ session[s].wants = q
        /\ x.stage = session[s].stage /\ x.todo = session[s].todo /\ x.todo \subseteq Owner
        /\ \A u \in Owner : OwnerLock(u) \in Lock
    BY <1>1, <1>2, <1>5, <1>7, LocksDiffer DEF q, Stage
  <2>2. RowsBehindOwner(s, x, holder')
    <3> SUFFICES ASSUME NEW u \in Owner, NEW i \in 1..Len(Tail(q)), Tail(q)[i] \in Rows(u),
                        holder'[OwnerLock(u)] # s
                 PROVE  \E j \in 1..(i - 1) : Tail(q)[j] = OwnerLock(u)
      BY <2>1 DEF RowsBehindOwner
    <3>1. q[i + 1] \in Rows(u) /\ i + 1 \in 1..Len(q) /\ holder[OwnerLock(u)] # s /\ l # OwnerLock(u)
      BY <2>1, LocksDiffer
    <3>2. PICK j \in 1..i : q[j] = OwnerLock(u)
      BY <1>8, <2>1, <3>1 DEF Fits, RowsBehindOwner
    <3>3. j # 1 /\ j - 1 \in 1..(i - 1) /\ Tail(q)[j - 1] = q[j]
      BY <2>1, <3>1, <3>2
    <3> QED
      BY <3>2, <3>3
  <2>3. BudgetLast(s, x, holder')
    <3> SUFFICES ASSUME NEW i \in 1..Len(Tail(q)),
                        Tail(q)[i] = Global \/ \E u \in Owner : Tail(q)[i] = OwnerLock(u)
                 PROVE  holder'[Budget] # s /\ \A j \in 1..(i - 1) : Tail(q)[j] # Budget
      BY <2>1 DEF BudgetLast
    <3>1. holder[Budget] # s /\ \A j \in 1..i : q[j] # Budget
      BY <1>8, <2>1 DEF Fits, BudgetLast
    <3>2. l # Budget
      BY <2>1, <3>1
    <3> QED
      BY <2>1, <3>1, <3>2, LocksDiffer
  <2>4. GlobalFirst(s, x, holder')
    BY <1>8, <2>1 DEF Fits, GlobalFirst
  <2>5. LoopsFit(s, x, holder')
    BY <1>8, <2>1 DEF Fits, LoopsFit
  <2>6. IdleHolds(s, x, holder')
    BY <1>8, <2>1 DEF Fits, IdleHolds
  <2>7. ClaimFits(s, x, holder')
    BY <1>8, <2>1, LocksDiffer DEF Fits, ClaimFits, IdleHolds
  <2>8. OwnerFits(s, x, holder')
    <3> SUFFICES ASSUME NEW u \in Owner, s \in {Cancel(u), Delete(u)}
                 PROVE  /\ \A v \in Owner : holder'[OwnerLock(v)] = s => v = u
                        /\ \A v \in Owner : \A i \in 1..Len(Tail(q)) : Tail(q)[i] = OwnerLock(v) => v = u
                        /\ session[s].stage = "begun" => \/ holder'[OwnerLock(u)] = s
                             \/ \E i \in 1..Len(Tail(q)) : Tail(q)[i] = OwnerLock(u)
      BY <2>1 DEF OwnerFits
    <3>1. /\ \A v \in Owner : holder[OwnerLock(v)] = s => v = u
          /\ \A v \in Owner : \A i \in 1..Len(q) : q[i] = OwnerLock(v) => v = u
          /\ session[s].stage = "begun" => \/ holder[OwnerLock(u)] = s
                                           \/ \E i \in 1..Len(q) : q[i] = OwnerLock(u)
      BY <1>8, <2>1 DEF Fits, OwnerFits
    <3>2. \A v \in Owner : holder'[OwnerLock(v)] = s => v = u
      BY <2>1, <3>1
    <3>3. \A v \in Owner : \A i \in 1..Len(Tail(q)) : Tail(q)[i] = OwnerLock(v) => v = u
      BY <2>1, <3>1
    <3>4. ASSUME NEW i \in 1..Len(q), q[i] = OwnerLock(u), i # 1
          PROVE  i - 1 \in 1..Len(Tail(q)) /\ Tail(q)[i - 1] = OwnerLock(u)
      BY <2>1, <3>4
    <3> QED
      BY <2>1, <3>1, <3>2, <3>3, <3>4
  <2> QED
    BY <2>2, <2>3, <2>4, <2>5, <2>6, <2>7, <2>8 DEF Fits
<1> QED
  BY <1>1, <1>4, <1>6, <1>10, <1>11, <1>12 DEF LockInvariant

LEMMA CommitKeeps ==
  ASSUME LockInvariant, NEW s \in Session, Commit(s), job' \in [Owner -> Steady]
  PROVE  LockInvariant'
<1>1. holder \in [Lock -> Session \cup {Free}] /\ session \in [Session -> Stage]
  BY DEF LockInvariant, LocksTyped
<1>2. \A l \in Lock : holder'[l] = IF holder[l] = s THEN Free ELSE holder[l]
  BY DEF Commit
<1>3. \A t \in Session : session'[t] = IF t = s THEN Idle ELSE session[t]
  BY <1>1 DEF Commit
<1>4. LocksTyped'
  BY <1>1, IdleTyped DEF Commit, LocksTyped
<1>5. RowsHeld(holder')
  <2> SUFFICES ASSUME NEW u \in Owner, NEW r \in Rows(u), holder'[r] # Free
               PROVE  holder'[r] = holder'[OwnerLock(u)]
    BY DEF RowsHeld
  <2> QED
    BY <1>2, LocksDiffer DEF LockInvariant, RowsHeld
<1>6. ASSUME NEW t \in Session, t # s
      PROVE  Fits(t, session'[t], holder')
  <2>1. session'[t] = session[t] /\ session[t] \in Stage /\ Fits(t, session[t], holder)
    BY <1>1, <1>3, <1>6 DEF LockInvariant
  <2>2. \A k \in Lock : holder[k] = t <=> holder'[k] = t
    BY <1>2, <1>6, SessionsDiffer
  <2> QED
    BY <2>1, <2>2, OthersFit
<1>7. Fits(s, session'[s], holder')
  <2>1. /\ session'[s].stage = "idle" /\ session'[s].wants = <<>> /\ session'[s].todo = {}
        /\ \A l \in Lock : holder'[l] # s
    BY <1>2, <1>3, SessionsDiffer DEF Idle
  <2> QED
    BY <2>1, LocksDiffer
    DEF Fits, RowsBehindOwner, BudgetLast, GlobalFirst, LoopsFit, IdleHolds, ClaimFits, OwnerFits
<1> QED
  BY <1>4, <1>5, <1>6, <1>7 DEF LockInvariant

-----------------------------------------------------------------------------
(* Every step                                                              *)

\* a session that asks for nothing more, or for some of these, fits
LEMMA AsksForNothing ==
  ASSUME NEW s \in Session, NEW x, NEW y, NEW h, Fits(s, x, h), x.stage # "idle",
         x.wants = <<>>, y.wants = <<>>, y.stage \notin {"idle", "begun"},
         LoopsFit(s, y, h)
  PROVE  Fits(s, y, h)
BY LocksDiffer, SessionsDiffer
DEF Fits, RowsBehindOwner, BudgetLast, GlobalFirst, IdleHolds, ClaimFits, OwnerFits

\* a claim that holds the global lock asks for an owner's lock and its row
LEMMA ClaimAsks ==
  ASSUME NEW w \in Worker, NEW u \in Owner, NEW x, NEW y, NEW h, Fits(Claim(w), x, h),
         x.stage # "idle", x.wants = <<>>, y.stage # "idle", LoopsFit(Claim(w), y, h),
         \/ y.wants = <<OwnerLock(u)>>
         \/ y.wants = <<OwnerLock(u), ReportRow(u)>>
         \/ y.wants = <<ReportRow(u)>> /\ h[OwnerLock(u)] = Claim(w)
  PROVE  Fits(Claim(w), y, h)
<1>1. ReportRow(u) \in Rows(u)
  BY DEF Rows
<1>2. ReportRow(u) # Budget /\ ReportRow(u) # Global /\ \A v \in Owner : ReportRow(u) # OwnerLock(v)
  BY <1>1, LocksDiffer
<1>3. \A v \in Owner : ReportRow(u) \in Rows(v) => v = u
  BY <1>1, LocksDiffer
<1>4. h[Global] = Claim(w) /\ h[Budget] # Claim(w)
  BY DEF Fits, ClaimFits
<1>5. y.wants # <<Global>>
  BY <1>2, LocksDiffer
<1>6. RowsBehindOwner(Claim(w), y, h)
  BY <1>1, <1>3, LocksDiffer DEF RowsBehindOwner
<1>7. BudgetLast(Claim(w), y, h)
  BY <1>2, <1>4, LocksDiffer DEF BudgetLast
<1>8. GlobalFirst(Claim(w), y, h)
  BY <1>2, LocksDiffer DEF GlobalFirst
<1>9. IdleHolds(Claim(w), y, h)
  BY DEF IdleHolds
<1>10. ClaimFits(Claim(w), y, h)
  <2>1. \A i \in 1..Len(y.wants) : y.wants[i] # Budget
    BY <1>2, LocksDiffer
  <2> QED
    BY <1>4, <2>1, SessionsDiffer DEF ClaimFits
<1>11. OwnerFits(Claim(w), y, h)
  BY SessionsDiffer DEF OwnerFits
<1> QED
  BY <1>6, <1>7, <1>8, <1>9, <1>10, <1>11 DEF Fits

\* an owner's statement asks for rows and the bucket, under the owner's lock
LEMMA OwnerWrites ==
  ASSUME NEW u \in Owner, NEW s \in {Cancel(u), Delete(u)}, NEW x, NEW y, NEW h, Fits(s, x, h),
         x.stage = "begun", x.wants = <<>>, y.stage = "written", y.todo = {},
         y.wants \in Seq(Rows(u) \cup {Budget})
  PROVE  Fits(s, y, h)
<1>1. h[OwnerLock(u)] = s
  BY DEF Fits, OwnerFits
<1>2. \A i \in 1..Len(y.wants) : y.wants[i] \in Rows(u) \cup {Budget}
  OBVIOUS
<1>3. \A i \in 1..Len(y.wants) : y.wants[i] # Global /\ \A v \in Owner : y.wants[i] # OwnerLock(v)
  BY <1>2, LocksDiffer
<1>4. RowsBehindOwner(s, y, h)
  BY <1>1, <1>2, LocksDiffer DEF RowsBehindOwner
<1>5. BudgetLast(s, y, h) /\ GlobalFirst(s, y, h)
  BY <1>3 DEF BudgetLast, GlobalFirst
<1>6. LoopsFit(s, y, h) /\ IdleHolds(s, y, h)
  BY DEF LoopsFit, IdleHolds
<1>7. ClaimFits(s, y, h)
  BY SessionsDiffer DEF ClaimFits
<1>8. OwnerFits(s, y, h)
  BY <1>3, SessionsDiffer DEF Fits, OwnerFits
<1> QED
  BY <1>4, <1>5, <1>6, <1>7, <1>8 DEF Fits

\* an idle session asks for its advisory locks
LEMMA Begins ==
  ASSUME NEW s \in Session, NEW x, NEW y, NEW h, Fits(s, x, h),
         x.stage = "idle", y.stage = "begun", y.todo = {},
         \/ y.wants = <<Global>> /\ \E w \in Worker : s = Claim(w)
         \/ \E u \in Owner : s = Cancel(u) /\ y.wants = <<Global, OwnerLock(u)>>
         \/ \E u \in Owner : s = Delete(u) /\ y.wants = <<OwnerLock(u)>>
  PROVE  Fits(s, y, h)
<1>1. \A l \in Lock : h[l] # s
  BY DEF Fits, IdleHolds
<1>2. CASE y.wants = <<Global>> /\ \E w \in Worker : s = Claim(w)
  BY <1>1, <1>2, LocksDiffer, SessionsDiffer
  DEF Fits, RowsBehindOwner, BudgetLast, GlobalFirst, LoopsFit, IdleHolds, ClaimFits, OwnerFits
<1>3. ASSUME NEW u \in Owner, s = Cancel(u), y.wants = <<Global, OwnerLock(u)>>
      PROVE  Fits(s, y, h)
  BY <1>1, <1>3, LocksDiffer, SessionsDiffer
  DEF Fits, RowsBehindOwner, BudgetLast, GlobalFirst, LoopsFit, IdleHolds, ClaimFits, OwnerFits
<1>4. ASSUME NEW u \in Owner, s = Delete(u), y.wants = <<OwnerLock(u)>>
      PROVE  Fits(s, y, h)
  BY <1>1, <1>4, LocksDiffer, SessionsDiffer
  DEF Fits, RowsBehindOwner, BudgetLast, GlobalFirst, LoopsFit, IdleHolds, ClaimFits, OwnerFits
<1> QED
  BY <1>2, <1>3, <1>4

\* the loops and the candidate of a claim
LEMMA ClaimStep ==
  ASSUME LockInvariant, NEW w \in Worker,
         \/ BeginClaim(w) \/ ReapSlots(w) \/ SettleSlots(w)
         \/ RecoverLeases(w) \/ UpdateLeases(w) \/ LockNext(w)
         \/ ChooseCandidate(w)
  PROVE  LockInvariant'
<1> DEFINE s == Claim(w)
           r == session[s]
<1>1. /\ s \in Session /\ r \in Stage /\ Fits(s, r, holder)
      /\ job \in [Owner -> Steady]
  BY SessionsDiffer DEF LockInvariant, LocksTyped
<1>2. \A u \in Owner : job[u] \notin {"overdue", "lostCall"}
  BY <1>1 DEF Steady
<1>3. /\ r.stage \in StageName /\ r.wants \in Seq(Lock)
      /\ r.todo \subseteq Owner /\ r.candidate \subseteq Owner
  BY <1>1 DEF Stage
<1> HIDE DEF s, r
<1>4. CASE BeginClaim(w)
  <2> DEFINE x == [r EXCEPT !.stage = "begun", !.wants = <<Global>>]
  <2>1. /\ r.stage = "idle" /\ session' = [session EXCEPT ![s] = x]
        /\ holder' = holder /\ job' = job
    BY <1>4 DEF BeginClaim, Ready, GoOn, s, r
  <2>2. r.todo = {} /\ <<Global>> \in Seq(Lock)
    BY <1>1, <2>1, LocksDiffer DEF Fits, IdleHolds
  <2>3. x \in Stage /\ x.stage = "begun" /\ x.wants = <<Global>> /\ x.todo = {}
    BY <1>1, <1>3, <2>2 DEF Stage, StageName
  <2> HIDE DEF x
  <2>4. Fits(s, x, holder)
    BY <1>1, <2>1, <2>3, Begins DEF s
  <2> QED
    BY <1>1, <2>1, <2>3, <2>4, SessionMoves
<1>5. ASSUME NEW from, NEW to \in {"reaping", "settling", "owning", "recovering"}, NEW T \in SUBSET Owner,
             Loop(w, from, to, T), from # "idle",
             \/ T = {} \/ to = "owning"
             \/ to = "recovering" /\ \A u \in T : holder[OwnerLock(u)] = s
      PROVE  LockInvariant'
  <2> DEFINE x == [r EXCEPT !.stage = to, !.todo = T]
  <2>1. /\ r.stage = from /\ r.wants = <<>> /\ session' = [session EXCEPT ![s] = x]
        /\ holder' = holder /\ job' = job
    BY <1>5 DEF Loop, Ready, s, r
  <2>2. x \in Stage /\ x.stage = to /\ x.wants = <<>> /\ x.todo = T
    BY <1>1, <1>3, <2>1 DEF Stage, StageName
  <2> HIDE DEF x
  <2>3. LoopsFit(s, x, holder)
    BY <1>5, <2>2 DEF LoopsFit
  <2>4. Fits(s, x, holder)
    BY <1>1, <1>5, <2>1, <2>2, <2>3, AsksForNothing
  <2> QED
    BY <1>1, <2>1, <2>2, <2>4, SessionMoves
<1>6. CASE ReapSlots(w)
  <2>1. Loop(w, "begun", "reaping", {})
    BY <1>2, <1>6 DEF ReapSlots
  <2>2. {} \in SUBSET Owner
    OBVIOUS
  <2> QED
    BY <1>5, <2>1, <2>2
<1>7. CASE SettleSlots(w)
  <2>1. Loop(w, "reaping", "settling", {})
    BY <1>2, <1>7 DEF SettleSlots
  <2>2. {} \in SUBSET Owner
    OBVIOUS
  <2> QED
    BY <1>5, <2>1, <2>2
<1>8. CASE RecoverLeases(w)
  <2>1. Loop(w, "settling", "owning", Lost) /\ Lost \in SUBSET Owner
    BY <1>8 DEF RecoverLeases, Lost
  <2> QED
    BY <1>5, <2>1
<1>9. CASE UpdateLeases(w)
  <2> DEFINE T == {u \in Lost : holder[OwnerLock(u)] = s}
  <2>1. /\ Loop(w, "owning", "recovering", T) /\ T \in SUBSET Owner
        /\ \A u \in T : holder[OwnerLock(u)] = s
    BY <1>9 DEF UpdateLeases, Lost, s
  <2> HIDE DEF T
  <2> QED
    BY <1>5, <2>1
<1>10. CASE LockNext(w)
  <2>1. PICK u \in r.todo :
          session' = [session EXCEPT ![s] = [r EXCEPT !.wants = LoopRows(r.stage, u), !.todo = @ \ {u}]]
    BY <1>10 DEF LockNext, s, r
  <2> DEFINE x == [r EXCEPT !.wants = LoopRows(r.stage, u), !.todo = @ \ {u}]
  <2>2. r.wants = <<>> /\ holder' = holder /\ job' = job /\ u \in Owner
    BY <1>3, <1>10 DEF LockNext, s, r
  <2>3. \/ r.stage = "owning" /\ LoopRows(r.stage, u) = <<OwnerLock(u)>>
        \/ /\ r.stage = "recovering" /\ LoopRows(r.stage, u) = <<ReportRow(u)>>
           /\ holder[OwnerLock(u)] = s
    <3>1. r.stage = "owning" \/ (r.stage = "recovering" /\ holder[OwnerLock(u)] = s)
      BY <1>1, <2>1 DEF Fits, LoopsFit
    <3> QED
      BY <1>2, <2>2, <3>1 DEF LoopRows
  <2>4. LoopRows(r.stage, u) \in Seq(Lock)
    <3>1. OwnerLock(u) \in Lock /\ ReportRow(u) \in Lock
      BY <2>2, LocksDiffer DEF Rows
    <3>2. <<OwnerLock(u)>> \in Seq(Lock) /\ <<ReportRow(u)>> \in Seq(Lock)
      BY <3>1
    <3> QED
      BY <2>3, <3>2
  <2>5. x \in Stage /\ x.stage = r.stage /\ x.wants = LoopRows(r.stage, u) /\ x.todo = r.todo \ {u}
    BY <1>1, <1>3, <2>4 DEF Stage
  <2> HIDE DEF x
  <2>6. LoopsFit(s, x, holder)
    BY <1>1, <2>5 DEF Fits, LoopsFit
  <2>7. Fits(s, x, holder)
    <3>1. r.stage # "idle" /\ x.stage # "idle"
      BY <2>3, <2>5
    <3>2. \/ x.wants = <<OwnerLock(u)>>
          \/ x.wants = <<ReportRow(u)>> /\ holder[OwnerLock(u)] = Claim(w)
      BY <2>3, <2>5 DEF s
    <3> QED
      BY <1>1, <2>2, <2>6, <3>1, <3>2, ClaimAsks DEF s
  <2> QED
    BY <1>1, <2>1, <2>2, <2>5, <2>7, SessionMoves DEF x
<1>11. CASE ChooseCandidate(w)
  <2>1. PICK u \in Owner :
          session' = [session EXCEPT ![s] =
            [stage |-> "chosen", wants |-> CandidateRows(u), todo |-> {}, candidate |-> {u}]]
    BY <1>11 DEF ChooseCandidate, s
  <2> DEFINE x == [stage |-> "chosen", wants |-> CandidateRows(u), todo |-> {}, candidate |-> {u}]
  <2>2. r.stage = "recovering" /\ r.wants = <<>> /\ holder' = holder /\ job' = job
    BY <1>11 DEF ChooseCandidate, Ready, s, r
  <2>3. CandidateRows(u) = <<OwnerLock(u), ReportRow(u)>> /\ CandidateRows(u) \in Seq(Lock)
    BY LocksDiffer DEF CandidateRows, Rows
  <2>4. x \in Stage /\ x.stage = "chosen" /\ x.wants = <<OwnerLock(u), ReportRow(u)>> /\ x.todo = {}
    BY <2>3 DEF Stage, StageName
  <2> HIDE DEF x
  <2>5. Fits(s, x, holder)
    <3>1. LoopsFit(s, x, holder)
      BY <2>4 DEF LoopsFit
    <3> QED
      BY <1>1, <2>2, <2>4, <3>1, ClaimAsks DEF s
  <2> QED
    BY <1>1, <2>1, <2>2, <2>4, <2>5, SessionMoves DEF x
<1> QED
  BY <1>4, <1>6, <1>7, <1>8, <1>9, <1>10, <1>11

LEMMA RowsInSeq ==
  ASSUME NEW u \in Owner
  PROVE  /\ SourceRows(u) \in Seq(Rows(u) \cup {Budget})
         /\ CancelRows(u) \in Seq(Rows(u) \cup {Budget})
<1> DEFINE R == Rows(u) \cup {Budget}
<1>1. AttemptRow(u) \in R /\ ReportRow(u) \in R /\ Quota(u) \in R /\ Budget \in R
  BY DEF Rows
<1> HIDE DEF R
<1>2. /\ <<AttemptRow(u), Budget, Quota(u), ReportRow(u)>> \in Seq(R)
      /\ <<Quota(u), Budget, ReportRow(u)>> \in Seq(R)
      /\ <<ReportRow(u), AttemptRow(u), Budget, Quota(u)>> \in Seq(R)
      /\ <<ReportRow(u), Quota(u), Budget>> \in Seq(R)
      /\ <<>> \in Seq(R)
  BY <1>1
<1>3. SourceRows(u) \in Seq(R)
  BY <1>2 DEF SourceRows
<1>4. CancelRows(u) \in Seq(R)
  BY <1>2 DEF CancelRows
<1> QED
  BY <1>3, <1>4 DEF R

\* the locks and the rows of a cancellation, and of a source's deletion
LEMMA OwnerStep ==
  ASSUME LockInvariant, NEW u \in Owner,
         BeginCancel(u) \/ WriteCancel(u) \/ BeginDelete(u) \/ WriteDelete(u)
  PROVE  LockInvariant'
<1>1. ASSUME NEW s \in {Cancel(u), Delete(u)}, NEW from, NEW to, NEW q \in Seq(Lock),
             Ready(s, from), GoOn(s, to, q),
             \/ /\ from = "idle" /\ to = "begun"
                /\ \/ s = Cancel(u) /\ q = <<Global, OwnerLock(u)>>
                   \/ s = Delete(u) /\ q = <<OwnerLock(u)>>
             \/ from = "begun" /\ to = "written" /\ q \in Seq(Rows(u) \cup {Budget})
      PROVE  LockInvariant'
  <2> DEFINE r == session[s]
             x == [r EXCEPT !.stage = to, !.wants = q]
  <2>1. /\ s \in Session /\ r \in Stage /\ Fits(s, r, holder)
        /\ job \in [Owner -> Steady]
    BY SessionsDiffer DEF LockInvariant, LocksTyped
  <2>2. /\ r.stage = from /\ r.wants = <<>> /\ r.todo = {}
        /\ session' = [session EXCEPT ![s] = x] /\ holder' = holder /\ job' = job
    BY <1>1 DEF Ready, GoOn
  <2>3. x \in Stage /\ x.stage = to /\ x.wants = q /\ x.todo = {}
    BY <1>1, <2>1, <2>2 DEF Stage, StageName
  <2> HIDE DEF r, x
  <2>4. Fits(s, x, holder)
    <3>1. CASE from = "idle"
      BY <1>1, <2>1, <2>2, <2>3, <3>1, Begins
    <3>2. CASE from = "begun"
      <4>1. to = "written" /\ x.wants \in Seq(Rows(u) \cup {Budget})
        BY <1>1, <2>3, <3>2
      <4> QED
        BY <2>1, <2>2, <2>3, <3>2, <4>1, OwnerWrites
    <3> QED
      BY <1>1, <3>1, <3>2
  <2> QED
    BY <2>1, <2>2, <2>3, <2>4, SessionMoves
<1>2. /\ <<Global, OwnerLock(u)>> \in Seq(Lock) /\ <<OwnerLock(u)>> \in Seq(Lock)
      /\ Seq(Rows(u) \cup {Budget}) \subseteq Seq(Lock)
  BY LocksDiffer
<1>3. CASE BeginCancel(u)
  BY <1>1, <1>2, <1>3 DEF BeginCancel
<1>4. CASE WriteCancel(u)
  BY <1>1, <1>2, <1>4, RowsInSeq DEF WriteCancel
<1>5. CASE BeginDelete(u)
  BY <1>1, <1>2, <1>5 DEF BeginDelete
<1>6. CASE WriteDelete(u)
  BY <1>1, <1>2, <1>6, RowsInSeq DEF WriteDelete
<1> QED
  BY <1>3, <1>4, <1>5, <1>6

LEMMA EndStep ==
  ASSUME LockInvariant, NEW s \in Session,
         \/ \E w \in Worker : s = Claim(w) /\ EndClaim(w)
         \/ \E u \in Owner : EndReport(s, u)
  PROVE  LockInvariant'
<1>1. job \in [Owner -> Steady]
  BY DEF LockInvariant, LocksTyped
<1>2. "none" \in Steady /\ "leased" \in Steady /\ "queued" \in Steady
  BY DEF Steady, JobState
<1>3. ASSUME NEW w \in Worker, s = Claim(w), EndClaim(w)
      PROVE  LockInvariant'
  <2>1. job' = [u \in Owner |-> Claimed(w, u)] /\ Commit(s)
    BY <1>3 DEF EndClaim
  <2>2. \A u \in Owner : Claimed(w, u) \in Steady
    BY <1>1, <1>2 DEF Claimed
  <2> QED
    BY <2>1, <2>2, CommitKeeps
<1>4. ASSUME NEW u \in Owner, EndReport(s, u)
      PROVE  LockInvariant'
  <2>1. job' \in [Owner -> Steady] /\ Commit(s)
    BY <1>1, <1>2, <1>4 DEF EndReport
  <2> QED
    BY <2>1, CommitKeeps
<1> QED
  BY <1>3, <1>4

LEMMA NextKeepsLocks ==
  ASSUME LockInvariant, [Next]_vars
  PROVE  LockInvariant'
<1>1. CASE UNCHANGED vars
  BY <1>1 DEF vars, LockInvariant, LocksTyped
<1>2. ASSUME NEW s \in Session, Acquire(s)
      PROVE  LockInvariant'
  BY <1>2, AcquireKeeps
<1>3. ASSUME NEW w \in Worker,
             \/ BeginClaim(w) \/ ReapSlots(w) \/ SettleSlots(w)
             \/ RecoverLeases(w) \/ UpdateLeases(w) \/ LockNext(w)
             \/ ChooseCandidate(w) \/ EndClaim(w)
      PROVE  LockInvariant'
  BY <1>3, ClaimStep, EndStep, SessionsDiffer
<1>4. ASSUME NEW u \in Owner,
             \/ BeginCancel(u) \/ WriteCancel(u) \/ EndReport(Cancel(u), u)
             \/ BeginDelete(u) \/ WriteDelete(u) \/ EndReport(Delete(u), u)
      PROVE  LockInvariant'
  BY <1>4, OwnerStep, EndStep, SessionsDiffer
<1> QED
  BY <1>1, <1>2, <1>3, <1>4 DEF Next

\* Without a call whose lease or deadline is over when the system starts (none
\* appears here later), claims, cancellations and source deletions never wait
\* for each other in a circle: job-store.ts:154-156, for any owners and workers.
THEOREM NobodyWaitsInACircle ==
  ASSUME InitialJob \subseteq Steady
  PROVE  Spec => []CannotDeadlock
<1>1. Init => LockInvariant
  BY InitLocks
<1>2. LockInvariant /\ [Next]_vars => LockInvariant'
  BY NextKeepsLocks
<1>3. LockInvariant => CannotDeadlock
  BY NoCircle
<1> QED
  BY <1>1, <1>2, <1>3, PTL DEF Spec
=============================================================================
