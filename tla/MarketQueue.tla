------------------------------ MODULE MarketQueue ------------------------------
(***************************************************************************)
(* The queue in front of the market data provider                          *)
(* (apps/api/src/market-data/queue.ts): callers that ask for the same key  *)
(* share one job, a few jobs fetch at a time, the rest wait in order, and  *)
(* jobs end by an answer, by their last caller leaving, by three deadlines *)
(* or by the queue's closing.                                              *)
(*                                                                         *)
(* Everything runs in one event loop: an action is what runs without       *)
(* yielding.  An aborted execution gives its slot back in a later turn.    *)
(***************************************************************************)
EXTENDS Integers, FiniteSets, Sequences, SequencesExt

CONSTANTS
  Key, Caller,
  Job,           \* identities of jobs; one that has ended and unwound is used again
  NoJob,
  Slots,         \* executions at a time
  MaxWaiters,    \* jobs that wait at most
  MaxConsumers,  \* callers of one job at most
  MaxAttempts    \* fetches of one job at most

ASSUME QueueAssumption ==
  /\ Slots \in Nat \ {0} /\ MaxWaiters \in Nat \ {0}
  /\ MaxConsumers \in Nat \ {0} /\ MaxAttempts \in Nat \ {0}
  /\ NoJob \notin Job /\ IsFiniteSet(Job) /\ Cardinality(Job) >= Slots + MaxWaiters
  /\ Key # {}

VARIABLES
  job,        \* every job's fields and where its execution stands
  consumers,  \* every job's set of consumers
  inFlight,   \* the job of a key
  waiters,    \* the jobs that wait, in order
  active,     \* the number of slots taken
  closed,
  pending     \* callers whose promise is neither resolved nor rejected

vars == <<job, consumers, inFlight, waiters, active, closed, pending>>

\* timed: the queue timer is armed; the overall timer is while the job is unsettled.
\* slotHeld and settled: the job was aborted and its execution has yet to notice.
\* A settled job whose execution is over is garbage: its record is free again.
JobRecord == [key : Key, state : {"none", "queued", "active", "settled"}, slotHeld : BOOLEAN,
              timed : BOOLEAN, attempt : 1..MaxAttempts, phase : {"fetching", "delaying"}]

NoWork == [key |-> CHOOSE k \in Key : TRUE, state |-> "none", slotHeld |-> FALSE,
           timed |-> FALSE, attempt |-> 1, phase |-> "fetching"]

Unsettled == {j \in Job : job[j].state \in {"queued", "active"}}
Unwinding == {j \in Job : job[j].state = "settled" /\ job[j].slotHeld}
Fetching(j) == job[j].state = "active" /\ job[j].phase = "fetching"

-----------------------------------------------------------------------------
(* settle, abortJob and pump, over values of their variables.              *)

Settled(r) == IF r.slotHeld THEN [r EXCEPT !.state = "settled"] ELSE NoWork

\* mutant: the map keeps the job
KeptInMap(F, j) == F

\* inFlight.delete(job.key), when the map still has this job
Forgotten(F, j) == [k \in Key |-> IF F[k] = j THEN NoJob ELSE F[k]]

\* indexOf and splice
removeWaiter(Q, j) == RemoveFirst(Q, j)

StartedJob(J, j) ==
  [J EXCEPT ![j] = [@ EXCEPT !.state = "active", !.slotHeld = TRUE, !.timed = FALSE,
                             !.attempt = 1, !.phase = "fetching"]]

\* mutant: a job starts however many run
PumpUnbounded(J, Q, n) ==
  IF ~closed /\ Q # <<>>
  THEN job' = StartedJob(J, Head(Q)) /\ waiters' = Tail(Q) /\ active' = n + 1
  ELSE job' = J /\ waiters' = Q /\ active' = n

\* the loop of pump takes one turn at most: jobs wait only while no slot is free,
\* and pump runs when one job was added or one slot came back; a job in the queue
\* is never settled (see SlotsAreAccounted), so none is skipped
Pump(J, Q, n) ==
  IF ~closed /\ n < Slots /\ Q # <<>>
  THEN job' = StartedJob(J, Head(Q)) /\ waiters' = Tail(Q) /\ active' = n + 1
  ELSE job' = J /\ waiters' = Q /\ active' = n

\* every consumer of j is answered
Answer(j) ==
  /\ consumers' = [consumers EXCEPT ![j] = {}]
  /\ pending' = pending \ consumers[j]

\* abortJob: the execution of an active job notices later
Abort(j) ==
  /\ j \in Unsettled
  /\ job' = [job EXCEPT ![j] = Settled(@)]
  /\ waiters' = removeWaiter(waiters, j)
  /\ inFlight' = Forgotten(inFlight, j)
  /\ Answer(j)
  /\ UNCHANGED <<active, closed>>

-----------------------------------------------------------------------------
(* run and the callers.                                                    *)

Free == {j \in Job : job[j].state = "none"}

Join(c, k) ==
  LET j == inFlight[k] IN
  /\ ~closed /\ c \notin pending /\ j # NoJob
  /\ Cardinality(consumers[j]) < MaxConsumers   \* else the call is refused
  /\ consumers' = [consumers EXCEPT ![j] = @ \cup {c}]
  /\ pending' = pending \cup {c}
  /\ UNCHANGED <<job, inFlight, waiters, active, closed>>

NewJob(k) == [NoWork EXCEPT !.key = k, !.state = "queued", !.timed = active >= Slots]

Add(c, k) ==
  /\ ~closed /\ c \notin pending /\ inFlight[k] = NoJob
  /\ active < Slots \/ Len(waiters) < MaxWaiters   \* else the call is refused
  /\ \E j \in Free :
       /\ j = CHOOSE i \in Free : TRUE
       /\ inFlight' = [inFlight EXCEPT ![k] = j]
       /\ consumers' = [consumers EXCEPT ![j] = {c}]
       /\ Pump([job EXCEPT ![j] = NewJob(k)], Append(waiters, j), active)
  /\ pending' = pending \cup {c}
  /\ UNCHANGED closed

\* mutant: the job goes on for nobody
LeaveOnly(c) ==
  \E j \in Job :
    /\ c \in consumers[j]
    /\ consumers' = [consumers EXCEPT ![j] = @ \ {c}]
    /\ pending' = pending \ {c}
    /\ UNCHANGED <<job, inFlight, waiters, active, closed>>

\* the caller's signal aborts; the last one takes the job with it
Leave(c) ==
  \E j \in Job :
    /\ c \in consumers[j]
    /\ \/ consumers[j] = {c} /\ Abort(j)
       \/ /\ consumers[j] # {c}
          /\ consumers' = [consumers EXCEPT ![j] = @ \ {c}]
          /\ pending' = pending \ {c}
          /\ UNCHANGED <<job, inFlight, waiters, active, closed>>

-----------------------------------------------------------------------------
(* execute.                                                                *)

\* the execution settles its job and gives the slot back in one turn
EndExecution(j) ==
  /\ inFlight' = Forgotten(inFlight, j)
  /\ Answer(j)
  /\ Pump([job EXCEPT ![j] = NoWork], waiters, active - 1)
  /\ UNCHANGED closed

FetchReturns(j) == Fetching(j) /\ EndExecution(j)

\* an answer that says no, or the attempt's timeout; the symbol may be unknown
FetchFails(j) ==
  /\ Fetching(j)
  /\ \/ EndExecution(j)
     \/ /\ job[j].attempt < MaxAttempts
        /\ job' = [job EXCEPT ![j] = [@ EXCEPT !.phase = "delaying"]]
        /\ UNCHANGED <<consumers, inFlight, waiters, active, closed, pending>>

DelayEnds(j) ==
  /\ job[j].state = "active" /\ job[j].phase = "delaying"
  /\ job' = [job EXCEPT ![j] = [@ EXCEPT !.phase = "fetching", !.attempt = job[j].attempt + 1]]
  /\ UNCHANGED <<consumers, inFlight, waiters, active, closed, pending>>

\* mutant: the aborted execution forgets its slot
UnwindOnly(j) ==
  /\ j \in Unwinding
  /\ job' = [job EXCEPT ![j] = NoWork]
  /\ UNCHANGED <<consumers, inFlight, waiters, active, closed, pending>>

\* mutant: the slot comes back and is offered to nobody
UnwindQuietly(j) ==
  /\ j \in Unwinding
  /\ job' = [job EXCEPT ![j] = NoWork] /\ active' = active - 1
  /\ UNCHANGED <<consumers, inFlight, waiters, closed, pending>>

\* the fetch or the delay of an aborted job rejects, the execution ends
Unwind(j) ==
  /\ j \in Unwinding
  /\ Pump([job EXCEPT ![j] = NoWork], waiters, active - 1)
  /\ UNCHANGED <<consumers, inFlight, closed, pending>>

QueueTimeout(j) == job[j].timed /\ Abort(j)
OverallTimeout(j) == Abort(j)

\* each job of the map is aborted; all that waits is in the map, so nothing waits on
Close ==
  /\ ~closed /\ closed' = TRUE
  /\ job' = [j \in Job |-> IF j \in Unsettled THEN Settled(job[j]) ELSE job[j]]
  /\ inFlight' = [k \in Key |-> NoJob]
  /\ waiters' = <<>>
  /\ consumers' = [j \in Job |-> IF j \in Unsettled THEN {} ELSE consumers[j]]
  /\ pending' = pending \ UNION {consumers[j] : j \in Unsettled}
  /\ UNCHANGED active

-----------------------------------------------------------------------------
Init ==
  /\ job = [j \in Job |-> NoWork]
  /\ consumers = [j \in Job |-> {}]
  /\ inFlight = [k \in Key |-> NoJob]
  /\ waiters = <<>> /\ active = 0 /\ closed = FALSE /\ pending = {}

Execution(j) == FetchReturns(j) \/ FetchFails(j) \/ DelayEnds(j) \/ Unwind(j)
Deadline(j) == QueueTimeout(j) \/ OverallTimeout(j)

Next ==
  \/ \E c \in Caller, k \in Key : Join(c, k) \/ Add(c, k)
  \/ \E c \in Caller : Leave(c)
  \/ \E j \in Job : Execution(j) \/ Deadline(j)
  \/ Close

\* timers fire and rejected promises are noticed; the provider may never answer,
\* callers may never leave
Fairness == \A j \in Job : WF_vars(Unwind(j)) /\ WF_vars(OverallTimeout(j))

Spec == Init /\ [][Next]_vars /\ Fairness

-----------------------------------------------------------------------------
(* The abstract queue: who shares the call of a key.                       *)

Sharers == [k \in Key |-> IF inFlight[k] = NoJob THEN {} ELSE consumers[inFlight[k]]]

Calls == INSTANCE SharedCalls
  WITH asking <- Sharers, MaxKeys <- Slots + MaxWaiters, MaxSharers <- MaxConsumers

-----------------------------------------------------------------------------
(* What the queue promises.                                                *)

Waiting == {waiters[i] : i \in DOMAIN waiters}

\* The types, and the limits of slots, waiting jobs and shared consumers.
TypeOK ==
  /\ job \in [Job -> JobRecord]
  /\ consumers \in [Job -> SUBSET Caller]
  /\ \A j \in Job : Cardinality(consumers[j]) <= MaxConsumers
  /\ inFlight \in [Key -> Job \cup {NoJob}]
  /\ waiters \in Seq(Job) /\ Len(waiters) <= MaxWaiters
  /\ active \in 0..Slots
  /\ closed \in BOOLEAN /\ pending \in SUBSET Caller

\* Every slot is held by one execution, aborted ones included, no slot is free
\* while a job waits, and what waits is queued, once, under its queue timer:
\* however starts, ends, aborts and deadlines interleave, the pump is not missed.
SlotsAreAccounted ==
  /\ active = Cardinality({j \in Job : job[j].slotHeld})
  /\ waiters # <<>> => active = Slots
  /\ Waiting = {j \in Job : job[j].state = "queued"}
  /\ Len(waiters) = Cardinality(Waiting)
  /\ \A j \in Waiting : job[j].timed /\ ~job[j].slotHeld

\* A job is found under its key exactly while it is unsettled, so a key is never
\* fetched twice for two groups of callers, and never for nobody.
JobsAreWanted ==
  /\ \A j \in Unsettled : inFlight[job[j].key] = j /\ consumers[j] # {}
  /\ \A k \in Key : inFlight[k] # NoJob => inFlight[k] \in Unsettled /\ job[inFlight[k]].key = k

\* A caller that still waits for its answer is a consumer of one unsettled job: who
\* joins a job while others abort it or it ends is never left behind.
CallersAreHeld ==
  /\ \A c \in Caller : c \in pending <=> \E j \in Unsettled : c \in consumers[j]
  /\ \A c \in Caller : \A i, j \in Job : c \in consumers[i] /\ c \in consumers[j] => i = j

\* The queue shares calls: the callers of a key are answered together or leave, no
\* caller is in two groups, and groups and their members stay within the limits,
\* whatever slots, attempts and timers do behind them.
ImplementsSharedCalls == Calls!Spec

\* Every caller gets an answer, a refusal or a timeout though the provider never
\* answers, and a closed queue gets all its slots back.
EverythingEnds ==
  /\ \A c \in Caller : c \in pending ~> c \notin pending
  /\ closed ~> active = 0 /\ pending = {}
=============================================================================
