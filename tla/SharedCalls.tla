------------------------------ MODULE SharedCalls ------------------------------
(***************************************************************************)
(* What a queue that shares calls promises to those who ask, with nothing  *)
(* of jobs, slots, attempts or timers: the callers of one key are a group. *)
(*                                                                         *)
(* A caller asks for one key at a time and joins the group that is there.  *)
(* A group ends as a whole, by an answer, a refusal or a deadline, and a   *)
(* member may leave before.  The groups and their members are limited.     *)
(***************************************************************************)
EXTENDS Integers, FiniteSets

CONSTANTS
  Key, Caller,
  MaxKeys,    \* keys that are asked for at a time
  MaxSharers  \* callers that share a call

VARIABLES
  asking,  \* the callers of each key that wait for their answer
  closed

callVars == <<asking, closed>>

Asked == {k \in Key : asking[k] # {}}

Init ==
  /\ asking = [k \in Key |-> {}]
  /\ closed = FALSE

Ask(c, k) ==
  /\ ~closed
  /\ \A i \in Key : c \notin asking[i]
  /\ Cardinality(asking[k]) < MaxSharers
  /\ k \notin Asked => Cardinality(Asked) < MaxKeys
  /\ asking' = [asking EXCEPT ![k] = @ \cup {c}]
  /\ UNCHANGED closed

Leave(c) ==
  /\ asking' = [k \in Key |-> asking[k] \ {c}]
  /\ UNCHANGED closed

\* all who share the call get the same end
End(k) ==
  /\ asking' = [asking EXCEPT ![k] = {}]
  /\ UNCHANGED closed

Close ==
  /\ closed' = TRUE
  /\ asking' = [k \in Key |-> {}]

Next ==
  \/ \E c \in Caller, k \in Key : Ask(c, k)
  \/ \E c \in Caller : Leave(c)
  \/ \E k \in Key : End(k)
  \/ Close

Spec == Init /\ [][Next]_callVars
=============================================================================
