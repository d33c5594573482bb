--------------------------- MODULE NativeClientProofs ---------------------------
(***************************************************************************)
(* The safety of NativeClient, for every number of tokens and calls.       *)
(*                                                                         *)
(* The invariant is a conjunction over the values of the variables, so a   *)
(* step can be taken apart: an action is one or two of a dozen kinds of    *)
(* change (QuietStep, StartStep, ClearStep, ...), each of which keeps it.  *)
(* A write that is over is such a half step, too: `x' is the call whose    *)
(* write has left the queue and that has not gone on yet, or NoCall.       *)
(***************************************************************************)
EXTENDS NativeClient, SequenceTheorems, TLAPS

-----------------------------------------------------------------------------
(* The invariant.  P, L, F, Q, S are values of call, loaded, inFlight,     *)
(* writes and stored, T and U of token and late, O and E of out and ended. *)

Write == [session : MaybeSession, by : Call \cup {NoCall}]

ShapeOK(r) ==
  /\ r \in CallRecord
  /\ r.kind = "none" => r = NoWork
  /\ r.kind = "refresh" => r.stage \in {"reading", "sent", "answered", "writing"}
  /\ r.kind = "login" => r.stage \in {"writing", "sent", "answered"}
  /\ r.kind = "logout" => r.stage \in {"reading", "writing", "sent"}
  /\ r.kind = "fetch" => r.stage \notin {"writing", "answered"}
  /\ r.session = Reading => r.stage \in {"reading", "rereading"}
  /\ r.kind \in {"refresh", "logout"} /\ r.stage = "sent" => r.session \in Token
  /\ r.kind \in {"refresh", "login"} /\ r.stage \in {"reading", "sent"} => r.next = NoSession
  /\ r.kind = "login" /\ r.stage = "answered" => r.next # NoSession
  /\ r.kind = "logout" => r.next = NoSession
  /\ r.clearing => r.stage = "writing"
  /\ r.stage = "writing" => (r.next = NoSession <=> r.clearing)

MemoryOK(P, L, F, S) ==
  /\ P \in [Call -> CallRecord] /\ \A c \in Call : ShapeOK(P[c])
  /\ L \in MaybeSession \cup {Unread, Reading} /\ S \in MaybeSession
  /\ F \in Call \cup {NoCall} /\ (F # NoCall => P[F].kind = "refresh")

\* a call that writes has one entry, with what it writes; nothing is written before
\* something was read
QueueOK(P, L, Q, x) ==
  /\ Q \in Seq(Write)
  /\ \A i \in 1..Len(Q) : Q[i].by # NoCall =>
       Q[i].by # x /\ P[Q[i].by].stage = "writing" /\ Q[i].session = P[Q[i].by].next
  /\ \A i \in 1..Len(Q) : Q[i].by = NoCall => Q[i].session = NoSession
  /\ \A c \in Call : P[c].stage = "writing" /\ c # x => \E i \in 1..Len(Q) : Q[i].by = c
  /\ \A h, i \in 1..Len(Q) : Q[h].by = Q[i].by /\ Q[h].by # NoCall => h = i
  /\ x # NoCall => x \in Call /\ P[x].stage = "writing"
  /\ L \in {Unread, Reading} => Q = <<>> /\ x = NoCall

Current(P, c, kind) == P[c].kind = kind /\ ~P[c].stale
Leaving(P, c) == P[c].kind = "logout" /\ P[c].stage = "writing"

\* what a logout overtakes before its write is over
LeavingOK(P, L, Q, x) ==
  \A c \in Call : Leaving(P, c) =>
    /\ L = NoSession
    /\ \A d \in Call : Current(P, d, "refresh") => P[d].session = NoSession /\ P[d].next = NoSession
    /\ \A d \in Call : Current(P, d, "login") => P[d].stage = "writing" /\ P[d].clearing /\ d # x
    /\ \A h, i \in 1..Len(Q) : Q[h].by = c /\ h < i => Q[i].session = NoSession
    /\ \A h, i \in 1..Len(Q) : Q[h].by = c /\ Q[i].by # NoCall /\ i < h => ~Current(P, Q[i].by, "login")
    /\ c = x => \A i \in 1..Len(Q) : Q[i].session = NoSession

Client(P, L, F, Q, S, x) ==
  MemoryOK(P, L, F, S) /\ QueueOK(P, L, Q, x) /\ LeavingOK(P, L, Q, x)

\* where the device may take a session from: storage, what it has read and what it
\* writes, a refresh that is not stale, and the answer of such a login
InMemory(P, L, Q, S, t) ==
  \/ L = t \/ S = t
  \/ \E i \in 1..Len(Q) : Q[i].session = t
  \/ \E c \in Call : Current(P, c, "refresh") /\ (P[c].session = t \/ P[c].next = t)

Arriving(P, t) == \E c \in Call : Current(P, c, "login") /\ P[c].next = t

Held(P, L, Q, S, t) ==
  \/ L = t \/ S = t
  \/ \E i \in 1..Len(Q) : Q[i].session = t
  \/ \E c \in Call : P[c].session = t \/ P[c].next = t

RowsOK(T, P, L, Q, S, U, E) ==
  /\ T \in [Token -> Row]
  /\ \A t \in Token : T[t].client = "NATIVE" => T[T[t].family].status # "absent"
  /\ E \in SUBSET Token /\ \A f \in E : T[f].status # "absent"
  /\ U \in SUBSET Token /\ \A t \in U : T[t].status # "absent"
  /\ \A t \in Token : Held(P, L, Q, S, t) => T[t].status # "absent"

OutOK(P, L, Q, S) == \A t \in Token : ~InMemory(P, L, Q, S, t)

OfFamily(T, t, f) == T[t].client = "NATIVE" /\ T[t].family = f

Gone(T, P, L, Q, S, f) ==
  \A t \in Token : InMemory(P, L, Q, S, t) \/ Arriving(P, t) => ~OfFamily(T, t, f)

\* a logout the server has answered, or is asked for, has left nothing of its family
GoneOK(T, P, L, Q, S, E) ==
  /\ \A f \in E : Gone(T, P, L, Q, S, f)
  /\ \A f \in E, t \in Token : OfFamily(T, t, f) => T[t].status # "live"
  /\ \A c \in Call : /\ P[c].kind = "logout" /\ P[c].stage = "sent"
                     /\ T[P[c].session].client = "NATIVE"
                     => Gone(T, P, L, Q, S, T[P[c].session].family)

Used(T, U, s) == s \in U \/ T[s].status = "ROTATED"
Refreshes(P, c, s) == P[c].kind = "refresh" /\ P[c].session = s
Fresh(P, c) == P[c].stage = "answered" /\ P[c].next # NoSession

\* of a token that has been used the device has at most the refresh that used it
ReplayOK(T, P, L, F, S, U) ==
  /\ (L \in {Unread, Reading} \/ \E c \in Call : P[c].session = Reading) => S = NoSession
  /\ \A c, d \in Call, s \in Token : Refreshes(P, c, s) /\ Refreshes(P, d, s) => c = d
  /\ \A c \in Call : L \in Token /\ Refreshes(P, c, L) =>
       F = c /\ ~P[c].stale /\ P[c].stage # "writing"
  /\ \A c \in Call : Fresh(P, c) =>
       /\ L # P[c].next /\ ~Used(T, U, P[c].next)
       /\ \A d \in Call : ~Refreshes(P, d, P[c].next)
       /\ \A d \in Call : Fresh(P, d) /\ P[d].next = P[c].next => c = d
  /\ \A s \in Token : Used(T, U, s) =>
       /\ \A c \in Call : Refreshes(P, c, s) => P[c].stage \notin {"reading", "sent"}
       /\ L = s => \E c \in Call : Refreshes(P, c, s)

Good(T, P, L, F, Q, S, U, K, O, E, x) ==
  /\ Client(P, L, F, Q, S, x)
  /\ RowsOK(T, P, L, Q, S, U, E)
  /\ O => OutOK(P, L, Q, S)
  /\ GoneOK(T, P, L, Q, S, E)
  /\ ~K => ReplayOK(T, P, L, F, S, U)

Inv ==
  /\ SessionsTypeOK /\ crashed \in BOOLEAN /\ out \in BOOLEAN
  /\ Good(token, call, loaded, inFlight, writes, stored, late, crashed, out, ended, NoCall)

-----------------------------------------------------------------------------
LEMMA ConstantFacts ==
  /\ NoCall \notin Call /\ NoSession \notin Token /\ Unread \notin Token /\ Reading \notin Token
  /\ NoSession # Unread /\ NoSession # Reading /\ Unread # Reading
  /\ MaybeSession = Token \cup {NoSession}
  BY ClientAssumption DEF MaybeSession

LEMMA NoWorkFields ==
  /\ NoWork.kind = "none" /\ NoWork.stage = "idle" /\ NoWork.session = NoSession
  /\ NoWork.next = NoSession /\ ~NoWork.stale /\ ~NoWork.clearing /\ NoWork.with = NoCall
  /\ NoWork \in CallRecord
  BY DEF NoWork, CallRecord, Kind, Stage, MaybeSession

LEMMA NoWorkIsOK == ShapeOK(NoWork)
  BY NoWorkFields, ConstantFacts DEF ShapeOK

LEMMA RecordFields ==
  ASSUME NEW r \in CallRecord
  PROVE  /\ r.session \in MaybeSession \cup {Reading} /\ r.next \in MaybeSession
         /\ r.kind \in Kind /\ r.stage \in Stage /\ r.with \in Call \cup {NoCall}
         /\ r.clearing \in BOOLEAN /\ r.stale \in BOOLEAN
  BY DEF CallRecord

LEMMA WriteFields ==
  ASSUME NEW Q \in Seq(Write), NEW i \in 1..Len(Q)
  PROVE  Q[i] \in Write /\ Q[i].session \in MaybeSession /\ Q[i].by \in Call \cup {NoCall}
<1>1. Q[i] \in Write
  BY ElementOfSeq
<1>2. QED
  BY <1>1 DEF Write

\* a step that takes sessions only from where they were, and asks for no other logout
NothingNew(P, L, Q, S, P2, L2, Q2, S2) ==
  \A t \in Token :
    /\ Held(P2, L2, Q2, S2, t) => Held(P, L, Q, S, t)
    /\ InMemory(P2, L2, Q2, S2, t) => InMemory(P, L, Q, S, t)
    /\ Arriving(P2, t) => Arriving(P, t) \/ InMemory(P, L, Q, S, t)

NoNewLogout(P, P2) ==
  \A c \in Call : P2[c].kind = "logout" /\ P2[c].stage = "sent" =>
    P[c].kind = "logout" /\ P[c].stage = "sent" /\ P2[c].session = P[c].session

LEMMA NothingNewKeeps ==
  ASSUME NEW T, NEW P, NEW L, NEW Q, NEW S, NEW U, NEW O, NEW E,
         NEW P2, NEW L2, NEW Q2, NEW S2, NEW U2,
         RowsOK(T, P, L, Q, S, U, E), O => OutOK(P, L, Q, S), GoneOK(T, P, L, Q, S, E),
         NothingNew(P, L, Q, S, P2, L2, Q2, S2), NoNewLogout(P, P2),
         U2 \in SUBSET Token, \A t \in U2 : t \in U \/ Held(P, L, Q, S, t)
  PROVE  /\ RowsOK(T, P2, L2, Q2, S2, U2, E)
         /\ O => OutOK(P2, L2, Q2, S2)
         /\ GoneOK(T, P2, L2, Q2, S2, E)
<1>1. RowsOK(T, P2, L2, Q2, S2, U2, E)
  BY DEF RowsOK, NothingNew
<1>2. O => OutOK(P2, L2, Q2, S2)
  BY DEF OutOK, NothingNew
<1>3. ASSUME NEW f, Gone(T, P, L, Q, S, f)
      PROVE  Gone(T, P2, L2, Q2, S2, f)
  BY <1>3 DEF Gone, NothingNew
<1>4. \A f \in E : Gone(T, P2, L2, Q2, S2, f)
  BY <1>3 DEF GoneOK
<1>5. ASSUME NEW c \in Call, P2[c].kind = "logout", P2[c].stage = "sent", T[P2[c].session].client = "NATIVE"
      PROVE  Gone(T, P2, L2, Q2, S2, T[P2[c].session].family)
  <2>1. P[c].kind = "logout" /\ P[c].stage = "sent" /\ P2[c].session = P[c].session
    BY <1>5 DEF NoNewLogout
  <2>2. Gone(T, P, L, Q, S, T[P[c].session].family)
    BY <1>5, <2>1 DEF GoneOK
  <2>3. QED
    BY <1>3, <2>1, <2>2
<1>6. QED
  BY <1>1, <1>2, <1>4, <1>5 DEF GoneOK

-----------------------------------------------------------------------------
(* A quiet step: calls begin to read, get what they read, go to the server *)
(* and come back with nothing, or end; nothing is written.                 *)

TakesFrom(r, r2, L, S) ==
  /\ r2.session \in {r.session, L, S, NoSession, Reading}
  /\ r2.session = Reading => r.session = Reading \/ L \in {Unread, Reading}
  /\ r2.next \in {r.session, r.next, NoSession}

QuietRefresh(r, r2, S) ==
  /\ r.kind = "refresh" /\ r2.kind = "refresh" /\ r2.stale = r.stale
  /\ r.stage # "writing" /\ r2.stage # "writing" /\ r2.next = NoSession
  /\ \/ r2.session = r.session
     \/ r.stage = "reading" /\ r2.stage = "reading" /\ r2.session = NoSession
     \/ r.session = Reading /\ r2.session = S
  /\ r2.stage \in {"reading", "sent"} => r.stage \in {"reading", "sent"}

QuietMove(r, r2, L, S) ==
  \/ r2 = r
  \/ r.kind # "refresh" /\ r.stage # "writing" /\ r2 = NoWork
  \/ r.kind \in {"none", "fetch"} /\ r2.kind = "fetch" /\ TakesFrom(r, r2, L, S)
  \/ /\ r.kind \in {"none", "logout"} /\ r.stage # "writing"
     /\ r2.kind = "logout" /\ r2.stage = "reading" /\ TakesFrom(r, r2, L, S)
  \/ QuietRefresh(r, r2, S)

GivenUp(P, U, P2, U2) ==
  /\ U2 \in SUBSET Token
  /\ \A t \in U2 : t \in U \/ \E c \in Call : /\ P[c] # P2[c] /\ Refreshes(P, c, t) /\ Refreshes(P2, c, t)
                                              /\ P2[c].stage \notin {"reading", "sent"}

Quiet(P, L, S, U, P2, L2, U2) ==
  /\ P2 \in [Call -> CallRecord]
  /\ \A c \in Call : ShapeOK(P2[c]) /\ QuietMove(P[c], P2[c], L, S)
  /\ \/ L2 \in {L, NoSession}
     \/ L = Unread /\ L2 = Reading
     \/ L = Reading /\ L2 \in {S, Unread}
  /\ GivenUp(P, U, P2, U2)

LEMMA QuietStep ==
  ASSUME NEW T, NEW P, NEW L, NEW F, NEW Q, NEW S, NEW U, NEW K, NEW O, NEW E, NEW x,
         Good(T, P, L, F, Q, S, U, K, O, E, x),
         NEW P2, NEW L2, NEW U2, Quiet(P, L, S, U, P2, L2, U2)
  PROVE  Good(T, P2, L2, F, Q, S, U2, K, O, E, x)
<1> USE ConstantFacts
<1>1. MemoryOK(P, L, F, S) /\ QueueOK(P, L, Q, x) /\ LeavingOK(P, L, Q, x)
  BY DEF Good, Client
<1>2. \A c \in Call : /\ P[c] \in CallRecord /\ ShapeOK(P[c]) /\ P2[c] \in CallRecord
                      /\ ShapeOK(P2[c]) /\ QuietMove(P[c], P2[c], L, S)
  BY <1>1 DEF MemoryOK, Quiet
<1>3. \A c \in Call : P[c].kind = "refresh" => P2[c].kind = "refresh" /\ P2[c].stale = P[c].stale
  BY <1>2 DEF QuietMove, QuietRefresh
<1>4. \A c \in Call : P2[c].kind = "refresh" => P2[c] = P[c] \/ QuietRefresh(P[c], P2[c], S)
  BY <1>2, NoWorkFields DEF QuietMove
<1>5. \A c \in Call : P2[c].kind = "login" => P2[c] = P[c]
  BY <1>2, NoWorkFields DEF QuietMove, QuietRefresh
<1>6. \A c \in Call : P2[c].stage = "writing" \/ P[c].stage = "writing" => P2[c] = P[c]
  BY <1>2, NoWorkFields DEF QuietMove, QuietRefresh, ShapeOK
<1>7. \A c \in Call : P2[c].kind = "logout" /\ P2[c].stage # "reading" => P2[c] = P[c]
  BY <1>2, NoWorkFields DEF QuietMove, QuietRefresh
<1>8. MemoryOK(P2, L2, F, S)
  BY <1>1, <1>2, <1>3 DEF MemoryOK, Quiet
<1>9. QueueOK(P2, L2, Q, x)
  <2>1. L2 \in {Unread, Reading} => L \in {Unread, Reading}
    BY <1>1 DEF Quiet, MemoryOK
  <2>2. \A i \in 1..Len(Q) : Q[i].by \in Call \cup {NoCall}
    BY <1>1, WriteFields DEF QueueOK
  <2>3. QED
    BY <1>1, <1>6, <2>1, <2>2 DEF QueueOK
<1>10. LeavingOK(P2, L2, Q, x)
  <2>1. SUFFICES ASSUME NEW c \in Call, Leaving(P2, c)
                 PROVE  /\ L2 = NoSession
                        /\ \A d \in Call : Current(P2, d, "refresh") => P2[d].session = NoSession /\ P2[d].next = NoSession
                        /\ \A d \in Call : Current(P2, d, "login") => P2[d].stage = "writing" /\ P2[d].clearing /\ d # x
                        /\ \A h, i \in 1..Len(Q) : Q[h].by = c /\ h < i => Q[i].session = NoSession
                        /\ \A h, i \in 1..Len(Q) : Q[h].by = c /\ Q[i].by # NoCall /\ i < h => ~Current(P2, Q[i].by, "login")
                        /\ c = x => \A i \in 1..Len(Q) : Q[i].session = NoSession
    BY DEF LeavingOK
  <2>2. Leaving(P, c)
    BY <1>6, <2>1 DEF Leaving
  <2>3. L = NoSession /\ L2 = NoSession
    BY <1>1, <2>2 DEF LeavingOK, Quiet
  <2>4. ASSUME NEW d \in Call, Current(P2, d, "refresh")
        PROVE  P2[d].session = NoSession /\ P2[d].next = NoSession
    <3>1. Current(P, d, "refresh")
      BY <1>4, <2>4 DEF Current, QuietRefresh
    <3>2. P[d].session = NoSession /\ P[d].next = NoSession
      BY <1>1, <2>2, <3>1 DEF LeavingOK
    <3>3. QED
      BY <1>4, <2>4, <3>2 DEF Current, QuietRefresh
  <2>5. \A d \in Call : Current(P2, d, "login") => Current(P, d, "login") /\ P2[d] = P[d]
    BY <1>5 DEF Current
  <2>6. \A i \in 1..Len(Q) : Q[i].by \in Call \cup {NoCall}
    BY <1>1, WriteFields DEF QueueOK
  <2>7. QED
    BY <1>1, <2>2, <2>3, <2>4, <2>5, <2>6 DEF LeavingOK
<1>11. \A t \in Token : L2 = t => L = t \/ S = t
  BY DEF Quiet
<1>12. NothingNew(P, L, Q, S, P2, L2, Q, S)
  <2>1. ASSUME NEW t \in Token, NEW c \in Call, P2[c].session = t \/ P2[c].next = t
        PROVE  P[c].session = t \/ P[c].next = t \/ L = t \/ S = t
    BY <1>2, <2>1, NoWorkFields DEF QuietMove, QuietRefresh, TakesFrom
  <2>2. ASSUME NEW t \in Token, NEW c \in Call, Current(P2, c, "refresh"), P2[c].session = t \/ P2[c].next = t
        PROVE  Current(P, c, "refresh") /\ (P[c].session = t \/ P[c].next = t \/ S = t)
    BY <1>4, <2>2 DEF Current, QuietRefresh
  <2>3. ASSUME NEW t \in Token
        PROVE  Held(P2, L2, Q, S, t) => Held(P, L, Q, S, t)
    BY <1>11, <2>1, <2>3 DEF Held
  <2>4. ASSUME NEW t \in Token
        PROVE  InMemory(P2, L2, Q, S, t) => InMemory(P, L, Q, S, t)
    BY <1>11, <2>2, <2>4 DEF InMemory
  <2>5. ASSUME NEW t \in Token
        PROVE  Arriving(P2, t) => Arriving(P, t)
    BY <1>5 DEF Arriving, Current
  <2>6. QED
    BY <2>3, <2>4, <2>5 DEF NothingNew
<1>13. NoNewLogout(P, P2)
  BY <1>7 DEF NoNewLogout
<1>14. /\ RowsOK(T, P2, L2, Q, S, U2, E) /\ (O => OutOK(P2, L2, Q, S))
       /\ GoneOK(T, P2, L2, Q, S, E)
  <2>1. U2 \in SUBSET Token /\ \A t \in U2 : t \in U \/ Held(P, L, Q, S, t)
    BY DEF Quiet, GivenUp, Refreshes, Held
  <2>2. RowsOK(T, P, L, Q, S, U, E) /\ (O => OutOK(P, L, Q, S)) /\ GoneOK(T, P, L, Q, S, E)
    BY DEF Good
  <2>3. QED
    BY <1>12, <1>13, <2>1, <2>2, NothingNewKeeps
<1>15. ASSUME ~K PROVE ReplayOK(T, P2, L2, F, S, U2)
  <2>1. ReplayOK(T, P, L, F, S, U)
    BY <1>15 DEF Good
  <2>2. L \in {Unread, Reading} \/ (\E c \in Call : P[c].session = Reading) => S = NoSession
    BY <2>1 DEF ReplayOK
  <2>3. L2 \in {Unread, Reading} \/ (\E c \in Call : P2[c].session = Reading) => S = NoSession
    BY <1>1, <1>2, <2>2, NoWorkFields DEF Quiet, QuietMove, QuietRefresh, TakesFrom, MemoryOK
  <2>4. \A t \in Token : L2 = t => L = t
    BY <2>2 DEF Quiet
  <2>5. ASSUME NEW c \in Call, NEW s \in Token, Refreshes(P2, c, s)
        PROVE  Refreshes(P, c, s) /\ (P2[c].stage \in {"reading", "sent"} => P[c].stage \in {"reading", "sent"})
    BY <1>4, <2>2, <2>5 DEF Refreshes, QuietRefresh
  <2>6. ASSUME NEW c \in Call, NEW s \in Token, Refreshes(P, c, s), P[c].stage \notin {"reading", "sent"}
        PROVE  Refreshes(P2, c, s)
    BY <1>2, <2>6, NoWorkFields DEF Refreshes, QuietMove, QuietRefresh, ShapeOK
  <2>7. \A c \in Call : Fresh(P2, c) => Fresh(P, c) /\ P2[c].next = P[c].next
    BY <1>2, NoWorkFields DEF Fresh, QuietMove, QuietRefresh, TakesFrom, ShapeOK
  <2>8. \A c \in Call : P[c].next \in MaybeSession
    BY <1>2, RecordFields
  <2>9. ASSUME NEW s \in Token, Used(T, U2, s), ~Used(T, U, s)
        PROVE  \E c \in Call : Refreshes(P, c, s) /\ Refreshes(P2, c, s) /\ P2[c].stage \notin {"reading", "sent"}
    BY <2>9 DEF Used, Quiet, GivenUp
  <2>10. \A c, d \in Call, s \in Token : Refreshes(P2, c, s) /\ Refreshes(P2, d, s) => c = d
    BY <2>1, <2>5 DEF ReplayOK
  <2>11. ASSUME NEW c \in Call, L2 \in Token, Refreshes(P2, c, L2)
         PROVE  F = c /\ ~P2[c].stale /\ P2[c].stage # "writing"
    <3>1. L = L2 /\ Refreshes(P, c, L)
      BY <2>4, <2>5, <2>11
    <3>2. F = c /\ ~P[c].stale /\ P[c].stage # "writing"
      BY <2>1, <2>11, <3>1 DEF ReplayOK
    <3>3. QED
      BY <1>3, <1>6, <3>1, <3>2 DEF Refreshes
  <2>12. ASSUME NEW c \in Call, Fresh(P2, c)
         PROVE  /\ L2 # P2[c].next /\ ~Used(T, U2, P2[c].next)
                /\ \A d \in Call : ~Refreshes(P2, d, P2[c].next)
                /\ \A d \in Call : Fresh(P2, d) /\ P2[d].next = P2[c].next => c = d
    <3>1. Fresh(P, c) /\ P2[c].next = P[c].next /\ P[c].next \in Token
      BY <2>7, <2>8, <2>12 DEF Fresh
    <3>2. /\ L # P[c].next /\ ~Used(T, U, P[c].next)
          /\ \A d \in Call : ~Refreshes(P, d, P[c].next)
          /\ \A d \in Call : Fresh(P, d) /\ P[d].next = P[c].next => c = d
      BY <2>1, <3>1 DEF ReplayOK
    <3>3. QED
      BY <2>4, <2>5, <2>7, <2>9, <3>1, <3>2
  <2>13. ASSUME NEW s \in Token, Used(T, U2, s)
         PROVE  /\ \A c \in Call : Refreshes(P2, c, s) => P2[c].stage \notin {"reading", "sent"}
                /\ L2 = s => \E c \in Call : Refreshes(P2, c, s)
    <3>1. CASE Used(T, U, s)
      <4>1. /\ \A c \in Call : Refreshes(P, c, s) => P[c].stage \notin {"reading", "sent"}
            /\ L = s => \E c \in Call : Refreshes(P, c, s)
        BY <2>1, <3>1 DEF ReplayOK
      <4>2. QED
        BY <2>4, <2>5, <2>6, <4>1
    <3>2. CASE ~Used(T, U, s)
      BY <2>9, <2>10, <2>13, <3>2
    <3>3. QED
      BY <3>1, <3>2
  <2>14. QED
    BY <2>3, <2>10, <2>11, <2>12, <2>13 DEF ReplayOK
<1>16. QED
  BY <1>8, <1>9, <1>10, <1>14, <1>15 DEF Good, Client

-----------------------------------------------------------------------------
(* A refresh begins, and reads what is loaded.                             *)

Changes(P, P2, c) ==
  /\ P2 \in [Call -> CallRecord] /\ ShapeOK(P2[c])
  /\ \A d \in Call : d # c => P2[d] = P[d]

Starts(P, L, P2, L2, c) ==
  /\ Changes(P, P2, c) /\ P[c] = NoWork
  /\ P2[c].kind = "refresh" /\ P2[c].stage = "reading"
  /\ P2[c].session = L2 /\ P2[c].next = NoSession /\ ~P2[c].stale
  /\ \/ L = Unread /\ L2 = Reading
     \/ L # Unread /\ L2 = L

LEMMA StartStep ==
  ASSUME NEW T, NEW P, NEW L, NEW Q, NEW S, NEW U, NEW K, NEW O, NEW E,
         Good(T, P, L, NoCall, Q, S, U, K, O, E, NoCall),
         NEW P2, NEW L2, NEW c \in Call, Starts(P, L, P2, L2, c)
  PROVE  Good(T, P2, L2, c, Q, S, U, K, O, E, NoCall)
<1> USE ConstantFacts
<1>1. MemoryOK(P, L, NoCall, S) /\ QueueOK(P, L, Q, NoCall) /\ LeavingOK(P, L, Q, NoCall)
  BY DEF Good, Client
<1>2. P[c].kind = "none" /\ P[c].stage = "idle"
  BY NoWorkFields DEF Starts
<1>3. \A d \in Call : d # c => P2[d] = P[d]
  BY DEF Starts, Changes
<1>4. /\ P2[c].kind = "refresh" /\ P2[c].stage = "reading" /\ P2[c].session = L2
      /\ P2[c].next = NoSession /\ ~P2[c].stale
  BY DEF Starts
<1>5. L2 = L \/ (L = Unread /\ L2 = Reading)
  BY DEF Starts
<1>6. MemoryOK(P2, L2, c, S)
  BY <1>1, <1>3, <1>4, <1>5 DEF MemoryOK, Starts, Changes
<1>7. \A i \in 1..Len(Q) : Q[i].by \in Call \cup {NoCall} /\ Q[i].by # c
  BY <1>1, <1>2, WriteFields DEF QueueOK
<1>8. QueueOK(P2, L2, Q, NoCall)
  BY <1>1, <1>2, <1>3, <1>4, <1>5, <1>7 DEF QueueOK
<1>9. LeavingOK(P2, L2, Q, NoCall)
  BY <1>1, <1>2, <1>3, <1>4, <1>5, <1>7 DEF LeavingOK, Leaving, Current
<1>10. NothingNew(P, L, Q, S, P2, L2, Q, S)
  <2>1. \A t \in Token : L2 = t => L = t
    BY <1>5
  <2>2. QED
    BY <1>3, <1>4, <2>1 DEF NothingNew, Held, InMemory, Arriving, Current
<1>11. NoNewLogout(P, P2)
  BY <1>3, <1>4 DEF NoNewLogout
<1>12. /\ RowsOK(T, P2, L2, Q, S, U, E) /\ (O => OutOK(P2, L2, Q, S))
       /\ GoneOK(T, P2, L2, Q, S, E)
  <2>1. RowsOK(T, P, L, Q, S, U, E) /\ (O => OutOK(P, L, Q, S)) /\ GoneOK(T, P, L, Q, S, E)
    BY DEF Good
  <2>2. U \in SUBSET Token
    BY <2>1 DEF RowsOK
  <2>3. QED
    BY <1>10, <1>11, <2>1, <2>2, NothingNewKeeps
<1>13. ASSUME ~K PROVE ReplayOK(T, P2, L2, c, S, U)
  <2>1. ReplayOK(T, P, L, NoCall, S, U)
    BY <1>13 DEF Good
  <2>2. \A d \in Call : L \in Token => ~Refreshes(P, d, L)
    BY <2>1 DEF ReplayOK
  <2>3. L \in Token => ~Used(T, U, L)
    BY <2>1, <2>2 DEF ReplayOK
  <2>4. \A d \in Call, s \in Token : Refreshes(P2, d, s) => IF d = c THEN s = L ELSE Refreshes(P, d, s)
    BY <1>3, <1>4, <1>5 DEF Refreshes
  <2>5. \A d \in Call, s \in Token : Refreshes(P, d, s) => d # c /\ Refreshes(P2, d, s)
    BY <1>2, <1>3 DEF Refreshes
  <2>6. \A d \in Call : Fresh(P2, d) => d # c /\ Fresh(P, d) /\ P2[d].next = P[d].next
    BY <1>3, <1>4 DEF Fresh
  <2>7. \A d \in Call : P[d].next \in MaybeSession
    BY <1>1, RecordFields DEF MemoryOK
  <2>8. L2 \in {Unread, Reading} \/ (\E d \in Call : P2[d].session = Reading) => S = NoSession
    BY <1>3, <1>4, <1>5, <2>1 DEF ReplayOK
  <2>9. \A d, e \in Call, s \in Token : Refreshes(P2, d, s) /\ Refreshes(P2, e, s) => d = e
    BY <2>1, <2>2, <2>4 DEF ReplayOK
  <2>10. \A d \in Call : L2 \in Token /\ Refreshes(P2, d, L2) => c = d /\ ~P2[d].stale /\ P2[d].stage # "writing"
    BY <1>4, <1>5, <2>2, <2>4
  <2>11. ASSUME NEW d \in Call, Fresh(P2, d)
         PROVE  /\ L2 # P2[d].next /\ ~Used(T, U, P2[d].next)
                /\ \A e \in Call : ~Refreshes(P2, e, P2[d].next)
                /\ \A e \in Call : Fresh(P2, e) /\ P2[e].next = P2[d].next => d = e
    <3>1. Fresh(P, d) /\ P2[d].next = P[d].next /\ P[d].next \in Token
      BY <2>6, <2>7, <2>11 DEF Fresh
    <3>2. /\ L # P[d].next /\ ~Used(T, U, P[d].next)
          /\ \A e \in Call : ~Refreshes(P, e, P[d].next)
          /\ \A e \in Call : Fresh(P, e) /\ P[e].next = P[d].next => d = e
      BY <2>1, <3>1 DEF ReplayOK
    <3>3. QED
      BY <1>5, <2>4, <2>6, <3>1, <3>2
  <2>12. ASSUME NEW s \in Token, Used(T, U, s)
         PROVE  /\ \A d \in Call : Refreshes(P2, d, s) => P2[d].stage \notin {"reading", "sent"}
                /\ L2 = s => \E d \in Call : Refreshes(P2, d, s)
    <3>1. s # L
      BY <2>3, <2>12
    <3>2. \A d \in Call : Refreshes(P, d, s) => P[d].stage \notin {"reading", "sent"}
      BY <2>1, <2>12 DEF ReplayOK
    <3>3. QED
      BY <1>3, <1>5, <2>4, <3>1, <3>2
  <2>13. QED
    BY <2>8, <2>9, <2>10, <2>11, <2>12 DEF ReplayOK
<1>14. QED
  BY <1>6, <1>8, <1>9, <1>12, <1>13 DEF Good, Client

-----------------------------------------------------------------------------
(* What was loaded is dropped and storage is to be cleared, for c or for   *)
(* nobody; every other call is outdated.                                   *)

LEMMA AppendedEntry ==
  ASSUME NEW Q \in Seq(Write), NEW s \in MaybeSession, NEW c \in Call \cup {NoCall}
  PROVE  LET R == Append(Q, Entry(s, c)) IN
         /\ R \in Seq(Write) /\ Len(R) = Len(Q) + 1 /\ Len(Q) \in Nat /\ R # <<>>
         /\ R[Len(Q) + 1].session = s /\ R[Len(Q) + 1].by = c
         /\ \A i \in 1..Len(Q) : R[i] = Q[i]
<1>1. Entry(s, c) \in Write
  BY DEF Entry, Write
<1>2. Entry(s, c).session = s /\ Entry(s, c).by = c
  BY DEF Entry
<1> DEFINE w == Entry(s, c)
<1> HIDE DEF w
<1>3. /\ Append(Q, w) \in Seq(Write) /\ Len(Append(Q, w)) = Len(Q) + 1 /\ Len(Q) \in Nat
      /\ Append(Q, w)[Len(Q) + 1] = w /\ \A i \in 1..Len(Q) : Append(Q, w)[i] = Q[i]
  BY <1>1, AppendProperties, LenProperties DEF w
<1>4. Append(Q, w) # <<>>
  BY <1>3, EmptySeq
<1>5. QED
  BY <1>2, <1>3, <1>4 DEF w

OutdatedCopy(r, r2) ==
  /\ ShapeOK(r2) /\ r2.kind = r.kind /\ r2.stage = r.stage /\ r2.session = r.session
  /\ r2.next = r.next /\ r2.clearing = r.clearing /\ (r.kind # "none" => r2.stale)

BeginsToClear(r, r2) ==
  /\ ShapeOK(r2) /\ r2.stage = "writing" /\ r2.clearing /\ r2.next = NoSession
  /\ \/ r2.kind = "refresh" /\ r.kind = "refresh" /\ ~r.stale /\ ~r2.stale /\ r2.session = r.session
     \/ r2.kind = "login" /\ r = NoWork /\ r2.session = NoSession
     \/ r2.kind = "logout" /\ r.kind = "logout" /\ r2.session = r.session

Clears(P, F, P2, F2, c, x) ==
  /\ P2 \in [Call -> CallRecord] /\ F2 \in {F, NoCall}
  /\ \A d \in Call : d # c => OutdatedCopy(P[d], P2[d])
  /\ c # NoCall => c \in Call /\ BeginsToClear(P[c], P2[c])
  /\ x = c \/ (x = NoCall /\ P[c].stage # "writing")

LEMMA ClearStep ==
  ASSUME NEW T, NEW P, NEW L, NEW F, NEW Q, NEW S, NEW U, NEW K, NEW O, NEW E, NEW x,
         Good(T, P, L, F, Q, S, U, K, O, E, x),
         NEW P2, NEW F2, NEW c \in Call \cup {NoCall}, Clears(P, F, P2, F2, c, x)
  PROVE  Good(T, P2, NoSession, F2, Append(Q, Entry(NoSession, c)), S, U, K, O, E, NoCall)
<1> USE ConstantFacts
<1> DEFINE R == Append(Q, Entry(NoSession, c))
<1>1. MemoryOK(P, L, F, S) /\ QueueOK(P, L, Q, x) /\ LeavingOK(P, L, Q, x)
  BY DEF Good, Client
<1>2. /\ R \in Seq(Write) /\ Len(R) = Len(Q) + 1 /\ Len(Q) \in Nat
      /\ R[Len(Q) + 1].session = NoSession /\ R[Len(Q) + 1].by = c
      /\ \A i \in 1..Len(Q) : R[i] = Q[i]
  BY <1>1, AppendedEntry DEF QueueOK
<1> HIDE DEF R
<1>3. \A d \in Call : d # c => OutdatedCopy(P[d], P2[d])
  BY DEF Clears
<1>4. c # NoCall => c \in Call /\ BeginsToClear(P[c], P2[c])
  BY DEF Clears
<1>5. \A d \in Call : ShapeOK(P[d]) /\ ShapeOK(P2[d])
  BY <1>1, <1>3, <1>4 DEF MemoryOK, OutdatedCopy, BeginsToClear
<1>6. \A d \in Call : d # c => P2[d].kind = "none" \/ P2[d].stale
  BY <1>3 DEF OutdatedCopy
<1>7. MemoryOK(P2, NoSession, F2, S)
  BY <1>1, <1>3, <1>4, <1>5, NoWorkFields DEF MemoryOK, Clears, OutdatedCopy, BeginsToClear
<1>8. \A i \in 1..Len(Q) : Q[i].by \in Call \cup {NoCall} /\ (Q[i].by # NoCall => Q[i].by # c)
  BY <1>1, WriteFields DEF QueueOK, Clears
<1>9. \A i \in 1..Len(R) : i \in 1..Len(Q) \/ i = Len(Q) + 1
  BY <1>2
<1>10. QueueOK(P2, NoSession, R, NoCall)
  <2>1. ASSUME NEW i \in 1..Len(R), R[i].by # NoCall
        PROVE  P2[R[i].by].stage = "writing" /\ R[i].session = P2[R[i].by].next
    <3>1. CASE i = Len(Q) + 1
      BY <1>2, <1>4, <2>1, <3>1 DEF BeginsToClear
    <3>2. CASE i \in 1..Len(Q)
      BY <1>1, <1>2, <1>3, <1>8, <2>1, <3>2 DEF QueueOK, OutdatedCopy
    <3>3. QED
      BY <1>9, <3>1, <3>2
  <2>2. \A i \in 1..Len(R) : R[i].by = NoCall => R[i].session = NoSession
    BY <1>1, <1>2, <1>9 DEF QueueOK
  <2>3. ASSUME NEW d \in Call, P2[d].stage = "writing"
        PROVE  \E i \in 1..Len(R) : R[i].by = d
    <3>1. CASE d = c
      BY <1>2, <3>1
    <3>2. CASE d # c
      <4>1. P[d].stage = "writing" /\ d # x
        BY <1>3, <2>3, <3>2 DEF OutdatedCopy, Clears
      <4>2. PICK i \in 1..Len(Q) : Q[i].by = d
        BY <1>1, <4>1 DEF QueueOK
      <4>3. QED
        BY <1>2, <4>2
    <3>3. QED
      BY <3>1, <3>2
  <2>4. ASSUME NEW h \in 1..Len(R), NEW i \in 1..Len(R), R[h].by = R[i].by, R[h].by # NoCall
        PROVE  h = i
    BY <1>1, <1>2, <1>8, <1>9, <2>4 DEF QueueOK
  <2>5. QED
    BY <1>2, <2>1, <2>2, <2>3, <2>4 DEF QueueOK
<1>11. LeavingOK(P2, NoSession, R, NoCall)
  <2>1. SUFFICES ASSUME NEW e \in Call, Leaving(P2, e)
                 PROVE  /\ \A d \in Call : Current(P2, d, "refresh") => P2[d].session = NoSession /\ P2[d].next = NoSession
                        /\ \A d \in Call : Current(P2, d, "login") => P2[d].stage = "writing" /\ P2[d].clearing /\ d # NoCall
                        /\ \A h, i \in 1..Len(R) : R[h].by = e /\ h < i => R[i].session = NoSession
                        /\ \A h, i \in 1..Len(R) : R[h].by = e /\ R[i].by # NoCall /\ i < h => ~Current(P2, R[i].by, "login")
                        /\ e = NoCall => \A i \in 1..Len(R) : R[i].session = NoSession
    BY DEF LeavingOK
  <2>2. e # c => Leaving(P, e)
    BY <1>3, <2>1 DEF Leaving, OutdatedCopy
  <2>3. \A d \in Call : Current(P2, d, "refresh") \/ Current(P2, d, "login") => d = c
    BY <1>6 DEF Current
  <2>4. ASSUME NEW d \in Call, Current(P2, d, "refresh")
        PROVE  P2[d].session = NoSession /\ P2[d].next = NoSession
    <3>1. d = c /\ e # c
      BY <2>1, <2>3, <2>4 DEF Current, Leaving
    <3>2. Current(P, c, "refresh") /\ P2[c].session = P[c].session /\ P2[c].next = NoSession
      BY <1>4, <2>4, <3>1 DEF Current, BeginsToClear
    <3>3. QED
      BY <1>1, <2>2, <3>1, <3>2 DEF LeavingOK
  <2>5. \A d \in Call : Current(P2, d, "login") => P2[d].stage = "writing" /\ P2[d].clearing
    BY <1>4, <2>3 DEF BeginsToClear
  <2>6. ASSUME NEW h \in 1..Len(R), NEW i \in 1..Len(R), R[h].by = e, h < i
        PROVE  R[i].session = NoSession
    <3>1. CASE i = Len(Q) + 1
      BY <1>2, <3>1
    <3>2. CASE i \in 1..Len(Q)
      <4>1. h \in 1..Len(Q) /\ R[h] = Q[h] /\ R[i] = Q[i]
        BY <1>2, <1>9, <2>6, <3>2
      <4>2. e # c
        BY <1>8, <2>6, <4>1
      <4>3. QED
        BY <1>1, <2>2, <2>6, <4>1, <4>2, <3>2 DEF LeavingOK
    <3>3. QED
      BY <1>9, <3>1, <3>2
  <2>7. ASSUME NEW h \in 1..Len(R), NEW i \in 1..Len(R), R[h].by = e, R[i].by # NoCall, i < h
        PROVE  ~Current(P2, R[i].by, "login")
    <3>1. i \in 1..Len(Q) /\ R[i] = Q[i]
      BY <1>2, <1>9, <2>7
    <3>2. QED
      BY <1>8, <2>3, <2>7, <3>1
  <2>8. QED
    BY <2>4, <2>5, <2>6, <2>7
<1>12. \A t \in Token : \A i \in 1..Len(R) : R[i].session = t => \E h \in 1..Len(Q) : Q[h].session = t
  BY <1>2, <1>9
<1>13. NothingNew(P, L, Q, S, P2, NoSession, R, S)
  <2>1. ASSUME NEW t \in Token, NEW d \in Call, P2[d].session = t \/ P2[d].next = t
        PROVE  P[d].session = t \/ P[d].next = t
    BY <1>3, <1>4, <2>1 DEF OutdatedCopy, BeginsToClear
  <2>2. ASSUME NEW t \in Token, NEW d \in Call, Current(P2, d, "refresh"), P2[d].session = t \/ P2[d].next = t
        PROVE  Current(P, d, "refresh") /\ (P[d].session = t \/ P[d].next = t)
    BY <1>3, <1>4, <1>6, <2>1, <2>2 DEF Current, BeginsToClear
  <2>3. ASSUME NEW t \in Token, NEW d \in Call, Current(P2, d, "login"), P2[d].next = t
        PROVE  FALSE
    BY <1>4, <1>6, <2>3 DEF Current, BeginsToClear
  <2>4. QED
    BY <1>12, <2>1, <2>2, <2>3 DEF NothingNew, Held, InMemory, Arriving
<1>14. NoNewLogout(P, P2)
  BY <1>3, <1>4 DEF NoNewLogout, OutdatedCopy, BeginsToClear
<1>15. /\ RowsOK(T, P2, NoSession, R, S, U, E) /\ (O => OutOK(P2, NoSession, R, S))
       /\ GoneOK(T, P2, NoSession, R, S, E)
  <2>1. RowsOK(T, P, L, Q, S, U, E) /\ (O => OutOK(P, L, Q, S)) /\ GoneOK(T, P, L, Q, S, E)
    BY DEF Good
  <2>2. U \in SUBSET Token
    BY <2>1 DEF RowsOK
  <2>3. QED
    BY <1>13, <1>14, <2>1, <2>2, NothingNewKeeps
<1>16. ASSUME ~K PROVE ReplayOK(T, P2, NoSession, F2, S, U)
  <2>1. ReplayOK(T, P, L, F, S, U)
    BY <1>16 DEF Good
  <2>2. \A d \in Call : P2[d].session = Reading => P[d].session = Reading
    BY <1>3, <1>4 DEF OutdatedCopy, BeginsToClear
  <2>3. ASSUME NEW d \in Call, NEW s \in Token, Refreshes(P2, d, s)
        PROVE  /\ Refreshes(P, d, s)
               /\ P2[d].stage \in {"reading", "sent"} => P[d].stage \in {"reading", "sent"}
    BY <1>3, <1>4, <2>3 DEF Refreshes, OutdatedCopy, BeginsToClear
  <2>4. \A d \in Call : Fresh(P2, d) => Fresh(P, d) /\ P2[d].next = P[d].next
    BY <1>3, <1>4 DEF Fresh, OutdatedCopy, BeginsToClear
  <2>5. \A d \in Call : P[d].next \in MaybeSession
    BY <1>5, RecordFields DEF ShapeOK
  <2>6. ASSUME NEW d \in Call, Fresh(P2, d)
        PROVE  /\ NoSession # P2[d].next /\ ~Used(T, U, P2[d].next)
               /\ \A e \in Call : ~Refreshes(P2, e, P2[d].next)
               /\ \A e \in Call : Fresh(P2, e) /\ P2[e].next = P2[d].next => d = e
    <3>1. Fresh(P, d) /\ P2[d].next = P[d].next /\ P[d].next \in Token
      BY <2>4, <2>5, <2>6 DEF Fresh
    <3>2. /\ ~Used(T, U, P[d].next)
          /\ \A e \in Call : ~Refreshes(P, e, P[d].next)
          /\ \A e \in Call : Fresh(P, e) /\ P[e].next = P[d].next => d = e
      BY <2>1, <3>1 DEF ReplayOK
    <3>3. QED
      BY <2>3, <2>4, <3>1, <3>2
  <2>7. ASSUME NEW s \in Token, Used(T, U, s)
        PROVE  \A d \in Call : Refreshes(P2, d, s) => P2[d].stage \notin {"reading", "sent"}
    <3>1. \A d \in Call : Refreshes(P, d, s) => P[d].stage \notin {"reading", "sent"}
      BY <2>1, <2>7 DEF ReplayOK
    <3>2. QED
      BY <2>3, <3>1
  <2>8. \A d, e \in Call, s \in Token : Refreshes(P2, d, s) /\ Refreshes(P2, e, s) => d = e
    BY <2>1, <2>3 DEF ReplayOK
  <2>9. (\E d \in Call : P2[d].session = Reading) => S = NoSession
    BY <2>1, <2>2 DEF ReplayOK
  <2>10. QED
    BY <2>6, <2>7, <2>8, <2>9 DEF ReplayOK
<1>17. QED
  BY <1>7, <1>10, <1>11, <1>15, <1>16 DEF Good, Client, R

-----------------------------------------------------------------------------
(* A refresh ends, and with it the waiting of the fetches that joined it.  *)

Ends(P, P2, c) ==
  /\ P2 \in [Call -> CallRecord] /\ P2[c] = NoWork
  /\ \A d \in Call : ShapeOK(P2[d])
  /\ \A d \in Call : d # c =>
       \/ P2[d] = P[d]
       \/ P[d].kind = "fetch" /\ P2[d] = NoWork
       \/ /\ P[d].kind = "fetch" /\ P2[d].kind = "fetch"
          /\ P2[d].session = P[d].session /\ P2[d].next \in {P[c].next, NoSession}

LEMMA EndStep ==
  ASSUME NEW T, NEW P, NEW L, NEW F, NEW Q, NEW S, NEW U, NEW K, NEW O, NEW E, NEW x,
         Good(T, P, L, F, Q, S, U, K, O, E, x),
         NEW P2, NEW F2, NEW c \in Call, P[c].kind = "refresh", Ends(P, P2, c),
         x = c \/ (x = NoCall /\ P[c].stale /\ P[c].stage # "writing"),
         F2 = IF F = c THEN NoCall ELSE F
  PROVE  Good(T, P2, L, F2, Q, S, U, K, O, E, NoCall)
<1> USE ConstantFacts
<1>1. MemoryOK(P, L, F, S) /\ QueueOK(P, L, Q, x) /\ LeavingOK(P, L, Q, x)
  BY DEF Good, Client
<1>2. \A d \in Call : ShapeOK(P[d]) /\ ShapeOK(P2[d])
  BY <1>1 DEF MemoryOK, Ends
<1>3. P2[c].kind = "none" /\ P2[c].stage = "idle" /\ P2[c].session = NoSession /\ P2[c].next = NoSession
  BY NoWorkFields DEF Ends
<1>4. \A d \in Call : P2[d].kind \notin {"none", "fetch"} => d # c /\ P2[d] = P[d]
  BY <1>3, NoWorkFields DEF Ends
<1>5. \A d \in Call : d # c /\ P[d].kind # "fetch" => P2[d] = P[d]
  BY DEF Ends
<1>6. \A d \in Call : P2[d].stage = "writing" => d # c /\ P2[d] = P[d]
  BY <1>2, <1>4, NoWorkFields DEF ShapeOK
<1>7. \A d \in Call : d # c /\ P[d].stage = "writing" => P2[d] = P[d]
  BY <1>2, <1>5 DEF ShapeOK
<1>8. \A i \in 1..Len(Q) : Q[i].by \in Call \cup {NoCall} /\ (Q[i].by # NoCall => Q[i].by # c)
  BY <1>1, WriteFields DEF QueueOK
<1>9. MemoryOK(P2, L, F2, S)
  <2>1. F2 # NoCall => F2 = F /\ F # c /\ F \in Call /\ P2[F].kind = "refresh"
    BY <1>1, <1>5 DEF MemoryOK
  <2>2. QED
    BY <1>1, <1>2, <2>1 DEF MemoryOK, Ends
<1>10. QueueOK(P2, L, Q, NoCall)
  BY <1>1, <1>6, <1>7, <1>8 DEF QueueOK
<1>11. LeavingOK(P2, L, Q, NoCall)
  BY SMTT(40), SMTT(80), <1>1, <1>4, <1>8 DEF LeavingOK, Leaving, Current
<1>12. NothingNew(P, L, Q, S, P2, L, Q, S)
  <2>1. ASSUME NEW t \in Token, NEW d \in Call, P2[d].session = t \/ P2[d].next = t
        PROVE  \E e \in Call : P[e].session = t \/ P[e].next = t
    BY <1>3, <2>1, NoWorkFields DEF Ends
  <2>2. QED
    BY <1>4, <2>1 DEF NothingNew, Held, InMemory, Arriving, Current
<1>13. NoNewLogout(P, P2)
  BY <1>4 DEF NoNewLogout
<1>14. /\ RowsOK(T, P2, L, Q, S, U, E) /\ (O => OutOK(P2, L, Q, S))
       /\ GoneOK(T, P2, L, Q, S, E)
  <2>1. RowsOK(T, P, L, Q, S, U, E) /\ (O => OutOK(P, L, Q, S)) /\ GoneOK(T, P, L, Q, S, E)
    BY DEF Good
  <2>2. U \in SUBSET Token
    BY <2>1 DEF RowsOK
  <2>3. QED
    BY <1>12, <1>13, <2>1, <2>2, NothingNewKeeps
<1>15. ASSUME ~K PROVE ReplayOK(T, P2, L, F2, S, U)
  <2>1. ReplayOK(T, P, L, F, S, U)
    BY <1>15 DEF Good
  <2>2. ASSUME NEW d \in Call, P2[d].session = Reading
        PROVE  \E e \in Call : P[e].session = Reading
    BY <1>3, <2>2, NoWorkFields DEF Ends
  <2>3. \A d \in Call, s \in Token : Refreshes(P2, d, s) => d # c /\ P2[d] = P[d] /\ Refreshes(P, d, s)
    BY <1>4 DEF Refreshes
  <2>4. \A d \in Call, s \in Token : Refreshes(P, d, s) /\ d # c => Refreshes(P2, d, s)
    BY <1>5 DEF Refreshes
  <2>5. \A d \in Call : Fresh(P2, d) => P2[d] = P[d] /\ Fresh(P, d)
    BY <1>2, <1>4, NoWorkFields DEF Fresh, ShapeOK
  <2>6. L \in Token => ~Refreshes(P, c, L)
    BY <1>1, <2>1 DEF ReplayOK, QueueOK
  <2>7. \A d \in Call : P[d].next \in MaybeSession
    BY <1>2, RecordFields DEF ShapeOK
  <2>8. L \in {Unread, Reading} \/ (\E d \in Call : P2[d].session = Reading) => S = NoSession
    BY <2>1, <2>2 DEF ReplayOK
  <2>9. \A d, e \in Call, s \in Token : Refreshes(P2, d, s) /\ Refreshes(P2, e, s) => d = e
    BY <2>1, <2>3 DEF ReplayOK
  <2>10. ASSUME NEW d \in Call, L \in Token, Refreshes(P2, d, L)
         PROVE  F2 = d /\ ~P2[d].stale /\ P2[d].stage # "writing"
    BY <2>1, <2>3, <2>10 DEF ReplayOK
  <2>11. ASSUME NEW d \in Call, Fresh(P2, d)
         PROVE  /\ L # P2[d].next /\ ~Used(T, U, P2[d].next)
                /\ \A e \in Call : ~Refreshes(P2, e, P2[d].next)
                /\ \A e \in Call : Fresh(P2, e) /\ P2[e].next = P2[d].next => d = e
    <3>1. Fresh(P, d) /\ P2[d].next = P[d].next /\ P[d].next \in Token
      BY <2>5, <2>7, <2>11 DEF Fresh
    <3>2. /\ L # P[d].next /\ ~Used(T, U, P[d].next)
          /\ \A e \in Call : ~Refreshes(P, e, P[d].next)
          /\ \A e \in Call : Fresh(P, e) /\ P[e].next = P[d].next => d = e
      BY <2>1, <3>1 DEF ReplayOK
    <3>3. QED
      BY <2>3, <2>5, <3>1, <3>2
  <2>12. ASSUME NEW s \in Token, Used(T, U, s)
         PROVE  /\ \A d \in Call : Refreshes(P2, d, s) => P2[d].stage \notin {"reading", "sent"}
                /\ L = s => \E d \in Call : Refreshes(P2, d, s)
    <3>1. /\ \A d \in Call : Refreshes(P, d, s) => P[d].stage \notin {"reading", "sent"}
          /\ L = s => \E d \in Call : Refreshes(P, d, s)
      BY <2>1, <2>12 DEF ReplayOK
    <3>2. QED
      BY <2>3, <2>4, <2>6, <3>1
  <2>13. QED
    BY <2>8, <2>9, <2>10, <2>11, <2>12 DEF ReplayOK
<1>16. QED
  BY <1>9, <1>10, <1>11, <1>14, <1>15 DEF Good, Client

-----------------------------------------------------------------------------
(* The first write is over: its call has not gone on yet.                  *)

LEMMA TailEntries ==
  ASSUME NEW Q \in Seq(Write), Q # <<>>
  PROVE  /\ Tail(Q) \in Seq(Write) /\ Len(Tail(Q)) = Len(Q) - 1 /\ Len(Q) \in Nat /\ Len(Q) > 0
         /\ Head(Q) = Q[1] /\ \A i \in 1..Len(Tail(Q)) : Tail(Q)[i] = Q[i+1]
  BY HeadTailProperties, EmptySeq, LenProperties

LEMMA PopStep ==
  ASSUME NEW T, NEW P, NEW L, NEW F, NEW Q, NEW S, NEW U, NEW K, NEW O, NEW E,
         Good(T, P, L, F, Q, S, U, K, O, E, NoCall),
         Q # <<>>, \A c \in Call : P[c].session # Reading,
         NEW S2 \in {S, Head(Q).session}
  PROVE  /\ Good(T, P, L, F, Tail(Q), S2, U, K, O, E, Head(Q).by)
         /\ Head(Q).session \in MaybeSession /\ Head(Q).by \in Call \cup {NoCall}
         /\ Head(Q).by = NoCall => Head(Q).session = NoSession
         /\ Head(Q).by # NoCall => P[Head(Q).by].stage = "writing" /\ Head(Q).session = P[Head(Q).by].next
<1> USE ConstantFacts
<1> DEFINE R == Tail(Q)  w == Head(Q)  x == w.by
<1>1. MemoryOK(P, L, F, S) /\ QueueOK(P, L, Q, NoCall) /\ LeavingOK(P, L, Q, NoCall)
  BY DEF Good, Client
<1>2. /\ R \in Seq(Write) /\ Len(R) = Len(Q) - 1 /\ Len(Q) \in Nat /\ Len(Q) > 0
      /\ w = Q[1] /\ \A i \in 1..Len(R) : R[i] = Q[i+1]
  BY <1>1, TailEntries DEF QueueOK
<1> HIDE DEF R, w
<1>3. 1 \in 1..Len(Q) /\ \A i \in 1..Len(R) : i+1 \in 1..Len(Q) /\ i+1 > 1
  BY <1>2
<1>4. \A i \in 1..Len(Q) : Q[i].by \in Call \cup {NoCall} /\ Q[i].session \in MaybeSession
  BY <1>1, WriteFields DEF QueueOK
<1>5. /\ x \in Call \cup {NoCall} /\ w.session \in MaybeSession
      /\ x = NoCall => w.session = NoSession
      /\ x # NoCall => P[x].stage = "writing" /\ w.session = P[x].next
  BY <1>1, <1>2, <1>3, <1>4 DEF QueueOK
<1>6. MemoryOK(P, L, F, S2)
  BY <1>1, <1>5 DEF MemoryOK, w
<1>7. \A i \in 1..Len(Q) : i = 1 \/ (i-1 \in 1..Len(R) /\ R[i-1] = Q[i])
  BY <1>2
<1>8. L \notin {Unread, Reading}
  BY <1>1 DEF QueueOK
<1>9. QueueOK(P, L, R, x)
  <2>1. ASSUME NEW i \in 1..Len(R), R[i].by # NoCall
        PROVE  R[i].by # x /\ P[R[i].by].stage = "writing" /\ R[i].session = P[R[i].by].next
    <3>1. i+1 \in 1..Len(Q) /\ R[i] = Q[i+1] /\ i+1 # 1 /\ w = Q[1]
      BY <1>2, <1>3
    <3>2. Q[i+1].by # Q[1].by
      BY <1>1, <1>3, <2>1, <3>1 DEF QueueOK
    <3>3. QED
      BY <1>1, <2>1, <3>1, <3>2 DEF QueueOK
  <2>2. \A i \in 1..Len(R) : R[i].by = NoCall => R[i].session = NoSession
    BY SMTT(40), SMTT(80), <1>1, <1>2, <1>3 DEF QueueOK
  <2>3. ASSUME NEW c \in Call, P[c].stage = "writing", c # x
        PROVE  \E i \in 1..Len(R) : R[i].by = c
    <3>1. PICK i \in 1..Len(Q) : Q[i].by = c
      BY <1>1, <2>3 DEF QueueOK
    <3>2. QED
      BY <1>2, <1>7, <2>3, <3>1
  <2>4. \A h, i \in 1..Len(R) : R[h].by = R[i].by /\ R[h].by # NoCall => h+1 = i+1
    BY SMTT(40), SMTT(80), <1>1, <1>2, <1>3 DEF QueueOK
  <2>5. \A h, i \in 1..Len(R) : h+1 = i+1 => h = i
    OBVIOUS
  <2>6. QED
    BY <1>2, <1>5, <1>8, <2>1, <2>2, <2>3, <2>4, <2>5 DEF QueueOK
<1>10. LeavingOK(P, L, R, x)
  <2>1. SUFFICES ASSUME NEW c \in Call, Leaving(P, c)
                 PROVE  /\ L = NoSession
                        /\ \A d \in Call : Current(P, d, "refresh") => P[d].session = NoSession /\ P[d].next = NoSession
                        /\ \A d \in Call : Current(P, d, "login") => P[d].stage = "writing" /\ P[d].clearing /\ d # x
                        /\ \A h, i \in 1..Len(R) : R[h].by = c /\ h < i => R[i].session = NoSession
                        /\ \A h, i \in 1..Len(R) : R[h].by = c /\ R[i].by # NoCall /\ i < h => ~Current(P, R[i].by, "login")
                        /\ c = x => \A i \in 1..Len(R) : R[i].session = NoSession
    BY DEF LeavingOK
  <2>2. /\ L = NoSession
        /\ \A d \in Call : Current(P, d, "refresh") => P[d].session = NoSession /\ P[d].next = NoSession
        /\ \A d \in Call : Current(P, d, "login") => P[d].stage = "writing" /\ P[d].clearing
        /\ \A h, i \in 1..Len(Q) : Q[h].by = c /\ h < i => Q[i].session = NoSession
        /\ \A h, i \in 1..Len(Q) : Q[h].by = c /\ Q[i].by # NoCall /\ i < h => ~Current(P, Q[i].by, "login")
    BY <1>1, <2>1 DEF LeavingOK
  <2>3. ASSUME NEW d \in Call, Current(P, d, "login")
        PROVE  d # x
    <3>1. SUFFICES ASSUME d = x PROVE FALSE
      OBVIOUS
    <3>2. c # d
      BY <2>1, <2>3 DEF Current, Leaving
    <3>3. PICK h \in 1..Len(Q) : Q[h].by = c
      BY <1>1, <2>1 DEF QueueOK, Leaving
    <3>4. h # 1 /\ h > 1
      BY <1>2, <3>1, <3>2, <3>3
    <3>5. QED
      BY <1>2, <1>3, <2>2, <2>3, <3>1, <3>3, <3>4
  <2>4. \A h, i \in 1..Len(R) : h < i => h+1 < i+1
    OBVIOUS
  <2>5. \A h, i \in 1..Len(R) : R[h].by = c /\ h < i => R[i].session = NoSession
    BY SMTT(40), SMTT(80), <1>2, <1>3, <2>2, <2>4
  <2>6. ASSUME NEW h \in 1..Len(R), NEW i \in 1..Len(R), R[h].by = c, R[i].by # NoCall, i < h
        PROVE  ~Current(P, R[i].by, "login")
    <3>1. /\ i+1 \in 1..Len(Q) /\ R[i] = Q[i+1] /\ h+1 \in 1..Len(Q) /\ R[h] = Q[h+1]
          /\ i+1 < h+1
      BY <1>2, <1>3, <2>4, <2>6
    <3>2. QED
      BY <2>2, <2>6, <3>1
  <2>7. c = x => \A i \in 1..Len(R) : R[i].session = NoSession
    BY <1>2, <1>3, <2>2
  <2>8. QED
    BY <2>2, <2>3, <2>5, <2>6, <2>7
<1>11. \A t : (S2 = t => S = t \/ \E i \in 1..Len(Q) : Q[i].session = t)
             /\ ((\E i \in 1..Len(R) : R[i].session = t) => \E i \in 1..Len(Q) : Q[i].session = t)
  BY <1>2, <1>3 DEF w
<1>12. NothingNew(P, L, Q, S, P, L, R, S2)
  BY <1>11 DEF NothingNew, Held, InMemory
<1>13. NoNewLogout(P, P)
  BY DEF NoNewLogout
<1>14. /\ RowsOK(T, P, L, R, S2, U, E) /\ (O => OutOK(P, L, R, S2))
       /\ GoneOK(T, P, L, R, S2, E)
  <2>1. RowsOK(T, P, L, Q, S, U, E) /\ (O => OutOK(P, L, Q, S)) /\ GoneOK(T, P, L, Q, S, E)
    BY DEF Good
  <2>2. U \in SUBSET Token
    BY <2>1 DEF RowsOK
  <2>3. QED
    BY <1>12, <1>13, <2>1, <2>2, NothingNewKeeps
<1>15. ASSUME ~K PROVE ReplayOK(T, P, L, F, S2, U)
  <2>1. ReplayOK(T, P, L, F, S, U)
    BY <1>15 DEF Good
  <2>2. QED
    BY <1>8, <2>1 DEF ReplayOK
<1>16. Good(T, P, L, F, R, S2, U, K, O, E, x)
  BY <1>6, <1>9, <1>10, <1>14, <1>15 DEF Good, Client
<1>17. QED
  BY <1>5, <1>16 DEF R, w

-----------------------------------------------------------------------------
(* A login or a logout whose write is over ends, or goes to the server.    *)

LEMMA LogoutLeavesNothing ==
  ASSUME NEW T, NEW P, NEW L, NEW F, NEW Q, NEW S, NEW U, NEW K, NEW O, NEW E, NEW x,
         Good(T, P, L, F, Q, S, U, K, O, E, x), x # NoCall, P[x].kind = "logout", S = NoSession,
         NEW t \in Token
  PROVE  ~InMemory(P, L, Q, S, t) /\ ~Arriving(P, t)
<1> USE ConstantFacts
<1>1. /\ x \in Call /\ P[x].stage = "writing" /\ LeavingOK(P, L, Q, x)
      /\ \A d \in Call : ShapeOK(P[d])
  BY DEF Good, Client, QueueOK, MemoryOK
<1>2. /\ L = NoSession /\ \A i \in 1..Len(Q) : Q[i].session = NoSession
      /\ \A d \in Call : Current(P, d, "refresh") => P[d].session = NoSession /\ P[d].next = NoSession
      /\ \A d \in Call : Current(P, d, "login") => P[d].stage = "writing" /\ P[d].clearing
  BY <1>1 DEF LeavingOK, Leaving
<1>3. \A d \in Call : Current(P, d, "login") => P[d].next = NoSession
  BY <1>1, <1>2 DEF ShapeOK
<1>4. QED
  BY <1>2, <1>3 DEF InMemory, Arriving

Releases(P, P2, c) ==
  /\ Changes(P, P2, c)
  /\ \/ P2[c] = NoWork
     \/ /\ P2[c].kind = P[c].kind /\ P2[c].stage = "sent" /\ P2[c].stale = P[c].stale
        /\ P2[c].session = P[c].session /\ P2[c].next = P[c].next

LEMMA ReleaseStep ==
  ASSUME NEW T, NEW P, NEW L, NEW F, NEW Q, NEW S, NEW U, NEW K, NEW O, NEW E, NEW c \in Call,
         Good(T, P, L, F, Q, S, U, K, O, E, c), P[c].kind \in {"login", "logout"},
         NEW P2, Releases(P, P2, c),
         P[c].kind = "logout" => P2[c] = NoWork \/ S = NoSession
  PROVE  Good(T, P2, L, F, Q, S, U, K, O, E, NoCall)
<1> USE ConstantFacts
<1>1. MemoryOK(P, L, F, S) /\ QueueOK(P, L, Q, c) /\ LeavingOK(P, L, Q, c)
  BY DEF Good, Client
<1>2. P[c].stage = "writing" /\ \A d \in Call : ShapeOK(P[d])
  BY <1>1 DEF QueueOK, MemoryOK
<1>3. \A d \in Call : d # c => P2[d] = P[d]
  BY DEF Releases, Changes
<1>4. \/ /\ P2[c].kind = "none" /\ P2[c].stage = "idle" /\ P2[c].session = NoSession
         /\ P2[c].next = NoSession
      \/ /\ P2[c].kind = P[c].kind /\ P2[c].stage = "sent" /\ P2[c].stale = P[c].stale
         /\ P2[c].session = P[c].session /\ P2[c].next = P[c].next
  BY NoWorkFields DEF Releases
<1>5. \A i \in 1..Len(Q) : Q[i].by \in Call \cup {NoCall} /\ (Q[i].by # NoCall => Q[i].by # c)
  BY <1>1, WriteFields DEF QueueOK
<1>6. P2[c].kind # "refresh" /\ P2[c].stage # "writing" /\ (P2[c].kind = "login" => P[c].kind = "login" /\ P2[c].stale = P[c].stale)
  BY <1>4
<1>7. MemoryOK(P2, L, F, S)
  <2>1. P2 \in [Call -> CallRecord] /\ \A d \in Call : ShapeOK(P2[d])
    BY <1>2, <1>3 DEF Releases, Changes
  <2>2. F # NoCall => F # c /\ P2[F].kind = "refresh"
    BY <1>1, <1>3 DEF MemoryOK
  <2>3. QED
    BY <1>1, <2>1, <2>2 DEF MemoryOK
<1>8. QueueOK(P2, L, Q, NoCall)
  BY <1>1, <1>2, <1>3, <1>5, <1>6 DEF QueueOK
<1>9. LeavingOK(P2, L, Q, NoCall)
  <2>1. \A e \in Call : Leaving(P2, e) => e # c /\ Leaving(P, e)
    BY <1>3, <1>6 DEF Leaving
  <2>2. \A d \in Call : Current(P2, d, "refresh") => d # c /\ Current(P, d, "refresh")
    BY <1>3, <1>6 DEF Current
  <2>3. \A d \in Call : Current(P2, d, "login") => Current(P, d, "login")
    BY <1>3, <1>6 DEF Current
  <2>4. QED
    BY <1>1, <1>3, <1>5, <2>1, <2>2, <2>3 DEF LeavingOK
<1>10. NothingNew(P, L, Q, S, P2, L, Q, S)
  BY <1>3, <1>4 DEF NothingNew, Held, InMemory, Arriving, Current
<1>11. /\ RowsOK(T, P, L, Q, S, U, E) /\ (O => OutOK(P, L, Q, S)) /\ GoneOK(T, P, L, Q, S, E)
  BY DEF Good
<1>12. RowsOK(T, P2, L, Q, S, U, E) /\ (O => OutOK(P2, L, Q, S))
  BY <1>10, <1>11 DEF RowsOK, OutOK, NothingNew
<1>13. GoneOK(T, P2, L, Q, S, E)
  <2>1. \A f : Gone(T, P, L, Q, S, f) => Gone(T, P2, L, Q, S, f)
    BY <1>10 DEF Gone, NothingNew
  <2>2. ASSUME NEW d \in Call, P2[d].kind = "logout", P2[d].stage = "sent", T[P2[d].session].client = "NATIVE"
        PROVE  Gone(T, P2, L, Q, S, T[P2[d].session].family)
    <3>1. CASE d = c
      <4>1. P2[c].kind = "logout" /\ P2[c].stage = "sent"
        BY <2>2, <3>1
      <4>2. P[c].kind = "logout" /\ P2[c] # NoWork
        BY <1>4, <4>1, NoWorkFields
      <4>3. c # NoCall /\ S = NoSession
        BY <4>2
      <4>4. \A t \in Token : ~InMemory(P, L, Q, S, t) /\ ~Arriving(P, t)
        BY <4>2, <4>3, LogoutLeavesNothing
      <4>5. Gone(T, P, L, Q, S, T[P2[d].session].family)
        BY <4>4 DEF Gone
      <4>6. QED
        BY <2>1, <4>5
    <3>2. CASE d # c
      BY <1>3, <1>11, <2>1, <2>2, <3>2 DEF GoneOK
    <3>3. QED
      BY <3>1, <3>2
  <2>3. QED
    BY <1>11, <2>1, <2>2 DEF GoneOK
<1>14. ASSUME ~K PROVE ReplayOK(T, P2, L, F, S, U)
  <2>1. ReplayOK(T, P, L, F, S, U)
    BY <1>14 DEF Good
  <2>2. \A d \in Call : P2[d].session = Reading => P[d].session = Reading
    BY <1>3, <1>4
  <2>3. \A d \in Call, s \in Token : Refreshes(P2, d, s) <=> d # c /\ P2[d] = P[d] /\ Refreshes(P, d, s)
    BY <1>3, <1>6 DEF Refreshes
  <2>4. \A d \in Call, s \in Token : Refreshes(P, d, s) => d # c
    BY DEF Refreshes
  <2>5. \A d \in Call : Fresh(P2, d) => P2[d] = P[d] /\ Fresh(P, d)
    BY <1>3, <1>4 DEF Fresh
  <2>6. \A d \in Call : P[d].next \in MaybeSession
    BY <1>2, RecordFields DEF ShapeOK
  <2>7. L \in {Unread, Reading} \/ (\E d \in Call : P2[d].session = Reading) => S = NoSession
    BY <2>1, <2>2 DEF ReplayOK
  <2>8. \A d, e \in Call, s \in Token : Refreshes(P2, d, s) /\ Refreshes(P2, e, s) => d = e
    BY <2>1, <2>3 DEF ReplayOK
  <2>9. ASSUME NEW d \in Call, L \in Token, Refreshes(P2, d, L)
         PROVE  F = d /\ ~P2[d].stale /\ P2[d].stage # "writing"
    BY <2>1, <2>3, <2>9 DEF ReplayOK
  <2>10. ASSUME NEW d \in Call, Fresh(P2, d)
         PROVE  /\ L # P2[d].next /\ ~Used(T, U, P2[d].next)
                /\ \A e \in Call : ~Refreshes(P2, e, P2[d].next)
                /\ \A e \in Call : Fresh(P2, e) /\ P2[e].next = P2[d].next => d = e
    <3>1. Fresh(P, d) /\ P2[d].next = P[d].next /\ P[d].next \in Token
      BY <2>5, <2>6, <2>10 DEF Fresh
    <3>2. /\ L # P[d].next /\ ~Used(T, U, P[d].next)
          /\ \A e \in Call : ~Refreshes(P, e, P[d].next)
          /\ \A e \in Call : Fresh(P, e) /\ P[e].next = P[d].next => d = e
      BY <2>1, <3>1 DEF ReplayOK
    <3>3. QED
      BY <2>3, <2>5, <3>1, <3>2
  <2>11. ASSUME NEW s \in Token, Used(T, U, s)
         PROVE  /\ \A d \in Call : Refreshes(P2, d, s) => P2[d].stage \notin {"reading", "sent"}
                /\ L = s => \E d \in Call : Refreshes(P2, d, s)
    <3>1. /\ \A d \in Call : Refreshes(P, d, s) => P[d].stage \notin {"reading", "sent"}
          /\ L = s => \E d \in Call : Refreshes(P, d, s)
      BY <2>1, <2>11 DEF ReplayOK
    <3>2. QED
      BY <1>3, <2>3, <2>4, <3>1
  <2>12. QED
    BY <2>7, <2>8, <2>9, <2>10, <2>11 DEF ReplayOK
<1>15. QED
  BY <1>7, <1>8, <1>9, <1>12, <1>13, <1>14 DEF Good, Client

-----------------------------------------------------------------------------
(* A refresh or a login that nothing has overtaken stores its answer.      *)

Stores(P, P2, c) ==
  /\ Changes(P, P2, c) /\ P[c].stage = "answered" /\ P[c].next # NoSession /\ ~P[c].stale
  /\ P2[c].stage = "writing" /\ P2[c].kind = P[c].kind /\ ~P2[c].stale
  /\ P2[c].session = P[c].session /\ P2[c].next = P[c].next

LEMMA StoreStep ==
  ASSUME NEW T, NEW P, NEW L, NEW F, NEW Q, NEW S, NEW U, NEW K, NEW O, NEW E,
         Good(T, P, L, F, Q, S, U, K, O, E, NoCall),
         NEW c \in Call, NEW P2, Stores(P, P2, c),
         NEW O2, P[c].kind = "login" => ~O2, P[c].kind = "refresh" => O2 = O
  PROVE  Good(T, P2, P[c].next, F, Append(Q, Entry(P[c].next, c)), S, U, K, O2, E, NoCall)
<1> USE ConstantFacts
<1> DEFINE n == P[c].next  R == Append(Q, Entry(n, c))
<1>1. MemoryOK(P, L, F, S) /\ QueueOK(P, L, Q, NoCall) /\ LeavingOK(P, L, Q, NoCall)
  BY DEF Good, Client
<1>2. \A d \in Call : ShapeOK(P[d])
  BY <1>1 DEF MemoryOK
<1>3. n \in Token /\ n \in MaybeSession
  BY <1>2, RecordFields DEF ShapeOK, Stores
<1>4. /\ R \in Seq(Write) /\ Len(R) = Len(Q) + 1 /\ Len(Q) \in Nat
      /\ R[Len(Q) + 1].session = n /\ R[Len(Q) + 1].by = c
      /\ \A i \in 1..Len(Q) : R[i] = Q[i]
  BY <1>1, <1>3, AppendedEntry DEF QueueOK
<1> HIDE DEF R
<1>5. \A i \in 1..Len(R) : i \in 1..Len(Q) \/ i = Len(Q) + 1
  BY <1>4
<1>6. \A d \in Call : d # c => P2[d] = P[d]
  BY DEF Stores, Changes
<1>7. /\ P[c].stage = "answered" /\ P2[c].stage = "writing" /\ P2[c].kind = P[c].kind
      /\ P2[c].session = P[c].session /\ P2[c].next = n /\ ~P[c].stale /\ ~P2[c].stale
  BY DEF Stores
<1>8. P[c].kind \in {"refresh", "login"}
  BY <1>2, <1>7, NoWorkFields, RecordFields DEF ShapeOK, Kind
<1>9. \A i \in 1..Len(Q) : Q[i].by \in Call \cup {NoCall} /\ Q[i].by # c
  BY <1>1, <1>7, WriteFields DEF QueueOK
<1>10. MemoryOK(P2, n, F, S)
  <2>1. P2 \in [Call -> CallRecord] /\ \A d \in Call : ShapeOK(P2[d])
    BY <1>2, <1>6 DEF Stores, Changes
  <2>2. QED
    BY <1>1, <1>3, <1>6, <1>7, <2>1 DEF MemoryOK
<1>11. QueueOK(P2, n, R, NoCall)
  <2>1. ASSUME NEW i \in 1..Len(R), R[i].by # NoCall
        PROVE  P2[R[i].by].stage = "writing" /\ R[i].session = P2[R[i].by].next
    <3>1. CASE i = Len(Q) + 1
      BY <1>4, <1>7, <3>1
    <3>2. CASE i \in 1..Len(Q)
      BY <1>1, <1>4, <1>6, <1>9, <2>1, <3>2 DEF QueueOK
    <3>3. QED
      BY <1>5, <3>1, <3>2
  <2>2. \A i \in 1..Len(R) : R[i].by = NoCall => R[i].session = NoSession
    BY <1>1, <1>4, <1>5 DEF QueueOK
  <2>3. ASSUME NEW d \in Call, P2[d].stage = "writing"
        PROVE  \E i \in 1..Len(R) : R[i].by = d
    <3>1. CASE d = c
      BY <1>4, <3>1
    <3>2. CASE d # c
      <4>1. PICK i \in 1..Len(Q) : Q[i].by = d
        BY <1>1, <1>6, <2>3, <3>2 DEF QueueOK
      <4>2. QED
        BY <1>4, <4>1
    <3>3. QED
      BY <3>1, <3>2
  <2>4. ASSUME NEW h \in 1..Len(R), NEW i \in 1..Len(R), R[h].by = R[i].by, R[h].by # NoCall
        PROVE  h = i
    BY SMTT(40), SMTT(80), <1>1, <1>4, <1>5, <1>9, <2>4 DEF QueueOK
  <2>5. QED
    BY <1>3, <1>4, <2>1, <2>2, <2>3, <2>4 DEF QueueOK
<1>12. \A e \in Call : ~Leaving(P, e)
  BY <1>1, <1>3, <1>7, <1>8 DEF LeavingOK, Current
<1>13. LeavingOK(P2, n, R, NoCall)
  BY <1>6, <1>7, <1>8, <1>12 DEF LeavingOK, Leaving
<1>14. InMemory(P, L, Q, S, n) \/ Arriving(P, n)
  BY <1>7, <1>8 DEF InMemory, Arriving, Current
<1>15. \A t \in Token : (\E i \in 1..Len(R) : R[i].session = t) => n = t \/ \E i \in 1..Len(Q) : Q[i].session = t
  BY <1>4, <1>5
<1>16. ASSUME NEW t \in Token
       PROVE  /\ Held(P2, n, R, S, t) => Held(P, L, Q, S, t)
              /\ InMemory(P2, n, R, S, t) => InMemory(P, L, Q, S, t) \/ t = n
              /\ Arriving(P2, t) => Arriving(P, t)
  <2>1. Held(P, L, Q, S, n)
    BY DEF Held
  <2>2. QED
    BY <1>6, <1>7, <1>15, <2>1 DEF Held, InMemory, Arriving, Current
<1>17. /\ RowsOK(T, P, L, Q, S, U, E) /\ (O => OutOK(P, L, Q, S)) /\ GoneOK(T, P, L, Q, S, E)
  BY DEF Good
<1>18. RowsOK(T, P2, n, R, S, U, E)
  BY <1>16, <1>17 DEF RowsOK
<1>19. O2 => OutOK(P2, n, R, S)
  <2>1. SUFFICES ASSUME O2 PROVE FALSE
    OBVIOUS
  <2>2. P[c].kind = "refresh" /\ OutOK(P, L, Q, S)
    BY <1>8, <1>17, <2>1
  <2>3. InMemory(P, L, Q, S, n)
    BY <1>7, <2>2 DEF InMemory, Current
  <2>4. QED
    BY <1>3, <2>2, <2>3 DEF OutOK
<1>20. GoneOK(T, P2, n, R, S, E)
  <2>1. \A f : Gone(T, P, L, Q, S, f) => Gone(T, P2, n, R, S, f)
    BY <1>3, <1>14, <1>16 DEF Gone
  <2>2. \A d \in Call : P2[d].kind = "logout" /\ P2[d].stage = "sent" => P2[d] = P[d]
    BY <1>6, <1>7
  <2>3. QED
    BY <1>17, <2>1, <2>2 DEF GoneOK
<1>21. ASSUME ~K PROVE ReplayOK(T, P2, n, F, S, U)
  <2>1. ReplayOK(T, P, L, F, S, U)
    BY <1>21 DEF Good
  <2>2. Fresh(P, c)
    BY <1>3, <1>7 DEF Fresh
  <2>3. /\ ~Used(T, U, n) /\ \A d \in Call : ~Refreshes(P, d, n)
        /\ \A d \in Call : Fresh(P, d) /\ P[d].next = n => c = d
    BY <2>1, <2>2 DEF ReplayOK
  <2>4. \A d \in Call, s \in Token : Refreshes(P2, d, s) <=> Refreshes(P, d, s)
    BY <1>6, <1>7 DEF Refreshes
  <2>5. \A d \in Call : Fresh(P2, d) => d # c /\ P2[d] = P[d] /\ Fresh(P, d)
    BY <1>6, <1>7 DEF Fresh
  <2>6. \A d \in Call : P[d].next \in MaybeSession
    BY <1>2, RecordFields DEF ShapeOK
  <2>7. n \in {Unread, Reading} \/ (\E d \in Call : P2[d].session = Reading) => S = NoSession
    BY <1>3, <1>6, <1>7, <2>1 DEF ReplayOK
  <2>8. \A d, e \in Call, s \in Token : Refreshes(P2, d, s) /\ Refreshes(P2, e, s) => d = e
    BY <2>1, <2>4 DEF ReplayOK
  <2>9. ASSUME NEW d \in Call, Fresh(P2, d)
        PROVE  /\ n # P2[d].next /\ ~Used(T, U, P2[d].next)
               /\ \A e \in Call : ~Refreshes(P2, e, P2[d].next)
               /\ \A e \in Call : Fresh(P2, e) /\ P2[e].next = P2[d].next => d = e
    <3>1. d # c /\ Fresh(P, d) /\ P2[d].next = P[d].next /\ P[d].next \in Token
      BY <2>5, <2>6, <2>9 DEF Fresh
    <3>2. /\ ~Used(T, U, P[d].next)
          /\ \A e \in Call : ~Refreshes(P, e, P[d].next)
          /\ \A e \in Call : Fresh(P, e) /\ P[e].next = P[d].next => d = e
      BY <2>1, <3>1 DEF ReplayOK
    <3>3. QED
      BY <2>3, <2>4, <2>5, <3>1, <3>2
  <2>10. ASSUME NEW s \in Token, Used(T, U, s)
         PROVE  /\ \A d \in Call : Refreshes(P2, d, s) => P2[d].stage \notin {"reading", "sent"}
                /\ n = s => \E d \in Call : Refreshes(P2, d, s)
    <3>1. \A d \in Call : Refreshes(P, d, s) => P[d].stage \notin {"reading", "sent"}
      BY <2>1, <2>10 DEF ReplayOK
    <3>2. QED
      BY <1>6, <1>7, <2>3, <2>4, <2>10, <3>1
  <2>11. QED
    BY <1>3, <2>3, <2>4, <2>7, <2>8, <2>9, <2>10 DEF ReplayOK
<1>22. QED
  BY <1>10, <1>11, <1>13, <1>18, <1>19, <1>20, <1>21 DEF Good, Client, R

-----------------------------------------------------------------------------
(* The server.  Rows are revoked, deleted or expire.                       *)

Shrinks(T, T2) ==
  /\ T2 \in [Token -> Row]
  /\ \A t \in Token :
       /\ T2[t].status = "absent" <=> T[t].status = "absent"
       /\ T2[t].status = "live" => T[t].status = "live" /\ T2[t].family = T[t].family
       /\ T2[t].status = "ROTATED" => T[t].status = "ROTATED"
       /\ T2[t].client = "NATIVE" => T[t].client = "NATIVE" /\ T2[t].family = T[t].family

LEMMA SessionsOfLogouts ==
  ASSUME NEW T, NEW P, NEW L, NEW F, NEW Q, NEW S, NEW U, NEW K, NEW O, NEW E, NEW x,
         Good(T, P, L, F, Q, S, U, K, O, E, x),
         NEW c \in Call, P[c].kind = "logout", P[c].stage = "sent"
  PROVE  P[c].session \in Token
  BY DEF Good, Client, MemoryOK, ShapeOK

LEMMA FamilyIsToken ==
  ASSUME NEW T \in [Token -> Row], NEW t \in Token
  PROVE  T[t].family \in Token
  BY DEF Row

LEMMA ShrinkStep ==
  ASSUME NEW T, NEW P, NEW L, NEW F, NEW Q, NEW S, NEW U, NEW K, NEW O, NEW E, NEW x,
         Good(T, P, L, F, Q, S, U, K, O, E, x),
         NEW T2, Shrinks(T, T2), NEW U2, U2 \subseteq U, NEW E2,
         \A f \in E2 : f \in E \/ /\ f \in Token /\ T[f].status # "absent" /\ Gone(T, P, L, Q, S, f)
                                  /\ \A t \in Token : OfFamily(T2, t, f) => T2[t].status # "live"
  PROVE  Good(T2, P, L, F, Q, S, U2, K, O, E2, x)
<1>1. RowsOK(T, P, L, Q, S, U, E) /\ (O => OutOK(P, L, Q, S)) /\ GoneOK(T, P, L, Q, S, E)
  BY DEF Good
<1>2. \A f, t \in Token : OfFamily(T2, t, f) => OfFamily(T, t, f)
  BY DEF Shrinks, OfFamily
<1>3. RowsOK(T2, P, L, Q, S, U2, E2)
  <2>1. T2 \in [Token -> Row] /\ \A t \in Token : T2[t].status = "absent" <=> T[t].status = "absent"
    BY DEF Shrinks
  <2>2. ASSUME NEW t \in Token, T2[t].client = "NATIVE"
        PROVE  T2[T2[t].family].status # "absent"
    <3>1. T[t].client = "NATIVE" /\ T2[t].family = T[t].family
      BY <2>2 DEF Shrinks
    <3>2. T[t].family \in Token /\ T[T[t].family].status # "absent"
      BY <1>1, <3>1, FamilyIsToken DEF RowsOK
    <3>3. QED
      BY <2>1, <3>1, <3>2
  <2>3. E2 \in SUBSET Token /\ \A f \in E2 : T2[f].status # "absent"
    BY <1>1, <2>1 DEF RowsOK
  <2>4. U2 \in SUBSET Token /\ \A t \in U2 : T2[t].status # "absent"
    BY <1>1, <2>1 DEF RowsOK
  <2>5. QED
    BY <1>1, <2>1, <2>2, <2>3, <2>4 DEF RowsOK
<1>4. GoneOK(T2, P, L, Q, S, E2)
  <2>1. ASSUME NEW f \in Token, Gone(T, P, L, Q, S, f)
        PROVE  Gone(T2, P, L, Q, S, f)
    BY <1>2, <2>1 DEF Gone
  <2>2. \A f \in E2 : f \in Token /\ Gone(T2, P, L, Q, S, f)
    BY <1>1, <2>1 DEF GoneOK, RowsOK
  <2>3. ASSUME NEW f \in E2, NEW t \in Token, OfFamily(T2, t, f)
        PROVE  T2[t].status # "live"
    <3>1. OfFamily(T, t, f)
      BY <1>2, <2>2, <2>3
    <3>2. f \in E => T[t].status # "live"
      BY <1>1, <3>1 DEF GoneOK
    <3>3. QED
      BY <2>3, <3>2 DEF Shrinks
  <2>4. ASSUME NEW c \in Call, P[c].kind = "logout", P[c].stage = "sent", T2[P[c].session].client = "NATIVE"
        PROVE  Gone(T2, P, L, Q, S, T2[P[c].session].family)
    <3> DEFINE s == P[c].session
    <3>1. s \in Token
      BY <2>4, SessionsOfLogouts
    <3>2. T[s].client = "NATIVE" /\ T2[s].family = T[s].family /\ T[s].family \in Token
      BY <1>1, <2>4, <3>1, FamilyIsToken DEF Shrinks, RowsOK
    <3>3. Gone(T, P, L, Q, S, T[s].family)
      BY <1>1, <2>4, <3>2 DEF GoneOK
    <3>4. QED
      BY <2>1, <3>2, <3>3
  <2>5. QED
    BY <2>2, <2>3, <2>4 DEF GoneOK
<1>5. ASSUME ~K PROVE ReplayOK(T2, P, L, F, S, U2)
  <2>1. ReplayOK(T, P, L, F, S, U)
    BY <1>5 DEF Good
  <2>2. \A s \in Token : Used(T2, U2, s) => Used(T, U, s)
    BY DEF Used, Shrinks
  <2>3. \A c \in Call : P[c].next \in MaybeSession
    BY RecordFields DEF Good, Client, MemoryOK
  <2>4. \A c \in Call : Fresh(P, c) => P[c].next \in Token
    BY <2>3, ConstantFacts DEF Fresh
  <2>5. QED
    BY <2>1, <2>2, <2>4 DEF ReplayOK
<1>6. QED
  BY <1>1, <1>3, <1>4, <1>5 DEF Good

-----------------------------------------------------------------------------
(* The server issues a token, to begin a family or to continue one.        *)

Adds(T, T2, r) ==
  /\ T2 \in [Token -> Row] /\ r \in Token
  /\ T[r].status = "absent" /\ T2[r].status = "live" /\ T2[r].client = "NATIVE"
  /\ \/ T2[r].family = r
     \/ \E s \in Token : T[s].client = "NATIVE" /\ T[s].status = "live" /\ T2[r].family = T[s].family
  /\ \A t \in Token : t # r =>
       /\ T2[t].status = "absent" <=> T[t].status = "absent"
       /\ T2[t].status = "live" => T[t].status = "live"
       /\ T2[t].client = T[t].client /\ T2[t].family = T[t].family

\* it does not matter to the device that t has been used
SpentFor(P, L, t) ==
  /\ \A c \in Call : Refreshes(P, c, t) => P[c].stage \notin {"reading", "sent"}
  /\ L = t => \E c \in Call : Refreshes(P, c, t)
  /\ \A c \in Call : Fresh(P, c) => P[c].next # t

LEMMA NewTokenIsUnknown ==
  ASSUME NEW T, NEW P, NEW L, NEW F, NEW Q, NEW S, NEW U, NEW K, NEW O, NEW E, NEW x,
         Good(T, P, L, F, Q, S, U, K, O, E, x),
         NEW r \in Token, T[r].status = "absent"
  PROVE  /\ ~Held(P, L, Q, S, r) /\ ~InMemory(P, L, Q, S, r) /\ ~Arriving(P, r)
         /\ r \notin U /\ r \notin E
         /\ \A t \in Token : T[t].client = "NATIVE" => T[t].family # r
<1>1. ~Held(P, L, Q, S, r) /\ r \notin U /\ r \notin E
  BY DEF Good, RowsOK
<1>2. \A t \in Token : T[t].client = "NATIVE" => T[t].family # r
  BY DEF Good, RowsOK
<1>3. QED
  BY <1>1, <1>2 DEF Held, InMemory, Arriving

LEMMA AddStep ==
  ASSUME NEW T, NEW P, NEW L, NEW F, NEW Q, NEW S, NEW U, NEW K, NEW O, NEW E, NEW x,
         Good(T, P, L, F, Q, S, U, K, O, E, x),
         NEW T2, NEW r, Adds(T, T2, r), NEW U2, U2 \subseteq U,
         ~K => \A t \in Token : Used(T2, U2, t) => Used(T, U, t) \/ SpentFor(P, L, t)
  PROVE  Good(T2, P, L, F, Q, S, U2, K, O, E, x)
<1>1. RowsOK(T, P, L, Q, S, U, E) /\ (O => OutOK(P, L, Q, S)) /\ GoneOK(T, P, L, Q, S, E)
  BY DEF Good
<1>2. r \in Token /\ T[r].status = "absent" /\ T2[r].status = "live" /\ T2[r].client = "NATIVE"
  BY DEF Adds
<1>3. /\ ~Held(P, L, Q, S, r) /\ ~InMemory(P, L, Q, S, r) /\ ~Arriving(P, r)
      /\ r \notin U /\ r \notin E
      /\ \A t \in Token : T[t].client = "NATIVE" => T[t].family # r
  BY <1>2, NewTokenIsUnknown
<1>4. \A t \in Token : t # r =>
        /\ T2[t].status = "absent" <=> T[t].status = "absent"
        /\ T2[t].status = "live" => T[t].status = "live"
        /\ T2[t].client = T[t].client /\ T2[t].family = T[t].family
  BY DEF Adds
<1>5. \A t \in Token : T[t].status # "absent" => T2[t].status # "absent"
  BY <1>2, <1>4
<1>6. \A t, f \in Token : t # r => (OfFamily(T2, t, f) <=> OfFamily(T, t, f))
  BY <1>4 DEF OfFamily
<1>7. \A t \in Token : T[t].family \in Token /\ T2[t].family \in Token
  BY <1>1, FamilyIsToken DEF RowsOK, Adds
<1>8. RowsOK(T2, P, L, Q, S, U2, E)
  <2>1. ASSUME NEW t \in Token, T2[t].client = "NATIVE"
        PROVE  T2[T2[t].family].status # "absent"
    <3>1. CASE t # r
      <4>1. T[T[t].family].status # "absent" /\ T2[t].family = T[t].family
        BY <1>1, <1>4, <2>1, <3>1 DEF RowsOK
      <4>2. QED
        BY <1>5, <1>7, <4>1
    <3>2. CASE t = r /\ T2[r].family = r
      BY <1>2, <3>2
    <3>3. CASE t = r /\ T2[r].family # r
      <4>1. PICK s \in Token : T[s].client = "NATIVE" /\ T2[r].family = T[s].family
        BY <3>3 DEF Adds
      <4>2. T[T[s].family].status # "absent"
        BY <1>1, <4>1 DEF RowsOK
      <4>3. QED
        BY <1>5, <1>7, <3>3, <4>1, <4>2
    <3>4. QED
      BY <3>1, <3>2, <3>3
  <2>2. T2 \in [Token -> Row]
    BY DEF Adds
  <2>3. QED
    BY <1>1, <1>5, <2>1, <2>2 DEF RowsOK
<1>9. GoneOK(T2, P, L, Q, S, E)
  <2>1. ASSUME NEW f \in Token, Gone(T, P, L, Q, S, f)
        PROVE  Gone(T2, P, L, Q, S, f)
    BY <1>3, <1>6, <2>1 DEF Gone
  <2>2. E \subseteq Token
    BY <1>1 DEF RowsOK
  <2>3. ASSUME NEW f \in E, NEW t \in Token, OfFamily(T2, t, f)
        PROVE  T2[t].status # "live"
    <3>1. CASE t # r
      <4>1. OfFamily(T, t, f)
        BY <1>6, <2>2, <2>3, <3>1
      <4>2. T[t].status # "live"
        BY <1>1, <4>1 DEF GoneOK
      <4>3. QED
        BY <1>4, <3>1, <4>2
    <3>2. CASE t = r
      <4>1. T2[r].family = f /\ f # r
        BY <1>3, <2>3, <3>2 DEF OfFamily
      <4>2. PICK s \in Token : T[s].client = "NATIVE" /\ T[s].status = "live" /\ T2[r].family = T[s].family
        BY <4>1 DEF Adds
      <4>3. OfFamily(T, s, f)
        BY <4>1, <4>2 DEF OfFamily
      <4>4. QED
        BY <1>1, <4>2, <4>3 DEF GoneOK
    <3>3. QED
      BY <3>1, <3>2
  <2>4. ASSUME NEW c \in Call, P[c].kind = "logout", P[c].stage = "sent", T2[P[c].session].client = "NATIVE"
        PROVE  Gone(T2, P, L, Q, S, T2[P[c].session].family)
    <3> DEFINE s == P[c].session
    <3>1. s \in Token /\ Held(P, L, Q, S, s)
      BY <2>4, SessionsOfLogouts DEF Held
    <3>2. s # r
      BY <1>3, <3>1
    <3>3. T[s].client = "NATIVE" /\ T2[s].family = T[s].family
      BY <1>4, <2>4, <3>1, <3>2
    <3>4. Gone(T, P, L, Q, S, T[s].family)
      BY <1>1, <2>4, <3>3 DEF GoneOK
    <3>5. QED
      BY <1>7, <2>1, <3>1, <3>3, <3>4
  <2>5. QED
    BY <1>1, <2>1, <2>2, <2>3, <2>4 DEF GoneOK
<1>10. ASSUME ~K PROVE ReplayOK(T2, P, L, F, S, U2)
  <2>1. ReplayOK(T, P, L, F, S, U)
    BY <1>10 DEF Good
  <2>2. \A t \in Token : Used(T2, U2, t) => Used(T, U, t) \/ SpentFor(P, L, t)
    BY <1>10
  <2>3. \A c \in Call : P[c].next \in MaybeSession
    BY RecordFields DEF Good, Client, MemoryOK
  <2>4. \A c \in Call : Fresh(P, c) => P[c].next \in Token
    BY <2>3, ConstantFacts DEF Fresh
  <2>5. \A c \in Call : Fresh(P, c) => ~Used(T2, U2, P[c].next)
    BY <2>1, <2>2, <2>4 DEF ReplayOK, SpentFor
  <2>6. ASSUME NEW s \in Token, Used(T2, U2, s)
        PROVE  /\ \A c \in Call : Refreshes(P, c, s) => P[c].stage \notin {"reading", "sent"}
               /\ L = s => \E c \in Call : Refreshes(P, c, s)
    BY <2>1, <2>2, <2>6 DEF ReplayOK, SpentFor
  <2>7. QED
    BY <2>1, <2>5, <2>6 DEF ReplayOK
<1>11. QED
  BY <1>1, <1>8, <1>9, <1>10 DEF Good

-----------------------------------------------------------------------------
(* The answer with the new token reaches a refresh or a login.             *)

Gives(P, P2, c, r) ==
  /\ Changes(P, P2, c) /\ P2[c].kind = P[c].kind /\ P2[c].stale = P[c].stale
  /\ P2[c].session = P[c].session /\ P2[c].stage = "answered" /\ P2[c].next = r
  /\ \/ P[c].kind = "refresh" /\ P[c].stage = "answered"
     \/ P[c].kind = "login" /\ P[c].stage = "sent"

LEMMA GiveStep ==
  ASSUME NEW T, NEW P, NEW L, NEW F, NEW Q, NEW S, NEW U, NEW K, NEW O, NEW E,
         Good(T, P, L, F, Q, S, U, K, O, E, NoCall),
         NEW P2, NEW c \in Call, NEW r \in Token, Gives(P, P2, c, r),
         ~Held(P, L, Q, S, r), r \notin U, r \notin E,
         T[r].status = "live",
         P[c].kind = "refresh" => /\ P[c].session \in Token /\ T[P[c].session].client = "NATIVE"
                                  /\ T[r].family = T[P[c].session].family,
         P[c].kind = "login" => /\ T[r].family = r
                                /\ \A t \in Token : t # r /\ T[t].client = "NATIVE" => T[t].family # r
  PROVE  Good(T, P2, L, F, Q, S, U, K, O, E, NoCall)
<1> USE ConstantFacts
<1>1. MemoryOK(P, L, F, S) /\ QueueOK(P, L, Q, NoCall) /\ LeavingOK(P, L, Q, NoCall)
  BY DEF Good, Client
<1>2. \A d \in Call : ShapeOK(P[d])
  BY <1>1 DEF MemoryOK
<1>3. \A d \in Call : d # c => P2[d] = P[d]
  BY DEF Gives, Changes
<1>4. /\ P2[c].kind = P[c].kind /\ P2[c].stale = P[c].stale /\ P2[c].session = P[c].session
      /\ P2[c].stage = "answered" /\ P2[c].next = r
      /\ P[c].stage \in {"sent", "answered"} /\ P[c].kind \in {"refresh", "login"}
  BY DEF Gives
<1>5. \A i \in 1..Len(Q) : Q[i].by \in Call \cup {NoCall} /\ Q[i].by # c
  BY <1>1, <1>4, WriteFields DEF QueueOK
<1>6. MemoryOK(P2, L, F, S)
  <2>1. P2 \in [Call -> CallRecord] /\ \A d \in Call : ShapeOK(P2[d])
    BY <1>2, <1>3 DEF Gives, Changes
  <2>2. QED
    BY <1>1, <1>3, <1>4, <2>1 DEF MemoryOK
<1>7. QueueOK(P2, L, Q, NoCall)
  BY SMTT(40), SMTT(80), <1>1, <1>3, <1>4, <1>5 DEF QueueOK
<1>8. \A e \in Call : Leaving(P2, e) => Leaving(P, e)
  BY <1>3, <1>4 DEF Leaving
<1>9. ASSUME NEW e \in Call, Leaving(P, e)
      PROVE  P[c].stale
  <2>1. Current(P, c, "refresh") => P[c].session = NoSession
    BY <1>1, <1>9 DEF LeavingOK
  <2>2. Current(P, c, "login") => P[c].stage = "writing"
    BY <1>1, <1>9 DEF LeavingOK
  <2>3. QED
    BY <1>4, <2>1, <2>2 DEF Current
<1>10. LeavingOK(P2, L, Q, NoCall)
  <2>1. ASSUME NEW e \in Call, Leaving(P2, e)
        PROVE  /\ \A d \in Call : Current(P2, d, "refresh") => d # c /\ P2[d] = P[d] /\ Current(P, d, "refresh")
               /\ \A d \in Call : Current(P2, d, "login") => d # c /\ P2[d] = P[d] /\ Current(P, d, "login")
    BY <1>3, <1>4, <1>8, <1>9, <2>1 DEF Current
  <2>2. QED
    BY <1>1, <1>5, <1>8, <2>1 DEF LeavingOK
<1>11. /\ RowsOK(T, P, L, Q, S, U, E) /\ (O => OutOK(P, L, Q, S)) /\ GoneOK(T, P, L, Q, S, E)
  BY DEF Good
<1>12. ASSUME NEW t \in Token
       PROVE  /\ Held(P2, L, Q, S, t) => Held(P, L, Q, S, t) \/ t = r
              /\ InMemory(P2, L, Q, S, t) => InMemory(P, L, Q, S, t) \/ (t = r /\ Current(P, c, "refresh"))
              /\ Arriving(P2, t) => Arriving(P, t) \/ (t = r /\ Current(P, c, "login"))
  BY <1>3, <1>4 DEF Held, InMemory, Arriving, Current
<1>13. RowsOK(T, P2, L, Q, S, U, E)
  BY <1>11, <1>12 DEF RowsOK
<1>14. Current(P, c, "refresh") => InMemory(P, L, Q, S, P[c].session)
  BY DEF InMemory
<1>15. O => OutOK(P2, L, Q, S)
  <2>1. O => ~Current(P, c, "refresh")
    BY <1>11, <1>14 DEF OutOK, Current
  <2>2. QED
    BY <1>11, <1>12, <2>1 DEF OutOK
<1>16. ASSUME NEW f, Gone(T, P, L, Q, S, f), Current(P, c, "login") => f # r
       PROVE  Gone(T, P2, L, Q, S, f)
  <2>1. Current(P, c, "refresh") => T[r].family # f
    BY <1>14, <1>16 DEF Gone, OfFamily, Current
  <2>2. Current(P, c, "login") => T[r].family # f
    BY <1>16 DEF Current
  <2>3. QED
    BY <1>12, <1>16, <2>1, <2>2 DEF Gone, OfFamily
<1>17. GoneOK(T, P2, L, Q, S, E)
  <2>1. \A f \in E : Gone(T, P2, L, Q, S, f)
    BY <1>11, <1>16 DEF GoneOK
  <2>2. ASSUME NEW d \in Call, P2[d].kind = "logout", P2[d].stage = "sent", T[P2[d].session].client = "NATIVE"
        PROVE  Gone(T, P2, L, Q, S, T[P2[d].session].family)
    <3>1. d # c /\ P2[d] = P[d]
      BY <1>3, <1>4, <2>2
    <3>2. P[d].session \in Token /\ Held(P, L, Q, S, P[d].session)
      BY <2>2, <3>1, SessionsOfLogouts DEF Held
    <3>3. P[d].session # r
      BY <3>2
    <3>4. Current(P, c, "login") => T[P[d].session].family # r
      BY <2>2, <3>1, <3>2, <3>3 DEF Current
    <3>5. Gone(T, P, L, Q, S, T[P[d].session].family)
      BY <1>11, <2>2, <3>1 DEF GoneOK
    <3>6. QED
      BY <1>16, <3>1, <3>4, <3>5
  <2>3. QED
    BY <1>11, <2>1, <2>2 DEF GoneOK
<1>18. ASSUME ~K PROVE ReplayOK(T, P2, L, F, S, U)
  <2>1. ReplayOK(T, P, L, F, S, U)
    BY <1>18 DEF Good
  <2>2. /\ L # r /\ \A d \in Call : P[d].session # r /\ P[d].next # r
    BY DEF Held
  <2>3. ~Used(T, U, r)
    BY DEF Used
  <2>4. \A d \in Call, s \in Token : Refreshes(P2, d, s) <=> Refreshes(P, d, s)
    BY <1>3, <1>4 DEF Refreshes
  <2>5. \A d \in Call : Fresh(P2, d) => d = c \/ (P2[d] = P[d] /\ Fresh(P, d))
    BY <1>3 DEF Fresh
  <2>6. \A d \in Call : P[d].next \in MaybeSession
    BY <1>2, RecordFields DEF ShapeOK
  <2>7. L \in {Unread, Reading} \/ (\E d \in Call : P2[d].session = Reading) => S = NoSession
    BY <1>3, <1>4, <2>1 DEF ReplayOK
  <2>8. \A d, e \in Call, s \in Token : Refreshes(P2, d, s) /\ Refreshes(P2, e, s) => d = e
    BY <2>1, <2>4 DEF ReplayOK
  <2>9. ASSUME NEW d \in Call, L \in Token, Refreshes(P2, d, L)
        PROVE  F = d /\ ~P2[d].stale /\ P2[d].stage # "writing"
    <3>1. F = d /\ ~P[d].stale /\ P[d].stage # "writing"
      BY <2>1, <2>4, <2>9 DEF ReplayOK
    <3>2. QED
      BY <1>3, <1>4, <3>1
  <2>10. ASSUME NEW d \in Call, Fresh(P2, d)
         PROVE  /\ L # P2[d].next /\ ~Used(T, U, P2[d].next)
                /\ \A e \in Call : ~Refreshes(P2, e, P2[d].next)
                /\ \A e \in Call : Fresh(P2, e) /\ P2[e].next = P2[d].next => d = e
    <3>1. CASE d = c
      <4>1. \A e \in Call : ~Refreshes(P2, e, r)
        BY <2>2, <2>4 DEF Refreshes
      <4>2. \A e \in Call : Fresh(P2, e) /\ P2[e].next = r => c = e
        BY <1>3, <2>2
      <4>3. QED
        BY <1>4, <2>2, <2>3, <3>1, <4>1, <4>2
    <3>2. CASE d # c
      <4>1. Fresh(P, d) /\ P2[d].next = P[d].next /\ P[d].next \in Token /\ P[d].next # r
        BY <1>3, <2>2, <2>5, <2>6, <2>10, <3>2 DEF Fresh
      <4>2. /\ L # P[d].next /\ ~Used(T, U, P[d].next)
            /\ \A e \in Call : ~Refreshes(P, e, P[d].next)
            /\ \A e \in Call : Fresh(P, e) /\ P[e].next = P[d].next => d = e
        BY <2>1, <4>1 DEF ReplayOK
      <4>3. \A e \in Call : Fresh(P2, e) /\ P2[e].next = P2[d].next => d = e
        BY <1>4, <2>5, <4>1, <4>2
      <4>4. QED
        BY <2>4, <4>1, <4>2, <4>3
    <3>3. QED
      BY <3>1, <3>2
  <2>11. ASSUME NEW s \in Token, Used(T, U, s)
         PROVE  /\ \A d \in Call : Refreshes(P2, d, s) => P2[d].stage \notin {"reading", "sent"}
                /\ L = s => \E d \in Call : Refreshes(P2, d, s)
    <3>1. /\ \A d \in Call : Refreshes(P, d, s) => P[d].stage \notin {"reading", "sent"}
          /\ L = s => \E d \in Call : Refreshes(P, d, s)
      BY <2>1, <2>11 DEF ReplayOK
    <3>2. QED
      BY <1>3, <1>4, <2>4, <3>1
  <2>12. QED
    BY <2>7, <2>8, <2>9, <2>10, <2>11 DEF ReplayOK
<1>19. QED
  BY <1>6, <1>7, <1>10, <1>13, <1>15, <1>17, <1>18 DEF Good, Client

-----------------------------------------------------------------------------
(* What the transactions of Sessions do to the rows.                       *)

LEMMA InsertedRow ==
  ASSUME NEW T \in [Token -> Row], NEW t \in Token, NEW f \in Token, NEW v \in Version
  PROVE  /\ Insert(T, t, "NATIVE", f, v) \in [Token -> Row]
         /\ Insert(T, t, "NATIVE", f, v)[t].status = "live"
         /\ Insert(T, t, "NATIVE", f, v)[t].client = "NATIVE"
         /\ Insert(T, t, "NATIVE", f, v)[t].family = f
         /\ \A s \in Token : s # t => Insert(T, t, "NATIVE", f, v)[s] = T[s]
<1> DEFINE row == [client |-> "NATIVE", family |-> f, version |-> v, status |-> "live", lapsed |-> FALSE]
<1>1. row \in Row /\ row.status = "live" /\ row.client = "NATIVE" /\ row.family = f
  BY DEF Row
<1>2. Insert(T, t, "NATIVE", f, v) = [T EXCEPT ![t] = row]
  BY DEF Insert
<1> HIDE DEF row
<1>3. QED
  BY <1>1, <1>2

LEMMA UnusedIsAbsent ==
  ASSUME NEW T, NEW t \in Unused(T)
  PROVE  t \in Token /\ T[t].status = "absent"
  BY DEF Unused

LEMMA RevocationShrinks ==
  ASSUME SessionsTypeOK, NEW f \in Token, NEW reason \in {"REUSE_DETECTED", "LOGOUT"}
  PROVE  /\ Shrinks(token, RevokeFamily(token, f, reason))
         /\ \A t \in Token : OfFamily(RevokeFamily(token, f, reason), t, f)
                             => RevokeFamily(token, f, reason)[t].status # "live"
<1>1. token \in [Token -> Row]
  BY DEF SessionsTypeOK
<1> DEFINE T2 == RevokeFamily(token, f, reason)
<1>2. ASSUME NEW t \in Token
      PROVE  \/ T2[t] = token[t] /\ ~(OfFamily(token, t, f) /\ token[t].status = "live")
             \/ T2[t] = [token[t] EXCEPT !.status = reason] /\ token[t].status = "live"
  BY DEF RevokeFamily, OfFamily
<1>3. ASSUME NEW t \in Token
      PROVE  /\ T2[t] \in Row
             /\ \/ T2[t] = token[t] /\ ~(OfFamily(token, t, f) /\ token[t].status = "live")
                \/ /\ T2[t].status = reason /\ token[t].status = "live"
                   /\ T2[t].client = token[t].client /\ T2[t].family = token[t].family
  <2>1. \A r \in Row : LET n == [r EXCEPT !.status = reason] IN
          n \in Row /\ n.status = reason /\ n.client = r.client /\ n.family = r.family
    BY DEF Row, Revocation
  <2>2. token[t] \in Row
    BY <1>1
  <2> HIDE DEF T2
  <2>3. QED
    BY <1>2, <2>1, <2>2
<1>4. T2 \in [Token -> Row]
  <2>1. T2 = [t \in Token |-> T2[t]]
    BY DEF RevokeFamily
  <2>2. QED
    BY <1>3, <2>1
<1> HIDE DEF T2
<1>5. Shrinks(token, T2)
  BY <1>3, <1>4 DEF Shrinks
<1>6. \A t \in Token : OfFamily(T2, t, f) => T2[t].status # "live"
  BY <1>3 DEF OfFamily
<1>7. QED
  BY <1>5, <1>6 DEF T2

LEMMA DeletionShrinks ==
  ASSUME SessionsTypeOK
  PROVE  Shrinks(token, DeleteRows(token))
<1>1. token \in [Token -> Row]
  BY DEF SessionsTypeOK
<1>2. NoRow \in Row /\ NoRow.client = "NONE"
  BY ConstantAssumption DEF NoRow, Row, Token, Version
<1>3. ASSUME NEW t \in Token
      PROVE  Deleted(token[t]) \in Row /\ Deleted(token[t]).status = "deleted" /\ Deleted(token[t]).client = "NONE"
  BY <1>1, <1>2 DEF Deleted, Row
<1>4. ASSUME NEW t \in Token
      PROVE  \/ token[t].status = "absent" /\ DeleteRows(token)[t] = token[t]
             \/ token[t].status # "absent" /\ DeleteRows(token)[t] = Deleted(token[t])
  BY DEF DeleteRows
<1>5. DeleteRows(token) \in [Token -> Row]
  <2>1. DeleteRows(token) = [t \in Token |-> DeleteRows(token)[t]]
    BY DEF DeleteRows
  <2>2. QED
    BY <1>1, <1>3, <1>4, <2>1
<1>6. QED
  BY <1>3, <1>4, <1>5 DEF Shrinks

\* a refresh revokes, or rotates the token it presents
Rotates(s, r) ==
  /\ Adds(token, token', r) /\ token'[r].family = token[s].family
  /\ token[s].client = "NATIVE" /\ token[s].status = "live"
  /\ token'[s].status = "ROTATED"
  /\ \A t \in Token : t # s /\ t # r => token'[t] = token[t]

LEMMA RefreshKinds ==
  ASSUME SessionsTypeOK, NEW s \in Token, RefreshNative(s)
  PROVE  /\ SessionsTypeOK'
         /\ Shrinks(token, token') \/ \E r \in Token : Rotates(s, r)
<1> USE DEF RefreshNative
<1>1. /\ account \in Account /\ token \in [Token -> Row] /\ replayed \in SUBSET Token
      /\ token[s].family \in Token /\ account.version \in Version
  BY FamilyIsToken DEF SessionsTypeOK, Account
<1>2. CASE /\ token' = RevokeFamily(token, token[s].family, "REUSE_DETECTED")
           /\ replayed' = replayed \cup {token[s].family}
  <2>1. Shrinks(token, token')
    BY <1>1, <1>2, RevocationShrinks
  <2>2. token' \in [Token -> Row]
    BY <2>1 DEF Shrinks
  <2>3. QED
    BY <1>1, <1>2, <2>1, <2>2 DEF SessionsTypeOK
<1>3. CASE s \in Live /\ token' = [token EXCEPT ![s].status = "EXPIRED"] /\ UNCHANGED replayed
  <2>1. token[s].status = "live" /\ [token[s] EXCEPT !.status = "EXPIRED"] \in Row
    BY <1>1, <1>3 DEF Live, Row, Revocation
  <2>2. /\ token' \in [Token -> Row] /\ \A t \in Token : t # s => token'[t] = token[t]
        /\ token'[s].status = "EXPIRED" /\ token'[s].client = token[s].client /\ token'[s].family = token[s].family
    BY <1>1, <1>3, <2>1 DEF Row
  <2>3. Shrinks(token, token')
    BY <2>1, <2>2 DEF Shrinks
  <2>4. QED
    BY <1>3, <2>2, <2>3 DEF SessionsTypeOK
<1>4. CASE /\ s \in Live /\ UNCHANGED replayed
           /\ \E r \in Unused(token) :
                token' = Insert([token EXCEPT ![s].status = "ROTATED"], r, "NATIVE", token[s].family, account.version)
  <2> DEFINE T == [token EXCEPT ![s].status = "ROTATED"]
  <2>1. PICK r \in Unused(token) : token' = Insert(T, r, "NATIVE", token[s].family, account.version)
    BY <1>4
  <2>2. token[s].status = "live" /\ [token[s] EXCEPT !.status = "ROTATED"] \in Row
    BY <1>1, <1>4 DEF Live, Row, Revocation
  <2>3. /\ T \in [Token -> Row] /\ \A t \in Token : t # s => T[t] = token[t]
        /\ T[s].status = "ROTATED" /\ T[s].client = token[s].client /\ T[s].family = token[s].family
    BY <1>1, <2>2 DEF Row
  <2> HIDE DEF T
  <2>4. r \in Token /\ token[r].status = "absent" /\ r # s
    BY <2>2, UnusedIsAbsent
  <2>5. /\ token' \in [Token -> Row] /\ token'[r].status = "live"
        /\ token'[r].client = "NATIVE" /\ token'[r].family = token[s].family
        /\ \A t \in Token : t # r => token'[t] = T[t]
    BY <1>1, <2>1, <2>3, <2>4, InsertedRow
  <2>6. token[s].client = "NATIVE"
    OBVIOUS
  <2>7. Adds(token, token', r)
    BY <2>2, <2>3, <2>4, <2>5, <2>6 DEF Adds
  <2>8. Rotates(s, r)
    BY <2>2, <2>3, <2>4, <2>5, <2>6, <2>7 DEF Rotates
  <2>9. SessionsTypeOK'
    BY <1>4, <2>5 DEF SessionsTypeOK
  <2>10. QED
    BY <2>4, <2>8, <2>9
<1>5. QED
  BY <1>2, <1>3, <1>4

LEMMA LogoutKind ==
  ASSUME SessionsTypeOK, NEW s \in Token, LogoutNative(s)
  PROVE  /\ SessionsTypeOK' /\ Shrinks(token, token')
         /\ token[s].client = "NATIVE" /\ token[s].family \in Token
         /\ \A t \in Token : OfFamily(token', t, token[s].family) => token'[t].status # "live"
<1> USE DEF LogoutNative
<1>1. token \in [Token -> Row] /\ token[s].family \in Token
  BY FamilyIsToken DEF SessionsTypeOK
<1>2. token' = RevokeFamily(token, token[s].family, "LOGOUT")
  OBVIOUS
<1>3. /\ Shrinks(token, token')
      /\ \A t \in Token : OfFamily(token', t, token[s].family) => token'[t].status # "live"
  BY <1>1, <1>2, RevocationShrinks
<1>4. token' \in [Token -> Row]
  BY <1>3 DEF Shrinks
<1>5. QED
  BY <1>1, <1>3, <1>4 DEF SessionsTypeOK

LEMMA DeletionKind ==
  ASSUME SessionsTypeOK, DeleteAccount
  PROVE  SessionsTypeOK' /\ Shrinks(token, token')
<1>1. Shrinks(token, token')
  BY DeletionShrinks DEF DeleteAccount
<1>2. token' \in [Token -> Row]
  BY <1>1 DEF Shrinks
<1>3. account' \in Account
  BY DEF DeleteAccount, SessionsTypeOK, Account
<1>4. QED
  BY <1>1, <1>2, <1>3 DEF SessionsTypeOK, DeleteAccount

LEMMA LoginKind ==
  ASSUME SessionsTypeOK, NEW r \in Unused(token),
         token' = Insert(token, r, "NATIVE", r, account.version),
         UNCHANGED <<account, request, replayed>>
  PROVE  /\ SessionsTypeOK' /\ Adds(token, token', r) /\ r \in Token
         /\ token'[r].family = r /\ \A t \in Token : t # r => token'[t] = token[t]
<1>1. token \in [Token -> Row] /\ account.version \in Version
  BY DEF SessionsTypeOK, Account
<1>2. r \in Token /\ token[r].status = "absent"
  BY UnusedIsAbsent
<1>3. /\ token' \in [Token -> Row] /\ token'[r].status = "live"
      /\ token'[r].client = "NATIVE" /\ token'[r].family = r
      /\ \A t \in Token : t # r => token'[t] = token[t]
  BY <1>1, <1>2, InsertedRow
<1>4. Adds(token, token', r)
  BY <1>2, <1>3 DEF Adds
<1>5. QED
  BY <1>2, <1>3, <1>4 DEF SessionsTypeOK

-----------------------------------------------------------------------------
(* The actions: quiet ones.                                                *)

LEMMA InvFacts ==
  ASSUME Inv
  PROVE  /\ SessionsTypeOK /\ call \in [Call -> CallRecord]
         /\ \A c \in Call : ShapeOK(call[c]) /\ call[c] \in CallRecord
         /\ loaded \in MaybeSession \cup {Unread, Reading} /\ stored \in MaybeSession
         /\ inFlight \in Call \cup {NoCall} /\ late \in SUBSET Token /\ writes \in Seq(Write)
  BY DEF Inv, Good, Client, MemoryOK, QueueOK, RowsOK

LEMMA QuietInv ==
  ASSUME Inv, Quiet(call, loaded, stored, late, call', loaded', late'),
         UNCHANGED <<server, inFlight, writes, stored, crashed, out, ended>>
  PROVE  Inv'
<1>1. Good(token, call, loaded, inFlight, writes, stored, late, crashed, out, ended, NoCall)
  BY DEF Inv
<1>2. Good(token, call', loaded', inFlight, writes, stored, late', crashed, out, ended, NoCall)
  BY <1>1, QuietStep
<1>3. SessionsTypeOK'
  BY DEF Inv, SessionsTypeOK, server
<1>4. QED
  BY <1>2, <1>3 DEF Inv, server

LEMMA OneQuietMove ==
  ASSUME Inv, NEW c \in Call, NEW P2, Changes(call, P2, c), QuietMove(call[c], P2[c], loaded, stored),
         NEW L2, L2 = loaded \/ (loaded = Unread /\ L2 = Reading),
         NEW U2, GivenUp(call, late, P2, U2)
  PROVE  Quiet(call, loaded, stored, late, P2, L2, U2)
<1>1. \A d \in Call : ShapeOK(P2[d]) /\ QuietMove(call[d], P2[d], loaded, stored)
  BY InvFacts DEF Changes, QuietMove
<1>2. QED
  BY <1>1 DEF Quiet, Changes

LEMMA NothingGivenUp ==
  ASSUME Inv, NEW P2
  PROVE  GivenUp(call, late, P2, late)
  BY InvFacts DEF GivenUp

\* a step of one call that reads nothing and gives nothing up
LEMMA PlainStep ==
  ASSUME Inv, NEW c \in Call, NEW r, call' = [call EXCEPT ![c] = r],
         ShapeOK(r), QuietMove(call[c], r, loaded, stored),
         UNCHANGED <<server, loaded, inFlight, writes, stored, history>>
  PROVE  Inv'
<1>1. r \in CallRecord
  BY DEF ShapeOK
<1>2. call'[c] = r /\ Changes(call, call', c)
  BY <1>1, InvFacts DEF Changes
<1>3. GivenUp(call, late, call', late)
  BY NothingGivenUp
<1>4. Quiet(call, loaded, stored, late, call', loaded, late)
  BY <1>2, <1>3, OneQuietMove
<1>5. loaded' = loaded /\ late' = late
  BY DEF history
<1>6. QED
  BY <1>4, <1>5, QuietInv DEF history

LEMMA EndsQuietly ==
  ASSUME Inv, NEW c \in Call, call[c].kind # "refresh", call[c].stage # "writing",
         call' = [call EXCEPT ![c] = NoWork],
         UNCHANGED <<server, loaded, inFlight, writes, stored, history>>
  PROVE  Inv'
<1>1. QuietMove(call[c], NoWork, loaded, stored)
  BY DEF QuietMove
<1>2. QED
  BY <1>1, NoWorkIsOK, PlainStep

\* what EXCEPT makes of a call's record
Staged(r, stage) == [r EXCEPT !.stage = stage]
WithNext(r, stage, next) == [r EXCEPT !.stage = stage, !.next = next]
Reads(r, stage, session) == [r EXCEPT !.stage = stage, !.session = session]
Joined(r, d) == [r EXCEPT !.stage = "joined", !.with = d, !.next = NoSession]

LEMMA StagedFields ==
  ASSUME NEW r \in CallRecord, NEW stage \in Stage
  PROVE  /\ Staged(r, stage) \in CallRecord /\ Staged(r, stage).stage = stage
         /\ Staged(r, stage).kind = r.kind /\ Staged(r, stage).session = r.session
         /\ Staged(r, stage).next = r.next /\ Staged(r, stage).clearing = r.clearing
         /\ Staged(r, stage).stale = r.stale
  BY DEF CallRecord, Staged

LEMMA WithNextFields ==
  ASSUME NEW r \in CallRecord, NEW stage \in Stage, NEW next \in MaybeSession
  PROVE  /\ WithNext(r, stage, next) \in CallRecord /\ WithNext(r, stage, next).stage = stage
         /\ WithNext(r, stage, next).kind = r.kind /\ WithNext(r, stage, next).session = r.session
         /\ WithNext(r, stage, next).next = next /\ WithNext(r, stage, next).clearing = r.clearing
         /\ WithNext(r, stage, next).stale = r.stale
  BY DEF CallRecord, WithNext

LEMMA ReadsFields ==
  ASSUME NEW r \in CallRecord, NEW stage \in Stage, NEW session \in MaybeSession \cup {Reading}
  PROVE  /\ Reads(r, stage, session) \in CallRecord /\ Reads(r, stage, session).stage = stage
         /\ Reads(r, stage, session).kind = r.kind /\ Reads(r, stage, session).session = session
         /\ Reads(r, stage, session).next = r.next /\ Reads(r, stage, session).clearing = r.clearing
         /\ Reads(r, stage, session).stale = r.stale
  BY DEF CallRecord, Reads

LEMMA JoinedFields ==
  ASSUME NEW r \in CallRecord, NEW d \in Call
  PROVE  /\ Joined(r, d) \in CallRecord /\ Joined(r, d).stage = "joined"
         /\ Joined(r, d).kind = r.kind /\ Joined(r, d).session = r.session
         /\ Joined(r, d).next = NoSession /\ Joined(r, d).clearing = r.clearing
         /\ Joined(r, d).stale = r.stale
  BY DEF CallRecord, Stage, MaybeSession, Joined

\* a refresh that is answered with nothing, whether its request is given up or not
LEMMA AnsweredNothing ==
  ASSUME Inv, NEW c \in Call, call[c].kind = "refresh", call[c].stage \in {"sent", "answered"},
         NEW P2, P2 = [call EXCEPT ![c] = WithNext(call[c], "answered", NoSession)],
         NEW U2, U2 \in {late, late \cup {call[c].session}}, U2 # late => call[c].stage = "sent"
  PROVE  /\ Quiet(call, loaded, stored, late, P2, loaded, U2)
         /\ P2[c].stage = "answered" /\ P2[c].kind = "refresh" /\ P2[c].session = call[c].session
         /\ P2[c].stale = call[c].stale
<1> USE ConstantFacts
<1> DEFINE n == WithNext(call[c], "answered", NoSession)
<1>1. call[c] \in CallRecord /\ ShapeOK(call[c])
  BY InvFacts
<1>2. /\ n \in CallRecord /\ n.stage = "answered" /\ n.kind = "refresh" /\ n.session = call[c].session
      /\ n.next = NoSession /\ n.clearing = call[c].clearing /\ n.stale = call[c].stale
  <2>1. "answered" \in Stage /\ NoSession \in MaybeSession
    BY DEF Stage
  <2>2. QED
    BY <1>1, <2>1, WithNextFields
<1>3. P2 = [call EXCEPT ![c] = n]
  OBVIOUS
<1> HIDE DEF n
<1>4. ShapeOK(n)
  BY <1>1, <1>2 DEF ShapeOK
<1>5. P2[c] = n /\ Changes(call, P2, c)
  BY <1>2, <1>3, <1>4, InvFacts DEF Changes
<1>6. QuietMove(call[c], n, loaded, stored)
  BY <1>2 DEF QuietMove, QuietRefresh
<1>7. GivenUp(call, late, P2, U2)
  <2>1. CASE U2 = late
    BY <2>1, NothingGivenUp
  <2>2. CASE U2 # late
    <3>1. U2 = late \cup {call[c].session} /\ call[c].stage = "sent" /\ call[c].session \in Token
      BY <1>1, <2>2 DEF ShapeOK
    <3>2. call[c] # n
      BY <1>2, <3>1
    <3>3. U2 \in SUBSET Token
      BY <3>1, InvFacts
    <3>4. Refreshes(call, c, call[c].session) /\ Refreshes(P2, c, call[c].session)
      BY <1>2, <1>5 DEF Refreshes
    <3>5. QED
      BY <1>2, <1>5, <3>1, <3>2, <3>3, <3>4 DEF GivenUp
  <2>3. QED
    BY <2>1, <2>2
<1>8. Quiet(call, loaded, stored, late, P2, loaded, U2)
  BY <1>5, <1>6, <1>7, OneQuietMove
<1>9. QED
  BY <1>2, <1>5, <1>8

LEMMA LosesAnswer ==
  ASSUME Inv, NEW c \in Call, GiveUp(c) \/ LoseAnswer(c)
  PROVE  Inv'
<1>1. CASE GiveUp(c)
  <2>1. Quiet(call, loaded, stored, late, call', loaded, late \cup {call[c].session})
    BY <1>1, AnsweredNothing DEF GiveUp, At, Answered, WithNext
  <2>2. QED
    BY <1>1, <2>1, QuietInv DEF GiveUp
<1>2. CASE LoseAnswer(c)
  <2>1. Quiet(call, loaded, stored, late, call', loaded, late)
    BY <1>2, AnsweredNothing DEF LoseAnswer, At, Answered, WithNext
  <2>2. QED
    BY SMTT(40), SMTT(80), <1>2, <2>1, QuietInv DEF LoseAnswer, history
<1>3. QED
  BY <1>1, <1>2

LEMMA SnapshotFacts ==
  ASSUME Inv
  PROVE  /\ Snapshot \in MaybeSession \cup {Reading}
         /\ \/ loaded = Unread /\ Snapshot = Reading
            \/ loaded # Unread /\ Snapshot = loaded
  BY InvFacts DEF Snapshot

LEMMA BegunFields ==
  ASSUME NEW kind \in Kind
  PROVE  LET n == [NoWork EXCEPT !.kind = kind] IN
         /\ n \in CallRecord /\ n.stage = "idle" /\ n.kind = kind /\ n.session = NoSession
         /\ n.next = NoSession /\ n.with = NoCall /\ ~n.clearing /\ ~n.stale
  BY NoWorkFields DEF NoWork, CallRecord

\* a logout or a fetch reads what is loaded
LEMMA ReadStep ==
  ASSUME Inv, NEW c \in Call, NEW r \in CallRecord, NEW stage \in {"reading", "rereading"},
         Read([call EXCEPT ![c] = r], c, stage),
         r.kind \in {"fetch", "logout"}, call[c].kind \in {"none", r.kind}, call[c].stage # "writing",
         r.kind = "logout" => stage = "reading" /\ r.next = NoSession,
         r.next \in {call[c].session, call[c].next, NoSession}, ~r.clearing,
         UNCHANGED <<server, inFlight, writes, stored, history>>
  PROVE  Inv'
<1> USE ConstantFacts
<1> DEFINE n == Reads(r, stage, Snapshot)
<1>1. /\ n \in CallRecord /\ n.stage = stage /\ n.kind = r.kind /\ n.session = Snapshot
      /\ n.next = r.next /\ n.clearing = r.clearing
  <2>1. stage \in Stage
    BY DEF Stage
  <2>2. QED
    BY <2>1, SnapshotFacts, ReadsFields
<1>2. [call EXCEPT ![c] = r][c] = r
  BY InvFacts
<1>3. call' = [call EXCEPT ![c] = n] /\ loaded' = Snapshot
  BY <1>2, InvFacts DEF Read, Reads
<1> HIDE DEF n
<1>4. ShapeOK(n)
  BY <1>1 DEF ShapeOK
<1>5. call'[c] = n /\ Changes(call, call', c)
  BY <1>1, <1>3, <1>4, InvFacts DEF Changes
<1>6. QuietMove(call[c], n, loaded, stored)
  BY <1>1, SnapshotFacts DEF QuietMove, TakesFrom
<1>7. loaded' = loaded \/ (loaded = Unread /\ loaded' = Reading)
  BY <1>3, SnapshotFacts
<1>8. Quiet(call, loaded, stored, late, call', loaded', late)
  BY <1>5, <1>6, <1>7, NothingGivenUp, OneQuietMove
<1>9. QED
  BY <1>8, QuietInv DEF history

LEMMA ReadsBegin ==
  ASSUME Inv, NEW c \in Call, Logout(c) \/ Fetch(c) \/ Reread(c)
  PROVE  Inv'
<1>1. CASE Logout(c)
  <2> DEFINE r == [NoWork EXCEPT !.kind = "logout"]
  <2>1. r \in CallRecord /\ r.kind = "logout" /\ r.next = NoSession /\ ~r.clearing
    BY BegunFields DEF Kind
  <2> HIDE DEF r
  <2>2. /\ Read([call EXCEPT ![c] = r], c, "reading") /\ call[c].kind = "none" /\ call[c].stage = "idle"
        /\ UNCHANGED <<server, inFlight, writes, stored, history>>
    BY <1>1, NoWorkFields DEF Logout, r
  <2>3. QED
    BY <2>1, <2>2, ReadStep
<1>2. CASE Fetch(c)
  <2> DEFINE r == [NoWork EXCEPT !.kind = "fetch"]
  <2>1. r \in CallRecord /\ r.kind = "fetch" /\ r.next = NoSession /\ ~r.clearing
    BY BegunFields DEF Kind
  <2> HIDE DEF r
  <2>2. /\ Read([call EXCEPT ![c] = r], c, "reading") /\ call[c].kind = "none" /\ call[c].stage = "idle"
        /\ UNCHANGED <<server, inFlight, writes, stored, history>>
    BY <1>2, NoWorkFields DEF Fetch, r
  <2>3. QED
    BY <2>1, <2>2, ReadStep
<1>3. CASE Reread(c)
  <2> DEFINE r == [call[c] EXCEPT !.next = call[c].session]
  <2>1. call[c] \in CallRecord /\ ShapeOK(call[c]) /\ call[c].kind = "fetch" /\ call[c].stage = "denied"
    BY <1>3, InvFacts DEF Reread, At
  <2>2. call[c].session \in MaybeSession /\ ~call[c].clearing
    BY <2>1, RecordFields DEF ShapeOK
  <2>3. r \in CallRecord /\ r.kind = "fetch" /\ r.next = call[c].session /\ ~r.clearing
    BY <2>1, <2>2 DEF CallRecord
  <2>4. Read([call EXCEPT ![c] = r], c, "rereading") /\ UNCHANGED <<server, inFlight, writes, stored, history>>
    BY <1>3 DEF Reread
  <2> HIDE DEF r
  <2>5. QED
    BY <2>1, <2>3, <2>4, ReadStep
<1>4. QED
  BY <1>1, <1>2, <1>3

\* a fetch goes on
LEMMA FetchStageStep ==
  ASSUME Inv, NEW c \in Call, call[c].kind = "fetch", NEW r \in CallRecord, call' = [call EXCEPT ![c] = r],
         r.kind = "fetch", r.stage \in {"sent", "denied", "joined", "refreshed", "resent"},
         r.session = call[c].session, r.session # Reading, ~r.clearing,
         r.next \in {call[c].next, call[c].session, NoSession},
         UNCHANGED <<server, loaded, inFlight, writes, stored, history>>
  PROVE  Inv'
<1>1. ShapeOK(r)
  BY DEF ShapeOK
<1>2. QuietMove(call[c], r, loaded, stored)
  BY DEF QuietMove, TakesFrom
<1>3. QED
  BY <1>1, <1>2, PlainStep

LEMMA FetchFacts ==
  ASSUME Inv, NEW c \in Call, call[c].kind = "fetch"
  PROVE  call[c].stage # "writing" /\ ~call[c].clearing /\ call[c] \in CallRecord
  BY InvFacts DEF ShapeOK

LEMMA FetchSteps ==
  ASSUME Inv, NEW c \in Call, SendFetch(c) \/ FetchReturns(c) \/ Resend(c)
  PROVE  Inv'
<1>1. call[c].kind = "fetch" /\ UNCHANGED <<server, loaded, inFlight, writes, stored, history>>
  BY DEF SendFetch, FetchReturns, Resend, At
<1>2. call[c].kind # "refresh" /\ call[c].stage # "writing" /\ ~call[c].clearing /\ call[c] \in CallRecord
  BY <1>1, FetchFacts
<1>3. CASE call' = [call EXCEPT ![c] = NoWork]
  BY <1>1, <1>2, <1>3, EndsQuietly
<1>4. ASSUME NEW stage \in {"sent", "denied", "resent"}, call[c].session # Reading,
             call' = [call EXCEPT ![c] = Staged(call[c], stage)]
      PROVE  Inv'
  <2> DEFINE r == Staged(call[c], stage)
  <2>1. stage \in Stage
    BY DEF Stage
  <2>2. /\ r \in CallRecord /\ r.stage = stage /\ r.kind = call[c].kind /\ r.session = call[c].session
        /\ r.next = call[c].next /\ r.clearing = call[c].clearing
    BY <1>2, <2>1, StagedFields
  <2> HIDE DEF r
  <2>3. call' = [call EXCEPT ![c] = r]
    BY <1>4 DEF r
  <2>4. QED
    BY <1>1, <1>2, <1>4, <2>2, <2>3, FetchStageStep
<1>5. CASE SendFetch(c)
  <2>1. call[c].session # Reading
    BY <1>5 DEF SendFetch, HasRead
  <2>2. call' = [call EXCEPT ![c] = NoWork] \/ call' = [call EXCEPT ![c] = Staged(call[c], "sent")]
    BY <1>5 DEF SendFetch, Staged
  <2>3. QED
    BY <1>3, <1>4, <2>1, <2>2
<1>6. CASE FetchReturns(c)
  <2>1. call[c].session # Reading
    BY <1>6, InvFacts DEF FetchReturns, At, ShapeOK
  <2>2. call' = [call EXCEPT ![c] = NoWork] \/ call' = [call EXCEPT ![c] = Staged(call[c], "denied")]
    BY <1>6 DEF FetchReturns, Staged
  <2>3. QED
    BY <1>3, <1>4, <2>1, <2>2
<1>7. CASE Resend(c)
  <2>1. call[c].session # Reading
    BY <1>7, InvFacts DEF Resend, At, ShapeOK
  <2>2. call' = [call EXCEPT ![c] = NoWork] \/ call' = [call EXCEPT ![c] = Staged(call[c], "resent")]
    BY <1>7 DEF Resend, Staged
  <2>3. QED
    BY <1>3, <1>4, <2>1, <2>2
<1>8. QED
  BY <1>5, <1>6, <1>7

LEMMA LoseLogoutStep ==
  ASSUME Inv, NEW c \in Call, LoseLogout(c)
  PROVE  Inv'
  BY EndsQuietly DEF LoseLogout, At

\* the record of a refresh that begins
LEMMA StartRefreshStarts ==
  ASSUME Inv, NEW P, P \in [Call -> CallRecord], NEW d \in Call, P[d] = NoWork, StartRefresh(P, d)
  PROVE  Starts(P, loaded, call', loaded', d) /\ inFlight' = d
<1> USE ConstantFacts
<1> DEFINE b == [NoWork EXCEPT !.kind = "refresh"]  n == Reads(b, "reading", Snapshot)
<1>1. /\ b \in CallRecord /\ b.kind = "refresh" /\ b.session = NoSession
      /\ b.next = NoSession /\ ~b.clearing /\ ~b.stale
  BY BegunFields DEF Kind
<1> HIDE DEF b
<1>2. "reading" \in Stage
  BY DEF Stage
<1>3. /\ n \in CallRecord /\ n.stage = "reading" /\ n.kind = b.kind /\ n.session = Snapshot
      /\ n.next = b.next /\ n.clearing = b.clearing /\ n.stale = b.stale
  BY <1>1, <1>2, SnapshotFacts, ReadsFields
<1>4. Read([P EXCEPT ![d] = b], d, "reading") /\ inFlight' = d
  BY DEF StartRefresh, b
<1>5. [P EXCEPT ![d] = b][d] = b
  OBVIOUS
<1>6. call' = [P EXCEPT ![d] = n] /\ loaded' = Snapshot
  BY <1>4, <1>5 DEF Read, Reads
<1> HIDE DEF n
<1>7. call'[d] = n /\ call' \in [Call -> CallRecord] /\ \A e \in Call : e # d => call'[e] = P[e]
  BY <1>3, <1>6
<1>8. ShapeOK(n)
  BY <1>1, <1>3 DEF ShapeOK
<1>9. QED
  BY <1>1, <1>3, <1>4, <1>6, <1>7, <1>8, SnapshotFacts DEF Starts, Changes

LEMMA RefreshBegins ==
  ASSUME Inv, NEW P, Good(token, P, loaded, inFlight, writes, stored, late, crashed, out, ended, NoCall),
         inFlight = NoCall, NEW d \in Call, P[d] = NoWork, StartRefresh(P, d),
         UNCHANGED <<server, writes, stored, history>>
  PROVE  Inv'
<1>1. P \in [Call -> CallRecord]
  BY DEF Good, Client, MemoryOK
<1>2. Starts(P, loaded, call', loaded', d) /\ inFlight' = d
  BY <1>1, StartRefreshStarts
<1>3. Good(token, P, loaded, NoCall, writes, stored, late, crashed, out, ended, NoCall)
  OBVIOUS
<1>4. Good(token, call', loaded', d, writes, stored, late, crashed, out, ended, NoCall)
  BY <1>2, <1>3, StartStep
<1>5. SessionsTypeOK'
  BY DEF Inv, SessionsTypeOK, server
<1>6. QED
  BY <1>2, <1>4, <1>5 DEF Inv, server, history

LEMMA RefreshStepInv ==
  ASSUME Inv, NEW c \in Call, Refresh(c)
  PROVE  Inv'
<1>1. Good(token, call, loaded, inFlight, writes, stored, late, crashed, out, ended, NoCall)
  BY DEF Inv
<1>2. /\ inFlight = NoCall /\ call[c] = NoWork /\ StartRefresh(call, c)
      /\ UNCHANGED <<server, writes, stored, history>>
  BY DEF Refresh, StartRefresh
<1>3. QED
  BY <1>1, <1>2, RefreshBegins

\* a fetch that recovers goes on with another session, joins a refresh or begins one
LEMMA RecoverStep ==
  ASSUME Inv, NEW c \in Call, Recover(c)
  PROVE  Inv'
<1> USE ConstantFacts
<1>1. /\ call[c].kind = "fetch" /\ call[c].stage = "rereading" /\ call[c].session # Reading
      /\ call[c] \in CallRecord /\ ~call[c].clearing /\ call \in [Call -> CallRecord]
      /\ UNCHANGED <<server, writes, stored, history>>
  BY InvFacts, FetchFacts DEF Recover, At, HasRead
<1>2. CASE /\ call' = [call EXCEPT ![c] = WithNext(call[c], "refreshed", call[c].session)]
           /\ UNCHANGED <<loaded, inFlight>>
  <2> DEFINE r == WithNext(call[c], "refreshed", call[c].session)
  <2>1. "refreshed" \in Stage /\ call[c].session \in MaybeSession
    BY <1>1, RecordFields DEF Stage
  <2>2. /\ r \in CallRecord /\ r.stage = "refreshed" /\ r.kind = call[c].kind /\ r.session = call[c].session
        /\ r.next = call[c].session /\ r.clearing = call[c].clearing
    BY <1>1, <2>1, WithNextFields
  <2>3. call' = [call EXCEPT ![c] = r]
    BY <1>2
  <2> HIDE DEF r
  <2>4. QED
    BY <1>1, <1>2, <2>2, <2>3, FetchStageStep
<1>3. ASSUME NEW d \in Call
      PROVE  LET r == Joined(call[c], d)  P == [call EXCEPT ![c] = r] IN
             /\ r \in CallRecord /\ r.stage = "joined" /\ r.kind = "fetch" /\ r.session = call[c].session
             /\ r.next = NoSession /\ ~r.clearing
  BY <1>1, JoinedFields
<1>4. CASE inFlight # NoCall /\ call' = [call EXCEPT ![c] = Joined(call[c], inFlight)] /\ UNCHANGED <<loaded, inFlight>>
  <2> DEFINE r == Joined(call[c], inFlight)
  <2>1. inFlight \in Call
    BY <1>4, InvFacts
  <2>2. /\ r \in CallRecord /\ r.stage = "joined" /\ r.kind = "fetch" /\ r.session = call[c].session
        /\ r.next = NoSession /\ ~r.clearing
    BY <1>3, <2>1
  <2> HIDE DEF r
  <2>3. call' = [call EXCEPT ![c] = r]
    BY <1>4 DEF r
  <2>4. QED
    BY <1>1, <1>4, <2>2, <2>3, FetchStageStep
<1>5. ASSUME inFlight = NoCall, NEW d \in Call, StartRefresh([call EXCEPT ![c] = Joined(call[c], d)], d)
      PROVE  Inv'
  <2> DEFINE r == Joined(call[c], d)  P == [call EXCEPT ![c] = r]
  <2>1. /\ r \in CallRecord /\ r.stage = "joined" /\ r.kind = "fetch" /\ r.session = call[c].session
        /\ r.next = NoSession /\ ~r.clearing
    BY <1>3
  <2> HIDE DEF r
  <2>2. call[d] = NoWork /\ StartRefresh(P, d)
    BY <1>5 DEF StartRefresh, r
  <2>3. d # c
    BY <1>1, <2>2, NoWorkFields
  <2>4. P[d] = NoWork /\ P[c] = r
    BY <1>1, <2>2, <2>3
  <2>5. ShapeOK(r) /\ QuietMove(call[c], r, loaded, stored)
    BY <1>1, <2>1 DEF ShapeOK, QuietMove, TakesFrom
  <2>6. Changes(call, P, c)
    BY <1>1, <2>1, <2>5 DEF Changes
  <2>7. Quiet(call, loaded, stored, late, P, loaded, late)
    BY <2>4, <2>5, <2>6, NothingGivenUp, OneQuietMove
  <2> HIDE DEF P
  <2>8. Good(token, P, loaded, inFlight, writes, stored, late, crashed, out, ended, NoCall)
    BY <2>7, QuietStep DEF Inv
  <2>9. QED
    BY <1>1, <1>5, <2>2, <2>4, <2>8, RefreshBegins
<1>6. QED
  <2>1. \/ /\ call' = [call EXCEPT ![c] = [@ EXCEPT !.stage = "refreshed", !.next = call[c].session]]
           /\ UNCHANGED <<loaded, inFlight>>
        \/ /\ inFlight # NoCall /\ UNCHANGED <<loaded, inFlight>>
           /\ call' = [call EXCEPT ![c] = [@ EXCEPT !.stage = "joined", !.with = inFlight, !.next = NoSession]]
        \/ /\ inFlight = NoCall
           /\ \E d \in Call : StartRefresh([call EXCEPT ![c] = [@ EXCEPT !.stage = "joined", !.with = d, !.next = NoSession]], d)
    BY DEF Recover
  <2>2. QED
    BY <1>2, <1>4, <1>5, <2>1 DEF WithNext, Joined

-----------------------------------------------------------------------------
(* The actions: a refresh ends, or what was loaded is dropped.             *)

OutdatedRecord(r) == [r EXCEPT !.stale = TRUE]
Refreshed(r, result) == [r EXCEPT !.stage = "refreshed", !.with = NoCall, !.next = result]
Clearing(r) == [r EXCEPT !.stage = "writing", !.clearing = TRUE]
ClearingAll(r) == [r EXCEPT !.stage = "writing", !.clearing = TRUE, !.next = NoSession]

LEMMA OutdatedFields ==
  ASSUME NEW r \in CallRecord
  PROVE  LET n == OutdatedRecord(r) IN
         /\ n \in CallRecord /\ n.stage = r.stage /\ n.kind = r.kind /\ n.session = r.session
         /\ n.next = r.next /\ n.clearing = r.clearing /\ n.stale
  BY DEF CallRecord, OutdatedRecord

LEMMA RefreshedFields ==
  ASSUME NEW r \in CallRecord, NEW result \in MaybeSession
  PROVE  LET n == Refreshed(r, result) IN
         /\ n \in CallRecord /\ n.stage = "refreshed" /\ n.kind = r.kind /\ n.session = r.session
         /\ n.next = result /\ n.clearing = r.clearing
  BY DEF CallRecord, Stage, Refreshed

LEMMA ClearingFields ==
  ASSUME NEW r \in CallRecord
  PROVE  LET n == Clearing(r) IN
         /\ n \in CallRecord /\ n.stage = "writing" /\ n.kind = r.kind /\ n.session = r.session
         /\ n.next = r.next /\ n.clearing /\ n.stale = r.stale
  BY DEF CallRecord, Stage, Clearing

LEMMA ClearingAllFields ==
  ASSUME NEW r \in CallRecord
  PROVE  LET n == ClearingAll(r) IN
         /\ n \in CallRecord /\ n.stage = "writing" /\ n.kind = r.kind /\ n.session = r.session
         /\ n.next = NoSession /\ n.clearing /\ n.stale = r.stale
  BY DEF CallRecord, Stage, MaybeSession, ClearingAll

LEMMA OutdatedCopies ==
  ASSUME NEW P \in [Call -> CallRecord], \A d \in Call : ShapeOK(P[d]), NEW c
  PROVE  /\ Outdated(P, c) \in [Call -> CallRecord]
         /\ \A d \in Call : d # c => OutdatedCopy(P[d], Outdated(P, c)[d])
         /\ c \in Call => Outdated(P, c)[c] = P[c]
<1>1. ASSUME NEW d \in Call
      PROVE  Outdated(P, c)[d] = IF d # c /\ P[d].kind # "none" THEN OutdatedRecord(P[d]) ELSE P[d]
  BY DEF Outdated, OutdatedRecord
<1>2. ASSUME NEW r \in CallRecord, ShapeOK(r), r.kind # "none"
      PROVE  OutdatedCopy(r, OutdatedRecord(r))
  <2> DEFINE n == OutdatedRecord(r)
  <2>1. /\ n \in CallRecord /\ n.stage = r.stage /\ n.kind = r.kind /\ n.session = r.session
        /\ n.next = r.next /\ n.clearing = r.clearing /\ n.stale
    BY OutdatedFields
  <2> HIDE DEF n
  <2>2. ShapeOK(n)
    BY <1>2, <2>1 DEF ShapeOK
  <2>3. QED
    BY <2>1, <2>2 DEF OutdatedCopy, n
<1>3. \A d \in Call : P[d] \in CallRecord /\ OutdatedRecord(P[d]) \in CallRecord
  BY OutdatedFields
<1>4. Outdated(P, c) \in [Call -> CallRecord]
  <2>1. Outdated(P, c) = [d \in Call |-> Outdated(P, c)[d]]
    BY DEF Outdated
  <2>2. QED
    BY <1>1, <1>3, <2>1
<1>5. \A d \in Call : P[d].kind = "none" => OutdatedCopy(P[d], P[d])
  BY DEF OutdatedCopy
<1>6. QED
  BY <1>1, <1>2, <1>3, <1>4, <1>5

\* c drops what was loaded, and is about to clear the storage
LEMMA OutdatingClears ==
  ASSUME NEW P \in [Call -> CallRecord], \A d \in Call : ShapeOK(P[d]),
         NEW c \in Call, NEW r, BeginsToClear(P[c], r),
         NEW F, NEW F2 \in {F, NoCall}, NEW x, x = c \/ (x = NoCall /\ P[c].stage # "writing")
  PROVE  Clears(P, F, [Outdated(P, c) EXCEPT ![c] = r], F2, c, x)
<1>1. r \in CallRecord
  BY DEF BeginsToClear, ShapeOK
<1>2. /\ Outdated(P, c) \in [Call -> CallRecord]
      /\ \A d \in Call : d # c => OutdatedCopy(P[d], Outdated(P, c)[d])
  BY OutdatedCopies
<1> DEFINE P2 == [Outdated(P, c) EXCEPT ![c] = r]
<1>3. /\ P2 \in [Call -> CallRecord] /\ P2[c] = r
      /\ \A d \in Call : d # c => P2[d] = Outdated(P, c)[d]
  BY <1>1, <1>2
<1> HIDE DEF P2
<1>4. QED
  BY <1>2, <1>3 DEF Clears, P2

LEMMA EndedEnds ==
  ASSUME NEW P \in [Call -> CallRecord], \A d \in Call : ShapeOK(P[d]),
         NEW c \in Call, NEW result \in {P[c].next, NoSession}
  PROVE  Ends(P, Ended(P, c, result), c)
<1> USE ConstantFacts
<1>1. result \in MaybeSession
  BY RecordFields
<1> DEFINE P2 == Ended(P, c, result)
<1>2. ASSUME NEW d \in Call
      PROVE  \/ P2[d] = NoWork /\ (d = c \/ P[d].stage = "joined")
             \/ d # c /\ P[d].stage = "joined" /\ P2[d] = Refreshed(P[d], result)
             \/ d # c /\ P2[d] = P[d]
  BY DEF Ended, Refreshed
<1>3. P2[c] = NoWork
  BY DEF Ended
<1>4. P2 = [d \in Call |-> P2[d]]
  BY DEF Ended
<1> HIDE DEF P2
<1>5. ASSUME NEW d \in Call, P[d].stage = "joined"
      PROVE  P[d].kind = "fetch" /\ ~P[d].clearing /\ P[d].session # Reading
  BY <1>5, NoWorkFields, RecordFields DEF ShapeOK, Kind
<1>6. ASSUME NEW d \in Call, P[d].stage = "joined"
      PROVE  LET n == Refreshed(P[d], result) IN
             n \in CallRecord /\ ShapeOK(n) /\ n.kind = "fetch" /\ n.session = P[d].session /\ n.next = result
  <2> DEFINE n == Refreshed(P[d], result)
  <2>1. /\ n \in CallRecord /\ n.stage = "refreshed" /\ n.kind = P[d].kind /\ n.session = P[d].session
        /\ n.next = result /\ n.clearing = P[d].clearing
    BY <1>1, RefreshedFields
  <2> HIDE DEF n
  <2>2. ShapeOK(n)
    BY <1>5, <1>6, <2>1 DEF ShapeOK
  <2>3. QED
    BY <1>5, <1>6, <2>1, <2>2 DEF n
<1>7. \A d \in Call : ShapeOK(P2[d])
  BY <1>2, <1>6, NoWorkIsOK
<1>8. P2 \in [Call -> CallRecord]
  BY <1>4, <1>7 DEF ShapeOK
<1>9. QED
  BY <1>2, <1>3, <1>5, <1>6, <1>7, <1>8 DEF Ends, P2

\* the refresh of c ends
LEMMA EndRefreshStep ==
  ASSUME NEW T, NEW P, NEW L, NEW Q, NEW S, NEW U, NEW K, NEW O, NEW E, NEW x,
         Good(T, P, L, inFlight, Q, S, U, K, O, E, x),
         NEW c \in Call, P[c].kind = "refresh",
         NEW result \in {P[c].next, NoSession}, EndRefresh(P, L, Q, c, result),
         x = c \/ (x = NoCall /\ P[c].stale /\ P[c].stage # "writing")
  PROVE  Good(T, call', loaded', inFlight', writes', S, U, K, O, E, NoCall)
<1>1. P \in [Call -> CallRecord] /\ \A d \in Call : ShapeOK(P[d])
  BY DEF Good, Client, MemoryOK
<1>2. /\ call' = Ended(P, c, result) /\ loaded' = L /\ writes' = Q
      /\ inFlight' = IF inFlight = c THEN NoCall ELSE inFlight
  BY DEF EndRefresh
<1>3. Ends(P, call', c)
  BY <1>1, <1>2, EndedEnds
<1>4. Good(T, call', L, inFlight', Q, S, U, K, O, E, NoCall)
  BY <1>2, <1>3, EndStep
<1>5. QED
  BY <1>2, <1>4

\* the refresh of c fails: it ends, or clears what it was refreshing
LEMMA FailStep ==
  ASSUME NEW T, NEW P, NEW L, NEW Q, NEW S, NEW U, NEW K, NEW O, NEW E, NEW x,
         Good(T, P, L, inFlight, Q, S, U, K, O, E, x),
         NEW c \in Call, P[c].kind = "refresh", P[c].session # Reading, FailRefresh(P, L, Q, c),
         x = c \/ (x = NoCall /\ P[c].stage # "writing")
  PROVE  Good(T, call', loaded', inFlight', writes', S, U, K, O, E, NoCall)
<1>1. P \in [Call -> CallRecord] /\ \A d \in Call : ShapeOK(P[d])
  BY DEF Good, Client, MemoryOK
<1>2. CASE P[c].stale /\ EndRefresh(P, L, Q, c, NoSession)
  BY <1>2, EndRefreshStep
<1>3. CASE /\ ~P[c].stale /\ call' = [Outdated(P, c) EXCEPT ![c] = ClearingAll(P[c])]
           /\ loaded' = NoSession /\ writes' = Append(Q, Entry(NoSession, c)) /\ UNCHANGED inFlight
  <2> DEFINE r == ClearingAll(P[c])
  <2>1. /\ r \in CallRecord /\ r.stage = "writing" /\ r.kind = "refresh" /\ r.session = P[c].session
        /\ r.next = NoSession /\ r.clearing /\ r.stale = P[c].stale
    BY <1>1, ClearingAllFields
  <2> HIDE DEF r
  <2>2. ShapeOK(r)
    <3>1. r.session # Reading
      BY <2>1
    <3>2. QED
      BY <2>1, <3>1 DEF ShapeOK
  <2>3. BeginsToClear(P[c], r)
    BY <1>3, <2>1, <2>2 DEF BeginsToClear
  <2>4. Clears(P, inFlight, [Outdated(P, c) EXCEPT ![c] = r], inFlight, c, x)
    BY <1>1, <2>3, OutdatingClears
  <2>5. Good(T, call', NoSession, inFlight, writes', S, U, K, O, E, NoCall)
    BY <1>3, <2>4, ClearStep DEF r
  <2>6. QED
    BY <1>3, <2>5
<1>4. QED
  <2>1. Outdated(P, c)[c] = P[c] /\ Outdated(P, c) \in [Call -> CallRecord]
    BY <1>1, OutdatedCopies
  <2>2. \/ P[c].stale /\ EndRefresh(P, L, Q, c, NoSession)
        \/ /\ ~P[c].stale /\ loaded' = NoSession /\ writes' = Append(Q, Entry(NoSession, c)) /\ UNCHANGED inFlight
           /\ call' = [Outdated(P, c) EXCEPT ![c] =
                [Outdated(P, c)[c] EXCEPT !.stage = "writing", !.clearing = TRUE, !.next = NoSession]]
    BY <2>1 DEF FailRefresh
  <2>3. QED
    BY <1>2, <1>3, <2>1, <2>2 DEF ClearingAll

\* a step of the device whose values keep the invariant
LEMMA DeviceStep ==
  ASSUME Inv, Good(token, call', loaded', inFlight', writes', stored', late', crashed', out', ended', NoCall),
         UNCHANGED server, crashed' \in BOOLEAN, out' \in BOOLEAN
  PROVE  Inv'
<1>1. SessionsTypeOK'
  BY DEF Inv, SessionsTypeOK, server
<1>2. token' = token
  BY DEF server
<1>3. QED
  BY <1>1, <1>2 DEF Inv

LEMMA InvGood ==
  ASSUME Inv
  PROVE  /\ Good(token, call, loaded, inFlight, writes, stored, late, crashed, out, ended, NoCall)
         /\ crashed \in BOOLEAN /\ out \in BOOLEAN
  BY DEF Inv

LEMMA FailInv ==
  ASSUME Inv, NEW c \in Call, call[c].kind = "refresh", call[c].session # Reading, call[c].stage # "writing",
         FailRefresh(call, loaded, writes, c), UNCHANGED <<server, stored, history>>
  PROVE  Inv'
<1>1. Good(token, call', loaded', inFlight', writes', stored, late, crashed, out, ended, NoCall)
  BY InvGood, FailStep
<1>2. stored' = stored /\ late' = late /\ crashed' = crashed /\ out' = out /\ ended' = ended
  BY DEF history
<1>3. QED
  BY <1>1, <1>2, InvGood, DeviceStep

LEMMA SendRefreshStep ==
  ASSUME Inv, NEW c \in Call, SendRefresh(c)
  PROVE  Inv'
<1> USE ConstantFacts
<1>1. /\ call[c].kind = "refresh" /\ call[c].stage = "reading" /\ call[c].session # Reading
      /\ ShapeOK(call[c]) /\ call[c] \in CallRecord
      /\ UNCHANGED <<server, stored, history>>
  BY InvFacts DEF SendRefresh, At, HasRead
<1>2. CASE FailRefresh(call, loaded, writes, c)
  BY <1>1, <1>2, FailInv
<1>3. CASE /\ call[c].session # NoSession /\ call' = [call EXCEPT ![c] = Staged(call[c], "sent")]
           /\ UNCHANGED <<loaded, inFlight, writes>>
  <2> DEFINE r == Staged(call[c], "sent")
  <2>1. "sent" \in Stage
    BY DEF Stage
  <2>2. /\ r \in CallRecord /\ r.stage = "sent" /\ r.kind = call[c].kind /\ r.session = call[c].session
        /\ r.next = call[c].next /\ r.clearing = call[c].clearing /\ r.stale = call[c].stale
    BY <1>1, <2>1, StagedFields
  <2> HIDE DEF r
  <2>3. call[c].session \in Token
    BY <1>1, <1>3, RecordFields
  <2>4. call[c].next = NoSession /\ ~call[c].clearing
    BY <1>1 DEF ShapeOK
  <2>5. ShapeOK(r)
    BY <1>1, <2>2, <2>3, <2>4 DEF ShapeOK
  <2>6. QuietMove(call[c], r, loaded, stored)
    BY <1>1, <2>2, <2>4 DEF QuietMove, QuietRefresh
  <2>7. call' = [call EXCEPT ![c] = r]
    BY <1>3 DEF r
  <2>8. QED
    BY <1>1, <1>3, <2>5, <2>6, <2>7, PlainStep
<1>4. QED
  BY <1>2, <1>3 DEF SendRefresh, Staged

\* what Store does to the call
LEMMA StoredStores ==
  ASSUME Inv, NEW c \in Call, call[c].stage = "answered", call[c].next # NoSession, ~call[c].stale,
         Store(call, c, call[c].next)
  PROVE  Stores(call, call', c)
<1> USE ConstantFacts
<1> DEFINE r == Staged(call[c], "writing")
<1>1. call[c] \in CallRecord /\ ShapeOK(call[c]) /\ "writing" \in Stage
  BY InvFacts DEF Stage
<1>2. /\ r \in CallRecord /\ r.stage = "writing" /\ r.kind = call[c].kind /\ r.session = call[c].session
      /\ r.next = call[c].next /\ r.clearing = call[c].clearing /\ r.stale = call[c].stale
  BY <1>1, StagedFields
<1>3. call' = [call EXCEPT ![c] = r]
  BY DEF Store, Staged
<1> HIDE DEF r
<1>4. call[c].kind \in {"refresh", "login"}
  BY <1>1, NoWorkFields, RecordFields DEF ShapeOK, Kind
<1>5. call[c].session # Reading /\ ~call[c].clearing
  BY <1>1 DEF ShapeOK
<1>6. ShapeOK(r)
  BY <1>2, <1>4, <1>5 DEF ShapeOK
<1>7. Changes(call, call', c) /\ call'[c] = r
  BY <1>2, <1>3, <1>6, InvFacts DEF Changes
<1>8. QED
  BY <1>2, <1>7 DEF Stores

LEMMA StoreRefreshStep ==
  ASSUME Inv, NEW c \in Call, StoreRefresh(c)
  PROVE  Inv'
<1> USE ConstantFacts
<1>1. /\ call[c].kind = "refresh" /\ call[c].stage = "answered" /\ ShapeOK(call[c])
      /\ UNCHANGED <<server, stored, history>>
  BY InvFacts DEF StoreRefresh, At
<1>2. CASE FailRefresh(call, loaded, writes, c)
  <2>1. call[c].session # Reading
    BY <1>1 DEF ShapeOK
  <2>2. QED
    BY <1>1, <1>2, <2>1, FailInv
<1>3. CASE call[c].next # NoSession /\ ~call[c].stale /\ Store(call, c, call[c].next)
  <2>1. Stores(call, call', c)
    BY <1>1, <1>3, StoredStores
  <2>2. Good(token, call', call[c].next, inFlight, Append(writes, Entry(call[c].next, c)), stored, late,
             crashed, out, ended, NoCall)
    BY <1>1, <2>1, InvGood, StoreStep
  <2>3. /\ loaded' = call[c].next /\ writes' = Append(writes, Entry(call[c].next, c)) /\ inFlight' = inFlight
        /\ stored' = stored /\ late' = late /\ crashed' = crashed /\ out' = out /\ ended' = ended
    BY <1>1, <1>3 DEF Store, history
  <2>4. QED
    BY <1>1, <2>2, <2>3, InvGood, DeviceStep
<1>4. QED
  BY <1>2, <1>3 DEF StoreRefresh

LEMMA StoreLoginStep ==
  ASSUME Inv, NEW c \in Call, StoreLogin(c)
  PROVE  Inv'
<1> USE ConstantFacts
<1>1. /\ call[c].kind = "login" /\ call[c].stage = "answered" /\ ShapeOK(call[c]) /\ call[c] \in CallRecord
      /\ UNCHANGED <<server, stored, crashed, late, ended>>
  BY InvFacts DEF StoreLogin, At
<1>2. CASE call[c].stale /\ call' = [call EXCEPT ![c] = NoWork] /\ UNCHANGED <<loaded, inFlight, writes, out>>
  BY <1>1, <1>2, EndsQuietly DEF history
<1>3. CASE ~call[c].stale /\ Store(call, c, call[c].next) /\ out' = FALSE
  <2>1. CASE call[c].next # NoSession
    <3>1. Stores(call, call', c)
      BY <1>1, <1>3, <2>1, StoredStores
    <3>2. Good(token, call', call[c].next, inFlight, Append(writes, Entry(call[c].next, c)), stored, late,
               crashed, FALSE, ended, NoCall)
      BY <1>1, <3>1, InvGood, StoreStep
    <3>3. /\ loaded' = call[c].next /\ writes' = Append(writes, Entry(call[c].next, c)) /\ inFlight' = inFlight
          /\ stored' = stored /\ late' = late /\ crashed' = crashed /\ out' = FALSE /\ ended' = ended
      BY <1>1, <1>3 DEF Store
    <3>4. QED
      BY <1>1, <3>2, <3>3, InvGood, DeviceStep
  <2>2. CASE call[c].next = NoSession
    BY <1>1, <2>2 DEF ShapeOK
  <2>3. QED
    BY <2>1, <2>2
<1>4. QED
  BY <1>2, <1>3 DEF StoreLogin

\* a login or a logout outdates the other calls and clears
LEMMA ClearInv ==
  ASSUME Inv, NEW c \in Call, call[c].stage # "writing", NEW r, BeginsToClear(call[c], r),
         call' = [Outdated(call, c) EXCEPT ![c] = r], inFlight' = NoCall, loaded' = NoSession,
         writes' = Append(writes, Entry(NoSession, c)), UNCHANGED <<server, stored, history>>
  PROVE  Inv'
<1>1. Clears(call, inFlight, call', NoCall, c, NoCall)
  BY InvFacts, OutdatingClears
<1>2. Good(token, call', NoSession, NoCall, writes', stored, late, crashed, out, ended, NoCall)
  BY <1>1, InvGood, ClearStep
<1>3. stored' = stored /\ late' = late /\ crashed' = crashed /\ out' = out /\ ended' = ended
  BY DEF history
<1>4. QED
  BY <1>2, <1>3, InvGood, DeviceStep

LEMMA SignsOutStep ==
  ASSUME Inv, NEW c \in Call, Login(c) \/ ClearForLogout(c)
  PROVE  Inv'
<1> USE ConstantFacts
<1>1. CASE Login(c)
  <2> DEFINE r == [NoWork EXCEPT !.kind = "login", !.stage = "writing", !.clearing = TRUE]
  <2>1. /\ r \in CallRecord /\ r.kind = "login" /\ r.stage = "writing" /\ r.clearing
        /\ r.session = NoSession /\ r.next = NoSession
    BY NoWorkFields DEF NoWork, CallRecord, Kind, Stage
  <2>2. /\ call[c] = NoWork /\ call' = [Outdated(call, c) EXCEPT ![c] = r]
        /\ inFlight' = NoCall /\ loaded' = NoSession
        /\ writes' = Append(writes, Entry(NoSession, c)) /\ UNCHANGED <<server, stored, history>>
    BY <1>1 DEF Login
  <2> HIDE DEF r
  <2>3. BeginsToClear(call[c], r) /\ call[c].stage # "writing"
    BY <2>1, <2>2, NoWorkFields DEF BeginsToClear, ShapeOK
  <2>4. QED
    BY <2>2, <2>3, ClearInv
<1>2. CASE ClearForLogout(c)
  <2> DEFINE r == Clearing(call[c])
  <2>1. /\ call[c].kind = "logout" /\ call[c].stage = "reading" /\ call[c].session # Reading
        /\ call[c] \in CallRecord /\ ShapeOK(call[c])
    BY <1>2, InvFacts DEF ClearForLogout, At, HasRead
  <2>2. /\ r \in CallRecord /\ r.stage = "writing" /\ r.kind = "logout" /\ r.session = call[c].session
        /\ r.next = call[c].next /\ r.clearing
    BY <2>1, ClearingFields
  <2>3. Outdated(call, c)[c] = call[c]
    BY InvFacts, OutdatedCopies
  <2>4. /\ call' = [Outdated(call, c) EXCEPT ![c] = r]
        /\ inFlight' = NoCall /\ loaded' = NoSession
        /\ writes' = Append(writes, Entry(NoSession, c)) /\ UNCHANGED <<server, stored, history>>
    <3>1. call' = [Outdated(call, c) EXCEPT ![c] = [Outdated(call, c)[c] EXCEPT !.stage = "writing", !.clearing = TRUE]]
      BY <1>2, InvFacts, OutdatedCopies DEF ClearForLogout
    <3>2. QED
      BY <1>2, <2>3, <3>1 DEF ClearForLogout, Clearing
  <2> HIDE DEF r
  <2>5. BeginsToClear(call[c], r)
    BY <2>1, <2>2 DEF BeginsToClear, ShapeOK
  <2>6. QED
    BY <2>1, <2>4, <2>5, ClearInv
<1>3. QED
  BY <1>1, <1>2

\* the storage is cleared for nobody, after the call that found out has ended
LEMMA ClearForNobody ==
  ASSUME NEW T, NEW P, NEW L, NEW F, NEW Q, NEW S, NEW U, NEW K, NEW O, NEW E,
         Good(T, P, L, F, Q, S, U, K, O, E, NoCall), NEW c \in Call, P[c] = NoWork
  PROVE  Good(T, Outdated(P, c), NoSession, F, Append(Q, Entry(NoSession, NoCall)), S, U, K, O, E, NoCall)
<1> USE ConstantFacts
<1>1. P \in [Call -> CallRecord] /\ \A d \in Call : ShapeOK(P[d])
  BY DEF Good, Client, MemoryOK
<1>2. OutdatedCopy(P[c], P[c])
  BY <1>1, NoWorkFields DEF OutdatedCopy
<1>3. Clears(P, F, Outdated(P, c), F, NoCall, NoCall)
  BY <1>1, <1>2, OutdatedCopies DEF Clears
<1>4. QED
  BY <1>3, ClearStep

LEMMA ResentStep ==
  ASSUME Inv, NEW c \in Call, ResentReturns(c)
  PROVE  Inv'
<1> USE ConstantFacts
<1> DEFINE P == [call EXCEPT ![c] = NoWork]
<1>1. /\ call[c].kind = "fetch" /\ call[c].stage = "resent"
      /\ UNCHANGED <<server, inFlight, stored, history>>
  BY DEF ResentReturns, At
<1>2. CASE call' = P /\ UNCHANGED <<loaded, writes>>
  BY <1>1, <1>2, EndsQuietly
<1>3. CASE /\ call' = Outdated(P, c)
           /\ loaded' = NoSession /\ writes' = Append(writes, Entry(NoSession, NoCall))
  <2>1. QuietMove(call[c], NoWork, loaded, stored)
    BY <1>1 DEF QuietMove
  <2>2. P[c] = NoWork /\ Changes(call, P, c)
    BY InvFacts, NoWorkFields, NoWorkIsOK DEF Changes
  <2>3. Quiet(call, loaded, stored, late, P, loaded, late)
    BY <2>1, <2>2, NothingGivenUp, OneQuietMove
  <2> HIDE DEF P
  <2>4. Good(token, P, loaded, inFlight, writes, stored, late, crashed, out, ended, NoCall)
    BY <2>3, InvGood, QuietStep
  <2>5. Good(token, call', NoSession, inFlight, writes', stored, late, crashed, out, ended, NoCall)
    BY <1>3, <2>2, <2>4, ClearForNobody
  <2>6. /\ loaded' = NoSession /\ inFlight' = inFlight /\ stored' = stored /\ late' = late
        /\ crashed' = crashed /\ out' = out /\ ended' = ended
    BY <1>1, <1>3 DEF history
  <2>7. QED
    BY <1>1, <2>5, <2>6, InvGood, DeviceStep
<1>4. QED
  BY <1>2, <1>3 DEF ResentReturns

-----------------------------------------------------------------------------
(* The actions of the server.                                              *)

LEMMA ServerStep ==
  ASSUME Inv, Good(token', call', loaded', inFlight', writes', stored', late', crashed', out', ended', NoCall),
         SessionsTypeOK', crashed' \in BOOLEAN, out' \in BOOLEAN
  PROVE  Inv'
  BY DEF Inv

\* what a call that ends quietly leaves
LEMMA EndedCall ==
  ASSUME Inv, NEW c \in Call, call[c].kind # "refresh", call[c].stage # "writing",
         call' = [call EXCEPT ![c] = NoWork]
  PROVE  Quiet(call, loaded, stored, late, call', loaded, late)
<1>1. QuietMove(call[c], NoWork, loaded, stored)
  BY DEF QuietMove
<1>2. call'[c] = NoWork /\ Changes(call, call', c)
  BY InvFacts, NoWorkFields, NoWorkIsOK DEF Changes
<1>3. QED
  BY <1>1, <1>2, NothingGivenUp, OneQuietMove

\* the record of the call that gets a token
LEMMA AnsweredGives ==
  ASSUME Inv, NEW c \in Call, call[c].kind \in {"refresh", "login"}, call[c].stage = "sent",
         NEW r \in Token, Answered(c, r),
         NEW P, P[c].kind = call[c].kind, P[c].stale = call[c].stale, P[c].session = call[c].session,
         P[c].stage = IF call[c].kind = "refresh" THEN "answered" ELSE "sent",
         \A d \in Call : d # c => P[d] = call[d]
  PROVE  Gives(P, call', c, r)
<1> USE ConstantFacts
<1> DEFINE n == WithNext(call[c], "answered", r)
<1>1. call[c] \in CallRecord /\ ShapeOK(call[c])
  BY InvFacts
<1>2. /\ n \in CallRecord /\ n.stage = "answered" /\ n.kind = call[c].kind /\ n.session = call[c].session
      /\ n.next = r /\ n.clearing = call[c].clearing /\ n.stale = call[c].stale
  <2>1. "answered" \in Stage /\ r \in MaybeSession
    BY DEF Stage
  <2>2. QED
    BY <1>1, <2>1, WithNextFields
<1>3. call' = [call EXCEPT ![c] = n]
  BY DEF Answered, WithNext
<1> HIDE DEF n
<1>4. ShapeOK(n)
  BY <1>1, <1>2 DEF ShapeOK
<1>5. call'[c] = n /\ call' \in [Call -> CallRecord] /\ \A d \in Call : d # c => call'[d] = call[d]
  BY <1>2, <1>3, InvFacts
<1>6. QED
  BY <1>2, <1>4, <1>5 DEF Gives, Changes

\* a refresh that uses the only token the device could use it for
LEMMA UsedByItsRefresh ==
  ASSUME NEW T, NEW P, NEW L, NEW F, NEW S, NEW U, ReplayOK(T, P, L, F, S, U),
         NEW c \in Call, NEW s \in Token, Refreshes(P, c, s), P[c].stage = "answered"
  PROVE  SpentFor(P, L, s)
<1>1. \A d \in Call : Refreshes(P, d, s) => d = c
  BY DEF ReplayOK
<1>2. \A d \in Call : Fresh(P, d) => ~Refreshes(P, c, P[d].next)
  BY DEF ReplayOK
<1>3. QED
  BY <1>1, <1>2 DEF SpentFor

LEMMA ServeRefreshStep ==
  ASSUME Inv, NEW c \in Call, ServeRefresh(c)
  PROVE  Inv'
<1> USE ConstantFacts
<1> DEFINE s == call[c].session  P == [call EXCEPT ![c] = WithNext(call[c], "answered", NoSession)]
<1>1. /\ call[c].kind = "refresh" /\ call[c].stage = "sent" /\ s \in Token
      /\ UNCHANGED <<loaded, inFlight, writes, stored, history>>
  BY InvFacts DEF ServeRefresh, At, ShapeOK
<1>2. /\ Quiet(call, loaded, stored, late, P, loaded, late)
      /\ P[c].stage = "answered" /\ P[c].kind = "refresh" /\ P[c].session = s /\ P[c].stale = call[c].stale
  BY <1>1, AnsweredNothing
<1>3. \A d \in Call : d # c => P[d] = call[d]
  BY InvFacts
<1>4. Answered(c, NoSession) => call' = P
  BY DEF Answered, WithNext
<1>5. /\ loaded' = loaded /\ inFlight' = inFlight /\ writes' = writes /\ stored' = stored
      /\ late' = late /\ crashed' = crashed /\ out' = out /\ ended' = ended
  BY <1>1 DEF history
<1> HIDE DEF P
<1>6. CASE UNCHANGED server /\ Answered(c, NoSession)
  <2>1. Good(token, P, loaded, inFlight, writes, stored, late, crashed, out, ended, NoCall)
    BY <1>2, InvGood, QuietStep
  <2>2. QED
    BY <1>4, <1>5, <1>6, <2>1, InvGood, DeviceStep
<1>7. CASE /\ RefreshNative(s)
           /\ \/ Live' \subseteq Live /\ Answered(c, NoSession)
              \/ \E t \in Live' \ Live : Answered(c, t)
  <2>1. SessionsTypeOK' /\ (Shrinks(token, token') \/ \E r \in Token : Rotates(s, r))
    BY <1>1, <1>7, RefreshKinds DEF Inv
  <2>2. CASE Shrinks(token, token')
    <3>1. Live' \subseteq Live
      BY <2>2 DEF Live, Shrinks
    <3>2. call' = P
      BY <1>4, <1>7, <3>1
    <3>3. Good(token', call, loaded, inFlight, writes, stored, late, crashed, out, ended, NoCall)
      BY <2>2, InvGood, ShrinkStep
    <3>4. Good(token', P, loaded, inFlight, writes, stored, late, crashed, out, ended, NoCall)
      BY <1>2, <3>3, QuietStep
    <3>5. QED
      BY <1>5, <2>1, <3>2, <3>4, InvGood, ServerStep
  <2>3. ASSUME NEW r \in Token, Rotates(s, r)
        PROVE  Inv'
    <3>1. /\ Adds(token, token', r) /\ token'[r].family = token[s].family
          /\ token[s].client = "NATIVE" /\ token[s].status = "live"
          /\ \A t \in Token : token'[t].status = "ROTATED" => t = s \/ token[t].status = "ROTATED"
      BY <2>3 DEF Rotates, Adds
    <3>2. /\ token[r].status = "absent" /\ token'[r].status = "live" /\ r # s
          /\ token'[s].client = "NATIVE" /\ token'[s].family = token[s].family
          /\ \A t \in Token : t # r => (token'[t].status = "live" => token[t].status = "live")
      BY <1>1, <3>1 DEF Adds
    <3>3. Live' \ Live = {r}
      BY <3>2 DEF Live
    <3>4. Answered(c, r)
      BY <1>7, <3>3
    <3>5. Good(token, P, loaded, inFlight, writes, stored, late, crashed, out, ended, NoCall)
      BY <1>2, InvGood, QuietStep
    <3>6. ASSUME ~crashed
          PROVE  \A t \in Token : Used(token', late, t) => Used(token, late, t) \/ SpentFor(P, loaded, t)
      <4>1. ReplayOK(token, P, loaded, inFlight, stored, late)
        BY <3>5, <3>6 DEF Good
      <4>2. Refreshes(P, c, s)
        BY <1>2 DEF Refreshes
      <4>3. SpentFor(P, loaded, s)
        BY <1>1, <1>2, <4>1, <4>2, UsedByItsRefresh
      <4>4. QED
        BY <3>1, <4>3 DEF Used
    <3>7. Good(token', P, loaded, inFlight, writes, stored, late, crashed, out, ended, NoCall)
      BY <3>1, <3>5, <3>6, AddStep
    <3>8. ~Held(P, loaded, writes, stored, r) /\ r \notin late /\ r \notin ended
      BY <3>2, <3>5, NewTokenIsUnknown
    <3>9. Gives(P, call', c, r)
      BY <1>1, <1>2, <1>3, <3>4, AnsweredGives
    <3>10. /\ P[c].kind = "refresh" /\ P[c].session \in Token /\ token'[P[c].session].client = "NATIVE"
           /\ token'[r].family = token'[P[c].session].family /\ token'[r].status = "live"
      BY <1>1, <1>2, <3>1, <3>2
    <3>11. Good(token', call', loaded, inFlight, writes, stored, late, crashed, out, ended, NoCall)
      BY <3>7, <3>8, <3>9, <3>10, GiveStep
    <3>12. QED
      BY <1>5, <2>1, <3>11, InvGood, ServerStep
  <2>4. QED
    BY <2>1, <2>2, <2>3
<1>8. QED
  BY <1>6, <1>7 DEF ServeRefresh

LEMMA ServeLoginStep ==
  ASSUME Inv, NEW c \in Call, ServeLogin(c)
  PROVE  Inv'
<1> USE ConstantFacts
<1>1. /\ call[c].kind = "login" /\ call[c].stage = "sent"
      /\ UNCHANGED <<account, request, replayed, loaded, inFlight, writes, stored, history>>
  BY DEF ServeLogin, At
<1>2. /\ loaded' = loaded /\ inFlight' = inFlight /\ writes' = writes /\ stored' = stored
      /\ late' = late /\ crashed' = crashed /\ out' = out /\ ended' = ended
  BY <1>1 DEF history
<1>3. CASE call' = [call EXCEPT ![c] = NoWork] /\ UNCHANGED token
  BY <1>1, <1>3, EndsQuietly DEF server
<1>4. ASSUME NEW t \in Unused(token), token' = Insert(token, t, "NATIVE", t, account.version),
             Answered(c, t) \/ call' = [call EXCEPT ![c] = NoWork]
      PROVE  Inv'
  <2>1. /\ SessionsTypeOK' /\ Adds(token, token', t) /\ t \in Token
        /\ token'[t].family = t /\ \A s \in Token : s # t => token'[s] = token[s]
    BY <1>1, <1>4, LoginKind DEF Inv
  <2>2. token[t].status = "absent" /\ token'[t].status = "live"
    BY <2>1 DEF Adds
  <2>3. \A s \in Token : Used(token', late, s) => Used(token, late, s)
    BY <2>1, <2>2 DEF Used
  <2>4. Good(token', call, loaded, inFlight, writes, stored, late, crashed, out, ended, NoCall)
    BY <2>1, <2>3, InvGood, AddStep
  <2>5. CASE call' = [call EXCEPT ![c] = NoWork]
    <3>1. Quiet(call, loaded, stored, late, call', loaded, late)
      BY <1>1, <2>5, EndedCall
    <3>2. Good(token', call', loaded, inFlight, writes, stored, late, crashed, out, ended, NoCall)
      BY <2>4, <3>1, QuietStep
    <3>3. QED
      BY <1>2, <2>1, <3>2, InvGood, ServerStep
  <2>6. CASE Answered(c, t)
    <3>1. /\ ~Held(call, loaded, writes, stored, t) /\ t \notin late /\ t \notin ended
          /\ \A s \in Token : token[s].client = "NATIVE" => token[s].family # t
      BY <2>1, <2>2, InvGood, NewTokenIsUnknown
    <3>2. Gives(call, call', c, t)
      BY <1>1, <2>1, <2>6, AnsweredGives
    <3>3. \A s \in Token : s # t /\ token'[s].client = "NATIVE" => token'[s].family # t
      BY <2>1, <3>1
    <3>4. Good(token', call', loaded, inFlight, writes, stored, late, crashed, out, ended, NoCall)
      BY <1>1, <2>1, <2>2, <2>4, <3>1, <3>2, <3>3, GiveStep
    <3>5. QED
      BY <1>2, <2>1, <3>4, InvGood, ServerStep
  <2>7. QED
    BY <1>4, <2>5, <2>6
<1>5. QED
  BY <1>3, <1>4 DEF ServeLogin

LEMMA ServeLogoutStep ==
  ASSUME Inv, NEW c \in Call, ServeLogout(c)
  PROVE  Inv'
<1> DEFINE s == call[c].session  f == token[s].family
<1>1. /\ call[c].kind = "logout" /\ call[c].stage = "sent" /\ s \in Token /\ LogoutNative(s)
      /\ call' = [call EXCEPT ![c] = NoWork] /\ ended' = ended \cup {f}
      /\ UNCHANGED <<loaded, inFlight, writes, stored, crashed, late, out>>
  BY InvFacts DEF ServeLogout, At, ShapeOK
<1>2. /\ SessionsTypeOK' /\ Shrinks(token, token') /\ token[s].client = "NATIVE" /\ f \in Token
      /\ \A t \in Token : OfFamily(token', t, f) => token'[t].status # "live"
  BY <1>1, LogoutKind DEF Inv
<1>3. token[f].status # "absent" /\ Gone(token, call, loaded, writes, stored, f)
  BY <1>1, <1>2, InvGood DEF Good, RowsOK, GoneOK
<1>4. Good(token', call, loaded, inFlight, writes, stored, late, crashed, out, ended \cup {f}, NoCall)
  <2>1. \A g \in ended \cup {f} :
          g \in ended \/ /\ g \in Token /\ token[g].status # "absent" /\ Gone(token, call, loaded, writes, stored, g)
                         /\ \A t \in Token : OfFamily(token', t, g) => token'[t].status # "live"
    BY <1>2, <1>3
  <2> HIDE DEF f, s
  <2>2. QED
    BY <1>2, <2>1, InvGood, ShrinkStep
<1>5. Quiet(call, loaded, stored, late, call', loaded, late)
  BY <1>1, EndedCall
<1>6. Good(token', call', loaded, inFlight, writes, stored, late, crashed, out, ended', NoCall)
  BY <1>1, <1>4, <1>5, QuietStep
<1>7. /\ loaded' = loaded /\ inFlight' = inFlight /\ writes' = writes /\ stored' = stored
      /\ late' = late /\ crashed' = crashed /\ out' = out
  BY <1>1
<1>8. QED
  BY <1>2, <1>6, <1>7, InvGood, ServerStep

LEMMA ServeLateStep ==
  ASSUME Inv, NEW t \in Token, ServeLate(t)
  PROVE  Inv'
<1>1. /\ t \in late /\ RefreshNative(t) /\ late' = late \ {t}
      /\ UNCHANGED <<memory, stored, crashed, out, ended>>
  BY DEF ServeLate
<1>2. /\ call' = call /\ loaded' = loaded /\ inFlight' = inFlight /\ writes' = writes /\ stored' = stored
      /\ crashed' = crashed /\ out' = out /\ ended' = ended
  BY <1>1 DEF memory
<1>3. SessionsTypeOK' /\ (Shrinks(token, token') \/ \E r \in Token : Rotates(t, r))
  BY <1>1, RefreshKinds DEF Inv
<1>4. late' \subseteq late
  BY <1>1
<1>5. CASE Shrinks(token, token')
  <2>1. Good(token', call, loaded, inFlight, writes, stored, late', crashed, out, ended, NoCall)
    BY <1>4, <1>5, InvGood, ShrinkStep
  <2>2. QED
    BY <1>2, <1>3, <2>1, InvGood, ServerStep
<1>6. ASSUME NEW r \in Token, Rotates(t, r)
      PROVE  Inv'
  <2>1. /\ Adds(token, token', r)
        /\ \A s \in Token : token'[s].status = "ROTATED" => s = t \/ token[s].status = "ROTATED"
    BY <1>6 DEF Rotates, Adds
  <2>2. \A s \in Token : Used(token', late', s) => Used(token, late, s)
    BY <1>1, <2>1 DEF Used
  <2>3. Good(token', call, loaded, inFlight, writes, stored, late', crashed, out, ended, NoCall)
    BY <1>4, <2>1, <2>2, InvGood, AddStep
  <2>4. QED
    BY <1>2, <1>3, <2>3, InvGood, ServerStep
<1>7. QED
  BY <1>3, <1>5, <1>6

LEMMA AccountDeletedStep ==
  ASSUME Inv, AccountDeleted
  PROVE  Inv'
<1>1. /\ call' = call /\ loaded' = loaded /\ inFlight' = inFlight /\ writes' = writes /\ stored' = stored
      /\ late' = late /\ crashed' = crashed /\ out' = out /\ ended' = ended
  BY DEF AccountDeleted, memory, history
<1>2. SessionsTypeOK' /\ Shrinks(token, token')
  BY DeletionKind DEF AccountDeleted, Inv
<1>3. Good(token', call, loaded, inFlight, writes, stored, late, crashed, out, ended, NoCall)
  BY <1>2, InvGood, ShrinkStep
<1>4. QED
  BY <1>1, <1>2, <1>3, InvGood, ServerStep

-----------------------------------------------------------------------------
(* The actions of the storage.                                             *)

Got(r, session) == [r EXCEPT !.session = session]
Cleared(r) == [r EXCEPT !.stage = "sent", !.clearing = FALSE]

LEMMA GotFields ==
  ASSUME NEW r \in CallRecord, NEW session \in MaybeSession
  PROVE  LET n == Got(r, session) IN
         /\ n \in CallRecord /\ n.stage = r.stage /\ n.kind = r.kind /\ n.session = session
         /\ n.next = r.next /\ n.clearing = r.clearing /\ n.stale = r.stale
  BY DEF CallRecord, Got

LEMMA ClearedFields ==
  ASSUME NEW r \in CallRecord
  PROVE  LET n == Cleared(r) IN
         /\ n \in CallRecord /\ n.stage = "sent" /\ n.kind = r.kind /\ n.session = r.session
         /\ n.next = r.next /\ ~n.clearing /\ n.stale = r.stale
  BY DEF CallRecord, Stage, Cleared

\* a call that reads gets something from storage, or nothing
LEMMA GotIsQuiet ==
  ASSUME NEW r \in CallRecord, ShapeOK(r), r.stage \in {"reading", "rereading"},
         NEW L, NEW S, NEW session \in MaybeSession,
         session = NoSession \/ (session = S /\ r.session = Reading)
  PROVE  ShapeOK(Got(r, session)) /\ QuietMove(r, Got(r, session), L, S)
<1> USE ConstantFacts
<1> DEFINE n == Got(r, session)
<1>1. /\ n \in CallRecord /\ n.stage = r.stage /\ n.kind = r.kind /\ n.session = session
      /\ n.next = r.next /\ n.clearing = r.clearing /\ n.stale = r.stale
  BY GotFields
<1> HIDE DEF n
<1>2. r.kind \in {"refresh", "logout", "fetch"}
  BY NoWorkFields, RecordFields DEF ShapeOK, Kind
<1>3. ~r.clearing /\ session # Reading
  BY DEF ShapeOK
<1>4. ShapeOK(n)
  BY <1>1, <1>2, <1>3 DEF ShapeOK
<1>5. CASE r.kind = "refresh"
  <2>1. r.stage = "reading" /\ r.next = NoSession
    BY <1>5 DEF ShapeOK
  <2>2. QuietRefresh(r, n, S)
    BY <1>1, <1>5, <2>1 DEF QuietRefresh
  <2>3. QED
    BY <1>4, <2>2 DEF QuietMove, n
<1>6. CASE r.kind # "refresh"
  <2>1. TakesFrom(r, n, L, S)
    BY <1>1, <1>3 DEF TakesFrom
  <2>2. r.kind = "logout" => r.stage = "reading"
    BY DEF ShapeOK
  <2>3. QuietMove(r, n, L, S)
    BY <1>1, <1>2, <1>6, <2>1, <2>2 DEF QuietMove
  <2>4. QED
    BY <1>4, <2>3 DEF n
<1>7. QED
  BY <1>5, <1>6

LEMMA GetStep ==
  ASSUME Inv, GetReturns \/ GetFails
  PROVE  Inv'
<1> USE ConstantFacts
<1>1. /\ loaded' = loaded \/ (loaded = Reading /\ loaded' \in {stored, Unread})
      /\ UNCHANGED <<server, inFlight, writes, stored, history>>
  BY DEF GetReturns, GetFails
<1>2. ASSUME NEW c \in Call
      PROVE  \/ call'[c] = call[c]
             \/ call[c].session = Reading /\ call'[c] \in {Got(call[c], stored), Got(call[c], NoSession)}
             \/ call[c].session = Reading /\ call[c].kind # "refresh" /\ call'[c] = NoWork
  BY DEF GetReturns, GetFails, Got
<1>3. call' = [c \in Call |-> call'[c]]
  <2>1. CASE GetReturns
    <3>1. call' = [c \in Call |-> IF call[c].session = Reading THEN [call[c] EXCEPT !.session = stored] ELSE call[c]]
      BY <2>1 DEF GetReturns
    <3>2. QED
      BY <3>1
  <2>2. CASE GetFails
    <3>1. call' = [c \in Call |->
                     IF call[c].session # Reading THEN call[c]
                     ELSE IF call[c].kind = "refresh" THEN [call[c] EXCEPT !.session = NoSession] ELSE NoWork]
      BY <2>2 DEF GetFails
    <3>2. QED
      BY <3>1
  <2>3. QED
    BY <2>1, <2>2
<1>4. ASSUME NEW c \in Call
      PROVE  ShapeOK(call'[c]) /\ QuietMove(call[c], call'[c], loaded, stored)
  <2>1. ShapeOK(call[c]) /\ call[c] \in CallRecord /\ stored \in MaybeSession
    BY InvFacts
  <2>2. CASE call'[c] = call[c]
    BY <2>1, <2>2 DEF QuietMove
  <2>3. CASE call[c].session = Reading /\ call'[c] \in {Got(call[c], stored), Got(call[c], NoSession)}
    <3>1. call[c].stage \in {"reading", "rereading"}
      BY <2>1, <2>3 DEF ShapeOK
    <3>2. QED
      BY <2>1, <2>3, <3>1, GotIsQuiet
  <2>4. CASE call[c].session = Reading /\ call[c].kind # "refresh" /\ call'[c] = NoWork
    BY <2>1, <2>4, NoWorkIsOK DEF QuietMove, ShapeOK
  <2>5. QED
    BY <1>2, <2>2, <2>3, <2>4
<1>5. call' \in [Call -> CallRecord]
  BY <1>3, <1>4 DEF ShapeOK
<1>6. late' = late
  BY <1>1 DEF history
<1>7. Quiet(call, loaded, stored, late, call', loaded', late')
  BY <1>1, <1>4, <1>5, <1>6, NothingGivenUp DEF Quiet
<1>8. QED
  BY <1>1, <1>7, QuietInv DEF history

\* the first write is over, and its call has not gone on yet
LEMMA WritePops ==
  ASSUME Inv, Writable, NEW S2 \in {stored, Head(writes).session}
  PROVE  LET w == Head(writes)  c == w.by  IN
         /\ Good(token, call, loaded, inFlight, Tail(writes), S2, late, crashed, out, ended, c)
         /\ w.session \in MaybeSession /\ c \in Call \cup {NoCall}
         /\ c # NoCall => /\ call[c].stage = "writing" /\ w.session = call[c].next
                          /\ ShapeOK(call[c]) /\ call[c] \in CallRecord /\ c \in Call
  BY InvGood, InvFacts, PopStep DEF Writable

LEMMA WriteSucceedsStep ==
  ASSUME Inv, WriteSucceeds
  PROVE  Inv'
<1> USE ConstantFacts
<1> DEFINE w == Head(writes)  c == w.by  Q == Tail(writes)
<1>1. Writable /\ stored' = w.session /\ UNCHANGED <<server, crashed, late, ended>>
  BY DEF WriteSucceeds
<1>2. /\ Good(token, call, loaded, inFlight, Q, stored', late, crashed, out, ended, c)
      /\ stored' \in MaybeSession /\ c \in Call \cup {NoCall}
      /\ c # NoCall => /\ call[c].stage = "writing" /\ stored' = call[c].next
                       /\ ShapeOK(call[c]) /\ call[c] \in CallRecord /\ c \in Call
  BY <1>1, WritePops
<1>3. CASE c = NoCall /\ call' = call /\ writes' = Q /\ UNCHANGED <<loaded, inFlight, out>>
  BY <1>1, <1>2, <1>3, InvGood, DeviceStep
<1>4. CASE /\ c # NoCall /\ call[c].kind = "refresh" /\ UNCHANGED out
           /\ EndRefresh(call, loaded, Q, c, IF call[c].clearing THEN NoSession ELSE call[c].next)
  <2> DEFINE result == IF call[c].clearing THEN NoSession ELSE call[c].next
  <2>1. result \in {call[c].next, NoSession} /\ EndRefresh(call, loaded, Q, c, result)
    BY <1>4
  <2> HIDE DEF result, c, Q, w
  <2>2. Good(token, call', loaded', inFlight', writes', stored', late, crashed, out, ended, NoCall)
    BY <1>2, <1>4, <2>1, EndRefreshStep
  <2>3. QED
    BY <1>1, <1>4, <2>2, InvGood, DeviceStep
<1>5. CASE /\ c # NoCall /\ call[c].kind = "login" /\ UNCHANGED <<out, loaded, inFlight>> /\ writes' = Q
           /\ call' = [call EXCEPT ![c] = IF @.clearing THEN [@ EXCEPT !.stage = "sent", !.clearing = FALSE] ELSE NoWork]
  <2> DEFINE r == IF call[c].clearing THEN Cleared(call[c]) ELSE NoWork
  <2>1. call' = [call EXCEPT ![c] = r]
    BY <1>5 DEF Cleared
  <2>2. /\ Cleared(call[c]) \in CallRecord /\ Cleared(call[c]).stage = "sent" /\ Cleared(call[c]).kind = "login"
        /\ Cleared(call[c]).session = call[c].session /\ Cleared(call[c]).next = call[c].next
        /\ ~Cleared(call[c]).clearing /\ Cleared(call[c]).stale = call[c].stale
    BY <1>2, <1>5, ClearedFields
  <2> HIDE DEF c, Q, w
  <2>3. call[c].clearing => call[c].next = NoSession /\ call[c].session # Reading
    BY <1>2, <1>5 DEF ShapeOK
  <2>4. ShapeOK(r)
    BY <2>2, <2>3, NoWorkIsOK DEF ShapeOK
  <2>5. call'[c] = r /\ Changes(call, call', c)
    BY <1>2, <1>5, <2>1, <2>4, InvFacts DEF Changes, ShapeOK
  <2>6. Releases(call, call', c)
    BY <1>5, <2>2, <2>5 DEF Releases
  <2>7. Good(token, call', loaded, inFlight, Q, stored', late, crashed, out, ended, NoCall)
    BY <1>2, <1>5, <2>6, ReleaseStep
  <2>8. QED
    BY <1>1, <1>5, <2>7, InvGood, DeviceStep
<1>6. CASE /\ c # NoCall /\ call[c].kind = "logout" /\ out' = TRUE /\ UNCHANGED <<loaded, inFlight>> /\ writes' = Q
           /\ call' = [call EXCEPT ![c] = IF @.session = NoSession THEN NoWork
                                          ELSE [@ EXCEPT !.stage = "sent", !.clearing = FALSE]]
  <2> DEFINE r == IF call[c].session = NoSession THEN NoWork ELSE Cleared(call[c])
  <2>1. call' = [call EXCEPT ![c] = r]
    BY <1>6 DEF Cleared
  <2>2. /\ Cleared(call[c]) \in CallRecord /\ Cleared(call[c]).stage = "sent" /\ Cleared(call[c]).kind = "logout"
        /\ Cleared(call[c]).session = call[c].session /\ Cleared(call[c]).next = call[c].next
        /\ ~Cleared(call[c]).clearing /\ Cleared(call[c]).stale = call[c].stale
    BY <1>2, <1>6, ClearedFields
  <2> HIDE DEF c, Q, w
  <2>3. /\ call[c].next = NoSession /\ stored' = NoSession
        /\ call[c].session # NoSession => call[c].session \in Token
    BY <1>2, <1>6, RecordFields DEF ShapeOK
  <2>4. ShapeOK(r)
    BY <2>2, <2>3, NoWorkIsOK DEF ShapeOK
  <2>5. call'[c] = r /\ Changes(call, call', c)
    <3>1. c \in Call /\ r \in CallRecord /\ call \in [Call -> CallRecord]
      BY <1>2, <1>6, <2>4, InvFacts DEF ShapeOK
    <3> HIDE DEF r
    <3>2. QED
      BY <2>1, <2>4, <3>1 DEF Changes
  <2>6. Releases(call, call', c)
    BY <1>6, <2>2, <2>5 DEF Releases
  <2>7. OutOK(call, loaded, Q, stored')
    BY <1>2, <1>6, <2>3, LogoutLeavesNothing DEF OutOK
  <2>8. Good(token, call, loaded, inFlight, Q, stored', late, crashed, TRUE, ended, c)
    BY <1>2, <2>7 DEF Good
  <2>9. Good(token, call', loaded, inFlight, Q, stored', late, crashed, TRUE, ended, NoCall)
    BY <1>2, <1>6, <2>3, <2>6, <2>8, ReleaseStep
  <2>10. QED
    BY <1>1, <1>6, <2>9, InvGood, DeviceStep
<1>7. QED
  BY <1>3, <1>4, <1>5, <1>6 DEF WriteSucceeds

LEMMA UnwrittenIsQuiet ==
  ASSUME NEW P \in [Call -> CallRecord], \A d \in Call : ShapeOK(P[d]), NEW session, NEW L, NEW S
  PROVE  /\ Unwritten(P, session) \in [Call -> CallRecord]
         /\ \A d \in Call : /\ ShapeOK(Unwritten(P, session)[d])
                            /\ QuietMove(P[d], Unwritten(P, session)[d], L, S)
                            /\ P[d].stage = "writing" => Unwritten(P, session)[d] = P[d]
<1> DEFINE P2 == Unwritten(P, session)
<1>1. ASSUME NEW d \in Call
      PROVE  \/ P2[d] = P[d]
             \/ P[d].stage \in {"reading", "rereading"} /\ P2[d] = Got(P[d], NoSession)
  BY DEF Unwritten, Got
<1>2. P2 = [d \in Call |-> P2[d]]
  BY DEF Unwritten
<1> HIDE DEF P2
<1>3. NoSession \in MaybeSession
  BY DEF MaybeSession
<1>4. ASSUME NEW d \in Call
      PROVE  ShapeOK(P2[d]) /\ QuietMove(P[d], P2[d], L, S) /\ (P[d].stage = "writing" => P2[d] = P[d])
  <2>1. CASE P2[d] = P[d]
    BY <2>1 DEF QuietMove
  <2>2. CASE P[d].stage \in {"reading", "rereading"} /\ P2[d] = Got(P[d], NoSession)
    BY <1>3, <2>2, GotIsQuiet
  <2>3. QED
    BY <1>1, <2>1, <2>2
<1>5. P2 \in [Call -> CallRecord]
  BY <1>2, <1>4 DEF ShapeOK
<1>6. QED
  BY <1>4, <1>5 DEF P2

LEMMA WriteFailsStep ==
  ASSUME Inv, WriteFails
  PROVE  Inv'
<1> USE ConstantFacts
<1> DEFINE w == Head(writes)  c == w.by  Q == Tail(writes)
           P == IF w.session = NoSession THEN call ELSE Unwritten(call, w.session)
           L == IF w.session # NoSession /\ loaded = w.session THEN NoSession ELSE loaded
           P0 == [P EXCEPT ![c] = NoWork]
<1>1. Writable /\ stored' \in {stored, w.session} /\ UNCHANGED <<server, history>>
  BY DEF WriteFails
<1>2. /\ Good(token, call, loaded, inFlight, Q, stored', late, crashed, out, ended, c)
      /\ c \in Call \cup {NoCall}
      /\ c # NoCall => call[c].stage = "writing" /\ ShapeOK(call[c]) /\ c \in Call
  BY <1>1, WritePops
<1>3. /\ late' = late /\ crashed' = crashed /\ out' = out /\ ended' = ended
  BY <1>1 DEF history
<1>4. Quiet(call, loaded, stored', late, P, L, late) /\ (c # NoCall => P[c] = call[c])
  <2>1. P \in [Call -> CallRecord]
    BY InvFacts, UnwrittenIsQuiet
  <2>2. \A d \in Call : /\ ShapeOK(P[d]) /\ QuietMove(call[d], P[d], loaded, stored')
                        /\ call[d].stage = "writing" => P[d] = call[d]
    <3>1. CASE w.session = NoSession
      BY <3>1, InvFacts DEF QuietMove
    <3>2. CASE w.session # NoSession
      <4>1. P = Unwritten(call, w.session)
        BY <3>2
      <4> HIDE DEF P, w
      <4>2. call \in [Call -> CallRecord] /\ \A d \in Call : ShapeOK(call[d])
        BY InvFacts
      <4>3. QED
        BY ZenonT(60), ZenonT(90), <4>1, <4>2, UnwrittenIsQuiet
    <3>3. QED
      BY <3>1, <3>2
  <2>3. L \in {loaded, NoSession}
    OBVIOUS
  <2> HIDE DEF P, L, c, w
  <2>4. QED
    BY <1>2, <2>1, <2>2, <2>3, NothingGivenUp DEF Quiet
<1>5. /\ \/ c = NoCall /\ call' = P /\ loaded' = L /\ writes' = Q /\ UNCHANGED inFlight
         \/ c # NoCall /\ call[c].kind = "refresh" /\ call[c].clearing /\ EndRefresh(P, L, Q, c, NoSession)
         \/ c # NoCall /\ call[c].kind = "refresh" /\ FailRefresh(P, L, Q, c)
         \/ /\ c # NoCall /\ call[c].kind = "login"
            /\ call' = Outdated(P0, c)
            /\ loaded' = NoSession /\ writes' = Append(Q, Entry(NoSession, NoCall)) /\ UNCHANGED inFlight
         \/ /\ c # NoCall /\ call[c].kind \in {"login", "logout"}
            /\ call' = P0 /\ loaded' = L /\ writes' = Q /\ UNCHANGED inFlight
  BY DEF WriteFails
<1> HIDE DEF w, c, Q, P, L
<1>6. Good(token, P, L, inFlight, Q, stored', late, crashed, out, ended, c)
  BY <1>2, <1>4, QuietStep
<1>7. CASE c = NoCall /\ call' = P /\ loaded' = L /\ writes' = Q /\ UNCHANGED inFlight
  BY <1>1, <1>3, <1>6, <1>7, InvGood, DeviceStep
<1>8. ASSUME c # NoCall, call[c].kind = "refresh"
      PROVE  P[c].kind = "refresh" /\ P[c].session # Reading /\ c \in Call
  BY <1>2, <1>4, <1>8 DEF ShapeOK
<1>9. CASE c # NoCall /\ call[c].kind = "refresh" /\ call[c].clearing /\ EndRefresh(P, L, Q, c, NoSession)
  <2>1. Good(token, call', loaded', inFlight', writes', stored', late, crashed, out, ended, NoCall)
    BY <1>6, <1>8, <1>9, EndRefreshStep
  <2>2. QED
    BY <1>1, <1>3, <2>1, InvGood, DeviceStep
<1>10. CASE c # NoCall /\ call[c].kind = "refresh" /\ FailRefresh(P, L, Q, c)
  <2>1. Good(token, call', loaded', inFlight', writes', stored', late, crashed, out, ended, NoCall)
    BY <1>6, <1>8, <1>10, FailStep
  <2>2. QED
    BY <1>1, <1>3, <2>1, InvGood, DeviceStep
<1>11. ASSUME c # NoCall, call[c].kind \in {"login", "logout"}
       PROVE  /\ Good(token, P0, L, inFlight, Q, stored', late, crashed, out, ended, NoCall)
              /\ P0[c] = NoWork
  <2>1. c \in Call /\ P[c] = call[c]
    BY <1>2, <1>4, <1>11
  <2>2. P \in [Call -> CallRecord]
    BY <1>6 DEF Good, Client, MemoryOK
  <2>3. P0[c] = NoWork /\ Releases(P, P0, c)
    BY <2>1, <2>2, NoWorkFields, NoWorkIsOK DEF Releases, Changes
  <2> HIDE DEF P0
  <2>4. QED
    BY <1>6, <1>11, <2>1, <2>3, ReleaseStep
<1> HIDE DEF P0
<1>12. CASE /\ c # NoCall /\ call[c].kind = "login"
            /\ call' = Outdated(P0, c)
            /\ loaded' = NoSession /\ writes' = Append(Q, Entry(NoSession, NoCall)) /\ UNCHANGED inFlight
  <2>1. Good(token, call', loaded', inFlight', writes', stored', late, crashed, out, ended, NoCall)
    BY <1>2, <1>11, <1>12, ClearForNobody
  <2>2. QED
    BY <1>1, <1>3, <2>1, InvGood, DeviceStep
<1>13. CASE /\ c # NoCall /\ call[c].kind \in {"login", "logout"}
            /\ call' = P0 /\ loaded' = L /\ writes' = Q /\ UNCHANGED inFlight
  <2>1. Good(token, call', loaded', inFlight', writes', stored', late, crashed, out, ended, NoCall)
    BY <1>11, <1>13
  <2>2. QED
    BY <1>1, <1>3, <2>1, InvGood, DeviceStep
<1>14. QED
  BY SMTT(40), SMTT(80), <1>5, <1>7, <1>9, <1>10, <1>12, <1>13

-----------------------------------------------------------------------------
(* The application is killed: nothing is left but what was stored.         *)

LEMMA CrashStep ==
  ASSUME Inv, Crash
  PROVE  Inv'
<1> USE ConstantFacts
<1> DEFINE given == {call[c].session : c \in {d \in Call : At(d, "refresh", "sent")}}
<1>1. /\ crashed' = TRUE /\ call' = [c \in Call |-> NoWork] /\ loaded' = Unread
      /\ inFlight' = NoCall /\ writes' = <<>> /\ late' = late \cup given
      /\ UNCHANGED <<server, stored, out, ended>>
  BY DEF Crash
<1>2. \A c \in Call : call'[c] = NoWork
  BY <1>1
<1>3. \A t \in given : t \in Token /\ Held(call, loaded, writes, stored, t)
  BY InvFacts DEF At, ShapeOK, Held
<1> HIDE DEF given
<1>4. writes' \in Seq(Write) /\ Len(writes') = 0
  BY <1>1, EmptySeq
<1>5. MemoryOK(call', Unread, NoCall, stored)
  BY <1>1, <1>2, NoWorkFields, NoWorkIsOK, InvFacts DEF MemoryOK
<1>6. QueueOK(call', Unread, writes', NoCall)
  BY <1>1, <1>2, <1>4, NoWorkFields DEF QueueOK
<1>7. LeavingOK(call', Unread, writes', NoCall)
  BY <1>2, NoWorkFields DEF LeavingOK, Leaving
<1>8. NothingNew(call, loaded, writes, stored, call', Unread, writes', stored)
  BY <1>2, <1>4, NoWorkFields DEF NothingNew, Held, InMemory, Arriving, Current
<1>9. NoNewLogout(call, call')
  BY <1>2, NoWorkFields DEF NoNewLogout
<1>10. late' \in SUBSET Token /\ \A t \in late' : t \in late \/ Held(call, loaded, writes, stored, t)
  BY <1>1, <1>3, InvFacts
<1>11. /\ RowsOK(token, call, loaded, writes, stored, late, ended)
       /\ out => OutOK(call, loaded, writes, stored)
       /\ GoneOK(token, call, loaded, writes, stored, ended)
  BY InvGood DEF Good
<1>12. /\ RowsOK(token, call', Unread, writes', stored, late', ended)
       /\ out => OutOK(call', Unread, writes', stored)
       /\ GoneOK(token, call', Unread, writes', stored, ended)
  BY <1>8, <1>9, <1>10, <1>11, NothingNewKeeps
<1>13. Good(token, call', Unread, NoCall, writes', stored, late', TRUE, out, ended, NoCall)
  BY <1>5, <1>6, <1>7, <1>12 DEF Good, Client
<1>14. QED
  BY <1>1, <1>13, InvGood, DeviceStep

-----------------------------------------------------------------------------
(* The invariant holds.                                                    *)

LEMMA InitInv ==
  ASSUME Init
  PROVE  Inv
<1> USE ConstantFacts DEF Init, InitSessions
<1>1. 0 \in Version /\ 1 \in Token
  BY ConstantAssumption DEF Version, Token
<1>2. NoRow \in Row /\ NoRow.client = "NONE" /\ NoRow.status = "absent"
  BY <1>1 DEF NoRow, Row
<1>3. SessionsTypeOK
  BY <1>1, <1>2 DEF SessionsTypeOK, Account, Idle
<1>4. \A c \in Call : call[c] = NoWork
  OBVIOUS
<1>5. writes \in Seq(Write) /\ Len(writes) = 0
  BY EmptySeq
<1>6. MemoryOK(call, loaded, inFlight, stored)
  BY <1>4, NoWorkFields, NoWorkIsOK DEF MemoryOK
<1>7. QueueOK(call, loaded, writes, NoCall)
  BY <1>4, <1>5, NoWorkFields DEF QueueOK
<1>8. LeavingOK(call, loaded, writes, NoCall)
  BY <1>4, NoWorkFields DEF LeavingOK, Leaving
<1>9. \A t \in Token : /\ ~Held(call, loaded, writes, stored, t)
                       /\ token[t].client = "NONE" /\ token[t].status = "absent"
  BY <1>2, <1>4, <1>5, NoWorkFields DEF Held
<1>10. RowsOK(token, call, loaded, writes, stored, late, ended)
  BY <1>3, <1>9 DEF RowsOK, SessionsTypeOK
<1>11. GoneOK(token, call, loaded, writes, stored, ended)
  BY <1>4, NoWorkFields DEF GoneOK
<1>12. ReplayOK(token, call, loaded, inFlight, stored, late)
  BY <1>4, <1>9, NoWorkFields DEF ReplayOK, Refreshes, Fresh, Used
<1>13. Good(token, call, loaded, inFlight, writes, stored, late, crashed, out, ended, NoCall)
  BY <1>6, <1>7, <1>8, <1>10, <1>11, <1>12 DEF Good, Client
<1>14. QED
  BY <1>3, <1>13 DEF Inv

LEMMA StutterInv ==
  ASSUME Inv, UNCHANGED clientVars
  PROVE  Inv'
<1>1. /\ UNCHANGED server /\ call' = call /\ loaded' = loaded /\ inFlight' = inFlight /\ writes' = writes
      /\ stored' = stored /\ late' = late /\ crashed' = crashed /\ out' = out /\ ended' = ended
  BY DEF clientVars, memory, history
<1>2. QED
  BY <1>1, InvGood, DeviceStep

LEMMA InvStep ==
  ASSUME Inv, [Next]_clientVars
  PROVE  Inv'
<1>1. ASSUME NEW c \in Call, RefreshStep(c)
      PROVE  Inv'
  BY <1>1, RefreshStepInv, SendRefreshStep, ServeRefreshStep, LosesAnswer, StoreRefreshStep DEF RefreshStep
<1>2. ASSUME NEW c \in Call, LoginStep(c)
      PROVE  Inv'
  BY <1>2, SignsOutStep, ServeLoginStep, StoreLoginStep DEF LoginStep
<1>3. ASSUME NEW c \in Call, LogoutStep(c)
      PROVE  Inv'
  BY <1>3, ReadsBegin, SignsOutStep, ServeLogoutStep, LoseLogoutStep DEF LogoutStep
<1>4. ASSUME NEW c \in Call, FetchStep(c)
      PROVE  Inv'
  BY <1>4, ReadsBegin, FetchSteps, RecoverStep, ResentStep DEF FetchStep
<1>5. CASE GetReturns \/ GetFails
  BY <1>5, GetStep
<1>6. CASE WriteSucceeds
  BY <1>6, WriteSucceedsStep
<1>7. CASE WriteFails
  BY <1>7, WriteFailsStep
<1>8. CASE Crash
  BY <1>8, CrashStep
<1>9. ASSUME NEW t \in Token, ServeLate(t)
      PROVE  Inv'
  BY <1>9, ServeLateStep
<1>10. CASE AccountDeleted
  BY <1>10, AccountDeletedStep
<1>11. CASE UNCHANGED clientVars
  BY <1>11, StutterInv
<1>12. QED
  BY <1>1, <1>2, <1>3, <1>4, <1>5, <1>6, <1>7, <1>8, <1>9, <1>10, <1>11 DEF Next

\* The invariant from which the theorems below follow: whatever is lost, given up,
\* written badly or killed, a token the device has used is behind it, and what a
\* logout overtakes leads nowhere.
THEOREM ClientInvariant == Spec => []Inv
  BY InitInv, InvStep, PTL DEF Spec

\* The types of the device's variables; the refresh in flight is one that runs
\* (native-session.ts, createNativeSession).
THEOREM ClientTypes == Spec => []TypeOK
<1>1. Inv => TypeOK
  <2> SUFFICES ASSUME Inv PROVE TypeOK
    OBVIOUS
  <2>1. /\ SessionsTypeOK /\ call \in [Call -> CallRecord]
        /\ loaded \in MaybeSession \cup {Unread, Reading} /\ stored \in MaybeSession
        /\ late \in SUBSET Token /\ crashed \in BOOLEAN /\ out \in BOOLEAN
    BY InvFacts, InvGood
  <2>2. ended \in SUBSET Token
    BY InvGood DEF Good, RowsOK
  <2>3. inFlight \in {c \in Call : call[c].kind = "refresh"} \cup {NoCall}
    BY InvGood DEF Good, Client, MemoryOK
  <2>4. \A i \in DOMAIN writes : writes[i] \in [session : MaybeSession, by : Call \cup {NoCall}]
    <3>1. writes \in Seq(Write)
      BY InvFacts
    <3>2. \A i \in DOMAIN writes : writes[i] \in Write
      BY <3>1
    <3>3. QED
      BY <3>2 DEF Write
  <2>5. QED
    BY <2>1, <2>2, <2>3, <2>4 DEF TypeOK
<1>2. QED
  BY <1>1, ClientInvariant, PTL

\* A device that was not killed never presents, and never goes on with, a token it has
\* rotated already: its concurrent refreshes, lost answers and failed writes do not look
\* like a stolen token (native-session.ts, run and clear; docs/adr/0002).
THEOREM ReplaysNothing == Spec => []NeverReplays
<1>1. Inv => NeverReplays
  <2> SUFFICES ASSUME Inv, ~crashed
               PROVE  /\ \A c \in Call : At(c, "refresh", "sent") => token[call[c].session].status # "ROTATED"
                      /\ inFlight = NoCall /\ loaded \in Token => token[loaded].status # "ROTATED"
    BY DEF NeverReplays
  <2>1. ReplayOK(token, call, loaded, inFlight, stored, late)
    BY InvGood DEF Good
  <2>2. ASSUME NEW c \in Call, At(c, "refresh", "sent")
        PROVE  token[call[c].session].status # "ROTATED"
    <3>1. call[c].session \in Token /\ Refreshes(call, c, call[c].session) /\ call[c].stage = "sent"
      BY <2>2, InvFacts DEF At, ShapeOK, Refreshes
    <3>2. ~Used(token, late, call[c].session)
      BY <2>1, <3>1 DEF ReplayOK
    <3>3. QED
      BY <3>2 DEF Used
  <2>3. ASSUME inFlight = NoCall, loaded \in Token
        PROVE  token[loaded].status # "ROTATED"
    <3>1. \A c \in Call : ~Refreshes(call, c, loaded)
      BY <2>1, <2>3, ConstantFacts DEF ReplayOK
    <3>2. QED
      BY <2>1, <2>3, <3>1 DEF ReplayOK, Used
  <2>4. QED
    BY <2>2, <2>3
<1>2. QED
  BY <1>1, ClientInvariant, PTL

\* After a logout no session is left in memory or storage, and none comes back, with an
\* answer that was on its way or at the next start, until a login stores one
\* (native-session.ts, logout; the epoch).
THEOREM StaysSignedOut == Spec => []SignedOutStaysOut
<1>1. Inv => SignedOutStaysOut
  <2> SUFFICES ASSUME Inv, out
               PROVE  /\ stored = NoSession /\ loaded \notin Token
                      /\ \A i \in DOMAIN writes : writes[i].session = NoSession
    BY DEF SignedOutStaysOut
  <2>1. \A t \in Token : ~InMemory(call, loaded, writes, stored, t)
    BY InvGood DEF Good, OutOK
  <2>2. writes \in Seq(Write) /\ stored \in MaybeSession
    BY InvFacts
  <2>3. \A i \in DOMAIN writes : i \in 1..Len(writes) /\ writes[i].session \in MaybeSession
    BY <2>2, WriteFields
  <2>4. QED
    BY <2>1, <2>2, <2>3, ConstantFacts DEF InMemory
<1>2. QED
  BY <1>1, ClientInvariant, PTL

\* When the server has answered a logout, nothing of the session works or is kept: the
\* refresh it overtook, or was overtaken by, has left no descendant on either side
\* (native-session.ts, logout; auth-session.ts, logoutNativeSession).
THEOREM LogoutsEnd == Spec => []LogoutEndsFamily
<1>1. Inv => LogoutEndsFamily
  <2> SUFFICES ASSUME Inv, NEW f \in ended
               PROVE  /\ Family(f) \cap Live = {}
                      /\ loaded \notin Family(f) /\ stored \notin Family(f)
                      /\ \A i \in DOMAIN writes : writes[i].session \notin Family(f)
    BY DEF LogoutEndsFamily
  <2>1. /\ Gone(token, call, loaded, writes, stored, f)
        /\ \A t \in Token : OfFamily(token, t, f) => token[t].status # "live"
    BY InvGood DEF Good, GoneOK
  <2>2. \A t \in Family(f) : t \in Token /\ OfFamily(token, t, f)
    BY DEF Family, OfFamily
  <2>3. \A t \in Family(f) : ~InMemory(call, loaded, writes, stored, t)
    BY <2>1, <2>2 DEF Gone
  <2>4. \A i \in DOMAIN writes : i \in 1..Len(writes)
    BY InvFacts
  <2>5. QED
    BY <2>1, <2>2, <2>3, <2>4 DEF InMemory, Live
<1>2. QED
  BY <1>1, ClientInvariant, PTL
-----------------------------------------------------------------------------
(* The abstract server of sessions.                                        *)

LiveOf(T, f) == {t \in Token : T[t].status = "live" /\ T[t].family = f}

LEMMA AbstractLive ==
  /\ LiveByFamily = [f \in Token |-> LiveOf(token, f)]
  /\ LiveByFamily' = [f \in Token |-> LiveOf(token', f)]
  BY DEF LiveByFamily, LiveOf, Live

LEMMA ShrinkingFamilies ==
  ASSUME Families!OneToken, Shrinks(token, token')
  PROVE  \E F \in SUBSET Token : Families!End(F)
<1>1. Issued' = Issued
  BY DEF Shrinks, Issued
<1>2. \A f \in Token : LiveOf(token', f) \subseteq LiveOf(token, f)
  BY DEF Shrinks, LiveOf
<1>3. \A f \in Token : LiveOf(token, f) = {} \/ \E s : LiveOf(token, f) = {s}
  BY AbstractLive DEF Families!OneToken
<1> DEFINE F == {f \in Token : LiveOf(token', f) = {}}
<1>4. \A f \in Token : LiveOf(token', f) = IF f \in F THEN {} ELSE LiveOf(token, f)
  BY <1>2, <1>3
<1>5. LiveByFamily' = [f \in Token |-> IF f \in F THEN {} ELSE LiveByFamily[f]]
  BY <1>4, AbstractLive
<1>6. QED
  BY <1>1, <1>5 DEF Families!End, Families!Without

LEMMA RotatingFamilies ==
  ASSUME SessionsTypeOK, Families!OneToken, NEW s \in Token, NEW r \in Token, Rotates(s, r)
  PROVE  \E f \in Token : Families!Rotate(f, r)
<1> DEFINE f == token[s].family
<1>1. f \in Token
  BY FamilyIsToken DEF SessionsTypeOK
<1>2. /\ token[r].status = "absent" /\ token'[r].status = "live" /\ token'[r].family = f
      /\ token[s].status = "live" /\ token'[s].status = "ROTATED"
      /\ \A t \in Token : t # s /\ t # r => token'[t] = token[t]
  BY DEF Rotates, Adds
<1> HIDE DEF f
<1>3. r \notin Issued /\ s \in Issued /\ Issued' = Issued \cup {r}
  BY <1>2 DEF Issued
<1>4. LiveOf(token, f) = {s}
  <2>1. s \in LiveOf(token, f)
    BY <1>2 DEF LiveOf, f
  <2>2. QED
    BY <1>1, <2>1, AbstractLive DEF Families!OneToken
<1>5. \A g \in Token : LiveOf(token', g) = IF g = f THEN {r} ELSE LiveOf(token, g)
  <2>1. LiveOf(token', f) = {r}
    BY <1>2, <1>4 DEF LiveOf
  <2>2. ASSUME NEW g \in Token, g # f
        PROVE  LiveOf(token', g) = LiveOf(token, g)
    <3>1. s \notin LiveOf(token, g)
      BY <2>2 DEF LiveOf, f
    <3>2. QED
      BY <1>2, <2>2, <3>1 DEF LiveOf
  <2>3. QED
    BY <2>1, <2>2
<1>6. LiveByFamily' = [LiveByFamily EXCEPT ![f] = {r}]
  BY <1>1, <1>5, AbstractLive
<1>7. LiveByFamily[f] = {s}
  BY <1>1, <1>4, AbstractLive
<1>8. QED
  BY <1>1, <1>3, <1>6, <1>7 DEF Families!Rotate, Families!Unissued

LEMMA BeginningFamilies ==
  ASSUME Families!OneToken, NEW r \in Token, Adds(token, token', r), token'[r].family = r,
         \A t \in Token : t # r => token'[t] = token[t]
  PROVE  Families!Begin(r)
<1>1. token[r].status = "absent" /\ token'[r].status = "live"
  BY DEF Adds
<1>2. r \notin Issued /\ Issued' = Issued \cup {r}
  BY <1>1 DEF Issued
<1>3. LiveOf(token, r) = {}
  BY <1>2, AbstractLive DEF Families!OneToken
<1>4. \A g \in Token : LiveOf(token', g) = IF g = r THEN {r} ELSE LiveOf(token, g)
  BY <1>1, <1>3 DEF LiveOf
<1>5. LiveByFamily' = [LiveByFamily EXCEPT ![r] = {r}]
  BY <1>4, AbstractLive
<1>6. QED
  BY <1>2, <1>5 DEF Families!Begin, Families!Unissued

\* whatever the device does and loses, a step ends sessions, rotates one or begins one
LEMMA FamilySteps ==
  ASSUME SessionsTypeOK, Families!OneToken, [Next]_clientVars
  PROVE  \/ \E F \in SUBSET Token : Families!End(F)
         \/ \E f, r \in Token : Families!Rotate(f, r) \/ Families!Begin(r)
<1>1. Shrinks(token, token)
  BY DEF Shrinks, SessionsTypeOK
<1>2. CASE token' = token
  BY <1>1, <1>2, ShrinkingFamilies
<1>3. ASSUME NEW s \in Token, RefreshNative(s)
      PROVE  \/ \E F \in SUBSET Token : Families!End(F)
             \/ \E f, r \in Token : Families!Rotate(f, r)
  BY <1>3, RefreshKinds, ShrinkingFamilies, RotatingFamilies
<1>4. ASSUME NEW s \in Token, LogoutNative(s)
      PROVE  \E F \in SUBSET Token : Families!End(F)
  BY <1>4, LogoutKind, ShrinkingFamilies
<1>5. CASE DeleteAccount
  BY <1>5, DeletionKind, ShrinkingFamilies
<1>6. ASSUME NEW c \in Call, ServeLogin(c)
      PROVE  token' = token \/ \E r \in Token : Families!Begin(r)
  <2>1. CASE \E t \in Unused(token) : token' = Insert(token, t, "NATIVE", t, account.version)
    <3>1. PICK t \in Unused(token) : token' = Insert(token, t, "NATIVE", t, account.version)
      BY <2>1
    <3>2. UNCHANGED <<account, request, replayed>>
      BY <1>6 DEF ServeLogin
    <3>3. /\ Adds(token, token', t) /\ t \in Token /\ token'[t].family = t
          /\ \A s \in Token : s # t => token'[s] = token[s]
      BY SMTT(40), SMTT(80), <3>1, <3>2, LoginKind
    <3>4. QED
      BY SMTT(40), SMTT(80), <3>3, BeginningFamilies
  <2>2. QED
    BY <1>6, <2>1 DEF ServeLogin
<1>7. ASSUME NEW c \in Call, ServeRefresh(c)
      PROVE  token' = token \/ \E s \in Token : RefreshNative(s)
  BY <1>7 DEF ServeRefresh, RefreshNative, Kept, Issued, server
<1>8. ASSUME NEW c \in Call, ServeLogout(c)
      PROVE  \E s \in Token : LogoutNative(s)
  BY <1>8 DEF ServeLogout, LogoutNative, Kept, Issued
<1>9. ASSUME NEW c \in Call,
             RefreshStep(c) \/ LoginStep(c) \/ LogoutStep(c) \/ FetchStep(c)
      PROVE  token' = token \/ ServeRefresh(c) \/ ServeLogin(c) \/ ServeLogout(c)
  <2>1. CASE RefreshStep(c)
    BY SMTT(40), SMTT(80), <2>1 DEF RefreshStep, Refresh, SendRefresh, GiveUp, LoseAnswer, StoreRefresh, server
  <2>2. CASE LoginStep(c)
    BY ZenonT(60), ZenonT(90), <2>2 DEF LoginStep, Login, StoreLogin, server
  <2>3. CASE LogoutStep(c)
    BY SMTT(40), SMTT(80), <2>3 DEF LogoutStep, Logout, ClearForLogout, LoseLogout, server
  <2>4. CASE FetchStep(c)
    BY ZenonT(60), ZenonT(90), <2>4 DEF FetchStep, Fetch, SendFetch, FetchReturns, Reread, Recover, Resend, ResentReturns, server
  <2>5. QED
    BY <1>9, <2>1, <2>2, <2>3, <2>4
<1>10. CASE GetReturns \/ GetFails \/ WriteSucceeds \/ WriteFails \/ Crash
  <2>1. token' = token
    BY SMTT(40), SMTT(80), <1>10 DEF GetReturns, GetFails, WriteSucceeds, WriteFails, Crash, server
  <2>2. QED
    BY ZenonT(60), ZenonT(90), <1>2, <2>1
<1>11. CASE \E t \in Token : ServeLate(t)
  BY <1>3, <1>11 DEF ServeLate
<1>12. CASE AccountDeleted
  BY <1>5, <1>12 DEF AccountDeleted
<1>13. CASE UNCHANGED clientVars
  BY <1>2, <1>13 DEF clientVars, server
<1>14. QED
  BY <1>2, <1>3, <1>4, <1>6, <1>7, <1>8, <1>9, <1>10, <1>11, <1>12, <1>13 DEF Next

LEMMA FamiliesStep ==
  ASSUME SessionsTypeOK, Families!OneToken, [Next]_clientVars
  PROVE  Families!Next /\ Families!OneToken'
<1> DEFINE I == Issued
           J == Issued'
           L == LiveByFamily
           M == LiveByFamily'
           OnlyEnds == J = I /\ \A g \in Token : M[g] \in {L[g], {}}
           Issues   == \E t \in Token, g \in Token :
                      /\ J = I \cup {t} /\ g \in J /\ M[g] = {t}
                      /\ \A h \in Token \ {g} : M[h] = L[h]
<1>1. DOMAIN L = Token /\ DOMAIN M = Token
  BY DEF LiveByFamily
<1>2. \A g \in Token : L[g] # {} => g \in I /\ \E s \in I : L[g] = {s}
  BY DEF Families!OneToken
<1>3. ASSUME NEW F \in SUBSET Token, Families!End(F)
      PROVE  Families!Next /\ OnlyEnds
  <2>1. OnlyEnds
    BY <1>1, <1>3 DEF Families!End, Families!Without
  <2>2. QED
    BY <1>3, <2>1 DEF Families!Next
<1>4. ASSUME NEW r \in Token, Families!Begin(r)
      PROVE  Families!Next /\ Issues
  <2>1. J = I \cup {r} /\ M = [L EXCEPT ![r] = {r}]
    BY <1>4 DEF Families!Begin
  <2> HIDE DEF I, J, L, M
  <2>2. Issues
    BY <1>1, <2>1
  <2>3. QED
    BY <1>4, <2>2 DEF Families!Next
<1>5. ASSUME NEW f \in Token, NEW r \in Token, Families!Rotate(f, r)
      PROVE  Families!Next /\ Issues
  <2>1. J = I \cup {r} /\ M = [L EXCEPT ![f] = {r}] /\ L[f] # {}
    BY <1>5 DEF Families!Rotate
  <2> HIDE DEF I, J, L, M
  <2>2. Issues
    BY <1>1, <1>2, <2>1
  <2>3. QED
    BY <1>5, <2>2 DEF Families!Next
<1>6. Families!Next /\ (OnlyEnds \/ Issues)
  BY <1>3, <1>4, <1>5, FamilySteps
<1>7. \A f \in Token : M[f] # {} => f \in J /\ \E s \in J : M[f] = {s}
  <2> HIDE DEF I, J, L, M
  <2>1. CASE OnlyEnds
    BY <1>2, <2>1
  <2>2. CASE Issues
    BY <1>2, <2>2
  <2>3. QED
    BY <1>6, <2>1, <2>2
<1>8. QED
  BY <1>6, <1>7 DEF Families!OneToken

LEMMA FamiliesInit ==
  ASSUME Init
  PROVE  Families!Init /\ Families!OneToken
<1>1. Issued = {} /\ Live = {}
  BY DEF Init, InitSessions, NoRow, Issued, Live
<1>2. LiveByFamily = [f \in Token |-> {}]
  BY <1>1 DEF LiveByFamily
<1>3. QED
  BY <1>1, <1>2 DEF Families!Init, Families!OneToken

\* Seen from a device whose requests and answers get lost, arrive late or are given up,
\* and that is killed between any two awaits, the server is still the abstract one: the
\* session has one token that works, exchanged for the next in one step.
THEOREM DeviceSeesFamilies == Spec => ImplementsFamilies
<1>1. Inv => SessionsTypeOK
  BY DEF Inv
<1>2. Spec => []SessionsTypeOK
  BY <1>1, ClientInvariant, PTL
<1>3. SessionsTypeOK /\ Families!OneToken /\ [Next]_clientVars
        => [Families!Next]_(Families!familyVars) /\ Families!OneToken'
  BY FamiliesStep
<1>4. Init => Families!Init /\ Families!OneToken
  BY FamiliesInit
<1>5. QED
  BY <1>2, <1>3, <1>4, PTL DEF Spec, ImplementsFamilies, Families!Spec
=============================================================================
