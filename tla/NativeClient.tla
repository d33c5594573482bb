------------------------------ MODULE NativeClient ------------------------------
(***************************************************************************)
(* A native device (packages/api-client/src/native-session.ts) against the *)
(* server's sessions: calls of the application that refresh, log in, log   *)
(* out and fetch run interleaved in one event loop and share the loaded    *)
(* session, one refresh in flight, an epoch and a queue of storage writes. *)
(*                                                                         *)
(* An action is what runs between two awaits.  Requests and answers get    *)
(* lost, a request given up may be served late, storage fails, and the     *)
(* application is killed and restarts with what was stored.                *)
(*                                                                         *)
(* The epoch only grows and is only compared, so each call remembers just  *)
(* whether it has moved on since the call read it: `stale'.                *)
(***************************************************************************)
EXTENDS Sessions, Sequences

CONSTANTS
  Call,       \* calls of the application at a time
  NoCall,
  NoSession,  \* null
  Unread,     \* `loaded' is undefined
  Reading     \* `loaded' is the promise of storage.get

ASSUME ClientAssumption ==
  /\ NoCall \notin Call /\ {NoSession, Unread, Reading} \cap Token = {}
  /\ NoSession # Unread /\ NoSession # Reading /\ Unread # Reading

VARIABLES
  call,      \* every call's local variables
  loaded,    \* what read() resolves to, once the write that stores it is over
  inFlight,  \* the call that is the refresh in flight
  writes,    \* the storage writes that wait for each other
  stored,    \* the device's secure storage
  crashed,   \* the application was killed before
  late,      \* refresh tokens of requests given up, that may still reach the server
  out,       \* a logout has cleared the storage, and no login has stored a session since
  ended      \* the families of logouts the server has answered

memory == <<call, loaded, inFlight, writes>>
history == <<crashed, late, out, ended>>
server == <<account, token, request, replayed>>
clientVars == <<server, memory, stored, history>>

MaybeSession == Token \cup {NoSession}

Kind == {"none", "refresh", "login", "logout", "fetch"}
Stage == {"idle", "reading", "sent", "answered", "writing",
          "denied", "rereading", "joined", "refreshed", "resent"}

\* session: the pair it has read; next: the pair it was answered; with: the refresh
\* a fetch has joined; clearing: the write it waits for clears the storage
CallRecord == [kind : Kind, stage : Stage, session : MaybeSession \cup {Reading}, next : MaybeSession,
               with : Call \cup {NoCall}, clearing : BOOLEAN, stale : BOOLEAN]

NoWork == [kind |-> "none", stage |-> "idle", session |-> NoSession, next |-> NoSession,
           with |-> NoCall, clearing |-> FALSE, stale |-> FALSE]

-----------------------------------------------------------------------------
(* The closures of createNativeSession.                                    *)

At(c, kind, stage) == call[c].kind = kind /\ call[c].stage = stage

\* epoch++ by c
Outdated(P, c) ==
  [d \in Call |-> IF d # c /\ P[d].kind # "none" THEN [P[d] EXCEPT !.stale = TRUE] ELSE P[d]]

Entry(session, c) == [session |-> session, by |-> c]

\* read(): the first one asks the storage
Snapshot == IF loaded = Unread THEN Reading ELSE loaded

\* the promise read() gave c is fulfilled
HasRead(c) ==
  /\ call[c].session # Reading
  /\ \A i \in DOMAIN writes : writes[i].session # call[c].session \/ call[c].session = NoSession

\* a call begins, and reads
Read(P, c, stage) ==
  /\ call' = [P EXCEPT ![c] = [@ EXCEPT !.stage = stage, !.session = Snapshot]]
  /\ loaded' = Snapshot

\* the finally of refresh, and the calls that joined it
Ended(P, c, result) ==
  [d \in Call |->
     IF d = c \/ (P[d].stage = "joined" /\ P[d].with = c /\ result = NoSession) THEN NoWork
     ELSE IF P[d].stage = "joined" /\ P[d].with = c
          THEN [P[d] EXCEPT !.stage = "refreshed", !.with = NoCall, !.next = result] ELSE P[d]]

\* mutant: a refresh that failed stays in flight
EndRefreshInFlight(P, L, Q, c, result) ==
  /\ call' = Ended(P, c, result) /\ loaded' = L /\ writes' = Q
  /\ UNCHANGED inFlight

EndRefresh(P, L, Q, c, result) ==
  /\ call' = Ended(P, c, result) /\ loaded' = L /\ writes' = Q
  /\ inFlight' = IF inFlight = c THEN NoCall ELSE inFlight

\* mutant: a refresh whose answer was lost keeps its pair for another try
KeepSession(P, L, Q, c) == EndRefresh(P, L, Q, c, NoSession)

\* the catch of refresh: clear(expected)
FailRefresh(P, L, Q, c) ==
  \/ P[c].stale /\ EndRefresh(P, L, Q, c, NoSession)
  \/ /\ ~P[c].stale
     /\ call' = [Outdated(P, c) EXCEPT ![c] =
                   [@ EXCEPT !.stage = "writing", !.clearing = TRUE, !.next = NoSession]]
     /\ loaded' = NoSession /\ writes' = Append(Q, Entry(NoSession, c))
     /\ UNCHANGED inFlight

-----------------------------------------------------------------------------
(* refresh.                                                                *)

StartRefresh(P, c) ==
  /\ call[c] = NoWork
  /\ Read([P EXCEPT ![c] = [NoWork EXCEPT !.kind = "refresh"]], c, "reading")
  /\ inFlight' = c

\* only code of the same turn can come before run's read
Refresh(c) ==
  /\ inFlight = NoCall /\ StartRefresh(call, c)
  /\ UNCHANGED <<server, writes, stored, history>>

SendRefresh(c) ==
  /\ At(c, "refresh", "reading") /\ HasRead(c)
  /\ \/ call[c].session = NoSession /\ FailRefresh(call, loaded, writes, c)
     \/ /\ call[c].session # NoSession
        /\ call' = [call EXCEPT ![c] = [@ EXCEPT !.stage = "sent"]]
        /\ UNCHANGED <<loaded, inFlight, writes>>
  /\ UNCHANGED <<server, stored, history>>

Answered(c, next) == call' = [call EXCEPT ![c] = [@ EXCEPT !.stage = "answered", !.next = next]]

\* the server's answer: the rotated pair or a refusal
ServeRefresh(c) ==
  /\ At(c, "refresh", "sent")
  /\ \/ call[c].session \notin Kept /\ UNCHANGED server /\ Answered(c, NoSession)
     \/ /\ RefreshNative(call[c].session)
        /\ \/ Live' \subseteq Live /\ Answered(c, NoSession)
           \/ \E t \in Live' \ Live : Answered(c, t)
  /\ UNCHANGED <<loaded, inFlight, writes, stored, history>>

\* the connection fails, and the server may still get the request
GiveUp(c) ==
  /\ At(c, "refresh", "sent") /\ Answered(c, NoSession)
  /\ late' = late \cup {call[c].session}
  /\ UNCHANGED <<server, loaded, inFlight, writes, stored, crashed, out, ended>>

LoseAnswer(c) ==
  /\ At(c, "refresh", "answered") /\ call[c].next # NoSession /\ Answered(c, NoSession)
  /\ UNCHANGED <<server, loaded, inFlight, writes, stored, history>>

Store(P, c, session) ==
  /\ call' = [P EXCEPT ![c] = [@ EXCEPT !.stage = "writing"]]
  /\ loaded' = session /\ writes' = Append(writes, Entry(session, c))
  /\ UNCHANGED inFlight

\* mutant: the epoch is not looked at when the answer comes
StoreAnyRefresh(c) ==
  /\ At(c, "refresh", "answered")
  /\ \/ call[c].next # NoSession /\ Store(call, c, call[c].next)
     \/ call[c].next = NoSession /\ FailRefresh(call, loaded, writes, c)
  /\ UNCHANGED <<server, stored, history>>

StoreRefresh(c) ==
  /\ At(c, "refresh", "answered")
  /\ \/ call[c].next # NoSession /\ ~call[c].stale /\ Store(call, c, call[c].next)
     \/ (call[c].next = NoSession \/ call[c].stale) /\ FailRefresh(call, loaded, writes, c)
  /\ UNCHANGED <<server, stored, history>>

-----------------------------------------------------------------------------
(* login and logout.                                                       *)

Login(c) ==
  /\ call[c] = NoWork
  /\ call' = [Outdated(call, c) EXCEPT ![c] =
       [NoWork EXCEPT !.kind = "login", !.stage = "writing", !.clearing = TRUE]]
  /\ inFlight' = NoCall /\ loaded' = NoSession
  /\ writes' = Append(writes, Entry(NoSession, c))
  /\ UNCHANGED <<server, stored, history>>

\* createLoginSession: refused, or a new family
ServeLogin(c) ==
  /\ At(c, "login", "sent")
  /\ \/ call' = [call EXCEPT ![c] = NoWork] /\ UNCHANGED token
     \/ \E t \in Unused(token) :
          /\ account.exists /\ token' = Insert(token, t, "NATIVE", t, account.version)
          /\ Answered(c, t) \/ call' = [call EXCEPT ![c] = NoWork]
  /\ UNCHANGED <<account, request, replayed, loaded, inFlight, writes, stored, history>>

StoreLogin(c) ==
  /\ At(c, "login", "answered")
  /\ \/ /\ call[c].stale /\ call' = [call EXCEPT ![c] = NoWork]
        /\ UNCHANGED <<loaded, inFlight, writes, out>>
     \/ ~call[c].stale /\ Store(call, c, call[c].next) /\ out' = FALSE
  /\ UNCHANGED <<server, stored, crashed, late, ended>>

Logout(c) ==
  /\ call[c] = NoWork
  /\ Read([call EXCEPT ![c] = [NoWork EXCEPT !.kind = "logout"]], c, "reading")
  /\ UNCHANGED <<server, inFlight, writes, stored, history>>

ClearForLogout(c) ==
  /\ At(c, "logout", "reading") /\ HasRead(c)
  /\ call' = [Outdated(call, c) EXCEPT ![c] = [@ EXCEPT !.stage = "writing", !.clearing = TRUE]]
  /\ inFlight' = NoCall /\ loaded' = NoSession
  /\ writes' = Append(writes, Entry(NoSession, c))
  /\ UNCHANGED <<server, stored, history>>

ServeLogout(c) ==
  /\ At(c, "logout", "sent") /\ LogoutNative(call[c].session)
  /\ call' = [call EXCEPT ![c] = NoWork]
  /\ ended' = ended \cup {token[call[c].session].family}
  /\ UNCHANGED <<loaded, inFlight, writes, stored, crashed, late, out>>

LoseLogout(c) ==
  /\ At(c, "logout", "sent") /\ call' = [call EXCEPT ![c] = NoWork]
  /\ UNCHANGED <<server, loaded, inFlight, writes, stored, history>>

-----------------------------------------------------------------------------
(* sessionFetch; what is fetched without a session has no effect here.     *)

\* bound: one call is left for the refreshes that fetches need
Fetch(c) ==
  /\ call[c] = NoWork /\ \E d \in Call \ {c} : call[d].kind # "fetch"
  /\ Read([call EXCEPT ![c] = [NoWork EXCEPT !.kind = "fetch"]], c, "reading")
  /\ UNCHANGED <<server, inFlight, writes, stored, history>>

SendFetch(c) ==
  /\ At(c, "fetch", "reading") /\ HasRead(c)
  /\ call' = [call EXCEPT ![c] = IF @.session = NoSession THEN NoWork ELSE [@ EXCEPT !.stage = "sent"]]
  /\ UNCHANGED <<server, loaded, inFlight, writes, stored, history>>

\* an answer the caller gets, or a 401 while the epoch stands; its body is read
FetchReturns(c) ==
  /\ At(c, "fetch", "sent")
  /\ \/ call' = [call EXCEPT ![c] = NoWork]
     \/ ~call[c].stale /\ call' = [call EXCEPT ![c] = [@ EXCEPT !.stage = "denied"]]
  /\ UNCHANGED <<server, loaded, inFlight, writes, stored, history>>

\* `next' keeps the session the fetch was sent with
Reread(c) ==
  /\ At(c, "fetch", "denied")
  /\ Read([call EXCEPT ![c] = [@ EXCEPT !.next = call[c].session]], c, "rereading")
  /\ UNCHANGED <<server, inFlight, writes, stored, history>>

\* a session that was rotated meanwhile is used, otherwise refresh() is called
Recover(c) ==
  LET Joining(d) == [call EXCEPT ![c] =
        [@ EXCEPT !.stage = "joined", !.with = d, !.next = NoSession]] IN
  /\ At(c, "fetch", "rereading") /\ HasRead(c)
  /\ \/ /\ call[c].session \notin {NoSession, call[c].next}
        /\ call' = [call EXCEPT ![c] = [@ EXCEPT !.stage = "refreshed", !.next = call[c].session]]
        /\ UNCHANGED <<loaded, inFlight>>
     \/ /\ call[c].session \in {NoSession, call[c].next}
        /\ \/ inFlight # NoCall /\ call' = Joining(inFlight) /\ UNCHANGED <<loaded, inFlight>>
           \/ inFlight = NoCall /\ \E d \in Call : StartRefresh(Joining(d), d)
  /\ UNCHANGED <<server, writes, stored, history>>

Resend(c) ==
  /\ At(c, "fetch", "refreshed")
  /\ call' = [call EXCEPT ![c] = IF @.stale THEN NoWork ELSE [@ EXCEPT !.stage = "resent"]]
  /\ UNCHANGED <<server, loaded, inFlight, writes, stored, history>>

\* a second 401 clears the session, if the epoch still stands
ResentReturns(c) ==
  LET P == [call EXCEPT ![c] = NoWork] IN
  /\ At(c, "fetch", "resent")
  /\ \/ call' = P /\ UNCHANGED <<loaded, writes>>
     \/ /\ ~call[c].stale /\ call' = Outdated(P, c)
        /\ loaded' = NoSession /\ writes' = Append(writes, Entry(NoSession, NoCall))
  /\ UNCHANGED <<server, inFlight, stored, history>>

-----------------------------------------------------------------------------
(* The storage.                                                            *)

GetReturns ==
  /\ \E c \in Call : call[c].session = Reading
  /\ call' = [c \in Call |-> IF call[c].session = Reading THEN [call[c] EXCEPT !.session = stored] ELSE call[c]]
  /\ loaded' = IF loaded = Reading THEN stored ELSE loaded
  /\ UNCHANGED <<server, inFlight, writes, stored, history>>

\* a refresh fails as if there were no session, the other calls throw or return
GetFails ==
  /\ \E c \in Call : call[c].session = Reading
  /\ call' = [c \in Call |->
       IF call[c].session # Reading THEN call[c]
       ELSE IF call[c].kind = "refresh" THEN [call[c] EXCEPT !.session = NoSession] ELSE NoWork]
  /\ loaded' = IF loaded = Reading THEN Unread ELSE loaded
  /\ UNCHANGED <<server, inFlight, writes, stored, history>>

\* what the readers of a session get whose write has failed
Unwritten(P, session) ==
  [c \in Call |-> IF P[c].stage \in {"reading", "rereading"} /\ P[c].session = session
                  THEN [P[c] EXCEPT !.session = NoSession] ELSE P[c]]

\* the storage serves its requests in the order they were made
Writable == writes # <<>> /\ \A c \in Call : call[c].session # Reading

WriteSucceeds ==
  LET w == Head(writes)  c == w.by  Q == Tail(writes)
      Go(P) == call' = P /\ writes' = Q /\ UNCHANGED <<loaded, inFlight>>
  IN
  /\ Writable /\ stored' = w.session
  /\ \/ c = NoCall /\ Go(call) /\ UNCHANGED out
     \/ c # NoCall /\ call[c].kind = "refresh" /\ UNCHANGED out
          /\ EndRefresh(call, loaded, Q, c, IF call[c].clearing THEN NoSession ELSE call[c].next)
     \/ c # NoCall /\ call[c].kind = "login" /\ UNCHANGED out
          /\ Go([call EXCEPT ![c] = IF @.clearing THEN [@ EXCEPT !.stage = "sent", !.clearing = FALSE] ELSE NoWork])
     \/ c # NoCall /\ call[c].kind = "logout" /\ out' = TRUE
          /\ Go([call EXCEPT ![c] = IF @.session = NoSession THEN NoWork
                                    ELSE [@ EXCEPT !.stage = "sent", !.clearing = FALSE]])
  /\ UNCHANGED <<server, crashed, late, ended>>

\* the storage throws, and may have accepted the write or not
WriteFails ==
  LET w == Head(writes)  c == w.by  Q == Tail(writes)
      P == IF w.session = NoSession THEN call ELSE Unwritten(call, w.session)
      L == IF w.session # NoSession /\ loaded = w.session THEN NoSession ELSE loaded
      Throw == call' = [P EXCEPT ![c] = NoWork] /\ loaded' = L /\ writes' = Q /\ UNCHANGED inFlight
  IN
  /\ Writable /\ stored' \in {stored, w.session}
  /\ \/ c = NoCall /\ call' = P /\ loaded' = L /\ writes' = Q /\ UNCHANGED inFlight
     \/ c # NoCall /\ call[c].kind = "refresh" /\ call[c].clearing /\ EndRefresh(P, L, Q, c, NoSession)
     \/ c # NoCall /\ call[c].kind = "refresh" /\ ~call[c].clearing /\ FailRefresh(P, L, Q, c)
     \/ c # NoCall /\ call[c].kind = "login" /\ ~call[c].clearing /\ ~call[c].stale
          /\ call' = Outdated([P EXCEPT ![c] = NoWork], c)
          /\ loaded' = NoSession /\ writes' = Append(Q, Entry(NoSession, NoCall)) /\ UNCHANGED inFlight
     \/ c # NoCall /\ call[c].kind = "login" /\ (call[c].clearing \/ call[c].stale) /\ Throw
     \/ c # NoCall /\ call[c].kind = "logout" /\ Throw
  /\ UNCHANGED <<server, history>>

\* the application is killed; once is enough to meet what it left
Crash ==
  /\ ~crashed /\ crashed' = TRUE
  /\ call' = [c \in Call |-> NoWork] /\ loaded' = Unread /\ inFlight' = NoCall /\ writes' = <<>>
  /\ late' = late \cup {call[c].session : c \in {d \in Call : At(d, "refresh", "sent")}}
  /\ UNCHANGED <<server, stored, out, ended>>

-----------------------------------------------------------------------------
(* The server: a request given up arrives, or the account goes.  Another   *)
(* device that logs out all is like its going to this one: no more answers.*)

ServeLate(t) ==
  /\ t \in late /\ RefreshNative(t) /\ late' = late \ {t}
  /\ UNCHANGED <<memory, stored, crashed, out, ended>>

AccountDeleted ==
  /\ DeleteAccount
  /\ UNCHANGED <<memory, stored, history>>

-----------------------------------------------------------------------------
Init ==
  /\ InitSessions
  /\ call = [c \in Call |-> NoWork] /\ loaded = Unread /\ inFlight = NoCall /\ writes = <<>>
  /\ stored = NoSession /\ crashed = FALSE /\ late = {} /\ out = FALSE /\ ended = {}

RefreshStep(c) ==
  \/ Refresh(c) \/ SendRefresh(c) \/ ServeRefresh(c)
  \/ GiveUp(c) \/ LoseAnswer(c) \/ StoreRefresh(c)
LoginStep(c) == Login(c) \/ ServeLogin(c) \/ StoreLogin(c)
LogoutStep(c) == Logout(c) \/ ClearForLogout(c) \/ ServeLogout(c) \/ LoseLogout(c)
FetchStep(c) ==
  \/ Fetch(c) \/ SendFetch(c) \/ FetchReturns(c) \/ Reread(c) \/ Recover(c)
  \/ Resend(c) \/ ResentReturns(c)

Next ==
  \/ \E c \in Call : RefreshStep(c) \/ LoginStep(c) \/ LogoutStep(c) \/ FetchStep(c)
  \/ GetReturns \/ GetFails \/ WriteSucceeds \/ WriteFails \/ Crash
  \/ \E t \in Token : ServeLate(t)
  \/ AccountDeleted

Spec == Init /\ [][Next]_clientVars

-----------------------------------------------------------------------------
(* What a device promises.                                                 *)

\* The types of the client's variables; the refresh in flight is one that runs.
TypeOK ==
  /\ SessionsTypeOK
  /\ call \in [Call -> CallRecord]
  /\ loaded \in MaybeSession \cup {Unread, Reading} /\ stored \in MaybeSession
  /\ inFlight \in {c \in Call : call[c].kind = "refresh"} \cup {NoCall}
  /\ \A i \in DOMAIN writes : writes[i] \in [session : MaybeSession, by : Call \cup {NoCall}]
  /\ late \in SUBSET Token /\ ended \in SUBSET Token
  /\ crashed \in BOOLEAN /\ out \in BOOLEAN

\* A device that was not killed never presents, and never holds, a token it has
\* rotated already: its concurrent refreshes, lost answers and failed writes do not
\* look like a stolen token to the server, which would end the session.
NeverReplays ==
  ~crashed =>
    /\ \A c \in Call : At(c, "refresh", "sent") => token[call[c].session].status # "ROTATED"
    /\ inFlight = NoCall /\ loaded \in Token => token[loaded].status # "ROTATED"

\* After a logout no session is left in memory or storage, and none comes back, with
\* an answer that was on its way or at the next start, until a login stores one.
SignedOutStaysOut ==
  out => /\ stored = NoSession /\ loaded \notin Token
         /\ \A i \in DOMAIN writes : writes[i].session = NoSession

\* When the server has answered a logout, nothing of the session works or is kept: the
\* refresh it overtook, or was overtaken by, has left no descendant on either side.
LogoutEndsFamily ==
  \A f \in ended :
    /\ Family(f) \cap Live = {}
    /\ loaded \notin Family(f) /\ stored \notin Family(f)
    /\ \A i \in DOMAIN writes : writes[i].session \notin Family(f)
=============================================================================
