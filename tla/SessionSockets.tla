---------------------------- MODULE SessionSockets ----------------------------
(***************************************************************************)
(* The API process around one account's sessions: its sockets, which are   *)
(* authenticated once with an access token, and the callback that          *)
(* disconnects them when the account's sessions are revoked                *)
(* (apps/api/src/socket-server.ts, auth-routes.ts).                        *)
(*                                                                         *)
(* The revoking transaction commits first and the callback runs later in   *)
(* the same request; a handshake passes several awaits in between.  There  *)
(* is one API process (docs/adr/0020).                                     *)
(***************************************************************************)
EXTENDS Sessions

CONSTANT Socket   \* connections a client may open

VARIABLES
  socket,           \* the stage of each connection, its token's version and its epoch
  revocationEpoch,
  pending           \* revocations that are committed and have not disconnected yet

socketVars == <<socket, revocationEpoch, pending>>
allVars == <<vars, socketVars>>

Stage == {"out", "begun", "authenticated", "admitted", "joined"}
Out == [stage |-> "out", version |-> 0, epoch |-> 0]
Joined == {k \in Socket : socket[k].stage = "joined"}

MoveTo(k, stage) == socket' = [socket EXCEPT ![k].stage = stage]
DropSocket(k) == socket' = [socket EXCEPT ![k] = Out]

\* findSessionUser against the token's claim
Authentic(k) == account.exists /\ socket[k].version = account.version

\* the handshake and its token's account were not revoked meanwhile
Unrevoked(k) == socket[k].epoch = revocationEpoch

-----------------------------------------------------------------------------
\* the middleware reads the epoch, then waits for the token to be verified
BeginHandshake(k) ==
  /\ socket[k].stage = "out"
  /\ \E t \in Issued : socket' = [socket EXCEPT ![k] =
       [stage |-> "begun", version |-> token[t].version, epoch |-> revocationEpoch]]
  /\ UNCHANGED <<vars, revocationEpoch, pending>>

AuthenticateHandshake(k) ==
  /\ socket[k].stage = "begun"
  /\ \/ Authentic(k) /\ MoveTo(k, "authenticated")
     \/ ~Authentic(k) /\ DropSocket(k)
  /\ UNCHANGED <<vars, revocationEpoch, pending>>

AdmitHandshake(k) ==
  /\ socket[k].stage = "authenticated"
  /\ \/ Unrevoked(k) /\ MoveTo(k, "admitted")
     \/ ~Unrevoked(k) /\ DropSocket(k)
  /\ UNCHANGED <<vars, revocationEpoch, pending>>

\* mutant: the epoch is not looked at again
RegisterAdmitted(k) ==
  /\ socket[k].stage = "admitted"
  /\ MoveTo(k, "joined")
  /\ UNCHANGED <<vars, revocationEpoch, pending>>

\* io.on('connection'): the socket joins its account's room
Register(k) ==
  /\ socket[k].stage = "admitted"
  /\ \/ Unrevoked(k) /\ MoveTo(k, "joined")
     \/ ~Unrevoked(k) /\ DropSocket(k)
  /\ UNCHANGED <<vars, revocationEpoch, pending>>

\* the access token expires, or the client leaves
Disconnect(k) ==
  /\ socket[k].stage # "out"
  /\ DropSocket(k)
  /\ UNCHANGED <<vars, revocationEpoch, pending>>

\* mutant: a refused change of password disconnects as well
RevokeUnasked ==
  /\ pending' = pending - 1
  /\ revocationEpoch' = revocationEpoch + 1
  /\ socket' = [k \in Socket |-> IF k \in Joined THEN Out ELSE socket[k]]
  /\ UNCHANGED vars

\* onAccountRevoked, after the transaction of the same request
RevokeUser ==
  /\ pending > 0
  /\ pending' = pending - 1
  /\ revocationEpoch' = revocationEpoch + 1
  /\ socket' = [k \in Socket |-> IF k \in Joined THEN Out ELSE socket[k]]
  /\ UNCHANGED vars

\* the process restarts: connections, requests and the epoch are gone
Restart ==
  /\ socket' = [k \in Socket |-> Out]
  /\ revocationEpoch' = 0 /\ pending' = 0
  /\ request' = [q \in Request |-> Idle]
  /\ UNCHANGED <<account, token, replayed>>

-----------------------------------------------------------------------------
Init ==
  /\ InitSessions
  /\ socket = [k \in Socket |-> Out]
  /\ revocationEpoch = 0 /\ pending = 0

Handshake(k) ==
  \/ BeginHandshake(k) \/ AuthenticateHandshake(k) \/ AdmitHandshake(k) \/ Register(k) \/ Disconnect(k)

Next ==
  \/ \E t \in Token : TokenRequest(t) /\ UNCHANGED socketVars
  \/ \E q \in Request : (Begin(q) \/ Refuse(q) \/ CreateLoginSession(q)) /\ UNCHANGED socketVars
  \/ Revoke /\ pending' = pending + 1 /\ UNCHANGED <<socket, revocationEpoch>>
  \/ \E k \in Socket : Handshake(k)
  \/ RevokeUser
  \/ Restart

Spec == Init /\ [][Next]_allVars

-----------------------------------------------------------------------------
\* The types of the sessions and of the connections.
TypeOK ==
  /\ SessionsTypeOK
  /\ socket \in [Socket -> [stage : Stage, version : Version, epoch : Nat]]
  /\ revocationEpoch \in Nat /\ pending \in Nat

\* When the request that revoked the account's sessions has answered, no socket
\* of an older session is registered: neither one that was open, nor one whose
\* handshake began before the revocation and finished after it.
SocketsAreCurrent ==
  pending = 0 => \A k \in Joined : account.exists /\ socket[k].version = account.version
=============================================================================
