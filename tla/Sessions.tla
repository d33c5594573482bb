------------------------------- MODULE Sessions -------------------------------
(***************************************************************************)
(* The sessions of one account: refresh tokens of browsers and of native   *)
(* devices, the token version that outdates all of them, and the requests  *)
(* that issue, rotate and revoke them (apps/api/src/auth-session.ts).      *)
(*                                                                         *)
(* Every transaction here takes the account's advisory lock and reads what *)
(* it decides on under it, so it is one action; two accounts share none.   *)
(* What is read before the lock and used after it is kept in `request':    *)
(* a login or a change of password compares its password with a row it has *)
(* read earlier.  Any token that was ever issued may be presented at any   *)
(* time, again or late: a device restores old storage, an answer is lost.  *)
(***************************************************************************)
EXTENDS Integers, FiniteSets

CONSTANTS
  NumTokens,    \* bound: rows refresh_tokens can hold in a behaviour
  LastVersion,  \* bound: the account's token version
  Password,     \* the passwords its owner uses
  Request,      \* concurrent logins and changes of password
  NoPassword

ASSUME ConstantAssumption ==
  /\ NumTokens \in Nat \ {0} /\ LastVersion \in Nat
  /\ Password # {} /\ NoPassword \notin Password

Token == 1..NumTokens
Version == 0..LastVersion

VARIABLES
  account,  \* users: whether the row exists, token_version, the password and its hash
  token,    \* refresh_tokens
  request,  \* each request's local variables while it compares passwords
  replayed  \* the families whose refresh was refused because its token was revoked

vars == <<account, token, request, replayed>>

\* A hash is known by the version it was written at: each write makes a new one.
Account == [exists : BOOLEAN, version : Version, password : Password, hash : Version]

Revocation == {"ROTATED", "LOGOUT", "LOGOUT_ALL", "REUSE_DETECTED", "EXPIRED"}

\* A family is named by its first token, a JWT carries the version it was signed at.
Row == [client : {"NONE", "WEB", "NATIVE"}, family : Token, version : Version,
        status : {"absent", "live", "deleted"} \cup Revocation, lapsed : BOOLEAN]

NoRow == [client |-> "NONE", family |-> 1, version |-> 0, status |-> "absent", lapsed |-> FALSE]

Idle == [doing |-> "nothing", password |-> NoPassword, next |-> NoPassword, hash |-> 0]

-----------------------------------------------------------------------------
Issued == {t \in Token : token[t].status # "absent"}
Kept == {t \in Issued : token[t].status # "deleted"}
Live == {t \in Token : token[t].status = "live"}
Family(f) == {t \in Token : token[t].client = "NATIVE" /\ token[t].family = f}

\* mutant: only the presented row, revoked already, is looked at
RevokeNothing(T, f, reason) == T

\* the rows of the family that are not revoked yet
RevokeFamily(T, f, reason) ==
  [t \in Token |-> IF T[t].client = "NATIVE" /\ T[t].family = f /\ T[t].status = "live"
                   THEN [T[t] EXCEPT !.status = reason] ELSE T[t]]

\* a deleted row; access tokens of its version may still be around
Deleted(row) == [NoRow EXCEPT !.status = "deleted", !.version = row.version]

\* mutant: revoked rows stay, and one of them is live
DeleteRevokedRows(T) ==
  [t \in Token |-> IF T[t].status \in Revocation THEN Deleted(T[t]) ELSE T[t]]

DeleteRows(T) == [t \in Token |-> IF T[t].status = "absent" THEN T[t] ELSE Deleted(T[t])]

Unused(T) == {t \in Token : T[t].status = "absent" /\ \A s \in Token : T[s].status = "absent" => t <= s}

\* a row for a new session or, with the family of its parent, for a rotated one
Insert(T, t, client, family, version) ==
  [T EXCEPT ![t] = [client |-> client, family |-> family, version |-> version,
                    status |-> "live", lapsed |-> FALSE]]

-----------------------------------------------------------------------------
(* Refresh and logout.                                                     *)

\* mutant: a rotated token still works for a while
RefreshWithGrace(t) ==
  /\ token[t].client = "NATIVE" /\ token[t].status \in {"live", "ROTATED"} /\ ~token[t].lapsed
  /\ \E r \in Unused(token) :
       token' = Insert([token EXCEPT ![t].status = "ROTATED"], r, "NATIVE", token[t].family, account.version)
  /\ UNCHANGED <<account, request, replayed>>

\* refreshNativeSession: reuse is answered before expiry, a live token rotates
RefreshNative(t) ==
  LET family == token[t].family IN
  /\ token[t].client = "NATIVE" /\ t \in Kept
  /\ \/ /\ t \notin Live
        /\ token' = RevokeFamily(token, family, "REUSE_DETECTED")
        /\ replayed' = replayed \cup {family}
     \/ /\ t \in Live /\ token[t].lapsed
        /\ token' = [token EXCEPT ![t].status = "EXPIRED"]
        /\ UNCHANGED replayed
     \/ /\ t \in Live /\ ~token[t].lapsed /\ token[t].version = account.version
        /\ \E r \in Unused(token) :
             token' = Insert([token EXCEPT ![t].status = "ROTATED"], r, "NATIVE", family, account.version)
        /\ UNCHANGED replayed
  /\ UNCHANGED <<account, request>>

\* refreshWebSession: the token is stable, only its expiry is written
RefreshWeb(t) ==
  /\ token[t].client = "WEB" /\ t \in Live /\ token[t].lapsed
  /\ token' = [token EXCEPT ![t].status = "EXPIRED"]
  /\ UNCHANGED <<account, request, replayed>>

\* mutant: only the presented row is revoked
LogoutPresented(t) ==
  /\ token[t].client = "NATIVE" /\ t \in Kept
  /\ token' = IF t \in Live THEN [token EXCEPT ![t].status = "LOGOUT"] ELSE token
  /\ UNCHANGED <<account, request, replayed>>

LogoutNative(t) ==
  /\ token[t].client = "NATIVE" /\ t \in Kept
  /\ token' = RevokeFamily(token, token[t].family, "LOGOUT")
  /\ UNCHANGED <<account, request, replayed>>

\* POST /api/auth/logout deletes the browser's row without a lock
LogoutWeb(t) ==
  /\ token[t].client = "WEB" /\ t \in Kept
  /\ token' = [token EXCEPT ![t] = Deleted(@)]
  /\ UNCHANGED <<account, request, replayed>>

-----------------------------------------------------------------------------
(* Passwords.                                                              *)

\* a login, or a change of password, that has read the account and compared
Begin(q) ==
  /\ request[q] = Idle /\ account.exists
  /\ \E doing \in {"login", "change"}, next \in Password :
       request' = [request EXCEPT ![q] =
         [doing |-> doing, password |-> account.password, hash |-> account.hash,
          next |-> IF doing = "change" THEN next ELSE NoPassword]]
  /\ UNCHANGED <<account, token, replayed>>

\* mutant: the comparison made before the lock is trusted
ComparedBefore(q) == account.exists

\* the hash is the one that was compared, or the password still matches
Proven(q) ==
  account.exists /\ (request[q].hash = account.hash \/ request[q].password = account.password)

Refuse(q) ==
  /\ request[q] # Idle /\ ~Proven(q)
  /\ request' = [request EXCEPT ![q] = Idle]
  /\ UNCHANGED <<account, token, replayed>>

CreateLoginSession(q) ==
  /\ request[q].doing = "login" /\ Proven(q)
  /\ \E client \in {"WEB", "NATIVE"} : \E t \in Unused(token) :
       token' = Insert(token, t, client, t, account.version)
  /\ request' = [request EXCEPT ![q] = Idle]
  /\ UNCHANGED <<account, replayed>>

WritePassword(password) ==
  account' = [account EXCEPT !.version = @ + 1, !.password = password, !.hash = account.version + 1]

\* changePassword: every row goes, a browser that asked keeps one new session
ChangePassword(q) ==
  /\ request[q].doing = "change" /\ Proven(q) /\ account.version < LastVersion
  /\ WritePassword(request[q].next)
  /\ LET left == DeleteRows(token) IN
       \/ token' = left
       \/ \E t \in Unused(left) : token' = Insert(left, t, "WEB", t, account.version + 1)
  /\ request' = [request EXCEPT ![q] = Idle]
  /\ UNCHANGED replayed

\* completePasswordReset, with the token that was mailed to the owner
ResetPassword ==
  /\ account.exists /\ account.version < LastVersion
  /\ \E password \in Password : WritePassword(password)
  /\ token' = DeleteRows(token)
  /\ UNCHANGED <<request, replayed>>

LogoutAll ==
  /\ account.exists /\ account.version < LastVersion
  /\ account' = [account EXCEPT !.version = @ + 1]
  /\ token' = [t \in Token |-> IF t \in Live THEN [token[t] EXCEPT !.status = "LOGOUT_ALL"] ELSE token[t]]
  /\ UNCHANGED <<request, replayed>>

\* an administrator deletes the account, and the rows with it
DeleteAccount ==
  /\ account.exists
  /\ account' = [account EXCEPT !.exists = FALSE]
  /\ token' = DeleteRows(token)
  /\ UNCHANGED <<request, replayed>>

\* expires_at passes; no statement reads it of a row that is revoked
Lapse(t) ==
  /\ t \in Live /\ ~token[t].lapsed
  /\ token' = [token EXCEPT ![t].lapsed = TRUE]
  /\ UNCHANGED <<account, request, replayed>>

-----------------------------------------------------------------------------
InitSessions ==
  /\ \E password \in Password :
       account = [exists |-> TRUE, version |-> 0, password |-> password, hash |-> 0]
  /\ token = [t \in Token |-> NoRow]
  /\ request = [q \in Request |-> Idle]
  /\ replayed = {}

\* what a device can ask for with a token it was given
TokenRequest(t) ==
  RefreshNative(t) \/ RefreshWeb(t) \/ LogoutNative(t) \/ LogoutWeb(t) \/ Lapse(t)

\* the transactions after which the account's sockets are disconnected
Revoke == LogoutAll \/ ResetPassword \/ DeleteAccount \/ \E q \in Request : ChangePassword(q)

-----------------------------------------------------------------------------
(* The abstract server: the rows that were issued, and by family the live  *)
(* ones, a browser's as well as a device's.                                *)

LiveByFamily == [f \in Token |-> {t \in Live : token[t].family = f}]

Families == INSTANCE SessionFamilies WITH issued <- Issued, live <- LiveByFamily

-----------------------------------------------------------------------------
(* What the sessions promise.                                              *)

\* The types of the rows and of what a request has read.
SessionsTypeOK ==
  /\ account \in Account
  /\ token \in [Token -> Row]
  /\ request \in [Request -> [doing : {"nothing", "login", "change"}, password : Password \cup {NoPassword},
                              next : Password \cup {NoPassword}, hash : Version]]
  /\ replayed \in SUBSET Token

\* A session that can still be refreshed belongs to an account that exists and
\* was issued since the last change of password, reset or logout of all devices,
\* however a login or a rotation raced with it (docs/adr/0005).
LiveTokensAreCurrent ==
  \A t \in Live : account.exists /\ token[t].version = account.version

\* A native family has one token that can be refreshed at most: two refreshes
\* with the same token never both win (docs/adr/0002).
OneLiveTokenPerFamily ==
  \A f \in Token : \A s, t \in Family(f) \cap Live : s = t

\* When the server has answered a replay, no descendant of the replayed token
\* can be refreshed, nor any it could have issued while the answer was on its way.
ReplayEndsFamily == \A f \in replayed : Family(f) \cap Live = {}

\* A native session that has ended, by logout, replay, expiry or revocation,
\* never comes back.
FamiliesEndForGood ==
  [][\A f \in Token :
       (f \in Issued /\ Family(f) \cap Live = {}) => Family(f)' \cap Live' = {}]_vars

\* Whoever gets a session, or changes the password, has proven the password the
\* account has at that moment, whatever was changed since it was compared first.
PasswordIsCurrent ==
  [][\A q \in Request :
       (request[q].doing \in {"login", "change"} /\ (Live' \ Live # {} \/ account'.version # account.version)
          /\ request'[q] = Idle)
       => account.exists /\ request[q].password = account.password]_vars

\* The transactions on users and refresh_tokens are a server of sessions with
\* rotating tokens: every one of them begins a session, rotates one, ends some or
\* replaces all, or changes nothing a client can see.
ImplementsFamilies == Families!Spec

=============================================================================
