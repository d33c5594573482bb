---------------------------- MODULE SessionProofs ----------------------------
(***************************************************************************)
(* What the sessions promise, proved for any number of tokens, versions,   *)
(* passwords, requests and sockets.                                        *)
(*                                                                         *)
(* A transaction does one of three things to the rows of refresh_tokens:   *)
(* it continues them (`Continues': rows are revoked, deleted or lapse), it *)
(* issues one row for a login or a rotation, or it ends every session of   *)
(* the account and may issue one row at the raised version.  Lemmas sort   *)
(* the actions into `Continuing', `Issuing' and `Revoking' steps, and the  *)
(* invariant is preserved by each of these.                                *)
(***************************************************************************)
EXTENDS SessionSockets, TLAPS

\* A row of U continues a row of T: it is never younger, and keeps its family
\* and its version for as long as it is live.
Follows(new, old) ==
  /\ new \in Row
  /\ new.status = "absent" <=> old.status = "absent"
  /\ new.status = "live" =>
       /\ old.status = "live" /\ new.version = old.version
       /\ new.client = old.client /\ new.family = old.family
  /\ new.client # "NONE" =>
       /\ new.status \notin {"absent", "deleted"}
       /\ new.client = old.client /\ new.family = old.family

Continues(T, U) == U \in [Token -> Row] /\ \A t \in Token : Follows(U[t], T[t])

LiveIn(T, f) == {t \in Token : T[t].client = "NATIVE" /\ T[t].family = f /\ T[t].status = "live"}

\* A row that names a client is a row that exists, its family was begun by a row
\* that was issued, and only such a family is ever answered as replayed.
RowsKnown ==
  /\ \A t \in Token : token[t].client # "NONE" => token[t].status \notin {"absent", "deleted"}
  /\ \A t \in Token : token[t].client = "NATIVE" => token[token[t].family].status # "absent"
  /\ \A f \in replayed : token[f].status # "absent"

SessionsInv ==
  SessionsTypeOK /\ RowsKnown /\ LiveTokensAreCurrent /\ OneLiveTokenPerFamily /\ ReplayEndsFamily

\* What a request has read: an equal hash is an equal password, because the
\* hash of a later password is of a later version.
RequestsRemember ==
  /\ account.hash <= account.version
  /\ \A q \in Request : request[q].doing \in {"login", "change"} =>
       /\ request[q].hash <= account.hash
       /\ request[q].hash = account.hash => request[q].password = account.password
       /\ request[q].doing = "change" => request[q].next \in Password

Continuing ==
  /\ Continues(token, token')
  /\ account' = account
  /\ \/ replayed' = replayed
     \/ \E f \in Issued : LiveIn(token', f) = {} /\ replayed' = replayed \cup {f}

Issuing ==
  /\ account.exists /\ account' = account /\ replayed' = replayed
  /\ \E t \in Unused(token), client \in {"WEB", "NATIVE"}, f \in Token, T \in [Token -> Row] :
       /\ Continues(token, T)
       /\ f = t \/ (LiveIn(token, f) # {} /\ LiveIn(T, f) = {})
       /\ \A s \in Token : token[s].status = "live" /\ token[s].family # f => T[s] = token[s]
       /\ token' = Insert(T, t, client, f, account.version)

Revoking ==
  /\ account' \in Account /\ replayed' = replayed
  /\ \E T \in [Token -> Row] :
       /\ Continues(token, T) /\ \A t \in Token : T[t].status # "live"
       /\ \/ token' = T
          \/ /\ account'.exists
             /\ \E t \in Unused(T) : token' = Insert(T, t, "WEB", t, account'.version)

-----------------------------------------------------------------------------
(* The helpers.                                                            *)

LEMMA RevocationContinues ==
  ASSUME SessionsInv, NEW f \in Token, NEW reason \in Revocation
  PROVE  /\ Continues(token, RevokeFamily(token, f, reason))
         /\ LiveIn(RevokeFamily(token, f, reason), f) = {}
  BY DEF SessionsInv, SessionsTypeOK, RowsKnown, Continues, Follows, RevokeFamily, LiveIn, Row, Revocation

LEMMA DeletedFields ==
  ASSUME NEW row, row.version \in Version
  PROVE  /\ Deleted(row).client = "NONE" /\ Deleted(row).status = "deleted"
         /\ Deleted(row) \in Row
<1>1. 1 \in Token /\ 0 \in Version
  BY ConstantAssumption DEF Token, Version
<1>2. NoRow \in Row
  BY <1>1 DEF NoRow, Row
<1>3. Deleted(row).client = "NONE" /\ Deleted(row).status = "deleted"
  BY DEF Deleted, NoRow
<1>4. Deleted(row) \in Row
  BY <1>2 DEF Deleted, Row
<1>5. QED
  BY <1>3, <1>4

LEMMA DeletionContinues ==
  ASSUME SessionsInv
  PROVE  /\ Continues(token, DeleteRows(token))
         /\ \A t \in Token : DeleteRows(token)[t].status # "live"
<1>1. token \in [Token -> Row] /\ 1 \in Token
  BY ConstantAssumption DEF SessionsInv, SessionsTypeOK, Token
<1>2. \A t \in Token : DeleteRows(token)[t] =
        IF token[t].status = "absent" THEN token[t] ELSE Deleted(token[t])
  BY DEF DeleteRows
<1>3. \A t \in Token : token[t] \in Row /\ token[t].version \in Version
  BY <1>1 DEF Row
<1>4. \A t \in Token : DeleteRows(token)[t] \in Row
  <2>1. \A t \in Token : Deleted(token[t]) \in Row
    BY <1>3, DeletedFields
  <2>2. QED
    BY <1>2, <1>3, <2>1
<1>5. \A t \in Token : token[t].status = "absent" => token[t].client = "NONE"
  BY <1>3 DEF SessionsInv, RowsKnown
<1>6. \A t \in Token : Follows(DeleteRows(token)[t], token[t])
  <2> SUFFICES ASSUME NEW t \in Token PROVE Follows(DeleteRows(token)[t], token[t])
    OBVIOUS
  <2>1. CASE token[t].status = "absent"
    BY <2>1, <1>2, <1>4, <1>5 DEF Follows
  <2>2. CASE token[t].status # "absent"
    <3>1. DeleteRows(token)[t].client = "NONE" /\ DeleteRows(token)[t].status = "deleted"
      BY <2>2, <1>2, <1>3, DeletedFields
    <3>2. QED
      BY <2>2, <3>1, <1>4 DEF Follows
  <2>3. QED
    BY <2>1, <2>2
<1>7. DeleteRows(token) \in [Token -> Row]
  BY <1>4 DEF DeleteRows
<1>8. \A t \in Token : DeleteRows(token)[t].status # "live"
  BY <1>2, <1>3, DeletedFields
<1>9. QED
  BY <1>6, <1>7, <1>8 DEF Continues

\* replacing one row by one that follows it continues all of them
LEMMA ExceptContinues ==
  ASSUME SessionsInv, NEW t \in Token, NEW row \in Row, Follows(row, token[t])
  PROVE  Continues(token, [token EXCEPT ![t] = row])
  BY DEF SessionsInv, SessionsTypeOK, RowsKnown, Continues, Follows

LEMMA InsertTyped ==
  ASSUME NEW T \in [Token -> Row], NEW t \in Token, NEW client \in {"WEB", "NATIVE"},
         NEW f \in Token, NEW v \in Version
  PROVE  /\ Insert(T, t, client, f, v) \in [Token -> Row]
         /\ Insert(T, t, client, f, v)[t] =
              [client |-> client, family |-> f, version |-> v, status |-> "live", lapsed |-> FALSE]
         /\ \A s \in Token \ {t} : Insert(T, t, client, f, v)[s] = T[s]
  BY DEF Insert, Row

-----------------------------------------------------------------------------
(* The three kinds of steps.                                               *)

LEMMA ContinuingPreserves ==
  ASSUME SessionsInv, Continuing, SessionsTypeOK'
  PROVE  SessionsInv' /\ \A f \in Issued : LiveIn(token, f) = {} => LiveIn(token', f) = {}
<1> USE DEF Live, Family, Issued
<1>1. \A t \in Token : Follows(token'[t], token[t])
  BY DEF Continuing, Continues
<1>2. \A f : LiveIn(token', f) \subseteq LiveIn(token, f)
  BY <1>1 DEF LiveIn, Follows
<1>3. RowsKnown'
  <2>1. \A t \in Token : token'[t].client # "NONE" => token'[t].status \notin {"absent", "deleted"}
    BY <1>1 DEF Follows
  <2>2. \A t \in Token : token'[t].client = "NATIVE" => token'[token'[t].family].status # "absent"
    BY <1>1 DEF Follows, SessionsInv, SessionsTypeOK, RowsKnown, Row
  <2>3. \A f \in replayed' : token'[f].status # "absent"
    BY <1>1 DEF Follows, Continuing, SessionsInv, SessionsTypeOK, RowsKnown
  <2>4. QED
    BY <2>1, <2>2, <2>3 DEF RowsKnown
<1>4. LiveTokensAreCurrent'
  BY <1>1 DEF Follows, Continuing, SessionsInv, LiveTokensAreCurrent
<1>5. OneLiveTokenPerFamily'
  BY <1>2 DEF SessionsInv, OneLiveTokenPerFamily, LiveIn
<1>6. ReplayEndsFamily'
  BY <1>2 DEF SessionsInv, ReplayEndsFamily, Continuing, LiveIn
<1>7. QED
  BY <1>2, <1>3, <1>4, <1>5, <1>6 DEF SessionsInv

LEMMA IssuingPreserves ==
  ASSUME SessionsInv, Issuing, SessionsTypeOK'
  PROVE  SessionsInv' /\ \A f \in Issued : LiveIn(token, f) = {} => LiveIn(token', f) = {}
<1> USE DEF Live, Family, Issued
<1> PICK t \in Unused(token), client \in {"WEB", "NATIVE"}, g \in Token, T \in [Token -> Row] :
      /\ Continues(token, T)
      /\ g = t \/ (LiveIn(token, g) # {} /\ LiveIn(T, g) = {})
      /\ token' = Insert(T, t, client, g, account.version)
  BY DEF Issuing
<1>1. t \in Token /\ token[t].status = "absent" /\ account.version \in Version
  BY DEF Unused, SessionsInv, SessionsTypeOK, Account
<1>2. /\ token'[t] = [client |-> client, family |-> g, version |-> account.version,
                      status |-> "live", lapsed |-> FALSE]
      /\ \A s \in Token \ {t} : token'[s] = T[s]
  BY <1>1, InsertTyped
<1>3. \A s \in Token : Follows(T[s], token[s])
  BY DEF Continues
<1>4. \A f : LiveIn(token', f) \subseteq LiveIn(T, f) \cup {t} /\ (f # g => LiveIn(token', f) \subseteq LiveIn(T, f))
  BY <1>1, <1>2 DEF LiveIn
<1>5. \A f : LiveIn(T, f) \subseteq LiveIn(token, f)
  BY <1>3 DEF LiveIn, Follows
<1>6. LiveIn(T, g) = {} /\ (g = t \/ token[g].status # "absent")
  <2>1. g = t => LiveIn(token, g) = {}
    BY <1>1 DEF LiveIn, SessionsInv, RowsKnown
  <2>2. LiveIn(token, g) # {} => token[g].status # "absent"
    BY DEF LiveIn, SessionsInv, RowsKnown
  <2>3. QED
    BY <1>5, <2>1, <2>2
<1>7. RowsKnown'
  <2>1. \A s \in Token : token'[s].client # "NONE" => token'[s].status \notin {"absent", "deleted"}
    BY <1>2, <1>3 DEF Follows
  <2>2. \A s \in Token : token[s].status # "absent" => token'[s].status # "absent"
    BY <1>1, <1>2, <1>3 DEF Follows
  <2>3. token'[t].status # "absent"
    BY <1>2
  <2>4. \A s \in Token : token'[s].client = "NATIVE" => token'[token'[s].family].status # "absent"
    <3> SUFFICES ASSUME NEW s \in Token, token'[s].client = "NATIVE"
                 PROVE  token'[token'[s].family].status # "absent"
      OBVIOUS
    <3>1. CASE s = t
      BY <3>1, <1>2, <1>6, <2>2, <2>3
    <3>2. CASE s # t
      <4>1. token'[s].client = token[s].client /\ token'[s].family = token[s].family
        BY <3>2, <1>2, <1>3 DEF Follows
      <4>2. token[s].family \in Token /\ token[token[s].family].status # "absent"
        BY <4>1 DEF SessionsInv, SessionsTypeOK, RowsKnown, Row
      <4>3. QED
        BY <4>1, <4>2, <2>2
    <3>3. QED
      BY <3>1, <3>2
  <2>5. \A f \in replayed' : token'[f].status # "absent"
    BY <2>2 DEF Issuing, SessionsInv, SessionsTypeOK, RowsKnown
  <2>6. QED
    BY <2>1, <2>4, <2>5 DEF RowsKnown
<1>8. LiveTokensAreCurrent'
  <2>1. account.exists /\ account' = account
    BY DEF Issuing
  <2>2. \A s \in Token \ {t} : token'[s].status = "live" =>
          token[s].status = "live" /\ token'[s].version = token[s].version
    BY <1>2, <1>3 DEF Follows
  <2>3. \A s \in Token : token'[s].status = "live" => token'[s].version = account.version
    BY <1>2, <2>2 DEF SessionsInv, LiveTokensAreCurrent
  <2>4. QED
    BY <2>1, <2>3 DEF LiveTokensAreCurrent
<1>9. OneLiveTokenPerFamily'
  <2>1. \A f : \A s, u \in LiveIn(token, f) : f \in Token => s = u
    BY DEF SessionsInv, OneLiveTokenPerFamily, LiveIn
  <2>2. \A f \in Token : \A s, u \in LiveIn(token', f) : s = u
    BY <1>4, <1>5, <1>6, <2>1
  <2>3. QED
    BY <2>2 DEF OneLiveTokenPerFamily, LiveIn
<1>10. ReplayEndsFamily'
  <2>1. g \notin replayed
    <3>1. g = t => g \notin replayed
      BY <1>1 DEF SessionsInv, RowsKnown
    <3>2. g \in replayed => LiveIn(token, g) = {}
      BY DEF SessionsInv, ReplayEndsFamily, LiveIn
    <3>3. QED
      BY <3>1, <3>2
  <2>2. \A f \in replayed : LiveIn(token, f) = {}
    BY DEF SessionsInv, ReplayEndsFamily, LiveIn
  <2>3. \A f \in replayed : LiveIn(token', f) = {}
    BY <2>1, <2>2, <1>4, <1>5
  <2>4. QED
    BY <2>3 DEF ReplayEndsFamily, LiveIn, Issuing
<1>11. \A f \in Issued : LiveIn(token, f) = {} => LiveIn(token', f) = {}
  BY <1>1, <1>4, <1>5
<1>12. QED
  BY <1>7, <1>8, <1>9, <1>10, <1>11 DEF SessionsInv

LEMMA RevokingPreserves ==
  ASSUME SessionsInv, Revoking, SessionsTypeOK'
  PROVE  SessionsInv' /\ \A f \in Issued : LiveIn(token', f) = {}
<1> USE DEF Live, Family, Issued
<1>1. PICK T \in [Token -> Row] :
        /\ Continues(token, T) /\ \A t \in Token : T[t].status # "live"
        /\ \/ token' = T
           \/ account'.exists /\ \E t \in Unused(T) : token' = Insert(T, t, "WEB", t, account'.version)
  BY DEF Revoking
<1>2. \A s \in Token : Follows(T[s], token[s])
  BY <1>1 DEF Continues
<1>3. \A s \in Token :
        \/ token'[s] = T[s]
        \/ /\ account'.exists /\ token'[s].client = "WEB"
           /\ token'[s].status = "live" /\ token'[s].version = account'.version
  <2>1. CASE token' = T
    BY <2>1
  <2>2. CASE account'.exists /\ \E t \in Unused(T) : token' = Insert(T, t, "WEB", t, account'.version)
    <3>1. account'.version \in Version
      BY DEF Revoking, Account
    <3>2. PICK t \in Unused(T) : token' = Insert(T, t, "WEB", t, account'.version)
      BY <2>2
    <3>3. t \in Token
      BY DEF Unused
    <3>4. /\ token'[t] = [client |-> "WEB", family |-> t, version |-> account'.version,
                          status |-> "live", lapsed |-> FALSE]
          /\ \A s \in Token \ {t} : token'[s] = T[s]
      BY <3>1, <3>2, <3>3, InsertTyped
    <3>5. QED
      BY <2>2, <3>4
  <2>3. QED
    BY <1>1, <2>1, <2>2
<1>4. \A s \in Token :
        token'[s].status = "live" =>
          account'.exists /\ token'[s].client = "WEB" /\ token'[s].version = account'.version
  BY <1>1, <1>3
<1>5. \A f : LiveIn(token', f) = {}
  BY <1>4 DEF LiveIn
<1>6. RowsKnown'
  <2>1. \A s \in Token : token'[s].client # "NONE" => token'[s].status \notin {"absent", "deleted"}
    BY <1>2, <1>3 DEF Follows
  <2>2. \A s \in Token : token[s].status # "absent" => token'[s].status # "absent"
    BY <1>2, <1>3 DEF Follows
  <2>3. \A s \in Token : token'[s].client = "NATIVE" => token[s].client = "NATIVE" /\ token'[s].family = token[s].family
    BY <1>2, <1>3 DEF Follows
  <2>4. \A s \in Token : token'[s].client = "NATIVE" => token'[token'[s].family].status # "absent"
    BY <2>2, <2>3 DEF SessionsInv, SessionsTypeOK, RowsKnown, Row
  <2>5. \A f \in replayed' : token'[f].status # "absent"
    BY <2>2 DEF Revoking, SessionsInv, SessionsTypeOK, RowsKnown
  <2>6. QED
    BY <2>1, <2>4, <2>5 DEF RowsKnown
<1>7. LiveTokensAreCurrent'
  BY <1>4 DEF LiveTokensAreCurrent
<1>8. OneLiveTokenPerFamily'
  BY <1>5 DEF OneLiveTokenPerFamily, LiveIn
<1>9. ReplayEndsFamily'
  BY <1>5 DEF ReplayEndsFamily, LiveIn
<1>10. QED
  BY <1>5, <1>6, <1>7, <1>8, <1>9 DEF SessionsInv

-----------------------------------------------------------------------------
(* Every action takes one of the three steps.                              *)

LEMMA NothingContinues ==
  ASSUME SessionsInv
  PROVE  Continues(token, token)
  BY DEF SessionsInv, SessionsTypeOK, RowsKnown, Continues, Follows

LEMMA UnchangedContinuing ==
  ASSUME SessionsInv, UNCHANGED <<account, token, replayed>>
  PROVE  Continuing
  BY NothingContinues DEF Continuing

\* revoking one row
LEMMA StatusContinues ==
  ASSUME SessionsInv, NEW t \in Kept, NEW reason \in Revocation
  PROVE  Continues(token, [token EXCEPT ![t].status = reason])
<1>1. t \in Token /\ token[t] \in Row /\ token[t].status \notin {"absent", "deleted"}
  BY DEF Kept, Issued, SessionsInv, SessionsTypeOK
<1> DEFINE row == [token[t] EXCEPT !.status = reason]
<1>2. row \in Row /\ row.status = reason /\ row.client = token[t].client /\ row.family = token[t].family
  BY <1>1 DEF Row
<1>3. reason \notin {"absent", "deleted", "live"}
  BY DEF Revocation
<1>4. Follows(row, token[t])
  BY <1>1, <1>2, <1>3 DEF Follows
<1>5. QED
  BY <1>1, <1>2, <1>4, ExceptContinues

LEMMA ReplayContinuing ==
  ASSUME SessionsInv, NEW t \in Token, token[t].client = "NATIVE",
         token' = RevokeFamily(token, token[t].family, "REUSE_DETECTED"),
         replayed' = replayed \cup {token[t].family}, UNCHANGED account
  PROVE  Continuing
<1>1. token[t].family \in Issued
  BY DEF SessionsInv, SessionsTypeOK, RowsKnown, Row, Issued
<1>2. token[t].family \in Token /\ "REUSE_DETECTED" \in Revocation
  BY <1>1 DEF Issued, Revocation
<1>3. Continues(token, token') /\ LiveIn(token', token[t].family) = {}
  BY <1>2, RevocationContinues
<1>4. QED
  BY <1>1, <1>3 DEF Continuing

LEMMA RotationIssuing ==
  ASSUME SessionsInv, NEW t \in Live, NEW r \in Unused(token), token[t].client = "NATIVE",
         token' = Insert([token EXCEPT ![t].status = "ROTATED"], r, "NATIVE", token[t].family, account.version),
         UNCHANGED <<account, replayed>>
  PROVE  Issuing
<1> DEFINE f == token[t].family
           T == [token EXCEPT ![t].status = "ROTATED"]
<1>1. t \in Token /\ t \in Kept /\ token[t].status = "live" /\ f \in Token /\ "ROTATED" \in Revocation
  BY DEF Live, Kept, Issued, SessionsInv, SessionsTypeOK, Row, Revocation
<1>2. Continues(token, T)
  BY <1>1, StatusContinues
<1>3. t \in LiveIn(token, f)
  BY <1>1 DEF LiveIn
<1>4. \A s \in LiveIn(token, f) : s = t
  BY <1>1, <1>3 DEF SessionsInv, OneLiveTokenPerFamily, LiveIn, Family, Live
<1>5. /\ T \in [Token -> Row] /\ T[t].status = "ROTATED"
      /\ \A s \in Token \ {t} : T[s] = token[s]
  BY <1>1, <1>2 DEF Continues, SessionsInv, SessionsTypeOK, Row
<1>6. LiveIn(T, f) = {}
  BY <1>4, <1>5 DEF LiveIn
<1>7. account.exists
  BY DEF SessionsInv, LiveTokensAreCurrent
<1> HIDE DEF T
<1>8. \E u \in Unused(token), client \in {"WEB", "NATIVE"}, g \in Token, U \in [Token -> Row] :
        /\ Continues(token, U)
        /\ g = u \/ (LiveIn(token, g) # {} /\ LiveIn(U, g) = {})
        /\ \A s \in Token : token[s].status = "live" /\ token[s].family # g => U[s] = token[s]
        /\ token' = Insert(U, u, client, g, account.version)
  <2>1. token' = Insert(T, r, "NATIVE", f, account.version)
    BY DEF T
  <2>2. \A s \in Token : token[s].family # f => T[s] = token[s]
    BY <1>5
  <2>3. QED
    BY <1>1, <1>2, <1>3, <1>5, <1>6, <2>1, <2>2
<1>9. QED
  BY <1>7, <1>8 DEF Issuing

LEMMA TokenRequestKinds ==
  ASSUME SessionsInv, NEW t \in Token, TokenRequest(t)
  PROVE  (Continuing \/ Issuing) /\ account' = account
<1>1. CASE RefreshNative(t)
  <2>1. CASE t \notin Live /\ replayed' = replayed \cup {token[t].family}
               /\ token' = RevokeFamily(token, token[t].family, "REUSE_DETECTED")
    BY <1>1, <2>1, ReplayContinuing DEF RefreshNative
  <2>2. CASE /\ t \in Live /\ replayed' = replayed
             /\ token' = [token EXCEPT ![t].status = "EXPIRED"]
    <3>1. "EXPIRED" \in Revocation
      BY DEF Revocation
    <3>2. QED
      BY <1>1, <2>2, <3>1, StatusContinues DEF RefreshNative, Continuing
  <2>3. CASE /\ t \in Live /\ replayed' = replayed
             /\ \E r \in Unused(token) : token' =
                  Insert([token EXCEPT ![t].status = "ROTATED"], r, "NATIVE", token[t].family, account.version)
    BY <1>1, <2>3, RotationIssuing DEF RefreshNative
  <2>4. QED
    BY <1>1, <2>1, <2>2, <2>3 DEF RefreshNative
<1>2. CASE RefreshWeb(t)
  <2>1. "EXPIRED" \in Revocation /\ t \in Kept
    BY <1>2 DEF RefreshWeb, Live, Kept, Issued, Revocation
  <2>2. QED
    BY <1>2, <2>1, StatusContinues DEF RefreshWeb, Continuing
<1>3. CASE LogoutNative(t)
  <2>1. token[t].family \in Token /\ "LOGOUT" \in Revocation
    BY DEF SessionsInv, SessionsTypeOK, Row, Revocation
  <2>2. QED
    BY <1>3, <2>1, RevocationContinues DEF LogoutNative, Continuing
<1>4. CASE LogoutWeb(t)
  <2>1. token[t] \in Row /\ token[t].version \in Version /\ token[t].status # "absent"
    BY <1>4 DEF LogoutWeb, Kept, Issued, SessionsInv, SessionsTypeOK, Row
  <2>2. Follows(Deleted(token[t]), token[t])
    BY <2>1, DeletedFields DEF Follows
  <2>3. Continues(token, [token EXCEPT ![t] = Deleted(token[t])])
    BY <2>1, <2>2, DeletedFields, ExceptContinues
  <2>4. QED
    BY <1>4, <2>3 DEF LogoutWeb, Continuing
<1>5. CASE Lapse(t)
  <2> DEFINE row == [token[t] EXCEPT !.lapsed = TRUE]
  <2>1. token[t] \in Row /\ token[t].status = "live"
    BY <1>5 DEF Lapse, Live, SessionsInv, SessionsTypeOK
  <2>2. /\ row \in Row /\ row.status = "live" /\ row.client = token[t].client
        /\ row.family = token[t].family /\ row.version = token[t].version
    BY <2>1 DEF Row
  <2>3. Follows(row, token[t])
    BY <2>1, <2>2 DEF Follows
  <2>4. Continues(token, [token EXCEPT ![t] = row])
    BY <2>2, <2>3, ExceptContinues
  <2>5. QED
    BY <1>5, <2>4 DEF Lapse, Continuing
<1>6. QED
  BY <1>1, <1>2, <1>3, <1>4, <1>5 DEF TokenRequest

LEMMA LoginIssuing ==
  ASSUME SessionsInv, NEW q \in Request, CreateLoginSession(q)
  PROVE  Issuing /\ account' = account
<1>1. PICK client \in {"WEB", "NATIVE"}, t \in Unused(token) :
        token' = Insert(token, t, client, t, account.version)
  BY DEF CreateLoginSession
<1>2. t \in Token /\ token \in [Token -> Row] /\ Continues(token, token)
  BY NothingContinues DEF Unused, SessionsInv, SessionsTypeOK
<1>3. account.exists /\ account' = account /\ replayed' = replayed
  BY DEF CreateLoginSession, Proven
<1>4. QED
  BY <1>1, <1>2, <1>3 DEF Issuing

LEMMA PasswordWritten ==
  ASSUME SessionsInv, NEW password \in Password, account.exists, account.version < LastVersion,
         WritePassword(password)
  PROVE  /\ account' \in Account /\ account'.exists /\ account'.version = account.version + 1
         /\ account'.hash = account.version + 1 /\ account'.password = password
<1>1. account.version + 1 \in Version
  BY ConstantAssumption DEF SessionsInv, SessionsTypeOK, Account, Version
<1>2. QED
  BY <1>1 DEF WritePassword, SessionsInv, SessionsTypeOK, Account

LEMMA RevokeRevoking ==
  ASSUME SessionsInv, RequestsRemember, Revoke
  PROVE  Revoking
<1>1. CASE LogoutAll
  <2>1. account.version + 1 \in Version
    BY <1>1, ConstantAssumption DEF LogoutAll, SessionsInv, SessionsTypeOK, Account, Version
  <2>2. account' \in Account
    BY <1>1, <2>1 DEF LogoutAll, SessionsInv, SessionsTypeOK, Account
  <2>3. /\ Continues(token, token')
        /\ \A t \in Token : token'[t].status # "live"
    <3>1. token' \in [Token -> Row] /\ \A t \in Token : token'[t].status # "live"
      BY <1>1 DEF LogoutAll, Live, SessionsInv, SessionsTypeOK, Row, Revocation
    <3>2. \A t \in Token : Follows(token'[t], token[t])
      BY <1>1, <3>1 DEF LogoutAll, Live, SessionsInv, SessionsTypeOK, RowsKnown, Row, Follows
    <3>3. QED
      BY <3>1, <3>2 DEF Continues
  <2>4. QED
    BY <1>1, <2>2, <2>3 DEF LogoutAll, Revoking, Continues
<1>2. CASE ResetPassword
  <2>1. account' \in Account
    BY <1>2, PasswordWritten DEF ResetPassword
  <2>2. QED
    BY <1>2, <2>1, DeletionContinues DEF ResetPassword, Revoking, Continues
<1>3. CASE DeleteAccount
  <2>1. account' \in Account
    BY <1>3 DEF DeleteAccount, SessionsInv, SessionsTypeOK, Account
  <2>2. QED
    BY <1>3, <2>1, DeletionContinues DEF DeleteAccount, Revoking, Continues
<1>4. ASSUME NEW q \in Request, ChangePassword(q)
      PROVE  Revoking
  <2>1. request[q].next \in Password /\ account.exists
    BY <1>4 DEF ChangePassword, Proven, RequestsRemember
  <2>2. account' \in Account /\ account'.exists /\ account'.version = account.version + 1
    BY <1>4, <2>1, PasswordWritten DEF ChangePassword
  <2>3. DeleteRows(token) \in [Token -> Row]
    BY DeletionContinues DEF Continues
  <2>4. QED
    BY <1>4, <2>2, <2>3, DeletionContinues DEF ChangePassword, Revoking
<1>5. QED
  BY <1>1, <1>2, <1>3, <1>4 DEF Revoke

LEMMA SessionKinds ==
  ASSUME SessionsInv, RequestsRemember, [Next]_allVars
  PROVE  Continuing \/ Issuing \/ Revoking
<1> USE UnchangedContinuing
<1>1. CASE \E t \in Token : TokenRequest(t) /\ UNCHANGED socketVars
  BY <1>1, TokenRequestKinds
<1>2. CASE \E q \in Request : (Begin(q) \/ Refuse(q) \/ CreateLoginSession(q)) /\ UNCHANGED socketVars
  BY <1>2, LoginIssuing DEF Begin, Refuse
<1>3. CASE Revoke
  BY <1>3, RevokeRevoking
<1>4. CASE \E k \in Socket : Handshake(k)
  BY <1>4 DEF Handshake, BeginHandshake, AuthenticateHandshake, AdmitHandshake, Register, Disconnect, vars
<1>5. CASE RevokeUser
  BY <1>5 DEF RevokeUser, vars
<1>6. CASE Restart
  BY <1>6 DEF Restart
<1>7. CASE UNCHANGED allVars
  BY <1>7 DEF allVars, vars
<1>8. QED
  BY <1>1, <1>2, <1>3, <1>4, <1>5, <1>6, <1>7 DEF Next

-----------------------------------------------------------------------------
(* The invariant of the sessions.                                          *)

LEMMA KindsTyped ==
  ASSUME SessionsInv, Continuing \/ Issuing \/ Revoking
  PROVE  account' \in Account /\ token' \in [Token -> Row] /\ replayed' \in SUBSET Token
<1>1. CASE Continuing
  BY <1>1 DEF Continuing, Continues, Issued, SessionsInv, SessionsTypeOK
<1>2. CASE Issuing
  <2>1. account.version \in Version
    BY DEF SessionsInv, SessionsTypeOK, Account
  <2>2. token' \in [Token -> Row]
    <3>1. PICK t \in Unused(token), client \in {"WEB", "NATIVE"}, f \in Token, T \in [Token -> Row] :
            token' = Insert(T, t, client, f, account.version)
      BY <1>2 DEF Issuing
    <3>2. t \in Token
      BY DEF Unused
    <3>3. QED
      BY <2>1, <3>1, <3>2, InsertTyped
  <2>3. QED
    BY <1>2, <2>2 DEF Issuing, SessionsInv, SessionsTypeOK
<1>3. CASE Revoking
  <2>1. account'.version \in Version
    BY <1>3 DEF Revoking, Account
  <2>2. token' \in [Token -> Row]
    <3>1. PICK T \in [Token -> Row] :
            token' = T \/ \E t \in Unused(T) : token' = Insert(T, t, "WEB", t, account'.version)
      BY <1>3 DEF Revoking
    <3>2. \A t \in Unused(T) : Insert(T, t, "WEB", t, account'.version) \in [Token -> Row]
      BY <2>1, InsertTyped DEF Unused
    <3>3. QED
      BY <3>1, <3>2
  <2>3. QED
    BY <1>3, <2>2 DEF Revoking, SessionsInv, SessionsTypeOK
<1>4. QED
  BY <1>1, <1>2, <1>3

\* A request is idle, has just read the account, or is left alone.
LEMMA RequestSteps ==
  ASSUME SessionsTypeOK, [Next]_allVars
  PROVE  /\ request' \in [Request -> [doing : {"nothing", "login", "change"},
                            password : Password \cup {NoPassword}, next : Password \cup {NoPassword},
                            hash : Version]]
         /\ \A q \in Request :
            \/ request'[q] = request[q]
            \/ request'[q].doing = "nothing"
            \/ /\ account' = account /\ token' = token
               /\ request'[q].password = account.password /\ request'[q].hash = account.hash
               /\ request'[q].doing = "change" => request'[q].next \in Password
<1> DEFINE Locals == [doing : {"nothing", "login", "change"}, password : Password \cup {NoPassword},
                      next : Password \cup {NoPassword}, hash : Version]
<1>1. request \in [Request -> Locals] /\ account.password \in Password /\ account.hash \in Version
  BY DEF SessionsTypeOK, Account
<1>2. Idle \in Locals /\ Idle.doing = "nothing"
  BY ConstantAssumption DEF Idle, Version
<1>3. CASE UNCHANGED request
  BY <1>1, <1>3
<1>4. CASE \E r \in Request : request' = [request EXCEPT ![r] = Idle]
  BY <1>1, <1>2, <1>4
<1>5. CASE \E r \in Request : Begin(r)
  <2> DEFINE Read(doing, next) ==
        [doing |-> doing, password |-> account.password, hash |-> account.hash,
         next |-> IF doing = "change" THEN next ELSE NoPassword]
  <2>1. PICK r \in Request, doing \in {"login", "change"}, next \in Password :
          request' = [request EXCEPT ![r] = Read(doing, next)]
    BY <1>5 DEF Begin
  <2>2. /\ Read(doing, next) \in Locals
        /\ Read(doing, next).doing = "change" => Read(doing, next).next \in Password
        /\ Read(doing, next).password = account.password /\ Read(doing, next).hash = account.hash
    BY <1>1
  <2>3. account' = account /\ token' = token
    BY <1>5 DEF Begin
  <2> HIDE DEF Read
  <2>4. QED
    BY <1>1, <2>1, <2>2, <2>3
<1>6. CASE Restart
  BY <1>1, <1>2, <1>6 DEF Restart
<1>7. request' = request \/ (\E r \in Request : request' = [request EXCEPT ![r] = Idle])
        \/ (\E r \in Request : Begin(r)) \/ Restart
  BY DEF Next, TokenRequest, RefreshNative, RefreshWeb, LogoutNative, LogoutWeb, Lapse, Refuse,
     CreateLoginSession, Revoke, LogoutAll, ResetPassword, DeleteAccount, ChangePassword, Handshake,
     BeginHandshake, AuthenticateHandshake, AdmitHandshake, Register, Disconnect, RevokeUser, vars, allVars
<1>8. QED
  BY <1>3, <1>4, <1>5, <1>6, <1>7

LEMMA AccountKept ==
  ASSUME SessionsInv, [Next]_allVars, ~Revoke
  PROVE  account' = account
  BY TokenRequestKinds, LoginIssuing
  DEF Next, Begin, Refuse, Handshake, BeginHandshake, AuthenticateHandshake, AdmitHandshake, Register,
      Disconnect, RevokeUser, Restart, vars, allVars

\* A new hash is of a later version than any that was read.
LEMMA AccountRevoked ==
  ASSUME SessionsInv, RequestsRemember, Revoke
  PROVE  /\ account'.hash <= account'.version
         /\ \/ account'.hash = account.hash /\ account'.password = account.password
            \/ account'.hash = account.version + 1
<1> USE DEF Version
<1>1. account.version \in Version /\ account.hash \in Version
  BY DEF SessionsInv, SessionsTypeOK, Account
<1>2. CASE LogoutAll
  <2>1. account'.version = account.version + 1 /\ account'.hash = account.hash /\ account'.password = account.password
    BY <1>2 DEF LogoutAll, SessionsInv, SessionsTypeOK, Account
  <2>2. QED
    BY <1>1, <2>1 DEF RequestsRemember
<1>3. CASE ResetPassword
  BY <1>1, <1>3, PasswordWritten DEF ResetPassword
<1>4. CASE DeleteAccount
  <2>1. account'.version = account.version /\ account'.hash = account.hash /\ account'.password = account.password
    BY <1>4 DEF DeleteAccount, SessionsInv, SessionsTypeOK, Account
  <2>2. QED
    BY <2>1 DEF RequestsRemember
<1>5. ASSUME NEW q \in Request, ChangePassword(q)
      PROVE  account'.hash = account.version + 1 /\ account'.version = account.version + 1
  <2>1. request[q].next \in Password /\ account.exists
    BY <1>5 DEF ChangePassword, Proven, RequestsRemember
  <2>2. QED
    BY <1>5, <2>1, PasswordWritten DEF ChangePassword
<1>6. QED
  BY <1>1, <1>2, <1>3, <1>4, <1>5 DEF Revoke

LEMMA RequestsStep ==
  ASSUME SessionsInv, RequestsRemember, [Next]_allVars
  PROVE  RequestsRemember'
<1>1. account.version \in Nat /\ account.hash \in Nat /\ account.hash <= account.version
  BY ConstantAssumption DEF SessionsInv, SessionsTypeOK, Account, Version, RequestsRemember
<1>2. /\ account'.hash <= account'.version
      /\ \/ account'.hash = account.hash /\ account'.password = account.password
         \/ account'.hash = account.version + 1
  BY <1>1, AccountKept, AccountRevoked
<1>3. ASSUME NEW q \in Request, request'[q].doing \in {"login", "change"}
      PROVE  /\ request'[q].hash <= account'.hash
             /\ request'[q].hash = account'.hash => request'[q].password = account'.password
             /\ request'[q].doing = "change" => request'[q].next \in Password
  <2>1. SessionsTypeOK /\ request'[q].doing # "nothing"
    BY <1>3 DEF SessionsInv
  <2>2. CASE request'[q] = request[q]
    <3>1. request[q].hash \in Nat /\ request[q].hash <= account.hash
      BY <1>3, <2>2, ConstantAssumption DEF SessionsInv, SessionsTypeOK, Version, RequestsRemember
    <3>2. /\ request[q].hash = account.hash => request[q].password = account.password
          /\ request[q].doing = "change" => request[q].next \in Password
      BY <1>3, <2>2 DEF RequestsRemember
    <3>3. QED
      BY <1>1, <1>2, <2>2, <3>1, <3>2
  <2>3. CASE /\ account' = account
             /\ request'[q].password = account.password /\ request'[q].hash = account.hash
             /\ request'[q].doing = "change" => request'[q].next \in Password
    BY <1>1, <2>3
  <2>4. QED
    BY <2>1, <2>2, <2>3, RequestSteps
<1>4. QED
  BY <1>2, <1>3 DEF RequestsRemember

LEMMA SessionsStep ==
  ASSUME SessionsInv, RequestsRemember, [Next]_allVars
  PROVE  /\ SessionsInv'
         /\ \A f \in Issued : LiveIn(token, f) = {} => LiveIn(token', f) = {}
<1>1. Continuing \/ Issuing \/ Revoking
  BY SessionKinds
<1>2. SessionsTypeOK'
  BY <1>1, KindsTyped, RequestSteps DEF SessionsInv, SessionsTypeOK
<1>3. QED
  BY <1>1, <1>2, ContinuingPreserves, IssuingPreserves, RevokingPreserves

-----------------------------------------------------------------------------
(* The abstract server of sessions.                                        *)

LiveOf(T, f) == {t \in Token : T[t].status = "live" /\ T[t].family = f}

LEMMA AbstractLive ==
  /\ LiveByFamily = [f \in Token |-> LiveOf(token, f)]
  /\ LiveByFamily' = [f \in Token |-> LiveOf(token', f)]
  BY DEF LiveByFamily, LiveOf, Live

LEMMA ContinuingFamilies ==
  ASSUME SessionsInv, Families!OneToken, Continuing
  PROVE  \E F \in SUBSET Token : Families!End(F)
<1>1. \A t \in Token : Follows(token'[t], token[t])
  BY DEF Continuing, Continues
<1>2. Issued' = Issued
  BY <1>1 DEF Follows, Issued
<1>3. \A f \in Token : LiveOf(token', f) \subseteq LiveOf(token, f)
  BY <1>1 DEF LiveOf, Follows
<1>4. \A f \in Token : LiveOf(token, f) = {} \/ \E s : LiveOf(token, f) = {s}
  BY AbstractLive DEF Families!OneToken
<1> DEFINE F == {f \in Token : LiveOf(token', f) = {}}
<1>5. \A f \in Token : LiveOf(token', f) = IF f \in F THEN {} ELSE LiveOf(token, f)
  BY <1>3, <1>4
<1>6. LiveByFamily' = [f \in Token |-> IF f \in F THEN {} ELSE LiveByFamily[f]]
  BY <1>5, AbstractLive
<1>7. QED
  BY <1>2, <1>6 DEF Families!End, Families!Without

LEMMA IssuingFamilies ==
  ASSUME SessionsInv, Families!OneToken, Issuing
  PROVE  \E f, t \in Token : Families!Begin(t) \/ Families!Rotate(f, t)
<1>1. PICK t \in Unused(token), client \in {"WEB", "NATIVE"}, g \in Token, T \in [Token -> Row] :
      /\ Continues(token, T)
      /\ g = t \/ (LiveIn(token, g) # {} /\ LiveIn(T, g) = {})
      /\ \A s \in Token : token[s].status = "live" /\ token[s].family # g => T[s] = token[s]
      /\ token' = Insert(T, t, client, g, account.version)
  BY DEF Issuing
<1>2. t \in Token /\ t \notin Issued /\ token[t].status = "absent" /\ account.version \in Version
  BY DEF Unused, Issued, SessionsInv, SessionsTypeOK, Account
<1>3. /\ token'[t] = [client |-> client, family |-> g, version |-> account.version,
                      status |-> "live", lapsed |-> FALSE]
      /\ \A s \in Token \ {t} : token'[s] = T[s]
  BY <1>1, <1>2, InsertTyped
<1>4. \A s \in Token : Follows(T[s], token[s])
  BY <1>1 DEF Continues
<1>5. Issued' = Issued \cup {t}
  BY <1>2, <1>3, <1>4 DEF Follows, Issued
<1>6. T[t].status # "live"
  BY <1>2, <1>4 DEF Follows
<1>7. \A f \in Token \ {g} : LiveOf(token', f) = LiveOf(token, f)
  BY <1>1, <1>2, <1>3, <1>4, <1>6 DEF LiveOf, Follows
<1>8. \A f \in Token : LiveOf(token, f) # {} => f \in Issued /\ \E s \in Issued : LiveOf(token, f) = {s}
  BY AbstractLive DEF Families!OneToken
<1>9. LiveOf(T, g) \subseteq LiveOf(token, g)
  BY <1>4 DEF LiveOf, Follows
<1>10. LiveOf(T, g) = {}
  <2>1. CASE g = t
    BY <2>1, <1>2, <1>8, <1>9
  <2>2. CASE LiveIn(token, g) # {} /\ LiveIn(T, g) = {}
    <3>1. PICK s \in Token : s \in LiveOf(token, g) /\ token[s].client = "NATIVE"
      BY <2>2 DEF LiveIn, LiveOf
    <3>2. LiveOf(token, g) = {s}
      BY <1>8, <3>1
    <3>3. s \notin LiveOf(T, g)
      BY <1>4, <2>2, <3>1 DEF LiveIn, LiveOf, Follows
    <3>4. QED
      BY <1>9, <3>2, <3>3
  <2>3. QED
    BY <1>1, <2>1, <2>2
<1>11. LiveOf(token', g) = {t}
  BY <1>2, <1>3, <1>10 DEF LiveOf
<1>12. LiveByFamily' = [LiveByFamily EXCEPT ![g] = {t}]
  BY <1>7, <1>11, AbstractLive
<1>13. CASE g = t
  BY <1>2, <1>5, <1>12, <1>13 DEF Families!Begin, Families!Unissued
<1>14. CASE g # t
  <2>1. LiveOf(token, g) # {}
    BY <1>1, <1>14 DEF LiveIn, LiveOf
  <2>2. \E s \in Issued : LiveByFamily[g] = {s}
    BY <1>8, <2>1, AbstractLive
  <2>3. QED
    BY <1>2, <1>5, <1>12, <2>2 DEF Families!Rotate, Families!Unissued
<1>15. QED
  BY <1>13, <1>14

LEMMA RevokingFamilies ==
  ASSUME SessionsInv, Revoking
  PROVE  Families!End(Token) \/ \E f \in Token : Families!Replace(f)
<1>1. PICK T \in [Token -> Row] :
        /\ Continues(token, T) /\ \A t \in Token : T[t].status # "live"
        /\ \/ token' = T
           \/ account'.exists /\ \E t \in Unused(T) : token' = Insert(T, t, "WEB", t, account'.version)
  BY DEF Revoking
<1>2. \A s \in Token : T[s].status = "absent" <=> token[s].status = "absent"
  BY <1>1 DEF Continues, Follows
<1>3. CASE token' = T
  <2>1. Issued' = Issued
    BY <1>2, <1>3 DEF Issued
  <2>2. \A f \in Token : LiveOf(token', f) = {}
    BY <1>1, <1>3 DEF LiveOf
  <2>3. LiveByFamily' = [f \in Token |-> IF f \in Token THEN {} ELSE LiveByFamily[f]]
    BY <2>2, AbstractLive
  <2>4. QED
    BY <2>1, <2>3 DEF Families!End, Families!Without
<1>4. ASSUME NEW t \in Unused(T), token' = Insert(T, t, "WEB", t, account'.version)
      PROVE  Families!Replace(t)
  <2>1. t \in Token /\ T[t].status = "absent" /\ account'.version \in Version
    BY DEF Unused, Revoking, Account
  <2>2. /\ token'[t] = [client |-> "WEB", family |-> t, version |-> account'.version,
                        status |-> "live", lapsed |-> FALSE]
        /\ \A s \in Token \ {t} : token'[s] = T[s]
    BY <1>4, <2>1, InsertTyped
  <2>3. t \notin Issued /\ Issued' = Issued \cup {t}
    BY <1>2, <2>1, <2>2 DEF Issued
  <2>4. \A f \in Token : LiveOf(token', f) = IF f = t THEN {t} ELSE {}
    BY <1>1, <2>1, <2>2 DEF LiveOf
  <2>5. LiveByFamily' = [[f \in Token |-> IF f \in Token THEN {} ELSE LiveByFamily[f]] EXCEPT ![t] = {t}]
    BY <2>1, <2>4, AbstractLive
  <2>6. QED
    BY <2>1, <2>3, <2>5 DEF Families!Replace, Families!Without, Families!Unissued
<1>5. QED
  BY <1>1, <1>3, <1>4 DEF Unused

LEMMA FamiliesStep ==
  ASSUME SessionsInv, RequestsRemember, Families!OneToken, [Next]_allVars
  PROVE  Families!Next /\ Families!OneToken'
<1> DEFINE I == Issued
           J == Issued'
           L == LiveByFamily
           M == LiveByFamily'
           OnlyEnds == J = I /\ \A g \in Token : M[g] \in {L[g], {}}
           Issues   == \E t \in Token, g \in Token :
                      /\ J = I \cup {t} /\ g \in J /\ M[g] = {t}
                      /\ \A h \in Token \ {g} : M[h] \in {L[h], {}}
<1>1. DOMAIN L = Token /\ DOMAIN M = Token
  BY DEF LiveByFamily
<1>2. \A g \in Token : L[g] # {} => g \in I /\ \E s \in I : L[g] = {s}
  BY DEF Families!OneToken
<1>3. Continuing \/ Issuing \/ Revoking
  BY SessionKinds
<1>4. ASSUME Continuing
      PROVE  Families!Next /\ (OnlyEnds \/ Issues)
  <2>1. PICK F \in SUBSET Token : Families!End(F)
    BY <1>4, ContinuingFamilies
  <2>2. OnlyEnds
    BY <1>1, <2>1 DEF Families!End, Families!Without
  <2>3. QED
    BY <2>1, <2>2 DEF Families!Next
<1>5. ASSUME Issuing
      PROVE  Families!Next /\ (OnlyEnds \/ Issues)
  <2>1. PICK f \in Token, t \in Token : Families!Begin(t) \/ Families!Rotate(f, t)
    BY <1>5, IssuingFamilies
  <2>2. CASE Families!Begin(t)
    <3>1. J = I \cup {t} /\ M = [L EXCEPT ![t] = {t}]
      BY <2>2 DEF Families!Begin
    <3> HIDE DEF I, J, L, M
    <3>2. Issues
      BY <1>1, <3>1
    <3>3. QED
      BY <2>2, <3>2 DEF Families!Next
  <2>3. CASE Families!Rotate(f, t)
    <3>1. J = I \cup {t} /\ M = [L EXCEPT ![f] = {t}] /\ L[f] # {}
      BY <2>3 DEF Families!Rotate
    <3> HIDE DEF I, J, L, M
    <3>2. Issues
      BY <1>1, <1>2, <3>1
    <3>3. QED
      BY <2>3, <3>2 DEF Families!Next
  <2>4. QED
    BY <2>1, <2>2, <2>3
<1>6. ASSUME Revoking
      PROVE  Families!Next /\ (OnlyEnds \/ Issues)
  <2>1. CASE Families!End(Token)
    <3>1. OnlyEnds
      BY <1>1, <2>1 DEF Families!End, Families!Without
    <3>2. QED
      BY <2>1, <3>1 DEF Families!Next
  <2>2. ASSUME NEW f \in Token, Families!Replace(f)
        PROVE  Families!Next /\ Issues
    <3>1. J = I \cup {f} /\ M = [[g \in Token |-> IF g \in Token THEN {} ELSE L[g]] EXCEPT ![f] = {f}]
      BY <2>2 DEF Families!Replace, Families!Without
    <3> HIDE DEF I, J, L, M
    <3>2. Issues
      BY <3>1
    <3>3. QED
      BY <2>2, <3>2 DEF Families!Next
  <2>3. QED
    BY <1>6, <2>1, <2>2, RevokingFamilies
<1>7. Families!Next /\ (OnlyEnds \/ Issues)
  BY <1>3, <1>4, <1>5, <1>6
<1>8. \A f \in Token : M[f] # {} => f \in J /\ \E s \in J : M[f] = {s}
  <2> HIDE DEF I, J, L, M
  <2>1. CASE OnlyEnds
    BY <1>2, <2>1
  <2>2. CASE Issues
    BY <1>2, <2>2
  <2>3. QED
    BY <1>7, <2>1, <2>2
<1>9. QED
  BY <1>7, <1>8 DEF Families!OneToken

-----------------------------------------------------------------------------
(* The sockets.                                                            *)

SocketsTypeOK ==
  /\ socket \in [Socket -> [stage : Stage, version : Version, epoch : Nat]]
  /\ revocationEpoch \in Nat /\ pending \in Nat

Current(k) == account.exists /\ socket[k].version = account.version

\* Once no revocation is pending, a handshake that is past its authentication is
\* of a current token unless an epoch it will still be compared with has passed.
SocketsFenced ==
  \A k \in Socket :
    /\ socket[k].epoch <= revocationEpoch
    /\ socket[k].stage \in {"authenticated", "admitted"} /\ socket[k].epoch = revocationEpoch
         => Current(k) \/ pending > 0
    /\ socket[k].stage = "joined" => Current(k) \/ pending > 0

LEMMA SocketsStep ==
  ASSUME SessionsInv, SocketsTypeOK, SocketsFenced, [Next]_allVars
  PROVE  SocketsTypeOK' /\ SocketsFenced'
<1> DEFINE Connection == [stage : Stage, version : Version, epoch : Nat]
<1>1. Out \in Connection /\ Out.stage = "out" /\ Out.epoch = 0
  BY ConstantAssumption DEF Out, Stage, Version
<1>2. CASE UNCHANGED <<socketVars, account>>
  BY <1>2 DEF socketVars, SocketsTypeOK, SocketsFenced, Current
<1>3. CASE Revoke /\ pending' = pending + 1 /\ UNCHANGED <<socket, revocationEpoch>>
  BY <1>3 DEF SocketsTypeOK, SocketsFenced
<1>4. ASSUME NEW k \in Socket, NEW connection \in Connection,
             socket' = [socket EXCEPT ![k] = connection],
             UNCHANGED <<account, revocationEpoch, pending>>,
             /\ connection.epoch <= revocationEpoch
             /\ connection.stage \in {"authenticated", "admitted"} /\ connection.epoch = revocationEpoch
                  => (account.exists /\ connection.version = account.version) \/ pending > 0
             /\ connection.stage = "joined"
                  => (account.exists /\ connection.version = account.version) \/ pending > 0
      PROVE  SocketsTypeOK' /\ SocketsFenced'
  BY <1>4 DEF SocketsTypeOK, SocketsFenced, Current
<1>5. ASSUME NEW k \in Socket, Handshake(k)
      PROVE  SocketsTypeOK' /\ SocketsFenced'
  <2> DEFINE At(stage) == [socket[k] EXCEPT !.stage = stage]
  <2>1. UNCHANGED <<account, revocationEpoch, pending>>
    BY <1>5 DEF Handshake, BeginHandshake, AuthenticateHandshake, AdmitHandshake, Register, Disconnect, vars
  <2>2. \A stage \in Stage : /\ At(stage) \in Connection /\ At(stage).stage = stage
                             /\ At(stage).version = socket[k].version /\ At(stage).epoch = socket[k].epoch
    BY DEF SocketsTypeOK
  <2>3. \A stage : MoveTo(k, stage) => socket' = [socket EXCEPT ![k] = At(stage)]
    BY DEF MoveTo
  <2>4. /\ socket[k].epoch <= revocationEpoch
        /\ socket[k].stage \in {"authenticated", "admitted"} /\ socket[k].epoch = revocationEpoch
             => (account.exists /\ socket[k].version = account.version) \/ pending > 0
    BY DEF SocketsFenced, Current
  <2> HIDE DEF At
  <2>5. CASE DropSocket(k)
    <3>1. Out.epoch <= revocationEpoch /\ Out.stage \notin {"authenticated", "admitted", "joined"}
      BY <1>1 DEF SocketsTypeOK
    <3>2. socket' = [socket EXCEPT ![k] = Out]
      BY <2>5 DEF DropSocket
    <3> HIDE DEF Connection
    <3>3. QED
      BY <1>1, <1>4, <2>1, <3>1, <3>2
  <2>6. CASE BeginHandshake(k)
    <3> DEFINE Begun(t) == [stage |-> "begun", version |-> token[t].version, epoch |-> revocationEpoch]
    <3>1. PICK t \in Issued : socket' = [socket EXCEPT ![k] = Begun(t)]
      BY <2>6 DEF BeginHandshake
    <3>2. token[t].version \in Version
      BY DEF Issued, SessionsInv, SessionsTypeOK, Row
    <3>3. Begun(t) \in Connection /\ Begun(t).stage = "begun" /\ Begun(t).epoch = revocationEpoch
      BY <3>2 DEF Stage, SocketsTypeOK
    <3> HIDE DEF Begun
    <3>4. Begun(t).epoch <= revocationEpoch
      BY <3>3 DEF SocketsTypeOK
    <3>5. QED
      BY <1>4, <2>1, <3>1, <3>3, <3>4
  <2>7. CASE AuthenticateHandshake(k) /\ Authentic(k) /\ MoveTo(k, "authenticated")
    BY <1>4, <2>1, <2>2, <2>3, <2>4, <2>7 DEF Authentic, Stage
  <2>8. CASE AdmitHandshake(k) /\ Unrevoked(k) /\ MoveTo(k, "admitted")
    BY <1>4, <2>1, <2>2, <2>3, <2>4, <2>8 DEF AdmitHandshake, Unrevoked, Stage
  <2>9. CASE Register(k) /\ Unrevoked(k) /\ MoveTo(k, "joined")
    BY <1>4, <2>1, <2>2, <2>3, <2>4, <2>9 DEF Register, Unrevoked, Stage
  <2>10. QED
    BY <1>5, <2>5, <2>6, <2>7, <2>8, <2>9
    DEF Handshake, AuthenticateHandshake, AdmitHandshake, Register, Disconnect
<1>6. CASE RevokeUser
  <2>1. /\ account' = account /\ revocationEpoch' = revocationEpoch + 1 /\ pending' \in Nat
        /\ \A k \in Socket : socket'[k] = IF socket[k].stage = "joined" THEN Out ELSE socket[k]
    BY <1>6 DEF RevokeUser, Joined, vars, SocketsTypeOK
  <2>2. SocketsTypeOK'
    BY <1>1, <1>6, <2>1 DEF RevokeUser, SocketsTypeOK
  <2>3. \A k \in Socket : socket'[k].epoch < revocationEpoch' /\ socket'[k].stage # "joined"
    BY <1>1, <2>1 DEF SocketsTypeOK, SocketsFenced
  <2>4. QED
    BY <2>2, <2>3 DEF SocketsFenced, SocketsTypeOK
<1>7. CASE Restart
  BY <1>1, <1>7 DEF Restart, SocketsTypeOK, SocketsFenced
<1>8. CASE \E t \in Token : TokenRequest(t) /\ UNCHANGED socketVars
  BY <1>2, <1>8, TokenRequestKinds
<1>9. CASE \E q \in Request : (Begin(q) \/ Refuse(q) \/ CreateLoginSession(q)) /\ UNCHANGED socketVars
  BY <1>2, <1>9, LoginIssuing DEF Begin, Refuse
<1>10. CASE UNCHANGED allVars
  BY <1>2, <1>10 DEF allVars, vars
<1>11. QED
  BY <1>3, <1>5, <1>6, <1>7, <1>8, <1>9, <1>10 DEF Next

-----------------------------------------------------------------------------
(* The invariant, and what follows from it.                                *)

Inv == SessionsInv /\ RequestsRemember /\ Families!OneToken /\ SocketsTypeOK /\ SocketsFenced

LEMMA InitInv ==
  ASSUME Init
  PROVE  Inv
<1> USE DEF Init, InitSessions
<1>1. 0 \in Version /\ 1 \in Token
  BY ConstantAssumption DEF Version, Token
<1>2. NoRow \in Row /\ NoRow.client = "NONE" /\ NoRow.status = "absent"
  BY <1>1 DEF NoRow, Row
<1>3. SessionsTypeOK
  BY <1>1, <1>2 DEF SessionsTypeOK, Account, Idle
<1>4. RowsKnown /\ LiveTokensAreCurrent /\ OneLiveTokenPerFamily /\ ReplayEndsFamily
  BY <1>2 DEF RowsKnown, LiveTokensAreCurrent, OneLiveTokenPerFamily, ReplayEndsFamily, Live
<1>5. RequestsRemember
  BY DEF RequestsRemember, Idle
<1>6. SocketsTypeOK /\ SocketsFenced
  BY <1>1 DEF SocketsTypeOK, SocketsFenced, Out, Stage
<1>7. \A f \in Token : LiveByFamily[f] = {}
  BY <1>2 DEF LiveByFamily, Live
<1>8. QED
  BY <1>3, <1>4, <1>5, <1>6, <1>7 DEF Inv, SessionsInv, Families!OneToken

LEMMA InvStep ==
  ASSUME Inv, [Next]_allVars
  PROVE  Inv'
  BY SessionsStep, RequestsStep, FamiliesStep, SocketsStep DEF Inv

\* The invariant from which the theorems below follow.
THEOREM InvHolds == Spec => []Inv
  BY InitInv, InvStep, PTL DEF Spec

\* The rows, the requests and the connections keep their types, and what is
\* pending is counted: a revocation disconnects once.
THEOREM SessionTypes == Spec => []TypeOK
<1>1. Inv => TypeOK
  BY DEF Inv, SessionsInv, SocketsTypeOK, TypeOK
<1>2. QED
  BY <1>1, InvHolds, PTL

\* A session that can be refreshed is of the account's current token version,
\* whatever login, rotation or change of password it raced with.
THEOREM SessionsStayCurrent == Spec => []LiveTokensAreCurrent
<1>1. Inv => LiveTokensAreCurrent
  BY DEF Inv, SessionsInv
<1>2. QED
  BY <1>1, InvHolds, PTL

\* A native family never has two tokens that can be refreshed.
THEOREM OneRotationWins == Spec => []OneLiveTokenPerFamily
<1>1. Inv => OneLiveTokenPerFamily
  BY DEF Inv, SessionsInv
<1>2. QED
  BY <1>1, InvHolds, PTL

\* A family that was answered as replayed has no token left that can be refreshed.
THEOREM ReplayContained == Spec => []ReplayEndsFamily
<1>1. Inv => ReplayEndsFamily
  BY DEF Inv, SessionsInv
<1>2. QED
  BY <1>1, InvHolds, PTL

\* No step brings a native session back that has ended.
THEOREM EndedSessionsStayEnded == Spec => FamiliesEndForGood
<1>1. Inv /\ [Next]_allVars =>
        [\A f \in Token : (f \in Issued /\ Family(f) \cap Live = {}) => Family(f)' \cap Live' = {}]_vars
  <2> SUFFICES ASSUME Inv, [Next]_allVars, NEW f \in Token, f \in Issued, Family(f) \cap Live = {}
               PROVE  Family(f)' \cap Live' = {}
    OBVIOUS
  <2>1. LiveIn(token, f) = {}
    BY DEF LiveIn, Family, Live
  <2>2. LiveIn(token', f) = {}
    BY <2>1, SessionsStep DEF Inv
  <2>3. QED
    BY <2>2 DEF LiveIn, Family, Live
<1>2. QED
  BY <1>1, InvHolds, PTL DEF Spec, FamiliesEndForGood

\* Whatever its transactions, requests and restarts, the account's sessions are
\* those of a server on which every session has one token that can be refreshed,
\* replaced in the step that spends it, and none once it has ended.
THEOREM SessionsAreFamilies == Spec => ImplementsFamilies
<1>1. Init => Families!Init
  <2> SUFFICES ASSUME Init PROVE Families!Init
    OBVIOUS
  <2>1. Issued = {} /\ Live = {}
    BY DEF Init, InitSessions, NoRow, Issued, Live
  <2>2. LiveByFamily = [f \in Token |-> {}]
    BY <2>1 DEF LiveByFamily
  <2>3. QED
    BY <2>1, <2>2 DEF Families!Init
<1>2. Inv /\ [Next]_allVars => [Families!Next]_(Families!familyVars)
  BY FamiliesStep DEF Inv
<1>3. QED
  BY <1>1, <1>2, InvHolds, PTL DEF Spec, ImplementsFamilies, Families!Spec

LEMMA PasswordStep ==
  ASSUME Inv, [Next]_allVars, NEW q \in Request, request[q].doing \in {"login", "change"},
         request'[q] = Idle, Live' \ Live # {} \/ account'.version # account.version
  PROVE  account.exists /\ request[q].password = account.password
<1>1. request'[q] # request[q]
  BY DEF Idle
<1>2. ~UNCHANGED <<account, token>>
  BY DEF Live
<1>3. PICK r \in Request : CreateLoginSession(r) \/ ChangePassword(r)
  BY <1>1, <1>2 DEF Next, TokenRequest, RefreshNative, RefreshWeb, LogoutNative, LogoutWeb, Lapse, Begin, Refuse,
     Revoke, LogoutAll, ResetPassword, DeleteAccount, Handshake, BeginHandshake, AuthenticateHandshake,
     AdmitHandshake, Register, Disconnect, RevokeUser, Restart, vars, allVars
<1>4. r = q
  BY <1>1, <1>3 DEF CreateLoginSession, ChangePassword, Inv, SessionsInv, SessionsTypeOK
<1>5. Proven(q)
  BY <1>3, <1>4 DEF CreateLoginSession, ChangePassword
<1>6. QED
  BY <1>5 DEF Proven, Inv, RequestsRemember

\* A login issues its session, and a change of password replaces the password,
\* only when the password of the account at that moment was proven, although it
\* was compared before the account was locked.
THEOREM PasswordProven == Spec => PasswordIsCurrent
<1>1. Inv /\ [Next]_allVars =>
        [\A q \in Request :
           (request[q].doing \in {"login", "change"} /\ (Live' \ Live # {} \/ account'.version # account.version)
              /\ request'[q] = Idle)
           => account.exists /\ request[q].password = account.password]_vars
  BY PasswordStep
<1>2. QED
  BY <1>1, InvHolds, PTL DEF Spec, PasswordIsCurrent

\* When nothing is pending, every registered socket is of a current token.
THEOREM SocketsRevoked == Spec => []SocketsAreCurrent
<1>1. Inv => SocketsAreCurrent
  BY DEF Inv, SocketsTypeOK, SocketsFenced, SocketsAreCurrent, Joined, Current
<1>2. QED
  BY <1>1, InvHolds, PTL
=============================================================================
