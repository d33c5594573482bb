---------------------------- MODULE SessionFamilies ----------------------------
(***************************************************************************)
(* What a server of sessions with rotating refresh tokens promises to its  *)
(* clients, with nothing of how it keeps them (docs/adr/0002, docs/adr/    *)
(* 0005).  A session is a family of tokens named by its first one, and has *)
(* one token that can be refreshed, or none.                               *)
(*                                                                         *)
(* Only that token has a successor, which takes its place in the same      *)
(* step; a token is issued once; a session that has ended stays ended,     *)
(* because no action gives it a token.                                     *)
(***************************************************************************)
CONSTANT Token

VARIABLES
  issued,  \* the tokens that were given out
  live     \* of each family, the tokens that can be refreshed

familyVars == <<issued, live>>

Unissued == Token \ issued

\* the families of F have ended
Without(F) == [f \in Token |-> IF f \in F THEN {} ELSE live[f]]

Init ==
  /\ issued = {}
  /\ live = [f \in Token |-> {}]

\* a login
Begin(f) ==
  /\ f \in Unissued
  /\ issued' = issued \cup {f}
  /\ live' = [live EXCEPT ![f] = {f}]

\* a refresh: whoever presents the session's token gets the next one
Rotate(f, t) ==
  /\ t \in Unissued
  /\ issued' = issued \cup {t}
  /\ \E s \in issued : live[f] = {s}
  /\ live' = [live EXCEPT ![f] = {t}]

\* a logout, an expiry, a replay that was noticed, a revocation
End(F) ==
  /\ UNCHANGED issued
  /\ live' = Without(F)

\* a change of password ends every session, and begins one for who asked
Replace(f) ==
  /\ f \in Unissued
  /\ issued' = issued \cup {f}
  /\ live' = [Without(Token) EXCEPT ![f] = {f}]

Next ==
  \/ \E F \in SUBSET Token : End(F)
  \/ \E f \in Token : Begin(f) \/ Replace(f)
  \/ \E f, t \in Token : Rotate(f, t)

Spec == Init /\ [][Next]_familyVars

-----------------------------------------------------------------------------
\* A session that goes on was begun, and has one token that was issued.
OneToken ==
  \A f \in Token : live[f] # {} => f \in issued /\ \E s \in issued : live[f] = {s}
=============================================================================
