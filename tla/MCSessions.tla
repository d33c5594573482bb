------------------------------ MODULE MCSessions ------------------------------
(* Values of the constants of SessionSockets for TLC. *)
EXTENDS SessionSockets, TLC

PasswordSymmetry == Permutations(Password)
RequestSymmetry == Permutations(Request)
MCSymmetry == PasswordSymmetry \cup RequestSymmetry
=============================================================================
