---------------------------- MODULE MCNativeClient ----------------------------
(* Values of the constants of NativeClient for TLC. *)
EXTENDS NativeClient, TLC

MCSymmetry == Permutations(Call)
=============================================================================
