---------------------------- MODULE MCAccountEmail ----------------------------
(* Values of the constants of AccountEmail for TLC. *)
EXTENDS AccountEmail, TLC

MailSymmetry == Permutations(Mail)
WorkerSymmetry == Permutations(Worker)
MCSymmetry == MailSymmetry \cup WorkerSymmetry
=============================================================================
