---------------------------- MODULE MCAiReportJobs ----------------------------
(* Small instances of AiReportJobs for TLC. *)
EXTENDS AiReportProperties, TLC

\* each published configuration is a new recipient
MCNewRecipients == [p \in Provider |-> p]

MCCosts == {0, 1}

UserSymmetry == Permutations(User)
WorkerSymmetry == Permutations(Worker)
=============================================================================
