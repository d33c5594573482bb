--------------------------- MODULE MCAiReportLocks ---------------------------
(* Small instances of AiReportLocks for TLC. *)
EXTENDS AiReportLocks

\* no provider call to settle: leases are lost only before dispatch
MCNoLostCall == JobState \ {"lostCall", "overdue"}
=============================================================================
