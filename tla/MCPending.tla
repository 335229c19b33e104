----------------------------- MODULE MCPending -----------------------------
(* Values for the constants of PendingClaim that a cfg cannot write down. *)
EXTENDS PendingClaim, TLC

CONSTANTS p1, p2

\* Two claimers and a saver share the connection of p1; p2 has one claimer.
TwoProcesses == [t \in Claimers \cup Savers |-> IF t = "d" THEN p2 ELSE p1]
OneOld       == <<1>>
=============================================================================
