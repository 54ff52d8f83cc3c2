--------------------------- MODULE MCRunApprovals ---------------------------
(* Constants for checking RunApprovals with TLC. *)
EXTENDS RunApprovals

CONSTANTS p, g, q1, q2

OneProposal == {p}
OneAgent == {g}
TwoRequests == {q1, q2}
=============================================================================
