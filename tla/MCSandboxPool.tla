--------------------------- MODULE MCSandboxPool ---------------------------
(***************************************************************************)
(* Small instances of SandboxPool for TLC.                                 *)
(***************************************************************************)
EXTENDS SandboxPool

CONSTANTS r1, r2, k1, s1, s2, s3, s4

\* All runs are of one worker with one set of contexts.
OneKey == [r \in Runs |-> k1]

=============================================================================
