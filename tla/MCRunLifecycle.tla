--------------------------- MODULE MCRunLifecycle ---------------------------
(* Constants for checking RunLifecycle with TLC. *)
EXTENDS RunLifecycle

CONSTANTS light, heavy

None == {}
OneRoot == {light}
TwoRoots == {light, heavy}
HeavyRoot == {heavy}

\* The kinds of faults of the runs.  Stranding faults may leave a row queued and
\* cancel_requested for ever.
AllButSlow == FaultKinds \ {"slow"}
Stranding == {"spawn", "web"}
AllButStranding == FaultKinds \ Stranding
Deploys == {"shutdown"}
DeploysAndLostWrites == {"shutdown", "write"}
=============================================================================
