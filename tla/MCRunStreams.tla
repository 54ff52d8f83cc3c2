---------------------------- MODULE MCRunStreams ----------------------------
(***************************************************************************)
(* Small instances of RunStreams for TLC.                                  *)
(***************************************************************************)
EXTENDS RunStreams

Client(k, l, o, n) == [kind |-> k, local |-> l, owner |-> o, limit |-> n]

\* Either stream, in the run's process and in another, with a limit that is not reached;
\* and, in another, the log stream of a user who does not own the worker, and one that
\* reads one row.
SomeClients ==
    {Client(k, l, TRUE, 2) : k \in Kind, l \in BOOLEAN}
        \cup {Client("logs", FALSE, FALSE, 2), Client("logs", FALSE, TRUE, 1)}

\* Two rows and a marker for a log stream, one and a marker for a stream of parts.
RowsPerKind == [k \in Kind |-> IF k = "logs" THEN 3 ELSE 2]

=============================================================================
