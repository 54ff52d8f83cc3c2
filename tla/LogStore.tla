------------------------------ MODULE LogStore ------------------------------
(***************************************************************************)
(* What the log pipeline promises: rows are accepted one after another and *)
(* are stored each once and never taken back; in the order in which they   *)
(* were accepted, until the pipeline gives the order up.  RunLogs is shown *)
(* to implement it.                                                        *)
(***************************************************************************)
EXTENDS Integers, Sequences

VARIABLES
    accepted,  \* how many rows were accepted
    stored,    \* the rows that are stored, in their order
    orderly    \* the order has not been given up

store == <<accepted, stored, orderly>>

Init ==
    /\ accepted = 0
    /\ stored = <<>>
    /\ orderly = TRUE

Accept ==
    /\ accepted' = accepted + 1
    /\ UNCHANGED <<stored, orderly>>

\* The next n rows.
NextRows(n) == [i \in 1 .. n |-> Len(stored) + i]

StoreNext ==
    /\ \E n \in 1 .. accepted - Len(stored) : stored' = stored \o NextRows(n)
    /\ UNCHANGED <<accepted, orderly>>

\* Without order: rows that were accepted, and that were not stored before.
StoreAny ==
    /\ ~orderly
    /\ Len(stored') > Len(stored)
    /\ \A i \in 1 .. Len(stored) : stored'[i] = stored[i]
    /\ \A i \in Len(stored) + 1 .. Len(stored') :
          /\ stored'[i] \in 1 .. accepted
          /\ \A j \in 1 .. i - 1 : stored'[j] # stored'[i]
    /\ UNCHANGED <<accepted, orderly>>

GiveUpOrder ==
    /\ orderly' = FALSE
    /\ UNCHANGED <<accepted, stored>>

Next == Accept \/ StoreNext \/ StoreAny \/ GiveUpOrder

Spec == Init /\ [][Next]_store

=============================================================================
