----------------------------- MODULE RunAttempts -----------------------------
(***************************************************************************)
(* What the run engine promises of a job, the work that one trigger asks   *)
(* for: it is attempted one attempt at a time.  Only the newest attempt    *)
(* waits or works; an attempt whose worker has begun is not tried again,   *)
(* its job is, by a new attempt, once the old one is over, and only so     *)
(* often.  RunLifecycle is shown to implement it, where an attempt is a    *)
(* row with what executes it.  Jobs go on beside each other.               *)
(***************************************************************************)
EXTENDS Integers

CONSTANTS
    Jobs,
    Budget     \* the greatest number of an attempt; the first is 0

VARIABLES
    attempts,  \* job -> its attempts by number, each with its phase and whether
               \* its worker has begun
    loose      \* jobs of which a shutdown has requeued an attempt in place:
               \* of these nothing is promised

promised == <<attempts, loose>>

Phase == {"waiting", "working", "over"}
Attempt == [phase : Phase, begun : BOOLEAN]
Fresh == [phase |-> "waiting", begun |-> FALSE]
In(phase, attempt) == [attempt EXCEPT !.phase = phase]

Newest(j, n) ==
    /\ n \in DOMAIN attempts[j]
    /\ \A m \in DOMAIN attempts[j] : m <= n

\* Attempt n of j, an old or a new one, becomes a; the others stay as they are.
Becomes(j, n, a) ==
    attempts'[j] = [m \in DOMAIN attempts[j] \cup {n} |-> IF m = n THEN a ELSE attempts[j][m]]

Init ==
    /\ attempts = [j \in Jobs |-> [n \in {} |-> Fresh]]
    /\ loose = {}

Submit(j) ==
    /\ DOMAIN attempts[j] = {}
    /\ Becomes(j, 0, Fresh)

Take(j, n) ==
    /\ attempts[j][n].phase = "waiting"
    /\ Becomes(j, n, In("working", attempts[j][n]))

Begin(j, n) ==
    /\ attempts[j][n].phase = "working"
    /\ ~attempts[j][n].begun
    /\ Becomes(j, n, [phase |-> "working", begun |-> TRUE])

\* An attempt whose worker has not begun may be put back into the queue.
PutBack(j, n) ==
    /\ ~attempts[j][n].begun
    /\ Becomes(j, n, In("waiting", attempts[j][n]))

Stop(j, n) == Becomes(j, n, In("over", attempts[j][n]))

Retry(j, n) ==
    /\ attempts[j][n].phase = "over"
    /\ n < Budget
    /\ Becomes(j, n + 1, Fresh)

Step(j) ==
    \/ Submit(j)
    \/ \E n \in DOMAIN attempts[j] :
          /\ Newest(j, n)
          /\ Take(j, n) \/ Begin(j, n) \/ PutBack(j, n) \/ Stop(j, n) \/ Retry(j, n)

Next ==
    /\ DOMAIN attempts' = Jobs
    /\ loose \subseteq loose'
    /\ \A j \in Jobs : attempts'[j] = attempts[j] \/ j \in loose' \/ Step(j)

Spec == Init /\ [][Next]_promised

=============================================================================
