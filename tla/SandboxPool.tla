---------------------------- MODULE SandboxPool ----------------------------
(***************************************************************************)
(* The E2B driver's sandboxes (src/apps/api/runner_sandbox/e2b_driver.py): *)
(* a run's thread leases a warm sandbox or creates one, registers it for   *)
(* cancellation, runs the worker's command in it and returns it to the     *)
(* warm pool or kills it; cancel requests and the clearing of the pool at  *)
(* shutdown act beside it.                                                 *)
(*                                                                         *)
(* Sandboxes are remote: one may die by itself at any time, a call to it   *)
(* may fail, and a command goes on in it when the connection drops. The    *)
(* answer of the call that creates one may be lost: it is up then, unknown *)
(* to all code, until its life ends. A pooled entry may be too old at any  *)
(* time. The cancel endpoint is served by the executor's process, and      *)
(* reads of the cancel flag succeed. The further API keys tried when a     *)
(* sandbox cannot be created are left out.                                 *)
(*                                                                         *)
(* A definition marked "Mistake" stands for the definition after it, with  *)
(* a plausible error; it is used by no action.                             *)
(***************************************************************************)
EXTENDS Integers, Sequences, FiniteSets

CONSTANTS
    Runs,          \* runs with a thread in the driver
    Sandboxes,     \* bound: sandboxes that can be created
    Keys,          \* warm-pool keys
    KeyOf,         \* the warm-pool key of each run, or NoKey
    NoKey,
    NoSandbox,
    PoolSize,      \* _warm_pool_size_per_key
    MaxAttempts,   \* attempts of one run in the driver
    MaxCancels,    \* bound: cancel requests in one behaviour
    MaxFaults      \* bound: failed calls and lost connections in one behaviour

ASSUME PoolAssumption ==
    /\ KeyOf \in [Runs -> Keys \cup {NoKey}]
    /\ NoKey \notin Keys
    /\ NoSandbox \notin Sandboxes
    /\ PoolSize \in Nat \ {0}
    /\ MaxAttempts \in Nat \ {0}
    /\ MaxCancels \in Nat
    /\ MaxFaults \in Nat

VARIABLES
    \* --- E2B ------------------------------------------------------------
    state,       \* sandbox -> "new", "up" or "down"
    commands,    \* sandbox -> the runs whose commands go on in it
    \* --- the executor process ----------------------------------------------
    pool,        \* _warm_pool: key -> entries, the newest last
    registered,  \* _active_sandboxes: run -> sandbox, or NoSandbox
    at,          \* run -> where its thread is in the driver
    holds,       \* run -> the sandbox its thread uses, or NoSandbox
    attempt,     \* run -> number of the attempt
    exit,        \* run -> how the attempt ends: "keep", "kill" or "retry"
    \* --- cancel requests ------------------------------------------------
    flagged,     \* runs with cancel_requested
    cancel,      \* run -> where its cancel request is
    target,      \* run -> the sandbox its cancel request is about to kill
    \* --- history and bounds ----------------------------------------------
    starts,      \* run -> how often its command was started
    escaped,     \* sandboxes that a failed kill has left up
    unended,     \* sandboxes kept although their command was not seen to end
    unseen,      \* sandboxes of a create call whose answer was lost
    cancels,     \* cancel requests so far, at most MaxCancels
    faults       \* faults so far, at most MaxFaults

remote  == <<state, commands>>
thread  == <<at, holds, attempt, exit>>
request == <<flagged, cancel, target>>
history == <<starts, escaped, unended, unseen>>
vars    == <<remote, pool, registered, thread, request, history, cancels, faults>>

At == {"setup", "spawning", "registering", "preparing", "starting", "running",
       "leaving", "returning", "pooling", "killing", "done"}

Entries(k) == {pool[k][i] : i \in 1 .. Len(pool[k])}
Pooled == UNION {Entries(k) : k \in Keys}

Init ==
    /\ state = [s \in Sandboxes |-> "new"]
    /\ commands = [s \in Sandboxes |-> {}]
    /\ pool = [k \in Keys |-> <<>>]
    /\ registered = [r \in Runs |-> NoSandbox]
    /\ at = [r \in Runs |-> "setup"]
    /\ holds = [r \in Runs |-> NoSandbox]
    /\ attempt = [r \in Runs |-> 1]
    /\ exit = [r \in Runs |-> "kill"]
    /\ flagged = {}
    /\ cancel = [r \in Runs |-> "none"]
    /\ target = [r \in Runs |-> NoSandbox]
    /\ starts = [r \in Runs |-> 0]
    /\ escaped = {}
    /\ unended = {}
    /\ unseen = {}
    /\ cancels = 0
    /\ faults = 0

\* A call fails, or a connection is lost.
Fault ==
    /\ faults < MaxFaults
    /\ faults' = faults + 1

Down(S) ==
    /\ state' = [s \in Sandboxes |-> IF s \in S THEN "down" ELSE state[s]]
    /\ commands' = [s \in Sandboxes |-> IF s \in S THEN {} ELSE commands[s]]

\* sandbox.kill of the sandboxes S.  A kill that fails is only logged.
Kill(S) ==
    \E failed \in SUBSET {s \in S : state[s] = "up"} :
        /\ Down(S \ failed)
        /\ escaped' = escaped \cup failed
        /\ IF failed = {} THEN UNCHANGED faults ELSE Fault

Goto(r, where) == at' = [at EXCEPT ![r] = where]

\* The attempt is over; what is left to do is in the finally block.
LeaveAs(r, how) ==
    /\ Goto(r, "leaving")
    /\ exit' = [exit EXCEPT ![r] = how]

-----------------------------------------------------------------------------
(* A run's thread *)

\* The cancel flag is checked before there is a sandbox.
CheckBeforeSpawn(r) ==
    /\ at[r] = "setup"
    /\ Goto(r, IF r \in flagged THEN "done" ELSE "spawning")
    /\ UNCHANGED <<remote, pool, registered, holds, attempt, exit, request, history, cancels,
                   faults>>

\* A run that could be given a sandbox from the pool.
Leasable(r) == KeyOf[r] # NoKey /\ pool[KeyOf[r]] # <<>>

Newest(k) == pool[k][Len(pool[k])]

WithoutNewest(k) == [pool EXCEPT ![k] = SubSeq(@, 1, Len(@) - 1)]

\* Mistake: the entry stays in the pool while it is leased.
LeaseShared(r) ==
    /\ at[r] = "spawning"
    /\ Leasable(r)
    /\ state[Newest(KeyOf[r])] = "up"
    /\ holds' = [holds EXCEPT ![r] = Newest(KeyOf[r])]
    /\ Goto(r, "registering")
    /\ UNCHANGED <<remote, pool, registered, attempt, exit, request, history, cancels, faults>>

\* _warm_pool_lease takes the newest entry if it is alive and not too old,
Lease(r) ==
    /\ at[r] = "spawning"
    /\ Leasable(r)
    /\ state[Newest(KeyOf[r])] = "up"
    /\ holds' = [holds EXCEPT ![r] = Newest(KeyOf[r])]
    /\ pool' = WithoutNewest(KeyOf[r])
    /\ Goto(r, "registering")
    /\ UNCHANGED <<remote, registered, attempt, exit, request, history, cancels, faults>>

\* and kills it otherwise, to try the next.
Discard(r) ==
    /\ at[r] = "spawning"
    /\ Leasable(r)
    /\ pool' = WithoutNewest(KeyOf[r])
    /\ Kill({Newest(KeyOf[r])})
    /\ UNCHANGED <<registered, thread, request, starts, unended, unseen, cancels>>

Fresh == CHOOSE s \in Sandboxes : state[s] = "new"

\* A sandbox is created if there is none to lease.
Create(r) ==
    /\ at[r] = "spawning"
    /\ ~Leasable(r)
    /\ \E s \in Sandboxes : state[s] = "new"
    /\ state' = [state EXCEPT ![Fresh] = "up"]
    /\ holds' = [holds EXCEPT ![r] = Fresh]
    /\ Goto(r, "registering")
    /\ UNCHANGED <<commands, pool, registered, attempt, exit, request, history, cancels, faults>>

\* Another attempt, as the driver's loop in run() allows it.
Again(r) ==
    IF attempt[r] < MaxAttempts /\ r \notin flagged
    THEN Goto(r, "setup") /\ attempt' = [attempt EXCEPT ![r] = @ + 1]
    ELSE Goto(r, "done") /\ UNCHANGED attempt

\* The connection is lost while the sandbox is created.  There is no sandbox; or
\* there is one of which no code has heard, for only the answer was lost.
CreateFails(r) ==
    /\ at[r] = "spawning"
    /\ ~Leasable(r)
    /\ Fault
    /\ \/ UNCHANGED <<state, unseen>>
       \/ /\ \E s \in Sandboxes : state[s] = "new"
          /\ state' = [state EXCEPT ![Fresh] = "up"]
          /\ unseen' = unseen \cup {Fresh}
    /\ Again(r)
    /\ UNCHANGED <<commands, pool, registered, holds, exit, request, starts, escaped, unended,
                   cancels>>

Register(r) ==
    /\ at[r] = "registering"
    /\ registered' = [registered EXCEPT ![r] = holds[r]]
    /\ Goto(r, "preparing")
    /\ UNCHANGED <<remote, pool, holds, attempt, exit, request, history, cancels, faults>>

\* A warm sandbox cannot be cleaned, or a context not mounted: the run fails.  Or
\* the connection is lost while the bundle is uploaded: it is tried again.
PrepareFails(r) ==
    /\ at[r] = "preparing"
    /\ (state[holds[r]] = "down" /\ UNCHANGED faults) \/ Fault
    /\ \E how \in {"kill", "retry"} : LeaveAs(r, how)
    /\ UNCHANGED <<remote, pool, registered, holds, attempt, request, history, cancels>>

\* Mistake: the flag is not read again.
StartUnchecked(r) ==
    /\ at[r] = "preparing"
    /\ Goto(r, "starting")
    /\ UNCHANGED <<remote, pool, registered, holds, attempt, exit, request, history, cancels,
                   faults>>

\* The flag is read again once the sandbox can be found by a cancel request.
CheckBeforeCommand(r) ==
    /\ at[r] = "preparing"
    /\ \/ r \in flagged /\ LeaveAs(r, "kill")
       \/ r \notin flagged /\ Goto(r, "starting") /\ UNCHANGED exit
    /\ UNCHANGED <<remote, pool, registered, holds, attempt, request, history, cancels, faults>>

\* commands.run; the attempt counts as started even if the call fails.
Start(r) ==
    /\ at[r] = "starting"
    /\ Goto(r, "running")
    /\ \/ /\ state[holds[r]] = "up"
          /\ commands' = [commands EXCEPT ![holds[r]] = @ \cup {r}]
          /\ starts' = [starts EXCEPT ![r] = @ + 1]
       \/ /\ state[holds[r]] = "down"
          /\ UNCHANGED <<commands, starts>>
    /\ UNCHANGED <<state, pool, registered, holds, attempt, exit, request, escaped, unended,
                   unseen, cancels, faults>>

\* The command returns.  After a success the sandbox is cleaned; if that works it
\* may be used again.
Return(r) ==
    /\ at[r] = "running"
    /\ state[holds[r]] = "up"
    /\ commands' = [commands EXCEPT ![holds[r]] = @ \ {r}]
    /\ \E how \in {"keep", "kill"} :
          /\ how = "keep" => KeyOf[r] # NoKey
          /\ LeaveAs(r, how)
    /\ UNCHANGED <<state, pool, registered, holds, attempt, request, history, cancels, faults>>

\* Mistake: a lost connection is tried again whenever it is lost.
DropRetried(r) ==
    /\ at[r] = "running"
    /\ (state[holds[r]] = "down" /\ UNCHANGED faults) \/ Fault
    /\ LeaveAs(r, "retry")
    /\ UNCHANGED <<remote, pool, registered, holds, attempt, request, history, cancels>>

\* Mistake: the sandbox goes back to the pool although its command was not seen
\* to end.
DropKept(r) ==
    /\ at[r] = "running"
    /\ (state[holds[r]] = "down" /\ UNCHANGED faults) \/ Fault
    /\ LeaveAs(r, IF KeyOf[r] # NoKey THEN "keep" ELSE "kill")
    /\ UNCHANGED <<remote, pool, registered, holds, attempt, request, history, cancels>>

\* The connection is lost after the start, with the sandbox or without it; the
\* command may go on.  The run is not tried again,
Drop(r) ==
    /\ at[r] = "running"
    /\ (state[holds[r]] = "down" /\ UNCHANGED faults) \/ Fault
    /\ LeaveAs(r, "kill")
    /\ UNCHANGED <<remote, pool, registered, holds, attempt, request, history, cancels>>

\* but a result.json that is there is used, as if the command had returned.
Recover(r) ==
    /\ at[r] = "running"
    /\ state[holds[r]] = "up"
    /\ Fault
    /\ \E how \in {"keep", "kill"} :
          /\ how = "keep" => KeyOf[r] # NoKey
          /\ LeaveAs(r, how)
    /\ unended' = unended \cup {holds[r]}
    /\ UNCHANGED <<remote, pool, registered, holds, attempt, request, starts, escaped, unseen,
                   cancels>>

\* _unregister_sandbox
Unregister(r) ==
    /\ at[r] = "leaving"
    /\ registered' = [registered EXCEPT ![r] = IF @ = holds[r] THEN NoSandbox ELSE @]
    /\ Goto(r, IF exit[r] = "keep" THEN "returning" ELSE "killing")
    /\ UNCHANGED <<remote, pool, holds, attempt, exit, request, history, cancels, faults>>

\* _warm_pool_return: only a sandbox that answers
Probe(r) ==
    /\ at[r] = "returning"
    /\ \/ state[holds[r]] = "up" /\ Goto(r, "pooling") /\ UNCHANGED faults
       \/ state[holds[r]] = "down" /\ Goto(r, "killing") /\ UNCHANGED faults
       \/ Fault /\ Goto(r, "killing")
    /\ UNCHANGED <<remote, pool, registered, holds, attempt, exit, request, history, cancels>>

\* The run's entries and, behind them, its sandbox.
Returned(r) == Append(pool[KeyOf[r]], holds[r])

\* Mistake: the entries that are too many are dropped, not killed.
PoolDropped(r) ==
    /\ at[r] = "pooling"
    /\ pool' = [pool EXCEPT ![KeyOf[r]] =
          SubSeq(Returned(r), Len(Returned(r)) - PoolSize + 1, Len(Returned(r)))]
    /\ holds' = [holds EXCEPT ![r] = NoSandbox]
    /\ Goto(r, "done")
    /\ UNCHANGED <<remote, registered, attempt, exit, request, history, cancels, faults>>

\* becomes the newest entry; the oldest is killed if there are too many.
Pool(r) ==
    /\ at[r] = "pooling"
    /\ LET k == KeyOf[r] IN
          IF Len(pool[k]) < PoolSize
          THEN /\ pool' = [pool EXCEPT ![k] = Returned(r)]
               /\ UNCHANGED <<remote, escaped, faults>>
          ELSE /\ pool' = [pool EXCEPT ![k] = Tail(Returned(r))]
               /\ Kill({Head(Returned(r))})
    /\ holds' = [holds EXCEPT ![r] = NoSandbox]
    /\ Goto(r, "done")
    /\ UNCHANGED <<registered, attempt, exit, request, starts, unended, unseen, cancels>>

\* A sandbox that is not kept is killed; a lost connection before the start is
\* then tried again.
Release(r) ==
    /\ at[r] = "killing"
    /\ Kill({holds[r]})
    /\ holds' = [holds EXCEPT ![r] = NoSandbox]
    /\ IF exit[r] = "retry" THEN Again(r) ELSE (Goto(r, "done") /\ UNCHANGED attempt)
    /\ UNCHANGED <<pool, registered, exit, request, starts, unended, unseen, cancels>>

-----------------------------------------------------------------------------
(* Beside it *)

\* cancel_run and the shutdown pass: the flag,
Flag(r) ==
    /\ cancel[r] = "none"
    /\ at[r] # "done"
    /\ cancels < MaxCancels
    /\ cancels' = cancels + 1
    /\ flagged' = flagged \cup {r}
    /\ cancel' = [cancel EXCEPT ![r] = "flagged"]
    /\ UNCHANGED <<remote, pool, registered, thread, target, history, faults>>

\* then cancel_sandbox, which looks the sandbox up
LookUp(r) ==
    /\ cancel[r] = "flagged"
    /\ target' = [target EXCEPT ![r] = registered[r]]
    /\ cancel' = [cancel EXCEPT ![r] = IF registered[r] = NoSandbox THEN "over" ELSE "found"]
    /\ UNCHANGED <<remote, pool, registered, thread, flagged, history, cancels, faults>>

\* and, after it has released the lock, kills it.
KillTarget(r) ==
    /\ cancel[r] = "found"
    /\ Kill({target[r]})
    /\ registered' = [registered EXCEPT ![r] = IF @ = target[r] THEN NoSandbox ELSE @]
    /\ cancel' = [cancel EXCEPT ![r] = "over"]
    /\ UNCHANGED <<pool, thread, flagged, target, starts, unended, unseen, cancels>>

\* clear_warm_pool
ClearPool ==
    /\ Pooled # {}
    /\ pool' = [k \in Keys |-> <<>>]
    /\ Kill(Pooled)
    /\ UNCHANGED <<registered, thread, request, starts, unended, unseen, cancels>>

\* A sandbox reaches the end of its life.
Expire(s) ==
    /\ state[s] = "up"
    /\ Fault
    /\ Down({s})
    /\ UNCHANGED <<pool, registered, thread, request, history, cancels>>

-----------------------------------------------------------------------------

RunStep(r) ==
    \/ CheckBeforeSpawn(r)
    \/ Lease(r)
    \/ Discard(r)
    \/ Create(r)
    \/ CreateFails(r)
    \/ Register(r)
    \/ PrepareFails(r)
    \/ CheckBeforeCommand(r)
    \/ Start(r)
    \/ Return(r)
    \/ Drop(r)
    \/ Recover(r)
    \/ Unregister(r)
    \/ Probe(r)
    \/ Pool(r)
    \/ Release(r)

CancelStep(r) == Flag(r) \/ LookUp(r) \/ KillTarget(r)

Next ==
    \/ \E r \in Runs : RunStep(r) \/ CancelStep(r)
    \/ ClearPool
    \/ \E s \in Sandboxes : Expire(s)

Spec == Init /\ [][Next]_vars

-----------------------------------------------------------------------------
(* Properties *)

\* Every variable has its type; no key has more entries than it may.
TypeOK ==
    /\ state \in [Sandboxes -> {"new", "up", "down"}]
    /\ commands \in [Sandboxes -> SUBSET Runs]
    /\ DOMAIN pool = Keys
    /\ \A k \in Keys : pool[k] \in Seq(Sandboxes) /\ Len(pool[k]) <= PoolSize
    /\ registered \in [Runs -> Sandboxes \cup {NoSandbox}]
    /\ at \in [Runs -> At]
    /\ holds \in [Runs -> Sandboxes \cup {NoSandbox}]
    /\ attempt \in [Runs -> 1 .. MaxAttempts]
    /\ exit \in [Runs -> {"keep", "kill", "retry"}]
    /\ flagged \subseteq Runs
    /\ cancel \in [Runs -> {"none", "flagged", "found", "over"}]
    /\ target \in [Runs -> Sandboxes \cup {NoSandbox}]
    /\ starts \in [Runs -> Nat]
    /\ escaped \subseteq Sandboxes
    /\ unended \subseteq Sandboxes
    /\ unseen \subseteq Sandboxes
    /\ cancels \in 0 .. MaxCancels
    /\ faults \in 0 .. MaxFaults

\* A sandbox is used by one run at a time, and by none while it is pooled; and it
\* is in the pool once, under the key of a run that used it.
UsedByOne ==
    /\ \A q, r \in Runs : q # r /\ holds[q] # NoSandbox => holds[q] # holds[r]
    /\ \A r \in Runs : holds[r] \notin Pooled
    /\ \A k, l \in Keys : \A i \in DOMAIN pool[k], j \in DOMAIN pool[l] :
          pool[k][i] = pool[l][j] => k = l /\ i = j

\* No command goes on in a pooled sandbox, and none but the run's own in one that a
\* run uses, whatever connections were lost and kills failed before.  A sandbox kept
\* because a result.json was found when the connection was lost is no such sandbox.
NoCommandLeftBehind ==
    /\ \A s \in Pooled \ unended : commands[s] = {}
    /\ \A r \in Runs : holds[r] \notin unended \cup {NoSandbox} => commands[holds[r]] \subseteq {r}

\* However often the driver tries a run, its command starts once.
CommandStartsOnce == \A r \in Runs : starts[r] <= 1

\* When a cancel request is over, the run's command is not going on and will not
\* start, unless a kill failed or the thread is about to kill the sandbox itself:
\* registering comes before the second look at the flag, and flagging before the
\* look-up.
CancelledIsStopped ==
    \A r \in Runs : cancel[r] = "over" =>
        \A s \in Sandboxes \ (escaped \cup unended) :
            r \in commands[s] => at[r] \in {"leaving", "killing"}

\* A sandbox that is up is used by a run or pooled, unless the kill of it failed or
\* the answer of the call that created it was lost.
NoSandboxLost ==
    \A s \in Sandboxes : state[s] = "up" =>
        s \in Pooled \cup {holds[r] : r \in Runs} \cup escaped \cup unseen

=============================================================================
