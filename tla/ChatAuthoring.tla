--------------------------- MODULE ChatAuthoring ---------------------------
(***************************************************************************)
(* The chat tool that starts a worker-author run, once per idempotency key *)
(* (src/apps/api/services/chat_throttle.py), and the rate limits it shares *)
(* with the run and chat endpoints (services/quota.py): sliding windows    *)
(* over one table, run_create_rate_limits.                                 *)
(*                                                                         *)
(* Every block under get_db is one transaction and one step.  A claim of   *)
(* slots uses the clock that it read before it had the lock, so that       *)
(* claims may commit out of the order of their times.  All requests are    *)
(* one user's.  A limit of zero, which turns a check off, is left out, and *)
(* so is the number of seconds a refusal asks the caller to wait.          *)
(*                                                                         *)
(* A definition marked "Mistake" stands for the definition after it, with  *)
(* a plausible error; it is used by no action.                             *)
(***************************************************************************)
EXTENDS Integers, FiniteSetsExt

CONSTANTS
    Requests,   \* calls of the chat tool
    Keys,       \* idempotency keys
    Window,     \* rate key -> length of its window
    Limit,      \* rate key -> slots in a window
    MaxCost,    \* most slots one request to an endpoint asks for
    MaxLag,     \* how long a claim waits for the lock at most
    MaxTime,    \* bound: clock values
    MaxFaults   \* bound: calls that raise and processes that die in one behaviour

\* Keys of the table: drafts and runs of the chat tool, and what an endpoint claims.
RateKeys == {"drafts", "runs", "endpoint"}
Times == 0 .. MaxTime

ASSUME LimitsAssumption ==
    /\ Window \in [RateKeys -> Nat \ {0}]
    /\ Limit \in [RateKeys -> Nat \ {0}]
    /\ MaxCost \in Nat \ {0}
    /\ MaxLag \in Nat
    /\ MaxTime \in Nat
    /\ MaxFaults \in Nat

None == "none"
ASSUME NoneAssumption ==
    /\ None \notin Requests /\ None \notin Keys
    /\ "absent" \notin Requests /\ "pending" \notin Requests

VARIABLES
    now,       \* the clock
    slots,     \* run_create_rate_limits: rate key -> time -> number of rows
    reserved,  \* chat_tool_idempotency: key -> "absent", "pending" or the request
               \* whose run it names
    at,        \* request -> where its handler is
    since,     \* request -> when its handler came to its next claim of a slot
    key,       \* request -> its idempotency key
    created,   \* requests whose run has been created
    drafted,   \* history: request -> when it was given its draft slot, or -1
    granted,   \* history: rate key -> time -> slots granted
    unnamed,   \* history: requests whose run could not be written into its row
    stuck,     \* history: keys whose row a fault has left pending
    faults     \* faults so far, at most MaxFaults

tables  == <<slots, reserved>>
history == <<drafted, granted, unnamed, stuck>>
handler == <<at, since>>
vars    == <<now, tables, handler, key, created, history, faults>>

At == {"idle", "waiting", "drafting", "counting", "refunding", "registering", "creating",
       "recording", "starting", "releasing", "done"}

Init ==
    /\ now = 0
    /\ slots = [k \in RateKeys |-> [t \in Times |-> 0]]
    /\ reserved = [k \in Keys |-> "absent"]
    /\ at = [q \in Requests |-> "idle"]
    /\ since = [q \in Requests |-> 0]
    /\ key = [q \in Requests |-> None]
    /\ created = {}
    /\ drafted = [q \in Requests |-> -1]
    /\ granted = [k \in RateKeys |-> [t \in Times |-> 0]]
    /\ unnamed = {}
    /\ stuck = {}
    /\ faults = 0

Goto(q, where) == at' = [at EXCEPT ![q] = where]

Fault ==
    /\ faults < MaxFaults
    /\ faults' = faults + 1

-----------------------------------------------------------------------------
(* The table of slots *)

\* How many rows there are, of a function from times to numbers of rows.
Total(rows) == Cardinality(UNION {{t} \X (1 .. rows[t]) : t \in DOMAIN rows})

\* Mistake: the rows at the end of the window are deleted too.
RecentTooFew(k, t) ==
    [j \in RateKeys |-> [u \in Times |-> IF u <= t - Window[k] + 1 THEN 0 ELSE slots[j][u]]]

\* A claim first deletes the rows older than its own window, of all keys.
Recent(k, t) ==
    [j \in RateKeys |-> [u \in Times |-> IF u <= t - Window[k] THEN 0 ELSE slots[j][u]]]

Fits(k, cost, t) == Total(Recent(k, t)[k]) + cost <= Limit[k]

\* _claim_chat_rate_slot, _claim_run_create_quota_slot, by a caller that has read time t
Claimed(k, cost, t) ==
    /\ Fits(k, cost, t)
    /\ slots' = [Recent(k, t) EXCEPT ![k][t] = @ + cost]
    /\ granted' = [granted EXCEPT ![k][t] = @ + cost]

Refused(k, cost, t) ==
    /\ ~Fits(k, cost, t)
    /\ slots' = Recent(k, t)
    /\ UNCHANGED granted

\* What the clock may have said to a claim that has the lock now.
Read == {t \in Times : now - MaxLag <= t /\ t <= now}

\* _release_chat_rate_slot deletes the newest row of the key.
WithoutNewest(k) ==
    LET used == {t \in Times : slots[k][t] > 0}
    IN  IF used = {} THEN slots ELSE [slots EXCEPT ![k][Max(used)] = @ - 1]

\* A request to the run or chat endpoints.
EndpointClaim(cost) ==
    /\ \E t \in Read : Claimed("endpoint", cost, t) \/ Refused("endpoint", cost, t)
    /\ UNCHANGED <<now, reserved, handler, key, created, drafted, unnamed, stuck, faults>>

-----------------------------------------------------------------------------
(* _idempotent_worker_author_run *)

\* Mistake: a reservation that names no run yet is taken over.
ReserveAgain(q, k) ==
    /\ at[q] = "idle"
    /\ key' = [key EXCEPT ![q] = k]
    /\ \/ /\ reserved[k] \in {"absent", "pending"}
          /\ reserved' = [reserved EXCEPT ![k] = "pending"]
          /\ since' = [since EXCEPT ![q] = now]
          /\ Goto(q, "drafting")
       \/ reserved[k] \in Requests /\ Goto(q, "done") /\ UNCHANGED <<since, reserved>>
    /\ UNCHANGED <<now, slots, created, history, faults>>

\* INSERT OR IGNORE, and the look at the row if there is one already.
Reserve(q, k) ==
    /\ at[q] = "idle"
    /\ key' = [key EXCEPT ![q] = k]
    /\ \/ /\ reserved[k] = "absent"
          /\ reserved' = [reserved EXCEPT ![k] = "pending"]
          /\ since' = [since EXCEPT ![q] = now]
          /\ Goto(q, "drafting")
       \/ reserved[k] = "pending" /\ Goto(q, "waiting") /\ UNCHANGED <<since, reserved>>
       \/ reserved[k] \in Requests /\ Goto(q, "done") /\ UNCHANGED <<since, reserved>>
    /\ UNCHANGED <<now, slots, created, history, faults>>

\* The row names a run at last, or two seconds have passed.
Wait(q) ==
    /\ at[q] = "waiting"
    /\ Goto(q, "done")
    /\ UNCHANGED <<now, tables, since, key, created, history, faults>>

ClaimDraft(q) ==
    /\ at[q] = "drafting"
    /\ \E t \in Read :
          /\ since[q] <= t
          /\ \/ /\ Claimed("drafts", 1, t)
                /\ drafted' = [drafted EXCEPT ![q] = t]
                /\ since' = [since EXCEPT ![q] = now]
                /\ Goto(q, "counting")
             \/ Refused("drafts", 1, t) /\ Goto(q, "releasing") /\ UNCHANGED <<since, drafted>>
    /\ UNCHANGED <<now, reserved, key, created, unnamed, stuck, faults>>

ClaimRun(q) ==
    /\ at[q] = "counting"
    /\ \E t \in Read :
          /\ since[q] <= t
          /\ \/ Claimed("runs", 1, t) /\ Goto(q, "registering")
             \/ Refused("runs", 1, t) /\ Goto(q, "refunding")
    /\ UNCHANGED <<now, reserved, since, key, created, drafted, unnamed, stuck, faults>>

\* Without a run, the draft slot is given back.
Refund(q) ==
    /\ at[q] = "refunding"
    /\ slots' = WithoutNewest("drafts")
    /\ drafted' = [drafted EXCEPT ![q] = -1]
    /\ Goto(q, "releasing")
    /\ UNCHANGED <<now, reserved, since, key, created, granted, unnamed, stuck, faults>>

\* That may fail, and is only logged.
RefundFails(q) ==
    /\ at[q] = "refunding"
    /\ Fault
    /\ Goto(q, "releasing")
    /\ UNCHANGED <<now, tables, since, key, created, history>>

\* Mistake: a request that finds it unavailable keeps its reservation.
RegisterKeeping(q) ==
    /\ at[q] = "registering"
    /\ \E next \in {"creating", "done"} : Goto(q, next)
    /\ UNCHANGED <<now, tables, since, key, created, history, faults>>

\* The worker-author is registered if need be; it may be unavailable.
Register(q) ==
    /\ at[q] = "registering"
    /\ \E next \in {"creating", "releasing"} : Goto(q, next)
    /\ UNCHANGED <<now, tables, since, key, created, history, faults>>

Create(q) ==
    /\ at[q] = "creating"
    /\ created' = created \cup {q}
    /\ Goto(q, "recording")
    /\ UNCHANGED <<now, tables, since, key, history, faults>>

\* The row names the run.
Record(q) ==
    /\ at[q] = "recording"
    /\ reserved' = [reserved EXCEPT ![key[q]] = q]
    /\ Goto(q, "starting")
    /\ UNCHANGED <<now, slots, since, key, created, history, faults>>

Start(q) ==
    /\ at[q] = "starting"
    /\ Goto(q, "done")
    /\ UNCHANGED <<now, tables, since, key, created, history, faults>>

\* A call raises, a limit of the run's own or the database: the reservation is given up.
CallRaises(q) ==
    /\ at[q] \in {"drafting", "counting", "registering", "creating", "recording"}
    /\ Fault
    /\ Goto(q, "releasing")
    /\ unnamed' = IF at[q] = "recording" THEN unnamed \cup {q} ELSE unnamed
    /\ UNCHANGED <<now, tables, since, key, created, drafted, granted, stuck>>

\* _release_reservation: of a row that names no run
Release(q) ==
    /\ at[q] = "releasing"
    /\ reserved' = [reserved EXCEPT ![key[q]] = IF @ = "pending" THEN "absent" ELSE @]
    /\ Goto(q, "done")
    /\ UNCHANGED <<now, slots, since, key, created, history, faults>>

ReleaseFails(q) ==
    /\ at[q] = "releasing"
    /\ Fault
    /\ stuck' = stuck \cup {key[q]}
    /\ Goto(q, "done")
    /\ UNCHANGED <<now, tables, since, key, created, drafted, granted, unnamed>>

\* The process that serves the request dies.
Die(q) ==
    /\ at[q] \notin {"idle", "waiting", "done"}
    /\ Fault
    /\ stuck' = stuck \cup {key[q]}
    /\ Goto(q, "done")
    /\ UNCHANGED <<now, tables, since, key, created, drafted, granted, unnamed>>

Tick ==
    /\ now < MaxTime
    /\ now' = now + 1
    /\ UNCHANGED <<tables, handler, key, created, history, faults>>

-----------------------------------------------------------------------------

RequestStep(q) ==
    \/ Wait(q) \/ ClaimDraft(q) \/ ClaimRun(q) \/ Refund(q) \/ Register(q)
    \/ Create(q) \/ Record(q) \/ Start(q) \/ Release(q)

FaultStep(q) == RefundFails(q) \/ CallRaises(q) \/ ReleaseFails(q) \/ Die(q)

Next ==
    \/ \E q \in Requests : RequestStep(q) \/ FaultStep(q) \/ \E k \in Keys : Reserve(q, k)
    \/ \E cost \in 1 .. MaxCost : EndpointClaim(cost)
    \/ Tick

Spec == Init /\ [][Next]_vars

\* The handlers go on.
FairSpec == Spec /\ \A q \in Requests : WF_vars(RequestStep(q))

-----------------------------------------------------------------------------
(* Properties *)

\* Every variable has its type, and a request that has begun has a key.
TypeOK ==
    /\ now \in Times
    /\ slots \in [RateKeys -> [Times -> Nat]]
    /\ reserved \in [Keys -> {"absent", "pending"} \cup Requests]
    /\ at \in [Requests -> At]
    /\ since \in [Requests -> Times]
    /\ key \in [Requests -> Keys \cup {None}]
    /\ \A q \in Requests : at[q] # "idle" => key[q] \in Keys
    /\ created \subseteq Requests
    /\ drafted \in [Requests -> Times \cup {-1}]
    /\ granted \in [RateKeys -> [Times -> Nat]]
    /\ unnamed \subseteq Requests
    /\ stuck \subseteq Keys
    /\ faults \in 0 .. MaxFaults

\* What was granted for a key in the span of times that ends at t.
GrantedIn(k, span, t) == Total([u \in (t - span + 1 .. t) \cap Times |-> granted[k][u]])

\* The shortest window, less what the times of claims may be behind the clock.
Shortest == Min({Window[j] : j \in RateKeys})
SafeSpan == Shortest - MaxLag

\* Whoever claims, no such span of time holds more of the chat tool's runs, or of the
\* endpoints' slots, than their limit: no row in it has been deleted when the last of
\* its claims counts (_claim_run_create_quota_slot counts what it has left).
RatesHeld ==
    \A k \in {"runs", "endpoint"}, t \in Times : GrantedIn(k, SafeSpan, t) <= Limit[k]

\* "Draft rate limit reached: {draft_limit}/hour" (_enforce_worker_author_chat_throttles)
DraftRateHeld ==
    \A t \in Times :
        Cardinality({q \in Requests : drafted[q] \in Times /\ drafted[q] \in t - Window["drafts"] + 1 .. t})
            <= Limit["drafts"]

\* An idempotency key starts one run, however many requests carry it at once and
\* whatever fails, except that a run whose id could not be written into the key's
\* row is forgotten (test_async_create_from_prompt_is_idempotent).
OneRunPerKey ==
    \A p, q \in created \ unnamed : key[p] = key[q] => p = q

\* A key is not left pending, so that a later request with it starts a run or is
\* told of one, unless a process died or the row could not be deleted.
KeyIsFreed == \A k \in Keys : reserved[k] = "pending" ~> reserved[k] # "pending" \/ k \in stuck

=============================================================================
