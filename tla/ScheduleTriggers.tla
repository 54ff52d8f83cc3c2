-------------------------- MODULE ScheduleTriggers --------------------------
(***************************************************************************)
(* The cron scheduler (src/apps/api/scheduler.py), the worker_triggers     *)
(* rows it claims (db/sqlite.py), and the policy that pauses a worker      *)
(* after repeated setup failures (services/run_pause_policy.py).           *)
(*                                                                         *)
(* A scheduler thread ticks: it lists the schedule rows, and handles those *)
(* that are due one after the other, with the time it read at the start of *)
(* the tick.  Workers without an enabled row, and all of them when listing *)
(* fails, are then handled by the schedule fields of the workers table.    *)
(* Beside it users edit, pause and resume workers, runs come and go, time  *)
(* passes, and other scheduler processes may tick.  A repository call is   *)
(* one step.  Archived workers and disabled owners, which are passed over, *)
(* and rows without a cron expression are left out.                        *)
(*                                                                         *)
(* A definition marked "Mistake" stands for the definition after it, with  *)
(* a plausible error; it is used by no action.                             *)
(***************************************************************************)
EXTENDS Integers, Sequences, FiniteSets, SequencesExt

CONSTANTS
    Workers,
    Triggers,       \* rows of worker_triggers, of type schedule
    WorkerOf,       \* trigger -> worker
    Schedulers,     \* scheduler threads, of as many processes
    Lacks,          \* what a worker may come to lack
    Periods,        \* cron expressions: one that is due every n units of time
    Threshold,      \* setup failures in a row that pause a worker
    Grace,          \* how late a fire may be
    Lease,          \* how long a claim lasts
    Month,          \* length of a billing month
    MaxTime,        \* bound: the clock stops here
    MaxEvents,      \* bound: changes by users and faults in one behaviour
    Nobody          \* no trigger

ASSUME ConstantsAssumption ==
    /\ IsFiniteSet(Workers) /\ IsFiniteSet(Triggers)
    /\ WorkerOf \in [Triggers -> Workers]
    /\ Lacks \subseteq {"missing_required_input", "missing_secret", "missing_connection",
                        "llm_model_not_configured"}
    /\ Periods \subseteq Nat \ {0}
    /\ {Threshold, Grace, Lease, MaxTime, MaxEvents} \subseteq Nat
    /\ Month \in Nat \ {0}
    /\ Nobody \notin Triggers

VARIABLES
    trigger,    \* trigger -> row of worker_triggers
    worker,     \* worker -> row of workers
    setup,      \* worker -> what a run of it would lack
    capped,     \* is a spend cap exhausted?
    runs,       \* rows of the runs table, the oldest first
    clock,
    tick,       \* scheduler -> where its tick is
    changes,    \* changes so far
    faults,     \* faults so far
    crossed,    \* history: workers with a row that was claimed although it had changed since it was
                \* listed or had a claim that had run out, that got its time from a tick behind
                \* another one or beside a claim, or whose tick was lost or could not advance it;
                \* or that two ticks, or both paths, have taken without a claim
    overtaken   \* history: workers resumed while a tick was about to pause them, or
                \* after a pause by a user, in which the policy does not count

vars == <<trigger, worker, setup, capped, runs, clock, tick, changes, faults, crossed, overtaken>>
world == <<setup, capped, clock, changes, overtaken>>

-----------------------------------------------------------------------------
(* Rows *)

Never == -1
Time == Nat \cup {Never}

\* What the scheduler looks for before it creates a run; and what only the run finds.
Foreseen  == {"missing_required_input", "missing_secret", "missing_connection"}
SetupCode == Foreseen \cup {"llm_model_not_configured"}
FireCode  == {"spend_cap_exceeded", "schedule_fire_failed"}
Code == SetupCode \cup FireCode \cup {"none", "scheduler_missed", "scheduler_row_error"}

\* A real run, one that somebody starts by hand, a failed row that the scheduler
\* writes for a fire without a run, and its marker of a late fire.
Kind == {"run", "manual", "failure", "missed"}

\* compute_next_run_at
NextAfter(period, t) == ((t \div period) + 1) * period

\* _is_same_utc_month
SameMonth(t1, t2) == t1 \div Month = t2 \div Month

TriggerRow == [period : Periods, next : Time, fired : Time, locked : Time, enabled : BOOLEAN]
WorkerRow == [period : Periods, next : Time, enabled : BOOLEAN, paused : BOOLEAN, resumed : Time]
RunRow == [worker : Workers, trigger : Triggers \cup {Nobody}, kind : Kind, code : Code,
           status : {"queued", "running", "completed", "failed"}, at : Nat, slot : Time]

\* Rows are known by their place in runs, which is in order of insertion.  They are listed by
\* created_at, the newest first; the rows of a tick are created with the time of its start.
RowsOf(w, rows) == {i \in DOMAIN rows : rows[i].worker = w}
Newer(rows, j, i) == rows[j].at > rows[i].at \/ (rows[j].at = rows[i].at /\ j > i)
Newest(rows, set, n) == {i \in set : Cardinality({j \in set : Newer(rows, j, i)}) < n}

-----------------------------------------------------------------------------
(* A tick and the row it is at *)

Item == [trigger : Triggers \cup {Nobody}, worker : Workers, period : Periods, next : Time]
Pc == {"idle", "listing", "row", "late", "guard", "pausing", "persisting", "creating",
       "recording", "writing", "marking", "advancing", "row_error", "mirroring", "legacy"}

Idle == [pc |-> "idle", now |-> 0, todo |-> <<>>, mirror |-> <<>>, seen |-> {}, code |-> "none",
         legacy |-> FALSE]

At(s, pc) == tick[s].pc = pc
Cur(s) == Head(tick[s].todo)
Goto(s, pc) == tick' = [tick EXCEPT ![s].pc = pc]
Blame(s, pc, code) == tick' = [tick EXCEPT ![s].pc = pc, ![s].code = code]
NewNext(s) == NextAfter(Cur(s).period, tick[s].now)

\* On to the next row.  mirror keeps what the tick believes of the rows it has handled.
Done(s, next) ==
    LET rest == Tail(tick[s].todo)
    IN  tick' = [tick EXCEPT
            ![s].todo = rest,
            ![s].mirror = Append(@, [Cur(s) EXCEPT !.next = next]),
            ![s].code = "none",
            ![s].pc = IF rest # <<>> THEN "row" ELSE IF tick[s].legacy THEN "idle" ELSE "mirroring"]

\* set_trigger_next_run_at, which also releases the claim, and set_next_run_at.
SetNext(s, next) ==
    IF Cur(s).trigger # Nobody
    THEN /\ trigger' = [trigger EXCEPT ![Cur(s).trigger].next = next,
                                       ![Cur(s).trigger].locked = Never]
         /\ UNCHANGED worker
    ELSE /\ worker' = [worker EXCEPT ![Cur(s).worker].next = next]
         /\ UNCHANGED trigger

\* A row for the fire the tick is at.
NewRow(s, kind, status, code) ==
    [worker |-> Cur(s).worker, trigger |-> Cur(s).trigger, kind |-> kind, status |-> status,
     code |-> code, at |-> IF kind = "run" THEN clock ELSE tick[s].now, slot |-> Cur(s).next]

Fault == changes + faults < MaxEvents /\ faults' = faults + 1

\* A tick that has claimed, or taken, the row it is at.
Handling(s) == tick[s].pc \notin {"idle", "listing", "row", "mirroring", "legacy"}
Handles(s, w) == Handling(s) /\ Cur(s).worker = w
Cross(cond, w) == crossed' = IF cond THEN crossed \cup {w} ELSE crossed

StartTick(s) ==
    /\ At(s, "idle")
    /\ tick' = [tick EXCEPT ![s] = [Idle EXCEPT !.pc = "listing", !.now = clock]]
    /\ UNCHANGED <<trigger, worker, runs, faults, crossed, world>>

\* list_due_schedule_triggers: enabled rows of enabled workers, due or not.
ListTriggers(s) ==
    LET listed == {t \in Triggers : trigger[t].enabled /\ worker[WorkerOf[t]].enabled}
        item(t) == [trigger |-> t, worker |-> WorkerOf[t], period |-> trigger[t].period,
                    next |-> trigger[t].next]
    IN  /\ At(s, "listing")
        /\ \E order \in SetToSeqs(listed) :
              tick' = [tick EXCEPT
                  ![s].todo = [i \in DOMAIN order |-> item(order[i])],
                  ![s].seen = {WorkerOf[t] : t \in listed},
                  ![s].pc = IF listed = {} THEN "mirroring" ELSE "row"]
        /\ UNCHANGED <<trigger, worker, runs, faults, crossed, world>>

\* All workers are then handled as if they had no rows.
ListFails(s) ==
    /\ Fault
    /\ At(s, "listing")
    /\ Goto(s, "legacy")
    /\ UNCHANGED <<trigger, worker, runs, crossed, world>>

\* The time of the row: that of the list, but a worker's own is read again.
NextOf(s) == IF Cur(s).trigger = Nobody THEN worker[Cur(s).worker].next ELSE Cur(s).next
IsDue(s) == NextOf(s) # Never /\ NextOf(s) <= tick[s].now

\* A row that has no next_run_at gets one, and is not handled in this tick.
InitRow(s) ==
    /\ At(s, "row")
    /\ NextOf(s) = Never
    /\ SetNext(s, NewNext(s))
    /\ Done(s, NewNext(s))
    /\ Cross(\/ \E s2 \in Schedulers : tick[s].now < tick[s2].now
             \/ Cur(s).trigger # Nobody /\ trigger[Cur(s).trigger].locked # Never, Cur(s).worker)
    /\ UNCHANGED <<runs, faults, world>>

SkipRow(s) ==
    /\ At(s, "row")
    /\ NextOf(s) # Never /\ ~IsDue(s)
    /\ Done(s, NextOf(s))
    /\ UNCHANGED <<trigger, worker, runs, faults, crossed, world>>

\* A fire that is late leaves a marker first.
ToHandle(s, slot) == IF tick[s].now - slot > Grace THEN "late" ELSE "guard"

\* Mistake: a claim is released by its owner only.
ClaimableOnce(s) == trigger[Cur(s).trigger].enabled /\ trigger[Cur(s).trigger].locked = Never

\* claim_schedule_trigger: enabled, and free or with a claim that has run out.
Claimable(s) ==
    LET row == trigger[Cur(s).trigger]
    IN  row.enabled /\ (row.locked = Never \/ row.locked <= tick[s].now)

ClaimRow(s) ==
    /\ At(s, "row") /\ IsDue(s)
    /\ Cur(s).trigger # Nobody
    /\ Claimable(s)
    /\ trigger' = [trigger EXCEPT ![Cur(s).trigger].locked = tick[s].now + Lease]
    /\ Goto(s, ToHandle(s, Cur(s).next))
    /\ Cross(\/ trigger[Cur(s).trigger].next # Cur(s).next
             \/ trigger[Cur(s).trigger].locked \in 0 .. tick[s].now, Cur(s).worker)
    /\ UNCHANGED <<worker, runs, faults, world>>

LoseClaim(s) ==
    /\ At(s, "row") /\ IsDue(s)
    /\ Cur(s).trigger # Nobody
    /\ ~Claimable(s)
    /\ Done(s, Cur(s).next)
    /\ UNCHANGED <<trigger, worker, runs, faults, crossed, world>>

ClaimRaises(s) ==
    /\ Fault
    /\ At(s, "row") /\ IsDue(s)
    /\ Cur(s).trigger # Nobody
    /\ Done(s, Cur(s).next)
    /\ UNCHANGED <<trigger, worker, runs, crossed, world>>

\* A worker's own schedule is not claimed.
TakeWorker(s) ==
    /\ At(s, "row") /\ IsDue(s)
    /\ Cur(s).trigger = Nobody
    /\ tick' = [tick EXCEPT ![s].pc = ToHandle(s, NextOf(s)),
                            ![s].todo[1].next = NextOf(s)]
    /\ Cross(\E s2 \in Schedulers \ {s} : Handles(s2, Cur(s).worker), Cur(s).worker)
    /\ UNCHANGED <<trigger, worker, runs, faults, world>>

\* _record_schedule_missed_if_late
NoteMissed(s) ==
    /\ At(s, "late")
    /\ runs' = Append(runs, NewRow(s, "missed", "failed", "scheduler_missed"))
    /\ Goto(s, "guard")
    /\ UNCHANGED <<trigger, worker, faults, crossed, world>>

IsRunning(w) == \E i \in DOMAIN runs : runs[i].worker = w /\ runs[i].status = "running"

\* The previous run is still running: this fire is skipped.
SkipFire(s) ==
    /\ At(s, "guard")
    /\ IsRunning(Cur(s).worker)
    /\ SetNext(s, NewNext(s))
    /\ Done(s, NewNext(s))
    /\ UNCHANGED <<runs, faults, crossed, world>>

\* Otherwise inputs, secrets and connections are looked at: the first that lacks fails
\* the fire.
CheckSetup(s) ==
    /\ At(s, "guard")
    /\ ~IsRunning(Cur(s).worker)
    /\ IF setup[Cur(s).worker] \notin Foreseen
       THEN Goto(s, "creating") /\ UNCHANGED runs
       ELSE /\ runs' = Append(runs, NewRow(s, "failure", "failed", setup[Cur(s).worker]))
            /\ Blame(s, "pausing", setup[Cur(s).worker])
    /\ UNCHANGED <<trigger, worker, faults, crossed, world>>

\* A worker whose configuration cannot be read fails alone.
CheckRaises(s) ==
    /\ Fault
    /\ At(s, "guard")
    /\ ~IsRunning(Cur(s).worker)
    /\ Goto(s, "row_error")
    /\ UNCHANGED <<trigger, worker, runs, crossed, world>>

RecordRowError(s) ==
    /\ At(s, "row_error")
    /\ runs' = Append(runs, NewRow(s, "failure", "failed", "scheduler_row_error"))
    /\ Blame(s, "advancing", "scheduler_row_error")
    /\ UNCHANGED <<trigger, worker, faults, crossed, world>>

\* The attempts among some rows: those since the worker was resumed, without the markers
\* of late fires.
Attempts(w, rows, set) == {i \in set : rows[i].kind # "missed" /\ rows[i].at > worker[w].resumed}

Earned(rows, set, n, code) ==
    /\ Cardinality(set) = n
    /\ \A i \in set : /\ rows[i].kind \in {"run", "failure"}
                      /\ rows[i].status = "failed" /\ rows[i].code = code

\* Mistake: one attempt less is enough.
PauseEarlier(w, code, rows) ==
    LET n == Threshold - 1
    IN  /\ worker[w].enabled
        /\ Earned(rows, Newest(rows, Attempts(w, rows, RowsOf(w, rows)), n), n, code)

\* Mistake: markers of late fires count as attempts.
PauseNotBesideMarkers(w, code, rows) ==
    worker[w].enabled /\ Earned(rows, Newest(rows, RowsOf(w, rows), Threshold), Threshold, code)

\* _maybe_pause_scheduled_worker_after_setup_failure: every one of the last attempts
\* is a scheduled run that failed with this code.  It reads twice as many rows.
PolicyPauses(w, code, rows) ==
    LET read == Newest(rows, RowsOf(w, rows), 2 * Threshold)
    IN  /\ Threshold > 0
        /\ worker[w].enabled /\ ~worker[w].paused
        /\ Earned(rows, Newest(rows, Attempts(w, rows, read), Threshold), Threshold, code)

ConsiderPause(s) ==
    /\ At(s, "pausing")
    /\ Goto(s, IF PolicyPauses(Cur(s).worker, tick[s].code, runs)
               THEN "persisting" ELSE "advancing")
    /\ UNCHANGED <<trigger, worker, runs, faults, crossed, world>>

\* _persist_worker_paused_flag
PersistPause(s) ==
    /\ At(s, "persisting")
    /\ worker' = [worker EXCEPT ![Cur(s).worker].enabled = FALSE, ![Cur(s).worker].paused = TRUE]
    /\ Goto(s, "advancing")
    /\ UNCHANGED <<trigger, runs, faults, crossed, world>>

\* create_run: a spend cap and a disabled worker are turned away before the insert.
CreateRun(s) ==
    /\ At(s, "creating")
    /\ IF capped THEN Blame(s, "recording", "spend_cap_exceeded") /\ UNCHANGED runs
       ELSE IF ~worker[Cur(s).worker].enabled
       THEN Blame(s, "recording", "schedule_fire_failed") /\ UNCHANGED runs
       ELSE runs' = Append(runs, NewRow(s, "run", "queued", "none")) /\ Goto(s, "marking")
    /\ UNCHANGED <<trigger, worker, faults, crossed, world>>

CreateRaises(s) ==
    /\ Fault
    /\ At(s, "creating")
    /\ Blame(s, "recording", "schedule_fire_failed")
    /\ UNCHANGED <<trigger, worker, runs, crossed, world>>

NewestOf(s) == Newest(runs, RowsOf(Cur(s).worker, runs), 1)

\* Mistake: only a run of the worker, not a row of the scheduler, opens an episode.
EpisodeOfRuns(s) ==
    \E i \in NewestOf(s) :
        runs[i].kind = "run" /\ runs[i].status = "failed" /\ runs[i].code = tick[s].code

\* _has_open_schedule_failure_episode: the newest row is that very failure.
EpisodeOpen(s) ==
    \E i \in NewestOf(s) :
        /\ runs[i].kind = "failure" /\ runs[i].status = "failed" /\ runs[i].code = tick[s].code
        /\ SameMonth(runs[i].at, tick[s].now)

\* _record_schedule_fire_failure
ConsiderEpisode(s) ==
    /\ At(s, "recording")
    /\ Goto(s, IF EpisodeOpen(s) THEN "advancing" ELSE "writing")
    /\ UNCHANGED <<trigger, worker, runs, faults, crossed, world>>

RecordFireFailure(s) ==
    /\ At(s, "writing")
    /\ runs' = Append(runs, NewRow(s, "failure", "failed", tick[s].code))
    /\ Goto(s, "advancing")
    /\ UNCHANGED <<trigger, worker, faults, crossed, world>>

\* It may fail, which is only logged.
RecordFails(s) ==
    /\ Fault
    /\ tick[s].pc \in {"writing", "row_error"}
    /\ Blame(s, "advancing", IF At(s, "row_error") THEN "scheduler_row_error" ELSE tick[s].code)
    /\ UNCHANGED <<trigger, worker, runs, crossed, world>>

\* _advance_next_run_after_failure
Advance(s) ==
    /\ At(s, "advancing")
    /\ SetNext(s, NewNext(s))
    /\ Done(s, NewNext(s))
    /\ UNCHANGED <<runs, faults, crossed, world>>

\* Where it fails the row is reported and advanced once more; where that fails too the
\* rest of the rows is left to the next tick.
AdvanceRaises(s) ==
    /\ Fault
    /\ At(s, "advancing")
    /\ IF tick[s].code # "scheduler_row_error"
       THEN Goto(s, "row_error") /\ UNCHANGED crossed
       ELSE /\ tick' = [tick EXCEPT ![s].todo = <<>>,
                                    ![s].pc = IF tick[s].legacy THEN "idle" ELSE "legacy"]
            /\ crossed' = crossed \cup {Cur(s).worker}
    /\ UNCHANGED <<trigger, worker, runs, world>>

\* Mistake: the fire is recorded, and the row keeps its time.
MarkOnly(s) ==
    /\ At(s, "marking")
    /\ IF Cur(s).trigger # Nobody
       THEN trigger' = [trigger EXCEPT ![Cur(s).trigger].fired = tick[s].now,
                                       ![Cur(s).trigger].locked = Never]
       ELSE UNCHANGED trigger
    /\ Done(s, NewNext(s))
    /\ UNCHANGED <<worker, runs, faults, crossed, world>>

\* mark_trigger_fired and mark_scheduled_run
MarkFired(s) ==
    /\ At(s, "marking")
    /\ trigger' = IF Cur(s).trigger = Nobody THEN trigger
                  ELSE [trigger EXCEPT ![Cur(s).trigger].fired = tick[s].now,
                                       ![Cur(s).trigger].next = NewNext(s),
                                       ![Cur(s).trigger].locked = Never]
    /\ worker' = [worker EXCEPT ![Cur(s).worker].next = NewNext(s)]
    /\ Done(s, NewNext(s))
    /\ UNCHANGED <<runs, faults, crossed, world>>

\* The run has started: only the time is advanced.
MarkRaises(s) ==
    /\ Fault
    /\ At(s, "marking")
    /\ Goto(s, "advancing")
    /\ UNCHANGED <<trigger, worker, runs, crossed, world>>

\* _sync_legacy_schedule_state: the earliest time of the rows of each worker.
MirrorRows(s) ==
    LET times(w) == {tick[s].mirror[i].next : i \in
                        {j \in DOMAIN tick[s].mirror : tick[s].mirror[j].worker = w}} \ {Never}
        earliest(w) == IF times(w) = {} THEN Never
                       ELSE CHOOSE t \in times(w) : \A u \in times(w) : t <= u
    IN  /\ At(s, "mirroring")
        /\ worker' = [w \in Workers |-> IF w \in tick[s].seen
                                        THEN [worker[w] EXCEPT !.next = earliest(w)] ELSE worker[w]]
        /\ Goto(s, "legacy")
        /\ UNCHANGED <<trigger, runs, faults, crossed, world>>

\* list_scheduled, without the workers whose rows have been listed.  One that has rows
\* and was resumed since is handled here too.
ListWorkers(s) ==
    LET listed == {w \in Workers \ tick[s].seen : worker[w].enabled}
        item(w) == [trigger |-> Nobody, worker |-> w, period |-> worker[w].period,
                    next |-> worker[w].next]
    IN  /\ At(s, "legacy")
        /\ \E order \in SetToSeqs(listed) :
              tick' = [tick EXCEPT
                  ![s].todo = [i \in DOMAIN order |-> item(order[i])],
                  ![s].legacy = TRUE,
                  ![s].pc = IF listed = {} THEN "idle" ELSE "row"]
        /\ crossed' = crossed \cup {w \in listed : \E t \in Triggers : WorkerOf[t] = w}
        /\ UNCHANGED <<trigger, worker, runs, faults, world>>

TickStep(s) ==
    \/ StartTick(s) \/ ListTriggers(s) \/ InitRow(s) \/ SkipRow(s) \/ ClaimRow(s) \/ LoseClaim(s)
    \/ TakeWorker(s) \/ NoteMissed(s) \/ SkipFire(s) \/ CheckSetup(s)
    \/ RecordRowError(s) \/ ConsiderPause(s) \/ PersistPause(s) \/ CreateRun(s)
    \/ ConsiderEpisode(s) \/ RecordFireFailure(s) \/ Advance(s) \/ MarkFired(s) \/ MirrorRows(s)
    \/ ListWorkers(s)

\* The process dies: what it was handling stays claimed until the lease runs out.
Crash(s) ==
    /\ Fault
    /\ ~At(s, "idle")
    /\ tick' = [tick EXCEPT ![s] = [Idle EXCEPT !.now = tick[s].now]]
    /\ Cross(Handling(s), Cur(s).worker)
    /\ UNCHANGED <<trigger, worker, runs, world>>

-----------------------------------------------------------------------------
(* Beside the scheduler *)

PassTime ==
    /\ clock < MaxTime
    /\ clock' = clock + 1
    /\ UNCHANGED <<trigger, worker, setup, capped, runs, tick, changes, faults, crossed, overtaken>>

\* The executor: RunLifecycle has the details.
StartRun(i) ==
    /\ runs[i].status = "queued"
    /\ runs' = [runs EXCEPT ![i].status = "running"]
    /\ UNCHANGED <<trigger, worker, setup, capped, clock, tick, changes, faults, crossed, overtaken>>

\* A run that fails for a reason of its own is to the scheduler like one that succeeds.
EndRun(i) ==
    /\ runs[i].status = "running"
    /\ runs' = [runs EXCEPT ![i].status = "completed"]
    /\ UNCHANGED <<trigger, worker, setup, capped, clock, tick, changes, faults, crossed, overtaken>>

\* execute_run finds a secret missing that was there when the run was created, or the
\* agent driver no model to call.  The failure and the policy are one step here.
FailRunForLack(i) ==
    LET w == runs[i].worker
    IN  /\ runs[i].status = "running"
        /\ setup[w] \in {"missing_secret", "llm_model_not_configured"}
        /\ runs' = [runs EXCEPT ![i].status = "failed", ![i].code = setup[w]]
        /\ worker' = IF runs[i].kind = "run" /\ PolicyPauses(w, setup[w], runs')
                     THEN [worker EXCEPT ![w].enabled = FALSE, ![w].paused = TRUE] ELSE worker
        /\ UNCHANGED <<trigger, setup, capped, clock, tick, changes, faults, crossed, overtaken>>

Change == changes + faults < MaxEvents /\ changes' = changes + 1

RunByHand(w) ==
    /\ Change
    /\ worker[w].enabled /\ ~capped
    /\ runs' = Append(runs, [worker |-> w, trigger |-> Nobody, kind |-> "manual", status |-> "queued",
                              code |-> "none", at |-> clock, slot |-> Never])
    /\ UNCHANGED <<trigger, worker, setup, capped, clock, tick, faults, crossed, overtaken>>

\* reconcile_triggers keeps the time of a row whose schedule has not changed.  Claims
\* are left alone.
Reconciled(w, period, enabled) ==
    [t \in Triggers |->
        IF WorkerOf[t] # w THEN trigger[t]
        ELSE [trigger[t] EXCEPT !.enabled = enabled, !.period = period,
                                !.next = IF trigger[t].period = period THEN @ ELSE Never]]

\* The update of a worker's schedule; its calls are one step here.
EditSchedule(w, period) ==
    /\ Change
    /\ period # worker[w].period
    /\ worker' = [worker EXCEPT ![w].period = period, ![w].next = Never]
    /\ trigger' = Reconciled(w, period, worker[w].enabled)
    /\ UNCHANGED <<setup, capped, runs, clock, tick, faults, crossed, overtaken>>

\* _set_worker_enabled, either way.
PauseWorker(w) ==
    /\ Change
    /\ worker[w].enabled
    /\ worker' = [worker EXCEPT ![w].enabled = FALSE, ![w].next = Never]
    /\ trigger' = Reconciled(w, worker[w].period, FALSE)
    /\ UNCHANGED <<setup, capped, runs, clock, tick, faults, crossed, overtaken>>

\* Resuming a worker that was paused for its failures starts a new count of them.
ResumeWorker(w) ==
    /\ Change
    /\ ~worker[w].enabled
    /\ worker' = [worker EXCEPT ![w].enabled = TRUE, ![w].paused = FALSE,
                                ![w].resumed = IF worker[w].paused THEN clock ELSE @]
    /\ trigger' = Reconciled(w, worker[w].period, TRUE)
    /\ overtaken' = IF ~worker[w].paused \/ \E s \in Schedulers : At(s, "persisting") /\ Cur(s).worker = w
                    THEN overtaken \cup {w} ELSE overtaken
    /\ UNCHANGED <<setup, capped, runs, clock, tick, faults, crossed>>

\* A secret, a connection or an input is removed or provided.
ChangeSetup(w) ==
    /\ Change
    /\ \E code \in Lacks \cup {"none"} :
          /\ code # setup[w]
          /\ setup' = [setup EXCEPT ![w] = code]
    /\ UNCHANGED <<trigger, worker, capped, runs, clock, tick, faults, crossed, overtaken>>

ChangeCap ==
    /\ Change
    /\ capped' = ~capped
    /\ UNCHANGED <<trigger, worker, setup, runs, clock, tick, faults, crossed, overtaken>>

-----------------------------------------------------------------------------
(* The specification *)

Init ==
    /\ \E period \in Periods :
          /\ trigger = [t \in Triggers |-> [period |-> period, next |-> Never, fired |-> Never,
                                            locked |-> Never, enabled |-> TRUE]]
          /\ worker = [w \in Workers |-> [period |-> period, next |-> Never, enabled |-> TRUE,
                                          paused |-> FALSE, resumed |-> Never]]
    /\ setup \in [Workers -> Lacks \cup {"none"}]
    /\ capped \in BOOLEAN
    /\ runs = <<>>
    /\ clock = 0
    /\ tick = [s \in Schedulers |-> Idle]
    /\ changes = 0 /\ faults = 0
    /\ crossed = {} /\ overtaken = {}

FaultStep(s) ==
    \/ ListFails(s) \/ ClaimRaises(s) \/ CheckRaises(s) \/ CreateRaises(s) \/ RecordFails(s)
    \/ AdvanceRaises(s) \/ MarkRaises(s) \/ Crash(s)

UserStep ==
    \/ ChangeCap
    \/ \E w \in Workers :
          \/ RunByHand(w) \/ PauseWorker(w) \/ ResumeWorker(w) \/ ChangeSetup(w)
          \/ \E period \in Periods : EditSchedule(w, period)

Next ==
    \/ \E s \in Schedulers : TickStep(s) \/ FaultStep(s)
    \/ \E i \in DOMAIN runs : StartRun(i) \/ EndRun(i) \/ FailRunForLack(i)
    \/ PassTime
    \/ UserStep

Spec == Init /\ [][Next]_vars

FairSpec == Spec /\ WF_vars(PassTime) /\ \A s \in Schedulers : WF_vars(TickStep(s))

-----------------------------------------------------------------------------
(* Properties *)

TypeOK ==
    /\ trigger \in [Triggers -> TriggerRow]
    /\ worker \in [Workers -> WorkerRow]
    /\ setup \in [Workers -> SetupCode \cup {"none"}]
    /\ capped \in BOOLEAN
    /\ runs \in Seq(RunRow)
    /\ clock \in 0 .. MaxTime
    /\ \A s \in Schedulers :
          /\ tick[s].pc \in Pc /\ tick[s].now \in 0 .. clock
          /\ tick[s].todo \in Seq(Item) /\ tick[s].mirror \in Seq(Item)
          /\ tick[s].pc \notin {"idle", "listing", "mirroring", "legacy"} => tick[s].todo # <<>>
    /\ {changes, faults} \subseteq Nat /\ changes + faults <= MaxEvents
    /\ crossed \subseteq Workers /\ overtaken \subseteq Workers

\* A slot of a schedule row, or of a worker without rows, is fired once, whether or not the
\* fire succeeds, and reported late once, however many schedulers tick, while claims are granted
\* on rows as they were listed and handled within their lease (claim_schedule_trigger, #2214).
Fires == {i \in DOMAIN runs : runs[i].kind \in {"run", "failure"} /\ runs[i].code # "scheduler_row_error"}
Markers == {i \in DOMAIN runs : runs[i].kind = "missed"}
SameFire(x, y) ==
    /\ x.worker = y.worker /\ x.slot = y.slot
    /\ x.trigger = y.trigger \/ Nobody \in {x.trigger, y.trigger}
SlotHandledOnce ==
    \A rows \in {Fires, Markers} : \A i, j \in rows :
        i # j /\ runs[i].worker \notin crossed => ~SameFire(runs[i], runs[j])

\* A worker that the policy has paused had that many scheduled attempts fail for the same
\* lack: when some row was the last one written, they were the newest attempts, and none of
\* them is from before it was resumed.  Except for one that was resumed between a tick's
\* decision to pause it and the update.
EarnedWith(w, n, code) ==
    LET attempts == Attempts(w, runs, {i \in RowsOf(w, runs) : i <= n})
    IN  Earned(runs, Newest(runs, attempts, Threshold), Threshold, code)
PauseIsEarned ==
    \A w \in Workers :
        worker[w].paused /\ w \notin overtaken =>
            \E n \in DOMAIN runs, code \in SetupCode : EarnedWith(w, n, code)

\* A worker that lacks something is not left failing for ever: once its newest attempts have
\* all failed for it, it is paused, or a tick is about to do so.  Runs that fail on their own
\* do not keep the policy from counting, nor do late fires, of which each leaves two rows: of
\* markers there may be as many as of failures (the policy reads twice as many rows).  A worker
\* that a user has paused and resumed is left to its next failure.
Recent(w) == Newest(runs, Attempts(w, runs, RowsOf(w, runs)), Threshold)
FewMarkers(w) ==
    \A i \in Recent(w) :
        Cardinality({j \in Markers \cap RowsOf(w, runs) : Newer(runs, j, i)}) <= Threshold
PauseComesInTime ==
    \A w \in Workers, code \in SetupCode :
        /\ faults = 0 /\ Threshold > 0
        /\ worker[w].enabled /\ w \notin overtaken
        /\ Earned(runs, Recent(w), Threshold, code) /\ FewMarkers(w)
        => \E s \in Schedulers : tick[s].pc \in {"pausing", "persisting"} /\ Cur(s).worker = w

\* One exhausted cap leaves one failed row, however often the schedule fires: two failures of
\* a worker for the same reason in the same month are never written one after the other, unless
\* the first was behind a newer row when it was written (_has_open_schedule_failure_episode);
\* one scheduler.
RowBefore(i, j) ==
    LET earlier == {k \in RowsOf(runs[j].worker, runs) : k < j}
    IN  i \in earlier /\ \A k \in earlier : k <= i /\ ~Newer(runs, k, i)
EpisodeIsCoalesced ==
    (\A s1, s2 \in Schedulers : s1 = s2) =>
        \A i, j \in DOMAIN runs :
            /\ RowBefore(i, j)
            /\ runs[i].kind = "failure" /\ runs[i].code \in FireCode
            /\ SameMonth(runs[i].at, runs[j].at)
            => runs[j].code # runs[i].code

\* No schedule stalls: in the end every enabled row that is due has been advanced, but
\* for one whose claim outlives the bound of the clock.
EventuallyAdvanced ==
    <>[](\A t \in Triggers :
            trigger[t].enabled /\ worker[WorkerOf[t]].enabled =>
                \/ trigger[t].next > clock
                \/ trigger[t].locked > clock)
=============================================================================
