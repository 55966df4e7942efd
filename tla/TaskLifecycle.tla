--------------------------- MODULE TaskLifecycle ---------------------------
(***************************************************************************)
(* Asynchronous tasks: plugin/manager_tasks.go (dispatch, execution,       *)
(* recovery), task_stale_sweep.go, task_failure_usage.go and the           *)
(* tasks.update call of task_service.go.                                   *)
(*                                                                         *)
(* The row of a task is shared by all instances; each statement on it is   *)
(* one step.  An instance runs three loops (dispatch, recover, sweep),     *)
(* each of which reads rows and then writes them one by one, and one       *)
(* goroutine for each task it executes.  Whether the instance leads is     *)
(* read once, before the query.  LeaderLease says how leadership moves;    *)
(* here it does so at any time.                                            *)
(*                                                                         *)
(* Priorities and plugins are abstracted: there is one plugin, and any     *)
(* choice of waiting tasks may be dispatched.  Payloads, progress and      *)
(* prices are left out, and so is the deletion of tasks.                   *)
(***************************************************************************)
EXTENDS Naturals, FiniteSets

CONSTANTS
    Tasks, Instances,
    MaxAttempts,      \* max_attempts of a task
    Cap,              \* pluginConcurrencyCap
    Exclusive,        \* is at most one instance leader at a time?
    Rejects,          \* <<i, t>>: the plugin of i does not know the type of t
    Asked,            \* the statuses plugins ask for, "progress" for none
    MaxClaims,        \* bound: claims of a task
    MaxCalls,         \* bound: tasks.update calls of plugins
    MaxCrashes        \* bound: crashes and stops of instances

ASSUME TaskAssumption ==
    /\ MaxAttempts \in Nat \ {0} /\ Cap \in Nat
    /\ Exclusive \in BOOLEAN
    /\ Rejects \subseteq Instances \X Tasks
    /\ Asked \subseteq {"pending", "processing", "retrying", "cancelling",
                    "completed", "failed", "cancelled", "progress"}
    /\ MaxClaims \in Nat /\ MaxCalls \in Nat /\ MaxCrashes \in Nat

Terminal == {"completed", "failed", "cancelled"}

Waiting == {"pending", "retrying"}

\* Mutant: a task that waits for its next attempt is not in flight.
InFlight_NoRetrying == {"pending", "processing", "cancelling"}

\* taskInFlightStatuses
InFlight == {"pending", "processing", "retrying", "cancelling"}

Statuses == InFlight \cup Terminal

\* taskStateTransitions
Transitions == [
    pending    |-> {"processing", "failed", "cancelled"},
    processing |-> {"completed", "failed", "retrying", "cancelling", "cancelled"},
    retrying   |-> {"pending", "failed"},
    cancelling |-> {"cancelled", "failed"},
    completed  |-> {}, failed |-> {}, cancelled |-> {}]

VARIABLES
    \* the rows
    status,           \* "new" before the task is created
    attempts,         \* the attempts column
    quiet,            \* has the row not been updated for taskStaleThreshold?
    old,              \* was it created staleTaskMaxAge ago?
    \* the instances
    mode,             \* "down", "loading", "reset" or "up"
    crashes,          \* crashes and stops of instances so far
    leads,            \* the instances whose flag is set
    batch,            \* dispatch: rows read and not yet claimed
    scan,             \* reset and recover: rows read and not yet updated
    sweep,            \* sweep: tasks found and not yet failed
    runs,             \* executions of tasks
    reports,          \* failures whose usage record is about to be written
    \* plugins
    calls, made,      \* tasks.update calls between read and write, and made
    \* history
    claims,           \* claims of a task
    failureRecords,   \* usage records of a task's failure
    overwritten       \* updates by id of a task that had ended since it was read

rowVars  == <<status, attempts, quiet, old>>
loopVars == <<batch, scan, sweep>>
vars == <<rowVars, mode, crashes, leads, loopVars, runs, reports, calls, made,
          claims, failureRecords, overwritten>>

Row(t) == [task |-> t, attempts |-> attempts[t]]
Rows   == [task : Tasks, attempts : 0 .. MaxClaims]

Runs == [task : Tasks, attempts : 0 .. MaxClaims, number : 1 .. MaxClaims,
         inst : Instances, phase : {"calling", "ok", "error"}]

\* A report of an execution carries its number, those of the loops carry 0.
Reports == [inst : Instances, loop : {"dispatch", "recover", "sweep", "run"},
            task : Tasks, number : 0 .. MaxClaims]

Calls == [number : 1 .. MaxCalls, task : Tasks, seen : Statuses, to : Asked]

TypeOK ==
    /\ status \in [Tasks -> Statuses \cup {"new"}]
    /\ attempts \in [Tasks -> 0 .. MaxClaims]
    /\ quiet \in [Tasks -> BOOLEAN] /\ old \in [Tasks -> BOOLEAN]
    /\ mode \in [Instances -> {"down", "loading", "reset", "up"}]
    /\ crashes \in 0 .. MaxCrashes
    /\ leads \in SUBSET Instances
    /\ batch \in [Instances -> SUBSET Rows]
    /\ scan \in [Instances -> SUBSET Rows]
    /\ sweep \in [Instances -> SUBSET Tasks]
    /\ runs \in SUBSET Runs
    /\ reports \in SUBSET Reports
    /\ calls \in SUBSET Calls
    /\ made \in 0 .. MaxCalls
    /\ claims \in [Tasks -> 0 .. MaxClaims]
    /\ failureRecords \in [Tasks -> Nat] /\ overwritten \in [Tasks -> Nat]

Init ==
    /\ status = [t \in Tasks |-> "new"]
    /\ attempts = [t \in Tasks |-> 0]
    /\ quiet = [t \in Tasks |-> FALSE]
    /\ old = [t \in Tasks |-> FALSE]
    /\ mode = [i \in Instances |-> "down"]
    /\ crashes = 0
    /\ leads = {}
    /\ batch = [i \in Instances |-> {}]
    /\ scan = [i \in Instances |-> {}]
    /\ sweep = [i \in Instances |-> {}]
    /\ runs = {} /\ reports = {}
    /\ calls = {} /\ made = 0
    /\ claims = [t \in Tasks |-> 0]
    /\ failureRecords = [t \in Tasks |-> 0]
    /\ overwritten = [t \in Tasks |-> 0]

----------------------------------------------------------------------------
(* Writing a row.                                                          *)

Write(t, st) ==
    /\ status' = [status EXCEPT ![t] = st]
    /\ quiet' = [quiet EXCEPT ![t] = FALSE]

KeepRow == UNCHANGED <<status, quiet>>

\* An update by id writes whatever the status is by now, be it one that has
\* ended the task since it was read as st0.
WriteById(t, st0, st) ==
    /\ Write(t, st)
    /\ overwritten' = [overwritten EXCEPT
                           ![t] = IF status[t] \in Terminal \ {st0} THEN @ + 1 ELSE @]

\* A conditional update (updateTaskWhileProcessing and the like).
WriteIf(t, from, to) == IF status[t] \in from THEN Write(t, to) ELSE KeepRow

\* The database reports an error: the update may have been done or not.
WriteFails(t, from, to) == KeepRow \/ WriteIf(t, from, to)

Minimum(x, y) == IF x <= y THEN x ELSE y

\* A loop writes the usage record of one task before it goes on to the next.
Idle(i, loop) == \A p \in reports : ~(p.inst = i /\ p.loop = loop)

Report(i, loop, t, n) == [inst |-> i, loop |-> loop, task |-> t, number |-> n]

\* A failure is recorded only when the update found the row it asked for.
ReportIf(found, p) == reports' = IF found THEN reports \cup {p} ELSE reports

\* createTask
Create(t) ==
    /\ status[t] = "new"
    /\ Write(t, "pending")
    /\ UNCHANGED <<attempts, old, mode, crashes, leads, loopVars, runs, reports,
                   calls, made, claims, failureRecords, overwritten>>

----------------------------------------------------------------------------
(* The dispatch loop.                                                      *)

\* taskInflight: an execution counts until its usage record is written.
Inflight(i) ==
    {<<r.task, r.number>> : r \in {x \in runs : x.inst = i}}
    \cup {<<p.task, p.number>> : p \in {x \in reports : x.inst = i /\ x.loop = "run"}}

Fetch(i, slots) ==
    /\ mode[i] = "up" /\ i \in leads /\ batch[i] = {} /\ Idle(i, "dispatch")
    /\ slots > 0
    /\ LET waiting == {t \in Tasks : status[t] \in Waiting}
       IN  \E chosen \in SUBSET waiting :
               /\ chosen # {} /\ Cardinality(chosen) = Minimum(slots, Cardinality(waiting))
               /\ batch' = [batch EXCEPT ![i] = {Row(t) : t \in chosen}]
    /\ UNCHANGED <<rowVars, mode, crashes, leads, scan, sweep, runs, reports,
                   calls, made, claims, failureRecords, overwritten>>

\* Mutant: the tasks in execution are not counted.
Query_WholeCap(i) == Fetch(i, Cap)

\* dispatchPendingTasks reads as many waiting tasks as there are free slots.
Query(i) ==
    /\ Cardinality(Inflight(i)) < Cap
    /\ Fetch(i, Cap - Cardinality(Inflight(i)))

\* launchPluginTasks takes the next task of the batch.
Take(i, b) ==
    /\ b \in batch[i] /\ Idle(i, "dispatch")
    /\ batch' = [batch EXCEPT ![i] = @ \ {b}]
    /\ UNCHANGED <<old, mode, crashes, leads, scan, sweep, calls, made, failureRecords>>

Unclaimed == UNCHANGED <<attempts, claims, runs>>

\* The claim: the attempts written are those read with the batch, plus one.
Claim(b) ==
    /\ status[b.task] \in Waiting
    /\ Write(b.task, "processing")
    /\ attempts' = [attempts EXCEPT ![b.task] = b.attempts + 1]
    /\ claims' = [claims EXCEPT ![b.task] = @ + 1]

Launch(i, b) ==
    /\ Take(i, b) /\ <<i, b.task>> \notin Rejects
    /\ claims[b.task] < MaxClaims
    /\ Claim(b)
    /\ runs' = runs \cup {[task |-> b.task, attempts |-> b.attempts + 1,
                           number |-> claims[b.task] + 1, inst |-> i,
                           phase |-> "calling"]}
    /\ UNCHANGED <<reports, overwritten>>

\* The row is no longer waiting: another instance has it.
LaunchMissed(i, b) ==
    /\ Take(i, b) /\ <<i, b.task>> \notin Rejects
    /\ status[b.task] \notin Waiting
    /\ KeepRow /\ Unclaimed /\ UNCHANGED <<reports, overwritten>>

\* The update fails; if it was done all the same, nothing executes the task.
LaunchFails(i, b) ==
    /\ Take(i, b) /\ <<i, b.task>> \notin Rejects
    /\ \/ KeepRow /\ Unclaimed
       \/ claims[b.task] < MaxClaims /\ Claim(b) /\ UNCHANGED runs
    /\ UNCHANGED <<reports, overwritten>>

\* A type the plugin does not know: the task fails, whatever its status is now.
Reject(i, b) ==
    /\ Take(i, b) /\ <<i, b.task>> \in Rejects
    /\ WriteById(b.task, "pending", "failed") /\ Unclaimed
    /\ reports' = reports \cup {Report(i, "dispatch", b.task, 0)}

RejectFails(i, b) ==
    /\ Take(i, b) /\ <<i, b.task>> \in Rejects
    /\ Unclaimed
    /\ \/ KeepRow /\ UNCHANGED overwritten
       \/ WriteById(b.task, "pending", "failed")
    /\ UNCHANGED reports

----------------------------------------------------------------------------
(* One execution: processOneTask.                                          *)

\* ProcessTask returns, or its ten minutes are over.
Return(r, outcome) ==
    /\ r.phase = "calling"
    /\ runs' = (runs \ {r}) \cup {[r EXCEPT !.phase = outcome]}
    /\ UNCHANGED <<rowVars, mode, crashes, leads, loopVars, reports, calls, made,
                   claims, failureRecords, overwritten>>

\* r.attempts is t.Attempts + 1, computed from what the batch read.
Outcome(r) ==
    IF r.phase = "ok" THEN "completed"
    ELSE IF r.attempts < MaxAttempts THEN "retrying" ELSE "failed"

End(r) ==
    /\ r.phase # "calling"
    /\ runs' = runs \ {r}
    /\ UNCHANGED <<attempts, old, mode, crashes, leads, loopVars, calls, made,
                   claims, failureRecords, overwritten>>

\* Mutant: the last attempt is not made.
Settle_OneLess(r) ==
    /\ End(r)
    /\ LET st == IF r.phase = "error" /\ r.attempts + 1 >= MaxAttempts
                 THEN "failed" ELSE Outcome(r)
       IN  /\ WriteIf(r.task, {"processing"}, st)
           /\ ReportIf(status[r.task] = "processing" /\ st = "failed",
                       Report(r.inst, "run", r.task, r.number))

Settle(r) ==
    /\ End(r)
    /\ WriteIf(r.task, {"processing"}, Outcome(r))
    /\ ReportIf(status[r.task] = "processing" /\ Outcome(r) = "failed",
                Report(r.inst, "run", r.task, r.number))

SettleFails(r) ==
    /\ End(r)
    /\ WriteFails(r.task, {"processing"}, Outcome(r))
    /\ UNCHANGED reports

\* RecordTaskFailureUsage reads the row again and records it if it has failed.
Record(p) ==
    /\ reports' = reports \ {p}
    /\ failureRecords' = [failureRecords EXCEPT
                             ![p.task] = IF status[p.task] = "failed" THEN @ + 1 ELSE @]
    /\ UNCHANGED <<rowVars, mode, crashes, leads, loopVars, runs, calls, made, claims, overwritten>>

RecordFails(p) ==
    /\ reports' = reports \ {p}
    /\ UNCHANGED <<rowVars, mode, crashes, leads, loopVars, runs, calls, made,
                   claims, failureRecords, overwritten>>

----------------------------------------------------------------------------
(* The start of an instance and the recover loop.                          *)

Processing == {t \in Tasks : status[t] = "processing"}

\* StartPlugins: the sweep starts at once, the other loops after the plugins.
Boot(i) ==
    /\ mode[i] = "down"
    /\ mode' = [mode EXCEPT ![i] = "loading"]
    /\ UNCHANGED <<rowVars, crashes, leads, loopVars, runs, reports, calls, made, claims,
                   failureRecords, overwritten>>

\* resetProcessingTasks, the query: every task in execution, whoever executes it.
Reset(i) ==
    /\ mode[i] = "loading"
    /\ mode' = [mode EXCEPT ![i] = "reset"]
    /\ scan' = [scan EXCEPT ![i] = IF i \in leads THEN {Row(t) : t \in Processing} ELSE {}]
    /\ UNCHANGED <<rowVars, crashes, leads, batch, sweep, runs, reports, calls, made,
                   claims, failureRecords, overwritten>>

\* StartTaskDispatcher starts the loops.
Begin(i) ==
    /\ mode[i] = "reset" /\ scan[i] = {} /\ Idle(i, "recover")
    /\ mode' = [mode EXCEPT ![i] = "up"]
    /\ UNCHANGED <<rowVars, crashes, leads, loopVars, runs, reports, calls, made,
                   claims, failureRecords, overwritten>>

\* recoverStaleTasks, the query.
Scan(i) ==
    /\ mode[i] = "up" /\ i \in leads /\ scan[i] = {} /\ Idle(i, "recover")
    /\ scan' = [scan EXCEPT ![i] = {Row(t) : t \in {u \in Processing : quiet[u]}}]
    /\ UNCHANGED <<rowVars, mode, crashes, leads, batch, sweep, runs, reports, calls,
                   made, claims, failureRecords, overwritten>>

Recovered(s) == IF s.attempts < MaxAttempts THEN "retrying" ELSE "failed"

NextScanned(i, s) ==
    /\ s \in scan[i] /\ Idle(i, "recover")
    /\ scan' = [scan EXCEPT ![i] = @ \ {s}]
    /\ UNCHANGED <<attempts, old, mode, crashes, leads, batch, sweep, runs, calls,
                   made, claims, failureRecords, overwritten>>

\* Mutant: the row is updated whatever its status is by now.
Recover_Unconditional(i, s) ==
    /\ NextScanned(i, s)
    /\ Write(s.task, Recovered(s))
    /\ ReportIf(Recovered(s) = "failed", Report(i, "recover", s.task, 0))

Recover(i, s) ==
    /\ NextScanned(i, s)
    /\ WriteIf(s.task, {"processing"}, Recovered(s))
    /\ ReportIf(status[s.task] = "processing" /\ Recovered(s) = "failed",
                Report(i, "recover", s.task, 0))

RecoverFails(i, s) ==
    /\ NextScanned(i, s)
    /\ WriteFails(s.task, {"processing"}, Recovered(s))
    /\ UNCHANGED reports

----------------------------------------------------------------------------
(* The sweep.                                                              *)

SweepQuery(i) ==
    /\ mode[i] # "down" /\ i \in leads /\ sweep[i] = {} /\ Idle(i, "sweep")
    /\ sweep' = [sweep EXCEPT ![i] = {t \in Tasks : old[t] /\ status[t] \in InFlight}]
    /\ UNCHANGED <<rowVars, mode, crashes, leads, batch, scan, runs, reports, calls,
                   made, claims, failureRecords, overwritten>>

NextSwept(i, t) ==
    /\ t \in sweep[i] /\ Idle(i, "sweep")
    /\ UNCHANGED <<attempts, old, mode, crashes, leads, batch, scan, runs, calls, made,
                   claims, failureRecords, overwritten>>

\* Mutant: a failure is recorded though the update found no such row.
Sweep_Recorded(i, t) ==
    /\ NextSwept(i, t)
    /\ sweep' = [sweep EXCEPT ![i] = @ \ {t}]
    /\ WriteIf(t, InFlight, "failed")
    /\ reports' = reports \cup {Report(i, "sweep", t, 0)}

Sweep(i, t) ==
    /\ NextSwept(i, t)
    /\ sweep' = [sweep EXCEPT ![i] = @ \ {t}]
    /\ WriteIf(t, InFlight, "failed")
    /\ ReportIf(status[t] \in InFlight, Report(i, "sweep", t, 0))

\* One error ends the round.
SweepFails(i, t) ==
    /\ NextSwept(i, t)
    /\ sweep' = [sweep EXCEPT ![i] = {}]
    /\ WriteFails(t, InFlight, "failed")
    /\ UNCHANGED reports

----------------------------------------------------------------------------
(* tasks.update: any plugin, any task, at any time.                        *)

\* validateTaskTransition; "progress" changes no status.
Allowed(from, to) == to \in {"progress", from} \cup Transitions[from]

\* updateTask reads the row and checks the transition.
CallBegin(t, to) ==
    /\ made < MaxCalls /\ status[t] # "new" /\ Allowed(status[t], to)
    /\ made' = made + 1
    /\ calls' = calls \cup {[number |-> made + 1, task |-> t, seen |-> status[t],
                             to |-> to]}
    /\ UNCHANGED <<rowVars, mode, crashes, leads, loopVars, runs, reports, claims,
                   failureRecords, overwritten>>

\* It writes the row without asking for the status it has read.
CallSave(c) ==
    LET st == IF c.to = "progress" THEN status[c.task] ELSE c.to
    IN  /\ calls' = calls \ {c}
        /\ WriteById(c.task, c.seen, st)
        /\ failureRecords' = [failureRecords EXCEPT
                ![c.task] = IF c.seen # "failed" /\ st = "failed" THEN @ + 1 ELSE @]
        /\ UNCHANGED <<attempts, old, mode, crashes, leads, loopVars, runs, reports,
                       made, claims>>

----------------------------------------------------------------------------
(* Time, leadership, crashes.                                              *)

\* taskStaleThreshold without an update.  It is taskProcessTimeout too, counted
\* from a little earlier, so the plugin may still be at work.
Quiet(t) ==
    /\ status[t] = "processing" /\ ~quiet[t]
    /\ quiet' = [quiet EXCEPT ![t] = TRUE]
    /\ UNCHANGED <<status, attempts, old, mode, crashes, leads, loopVars, runs,
                   reports, calls, made, claims, failureRecords, overwritten>>

Old(t) ==
    /\ status[t] # "new" /\ ~old[t]
    /\ old' = [old EXCEPT ![t] = TRUE]
    /\ UNCHANGED <<status, attempts, quiet, mode, crashes, leads, loopVars, runs,
                   reports, calls, made, claims, failureRecords, overwritten>>

Gain(i) ==
    /\ mode[i] # "down" /\ i \notin leads
    /\ Exclusive => leads = {}
    /\ leads' = leads \cup {i}
    /\ UNCHANGED <<rowVars, mode, crashes, loopVars, runs, reports, calls, made,
                   claims, failureRecords, overwritten>>

Lose(i) ==
    /\ i \in leads
    /\ leads' = leads \ {i}
    /\ UNCHANGED <<rowVars, mode, crashes, loopVars, runs, reports, calls, made,
                   claims, failureRecords, overwritten>>

\* A stop does the same: the contexts end, and nothing more is written.
Crash(i) ==
    /\ mode[i] # "down" /\ crashes < MaxCrashes
    /\ crashes' = crashes + 1
    /\ mode' = [mode EXCEPT ![i] = "down"]
    /\ leads' = leads \ {i}
    /\ batch' = [batch EXCEPT ![i] = {}]
    /\ scan' = [scan EXCEPT ![i] = {}]
    /\ sweep' = [sweep EXCEPT ![i] = {}]
    /\ runs' = {r \in runs : r.inst # i}
    /\ reports' = {p \in reports : p.inst # i}
    /\ UNCHANGED <<rowVars, calls, made, claims, failureRecords, overwritten>>

----------------------------------------------------------------------------
Dispatch(i) ==
    \/ Query(i)
    \/ \E b \in batch[i] :
           Launch(i, b) \/ LaunchMissed(i, b) \/ LaunchFails(i, b)
           \/ Reject(i, b) \/ RejectFails(i, b)

Execution ==
    \E r \in runs : Return(r, "ok") \/ Return(r, "error") \/ Settle(r) \/ SettleFails(r)

Recording == \E p \in reports : Record(p) \/ RecordFails(p)

Recovery(i) ==
    \/ Boot(i) \/ Reset(i) \/ Begin(i) \/ Scan(i)
    \/ \E s \in scan[i] : Recover(i, s) \/ RecoverFails(i, s)

Sweeping(i) == SweepQuery(i) \/ \E t \in sweep[i] : Sweep(i, t) \/ SweepFails(i, t)

Plugin ==
    \/ \E t \in Tasks, to \in Asked : CallBegin(t, to)
    \/ \E c \in calls : CallSave(c)

Cluster(i) == Gain(i) \/ Lose(i) \/ Crash(i)

Next ==
    \/ \E t \in Tasks : Create(t) \/ Quiet(t) \/ Old(t)
    \/ \E i \in Instances : Dispatch(i) \/ Recovery(i) \/ Sweeping(i) \/ Cluster(i)
    \/ Execution \/ Recording \/ Plugin

Spec == Init /\ [][Next]_vars

(***************************************************************************)
(* Fairness, for the sweep alone: time passes, instances are started, some *)
(* instance becomes leader, the steps of a loop are taken; and a query or  *)
(* an update that is made again and again does not fail every time.        *)
(***************************************************************************)
Fairness ==
    /\ \A t \in Tasks : WF_vars(Old(t))
    /\ \A i \in Instances :
           /\ WF_vars(Boot(i)) /\ WF_vars(Gain(i))
           /\ SF_vars(SweepQuery(i))
           /\ \A t \in Tasks : SF_vars(Sweep(i, t))
           /\ WF_vars(\E p \in reports : p.inst = i /\ p.loop = "sweep"
                                          /\ (Record(p) \/ RecordFails(p)))

FairSpec == Spec /\ Fairness

----------------------------------------------------------------------------
(* Properties.                                                             *)

\* A task that has ended keeps its status (task_service.go:72 calls it terminal).
TerminalStays ==
    [][\A t \in Tasks : status[t] \in Terminal => status'[t] = status[t]]_vars

\* An instance executes at most Cap tasks, whatever it has read and launched.
WithinCap == \A i \in Instances : Cardinality(Inflight(i)) <= Cap

\* Core gives a task up only after its attempts are used, or after a day.
GivenUp ==
    \A t \in Tasks : status[t] = "failed" => old[t] \/ claims[t] >= MaxAttempts

\* A failure leaves at most one usage record, as task_service.go:317 has it, with
\* one more at most for each update by id (tasks.update, an unknown type) of a
\* task that had ended since it was read.  Sweep, recovery, executions, crashes
\* and changes of the leader add none.
FailureRecordedOnce == \A t \in Tasks : failureRecords[t] <= 1 + overwritten[t]

\* Every task ends: the sweep fails what a day has not finished.
TasksEnd == \A t \in Tasks : status[t] # "new" ~> status[t] \in Terminal
=============================================================================
