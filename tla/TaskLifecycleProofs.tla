------------------------ MODULE TaskLifecycleProofs ------------------------
(***************************************************************************)
(* Proofs about TaskLifecycle, for any tasks, instances and bounds.  The   *)
(* types hold whatever plugins do, and so do the bounds on executions and  *)
(* on records.  That a task which has ended keeps its status and is given  *)
(* up for a reason holds as long as only core writes the rows and every    *)
(* plugin knows every type.                                                *)
(***************************************************************************)
EXTENDS TaskLifecycle, Functions, FiniteSetTheorems, TLAPS

CoreOnly == MaxCalls = 0 /\ Rejects = {}

----------------------------------------------------------------------------
(* What is read from a row is never ahead of the claims of the task.       *)

Counted ==
    /\ \A t \in Tasks : attempts[t] <= claims[t]
    /\ \A i \in Instances : \A b \in batch[i] \cup scan[i] : b.attempts <= claims[b.task]
    /\ \A r \in runs : r.attempts <= claims[r.task]

Typed == TypeOK /\ Counted

USE TaskAssumption

LEMMA InitTyped == Init => Typed
<1>1. Init => TypeOK
  BY DEF Init, TypeOK
<1>2. Init => Counted
  BY DEF Init, Counted
<1>. QED  BY <1>1, <1>2 DEF Typed

\* Writing a row keeps its type.
LEMMA WriteTyped ==
    ASSUME TypeOK, NEW t \in Tasks, NEW st \in Statuses, Write(t, st)
    PROVE  /\ status' \in [Tasks -> Statuses \cup {"new"}]
           /\ quiet' \in [Tasks -> BOOLEAN]
  BY DEF TypeOK, Write

LEMMA RowTyped == TypeOK => \A t \in Tasks : Row(t) \in Rows
  BY DEF TypeOK, Row, Rows

\* The steps that only read: queries, starts, leadership, time.
LEMMA ReadersTyped ==
    ASSUME Typed, NEW i \in Instances,
           \/ Query(i) \/ Boot(i) \/ Reset(i) \/ Begin(i) \/ Scan(i)
           \/ SweepQuery(i) \/ Gain(i) \/ Lose(i)
    PROVE  Typed'
<1>. USE DEF Typed
<1>0. \A t \in Tasks : Row(t) \in Rows /\ Row(t).task = t /\ Row(t).attempts = attempts[t]
  BY RowTyped DEF Row
<1>1. ASSUME NEW n, Fetch(i, n) PROVE Typed'
  <2>1. PICK chosen \in SUBSET Tasks :
            batch' = [batch EXCEPT ![i] = {Row(t) : t \in chosen}]
    BY <1>1 DEF Fetch
  <2>2. batch' \in [Instances -> SUBSET Rows]
    BY <2>1, <1>0 DEF TypeOK
  <2>3. TypeOK'
    BY <1>1, <2>2 DEF Fetch, TypeOK, rowVars
  <2>4. Counted'
    BY <1>1, <2>1, <1>0 DEF Fetch, TypeOK, Counted, rowVars
  <2>. QED  BY <2>3, <2>4
<1>1a. CASE Query(i)
  BY <1>1a, <1>1 DEF Query
<1>2. CASE Boot(i)
  BY <1>2 DEF Boot, TypeOK, Counted, rowVars, loopVars
<1>3. CASE Reset(i)
  <2>1. scan' \in [Instances -> SUBSET Rows]
    BY <1>3, <1>0 DEF Reset, TypeOK, Processing
  <2>2. \A j \in Instances : \A s \in scan'[j] :
            s \in scan[j] \/ \E t \in Tasks : s = Row(t)
    BY <1>3 DEF Reset, TypeOK, Processing
  <2>3. Counted'
    BY <1>3, <1>0, <2>2 DEF Reset, Counted, rowVars
  <2>. QED  BY <1>3, <2>1, <2>3 DEF Reset, TypeOK, rowVars, loopVars
<1>4. CASE Begin(i)
  BY <1>4 DEF Begin, TypeOK, Counted, rowVars, loopVars
<1>5. CASE Scan(i)
  <2>1. scan' \in [Instances -> SUBSET Rows]
    BY <1>5, <1>0 DEF Scan, TypeOK, Processing
  <2>2. \A j \in Instances : \A s \in scan'[j] :
            s \in scan[j] \/ \E t \in Tasks : s = Row(t)
    BY <1>5 DEF Scan, TypeOK, Processing
  <2>3. Counted'
    BY <1>5, <1>0, <2>2 DEF Scan, Counted, rowVars
  <2>. QED  BY <1>5, <2>1, <2>3 DEF Scan, TypeOK, rowVars, loopVars
<1>6. CASE SweepQuery(i)
  BY <1>6 DEF SweepQuery, TypeOK, Counted, rowVars, loopVars
<1>7. CASE Gain(i)
  BY <1>7 DEF Gain, TypeOK, Counted, rowVars, loopVars
<1>8. CASE Lose(i)
  BY <1>8 DEF Lose, TypeOK, Counted, rowVars, loopVars
<1>. QED  BY <1>1a, <1>2, <1>3, <1>4, <1>5, <1>6, <1>7, <1>8

\* The steps of the dispatch loop after the query.
LEMMA DispatchTyped ==
    ASSUME Typed, NEW i \in Instances, NEW b \in batch[i],
           \/ Launch(i, b) \/ LaunchMissed(i, b) \/ LaunchFails(i, b)
           \/ Reject(i, b) \/ RejectFails(i, b)
    PROVE  Typed'
<1>. USE DEF Typed
<1>1. /\ b.task \in Tasks /\ b.attempts \in Nat /\ b.attempts <= claims[b.task]
      /\ claims[b.task] \in Nat /\ attempts[b.task] \in Nat
  BY DEF TypeOK, Counted, Rows
<1>2. \A st \in Statuses : Write(b.task, st) =>
          /\ status' \in [Tasks -> Statuses \cup {"new"}]
          /\ quiet' \in [Tasks -> BOOLEAN]
  BY <1>1, WriteTyped
<1>3. /\ {"processing", "failed"} \subseteq Statuses
      /\ batch' \in [Instances -> SUBSET Rows]
      /\ \A j \in Instances : batch'[j] \subseteq batch[j]
      /\ scan' = scan
  BY DEF Launch, LaunchMissed, LaunchFails, Reject, RejectFails, Take, TypeOK,
         Statuses, InFlight, Terminal
<1>4. ASSUME Claim(b), claims[b.task] < MaxClaims
      PROVE  /\ attempts' \in [Tasks -> 0 .. MaxClaims]
             /\ claims' \in [Tasks -> 0 .. MaxClaims]
             /\ \A t \in Tasks : attempts'[t] <= claims'[t] /\ claims[t] <= claims'[t]
             /\ status' \in [Tasks -> Statuses \cup {"new"}]
             /\ quiet' \in [Tasks -> BOOLEAN]
  <2>1. attempts' = [attempts EXCEPT ![b.task] = b.attempts + 1]
        /\ claims' = [claims EXCEPT ![b.task] = claims[b.task] + 1]
    BY <1>4 DEF Claim
  <2>2. b.attempts + 1 \in 0 .. MaxClaims /\ claims[b.task] + 1 \in 0 .. MaxClaims
    BY <1>1, <1>4
  <2>3. \A t \in Tasks : /\ attempts[t] \in Nat /\ claims[t] \in Nat
                         /\ attempts[t] <= claims[t]
    BY DEF TypeOK, Counted
  <2>. QED  BY <1>1, <1>2, <1>3, <1>4, <2>1, <2>2, <2>3 DEF Claim, TypeOK
<1>5. CASE Launch(i, b)
  <2>. DEFINE r == [task |-> b.task, attempts |-> b.attempts + 1,
                    number |-> claims[b.task] + 1, inst |-> i, phase |-> "calling"]
  <2>1. r \in Runs
    BY <1>1, <1>5 DEF Launch, Runs
  <2>2. runs' = runs \cup {r} /\ Claim(b) /\ claims[b.task] < MaxClaims
        /\ UNCHANGED <<reports, overwritten>> /\ Take(i, b)
    BY <1>5 DEF Launch
  <2>3. claims'[b.task] = claims[b.task] + 1
    BY <2>2, <1>1 DEF Claim, TypeOK
  <2>4. TypeOK'
    BY <2>1, <2>2, <1>3, <1>4 DEF TypeOK, Take
  <2>5. Counted'
    <3>1. \A x \in runs : x.task \in Tasks /\ x.attempts \in Nat
      BY DEF TypeOK, Runs
    <3>2. \A j \in Instances : \A x \in batch[j] \cup scan[j] :
              x.task \in Tasks /\ x.attempts \in Nat
      BY DEF TypeOK, Rows
    <3>3. r.attempts <= claims'[r.task]
      BY <2>3, <1>1
    <3>4. \A t \in Tasks : claims[t] \in Nat /\ claims'[t] \in Nat
      BY <2>4 DEF TypeOK
    <3>. HIDE DEF r
    <3>. QED  BY <2>2, <1>3, <1>4, <3>1, <3>2, <3>3, <3>4 DEF Counted
  <2>. QED  BY <2>4, <2>5
<1>6. CASE LaunchMissed(i, b)
  BY <1>6, <1>3 DEF LaunchMissed, Take, KeepRow, Unclaimed, TypeOK, Counted
<1>7. CASE LaunchFails(i, b)
  <2>1. CASE KeepRow /\ Unclaimed
    BY <1>7, <2>1, <1>3 DEF LaunchFails, Take, KeepRow, Unclaimed, TypeOK, Counted
  <2>2. CASE claims[b.task] < MaxClaims /\ Claim(b) /\ UNCHANGED runs
    <3>1. TypeOK'
      BY <1>7, <2>2, <1>3, <1>4 DEF LaunchFails, Take, TypeOK
    <3>2. \A j \in Instances : \A x \in batch[j] \cup scan[j] :
              x.task \in Tasks /\ x.attempts \in Nat
      BY DEF TypeOK, Rows
    <3>3. \A x \in runs : x.task \in Tasks /\ x.attempts \in Nat
      BY DEF TypeOK, Runs
    <3>4. \A t \in Tasks : claims[t] \in Nat /\ claims'[t] \in Nat
      BY <3>1 DEF TypeOK
    <3>5. Counted'
      BY <2>2, <1>3, <1>4, <3>2, <3>3, <3>4 DEF Counted
    <3>. QED  BY <3>1, <3>5
  <2>. QED  BY <1>7, <2>1, <2>2 DEF LaunchFails
<1>8. CASE Reject(i, b)
  <2>1. Report(i, "dispatch", b.task, 0) \in Reports
    BY <1>1 DEF Report, Reports
  <2>2. overwritten' \in [Tasks -> Nat]
    BY <1>1, <1>8 DEF Reject, WriteById, TypeOK
  <2>. QED  BY <1>8, <2>1, <2>2, <1>2, <1>3 DEF Reject, WriteById, Take, Unclaimed, TypeOK, Counted
<1>9. CASE RejectFails(i, b)
  <2>1. overwritten' \in [Tasks -> Nat]
    BY <1>1, <1>9 DEF RejectFails, WriteById, TypeOK
  <2>. QED  BY <1>9, <2>1, <1>2, <1>3 DEF RejectFails, WriteById, Take, KeepRow, Unclaimed, TypeOK, Counted
<1>. QED  BY <1>5, <1>6, <1>7, <1>8, <1>9

\* A conditional update keeps the types, whether the database reports an error
\* or not.
LEMMA WriteIfTyped ==
    ASSUME TypeOK, NEW t \in Tasks, NEW from, NEW st \in Statuses,
           WriteIf(t, from, st) \/ WriteFails(t, from, st)
    PROVE  /\ status' \in [Tasks -> Statuses \cup {"new"}]
           /\ quiet' \in [Tasks -> BOOLEAN]
  BY WriteTyped DEF WriteIf, WriteFails, KeepRow, TypeOK

LEMMA ExecutionTyped == ASSUME Typed, Execution  PROVE  Typed'
<1>. USE DEF Typed
<1>1. PICK r \in runs : Return(r, "ok") \/ Return(r, "error") \/ Settle(r) \/ SettleFails(r)
  BY DEF Execution
<1>2. r \in Runs /\ r.attempts <= claims[r.task] /\ Outcome(r) \in Statuses
  BY DEF TypeOK, Counted, Outcome, Statuses, Terminal, InFlight
<1>3. ASSUME NEW o \in {"ok", "error"}, Return(r, o) PROVE Typed'
  <2>1. [r EXCEPT !.phase = o] \in Runs
    BY <1>2 DEF Runs
  <2>2. /\ [r EXCEPT !.phase = o].attempts = r.attempts
        /\ [r EXCEPT !.phase = o].task = r.task
    BY <1>2 DEF Runs
  <2>3. TypeOK'
    BY <1>3, <2>1 DEF Return, TypeOK, rowVars, loopVars
  <2>4. Counted'
    BY <1>3, <1>2, <2>2 DEF Return, Counted, rowVars, loopVars
  <2>. QED  BY <2>3, <2>4
<1>4. CASE Settle(r)
  <2>1. Report(r.inst, "run", r.task, r.number) \in Reports
    BY <1>2 DEF Report, Reports, Runs
  <2>2. r.task \in Tasks
    BY <1>2 DEF Runs
  <2>. QED  BY <1>4, <1>2, <2>1, <2>2, WriteIfTyped
            DEF Settle, End, ReportIf, TypeOK, Counted, loopVars
<1>5. CASE SettleFails(r)
  <2>1. r.task \in Tasks
    BY <1>2 DEF Runs
  <2>. QED  BY <1>5, <1>2, <2>1, WriteIfTyped DEF SettleFails, End, TypeOK, Counted, loopVars
<1>. QED  BY <1>1, <1>3, <1>4, <1>5

LEMMA RecordingTyped == ASSUME Typed, Recording  PROVE  Typed'
<1>. USE DEF Typed
<1>1. PICK p \in reports : Record(p) \/ RecordFails(p)
  BY DEF Recording
<1>2. p.task \in Tasks
  BY DEF TypeOK, Reports
<1>3. CASE Record(p)
  BY <1>3, <1>2 DEF Record, TypeOK, Counted, rowVars, loopVars
<1>4. CASE RecordFails(p)
  BY <1>4 DEF RecordFails, TypeOK, Counted, rowVars, loopVars
<1>. QED  BY <1>1, <1>3, <1>4

LEMMA RecoverTyped ==
    ASSUME Typed, NEW i \in Instances, NEW s \in scan[i],
           Recover(i, s) \/ RecoverFails(i, s)
    PROVE  Typed'
<1>. USE DEF Typed
<1>1. s.task \in Tasks /\ Recovered(s) \in Statuses
      /\ Report(i, "recover", s.task, 0) \in Reports
  BY DEF TypeOK, Rows, Recovered, Statuses, Terminal, InFlight, Report, Reports
<1>2. scan' \in [Instances -> SUBSET Rows] /\ \A j \in Instances : scan'[j] \subseteq scan[j]
  BY DEF Recover, RecoverFails, NextScanned, TypeOK
<1>3. CASE Recover(i, s)
  BY <1>3, <1>1, <1>2, WriteIfTyped DEF Recover, NextScanned, ReportIf, TypeOK, Counted
<1>4. CASE RecoverFails(i, s)
  BY <1>4, <1>1, <1>2, WriteIfTyped DEF RecoverFails, NextScanned, TypeOK, Counted
<1>. QED  BY <1>3, <1>4

LEMMA SweepTyped ==
    ASSUME Typed, NEW i \in Instances, NEW t \in sweep[i],
           Sweep(i, t) \/ SweepFails(i, t)
    PROVE  Typed'
<1>. USE DEF Typed
<1>1. t \in Tasks /\ "failed" \in Statuses /\ Report(i, "sweep", t, 0) \in Reports
  BY DEF TypeOK, Statuses, Terminal, Report, Reports
<1>2. CASE Sweep(i, t)
  BY <1>2, <1>1, WriteIfTyped DEF Sweep, NextSwept, ReportIf, TypeOK, Counted
<1>3. CASE SweepFails(i, t)
  BY <1>3, <1>1, WriteIfTyped DEF SweepFails, NextSwept, TypeOK, Counted
<1>. QED  BY <1>2, <1>3

LEMMA PluginTyped == ASSUME Typed, Plugin  PROVE  Typed'
<1>. USE DEF Typed
<1>1. ASSUME NEW t \in Tasks, NEW to \in Asked, CallBegin(t, to)
      PROVE  Typed'
  <2>1. status[t] \in Statuses /\ made + 1 \in 1 .. MaxCalls
    BY <1>1 DEF CallBegin, TypeOK
  <2>2. [number |-> made + 1, task |-> t, seen |-> status[t], to |-> to] \in Calls
    BY <2>1 DEF Calls
  <2>. QED  BY <1>1, <2>1, <2>2 DEF CallBegin, TypeOK, Counted, rowVars, loopVars
<1>2. ASSUME NEW c \in calls, CallSave(c) PROVE Typed'
  <2>. DEFINE st == IF c.to = "progress" THEN status[c.task] ELSE c.to
  <2>1. c.task \in Tasks /\ c.to \in Statuses \cup {"progress"}
    BY DEF TypeOK, Calls, Statuses, InFlight, Terminal
  <2>2. st \in Statuses \cup {"new"}
    BY <2>1 DEF TypeOK
  <2>3. Write(c.task, st) /\ overwritten' \in [Tasks -> Nat]
    BY <1>2, <2>1 DEF CallSave, WriteById, TypeOK
  <2>4. status' \in [Tasks -> Statuses \cup {"new"}] /\ quiet' \in [Tasks -> BOOLEAN]
    BY <2>1, <2>2, <2>3 DEF Write, TypeOK
  <2>5. failureRecords' \in [Tasks -> Nat]
    BY <1>2, <2>1 DEF CallSave, TypeOK
  <2>. QED  BY <1>2, <2>3, <2>4, <2>5 DEF CallSave, TypeOK, Counted, loopVars
<1>. QED  BY <1>1, <1>2 DEF Plugin

LEMMA ClockTyped ==
    ASSUME Typed, NEW t \in Tasks, Create(t) \/ Quiet(t) \/ Old(t)  PROVE  Typed'
<1>. USE DEF Typed
<1>1. CASE Create(t)
  BY <1>1, WriteTyped DEF Create, TypeOK, Counted, Statuses, InFlight, loopVars
<1>2. CASE Quiet(t)
  BY <1>2 DEF Quiet, TypeOK, Counted, loopVars
<1>3. CASE Old(t)
  BY <1>3 DEF Old, TypeOK, Counted, loopVars
<1>. QED  BY <1>1, <1>2, <1>3

LEMMA CrashTyped == ASSUME Typed, NEW i \in Instances, Crash(i)  PROVE  Typed'
  BY DEF Typed, Crash, TypeOK, Counted, rowVars

LEMMA StepTyped == Typed /\ [Next]_vars => Typed'
<1>. SUFFICES ASSUME Typed, [Next]_vars  PROVE  Typed'
  OBVIOUS
<1>1. CASE UNCHANGED vars
  BY <1>1 DEF Typed, TypeOK, Counted, vars, rowVars, loopVars
<1>2. ASSUME NEW i \in Instances, Dispatch(i) \/ Recovery(i) \/ Sweeping(i) \/ Cluster(i)
      PROVE  Typed'
  BY <1>2, ReadersTyped, DispatchTyped, RecoverTyped, SweepTyped, CrashTyped
  DEF Dispatch, Recovery, Sweeping, Cluster
<1>. QED  BY <1>1, <1>2, ClockTyped, ExecutionTyped, RecordingTyped, PluginTyped DEF Next

\* Every variable keeps its type, for any behaviour of the plugins.
THEOREM TypeCorrect == Spec => []TypeOK
<1>1. Spec => []Typed
  BY InitTyped, StepTyped, PTL DEF Spec
<1>. QED  BY <1>1, PTL DEF Typed

----------------------------------------------------------------------------
(* What a step of core may do to the status of a task.                     *)

\* The sweep only holds tasks that are old.
Swept == \A i \in Instances : \A t \in sweep[i] : old[t]

\* A task fails when it is old or when its attempts are used.
MayFail(t) == old[t] \/ claims[t] >= MaxAttempts

StatusStep(t) ==
    \/ status'[t] = status[t]
    \/ status[t] \notin Terminal /\ status'[t] # "failed"
    \/ status[t] \notin Terminal /\ MayFail(t)

LEMMA NoCalls == ASSUME CoreOnly, TypeOK  PROVE  calls = {} /\ ~Plugin
<1>1. \A n \in 1 .. MaxCalls : FALSE
  BY DEF CoreOnly
<1>2. calls = {}
  BY <1>1 DEF TypeOK, Calls
<1>3. ~(made < MaxCalls)
  BY DEF CoreOnly, TypeOK
<1>. QED  BY <1>2, <1>3 DEF Plugin, CallBegin

\* A row written from a status that is not terminal.
LEMMA WriteStep ==
    ASSUME TypeOK, NEW u \in Tasks, NEW from, NEW st, from \cap Terminal = {},
           st = "failed" => MayFail(u),
           WriteIf(u, from, st) \/ WriteFails(u, from, st)
    PROVE  \A t \in Tasks : StatusStep(t)
  BY DEF StatusStep, WriteIf, WriteFails, Write, KeepRow, TypeOK

LEMMA CoreStep ==
    ASSUME CoreOnly, Typed, Swept, Next  PROVE  \A t \in Tasks : StatusStep(t)
<1>. USE DEF Typed
<1>1. {"processing"} \cap Terminal = {} /\ InFlight \cap Terminal = {}
      /\ Waiting \cap Terminal = {} /\ "new" \notin Terminal
  BY DEF Terminal, InFlight, Waiting
<1>2. ASSUME NEW u \in Tasks, Create(u) \/ Quiet(u) \/ Old(u)
      PROVE  \A t \in Tasks : StatusStep(t)
  BY <1>1, <1>2 DEF Create, Quiet, Old, Write, StatusStep, TypeOK
<1>3. ASSUME NEW i \in Instances, Dispatch(i)  PROVE  \A t \in Tasks : StatusStep(t)
  <2>1. CASE Query(i)
    BY <2>1 DEF Query, Fetch, rowVars, StatusStep
  <2>2. ASSUME NEW b \in batch[i], Launch(i, b) \/ LaunchMissed(i, b) \/ LaunchFails(i, b)
        PROVE  \A t \in Tasks : StatusStep(t)
    <3>1. b.task \in Tasks
      BY DEF TypeOK, Rows
    <3>2. CASE Claim(b)
      BY <3>1, <3>2, <1>1 DEF Claim, Write, StatusStep, TypeOK
    <3>3. CASE KeepRow
      BY <3>3 DEF KeepRow, StatusStep
    <3>. QED  BY <2>2, <3>2, <3>3 DEF Launch, LaunchMissed, LaunchFails
  <2>3. ASSUME NEW b \in batch[i]  PROVE  ~Reject(i, b) /\ ~RejectFails(i, b)
    BY DEF CoreOnly, Reject, RejectFails
  <2>. QED  BY <1>3, <2>1, <2>2, <2>3 DEF Dispatch
<1>4. CASE Execution
  <2>1. PICK r \in runs : Return(r, "ok") \/ Return(r, "error") \/ Settle(r) \/ SettleFails(r)
    BY <1>4 DEF Execution
  <2>2. r.task \in Tasks /\ r.attempts \in Nat /\ r.attempts <= claims[r.task]
        /\ claims[r.task] \in Nat
    BY DEF TypeOK, Runs, Counted
  <2>3. Outcome(r) = "failed" => MayFail(r.task)
    BY <2>2 DEF Outcome, MayFail
  <2>4. CASE Return(r, "ok") \/ Return(r, "error")
    BY <2>4 DEF Return, rowVars, StatusStep
  <2>5. CASE Settle(r) \/ SettleFails(r)
    BY <2>5, <2>2, <2>3, <1>1, WriteStep DEF Settle, SettleFails
  <2>. QED  BY <2>1, <2>4, <2>5
<1>5. CASE Recording
  BY <1>5 DEF Recording, Record, RecordFails, rowVars, StatusStep
<1>6. ASSUME NEW i \in Instances, Recovery(i)  PROVE  \A t \in Tasks : StatusStep(t)
  <2>1. ASSUME NEW s \in scan[i], Recover(i, s) \/ RecoverFails(i, s)
        PROVE  \A t \in Tasks : StatusStep(t)
    <3>1. s.task \in Tasks /\ s.attempts \in Nat /\ s.attempts <= claims[s.task]
          /\ claims[s.task] \in Nat
      BY DEF TypeOK, Rows, Counted
    <3>2. Recovered(s) = "failed" => MayFail(s.task)
      BY <3>1 DEF Recovered, MayFail
    <3>. QED  BY <2>1, <3>1, <3>2, <1>1, WriteStep DEF Recover, RecoverFails
  <2>2. CASE Boot(i) \/ Reset(i) \/ Begin(i) \/ Scan(i)
    BY <2>2 DEF Boot, Reset, Begin, Scan, rowVars, StatusStep
  <2>. QED  BY <1>6, <2>1, <2>2 DEF Recovery
<1>7. ASSUME NEW i \in Instances, Sweeping(i)  PROVE  \A t \in Tasks : StatusStep(t)
  <2>1. ASSUME NEW u \in sweep[i], Sweep(i, u) \/ SweepFails(i, u)
        PROVE  \A t \in Tasks : StatusStep(t)
    <3>1. u \in Tasks /\ MayFail(u)
      BY DEF TypeOK, Swept, MayFail
    <3>. QED  BY <2>1, <3>1, <1>1, WriteStep DEF Sweep, SweepFails
  <2>2. CASE SweepQuery(i)
    BY <2>2 DEF SweepQuery, rowVars, StatusStep
  <2>. QED  BY <1>7, <2>1, <2>2 DEF Sweeping
<1>8. ASSUME NEW i \in Instances, Cluster(i)  PROVE  \A t \in Tasks : StatusStep(t)
  BY <1>8 DEF Cluster, Gain, Lose, Crash, rowVars, StatusStep
<1>. QED  BY <1>2, <1>3, <1>4, <1>5, <1>6, <1>7, <1>8, NoCalls DEF Next

----------------------------------------------------------------------------
(* Age and claims only grow.                                               *)

LEMMA Grows ==
    ASSUME Typed, [Next]_vars
    PROVE  /\ \A t \in Tasks : (old[t] => old'[t]) /\ claims'[t] >= claims[t]
           /\ \A i \in Instances : \A t \in sweep'[i] : t \in sweep[i] \/ old[t]
<1>. USE DEF Typed
<1>. DEFINE Kept == /\ \A t \in Tasks : (old[t] => old'[t]) /\ claims'[t] >= claims[t]
                    /\ \A i \in Instances : \A t \in sweep'[i] : t \in sweep[i] \/ old[t]
<1>0. \A t \in Tasks : claims[t] \in Nat
  BY DEF TypeOK
<1>1. (old' = old /\ claims' = claims /\ sweep' = sweep) => Kept
  BY <1>0
<1>2. ASSUME NEW t \in Tasks, Create(t) \/ Quiet(t) \/ Old(t) PROVE Kept
  BY <1>0, <1>2 DEF Create, Quiet, Old, TypeOK, loopVars
<1>3. ASSUME NEW i \in Instances, Dispatch(i)  PROVE  Kept
  <2>1. CASE Query(i)
    BY <1>1, <2>1 DEF Query, Fetch, rowVars
  <2>2. ASSUME NEW b \in batch[i],
               Launch(i, b) \/ LaunchMissed(i, b) \/ LaunchFails(i, b)
               \/ Reject(i, b) \/ RejectFails(i, b)
        PROVE  Kept
    <3>1. old' = old /\ sweep' = sweep
          /\ (claims' = claims \/ claims' = [claims EXCEPT ![b.task] = claims[b.task] + 1])
      BY <2>2 DEF Launch, LaunchMissed, LaunchFails, Reject, RejectFails, Take,
                  Claim, Unclaimed
    <3>2. b.task \in Tasks
      BY DEF TypeOK, Rows
    <3>. QED  BY <3>1, <3>2, <1>0 DEF TypeOK
  <2>. QED  BY <1>3, <2>1, <2>2 DEF Dispatch
<1>4. CASE Execution
  BY <1>1, <1>4 DEF Execution, Return, Settle, SettleFails, End, rowVars, loopVars
<1>5. CASE Recording
  BY <1>1, <1>5 DEF Recording, Record, RecordFails, rowVars, loopVars
<1>6. ASSUME NEW i \in Instances, Recovery(i)  PROVE  Kept
  BY <1>1, <1>6 DEF Recovery, Boot, Reset, Begin, Scan, Recover, RecoverFails,
                    NextScanned, rowVars, loopVars
<1>7. ASSUME NEW i \in Instances, Sweeping(i)  PROVE  Kept
  <2>1. CASE SweepQuery(i)
    BY <2>1, <1>0 DEF SweepQuery, rowVars, TypeOK
  <2>2. ASSUME NEW t \in sweep[i], Sweep(i, t) \/ SweepFails(i, t)  PROVE  Kept
    BY <2>2, <1>0 DEF Sweep, SweepFails, NextSwept, TypeOK
  <2>. QED  BY <1>7, <2>1, <2>2 DEF Sweeping
<1>8. ASSUME NEW i \in Instances, Cluster(i)  PROVE  Kept
  BY <1>0, <1>8 DEF Cluster, Gain, Lose, Crash, rowVars, loopVars, TypeOK
<1>9. CASE Plugin
  BY <1>1, <1>9 DEF Plugin, CallBegin, CallSave, rowVars, loopVars
<1>10. CASE UNCHANGED vars
  BY <1>1, <1>10 DEF vars, rowVars, loopVars
<1>. QED  BY <1>2, <1>3, <1>4, <1>5, <1>6, <1>7, <1>8, <1>9, <1>10 DEF Next

----------------------------------------------------------------------------
(* The theorems about core.                                                *)

CoreInv == Typed /\ Swept /\ GivenUp

LEMMA CoreInvariant == ASSUME CoreOnly  PROVE  Spec => []CoreInv
<1>1. Init => CoreInv
  BY InitTyped DEF Init, CoreInv, Swept, GivenUp
<1>2. CoreInv /\ [Next]_vars => CoreInv'
  <2>. SUFFICES ASSUME CoreInv, [Next]_vars  PROVE  CoreInv'
    OBVIOUS
  <2>1. Typed'
    BY StepTyped DEF CoreInv
  <2>2. Swept'
    <3>1. \A i \in Instances : \A t \in sweep'[i] : t \in Tasks
      BY <2>1 DEF Typed, TypeOK
    <3>. QED  BY <3>1, Grows DEF CoreInv, Swept
  <2>3. GivenUp'
    <3>. SUFFICES ASSUME NEW t \in Tasks, status'[t] = "failed"
                  PROVE  old'[t] \/ claims'[t] >= MaxAttempts
      BY DEF GivenUp
    <3>1. MayFail(t)
      <4>1. CASE UNCHANGED vars
        BY <4>1 DEF CoreInv, GivenUp, MayFail, vars, rowVars
      <4>2. CASE Next
        BY <4>2, CoreStep DEF CoreInv, StatusStep, GivenUp, MayFail
      <4>. QED  BY <4>1, <4>2
    <3>2. claims[t] \in Nat /\ claims'[t] \in Nat /\ MaxAttempts \in Nat
      BY <2>1 DEF CoreInv, Typed, TypeOK
    <3>. QED  BY <3>1, <3>2, Grows DEF CoreInv, MayFail
  <2>. QED  BY <2>1, <2>2, <2>3 DEF CoreInv
<1>. QED  BY <1>1, <1>2, PTL DEF Spec

\* Core fails a task only when its attempts are used or a day is over: no read
\* of an old row, by whichever instance, gives it up earlier.
THEOREM GivenUpForAReason == ASSUME CoreOnly  PROVE  Spec => []GivenUp
  BY CoreInvariant, PTL DEF CoreInv

\* A task that has ended is not touched again by any loop of any instance, with
\* however many leaders at a time.
THEOREM TerminalIsFinal == ASSUME CoreOnly  PROVE  Spec => TerminalStays
<1>1. CoreInv /\ [Next]_vars =>
          [\A t \in Tasks : status[t] \in Terminal => status'[t] = status[t]]_vars
  BY CoreStep DEF CoreInv, StatusStep, vars, rowVars
<1>. QED  BY <1>1, CoreInvariant, PTL DEF Spec, TerminalStays

----------------------------------------------------------------------------
(* One record per failure, whatever plugins ask for.  A task that has not  *)
(* ended has one record to come; a report waiting to be recorded uses it,  *)
(* and only an update by id of a task that has ended makes a new one.      *)

Waits(t) == {p \in reports : p.task = t}
Open(t)  == IF status[t] \in Terminal THEN 0 ELSE 1

RecordsFit(t) == failureRecords[t] + Cardinality(Waits(t)) + Open(t) <= 1 + overwritten[t]

Once == /\ IsFiniteSet(reports)
        /\ \A c \in calls : Allowed(c.seen, c.to)
        /\ \A t \in Tasks : RecordsFit(t)

\* A step leaves t room for n more records.
Leaves(t, n) == Open(t)' + overwritten[t] + n <= Open(t) + overwritten'[t]
If(b) == IF b THEN 1 ELSE 0

NoneAdded == /\ reports' \subseteq reports /\ UNCHANGED failureRecords
             /\ \A t \in Tasks : Leaves(t, 0)

OneAdded(p) == /\ reports' \subseteq reports \cup {p} /\ UNCHANGED failureRecords
               /\ \A t \in Tasks : Leaves(t, If(t = p.task))

OneCounted(u) == /\ reports' = reports
                 /\ failureRecords' = [failureRecords EXCEPT ![u] = @ + 1]
                 /\ \A t \in Tasks : Leaves(t, If(t = u))

OneRecorded == \E p \in reports : Record(p)

Adds == \/ NoneAdded \/ OneRecorded
        \/ \E p \in Reports : OneAdded(p)
        \/ \E u \in Tasks : OneCounted(u)

\* A step that writes no status, or not over one that has ended a task.
LEMMA KeptRow ==
    ASSUME TypeOK, UNCHANGED <<status, overwritten>>
    PROVE  \A t \in Tasks : Leaves(t, 0)
  BY DEF Leaves, Open, TypeOK

LEMMA IfWritten ==
    ASSUME TypeOK, NEW u \in Tasks, NEW from, NEW st, from \cap Terminal = {},
           WriteIf(u, from, st) \/ WriteFails(u, from, st), UNCHANGED overwritten
    PROVE  \A t \in Tasks : /\ Leaves(t, 0)
                            /\ status[u] \in from /\ WriteIf(u, from, st) /\ st = "failed"
                                  => Leaves(t, If(t = u))
<1>. SUFFICES ASSUME NEW t \in Tasks
              PROVE  /\ Leaves(t, 0)
                     /\ status[u] \in from /\ WriteIf(u, from, st) /\ st = "failed"
                           => Leaves(t, If(t = u))
  OBVIOUS
<1>1. overwritten[t] \in Nat /\ overwritten'[t] = overwritten[t] /\ "failed" \in Terminal
  BY DEF TypeOK, Terminal
<1>2. \/ status'[t] = status[t] /\ (t = u => ~(status[u] \in from /\ WriteIf(u, from, st)) \/ status'[u] = st)
      \/ t = u /\ status[t] \notin Terminal /\ status'[t] = st
  BY DEF WriteIf, WriteFails, Write, KeepRow, TypeOK
<1>3. status[u] \in from => status[u] \notin Terminal
  OBVIOUS
<1>. QED  BY <1>1, <1>2, <1>3 DEF Leaves, Open, If

\* A conditional update that reports the task it fails.
LEMMA ReportStep ==
    ASSUME TypeOK, NEW p \in Reports, NEW from, NEW st, from \cap Terminal = {},
           WriteIf(p.task, from, st), UNCHANGED <<failureRecords, overwritten>>,
           ReportIf(status[p.task] \in from /\ st = "failed", p)
    PROVE  NoneAdded \/ OneAdded(p)
<1>1. p.task \in Tasks
  BY DEF Reports
<1>2. CASE status[p.task] \in from /\ st = "failed"
  BY <1>1, <1>2, IfWritten DEF ReportIf, OneAdded
<1>3. CASE ~(status[p.task] \in from /\ st = "failed")
  BY <1>1, <1>3, IfWritten DEF ReportIf, NoneAdded
<1>. QED  BY <1>2, <1>3

\* An update by id fails a task that has not ended, or is counted.
LEMMA ByIdLeaves ==
    ASSUME TypeOK, NEW u \in Tasks, NEW st0, NEW st \in Terminal, WriteById(u, st0, st),
           status[u] \in Terminal => status[u] # st0
    PROVE  \A t \in Tasks : Leaves(t, If(t = u))
<1>1. \A t \in Tasks : overwritten[t] \in Nat
  BY DEF TypeOK
<1>2. \A t \in Tasks : /\ t # u => status'[t] = status[t] /\ overwritten'[t] = overwritten[t]
                       /\ t = u => status'[t] = st
                       /\ t = u /\ status[t] \in Terminal => overwritten'[t] = overwritten[t] + 1
                       /\ t = u /\ status[t] \notin Terminal => overwritten'[t] = overwritten[t]
  BY DEF WriteById, Write, TypeOK
<1>. QED  BY <1>1, <1>2 DEF Leaves, Open, If

LEMMA SaveStep ==
    ASSUME TypeOK, Once, NEW c \in calls, CallSave(c)  PROVE  Adds
<1>. DEFINE u  == c.task
            st == IF c.to = "progress" THEN status[u] ELSE c.to
<1>1. /\ u \in Tasks /\ c.seen \in Statuses /\ Allowed(c.seen, c.to) /\ reports' = reports
      /\ WriteById(u, c.seen, st)
      /\ failureRecords' = [failureRecords EXCEPT
              ![u] = IF c.seen # "failed" /\ st = "failed" THEN @ + 1 ELSE @]
  BY DEF CallSave, Once, TypeOK, Calls
<1>2. "failed" \in Terminal /\ "progress" \notin Terminal
      /\ \A x \in Terminal : Allowed(x, c.to) => c.to \in {"progress", x}
  BY DEF Terminal, Allowed, Transitions
<1>3. status[u] = c.seen /\ c.seen \in Terminal => st = c.seen
  BY <1>1, <1>2
<1>. HIDE DEF st, u
<1>4. CASE c.seen # "failed" /\ st = "failed"
  <2>1. status[u] \in Terminal => status[u] # c.seen
    BY <1>3, <1>4
  <2>2. \A t \in Tasks : Leaves(t, If(t = u))
    BY <1>1, <1>2, <1>4, <2>1, ByIdLeaves
  <2>. QED  BY <1>1, <1>4, <2>2 DEF Adds, OneCounted
<1>5. CASE ~(c.seen # "failed" /\ st = "failed")
  <2>1. \A t \in Tasks : Leaves(t, 0)
    <3>1. \A t \in Tasks : overwritten[t] \in Nat
      BY DEF TypeOK
    <3>2. \A t \in Tasks :
             /\ t # u => status'[t] = status[t] /\ overwritten'[t] = overwritten[t]
             /\ t = u => status'[t] = st
             /\ t = u => overwritten'[t] = IF status[t] \in Terminal \ {c.seen}
                                         THEN overwritten[t] + 1 ELSE overwritten[t]
      BY <1>1 DEF WriteById, Write, TypeOK
    <3>. QED  BY <1>3, <3>1, <3>2 DEF Leaves, Open
  <2>2. failureRecords' = failureRecords
    BY <1>1, <1>5 DEF TypeOK
  <2>. QED  BY <1>1, <2>1, <2>2 DEF Adds, NoneAdded
<1>. QED  BY <1>4, <1>5

\* What a step does to the records of a task.
LEMMA ReportsStep == ASSUME Typed, Once, [Next]_vars  PROVE  Adds
<1>. USE DEF Typed
<1>1. {"processing"} \cap Terminal = {} /\ InFlight \cap Terminal = {}
      /\ Waiting \cap Terminal = {} /\ "new" \notin Terminal
      /\ "pending" \notin Terminal /\ "processing" \notin Terminal
  BY DEF Terminal, InFlight, Waiting
<1>2. ASSUME NEW u \in Tasks, Create(u) \/ Quiet(u) \/ Old(u)  PROVE  NoneAdded
  <2>1. CASE Create(u)
    <3>1. \A t \in Tasks : overwritten[t] \in Nat /\ overwritten'[t] = overwritten[t]
            /\ (status'[t] = status[t] \/ status[t] \notin Terminal)
      BY <2>1, <1>1 DEF Create, Write, TypeOK
    <3>. QED  BY <2>1, <3>1 DEF Create, NoneAdded, Leaves, Open
  <2>2. CASE Quiet(u) \/ Old(u)
    BY <2>2, KeptRow DEF Quiet, Old, NoneAdded
  <2>. QED  BY <1>2, <2>1, <2>2
<1>3. ASSUME NEW i \in Instances, Dispatch(i)  PROVE  Adds
  <2>1. CASE Query(i)
    BY <2>1, KeptRow DEF Query, Fetch, rowVars, NoneAdded, Adds
  <2>2. ASSUME NEW b \in batch[i], Launch(i, b) \/ LaunchMissed(i, b) \/ LaunchFails(i, b)
        PROVE  NoneAdded
    <3>1. b.task \in Tasks /\ UNCHANGED <<reports, failureRecords, overwritten>>
      BY <2>2 DEF TypeOK, Rows, Launch, LaunchMissed, LaunchFails, Take
    <3>2. CASE Claim(b)
      <4>1. \A t \in Tasks : overwritten[t] \in Nat /\ overwritten'[t] = overwritten[t]
              /\ (status'[t] = status[t] \/ status[t] \notin Terminal)
        BY <3>1, <3>2, <1>1 DEF Claim, Write, TypeOK
      <4>. QED  BY <3>1, <4>1 DEF NoneAdded, Leaves, Open
    <3>3. CASE KeepRow
      BY <3>1, <3>3, KeptRow DEF KeepRow, NoneAdded
    <3>. QED  BY <2>2, <3>2, <3>3 DEF Launch, LaunchMissed, LaunchFails
  <2>3. ASSUME NEW b \in batch[i], Reject(i, b) \/ RejectFails(i, b)  PROVE  Adds
    <3>. DEFINE p == Report(i, "dispatch", b.task, 0)
    <3>1. p \in Reports /\ p.task = b.task /\ b.task \in Tasks
      BY DEF TypeOK, Rows, Report, Reports
    <3>2. /\ UNCHANGED failureRecords /\ "failed" \in Terminal
          /\ \/ WriteById(b.task, "pending", "failed") /\ reports' \subseteq reports \cup {p}
             \/ reports' = reports /\ UNCHANGED <<status, overwritten>>
      BY <2>3 DEF Reject, RejectFails, Take, KeepRow, Terminal
    <3>. HIDE DEF p
    <3>3. CASE WriteById(b.task, "pending", "failed") /\ reports' \subseteq reports \cup {p}
      <4>1. \A t \in Tasks : Leaves(t, If(t = b.task))
        BY <3>1, <3>2, <3>3, <1>1, ByIdLeaves
      <4>. QED  BY <3>1, <3>2, <3>3, <4>1 DEF OneAdded, Adds
    <3>4. CASE reports' = reports /\ UNCHANGED <<status, overwritten>>
      BY <3>2, <3>4, KeptRow DEF NoneAdded, Adds
    <3>. QED  BY <3>2, <3>3, <3>4
  <2>. QED  BY <1>3, <2>1, <2>2, <2>3 DEF Dispatch, Adds
<1>4. CASE Execution
  <2>1. PICK r \in runs : Return(r, "ok") \/ Return(r, "error") \/ Settle(r) \/ SettleFails(r)
    BY <1>4 DEF Execution
  <2>2. CASE Settle(r)
    <3>. DEFINE p == Report(r.inst, "run", r.task, r.number)
    <3>1. p \in Reports /\ p.task = r.task
      BY DEF TypeOK, Runs, Report, Reports
    <3>2. /\ WriteIf(p.task, {"processing"}, Outcome(r))
          /\ ReportIf(status[p.task] \in {"processing"} /\ Outcome(r) = "failed", p)
          /\ UNCHANGED <<failureRecords, overwritten>>
      BY <2>2, <3>1 DEF Settle, End
    <3>. HIDE DEF p
    <3>. QED  BY <3>1, <3>2, <1>1, ReportStep DEF Adds
  <2>3. CASE SettleFails(r)
    <3>1. /\ r.task \in Tasks /\ WriteFails(r.task, {"processing"}, Outcome(r))
          /\ UNCHANGED <<reports, failureRecords, overwritten>>
      BY <2>3 DEF TypeOK, Runs, SettleFails, End
    <3>. QED  BY <3>1, <1>1, IfWritten DEF NoneAdded, Adds
  <2>. QED  BY <2>1, <2>2, <2>3, KeptRow DEF Return, rowVars, NoneAdded, Adds
<1>5. CASE Recording
  BY <1>5, KeptRow DEF Recording, RecordFails, rowVars, NoneAdded, OneRecorded, Adds
<1>6. ASSUME NEW i \in Instances, Recovery(i)  PROVE  Adds
  <2>1. ASSUME NEW s \in scan[i], Recover(i, s)  PROVE  Adds
    <3>. DEFINE p == Report(i, "recover", s.task, 0)
    <3>1. p \in Reports /\ p.task = s.task
      BY DEF TypeOK, Rows, Report, Reports
    <3>2. /\ WriteIf(p.task, {"processing"}, Recovered(s))
          /\ ReportIf(status[p.task] \in {"processing"} /\ Recovered(s) = "failed", p)
          /\ UNCHANGED <<failureRecords, overwritten>>
      BY <2>1, <3>1 DEF Recover, NextScanned
    <3>. HIDE DEF p
    <3>. QED  BY <3>1, <3>2, <1>1, ReportStep DEF Adds
  <2>2. ASSUME NEW s \in scan[i], RecoverFails(i, s)  PROVE  Adds
    <3>1. /\ s.task \in Tasks /\ WriteFails(s.task, {"processing"}, Recovered(s))
          /\ UNCHANGED <<reports, failureRecords, overwritten>>
      BY <2>2 DEF TypeOK, Rows, RecoverFails, NextScanned
    <3>. QED  BY <3>1, <1>1, IfWritten DEF NoneAdded, Adds
  <2>. QED  BY <1>6, <2>1, <2>2, KeptRow
            DEF Recovery, Boot, Reset, Begin, Scan, rowVars, NoneAdded, Adds
<1>7. ASSUME NEW i \in Instances, Sweeping(i)  PROVE  Adds
  <2>1. ASSUME NEW u \in sweep[i], Sweep(i, u)  PROVE  Adds
    <3>. DEFINE p == Report(i, "sweep", u, 0)
    <3>1. p \in Reports /\ p.task = u
      BY DEF TypeOK, Report, Reports
    <3>2. /\ WriteIf(p.task, InFlight, "failed")
          /\ ReportIf(status[p.task] \in InFlight /\ "failed" = "failed", p)
          /\ UNCHANGED <<failureRecords, overwritten>>
      BY <2>1, <3>1 DEF Sweep, NextSwept
    <3>. HIDE DEF p
    <3>. QED  BY <3>1, <3>2, <1>1, ReportStep DEF Adds
  <2>2. ASSUME NEW u \in sweep[i], SweepFails(i, u)  PROVE  Adds
    <3>1. /\ u \in Tasks /\ WriteFails(u, InFlight, "failed")
          /\ UNCHANGED <<reports, failureRecords, overwritten>>
      BY <2>2 DEF TypeOK, SweepFails, NextSwept
    <3>. QED  BY <3>1, <1>1, IfWritten DEF NoneAdded, Adds
  <2>. QED  BY <1>7, <2>1, <2>2, KeptRow DEF Sweeping, SweepQuery, rowVars, NoneAdded, Adds
<1>8. ASSUME NEW i \in Instances, Cluster(i)  PROVE  Adds
  BY <1>8, KeptRow DEF Cluster, Gain, Lose, Crash, rowVars, NoneAdded, Adds
<1>9. CASE UNCHANGED vars
  BY <1>9, KeptRow DEF vars, rowVars, NoneAdded, Adds
<1>10. CASE Plugin
  BY <1>10, SaveStep, KeptRow DEF Plugin, CallBegin, rowVars, NoneAdded, Adds
<1>. QED  BY <1>2, <1>3, <1>4, <1>5, <1>6, <1>7, <1>8, <1>9, <1>10 DEF Next, Adds

\* Reports of a task that come and go.
LEMMA WaitsCount ==
    ASSUME IsFiniteSet(reports)
    PROVE  /\ \A t : Cardinality(Waits(t)) \in Nat
           /\ reports' \subseteq reports => IsFiniteSet(reports') /\
                 \A t : Cardinality(Waits(t)') \in Nat /\ Cardinality(Waits(t)') <= Cardinality(Waits(t))
           /\ \A p : reports' \subseteq reports \cup {p} => IsFiniteSet(reports') /\
                 \A t : /\ Cardinality(Waits(t)') \in Nat
                       /\ Cardinality(Waits(t)') <= Cardinality(Waits(t)) + If(t = p.task)
           /\ \A p \in reports : reports' = reports \ {p} =>
                 Cardinality(Waits(p.task)') + 1 = Cardinality(Waits(p.task))
<1>1. \A t : IsFiniteSet(Waits(t)) /\ Cardinality(Waits(t)) \in Nat
  <2>. TAKE t
  <2>1. Waits(t) \subseteq reports
    BY DEF Waits
  <2>. QED  BY <2>1, FS_Subset, FS_CardinalityType
<1>2. ASSUME reports' \subseteq reports
      PROVE  IsFiniteSet(reports') /\
             \A t : Cardinality(Waits(t)') \in Nat /\ Cardinality(Waits(t)') <= Cardinality(Waits(t))
  <2>1. \A t : Waits(t)' \subseteq Waits(t)
    BY <1>2 DEF Waits
  <2>. QED  BY <1>1, <1>2, <2>1, FS_Subset, FS_CardinalityType
<1>3. ASSUME NEW p, reports' \subseteq reports \cup {p}
      PROVE  IsFiniteSet(reports') /\
             \A t : /\ Cardinality(Waits(t)') \in Nat
                   /\ Cardinality(Waits(t)') <= Cardinality(Waits(t)) + If(t = p.task)
  <2>1. IsFiniteSet(reports')
    BY <1>3, FS_AddElement, FS_Subset
  <2>2. ASSUME NEW t
        PROVE /\ Cardinality(Waits(t)') \in Nat
              /\ Cardinality(Waits(t)') <= Cardinality(Waits(t)) + If(t = p.task)
    <3>1. CASE t = p.task
      <4>1. Waits(t)' \subseteq Waits(t) \cup {p}
        BY <1>3 DEF Waits
      <4>2. /\ IsFiniteSet(Waits(t) \cup {p})
            /\ Cardinality(Waits(t) \cup {p}) \in {Cardinality(Waits(t)), Cardinality(Waits(t)) + 1}
        BY <1>1, FS_AddElement
      <4>3. Cardinality(Waits(t)') \in Nat /\ Cardinality(Waits(t)') <= Cardinality(Waits(t) \cup {p})
        BY <4>1, <4>2, FS_Subset, FS_CardinalityType
      <4>. QED  BY <1>1, <3>1, <4>2, <4>3 DEF If
    <3>2. CASE t # p.task
      <4>1. Waits(t)' \subseteq Waits(t)
        BY <1>3, <3>2 DEF Waits
      <4>2. Cardinality(Waits(t)') \in Nat /\ Cardinality(Waits(t)') <= Cardinality(Waits(t))
        BY <1>1, <4>1, FS_Subset, FS_CardinalityType
      <4>. QED  BY <1>1, <3>2, <4>2 DEF If
    <3>. QED  BY <3>1, <3>2
  <2>. QED  BY <2>1, <2>2
<1>4. ASSUME NEW p \in reports, reports' = reports \ {p}
      PROVE  Cardinality(Waits(p.task)') + 1 = Cardinality(Waits(p.task))
  <2>1. Waits(p.task)' = Waits(p.task) \ {p} /\ p \in Waits(p.task)
    BY <1>4 DEF Waits
  <2>2. Cardinality(Waits(p.task) \ {p}) = Cardinality(Waits(p.task)) - 1
    BY <2>1, <1>1, FS_RemoveElement
  <2>. QED  BY <1>1, <2>1, <2>2
<1>. QED  BY <1>1, <1>2, <1>3, <1>4

LEMMA OnceStep == ASSUME Typed, Once, [Next]_vars  PROVE  Once'
<1>. USE DEF Typed
<1>0. IsFiniteSet(reports) /\ Typed'
  BY StepTyped DEF Once
<1>1. \A c \in calls' : Allowed(c.seen, c.to)
  <2>1. CASE \E t \in Tasks, to \in Asked : CallBegin(t, to)
    <3>1. PICK t \in Tasks, to \in Asked : CallBegin(t, to)
      BY <2>1
    <3>2. \A c \in calls' : c \in calls \/ (c.seen = status[t] /\ c.to = to)
      BY <3>1 DEF CallBegin
    <3>. QED  BY <3>1, <3>2 DEF CallBegin, Once
  <2>2. CASE ~ \E t \in Tasks, to \in Asked : CallBegin(t, to)
    <3>1. ASSUME NEW i \in Instances, Dispatch(i)  PROVE  calls' = calls
      BY <3>1 DEF Dispatch, Query, Fetch, Take, Launch, LaunchMissed, LaunchFails, Reject,
                  RejectFails
    <3>2. ASSUME NEW i \in Instances, Recovery(i) \/ Sweeping(i) \/ Cluster(i)
          PROVE  calls' = calls
      BY <3>2 DEF Recovery, Boot, Reset, Begin, Scan, Recover, RecoverFails, NextScanned,
                  Sweeping, SweepQuery, Sweep, SweepFails, NextSwept, Cluster, Gain, Lose,
                  Crash
    <3>3. Execution \/ Recording => calls' = calls
      BY DEF Execution, Return, Settle, SettleFails, End, Recording, Record, RecordFails
    <3>4. ASSUME NEW t \in Tasks, Create(t) \/ Quiet(t) \/ Old(t)  PROVE  calls' = calls
      BY <3>4 DEF Create, Quiet, Old
    <3>5. Plugin => calls' \subseteq calls
      BY <2>2 DEF Plugin, CallSave
    <3>6. UNCHANGED vars => calls' = calls
      BY DEF vars
    <3>7. calls' \subseteq calls
      BY <3>1, <3>2, <3>3, <3>4, <3>5, <3>6 DEF Next
    <3>. QED  BY <3>7 DEF Once
  <2>. QED  BY <2>1, <2>2
<1>2. ASSUME NEW t \in Tasks
      PROVE  /\ failureRecords[t] \in Nat /\ overwritten[t] \in Nat /\ overwritten'[t] \in Nat
             /\ Open(t) \in Nat /\ Open(t)' \in Nat /\ RecordsFit(t)
  BY <1>0 DEF TypeOK, Open, Once
<1>3. CASE NoneAdded
  <2>1. ASSUME NEW t \in Tasks  PROVE  RecordsFit(t)'
    BY <1>0, <1>2, <1>3, WaitsCount DEF NoneAdded, Leaves, RecordsFit
  <2>. QED  BY <1>0, <1>1, <1>3, <2>1, WaitsCount DEF NoneAdded, Once
<1>4. ASSUME NEW p \in Reports, OneAdded(p)  PROVE  Once'
  <2>1. ASSUME NEW t \in Tasks  PROVE  RecordsFit(t)'
    <3>1. /\ Cardinality(Waits(t)) \in Nat /\ Cardinality(Waits(t)') \in Nat
          /\ Cardinality(Waits(t)') <= Cardinality(Waits(t)) + If(t = p.task)
      BY <1>0, <1>4, WaitsCount DEF OneAdded
    <3>2. If(t = p.task) \in Nat /\ failureRecords' = failureRecords /\ Leaves(t, If(t = p.task))
      BY <1>4 DEF If, OneAdded
    <3>. QED  BY <1>2, <3>1, <3>2 DEF Leaves, RecordsFit
  <2>. QED  BY <1>0, <1>1, <1>4, <2>1, WaitsCount DEF OneAdded, Once
<1>5. ASSUME NEW u \in Tasks, OneCounted(u)  PROVE  Once'
  <2>1. ASSUME NEW t \in Tasks  PROVE  RecordsFit(t)'
    <3>1. Cardinality(Waits(t)) \in Nat /\ Waits(t)' = Waits(t)
      <4>1. Cardinality(Waits(t)) \in Nat
        BY <1>0, WaitsCount
      <4>2. Waits(t)' = Waits(t)
        BY <1>5 DEF OneCounted, Waits
      <4>. QED  BY <4>1, <4>2
    <3>2. failureRecords'[t] = failureRecords[t] + If(t = u) /\ Leaves(t, If(t = u))
          /\ If(t = u) \in Nat
      BY <1>2, <1>5 DEF OneCounted, If, TypeOK
    <3>. QED  BY <1>2, <3>1, <3>2 DEF Leaves, RecordsFit
  <2>. QED  BY <1>0, <1>1, <1>5, <2>1 DEF OneCounted, Once
<1>6. ASSUME NEW p \in reports, Record(p)  PROVE  Once'
  <2>1. /\ reports' = reports \ {p} /\ p.task \in Tasks /\ UNCHANGED <<status, overwritten>>
        /\ \A t \in Tasks : failureRecords'[t] \in {failureRecords[t], failureRecords[t] + If(t = p.task)}
    BY <1>2, <1>6 DEF Record, rowVars, TypeOK, Reports, If
  <2>2. ASSUME NEW t \in Tasks  PROVE  RecordsFit(t)'
    <3>1. /\ Cardinality(Waits(t)) \in Nat /\ Cardinality(Waits(t)') \in Nat
          /\ Cardinality(Waits(t)') + If(t = p.task) <= Cardinality(Waits(t))
      <4>1. reports' \subseteq reports
        BY <2>1
      <4>. QED  BY <1>0, <2>1, <4>1, WaitsCount DEF If
    <3>2. Open(t)' = Open(t) /\ overwritten'[t] = overwritten[t] /\ If(t = p.task) \in Nat
      BY <2>1 DEF Open, If
    <3>. QED  BY <1>2, <2>1, <3>1, <3>2 DEF RecordsFit
  <2>3. IsFiniteSet(reports')
    BY <1>0, <2>1, WaitsCount
  <2>. QED  BY <1>1, <2>2, <2>3 DEF Once
<1>. QED  BY <1>3, <1>4, <1>5, <1>6, ReportsStep DEF Adds, OneRecorded

\* The loops and executions of all instances and the calls of plugins together
\* record a failure at most once, and once more at most for each update by id
\* that went over a task which had ended in between.
THEOREM RecordedOnce == Spec => []FailureRecordedOnce
<1>1. Init => Once
  <2>. SUFFICES ASSUME Init  PROVE  Once
    OBVIOUS
  <2>1. reports = {} /\ calls = {} /\ \A t \in Tasks : Waits(t) = {} /\ Open(t) \in {0, 1}
    BY DEF Init, Waits, Open
  <2>2. Cardinality({}) = 0 /\ IsFiniteSet({})
    BY FS_EmptySet
  <2>3. ASSUME NEW t \in Tasks  PROVE  RecordsFit(t)
    <3>1. failureRecords[t] = 0 /\ overwritten[t] = 0 /\ Cardinality(Waits(t)) = 0
          /\ Open(t) \in {0, 1}
      BY <2>1, <2>2 DEF Init
    <3>. QED  BY <3>1, SMT DEF RecordsFit
  <2>. QED  BY <2>1, <2>2, <2>3 DEF Once
<1>2. Typed /\ Once /\ [Next]_vars => Typed' /\ Once'
  BY OnceStep, StepTyped
<1>3. Typed /\ Once => FailureRecordedOnce
  <2>. SUFFICES ASSUME Typed, Once, NEW t \in Tasks
                PROVE  failureRecords[t] <= 1 + overwritten[t]
    BY DEF FailureRecordedOnce
  <2>1. Cardinality(Waits(t)) \in Nat /\ Open(t) \in Nat /\ failureRecords[t] \in Nat
        /\ overwritten[t] \in Nat
    BY WaitsCount DEF Once, Open, Typed, TypeOK
  <2>. QED  BY <2>1 DEF Once, RecordsFit
<1>. QED  BY <1>1, <1>2, <1>3, InitTyped, PTL DEF Spec
----------------------------------------------------------------------------
(* The capacity of an instance.                                            *)

\* What an instance executes and what it has read to launch fit its capacity
\* together.
Room(i) ==
    /\ IsFiniteSet(Inflight(i)) /\ IsFiniteSet(batch[i])
    /\ Cardinality(Inflight(i)) + Cardinality(batch[i]) <= Cap

CapInv == \A i \in Instances : Room(i)

\* Executions and batches that only shrink leave room.
LEMMA Shrinks ==
    ASSUME NEW i \in Instances, Room(i),
           Inflight(i)' \subseteq Inflight(i), batch'[i] \subseteq batch[i]
    PROVE  Room(i)'
<1>1. /\ IsFiniteSet(Inflight(i)') /\ Cardinality(Inflight(i)') <= Cardinality(Inflight(i))
      /\ IsFiniteSet(batch'[i]) /\ Cardinality(batch'[i]) <= Cardinality(batch[i])
  BY FS_Subset DEF Room
<1>2. /\ Cardinality(Inflight(i)) \in Nat /\ Cardinality(Inflight(i)') \in Nat
      /\ Cardinality(batch[i]) \in Nat /\ Cardinality(batch'[i]) \in Nat
  BY <1>1, FS_CardinalityType DEF Room
<1>. QED  BY <1>1, <1>2, SMT DEF Room

\* An execution leaves the inflight set with its run and its report.
LEMMA RunsShrink ==
    ASSUME runs' \subseteq runs, \A p \in reports' : p \in reports \/ p.loop # "run"
    PROVE  \A j \in Instances : Inflight(j)' \subseteq Inflight(j)
  BY DEF Inflight

\* Settling swaps a run for its report at most.
LEMMA SettleShrinks ==
    ASSUME TypeOK, NEW r \in runs, Settle(r) \/ SettleFails(r)
    PROVE  \A j \in Instances : Inflight(j)' \subseteq Inflight(j)
<1> DEFINE p == Report(r.inst, "run", r.task, r.number)
<1>1. runs' \subseteq runs /\ reports' \subseteq reports \cup {p}
  BY DEF Settle, SettleFails, End, ReportIf
<1>2. p.inst = r.inst /\ p.task = r.task /\ p.number = r.number
  BY DEF Report
<1> HIDE DEF p
<1>. QED  BY <1>1, <1>2 DEF Inflight

\* A run that returns counts as before.
LEMMA ReturnKeeps ==
    ASSUME TypeOK, NEW r \in runs, NEW o \in {"ok", "error"}, Return(r, o)
    PROVE  \A j \in Instances : Inflight(j)' \subseteq Inflight(j)
<1> DEFINE q == [r EXCEPT !.phase = o]
<1>1. runs' = (runs \ {r}) \cup {q} /\ reports' = reports
  BY DEF Return
<1>2. q.inst = r.inst /\ q.task = r.task /\ q.number = r.number
  BY SMT DEF TypeOK, Runs
<1> HIDE DEF q
<1>. QED  BY <1>1, <1>2 DEF Inflight

\* The steps that take nothing up.
LEMMA OthersShrink ==
    ASSUME TypeOK, [Next]_vars,
           ~ \E i \in Instances : Query(i) \/ (\E b \in batch[i] : Launch(i, b))
    PROVE  \A j \in Instances : Inflight(j)' \subseteq Inflight(j) /\ batch'[j] \subseteq batch[j]
<1>. USE DEF TypeOK
<1>1. ASSUME runs' \subseteq runs, \A p \in reports' : p \in reports \/ p.loop # "run",
             \A j \in Instances : batch'[j] \subseteq batch[j]
      PROVE  \A j \in Instances : Inflight(j)' \subseteq Inflight(j) /\ batch'[j] \subseteq batch[j]
  BY <1>1, RunsShrink
<1>2. CASE \/ UNCHANGED vars \/ Plugin \/ Recording
           \/ \E t \in Tasks : Create(t) \/ Quiet(t) \/ Old(t)
           \/ \E i \in Instances : Gain(i) \/ Lose(i) \/ Boot(i) \/ Reset(i) \/ Begin(i) \/ Scan(i)
                                     \/ SweepQuery(i)
  <2>1. runs' = runs /\ batch' = batch /\ reports' \subseteq reports
    BY <1>2 DEF vars, loopVars, Plugin, CallBegin, CallSave, Recording, Record, RecordFails, Create, Quiet, Old,
             Gain, Lose, Boot, Reset, Begin, Scan, SweepQuery
  <2>. QED  BY <1>1, <2>1
<1>3. ASSUME NEW i \in Instances,
             \/ \E s \in scan[i] : Recover(i, s) \/ RecoverFails(i, s)
             \/ \E t \in sweep[i] : Sweep(i, t) \/ SweepFails(i, t)
      PROVE  runs' = runs /\ batch' = batch
             /\ \A p \in reports' : p \in reports \/ p.loop # "run"
  BY <1>3 DEF Recover, RecoverFails, NextScanned, Sweep, SweepFails, NextSwept, ReportIf, Report
<1>4. ASSUME NEW i \in Instances, NEW b \in batch[i],
             LaunchMissed(i, b) \/ LaunchFails(i, b) \/ Reject(i, b) \/ RejectFails(i, b)
      PROVE  /\ runs' = runs /\ \A j \in Instances : batch'[j] \subseteq batch[j]
             /\ \A p \in reports' : p \in reports \/ p.loop # "run"
  BY <1>4 DEF LaunchMissed, LaunchFails, Reject, RejectFails, Take, Unclaimed, Report
<1>5. ASSUME NEW i \in Instances, Crash(i)
      PROVE  /\ runs' \subseteq runs /\ reports' \subseteq reports
             /\ \A j \in Instances : batch'[j] \subseteq batch[j]
  BY <1>5 DEF Crash
<1>6. ASSUME NEW r \in runs, Settle(r) \/ SettleFails(r) \/ Return(r, "ok") \/ Return(r, "error")
      PROVE  \A j \in Instances : Inflight(j)' \subseteq Inflight(j) /\ batch'[j] \subseteq batch[j]
  <2>1. batch' = batch
    BY <1>6 DEF Settle, SettleFails, End, Return, loopVars
  <2>. QED  BY <1>6, <2>1, SettleShrinks, ReturnKeeps
<1>7. CASE \E i \in Instances : Dispatch(i)
  BY <1>1, <1>4, <1>7 DEF Dispatch
<1>8. CASE \E i \in Instances : Recovery(i) \/ Sweeping(i) \/ Cluster(i)
  BY <1>1, <1>2, <1>3, <1>5, <1>8 DEF Recovery, Sweeping, Cluster
<1>9. CASE Execution
  BY <1>6, <1>9 DEF Execution
<1>. QED  BY <1>2, <1>7, <1>8, <1>9 DEF Next

\* A query reads no more tasks than there are free slots.
LEMMA QueryFits ==
    ASSUME IsFiniteSet(Tasks), TypeOK, CapInv, NEW i \in Instances, Query(i)
    PROVE  CapInv'
<1>. USE DEF TypeOK, CapInv
<1>1. UNCHANGED <<runs, reports>> /\ batch[i] = {}
  BY DEF Query, Fetch
<1>2. PICK chosen \in SUBSET {t \in Tasks : status[t] \in Waiting} :
        /\ Cardinality(chosen) = Minimum(Cap - Cardinality(Inflight(i)),
                                         Cardinality({t \in Tasks : status[t] \in Waiting}))
        /\ batch' = [batch EXCEPT ![i] = {Row(t) : t \in chosen}]
  BY DEF Query, Fetch
<1>3. IsFiniteSet(chosen) /\ IsFiniteSet({t \in Tasks : status[t] \in Waiting})
  BY FS_Subset
<1>4. /\ Cardinality(chosen) \in Nat /\ Cardinality(Inflight(i)) \in Nat
      /\ Cardinality({t \in Tasks : status[t] \in Waiting}) \in Nat
  BY <1>3, FS_CardinalityType DEF Room
<1>5. Cardinality(Inflight(i)) + Cardinality(chosen) <= Cap
  BY <1>2, <1>4, SMT DEF Minimum, Query
<1>6. IsFiniteSet({Row(t) : t \in chosen}) /\ Cardinality({Row(t) : t \in chosen}) <= Cardinality(chosen)
  <2>1. [t \in chosen |-> Row(t)] \in Surjection(chosen, {Row(t) : t \in chosen})
    BY DEF Surjection
  <2>. QED  BY <1>3, <2>1, FS_Surjection
<1>7. Room(i)'
  <2>1. Inflight(i)' = Inflight(i) /\ batch'[i] = {Row(t) : t \in chosen}
    BY <1>1, <1>2 DEF Inflight
  <2>2. Cardinality(batch'[i]) \in Nat
    BY <1>6, <2>1, FS_CardinalityType
  <2>3. Cardinality(Inflight(i)) + Cardinality(batch'[i]) <= Cap
    BY <1>4, <1>5, <1>6, <2>1, <2>2, SMT
  <2>. QED  BY <1>6, <2>1, <2>3 DEF Room
<1>8. ASSUME NEW j \in Instances, j # i PROVE Room(j)'
  BY <1>1, <1>2, <1>8 DEF Room, Inflight
<1>. QED  BY <1>7, <1>8

\* A launch moves a task from the batch to the executions.
LEMMA LaunchFits ==
    ASSUME TypeOK, CapInv, NEW i \in Instances, NEW b \in batch[i], Launch(i, b)
    PROVE  CapInv'
<1> DEFINE r == [task |-> b.task, attempts |-> b.attempts + 1, number |-> claims[b.task] + 1,
                 inst |-> i, phase |-> "calling"]
           x == <<b.task, claims[b.task] + 1>>
<1>1. /\ runs' = runs \cup {r} /\ reports' = reports
      /\ batch' = [batch EXCEPT ![i] = @ \ {b}]
  BY DEF Launch, Take
<1>2. r.inst = i /\ <<r.task, r.number>> = x
  OBVIOUS
<1> HIDE DEF r, x
<1>3. Inflight(i)' = Inflight(i) \cup {x} /\ \A j \in Instances \ {i} : Inflight(j)' = Inflight(j)
  <2> DEFINE new(j) == {<<q.task, q.number>> : q \in {y \in runs' : y.inst = j}}
             had(j) == {<<q.task, q.number>> : q \in {y \in runs : y.inst = j}}
  <2>1. new(i) = had(i) \cup {x} /\ \A j \in Instances \ {i} : new(j) = had(j)
    BY <1>1, <1>2
  <2>2. \A j \in Instances :
           /\ Inflight(j)' = new(j) \cup {<<p.task, p.number>> : p \in {y \in reports : y.inst = j /\ y.loop = "run"}}
           /\ Inflight(j) = had(j) \cup {<<p.task, p.number>> : p \in {y \in reports : y.inst = j /\ y.loop = "run"}}
    BY <1>1 DEF Inflight
  <2> HIDE DEF new, had
  <2>. QED  BY <2>1, <2>2
<1>4. /\ batch'[i] = batch[i] \ {b}
      /\ IsFiniteSet(batch'[i]) /\ Cardinality(batch'[i]) = Cardinality(batch[i]) - 1
  <2>1. batch'[i] = batch[i] \ {b}
    BY <1>1 DEF TypeOK
  <2>2. IsFiniteSet(batch[i])
    BY DEF Room, CapInv
  <2>3. /\ IsFiniteSet(batch[i] \ {b})
        /\ Cardinality(batch[i] \ {b}) = Cardinality(batch[i]) - 1
    <3>. HIDE <1>1
    <3>. QED  BY ONLY <2>2, FS_RemoveElement, b \in batch[i]
  <2>. QED  BY <2>1, <2>3
<1>5. /\ IsFiniteSet(Inflight(i)')
      /\ Cardinality(Inflight(i)') \in {Cardinality(Inflight(i)), Cardinality(Inflight(i)) + 1}
  <2>1. IsFiniteSet(Inflight(i))
    BY DEF Room, CapInv
  <2>. QED  BY <1>3, <2>1, FS_AddElement
<1>6. Cardinality(batch[i]) \in Nat /\ Cardinality(Inflight(i)) \in Nat
  BY FS_CardinalityType DEF Room, CapInv
<1>7. Room(i)'
  BY <1>4, <1>5, <1>6, SMT DEF Room, CapInv
<1>8. ASSUME NEW j \in Instances, j # i PROVE Room(j)'
  <2>1. batch'[j] = batch[j] /\ Inflight(j)' = Inflight(j)
    BY <1>1, <1>3, <1>8 DEF TypeOK
  <2>. QED  BY <2>1 DEF Room, CapInv
<1>. QED  BY <1>7, <1>8 DEF CapInv

\* An instance executes at most Cap tasks, whoever leads, fails or starts again.
THEOREM CapHolds == ASSUME IsFiniteSet(Tasks)  PROVE  Spec => []WithinCap
<1>1. Init => CapInv
  <2> SUFFICES ASSUME Init, NEW i \in Instances PROVE Room(i)
    BY DEF CapInv
  <2>1. Inflight(i) = {} /\ batch[i] = {}
    BY DEF Init, Inflight
  <2>. QED  BY <2>1, FS_EmptySet, SMT DEF Room
<1>2. TypeOK /\ CapInv /\ [Next]_vars => CapInv'
  <2> SUFFICES ASSUME TypeOK, CapInv, [Next]_vars PROVE CapInv'
    OBVIOUS
  <2>1. CASE \E i \in Instances : Query(i) \/ (\E b \in batch[i] : Launch(i, b))
    BY <2>1, QueryFits, LaunchFits
  <2>2. CASE ~ \E i \in Instances : Query(i) \/ (\E b \in batch[i] : Launch(i, b))
    BY <2>2, OthersShrink, Shrinks DEF CapInv
  <2>. QED  BY <2>1, <2>2
<1>3. CapInv => WithinCap
  <2> SUFFICES ASSUME CapInv, NEW i \in Instances PROVE Cardinality(Inflight(i)) <= Cap
    BY DEF WithinCap
  <2>1. Cardinality(Inflight(i)) \in Nat /\ Cardinality(batch[i]) \in Nat
    BY FS_CardinalityType DEF CapInv, Room
  <2>. QED  BY <2>1, SMT DEF CapInv, Room
<1>. QED  BY <1>1, <1>2, <1>3, TypeCorrect, PTL DEF Spec
=============================================================================
