--------------------------- MODULE UsageRecorder ---------------------------
(***************************************************************************)
(* The asynchronous usage recorder: internal/billing/recorder.go,          *)
(* recorder_wal.go and wal.go, run by several instances that share one     *)
(* database and one WAL directory (blue/green deployment).                 *)
(*                                                                         *)
(* Request goroutines call Record, which never blocks: it sends to the     *)
(* main queue ch, else to the overflow queue spillCh, else drops.  The run *)
(* goroutine batches ch into database transactions, with retries; the      *)
(* spill goroutine writes spillCh to WAL files; the replay goroutine       *)
(* claims WAL files by rename, drops what is already logged and inserts    *)
(* the rest.  Processes stop gracefully, crash and restart.                *)
(*                                                                         *)
(* A queue is a set: batches are unordered for every property here.  A WAL *)
(* file is the set of its records with who claimed it (the .processing-X   *)
(* suffix) and its age.  Writing .tmp and renaming it is one step: nobody  *)
(* reads a .tmp file, so a crash before the rename is a crash before the   *)
(* step.  A disabled WAL behaves as one whose writes all fail.             *)
(***************************************************************************)
EXTENDS Naturals, FiniteSets

CONSTANTS
    Records,          \* usage records, named by their request id
    Instances,        \* server processes sharing the database and the WAL
    NoClaim,          \* "nobody": the claim of a published .jsonl file
    ChanCap,          \* capacity of ch
    SpillCap,         \* capacity of spillCh
    BatchSize,        \* batchSize
    MaxRetries,       \* maxRetries
    LateRecords,      \* records whose Record call Stop may overtake
    MaxRestarts       \* bound: stops and crashes in a behaviour

ASSUME RecorderAssumption ==
    /\ NoClaim \notin Instances
    /\ ChanCap \in Nat /\ SpillCap \in Nat
    /\ BatchSize \in Nat \ {0} /\ MaxRetries \in Nat \ {0}
    /\ LateRecords \subseteq Records
    /\ MaxRestarts \in Nat

VARIABLES
    \* the process of an instance, and Record's callers inside it
    proc,             \* "off", "serving", or "stopping": stopCh is closed
    halted,           \* Recorder.halted
    calls,            \* records whose Record call read halted = false
    \* queues and goroutines
    ch, spillCh,
    run,              \* where the run goroutine is
    batch,            \* its local batch
    attempt,          \* flush's attempt number
    spill,            \* where the spill goroutine is
    spillBatch,       \* its local batch
    replay,           \* where the replay goroutine is
    file,             \* the records of the file it claimed
    todo,             \* those it has not imported yet
    fresh,            \* the chunk found missing from usage_log
    \* shared by the instances
    wal,              \* the files of the WAL directory
    usageLog,         \* request ids with a committed usage_log row
    charges,          \* charges[r]: committed charges of r's cost
    \* history
    dropped,          \* records counted in droppedTotal
    crashed,          \* records in memory when their process crashed
    stranded,         \* records in memory when their process exited after Stop
    restarts

procVars   == <<proc, halted, restarts>>
queueVars  == <<calls, ch, spillCh>>
runVars    == <<run, batch, attempt>>
spillVars  == <<spill, spillBatch>>
replayVars == <<replay, file, todo, fresh>>
dbVars     == <<usageLog, charges>>
goneVars   == <<dropped, crashed, stranded>>
vars == <<procVars, queueVars, runVars, spillVars, replayVars, wal, dbVars, goneVars>>

File == [recs : SUBSET Records, claim : Instances \cup {NoClaim}, old : BOOLEAN]

TypeOK ==
    /\ proc \in [Instances -> {"off", "serving", "stopping"}]
    /\ halted \in [Instances -> BOOLEAN]
    /\ calls \in [Instances -> SUBSET Records]
    /\ ch \in [Instances -> SUBSET Records]
    /\ spillCh \in [Instances -> SUBSET Records]
    /\ run \in [Instances -> {"collect", "flush", "drain", "flushLast", "done"}]
    /\ batch \in [Instances -> SUBSET Records]
    /\ attempt \in [Instances -> 0 .. MaxRetries - 1]
    /\ spill \in [Instances -> {"collect", "drain", "done"}]
    /\ spillBatch \in [Instances -> SUBSET Records]
    /\ replay \in [Instances -> {"scan", "read", "lookup", "insert", "done"}]
    /\ file \in [Instances -> SUBSET Records]
    /\ todo \in [Instances -> SUBSET Records]
    /\ fresh \in [Instances -> SUBSET Records]
    /\ wal \in SUBSET File
    /\ usageLog \in SUBSET Records
    /\ charges \in [Records -> Nat]
    /\ dropped \in SUBSET Records
    /\ crashed \in SUBSET Records
    /\ stranded \in SUBSET Records
    /\ restarts \in 0 .. MaxRestarts

----------------------------------------------------------------------------
(* Where the records are.                                                  *)

\* Records only the memory of instance i holds.
InMemory(i) == calls[i] \cup ch[i] \cup spillCh[i] \cup batch[i] \cup spillBatch[i]

InWal == UNION {f.recs : f \in wal}

\* Records the recorder can still bill.
Alive == InWal \cup UNION {InMemory(i) : i \in Instances}

Given == Alive \cup usageLog \cup dropped \cup crashed \cup stranded

----------------------------------------------------------------------------
(* Helpers.                                                                *)

\* A process of instance i is running.
Running(i) == proc[i] # "off"

\* Mutant: a failed WAL write is neither retried nor counted.
SpillToWAL_Uncounted(S) ==
    \/ /\ wal' = wal \cup {[recs |-> R, claim |-> NoClaim, old |-> FALSE] : R \in {S} \ {{}}}
       /\ UNCHANGED dropped
    \/ UNCHANGED <<wal, dropped>>

\* wal.writeBatch: a file is published whole, or the write fails and
\* spillToWAL counts its records as dropped.
SpillToWAL(S) ==
    IF S = {}
    THEN UNCHANGED <<wal, dropped>>
    ELSE \/ /\ wal' = wal \cup {[recs |-> S, claim |-> NoClaim, old |-> FALSE]}
            /\ UNCHANGED dropped
         \/ /\ dropped' = dropped \cup S
            /\ UNCHANGED wal

\* Mutant: usage_log has no unique index on request_id.
Commit_NoUniqueIndex(S) ==
    /\ usageLog' = usageLog \cup S
    /\ charges' = [r \in Records |-> IF r \in S THEN charges[r] + 1 ELSE charges[r]]

\* The transaction of batchInsert commits: the usage_log rows, unique by
\* request_id, and the charges of applyUsageCharges.
Commit(S) ==
    /\ S \cap usageLog = {}
    /\ usageLog' = usageLog \cup S
    /\ charges' = [r \in Records |-> IF r \in S THEN charges[r] + 1 ELSE charges[r]]

\* batchInsert returns nil: its transaction has committed.
InsertSucceeds(S) == Commit(S)

\* Mutant: rows and charges are written in two transactions.
InsertFails_TwoTransactions(S) ==
    \/ UNCHANGED dbVars
    \/ /\ S \cap usageLog = {}
       /\ usageLog' = usageLog \cup S
       /\ UNCHANGED charges

\* batchInsert returns an error: rolled back, or committed with the reply lost.
InsertFails(S) == UNCHANGED dbVars \/ Commit(S)

\* Mutant: the file is copied to its new name and the old one is kept.
Rename_Copies(f, claimant) ==
    wal' = wal \cup {[f EXCEPT !.claim = claimant]}

\* os.Rename of a WAL file: the suffix changes, the modification time stays.
Rename(f, claimant) ==
    wal' = (wal \ {f}) \cup {[f EXCEPT !.claim = claimant]}

\* The file instance i claimed, if it still has it under its own suffix.
Claimed(i) == {f \in wal : f.claim = i /\ f.recs = file[i]}

----------------------------------------------------------------------------
Init ==
    /\ proc = [i \in Instances |-> "off"]
    /\ halted = [i \in Instances |-> FALSE]
    /\ calls = [i \in Instances |-> {}]
    /\ ch = [i \in Instances |-> {}]
    /\ spillCh = [i \in Instances |-> {}]
    /\ run = [i \in Instances |-> "collect"]
    /\ batch = [i \in Instances |-> {}]
    /\ attempt = [i \in Instances |-> 0]
    /\ spill = [i \in Instances |-> "collect"]
    /\ spillBatch = [i \in Instances |-> {}]
    /\ replay = [i \in Instances |-> "scan"]
    /\ file = [i \in Instances |-> {}]
    /\ todo = [i \in Instances |-> {}]
    /\ fresh = [i \in Instances |-> {}]
    /\ wal = {}
    /\ usageLog = {}
    /\ charges = [r \in Records |-> 0]
    /\ dropped = {}
    /\ crashed = {}
    /\ stranded = {}
    /\ restarts = 0

----------------------------------------------------------------------------
(* Record, called by request goroutines.                                   *)

MayRecord(i, r) ==
    /\ proc[i] = "serving" \/ (r \in LateRecords /\ proc[i] = "stopping")
    /\ r \notin Given

\* Record reads halted = false; the send follows in another step.
RecordBegin(i, r) ==
    /\ MayRecord(i, r)
    /\ ~halted[i]
    /\ calls' = [calls EXCEPT ![i] = @ \cup {r}]
    /\ UNCHANGED <<procVars, ch, spillCh, runVars, spillVars, replayVars,
                   wal, dbVars, goneVars>>

\* Record reads halted = true and writes its record to the WAL itself.
RecordHalted(i, r) ==
    /\ MayRecord(i, r)
    /\ halted[i]
    /\ SpillToWAL({r})
    /\ UNCHANGED <<procVars, queueVars, runVars, spillVars, replayVars,
                   dbVars, crashed, stranded>>

\* The two non-blocking sends of Record, and the drop when both queues are full.
RecordSend(i, r) ==
    /\ Running(i)
    /\ r \in calls[i]
    /\ calls' = [calls EXCEPT ![i] = @ \ {r}]
    /\ \/ /\ Cardinality(ch[i]) < ChanCap
          /\ ch' = [ch EXCEPT ![i] = @ \cup {r}]
          /\ UNCHANGED <<spillCh, dropped>>
       \/ /\ Cardinality(ch[i]) >= ChanCap
          /\ Cardinality(spillCh[i]) < SpillCap
          /\ spillCh' = [spillCh EXCEPT ![i] = @ \cup {r}]
          /\ UNCHANGED <<ch, dropped>>
       \/ /\ Cardinality(ch[i]) >= ChanCap
          /\ Cardinality(spillCh[i]) >= SpillCap
          /\ dropped' = dropped \cup {r}
          /\ UNCHANGED <<ch, spillCh>>
    /\ UNCHANGED <<procVars, runVars, spillVars, replayVars, wal, dbVars,
                   crashed, stranded>>

----------------------------------------------------------------------------
(* The run goroutine.                                                      *)

\* Receives from ch into the batch, while collecting or draining.
RunReceive(i) ==
    /\ Running(i)
    /\ run[i] \in {"collect", "drain"}
    /\ \E r \in ch[i] :
          /\ ch' = [ch EXCEPT ![i] = @ \ {r}]
          /\ batch' = [batch EXCEPT ![i] = @ \cup {r}]
    /\ run' = [run EXCEPT ![i] =
                  IF @ = "collect" /\ Cardinality(batch'[i]) >= BatchSize
                  THEN "flush" ELSE @]
    /\ UNCHANGED <<procVars, calls, spillCh, attempt, spillVars, replayVars,
                   wal, dbVars, goneVars>>

\* Mutant: only a full batch is flushed.
RunTick_FullOnly(i) ==
    /\ Running(i)
    /\ run[i] = "collect"
    /\ Cardinality(batch[i]) >= BatchSize
    /\ run' = [run EXCEPT ![i] = "flush"]
    /\ UNCHANGED <<procVars, queueVars, batch, attempt, spillVars, replayVars,
                   wal, dbVars, goneVars>>

\* The flush ticker fires with a batch to write.
RunTick(i) ==
    /\ Running(i)
    /\ run[i] = "collect"
    /\ batch[i] # {}
    /\ run' = [run EXCEPT ![i] = "flush"]
    /\ UNCHANGED <<procVars, queueVars, batch, attempt, spillVars, replayVars,
                   wal, dbVars, goneVars>>

\* stopCh is closed: Record is diverted to the WAL and the drain begins.
RunHalt(i) ==
    /\ proc[i] = "stopping"
    /\ run[i] = "collect"
    /\ halted' = [halted EXCEPT ![i] = TRUE]
    /\ run' = [run EXCEPT ![i] = "drain"]
    /\ UNCHANGED <<proc, restarts, queueVars, batch, attempt, spillVars,
                   replayVars, wal, dbVars, goneVars>>

\* Mutant: the batch is flushed at stop, the queue is not drained.
RunDrained_NoDrain(i) ==
    /\ Running(i)
    /\ run[i] = "drain"
    /\ run' = [run EXCEPT ![i] = IF batch[i] = {} THEN "done" ELSE "flushLast"]
    /\ UNCHANGED <<procVars, queueVars, batch, attempt, spillVars, replayVars,
                   wal, dbVars, goneVars>>

\* drainAndFlush found ch empty: it flushes what it has and returns.
RunDrained(i) ==
    /\ Running(i)
    /\ run[i] = "drain"
    /\ ch[i] = {}
    /\ run' = [run EXCEPT ![i] = IF batch[i] = {} THEN "done" ELSE "flushLast"]
    /\ UNCHANGED <<procVars, queueVars, batch, attempt, spillVars, replayVars,
                   wal, dbVars, goneVars>>

\* flush is over and the batch is empty again.
FlushReturns(i) ==
    /\ batch' = [batch EXCEPT ![i] = {}]
    /\ attempt' = [attempt EXCEPT ![i] = 0]
    /\ run' = [run EXCEPT ![i] = IF @ = "flush" THEN "collect" ELSE "done"]

Flushing(i) == Running(i) /\ run[i] \in {"flush", "flushLast"}

FlushSucceeds(i) ==
    /\ Flushing(i)
    /\ InsertSucceeds(batch[i])
    /\ FlushReturns(i)
    /\ UNCHANGED <<procVars, queueVars, spillVars, replayVars, wal, goneVars>>

\* An attempt fails and another one is left.
FlushRetries(i) ==
    /\ Flushing(i)
    /\ attempt[i] < MaxRetries - 1
    /\ InsertFails(batch[i])
    /\ attempt' = [attempt EXCEPT ![i] = @ + 1]
    /\ UNCHANGED <<procVars, queueVars, run, batch, spillVars, replayVars,
                   wal, goneVars>>

\* The last attempt fails: the batch goes to the WAL.
FlushGivesUp(i) ==
    /\ Flushing(i)
    /\ attempt[i] = MaxRetries - 1
    /\ InsertFails(batch[i])
    /\ SpillToWAL(batch[i])
    /\ FlushReturns(i)
    /\ UNCHANGED <<procVars, queueVars, spillVars, replayVars, crashed, stranded>>

Run(i) ==
    \/ RunReceive(i) \/ RunTick(i) \/ RunHalt(i) \/ RunDrained(i)
    \/ FlushSucceeds(i) \/ FlushRetries(i) \/ FlushGivesUp(i)

----------------------------------------------------------------------------
(* The spill goroutine.                                                    *)

SpillReceive(i) ==
    /\ Running(i)
    /\ spill[i] \in {"collect", "drain"}
    /\ spill[i] = "collect" => Cardinality(spillBatch[i]) < BatchSize
    /\ \E r \in spillCh[i] :
          /\ spillCh' = [spillCh EXCEPT ![i] = @ \ {r}]
          /\ spillBatch' = [spillBatch EXCEPT ![i] = @ \cup {r}]
    /\ UNCHANGED <<procVars, calls, ch, runVars, spill, replayVars, wal,
                   dbVars, goneVars>>

\* writeOut: the batch is full or the ticker fires.
SpillWriteOut(i) ==
    /\ Running(i)
    /\ spill[i] = "collect"
    /\ spillBatch[i] # {}
    /\ SpillToWAL(spillBatch[i])
    /\ spillBatch' = [spillBatch EXCEPT ![i] = {}]
    /\ UNCHANGED <<procVars, queueVars, runVars, spill, replayVars, dbVars,
                   crashed, stranded>>

SpillHalt(i) ==
    /\ proc[i] = "stopping"
    /\ spill[i] = "collect"
    /\ Cardinality(spillBatch[i]) < BatchSize
    /\ spill' = [spill EXCEPT ![i] = "drain"]
    /\ UNCHANGED <<procVars, queueVars, runVars, spillBatch, replayVars, wal,
                   dbVars, goneVars>>

\* drainSpill found spillCh empty: it writes its batch and returns.
SpillDrained(i) ==
    /\ Running(i)
    /\ spill[i] = "drain"
    /\ spillCh[i] = {}
    /\ SpillToWAL(spillBatch[i])
    /\ spillBatch' = [spillBatch EXCEPT ![i] = {}]
    /\ spill' = [spill EXCEPT ![i] = "done"]
    /\ UNCHANGED <<procVars, queueVars, runVars, replayVars, dbVars, crashed, stranded>>

Spill(i) == SpillReceive(i) \/ SpillWriteOut(i) \/ SpillHalt(i) \/ SpillDrained(i)

----------------------------------------------------------------------------
(* The replay goroutine: replayOnce, replayFile and importRecords.         *)

\* Mutant: Stop waits for the replay loop without cancelling it.
ReplayCancelled_Never(i) == FALSE

\* Stop has seen the run and spill goroutines end and cancels the replay.
ReplayCancelled(i) == proc[i] = "stopping" /\ run[i] = "done" /\ spill[i] = "done"

ReplayScans(i) ==
    /\ replay' = [replay EXCEPT ![i] = "scan"]
    /\ file' = [file EXCEPT ![i] = {}]
    /\ todo' = [todo EXCEPT ![i] = {}]
    /\ fresh' = [fresh EXCEPT ![i] = {}]

\* Claims a published file by renaming it.
ReplayClaim(i) ==
    /\ Running(i)
    /\ replay[i] = "scan"
    /\ ~ReplayCancelled(i)
    /\ \E f \in wal :
          /\ f.claim = NoClaim
          /\ Rename(f, i)
          /\ file' = [file EXCEPT ![i] = f.recs]
    /\ replay' = [replay EXCEPT ![i] = "read"]
    /\ UNCHANGED <<procVars, queueVars, runVars, spillVars, todo, fresh,
                   dbVars, goneVars>>

\* A claimed file whose modification time is old is published again.
ReplayReclaim(i) ==
    /\ Running(i)
    /\ replay[i] = "scan"
    /\ ~ReplayCancelled(i)
    /\ \E f \in wal :
          /\ f.claim # NoClaim
          /\ f.old
          /\ Rename(f, NoClaim)
    /\ UNCHANGED <<procVars, queueVars, runVars, spillVars, replayVars,
                   dbVars, goneVars>>

\* readWALFile: the claimed file, if it still has its claimed name.
ReplayRead(i) ==
    /\ Running(i)
    /\ replay[i] = "read"
    /\ Claimed(i) # {}
    /\ todo' = [todo EXCEPT ![i] = file[i]]
    /\ replay' = [replay EXCEPT ![i] = "lookup"]
    /\ UNCHANGED <<procVars, queueVars, runVars, spillVars, file, fresh, wal,
                   dbVars, goneVars>>

\* Mutant: records already logged are not skipped.
ReplayLookup_NoDedup(i) ==
    /\ Running(i)
    /\ replay[i] = "lookup"
    /\ todo[i] # {}
    /\ todo' = [todo EXCEPT ![i] = {}]
    /\ fresh' = [fresh EXCEPT ![i] = todo[i]]
    /\ replay' = [replay EXCEPT ![i] = "insert"]
    /\ UNCHANGED <<procVars, queueVars, runVars, spillVars, file, wal, dbVars,
                   goneVars>>

\* The next batchSize records, of which those already logged are skipped.
ReplayLookup(i) ==
    /\ Running(i)
    /\ replay[i] = "lookup"
    /\ \E chunk \in SUBSET todo[i] :
          /\ chunk # {}
          /\ Cardinality(chunk) <= BatchSize
          /\ chunk = todo[i] \/ Cardinality(chunk) = BatchSize
          /\ todo' = [todo EXCEPT ![i] = @ \ chunk]
          /\ fresh' = [fresh EXCEPT ![i] = chunk \ usageLog]
    /\ replay' = [replay EXCEPT ![i] = IF fresh'[i] = {} THEN @ ELSE "insert"]
    /\ UNCHANGED <<procVars, queueVars, runVars, spillVars, file, wal, dbVars,
                   goneVars>>

\* Mutant: an insert that failed does not end the import.
ReplayInsert_IgnoresError(i) ==
    /\ Running(i)
    /\ replay[i] = "insert"
    /\ InsertSucceeds(fresh[i]) \/ InsertFails(fresh[i])
    /\ fresh' = [fresh EXCEPT ![i] = {}]
    /\ replay' = [replay EXCEPT ![i] = "lookup"]
    /\ UNCHANGED <<procVars, queueVars, runVars, spillVars, file, todo, wal,
                   goneVars>>

\* batchInsert of the records that were missing.
ReplayInsert(i) ==
    /\ Running(i)
    /\ replay[i] = "insert"
    /\ InsertSucceeds(fresh[i])
    /\ fresh' = [fresh EXCEPT ![i] = {}]
    /\ replay' = [replay EXCEPT ![i] = "lookup"]
    /\ UNCHANGED <<procVars, queueVars, runVars, spillVars, file, todo, wal,
                   goneVars>>

\* Every chunk is imported: the claimed file is removed.
ReplayFinish(i) ==
    /\ Running(i)
    /\ replay[i] = "lookup"
    /\ todo[i] = {}
    /\ wal' = wal \ Claimed(i)
    /\ ReplayScans(i)
    /\ UNCHANGED <<procVars, queueVars, runVars, spillVars, dbVars, goneVars>>

\* Mutant: a file whose import failed is removed.
ReturnFile_Removes(i) == wal' = wal \ Claimed(i)

\* The claimed file, if still there, gets its published name back.
ReturnFile(i) ==
    \/ \E f \in Claimed(i) : Rename(f, NoClaim)
    \/ Claimed(i) = {} /\ UNCHANGED wal

\* Reading the file, the query or the insert fails.
ReplayFails(i) ==
    /\ Running(i)
    /\ \/ replay[i] = "read" /\ UNCHANGED dbVars
       \/ replay[i] = "lookup" /\ todo[i] # {} /\ UNCHANGED dbVars
       \/ replay[i] = "insert" /\ InsertFails(fresh[i])
    /\ ReturnFile(i)
    /\ ReplayScans(i)
    /\ UNCHANGED <<procVars, queueVars, runVars, spillVars, goneVars>>

ReplayEnds(i) ==
    /\ ReplayCancelled(i)
    /\ replay[i] = "scan"
    /\ replay' = [replay EXCEPT ![i] = "done"]
    /\ UNCHANGED <<procVars, queueVars, runVars, spillVars, file, todo, fresh,
                   wal, dbVars, goneVars>>

Replay(i) ==
    \/ ReplayClaim(i) \/ ReplayReclaim(i) \/ ReplayRead(i) \/ ReplayLookup(i)
    \/ ReplayInsert(i) \/ ReplayFinish(i) \/ ReplayFails(i) \/ ReplayEnds(i)

----------------------------------------------------------------------------
(* Processes and time.                                                     *)

Start(i) ==
    /\ proc[i] = "off"
    /\ proc' = [proc EXCEPT ![i] = "serving"]
    /\ UNCHANGED <<halted, restarts, queueVars, runVars, spillVars, replayVars,
                   wal, dbVars, goneVars>>

\* Stop closes stopCh.  The HTTP server has drained its requests first; a drain
\* that times out leaves the handlers of LateRecords running.
StopBegin(i) ==
    /\ proc[i] = "serving"
    /\ restarts < MaxRestarts
    /\ calls[i] \subseteq LateRecords
    /\ proc' = [proc EXCEPT ![i] = "stopping"]
    /\ restarts' = restarts + 1
    /\ UNCHANGED <<halted, queueVars, runVars, spillVars, replayVars, wal,
                   dbVars, goneVars>>

\* The process is gone, and its memory with it.
Vanish(i) ==
    /\ proc' = [proc EXCEPT ![i] = "off"]
    /\ halted' = [halted EXCEPT ![i] = FALSE]
    /\ calls' = [calls EXCEPT ![i] = {}]
    /\ ch' = [ch EXCEPT ![i] = {}]
    /\ spillCh' = [spillCh EXCEPT ![i] = {}]
    /\ run' = [run EXCEPT ![i] = "collect"]
    /\ batch' = [batch EXCEPT ![i] = {}]
    /\ attempt' = [attempt EXCEPT ![i] = 0]
    /\ spill' = [spill EXCEPT ![i] = "collect"]
    /\ spillBatch' = [spillBatch EXCEPT ![i] = {}]
    /\ ReplayScans(i)

\* Stop has returned and the process exits.  A Record call that has not
\* returned dies with it, as in a crash.
Exit(i) ==
    /\ proc[i] = "stopping"
    /\ run[i] = "done" /\ spill[i] = "done" /\ replay[i] = "done"
    /\ Vanish(i)
    /\ stranded' = stranded \cup (InMemory(i) \ calls[i])
    /\ crashed' = crashed \cup calls[i]
    /\ UNCHANGED <<wal, dbVars, dropped, restarts>>

Crash(i) ==
    /\ Running(i)
    /\ restarts < MaxRestarts
    /\ Vanish(i)
    /\ crashed' = crashed \cup InMemory(i)
    /\ restarts' = restarts + 1
    /\ UNCHANGED <<wal, dbVars, dropped, stranded>>

\* walStaleAfter elapses for a file, counted from when it was written: what
\* isStale looks at, also for a file claimed a moment ago.
Age ==
    /\ \E f \in wal : ~f.old /\ wal' = (wal \ {f}) \cup {[f EXCEPT !.old = TRUE]}
    /\ UNCHANGED <<procVars, queueVars, runVars, spillVars, replayVars, dbVars, goneVars>>

Next ==
    \/ \E i \in Instances :
          \/ \E r \in Records : RecordBegin(i, r) \/ RecordHalted(i, r) \/ RecordSend(i, r)
          \/ Run(i) \/ Spill(i) \/ Replay(i)
          \/ Start(i) \/ StopBegin(i) \/ Exit(i) \/ Crash(i)
    \/ Age

\* Goroutines are scheduled, a process is restarted and time passes.  A
\* database or disk that is asked again and again answers at last, and since
\* scans are a minute apart and an import is short, not every import has its
\* file taken by another instance.
Undisturbed(i) == Claimed(i) # {}

Fairness ==
    /\ \A i \in Instances :
          /\ WF_vars(\E r \in Records : RecordSend(i, r))
          /\ WF_vars(Run(i)) /\ WF_vars(Spill(i)) /\ WF_vars(Replay(i))
          /\ WF_vars(Start(i)) /\ WF_vars(Exit(i))
    /\ SF_vars(\E i \in Instances : ReplayClaim(i))
    /\ SF_vars(\E i \in Instances : Undisturbed(i) /\ ReplayRead(i))
    /\ SF_vars(\E i \in Instances : Undisturbed(i) /\ ReplayLookup(i))
    /\ SF_vars(\E i \in Instances : Undisturbed(i) /\ ReplayInsert(i))
    /\ SF_vars(\E i \in Instances : Undisturbed(i) /\ ReplayFinish(i))
    /\ WF_vars(Age)

Spec == Init /\ [][Next]_vars
FairSpec == Spec /\ Fairness

----------------------------------------------------------------------------
(* Properties.                                                             *)

\* A record's cost is charged exactly when its usage_log row is there, and
\* once: retries after a lost reply, replays of a file two instances
\* claimed and restarts in the middle of either never charge again.
ChargedOnceIffLogged ==
    \A r \in Records : charges[r] = IF r \in usageLog THEN 1 ELSE 0

\* No two goroutines, queues or files hold the same record: otherwise one
\* transaction could carry a request id twice and fail for ever.
OneCopy ==
    /\ \A i \in Instances :
          /\ calls[i] \cap (ch[i] \cup spillCh[i] \cup batch[i] \cup spillBatch[i]) = {}
          /\ ch[i] \cap (spillCh[i] \cup batch[i] \cup spillBatch[i]) = {}
          /\ spillCh[i] \cap (batch[i] \cup spillBatch[i]) = {}
          /\ batch[i] \cap spillBatch[i] = {}
          /\ InMemory(i) \cap InWal = {}
          /\ \A j \in Instances \ {i} : InMemory(i) \cap InMemory(j) = {}
    /\ \A f, g \in wal : f # g => f.recs \cap g.recs = {}

\* What an import has taken off its list is logged, what it still has to do
\* is in the file it read, and a file that is gone from under it (taken by
\* another instance, imported there and removed) was logged first.
ImportsAccountedFor ==
    \A i \in Instances :
        /\ todo[i] \cup fresh[i] \subseteq file[i]
        /\ file[i] \subseteq InWal \cup usageLog
        /\ replay[i] \in {"lookup", "insert"}
              => file[i] \subseteq todo[i] \cup fresh[i] \cup usageLog
        /\ (replay[i] = "insert") <=> (fresh[i] # {})

\* flush is never called with an empty batch (part of the invariant the
\* proofs use).
FlushHasBatch == \A i \in Instances : run[i] \in {"flush", "flushLast"} => batch[i] # {}

\* Outside an import there is nothing to import (likewise).
TodoOnlyInImport ==
    \A i \in Instances : replay[i] \in {"scan", "read", "done"} => todo[i] = {}

\* A record handed to the recorder never vanishes: it stays in a queue, a
\* batch or a file until it is logged, counted as dropped or lost with the
\* memory of its process.
NeverForgotten == [][Given \subseteq Given']_vars

\* A record leaves the WAL only for the usage log, whatever claims, failed
\* imports, stolen files and crashes come in between.
WalKeepsUntilLogged ==
    [][\A r \in InWal : r \in InWal' \/ r \in usageLog']_vars

\* A graceful stop loses no record whose Record call has returned before Stop
\* was called: the drains of run and spillLoop leave it in no queue.
StopStrandsNothing == stranded \subseteq LateRecords

\* A record in the WAL is in the end billed and its file removed, also when
\* its row was committed before (a lost reply) or its claimant died.
WalDrains == \A r \in Records : r \in InWal ~> r \in usageLog \ InWal

\* A record handed to the recorder is in the end billed, counted as dropped
\* or lost with its process; it does not sit in a queue.
RecordsSettle ==
    \A r \in Records :
        r \in Given ~> r \in usageLog \cup dropped \cup crashed \cup stranded

\* Stop returns: the three goroutines end, whatever each was doing.
StopReturns == \A i \in Instances : proc[i] = "stopping" ~> proc[i] = "off"

\* What UsageLedger sees of a record.
StatusOf(r) ==
    CASE r \in usageLog -> "billed"
      [] r \in Alive \ usageLog -> "pending"
      [] r \in Given \ (Alive \cup usageLog) -> "abandoned"
      [] OTHER -> "new"

ledgerStatus == [r \in Records |-> StatusOf(r)]

\* The recorder implements UsageLedger: goroutines, retries, claims and
\* crashes only ever accept, bill in one transaction, or give up.
Ledger == INSTANCE UsageLedger WITH status <- ledgerStatus

ImplementsLedger == Ledger!Spec
=============================================================================
