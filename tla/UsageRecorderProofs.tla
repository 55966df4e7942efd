------------------------ MODULE UsageRecorderProofs ------------------------
(***************************************************************************)
(* Theorems about UsageRecorder, for every set of records and instances    *)
(* and every capacity, batch size and number of retries.                   *)
(***************************************************************************)
EXTENDS UsageRecorder, TLAPS

\* What SpillToWAL does to the files and the drop count keeps their types.
LEMMA SpillTypes ==
    ASSUME TypeOK, NEW S \in SUBSET Records, SpillToWAL(S)
    PROVE  wal' \in SUBSET File /\ dropped' \in SUBSET Records
  <1>1. wal \in SUBSET File /\ dropped \in SUBSET Records
    BY DEF TypeOK
  <1>2. [recs |-> S, claim |-> NoClaim, old |-> FALSE] \in File
    BY DEF File
  <1> QED
    BY <1>1, <1>2 DEF SpillToWAL

\* So does an insert, committed or not, to the database.
LEMMA InsertTypes ==
    ASSUME TypeOK, NEW S \in SUBSET Records, InsertSucceeds(S) \/ InsertFails(S)
    PROVE  usageLog' \in SUBSET Records /\ charges' \in [Records -> Nat]
  BY DEF TypeOK, InsertSucceeds, InsertFails, Commit, dbVars

\* And a rename to the directory.
LEMMA RenameTypes ==
    ASSUME TypeOK, NEW f \in wal, NEW c \in Instances \cup {NoClaim}, Rename(f, c)
    PROVE  wal' \in SUBSET File
  BY DEF TypeOK, Rename, File

\* Every variable keeps its type: no queue, batch or file ever holds
\* anything but records, and every goroutine is at one of its own places.
THEOREM TypeCorrect == Spec => []TypeOK
  <1>1. Init => TypeOK
    BY RecorderAssumption DEF Init, TypeOK
  <1>2. TypeOK /\ [Next]_vars => TypeOK'
    <2> SUFFICES ASSUME TypeOK, [Next]_vars PROVE TypeOK'
      OBVIOUS
    <2> USE RecorderAssumption
    <2>1. ASSUME NEW i \in Instances, NEW r \in Records, RecordBegin(i, r)
          PROVE TypeOK'
      BY <2>1 DEF TypeOK, RecordBegin, procVars, runVars, spillVars, replayVars, dbVars, goneVars
    <2>2. ASSUME NEW i \in Instances, NEW r \in Records, RecordHalted(i, r)
          PROVE TypeOK'
      BY <2>2, SpillTypes DEF TypeOK, RecordHalted, procVars, queueVars, runVars, spillVars, replayVars, dbVars
    <2>3. ASSUME NEW i \in Instances, NEW r \in Records, RecordSend(i, r)
          PROVE TypeOK'
      BY <2>3 DEF TypeOK, RecordSend, procVars, runVars, spillVars, replayVars, dbVars
    <2>4. ASSUME NEW i \in Instances, Run(i)
          PROVE TypeOK'
      <3>1. CASE RunReceive(i)
        BY <3>1 DEF TypeOK, RunReceive, procVars, spillVars, replayVars, dbVars, goneVars
      <3>2. CASE RunTick(i)
        BY <3>2 DEF TypeOK, RunTick, procVars, queueVars, spillVars, replayVars, dbVars, goneVars
      <3>3. CASE RunHalt(i)
        BY <3>3 DEF TypeOK, RunHalt, queueVars, spillVars, replayVars, dbVars, goneVars
      <3>4. CASE RunDrained(i)
        BY <3>4 DEF TypeOK, RunDrained, procVars, queueVars, spillVars, replayVars, dbVars, goneVars
      <3>5. CASE FlushSucceeds(i)
        <4>1. batch[i] \in SUBSET Records
          BY DEF TypeOK
        <4> QED
          BY <3>5, <4>1, InsertTypes
          DEF TypeOK, FlushSucceeds, FlushReturns, procVars, queueVars, spillVars, replayVars, goneVars
      <3>6. CASE FlushRetries(i)
        <4>1. batch[i] \in SUBSET Records
          BY DEF TypeOK
        <4> QED
          BY <3>6, <4>1, InsertTypes
          DEF TypeOK, FlushRetries, procVars, queueVars, spillVars, replayVars, goneVars
      <3>7. CASE FlushGivesUp(i)
        <4>1. batch[i] \in SUBSET Records
          BY DEF TypeOK
        <4> QED
          BY <3>7, <4>1, InsertTypes, SpillTypes
          DEF TypeOK, FlushGivesUp, FlushReturns, procVars, queueVars, spillVars, replayVars
      <3> QED
        BY <2>4, <3>1, <3>2, <3>3, <3>4, <3>5, <3>6, <3>7 DEF Run
    <2>5. ASSUME NEW i \in Instances, Spill(i)
          PROVE TypeOK'
      <3>1. spillBatch[i] \in SUBSET Records
        BY DEF TypeOK
      <3>2. CASE SpillReceive(i)
        BY <3>2 DEF TypeOK, SpillReceive, procVars, runVars, replayVars, dbVars, goneVars
      <3>3. CASE SpillWriteOut(i)
        BY <3>1, <3>3, SpillTypes
        DEF TypeOK, SpillWriteOut, procVars, queueVars, runVars, replayVars, dbVars
      <3>4. CASE SpillHalt(i)
        BY <3>4 DEF TypeOK, SpillHalt, procVars, queueVars, runVars, replayVars, dbVars, goneVars
      <3>5. CASE SpillDrained(i)
        BY <3>1, <3>5, SpillTypes
        DEF TypeOK, SpillDrained, procVars, queueVars, runVars, replayVars, dbVars
      <3> QED
        BY <2>5, <3>2, <3>3, <3>4, <3>5 DEF Spill
    <2>6. ASSUME NEW i \in Instances, Replay(i)
          PROVE TypeOK'
      <3>1. CASE ReplayClaim(i)
        <4>1. PICK f \in wal : Rename(f, i) /\ file' = [file EXCEPT ![i] = f.recs]
          BY <3>1 DEF ReplayClaim
        <4>2. f.recs \in SUBSET Records
          BY DEF TypeOK, File
        <4> QED
          BY <3>1, <4>1, <4>2, RenameTypes
          DEF TypeOK, ReplayClaim, procVars, queueVars, runVars, spillVars, dbVars, goneVars
      <3>2. CASE ReplayReclaim(i)
        BY <3>2, RenameTypes
        DEF TypeOK, ReplayReclaim, procVars, queueVars, runVars, spillVars, replayVars, dbVars, goneVars
      <3>3. CASE ReplayRead(i)
        BY <3>3 DEF TypeOK, ReplayRead, procVars, queueVars, runVars, spillVars, dbVars, goneVars
      <3>4. CASE ReplayLookup(i)
        BY <3>4 DEF TypeOK, ReplayLookup, procVars, queueVars, runVars, spillVars, dbVars, goneVars
      <3>5. CASE ReplayInsert(i)
        <4>1. fresh[i] \in SUBSET Records
          BY DEF TypeOK
        <4> QED
          BY <3>5, <4>1, InsertTypes
          DEF TypeOK, ReplayInsert, procVars, queueVars, runVars, spillVars, goneVars
      <3>6. CASE ReplayFinish(i)
        BY <3>6 DEF TypeOK, ReplayFinish, ReplayScans, procVars, queueVars, runVars, spillVars, dbVars, goneVars
      <3>7. CASE ReplayFails(i)
        <4>1. fresh[i] \in SUBSET Records
          BY DEF TypeOK
        <4>2. usageLog' \in SUBSET Records /\ charges' \in [Records -> Nat]
          BY <3>7, <4>1, InsertTypes DEF ReplayFails, TypeOK, dbVars
        <4>3. wal' \in SUBSET File
          BY <3>7, RenameTypes DEF ReplayFails, ReturnFile, Claimed, TypeOK
        <4> QED
          BY <3>7, <4>2, <4>3
          DEF TypeOK, ReplayFails, ReplayScans, procVars, queueVars, runVars, spillVars, goneVars
      <3>8. CASE ReplayEnds(i)
        BY <3>8 DEF TypeOK, ReplayEnds, procVars, queueVars, runVars, spillVars, dbVars, goneVars
      <3> QED
        BY <2>6, <3>1, <3>2, <3>3, <3>4, <3>5, <3>6, <3>7, <3>8 DEF Replay
    <2>7. ASSUME NEW i \in Instances, Start(i)
          PROVE TypeOK'
      BY <2>7 DEF TypeOK, Start, queueVars, runVars, spillVars, replayVars, dbVars, goneVars
    <2>8. ASSUME NEW i \in Instances, StopBegin(i)
          PROVE TypeOK'
      BY <2>8 DEF TypeOK, StopBegin, queueVars, runVars, spillVars, replayVars, dbVars, goneVars
    <2>9. ASSUME NEW i \in Instances, Exit(i)
          PROVE TypeOK'
      BY <2>9 DEF TypeOK, Exit, Vanish, ReplayScans, InMemory, dbVars
    <2>10. ASSUME NEW i \in Instances, Crash(i)
           PROVE TypeOK'
      BY <2>10 DEF TypeOK, Crash, Vanish, ReplayScans, InMemory, dbVars
    <2>11. CASE Age
      BY <2>11 DEF TypeOK, Age, File, procVars, queueVars, runVars, spillVars, replayVars, dbVars, goneVars
    <2>12. CASE UNCHANGED vars
      BY <2>12 DEF TypeOK, vars, procVars, queueVars, runVars, spillVars, replayVars, dbVars, goneVars
    <2> QED
      BY <2>1, <2>2, <2>3, <2>4, <2>5, <2>6, <2>7, <2>8, <2>9, <2>10, <2>11, <2>12 DEF Next
  <1> QED
    BY <1>1, <1>2, PTL DEF Spec

----------------------------------------------------------------------------
(* Where a record can be, and what the steps do to it.                     *)

\* A record is in the WAL when some file has it.
LEMMA InWalDef == \A r : r \in InWal <=> \E f \in wal : r \in f.recs
  BY DEF InWal

\* A record is alive when a file or some instance's memory has it.
LEMMA AliveDef ==
    \A r : r \in Alive <=> (r \in InWal \/ \E i \in Instances : r \in InMemory(i))
  BY DEF Alive

\* Renaming a file keeps its records in the WAL.
LEMMA RenameKeeps ==
    ASSUME TypeOK, NEW f \in wal, NEW c, Rename(f, c)
    PROVE  InWal' = InWal
  <1>1. f \in File
    BY DEF TypeOK
  <1>2. [f EXCEPT !.claim = c].recs = f.recs
    BY <1>1 DEF File
  <1>3. ASSUME NEW r PROVE r \in InWal <=> r \in InWal'
    BY <1>2 DEF InWal, Rename
  <1> QED
    BY <1>3

\* Spilling a batch puts all of it in the WAL, or counts all of it as dropped.
LEMMA SpillMoves ==
    ASSUME NEW S, SpillToWAL(S)
    PROVE  \/ InWal' = InWal \cup S /\ dropped' = dropped
           \/ InWal' = InWal /\ dropped' = dropped \cup S
  <1>1. CASE S = {}
    BY <1>1 DEF SpillToWAL, InWal
  <1>2. CASE S # {} /\ dropped' = dropped \cup S /\ UNCHANGED wal
    BY <1>2 DEF InWal
  <1>3. CASE /\ wal' = wal \cup {[recs |-> S, claim |-> NoClaim, old |-> FALSE]}
             /\ UNCHANGED dropped
    <2> DEFINE g == [recs |-> S, claim |-> NoClaim, old |-> FALSE]
    <2>1. wal' = wal \cup {g} /\ g.recs = S
      BY <1>3
    <2> HIDE DEF g
    <2>2. ASSUME NEW r PROVE r \in InWal' <=> r \in InWal \cup S
      BY <2>1 DEF InWal
    <2> QED
      BY <1>3, <2>2
  <1> QED
    BY <1>1, <1>2, <1>3 DEF SpillToWAL

\* A step that changes the memory of one instance only.
LEMMA OneMemory ==
    ASSUME NEW i \in Instances, \A j \in Instances \ {i} : InMemory(j)' = InMemory(j)
    PROVE  \A r : r \in Alive' <=> \/ r \in InWal'
                                   \/ r \in InMemory(i)'
                                   \/ \E j \in Instances \ {i} : r \in InMemory(j)
  BY DEF Alive

\* The kinds of step: records are moved or given up, a record is taken over
\* from a caller, or a batch is billed.
Settles == UNCHANGED dbVars /\ Given' = Given /\ Alive' \subseteq Alive

Takes(r) ==
    /\ UNCHANGED dbVars
    /\ r \notin Given
    /\ Given' = Given \cup {r}
    /\ Alive \subseteq Alive' /\ Alive' \subseteq Alive \cup {r}

Bills(S) ==
    /\ Commit(S)
    /\ S # {}
    /\ S \subseteq Alive
    /\ Given' = Given
    /\ Alive' \subseteq Alive /\ Alive \subseteq Alive' \cup usageLog'

\* Memory of instance i moves inside it.
LEMMA MovesInside ==
    ASSUME NEW i \in Instances, \A j \in Instances : InMemory(j)' = InMemory(j),
           InWal' = InWal, UNCHANGED <<dbVars, goneVars>>
    PROVE  Settles
  <1>1. Alive' = Alive
    BY DEF Alive
  <1> QED
    BY <1>1 DEF Settles, Given, dbVars, goneVars

LEMMA RecordBeginKind ==
    ASSUME TypeOK, NEW i \in Instances, NEW r \in Records, RecordBegin(i, r)
    PROVE  Takes(r)
  <1>1. InMemory(i)' = InMemory(i) \cup {r}
    BY DEF RecordBegin, TypeOK, InMemory, runVars, spillVars
  <1>2. \A j \in Instances \ {i} : InMemory(j)' = InMemory(j)
    BY DEF RecordBegin, TypeOK, InMemory, runVars, spillVars
  <1>3. InWal' = InWal /\ UNCHANGED <<dbVars, goneVars>> /\ r \notin Given
    BY DEF RecordBegin, MayRecord, InWal
  <1>4. \A q : q \in Alive' <=> q \in Alive \/ q = r
    BY <1>1, <1>2, <1>3, OneMemory, AliveDef
  <1> QED
    BY <1>3, <1>4 DEF Takes, Given, dbVars, goneVars

LEMMA RecordHaltedKind ==
    ASSUME TypeOK, NEW i \in Instances, NEW r \in Records, RecordHalted(i, r)
    PROVE  Takes(r)
  <1>1. \A j \in Instances : InMemory(j)' = InMemory(j)
    BY DEF RecordHalted, InMemory, queueVars, runVars, spillVars
  <1>2. SpillToWAL({r}) /\ r \notin Given /\ UNCHANGED <<dbVars, crashed, stranded>>
    BY DEF RecordHalted, MayRecord
  <1>3. CASE InWal' = InWal \cup {r} /\ dropped' = dropped
    <2>1. \A q : q \in Alive' <=> q \in Alive \/ q = r
      BY <1>1, <1>3 DEF Alive
    <2> QED
      BY <1>2, <1>3, <2>1 DEF Takes, Given, dbVars
  <1>4. CASE InWal' = InWal /\ dropped' = dropped \cup {r}
    <2>1. Alive' = Alive
      BY <1>1, <1>4 DEF Alive
    <2> QED
      BY <1>2, <1>4, <2>1 DEF Takes, Given, dbVars
  <1> QED
    BY <1>2, <1>3, <1>4, SpillMoves

LEMMA RecordSendKind ==
    ASSUME TypeOK, NEW i \in Instances, NEW r \in Records, RecordSend(i, r)
    PROVE  Settles
  <1>1. \A j \in Instances \ {i} : InMemory(j)' = InMemory(j)
    BY DEF RecordSend, TypeOK, InMemory, runVars, spillVars
  <1>2. InWal' = InWal /\ UNCHANGED <<dbVars, crashed, stranded>> /\ r \in InMemory(i)
    BY DEF RecordSend, InWal, InMemory
  <1>3. CASE dropped' = dropped \cup {r} /\ UNCHANGED <<ch, spillCh>>
    <2>1. InMemory(i)' \subseteq InMemory(i) /\ InMemory(i) \subseteq InMemory(i)' \cup {r}
      BY <1>3 DEF RecordSend, TypeOK, InMemory, runVars, spillVars
    <2>2. \A q : (q \in Alive' => q \in Alive) /\ (q \in Alive => q \in Alive' \/ q = r)
      BY <1>1, <1>2, <2>1, OneMemory, AliveDef
    <2>3. r \in Alive
      BY <1>2, AliveDef
    <2> QED
      BY <1>2, <1>3, <2>2, <2>3 DEF Settles, Given, dbVars
  <1>4. CASE UNCHANGED dropped /\ r \in ch[i]' \cup spillCh[i]'
    <2>1. InMemory(i)' = InMemory(i)
      BY <1>4 DEF RecordSend, TypeOK, InMemory, runVars, spillVars
    <2> QED
      BY <1>1, <1>2, <1>4, <2>1, MovesInside DEF goneVars
  <1> QED
    BY <1>3, <1>4 DEF RecordSend, TypeOK

\* A batch of instance i that leaves its memory for the WAL or the drop count
\* while nothing is committed.
LEMMA SpillSettles ==
    ASSUME NEW i \in Instances, NEW S, SpillToWAL(S),
           \A j \in Instances \ {i} : InMemory(j)' = InMemory(j),
           InMemory(i)' \subseteq InMemory(i),
           InMemory(i) \subseteq InMemory(i)' \cup S,
           S \subseteq InMemory(i),
           UNCHANGED <<dbVars, crashed, stranded>>
    PROVE  Settles
  <1>1. CASE InWal' = InWal \cup S /\ dropped' = dropped
    <2>1. \A q : q \in Alive' <=> q \in Alive
      BY <1>1, OneMemory, AliveDef
    <2> QED
      BY <1>1, <2>1 DEF Settles, Given, dbVars
  <1>2. CASE InWal' = InWal /\ dropped' = dropped \cup S
    <2>1. \A q : (q \in Alive' => q \in Alive) /\ (q \in Alive => q \in Alive' \/ q \in S)
      BY <1>2, OneMemory, AliveDef
    <2>2. S \subseteq Alive
      BY AliveDef
    <2> QED
      BY <1>2, <2>1, <2>2 DEF Settles, Given, dbVars
  <1> QED
    BY <1>1, <1>2, SpillMoves

\* The steps of the run goroutine move records inside its instance, bill the
\* batch or give it to the WAL.
LEMMA RunKind ==
    ASSUME TypeOK, NEW i \in Instances, Run(i), batch[i] # {} \/ ~Flushing(i)
    PROVE  Settles \/ \E S : Bills(S)
  <1>1. \A j \in Instances \ {i} : InMemory(j)' = InMemory(j)
    BY DEF Run, RunReceive, RunTick, RunHalt, RunDrained, FlushSucceeds, FlushRetries,
           FlushGivesUp, FlushReturns, TypeOK, InMemory, queueVars, spillVars
  <1>2. CASE RunReceive(i)
    <2>1. InMemory(i)' = InMemory(i)
      BY <1>2 DEF RunReceive, TypeOK, InMemory, spillVars
    <2> QED
      BY <1>1, <1>2, <2>1, MovesInside DEF RunReceive, InWal
  <1>3. CASE RunTick(i) \/ RunHalt(i) \/ RunDrained(i)
    <2>1. InMemory(i)' = InMemory(i)
      BY <1>3 DEF RunTick, RunHalt, RunDrained, InMemory, queueVars, spillVars
    <2> QED
      BY <1>1, <1>3, <2>1, MovesInside DEF RunTick, RunHalt, RunDrained, InWal
  <1>4. batch[i] \subseteq InMemory(i) /\ batch[i] \subseteq Alive
    BY AliveDef DEF InMemory
  <1>5. CASE FlushSucceeds(i)
    <2>1. InMemory(i)' \subseteq InMemory(i) /\ InMemory(i) \subseteq InMemory(i)' \cup batch[i]
      BY <1>5 DEF FlushSucceeds, FlushReturns, TypeOK, InMemory, queueVars, spillVars
    <2>2. Commit(batch[i]) /\ InWal' = InWal /\ UNCHANGED goneVars
      BY <1>5 DEF FlushSucceeds, InsertSucceeds, InWal
    <2>3. \A q : (q \in Alive' => q \in Alive) /\ (q \in Alive => q \in Alive' \/ q \in batch[i])
      BY <1>1, <2>1, <2>2, OneMemory, AliveDef
    <2>4. Bills(batch[i])
      BY <1>4, <1>5, <2>2, <2>3 DEF Bills, Commit, Given, goneVars, FlushSucceeds
    <2> QED
      BY <2>4
  <1>6. CASE FlushRetries(i)
    <2>1. InMemory(i)' = InMemory(i) /\ InWal' = InWal /\ UNCHANGED goneVars
      BY <1>6 DEF FlushRetries, InMemory, InWal, queueVars, spillVars
    <2>2. CASE UNCHANGED dbVars
      BY <1>1, <2>1, <2>2, MovesInside
    <2>3. CASE Commit(batch[i])
      <3>1. \A q : q \in Alive' <=> q \in Alive
        BY <1>1, <2>1, OneMemory, AliveDef
      <3>2. Bills(batch[i])
        BY <1>4, <1>6, <2>1, <2>3, <3>1 DEF Bills, Commit, Given, goneVars, FlushRetries
      <3> QED
        BY <3>2
    <2> QED
      BY <1>6, <2>2, <2>3 DEF FlushRetries, InsertFails
  <1>7. CASE FlushGivesUp(i)
    <2>1. InMemory(i)' \subseteq InMemory(i) /\ InMemory(i) \subseteq InMemory(i)' \cup batch[i]
      BY <1>7 DEF FlushGivesUp, FlushReturns, TypeOK, InMemory, queueVars, spillVars
    <2>2. SpillToWAL(batch[i]) /\ UNCHANGED <<crashed, stranded>>
      BY <1>7 DEF FlushGivesUp
    <2>3. CASE UNCHANGED dbVars
      BY <1>1, <1>4, <2>1, <2>2, <2>3, SpillSettles
    <2>4. CASE Commit(batch[i])
      <3>1. /\ InWal \subseteq InWal' /\ InWal' \subseteq InWal \cup batch[i]
            /\ dropped \subseteq dropped' /\ dropped' \subseteq dropped \cup batch[i]
        BY <2>2, SpillMoves
      <3>2. \A q : (q \in Alive' => q \in Alive) /\ (q \in Alive => q \in Alive' \/ q \in batch[i])
        BY <1>1, <1>4, <2>1, <3>1, OneMemory, AliveDef
      <3>3. Given' = Given
        BY <1>4, <2>2, <2>4, <3>1, <3>2 DEF Given, Commit
      <3>4. Bills(batch[i])
        BY <1>4, <1>7, <2>4, <3>2, <3>3 DEF Bills, Commit, FlushGivesUp
      <3> QED
        BY <3>4
    <2> QED
      BY <1>7, <2>3, <2>4 DEF FlushGivesUp, InsertFails
  <1> QED
    BY <1>2, <1>3, <1>5, <1>6, <1>7 DEF Run

\* The steps of the spill goroutine give up nothing but to the drop count.
LEMMA SpillKind ==
    ASSUME TypeOK, NEW i \in Instances, Spill(i)
    PROVE  Settles
  <1>1. \A j \in Instances \ {i} : InMemory(j)' = InMemory(j)
    BY DEF Spill, SpillReceive, SpillWriteOut, SpillHalt, SpillDrained, TypeOK, InMemory,
           queueVars, runVars
  <1>2. CASE SpillReceive(i)
    <2>1. InMemory(i)' = InMemory(i)
      BY <1>2 DEF SpillReceive, TypeOK, InMemory, runVars
    <2> QED
      BY <1>1, <1>2, <2>1, MovesInside DEF SpillReceive, InWal
  <1>3. CASE SpillHalt(i)
    <2>1. InMemory(i)' = InMemory(i)
      BY <1>3 DEF SpillHalt, InMemory, queueVars, runVars
    <2> QED
      BY <1>1, <1>3, <2>1, MovesInside DEF SpillHalt, InWal
  <1>4. CASE SpillWriteOut(i) \/ SpillDrained(i)
    <2>1. /\ InMemory(i)' \subseteq InMemory(i)
          /\ InMemory(i) \subseteq InMemory(i)' \cup spillBatch[i]
          /\ spillBatch[i] \subseteq InMemory(i)
      BY <1>4 DEF SpillWriteOut, SpillDrained, TypeOK, InMemory, queueVars, runVars
    <2>2. SpillToWAL(spillBatch[i]) /\ UNCHANGED <<dbVars, crashed, stranded>>
      BY <1>4 DEF SpillWriteOut, SpillDrained
    <2> QED
      BY <1>1, <2>1, <2>2, SpillSettles
  <1> QED
    BY <1>2, <1>3, <1>4 DEF Spill

\* The claimed file of instance i gets its name back, or is gone already.
LEMMA ReturnKeeps ==
    ASSUME TypeOK, NEW i \in Instances, ReturnFile(i)
    PROVE  InWal' = InWal
  <1>1. CASE \E f \in Claimed(i) : Rename(f, NoClaim)
    BY <1>1, RenameKeeps DEF Claimed
  <1>2. CASE UNCHANGED wal
    BY <1>2 DEF InWal
  <1> QED
    BY <1>1, <1>2 DEF ReturnFile

\* A finished import removes a file all of whose records are logged.
LEMMA FinishKeeps ==
    ASSUME TypeOK, ImportsAccountedFor, NEW i \in Instances, ReplayFinish(i)
    PROVE  /\ InWal' \subseteq InWal
           /\ InWal \subseteq InWal' \cup usageLog
  <1>1. file[i] \subseteq usageLog
    BY DEF ReplayFinish, ImportsAccountedFor
  <1>2. wal' = wal \ Claimed(i)
    BY DEF ReplayFinish
  <1>3. ASSUME NEW r PROVE (r \in InWal' => r \in InWal) /\ (r \in InWal => r \in InWal' \cup usageLog)
    BY <1>1, <1>2 DEF InWal, Claimed
  <1> QED
    BY <1>3

\* The steps of the replay goroutine move no record out of the WAL unless it
\* is logged, and bill only records of the WAL.
LEMMA ReplayKind ==
    ASSUME TypeOK, ImportsAccountedFor, NEW i \in Instances, Replay(i)
    PROVE  /\ Settles \/ \E S : Bills(S)
           /\ InWal \subseteq InWal' \cup usageLog
  <1>1. \A j \in Instances : InMemory(j)' = InMemory(j)
    BY DEF Replay, ReplayClaim, ReplayReclaim, ReplayRead, ReplayLookup, ReplayInsert,
           ReplayFinish, ReplayFails, ReplayEnds, InMemory, queueVars, runVars, spillVars
  <1>2. CASE ReplayClaim(i) \/ ReplayReclaim(i)
    <2>1. InWal' = InWal
      BY <1>2, RenameKeeps DEF ReplayClaim, ReplayReclaim
    <2> QED
      BY <1>1, <1>2, <2>1, MovesInside DEF ReplayClaim, ReplayReclaim
  <1>3. CASE ReplayRead(i) \/ ReplayLookup(i) \/ ReplayEnds(i)
    <2>1. InWal' = InWal /\ UNCHANGED <<dbVars, goneVars>>
      BY <1>3 DEF ReplayRead, ReplayLookup, ReplayEnds, InWal
    <2> QED
      BY <1>1, <2>1, MovesInside
  <1>4. CASE ReplayFinish(i)
    <2>1. InWal' \subseteq InWal /\ InWal \subseteq InWal' \cup usageLog
      BY <1>4, FinishKeeps
    <2>2. UNCHANGED <<dbVars, goneVars>>
      BY <1>4 DEF ReplayFinish
    <2>3. Alive' \subseteq Alive /\ Alive \subseteq Alive' \cup usageLog
      BY <1>1, <2>1 DEF Alive
    <2> QED
      BY <2>1, <2>2, <2>3 DEF Settles, Given, dbVars, goneVars
  <1>5. ASSUME Commit(fresh[i]), replay[i] = "insert", InWal' = InWal, UNCHANGED goneVars
        PROVE  Bills(fresh[i])
    <2>1. fresh[i] # {} /\ fresh[i] \subseteq InWal
      BY <1>5 DEF ImportsAccountedFor, Commit
    <2>2. Alive' = Alive
      BY <1>1, <1>5 DEF Alive
    <2>3. fresh[i] \subseteq Alive
      BY <2>1 DEF Alive
    <2> QED
      BY <1>5, <2>1, <2>2, <2>3 DEF Bills, Given, goneVars, Commit
  <1>6. CASE ReplayInsert(i)
    <2>1. Commit(fresh[i]) /\ replay[i] = "insert" /\ InWal' = InWal /\ UNCHANGED goneVars
      BY <1>6 DEF ReplayInsert, InsertSucceeds, InWal
    <2> QED
      BY <1>5, <2>1
  <1>7. CASE ReplayFails(i)
    <2>1. InWal' = InWal /\ UNCHANGED goneVars
      BY <1>7, ReturnKeeps DEF ReplayFails
    <2>2. CASE UNCHANGED dbVars
      BY <1>1, <2>1, <2>2, MovesInside
    <2>3. CASE replay[i] = "insert" /\ Commit(fresh[i])
      BY <1>5, <2>1, <2>3
    <2> QED
      BY <1>7, <2>2, <2>3 DEF ReplayFails, InsertFails
  <1> QED
    BY <1>2, <1>3, <1>4, <1>6, <1>7 DEF Replay

\* A process that exits or crashes takes its memory with it.
LEMMA VanishKind ==
    ASSUME TypeOK, NEW i \in Instances, Exit(i) \/ Crash(i)
    PROVE  Settles
  <1>1. \A j \in Instances \ {i} : InMemory(j)' = InMemory(j)
    BY DEF Exit, Crash, Vanish, TypeOK, InMemory
  <1>2. InMemory(i)' = {}
    BY DEF Exit, Crash, Vanish, TypeOK, InMemory
  <1>3. InWal' = InWal /\ UNCHANGED dbVars
    BY DEF Exit, Crash, InWal
  <1>4. \A q : (q \in Alive' => q \in Alive) /\ (q \in Alive => q \in Alive' \/ q \in InMemory(i))
    BY <1>1, <1>2, <1>3, OneMemory, AliveDef
  <1>5. InMemory(i) \subseteq Alive
    BY AliveDef
  <1>6. crashed' \cup stranded' \cup dropped' = crashed \cup stranded \cup dropped \cup InMemory(i)
    BY DEF Exit, Crash, InMemory
  <1> QED
    BY <1>3, <1>4, <1>5, <1>6 DEF Settles, Given, dbVars

----------------------------------------------------------------------------
(* The inductive invariant.                                                *)

IInv == TypeOK /\ ImportsAccountedFor /\ FlushHasBatch /\ TodoOnlyInImport

\* Every step moves or gives up records, takes one over or bills a batch; it
\* takes records out of the WAL only if they are logged.
LEMMA StepKind ==
    ASSUME IInv, [Next]_vars
    PROVE  /\ Settles \/ (\E r \in Records : Takes(r)) \/ (\E S : Bills(S))
           /\ InWal \subseteq InWal' \cup usageLog
  <1> USE DEF IInv
  <1>1. ASSUME NEW i \in Instances, NEW r \in Records, RecordBegin(i, r)
        PROVE  Takes(r) /\ InWal \subseteq InWal'
    BY <1>1, RecordBeginKind DEF RecordBegin, InWal
  <1>2. ASSUME NEW i \in Instances, NEW r \in Records, RecordHalted(i, r)
        PROVE  Takes(r) /\ InWal \subseteq InWal'
    BY <1>2, RecordHaltedKind, SpillMoves DEF RecordHalted
  <1>3. ASSUME NEW i \in Instances, NEW r \in Records, RecordSend(i, r)
        PROVE  Settles /\ InWal \subseteq InWal'
    BY <1>3, RecordSendKind DEF RecordSend, InWal
  <1>4. ASSUME NEW i \in Instances, Run(i)
        PROVE  (Settles \/ \E S : Bills(S)) /\ InWal \subseteq InWal'
    <2>1. batch[i] # {} \/ ~Flushing(i)
      BY DEF FlushHasBatch, Flushing
    <2>2. wal' = wal \/ SpillToWAL(batch[i])
      BY <1>4 DEF Run, RunReceive, RunTick, RunHalt, RunDrained, FlushSucceeds, FlushRetries, FlushGivesUp
    <2>3. InWal \subseteq InWal'
      BY <2>2, SpillMoves DEF InWal
    <2> QED
      BY <1>4, <2>1, <2>3, RunKind
  <1>5. ASSUME NEW i \in Instances, Spill(i)
        PROVE  Settles /\ InWal \subseteq InWal'
    <2>1. wal' = wal \/ SpillToWAL(spillBatch[i])
      BY <1>5 DEF Spill, SpillReceive, SpillWriteOut, SpillHalt, SpillDrained
    <2>2. InWal \subseteq InWal'
      BY <2>1, SpillMoves DEF InWal
    <2> QED
      BY <1>5, <2>2, SpillKind
  <1>6. ASSUME NEW i \in Instances, Replay(i)
        PROVE  (Settles \/ \E S : Bills(S)) /\ InWal \subseteq InWal' \cup usageLog
    BY <1>6, ReplayKind
  <1>7. ASSUME NEW i \in Instances, Start(i) \/ StopBegin(i)
        PROVE  Settles /\ InWal \subseteq InWal'
    <2>1. \A j \in Instances : InMemory(j)' = InMemory(j)
      BY <1>7 DEF Start, StopBegin, InMemory, queueVars, runVars, spillVars
    <2>2. InWal' = InWal /\ UNCHANGED <<dbVars, goneVars>>
      BY <1>7 DEF Start, StopBegin, InWal
    <2> QED
      BY <2>1, <2>2, MovesInside
  <1>8. ASSUME NEW i \in Instances, Exit(i) \/ Crash(i)
        PROVE  Settles /\ InWal \subseteq InWal'
    BY <1>8, VanishKind DEF Exit, Crash, InWal
  <1>9. CASE Age \/ UNCHANGED vars
    <2>1. InWal' = InWal
      <3>1. CASE UNCHANGED vars
        BY <3>1 DEF vars, InWal
      <3>2. CASE Age
        <4>1. PICK f \in wal : wal' = (wal \ {f}) \cup {[f EXCEPT !.old = TRUE]}
          BY <3>2 DEF Age
        <4>2. [f EXCEPT !.old = TRUE].recs = f.recs
          BY DEF TypeOK, File
        <4>3. ASSUME NEW r PROVE r \in InWal <=> r \in InWal'
          BY <4>1, <4>2 DEF InWal
        <4> QED
          BY <4>3
      <3> QED
        BY <1>9, <3>1, <3>2
    <2>2. \A j \in Instances : InMemory(j)' = InMemory(j)
      BY <1>9 DEF Age, vars, InMemory, queueVars, runVars, spillVars
    <2>3. UNCHANGED <<dbVars, goneVars>>
      BY <1>9 DEF Age, vars
    <2>4. Alive' = Alive
      BY <2>1, <2>2 DEF Alive
    <2> QED
      BY <2>1, <2>3, <2>4 DEF Settles, Given, dbVars, goneVars
  <1> QED
    BY <1>1, <1>2, <1>3, <1>4, <1>5, <1>6, <1>7, <1>8, <1>9 DEF Next

\* The usage log only grows, and nothing leaves the WAL but for the log.
LEMMA LogGrows ==
    ASSUME IInv, [Next]_vars
    PROVE  /\ usageLog \subseteq usageLog'
           /\ InWal \cup usageLog \subseteq InWal' \cup usageLog'
  <1>1. usageLog \subseteq usageLog'
    BY StepKind DEF Settles, Takes, Bills, Commit, dbVars
  <1> QED
    BY <1>1, StepKind

\* IInv is an invariant.
THEOREM Invariant == Spec => []IInv
  <1>1. Init => IInv
    BY RecorderAssumption DEF Init, IInv, TypeOK, ImportsAccountedFor, FlushHasBatch, TodoOnlyInImport
  <1>2. IInv /\ [Next]_vars /\ TypeOK' => IInv'
    <2> SUFFICES ASSUME IInv, [Next]_vars, TypeOK' PROVE ImportsAccountedFor' /\ FlushHasBatch' /\ TodoOnlyInImport'
      BY DEF IInv
    <2>1. usageLog \subseteq usageLog' /\ InWal \cup usageLog \subseteq InWal' \cup usageLog'
      BY LogGrows
    <2> USE DEF IInv
    <2>2. ASSUME UNCHANGED replayVars
          PROVE  ImportsAccountedFor' /\ TodoOnlyInImport'
      BY <2>1, <2>2 DEF ImportsAccountedFor, TodoOnlyInImport, replayVars
    <2>3. ASSUME UNCHANGED runVars
          PROVE  FlushHasBatch'
      BY <2>3 DEF FlushHasBatch, runVars
    <2>4. ASSUME NEW i \in Instances, NEW r \in Records,
                 RecordBegin(i, r) \/ RecordHalted(i, r) \/ RecordSend(i, r)
          PROVE  ImportsAccountedFor' /\ FlushHasBatch' /\ TodoOnlyInImport'
      BY <2>2, <2>3, <2>4 DEF RecordBegin, RecordHalted, RecordSend
    <2>5. ASSUME NEW i \in Instances, Run(i)
          PROVE  ImportsAccountedFor' /\ FlushHasBatch' /\ TodoOnlyInImport'
      <3>1. UNCHANGED replayVars
        BY <2>5 DEF Run, RunReceive, RunTick, RunHalt, RunDrained, FlushSucceeds, FlushRetries, FlushGivesUp
      <3>2. FlushHasBatch'
        <4> run \in [Instances -> {"collect", "flush", "drain", "flushLast", "done"}]
                /\ batch \in [Instances -> SUBSET Records]
          BY DEF TypeOK
        <4> SUFFICES ASSUME NEW j \in Instances
                     PROVE  run'[j] \in {"flush", "flushLast"} => batch'[j] # {}
          BY DEF FlushHasBatch
        <4>1. CASE RunReceive(i)
          <5>1. PICK r \in ch[i] : batch' = [batch EXCEPT ![i] = @ \cup {r}]
            BY <4>1 DEF RunReceive
          <5>2. j # i => run'[j] = run[j] /\ batch'[j] = batch[j]
            BY <4>1, <5>1 DEF RunReceive
          <5>3. batch'[i] # {}
            BY <5>1
          <5> QED
            BY <5>2, <5>3 DEF FlushHasBatch
        <4>2. CASE RunTick(i) \/ RunHalt(i) \/ RunDrained(i)
          <5>1. batch' = batch /\ (j # i => run'[j] = run[j])
            BY <4>2 DEF RunTick, RunHalt, RunDrained
          <5>2. run'[i] \in {"flush", "flushLast"} => batch[i] # {}
            BY <4>2 DEF RunTick, RunHalt, RunDrained
          <5> QED
            BY <5>1, <5>2 DEF FlushHasBatch
        <4>3. CASE FlushSucceeds(i) \/ FlushGivesUp(i)
          BY <4>3 DEF FlushSucceeds, FlushGivesUp, FlushReturns, Flushing, TypeOK, FlushHasBatch
        <4>4. CASE FlushRetries(i)
          BY <4>4 DEF FlushRetries, FlushHasBatch
        <4> QED
          BY <2>5, <4>1, <4>2, <4>3, <4>4 DEF Run
      <3> QED
        BY <2>2, <3>1, <3>2
    <2>6. ASSUME NEW i \in Instances, Spill(i)
          PROVE  ImportsAccountedFor' /\ FlushHasBatch' /\ TodoOnlyInImport'
      BY <2>2, <2>3, <2>6 DEF Spill, SpillReceive, SpillWriteOut, SpillHalt, SpillDrained
    <2>7. ASSUME NEW i \in Instances, Replay(i)
          PROVE  ImportsAccountedFor' /\ FlushHasBatch' /\ TodoOnlyInImport'
      <3>1. UNCHANGED runVars
        BY <2>7 DEF Replay, ReplayClaim, ReplayReclaim, ReplayRead, ReplayLookup, ReplayInsert,
                    ReplayFinish, ReplayFails, ReplayEnds
      <3>2. ASSUME NEW j \in Instances \ {i}
            PROVE  /\ replay'[j] = replay[j] /\ file'[j] = file[j]
                   /\ todo'[j] = todo[j] /\ fresh'[j] = fresh[j]
        BY <2>7 DEF Replay, ReplayClaim, ReplayReclaim, ReplayRead, ReplayLookup, ReplayInsert,
                    ReplayFinish, ReplayFails, ReplayEnds, ReplayScans, TypeOK, replayVars
      <3> DEFINE Accounted(k) ==
                     /\ todo[k] \cup fresh[k] \subseteq file[k]
                     /\ file[k] \subseteq InWal \cup usageLog
                     /\ replay[k] \in {"lookup", "insert"}
                           => file[k] \subseteq todo[k] \cup fresh[k] \cup usageLog
                     /\ (replay[k] = "insert") <=> (fresh[k] # {})
      <3>3. \A j \in Instances \ {i} : Accounted(j)'
        BY <2>1, <3>2 DEF ImportsAccountedFor
      <3>4. Accounted(i)'
        <4> USE DEF TypeOK
        <4>1. CASE ReplayClaim(i)
          <5>1. PICK f \in wal : file' = [file EXCEPT ![i] = f.recs]
            BY <4>1 DEF ReplayClaim
          <5>2. f.recs \subseteq InWal
            BY DEF InWal
          <5>3. file'[i] \subseteq InWal' \cup usageLog'
            BY <2>1, <5>1, <5>2
          <5>4. todo[i] = {} /\ fresh[i] = {}
            <6>1. replay[i] = "scan"
              BY <4>1 DEF ReplayClaim
            <6> QED
              BY <6>1 DEF TodoOnlyInImport, ImportsAccountedFor
          <5> QED
            BY <4>1, <5>3, <5>4 DEF ReplayClaim
        <4>2. CASE ReplayReclaim(i)
          BY <2>1, <4>2 DEF ReplayReclaim, ImportsAccountedFor, replayVars
        <4>3. CASE ReplayRead(i)
          <5>1. /\ replay'[i] = "lookup" /\ todo'[i] = file[i]
                /\ file' = file /\ fresh' = fresh
            BY <4>3 DEF ReplayRead
          <5>2. fresh[i] = {}
            BY <4>3 DEF ReplayRead, ImportsAccountedFor
          <5> QED
            BY <2>1, <5>1, <5>2 DEF ImportsAccountedFor
        <4>4. CASE ReplayLookup(i)
          BY <2>1, <4>4 DEF ReplayLookup, ImportsAccountedFor, dbVars
        <4>5. CASE ReplayInsert(i)
          BY <2>1, <4>5 DEF ReplayInsert, InsertSucceeds, Commit, ImportsAccountedFor
        <4>6. CASE ReplayFinish(i) \/ ReplayFails(i)
          <5>1. /\ replay'[i] = "scan" /\ file'[i] = {}
                /\ todo'[i] = {} /\ fresh'[i] = {}
            <6>1. ReplayScans(i)
              BY <4>6 DEF ReplayFinish, ReplayFails
            <6> QED
              BY <6>1 DEF ReplayScans
          <5> QED
            BY <5>1
        <4>7. CASE ReplayEnds(i)
          <5>1. /\ replay[i] = "scan" /\ replay'[i] = "done"
                /\ file' = file /\ todo' = todo /\ fresh' = fresh
            BY <4>7 DEF ReplayEnds
          <5>2. fresh[i] = {}
            BY <5>1 DEF ImportsAccountedFor
          <5> QED
            BY <2>1, <5>1, <5>2 DEF ImportsAccountedFor
        <4> QED
          BY <2>7, <4>1, <4>2, <4>3, <4>4, <4>5, <4>6, <4>7 DEF Replay
      <3>5. ImportsAccountedFor'
        BY <3>3, <3>4 DEF ImportsAccountedFor
      <3>6. TodoOnlyInImport'
        <4>1. replay'[i] \in {"scan", "read", "done"} => todo'[i] = {}
          BY <2>7 DEF Replay, ReplayClaim, ReplayReclaim, ReplayRead, ReplayLookup, ReplayInsert,
                      ReplayFinish, ReplayFails, ReplayEnds, ReplayScans, TypeOK, TodoOnlyInImport, replayVars
        <4> QED
          BY <3>2, <4>1 DEF TodoOnlyInImport
      <3> QED
        BY <2>3, <3>1, <3>5, <3>6
    <2>8. ASSUME NEW i \in Instances, Start(i) \/ StopBegin(i)
          PROVE  ImportsAccountedFor' /\ FlushHasBatch' /\ TodoOnlyInImport'
      BY <2>2, <2>3, <2>8 DEF Start, StopBegin
    <2>9. ASSUME NEW i \in Instances, Exit(i) \/ Crash(i)
          PROVE  ImportsAccountedFor' /\ FlushHasBatch' /\ TodoOnlyInImport'
      <3>1. /\ run'[i] = "collect" /\ replay'[i] = "scan"
            /\ file'[i] = {} /\ todo'[i] = {} /\ fresh'[i] = {}
        BY <2>9 DEF Exit, Crash, Vanish, ReplayScans, TypeOK
      <3>2. ASSUME NEW j \in Instances \ {i}
            PROVE  /\ run'[j] = run[j] /\ batch'[j] = batch[j]
                   /\ replay'[j] = replay[j] /\ file'[j] = file[j]
                   /\ todo'[j] = todo[j] /\ fresh'[j] = fresh[j]
        BY <2>9 DEF Exit, Crash, Vanish, ReplayScans, TypeOK
      <3>3. FlushHasBatch' /\ TodoOnlyInImport'
        BY <3>1, <3>2 DEF FlushHasBatch, TodoOnlyInImport
      <3>4. ImportsAccountedFor'
        BY <2>1, <3>1, <3>2 DEF ImportsAccountedFor
      <3> QED
        BY <3>3, <3>4
    <2>10. CASE Age \/ UNCHANGED vars
      BY <2>2, <2>3, <2>10 DEF Age, vars
    <2> QED
      BY <2>4, <2>5, <2>6, <2>7, <2>8, <2>9, <2>10 DEF Next
  <1> QED
    BY <1>1, <1>2, TypeCorrect, PTL DEF Spec

----------------------------------------------------------------------------
(* What follows from the kinds of steps.                                   *)

\* Every record of the files a replay has claimed is in the log or still to be
\* billed by it.
THEOREM ImportsKept == Spec => []ImportsAccountedFor
  BY Invariant, PTL DEF IInv

\* A record's cost is charged once exactly if its row is logged: rows and
\* charges are written by one transaction that a duplicate request id aborts.
THEOREM ChargedOnce == Spec => []ChargedOnceIffLogged
  <1>1. Init => ChargedOnceIffLogged
    BY DEF Init, ChargedOnceIffLogged
  <1>2. IInv /\ ChargedOnceIffLogged /\ [Next]_vars => ChargedOnceIffLogged'
    <2> SUFFICES ASSUME IInv, ChargedOnceIffLogged, [Next]_vars
                 PROVE  ChargedOnceIffLogged'
      OBVIOUS
    <2>1. UNCHANGED dbVars \/ \E S : Commit(S)
      BY StepKind DEF Settles, Takes, Bills
    <2>2. CASE UNCHANGED dbVars
      BY <2>2 DEF dbVars, ChargedOnceIffLogged
    <2>3. ASSUME NEW S, Commit(S)
          PROVE  ChargedOnceIffLogged'
      BY <2>3 DEF Commit, ChargedOnceIffLogged
    <2> QED
      BY <2>1, <2>2, <2>3
  <1> QED
    BY <1>1, <1>2, Invariant, PTL DEF Spec

\* A record handed to the recorder is never forgotten: every step keeps it in
\* a queue, a batch, a file, the log or one of the counts of lost records.
THEOREM NothingForgotten == Spec => NeverForgotten
  <1>1. IInv /\ [Next]_vars => [Given \subseteq Given']_vars
    BY StepKind DEF Settles, Takes, Bills
  <1> QED
    BY <1>1, Invariant, PTL DEF Spec, NeverForgotten

\* A record leaves the WAL only for the usage log.
THEOREM WalKept == Spec => WalKeepsUntilLogged
  <1>1. IInv /\ [Next]_vars
          => [\A r \in InWal : r \in InWal' \/ r \in usageLog']_vars
    BY StepKind, LogGrows
  <1> QED
    BY <1>1, Invariant, PTL DEF Spec, WalKeepsUntilLogged

----------------------------------------------------------------------------
(* The refinement.                                                         *)

LEMMA AliveGiven == Alive \subseteq Given /\ usageLog \subseteq Given
  BY DEF Given

LEMMA RecordsOnly ==
    ASSUME TypeOK
    PROVE  Given \subseteq Records /\ Alive \subseteq Records
  <1>1. InWal \subseteq Records
    BY DEF TypeOK, InWal, File
  <1>2. \A i \in Instances : InMemory(i) \subseteq Records
    BY DEF TypeOK, InMemory
  <1> QED
    BY <1>1, <1>2 DEF Alive, Given, TypeOK

\* The status of a record, case by case.
LEMMA StatusBilled == ASSUME NEW r \in Records PROVE r \in usageLog => StatusOf(r) = "billed"
  BY DEF StatusOf
LEMMA StatusPending ==
    ASSUME NEW r \in Records PROVE r \in Alive \ usageLog => StatusOf(r) = "pending"
  BY DEF StatusOf
LEMMA StatusAbandoned ==
    ASSUME NEW r \in Records
    PROVE  r \in Given \ (Alive \cup usageLog) => StatusOf(r) = "abandoned"
  BY DEF StatusOf
LEMMA StatusNew ==
    ASSUME NEW r \in Records
    PROVE  r \notin Given => StatusOf(r) = "new"
  BY AliveGiven DEF StatusOf

\* If the records of S get status s and the others keep theirs, the ledger
\* sees them Become(S, s).
LEMMA Becomes ==
    ASSUME NEW S \in SUBSET Records, NEW s,
           \A r \in S : StatusOf(r)' = s,
           \A r \in Records \ S : StatusOf(r)' = StatusOf(r)
    PROVE  ledgerStatus' = Ledger!Become(S, s)
  BY DEF ledgerStatus, Ledger!Become

\* A step that takes no record over and bills none gives some up, or none.
LEMMA SettlesAbandons ==
    ASSUME TypeOK, Settles
    PROVE  [Ledger!Next]_(Ledger!ledgerVars)
  <1> DEFINE S == Alive \ (Alive' \cup usageLog)
  <1>1. usageLog' = usageLog /\ charges' = charges /\ Given' = Given
    BY DEF Settles, dbVars
  <1>2. S \subseteq Records
    BY RecordsOnly
  <1>3. \A r \in S : StatusOf(r) = "pending" /\ StatusOf(r)' = "abandoned"
    <2> SUFFICES ASSUME NEW r \in S PROVE StatusOf(r) = "pending" /\ StatusOf(r)' = "abandoned"
      OBVIOUS
    <2>1. StatusOf(r) = "pending"
      BY <1>2, StatusPending
    <2>2. r \in Given' /\ r \notin Alive' /\ r \notin usageLog'
      BY <1>1, AliveGiven
    <2> QED
      BY <2>1, <2>2 DEF StatusOf
  <1>4. \A r \in Records \ S : StatusOf(r)' = StatusOf(r)
    BY <1>1 DEF StatusOf, Settles
  <1> QED
    <2>1. ledgerStatus' = Ledger!Become(S, "abandoned")
      BY <1>2, <1>3, <1>4, Becomes
    <2>2. \A r \in S : ledgerStatus[r] = "pending"
      BY <1>2, <1>3 DEF ledgerStatus
    <2>3. CASE S # {}
      BY <1>1, <1>2, <2>1, <2>2, <2>3 DEF Ledger!Next, Ledger!Abandon
    <2>4. CASE S = {}
      BY <1>1, <1>4, <2>4 DEF Ledger!ledgerVars, ledgerStatus
    <2> QED
      BY <2>3, <2>4

\* Taking a record over is the ledger's Accept, kept or refused at once.
LEMMA TakesAccepts ==
    ASSUME TypeOK, NEW r \in Records, Takes(r)
    PROVE  Ledger!Next
  <1>1. UNCHANGED <<usageLog, charges>> /\ r \notin Given
    BY DEF Takes, dbVars
  <1>2. \A q \in Records \ {r} : StatusOf(q)' = StatusOf(q)
    BY <1>1 DEF StatusOf, Takes
  <1>3. ledgerStatus[r] = "new"
    BY <1>1, StatusNew DEF ledgerStatus
  <1>4. \E s \in {"pending", "abandoned"} : StatusOf(r)' = s
    <2>1. r \in Given' /\ r \notin usageLog'
      BY <1>1, AliveGiven DEF Takes
    <2> QED
      BY <2>1 DEF StatusOf
  <1>5. \E s \in {"pending", "abandoned"} : ledgerStatus' = Ledger!Become({r}, s)
    BY <1>2, <1>4, Becomes
  <1> QED
    BY <1>1, <1>3, <1>5 DEF Ledger!Next, Ledger!Accept

\* A committed transaction is the ledger's Bill.
LEMMA BillsBills ==
    ASSUME TypeOK, NEW S, Bills(S)
    PROVE  Ledger!Next
  <1>1. S \in SUBSET Records /\ S # {}
    BY RecordsOnly DEF Bills
  <1>2. S \cap usageLog = {} /\ usageLog' = usageLog \cup S
    BY DEF Bills, Commit
  <1>3. \A r \in S : ledgerStatus[r] = "pending"
    BY <1>1, <1>2, StatusPending DEF Bills, ledgerStatus
  <1>4. \A r \in S : StatusOf(r)' = "billed"
    BY <1>1, <1>2 DEF StatusOf
  <1>5. \A r \in Records \ S : StatusOf(r)' = StatusOf(r)
    BY <1>2 DEF StatusOf, Bills
  <1>6. ledgerStatus' = Ledger!Become(S, "billed")
    BY <1>1, <1>4, <1>5, Becomes
  <1> QED
    BY <1>1, <1>3, <1>6 DEF Ledger!Next, Ledger!Bill, Bills, Commit

\* The recorder implements the ledger: whatever the goroutines, the files,
\* the retries and the crashes do, a record is accepted once, then billed
\* once by one transaction, or given up.
THEOREM Refinement == Spec => ImplementsLedger
  <1>1. Init => Ledger!Init
    <2> SUFFICES ASSUME Init PROVE Ledger!Init
      OBVIOUS
    <2>1. Given = {}
      BY DEF Init, Given, Alive, InWal, InMemory
    <2>2. \A r \in Records : StatusOf(r) = "new"
      BY <2>1, StatusNew
    <2> QED
      BY <2>2 DEF Init, Ledger!Init, ledgerStatus
  <1>2. IInv /\ [Next]_vars => [Ledger!Next]_(Ledger!ledgerVars)
    BY StepKind, SettlesAbandons, TakesAccepts, BillsBills DEF IInv
  <1> QED
    BY <1>1, <1>2, Invariant, PTL DEF Spec, ImplementsLedger, Ledger!Spec
----------------------------------------------------------------------------
(* One copy of a record.  A record moves between the places of one         *)
(* instance's memory, from there to a file, or enters from a caller.       *)

\* The places of instance i share no record.
Apart(i) ==
    /\ calls[i] \cap (ch[i] \cup spillCh[i] \cup batch[i] \cup spillBatch[i]) = {}
    /\ ch[i] \cap (spillCh[i] \cup batch[i] \cup spillBatch[i]) = {}
    /\ spillCh[i] \cap (batch[i] \cup spillBatch[i]) = {}
    /\ batch[i] \cap spillBatch[i] = {}

\* No two files share one.
FilesApart == \A f, g \in wal : f # g => f.recs \cap g.recs = {}

\* The places of instance i are as they were.
SamePlaces(i) ==
    /\ calls'[i] = calls[i] /\ ch'[i] = ch[i] /\ spillCh'[i] = spillCh[i]
    /\ batch'[i] = batch[i] /\ spillBatch'[i] = spillBatch[i]

LEMMA CopyParts ==
    OneCopy <=> /\ \A i \in Instances : Apart(i) /\ InMemory(i) \cap InWal = {}
                /\ \A i \in Instances : \A j \in Instances \ {i} : InMemory(i) \cap InMemory(j) = {}
                /\ FilesApart
  BY DEF OneCopy, Apart, FilesApart

\* A step in the memory of one instance keeps the copies single if what
\* enters was nowhere and what reaches a file has left the memory.
LEMMA CopyKept ==
    ASSUME OneCopy, NEW i \in Instances, NEW New, New \cap Alive = {},
           \A j \in Instances \ {i} : SamePlaces(j),
           Apart(i)', FilesApart',
           InMemory(i)' \subseteq InMemory(i) \cup New,
           InWal' \subseteq InWal \cup ((InMemory(i) \cup New) \ InMemory(i)')
    PROVE  OneCopy'
  <1>1. \A j \in Instances \ {i} : Apart(j)' /\ InMemory(j)' = InMemory(j)
    BY CopyParts DEF SamePlaces, Apart, InMemory
  <1>2. \A j \in Instances : InMemory(j) \cap New = {}
    BY AliveDef
  <1>3. InWal \cap New = {}
    BY AliveDef
  <1>4. InMemory(i)' \cap InWal' = {}
    BY <1>3, CopyParts
  <1>5. \A j \in Instances \ {i} : InMemory(j)' \cap InWal' = {}
    BY <1>1, <1>2, CopyParts
  <1>6. \A j \in Instances \ {i} : InMemory(i)' \cap InMemory(j)' = {}
    BY <1>1, <1>2, CopyParts
  <1>7. ASSUME NEW j \in Instances, NEW k \in Instances \ {j}
        PROVE  InMemory(j)' \cap InMemory(k)' = {}
    <2>1. CASE j = i
      BY <1>6, <2>1
    <2>2. CASE k = i
      BY <1>6, <2>2
    <2>3. CASE j # i /\ k # i
      <3>1. InMemory(j) \cap InMemory(k) = {}
        BY CopyParts
      <3> QED
        BY <1>1, <2>3, <3>1
    <2> QED
      BY <2>1, <2>2, <2>3
  <1>8. \A j \in Instances : Apart(j)' /\ InMemory(j)' \cap InWal' = {}
    BY <1>1, <1>4, <1>5
  <1>9. \A j \in Instances : \A k \in Instances \ {j} : InMemory(j)' \cap InMemory(k)' = {}
    BY <1>7
  <1> HIDE DEF Apart, InMemory, InWal, FilesApart
  <1> QED
    BY <1>8, <1>9 DEF OneCopy, Apart, FilesApart

\* The same when the memory is left alone.
LEMMA CopyFiles ==
    ASSUME OneCopy, \A j \in Instances : SamePlaces(j), FilesApart', InWal' \subseteq InWal
    PROVE  OneCopy'
  <1>1. \A j \in Instances : Apart(j)' /\ InMemory(j)' = InMemory(j)
    BY CopyParts DEF SamePlaces, Apart, InMemory
  <1> QED
    BY <1>1, CopyParts DEF OneCopy, Apart, FilesApart

\* A batch no file has makes a file of its own.
LEMMA SpillApart ==
    ASSUME FilesApart, NEW S, SpillToWAL(S), S \cap InWal = {}
    PROVE  FilesApart' /\ InWal' \subseteq InWal \cup S
  <1>1. InWal' \subseteq InWal \cup S
    <2>1. InWal' = InWal \cup S \/ InWal' = InWal
      BY SpillMoves
    <2> QED
      BY <2>1
  <1>2. CASE UNCHANGED wal
    BY <1>1, <1>2 DEF FilesApart
  <1>3. CASE wal' = wal \cup {[recs |-> S, claim |-> NoClaim, old |-> FALSE]}
    <2> DEFINE n == [recs |-> S, claim |-> NoClaim, old |-> FALSE]
    <2>1. n.recs = S /\ wal' = wal \cup {n}
      BY <1>3
    <2> HIDE DEF n
    <2>2. \A f \in wal : f.recs \cap S = {}
      BY DEF InWal
    <2> QED
      BY <1>1, <2>1, <2>2 DEF FilesApart
  <1> QED
    BY <1>1, <1>2, <1>3 DEF SpillToWAL

\* A file that changes its name or its age keeps its records for itself.
LEMMA ReplaceApart ==
    ASSUME FilesApart, NEW f \in wal, NEW g, g.recs = f.recs, wal' = (wal \ {f}) \cup {g}
    PROVE  FilesApart' /\ InWal' = InWal
  <1>1. FilesApart'
    BY DEF FilesApart
  <1>2. ASSUME NEW r PROVE r \in InWal' <=> r \in InWal
    BY DEF InWal
  <1> QED
    BY <1>1, <1>2

LEMMA RenameApart ==
    ASSUME TypeOK, FilesApart, NEW f \in wal, NEW c, Rename(f, c)
    PROVE  FilesApart' /\ InWal' = InWal
  <1>1. [f EXCEPT !.claim = c].recs = f.recs
    BY DEF TypeOK, File
  <1> QED
    BY <1>1, ReplaceApart DEF Rename

\* One step of a call, a goroutine or a process keeps every record single.
LEMMA CallCopy ==
    ASSUME TypeOK, OneCopy, NEW i \in Instances, NEW r \in Records,
           RecordBegin(i, r) \/ RecordHalted(i, r) \/ RecordSend(i, r)
    PROVE  OneCopy'
  <1>1. Apart(i) /\ FilesApart
    BY CopyParts
  <1>2. \A j \in Instances \ {i} : SamePlaces(j)
    BY DEF RecordBegin, RecordHalted, RecordSend, SamePlaces, TypeOK, queueVars, runVars, spillVars
  <1>3. CASE RecordBegin(i, r)
    <2>1. {r} \cap Alive = {} /\ r \notin InMemory(i)
      BY <1>3, AliveGiven, AliveDef DEF RecordBegin, MayRecord
    <2>2. Apart(i)' /\ InMemory(i)' \subseteq InMemory(i) \cup {r}
      BY <1>1, <1>3, <2>1 DEF RecordBegin, Apart, InMemory, TypeOK, runVars, spillVars
    <2>3. FilesApart' /\ InWal' = InWal
      BY <1>1, <1>3 DEF RecordBegin, FilesApart, InWal
    <2> QED
      BY <1>2, <2>1, <2>2, <2>3, CopyKept
  <1>4. CASE RecordHalted(i, r)
    <2>1. {r} \cap Alive = {} /\ r \notin InMemory(i) /\ {r} \cap InWal = {}
      BY <1>4, AliveGiven, AliveDef DEF RecordHalted, MayRecord
    <2>2. Apart(i)' /\ InMemory(i)' = InMemory(i)
      BY <1>1, <1>4 DEF RecordHalted, Apart, InMemory, queueVars, runVars, spillVars
    <2>3. FilesApart' /\ InWal' \subseteq InWal \cup {r}
      BY <1>1, <1>4, <2>1, SpillApart DEF RecordHalted
    <2> QED
      BY <1>2, <2>1, <2>2, <2>3, CopyKept
  <1>5. CASE RecordSend(i, r)
    <2>1. Apart(i)' /\ InMemory(i)' \subseteq InMemory(i) \cup {}
      BY <1>1, <1>5 DEF RecordSend, Apart, InMemory, TypeOK, runVars, spillVars
    <2>2. FilesApart' /\ InWal' = InWal
      BY <1>1, <1>5 DEF RecordSend, FilesApart, InWal
    <2>3. {} \cap Alive = {}
      OBVIOUS
    <2> QED
      BY <1>2, <2>1, <2>2, <2>3, CopyKept
  <1> QED
    BY <1>3, <1>4, <1>5

LEMMA RunCopy ==
    ASSUME TypeOK, OneCopy, NEW i \in Instances, Run(i)
    PROVE  OneCopy'
  <1>1. Apart(i) /\ FilesApart /\ InMemory(i) \cap InWal = {} /\ {} \cap Alive = {}
    BY CopyParts
  <1>2. \A j \in Instances \ {i} : SamePlaces(j)
    BY DEF Run, RunReceive, RunTick, RunHalt, RunDrained, FlushSucceeds, FlushRetries,
           FlushGivesUp, FlushReturns, SamePlaces, TypeOK, queueVars, spillVars
  <1>3. CASE RunReceive(i)
    <2>1. Apart(i)' /\ InMemory(i)' \subseteq InMemory(i) \cup {}
      BY <1>1, <1>3 DEF RunReceive, Apart, InMemory, TypeOK, spillVars
    <2>2. FilesApart' /\ InWal' = InWal
      BY <1>1, <1>3 DEF RunReceive, FilesApart, InWal
    <2> QED
      BY <1>1, <1>2, <2>1, <2>2, CopyKept
  <1>4. CASE RunTick(i) \/ RunHalt(i) \/ RunDrained(i) \/ FlushRetries(i)
    <2>1. SamePlaces(i)
      BY <1>4 DEF RunTick, RunHalt, RunDrained, FlushRetries, SamePlaces, queueVars, spillVars
    <2>2. FilesApart' /\ InWal' = InWal
      BY <1>1, <1>4 DEF RunTick, RunHalt, RunDrained, FlushRetries, FilesApart, InWal
    <2> QED
      BY <1>2, <2>1, <2>2, CopyFiles
  <1>5. CASE FlushSucceeds(i) \/ FlushGivesUp(i)
    <2>1. /\ batch'[i] = {} /\ calls'[i] = calls[i] /\ ch'[i] = ch[i]
          /\ spillCh'[i] = spillCh[i] /\ spillBatch'[i] = spillBatch[i]
      BY <1>5 DEF FlushSucceeds, FlushGivesUp, FlushReturns, TypeOK, queueVars, spillVars
    <2>2. Apart(i)' /\ InMemory(i)' \subseteq InMemory(i) \cup {} /\ batch[i] \cap InMemory(i)' = {}
      BY <1>1, <2>1 DEF Apart, InMemory
    <2>3. batch[i] \subseteq InMemory(i) /\ batch[i] \cap InWal = {}
      BY <1>1 DEF InMemory
    <2>4. FilesApart' /\ InWal' \subseteq InWal \cup batch[i]
      <3>1. CASE FlushSucceeds(i)
        BY <1>1, <3>1 DEF FlushSucceeds, FilesApart, InWal
      <3>2. CASE FlushGivesUp(i)
        <4>1. SpillToWAL(batch[i])
          BY <3>2 DEF FlushGivesUp
        <4> QED
          BY <1>1, <2>3, <4>1, SpillApart
      <3> QED
        BY <1>5, <3>1, <3>2
    <2>5. InWal' \subseteq InWal \cup ((InMemory(i) \cup {}) \ InMemory(i)')
      BY <2>2, <2>3, <2>4
    <2> QED
      BY <1>1, <1>2, <2>2, <2>4, <2>5, CopyKept
  <1> QED
    BY <1>3, <1>4, <1>5 DEF Run

LEMMA SpillCopy ==
    ASSUME TypeOK, OneCopy, NEW i \in Instances, Spill(i)
    PROVE  OneCopy'
  <1>1. Apart(i) /\ FilesApart /\ InMemory(i) \cap InWal = {} /\ {} \cap Alive = {}
    BY CopyParts
  <1>2. \A j \in Instances \ {i} : SamePlaces(j)
    BY DEF Spill, SpillReceive, SpillWriteOut, SpillHalt, SpillDrained, SamePlaces, TypeOK,
           queueVars, runVars
  <1>3. CASE SpillReceive(i)
    <2>1. Apart(i)' /\ InMemory(i)' \subseteq InMemory(i) \cup {}
      BY <1>1, <1>3 DEF SpillReceive, Apart, InMemory, TypeOK, runVars
    <2>2. FilesApart' /\ InWal' = InWal
      BY <1>1, <1>3 DEF SpillReceive, FilesApart, InWal
    <2> QED
      BY <1>1, <1>2, <2>1, <2>2, CopyKept
  <1>4. CASE SpillHalt(i)
    <2>1. SamePlaces(i) /\ FilesApart' /\ InWal' = InWal
      BY <1>1, <1>4 DEF SpillHalt, SamePlaces, queueVars, runVars, FilesApart, InWal
    <2> QED
      BY <1>2, <2>1, CopyFiles
  <1>5. CASE SpillWriteOut(i) \/ SpillDrained(i)
    <2>1. /\ spillBatch'[i] = {} /\ calls'[i] = calls[i] /\ ch'[i] = ch[i]
          /\ spillCh'[i] = spillCh[i] /\ batch'[i] = batch[i]
      BY <1>5 DEF SpillWriteOut, SpillDrained, TypeOK, queueVars, runVars
    <2>2. /\ Apart(i)' /\ InMemory(i)' \subseteq InMemory(i) \cup {}
          /\ spillBatch[i] \cap InMemory(i)' = {}
      BY <1>1, <2>1 DEF Apart, InMemory
    <2>3. spillBatch[i] \subseteq InMemory(i) /\ spillBatch[i] \cap InWal = {}
      BY <1>1 DEF InMemory
    <2>4. FilesApart' /\ InWal' \subseteq InWal \cup spillBatch[i]
      <3>1. SpillToWAL(spillBatch[i])
        BY <1>5 DEF SpillWriteOut, SpillDrained
      <3> QED
        BY <1>1, <2>3, <3>1, SpillApart
    <2>5. InWal' \subseteq InWal \cup ((InMemory(i) \cup {}) \ InMemory(i)')
      BY <2>2, <2>3, <2>4
    <2> QED
      BY <1>1, <1>2, <2>2, <2>4, <2>5, CopyKept
  <1> QED
    BY <1>3, <1>4, <1>5 DEF Spill

LEMMA ReplayCopy ==
    ASSUME TypeOK, OneCopy, NEW i \in Instances, Replay(i)
    PROVE  OneCopy'
  <1>1. FilesApart
    BY CopyParts
  <1>2. \A j \in Instances : SamePlaces(j)
    BY DEF Replay, ReplayClaim, ReplayReclaim, ReplayRead, ReplayLookup, ReplayInsert,
           ReplayFinish, ReplayFails, ReplayEnds, SamePlaces, queueVars, runVars, spillVars
  <1>3. FilesApart' /\ InWal' \subseteq InWal
    <2>1. CASE UNCHANGED wal
      BY <1>1, <2>1 DEF FilesApart, InWal
    <2>2. CASE wal' = wal \ Claimed(i)
      BY <1>1, <2>2 DEF FilesApart, InWal
    <2>3. CASE \E f \in wal, c \in Instances \cup {NoClaim} : Rename(f, c)
      BY <1>1, <2>3, RenameApart
    <2>4. \/ UNCHANGED wal
          \/ wal' = wal \ Claimed(i)
          \/ \E f \in wal, c \in Instances \cup {NoClaim} : Rename(f, c)
      BY DEF Replay, ReplayClaim, ReplayReclaim, ReplayRead, ReplayLookup, ReplayInsert,
             ReplayFinish, ReplayFails, ReplayEnds, ReturnFile, Claimed
    <2> QED
      BY <2>1, <2>2, <2>3, <2>4
  <1> QED
    BY <1>2, <1>3, CopyFiles

LEMMA ProcessCopy ==
    ASSUME TypeOK, OneCopy, NEW i \in Instances,
           Start(i) \/ StopBegin(i) \/ Exit(i) \/ Crash(i)
    PROVE  OneCopy'
  <1>1. FilesApart' /\ InWal' = InWal
    BY CopyParts DEF Start, StopBegin, Exit, Crash, FilesApart, InWal
  <1>2. CASE Start(i) \/ StopBegin(i)
    <2>1. \A j \in Instances : SamePlaces(j)
      BY <1>2 DEF Start, StopBegin, SamePlaces, queueVars, runVars, spillVars
    <2> QED
      BY <1>1, <2>1, CopyFiles
  <1>3. CASE Exit(i) \/ Crash(i)
    <2>1. \A j \in Instances \ {i} : SamePlaces(j)
      BY <1>3 DEF Exit, Crash, Vanish, SamePlaces, TypeOK
    <2>2. Apart(i)' /\ InMemory(i)' \subseteq InMemory(i) \cup {}
      BY <1>3 DEF Exit, Crash, Vanish, Apart, InMemory, TypeOK
    <2>3. {} \cap Alive = {}
      OBVIOUS
    <2> QED
      BY <1>1, <2>1, <2>2, <2>3, CopyKept
  <1> QED
    BY <1>2, <1>3

LEMMA AgeCopy ==
    ASSUME TypeOK, OneCopy, Age
    PROVE  OneCopy'
  <1>1. \A j \in Instances : SamePlaces(j)
    BY DEF Age, SamePlaces, queueVars, runVars, spillVars
  <1>2. PICK f \in wal : wal' = (wal \ {f}) \cup {[f EXCEPT !.old = TRUE]}
    BY DEF Age
  <1>3. [f EXCEPT !.old = TRUE].recs = f.recs
    BY DEF TypeOK, File
  <1>4. FilesApart' /\ InWal' = InWal
    BY <1>2, <1>3, CopyParts, ReplaceApart
  <1> QED
    BY <1>1, <1>4, CopyFiles

\* A record is at any time in at most one call, queue, batch or file of all
\* the instances: neither the spill of a batch that was committed with its
\* reply lost, nor a file that two instances rename, nor a restart makes a
\* second copy of it.
THEOREM SingleCopy == Spec => []OneCopy
  <1>1. Init => OneCopy
    BY DEF Init, OneCopy, InMemory, InWal
  <1>2. TypeOK /\ OneCopy /\ [Next]_vars => OneCopy'
    <2> SUFFICES ASSUME TypeOK, OneCopy, [Next]_vars PROVE OneCopy'
      OBVIOUS
    <2>1. CASE UNCHANGED vars
      BY <2>1 DEF vars, OneCopy, InMemory, InWal, queueVars, runVars, spillVars
    <2>2. CASE Next
      BY <2>2, CallCopy, RunCopy, SpillCopy, ReplayCopy, ProcessCopy, AgeCopy DEF Next
    <2> QED
      BY <2>1, <2>2
  <1> QED
    BY <1>1, <1>2, TypeCorrect, PTL DEF Spec

----------------------------------------------------------------------------
(* What a graceful stop leaves behind.                                     *)

\* How far the stop of instance i has come, and what is then left in its
\* queues: a drain that is over leaves only what was sent after it, by calls
\* that Stop overtook.
StopStage(i) ==
    /\ proc[i] = "stopping" => calls[i] \subseteq LateRecords
    /\ run[i] \in {"drain", "flushLast", "done"} => proc[i] = "stopping"
    /\ spill[i] \in {"drain", "done"} => proc[i] = "stopping"
    /\ run[i] \in {"flushLast", "done"} => ch[i] \subseteq LateRecords
    /\ run[i] = "done" => batch[i] = {}
    /\ spill[i] = "done" => spillCh[i] \subseteq LateRecords /\ spillBatch[i] = {}

StopInv == StopStrandsNothing /\ \A i \in Instances : StopStage(i)

\* An instance a step does not touch stays where it was.
LEMMA StageKept ==
    ASSUME NEW i \in Instances, StopStage(i), SamePlaces(i),
           proc'[i] = proc[i], run'[i] = run[i], spill'[i] = spill[i]
    PROVE  StopStage(i)'
  BY DEF StopStage, SamePlaces

\* A step of instance i touches no other.
LEMMA OneStage ==
    ASSUME TypeOK, NEW i \in Instances,
           \/ \E r \in Records : RecordBegin(i, r) \/ RecordHalted(i, r) \/ RecordSend(i, r)
           \/ Run(i) \/ Spill(i) \/ Replay(i)
           \/ Start(i) \/ StopBegin(i) \/ Exit(i) \/ Crash(i)
    PROVE  \A j \in Instances \ {i} :
              SamePlaces(j) /\ proc'[j] = proc[j] /\ run'[j] = run[j] /\ spill'[j] = spill[j]
  <1> USE DEF SamePlaces, TypeOK, procVars, queueVars, runVars, spillVars
  <1>1. CASE \E r \in Records : RecordBegin(i, r) \/ RecordHalted(i, r) \/ RecordSend(i, r)
    BY <1>1 DEF RecordBegin, RecordHalted, RecordSend
  <1>2. CASE Run(i)
    BY <1>2 DEF Run, RunReceive, RunTick, RunHalt, RunDrained, FlushSucceeds, FlushRetries,
                FlushGivesUp, FlushReturns
  <1>3. CASE Spill(i)
    BY <1>3 DEF Spill, SpillReceive, SpillWriteOut, SpillHalt, SpillDrained
  <1>4. CASE Replay(i)
    BY <1>4 DEF Replay, ReplayClaim, ReplayReclaim, ReplayRead, ReplayLookup, ReplayInsert,
                ReplayFinish, ReplayFails, ReplayEnds
  <1>5. CASE Start(i) \/ StopBegin(i) \/ Exit(i) \/ Crash(i)
    BY <1>5 DEF Start, StopBegin, Exit, Crash, Vanish
  <1> QED
    BY <1>1, <1>2, <1>3, <1>4, <1>5

\* The instance that steps.
LEMMA CallStage ==
    ASSUME TypeOK, NEW i \in Instances, NEW r \in Records, StopStage(i),
           RecordBegin(i, r) \/ RecordHalted(i, r) \/ RecordSend(i, r)
    PROVE  StopStage(i)' /\ stranded' = stranded
  <1> USE DEF StopStage, TypeOK, procVars, queueVars, runVars, spillVars, goneVars
  <1>1. CASE RecordBegin(i, r)
    BY <1>1 DEF RecordBegin, MayRecord
  <1>2. CASE RecordHalted(i, r)
    BY <1>2 DEF RecordHalted
  <1>3. CASE RecordSend(i, r)
    <2>1. /\ proc' = proc /\ run' = run /\ batch' = batch /\ spill' = spill
          /\ spillBatch' = spillBatch /\ stranded' = stranded
      BY <1>3 DEF RecordSend
    <2>2. /\ calls'[i] \subseteq calls[i]
          /\ ch'[i] \subseteq ch[i] \cup {r} /\ spillCh'[i] \subseteq spillCh[i] \cup {r}
      BY <1>3 DEF RecordSend
    <2>3. proc[i] = "stopping" => r \in LateRecords
      BY <1>3 DEF RecordSend
    <2> QED
      BY <2>1, <2>2, <2>3
  <1> QED
    BY <1>1, <1>2, <1>3

LEMMA RunStage ==
    ASSUME TypeOK, FlushHasBatch, NEW i \in Instances, StopStage(i), Run(i)
    PROVE  StopStage(i)' /\ stranded' = stranded
  <1> USE DEF StopStage, TypeOK, procVars, queueVars, spillVars, goneVars
  <1>1. CASE RunReceive(i)
    BY <1>1 DEF RunReceive
  <1>2. CASE RunTick(i)
    BY <1>2 DEF RunTick
  <1>3. CASE RunHalt(i)
    BY <1>3 DEF RunHalt
  <1>4. CASE RunDrained(i)
    BY <1>4 DEF RunDrained
  <1>5. CASE FlushSucceeds(i)
    BY <1>5 DEF FlushSucceeds, FlushReturns, Flushing
  <1>6. CASE FlushRetries(i)
    BY <1>6 DEF FlushRetries
  <1>7. CASE FlushGivesUp(i)
    BY <1>7 DEF FlushGivesUp, FlushReturns, Flushing
  <1> QED
    BY <1>1, <1>2, <1>3, <1>4, <1>5, <1>6, <1>7 DEF Run

LEMMA SpillStage ==
    ASSUME TypeOK, NEW i \in Instances, StopStage(i), Spill(i)
    PROVE  StopStage(i)' /\ stranded' = stranded
  <1> USE DEF StopStage, TypeOK, procVars, queueVars, runVars, goneVars
  <1>1. CASE SpillReceive(i)
    BY <1>1 DEF SpillReceive
  <1>2. CASE SpillWriteOut(i)
    BY <1>2 DEF SpillWriteOut
  <1>3. CASE SpillHalt(i)
    BY <1>3 DEF SpillHalt
  <1>4. CASE SpillDrained(i)
    BY <1>4 DEF SpillDrained
  <1> QED
    BY <1>1, <1>2, <1>3, <1>4 DEF Spill

LEMMA ReplayStage ==
    ASSUME NEW i \in Instances, StopStage(i), Replay(i)
    PROVE  StopStage(i)' /\ stranded' = stranded
  <1>1. /\ UNCHANGED <<procVars, queueVars, runVars, spillVars>>
        /\ stranded' = stranded
    BY DEF Replay, ReplayClaim, ReplayReclaim, ReplayRead, ReplayLookup, ReplayInsert,
           ReplayFinish, ReplayFails, ReplayEnds, goneVars
  <1> QED
    BY <1>1 DEF StopStage, procVars, queueVars, runVars, spillVars

LEMMA ProcessStage ==
    ASSUME TypeOK, StopStrandsNothing, NEW i \in Instances, StopStage(i),
           Start(i) \/ StopBegin(i) \/ Exit(i) \/ Crash(i)
    PROVE  StopStage(i)' /\ StopStrandsNothing'
  <1> USE DEF StopStage, StopStrandsNothing, TypeOK, queueVars, runVars, spillVars, goneVars
  <1>1. CASE Start(i)
    BY <1>1 DEF Start
  <1>2. CASE StopBegin(i)
    BY <1>2 DEF StopBegin
  <1>3. CASE Exit(i)
    <2>1. InMemory(i) \ calls[i] \subseteq ch[i] \cup spillCh[i]
      BY <1>3 DEF Exit, InMemory
    <2>2. stranded' \subseteq LateRecords
      BY <1>3, <2>1 DEF Exit
    <2>3. proc'[i] = "off" /\ run'[i] = "collect" /\ spill'[i] = "collect"
      BY <1>3 DEF Exit, Vanish
    <2> QED
      BY <2>2, <2>3
  <1>4. CASE Crash(i)
    <2>1. proc'[i] = "off" /\ run'[i] = "collect" /\ spill'[i] = "collect"
      BY <1>4 DEF Crash, Vanish
    <2> QED
      BY <1>4, <2>1 DEF Crash
  <1> QED
    BY <1>1, <1>2, <1>3, <1>4

\* A graceful stop leaves behind no record whose Record call had returned
\* before Stop was called: when the process exits, the run and spill
\* goroutines have emptied their queues and batches, and only calls that
\* Stop overtook have put something there since.
THEOREM StopDrains == Spec => []StopStrandsNothing
  <1>1. Init => StopInv
    BY DEF Init, StopInv, StopStage, StopStrandsNothing
  <1>2. IInv /\ StopInv /\ [Next]_vars => StopInv'
    <2> SUFFICES ASSUME IInv, StopInv, [Next]_vars PROVE StopInv'
      OBVIOUS
    <2>1. ASSUME NEW i \in Instances,
                 StopStage(i)' /\ StopStrandsNothing',
                 \A j \in Instances \ {i} :
                    SamePlaces(j) /\ proc'[j] = proc[j] /\ run'[j] = run[j] /\ spill'[j] = spill[j]
          PROVE  StopInv'
      BY <2>1, StageKept DEF StopInv
    <2>2. CASE Age \/ UNCHANGED vars
      <3>1. UNCHANGED <<procVars, queueVars, runVars, spillVars, goneVars>>
        BY <2>2 DEF Age, vars
      <3>2. stranded' = stranded
        BY <3>1 DEF goneVars
      <3>3. \A i \in Instances : StopStage(i)'
        BY <3>1 DEF StopInv, StopStage, procVars, queueVars, runVars, spillVars
      <3> QED
        BY <3>2, <3>3 DEF StopInv, StopStrandsNothing
    <2>3. ASSUME NEW i \in Instances,
                 \/ \E r \in Records : RecordBegin(i, r) \/ RecordHalted(i, r) \/ RecordSend(i, r)
                 \/ Run(i) \/ Spill(i) \/ Replay(i)
                 \/ Start(i) \/ StopBegin(i) \/ Exit(i) \/ Crash(i)
          PROVE  StopInv'
      <3>1. StopStage(i) /\ StopStrandsNothing
        BY DEF StopInv
      <3>2. StopStage(i)' /\ StopStrandsNothing'
        <4>1. (StopStage(i)' /\ stranded' = stranded) \/ (StopStage(i)' /\ StopStrandsNothing')
          BY <2>3, <3>1, CallStage, RunStage, SpillStage, ReplayStage, ProcessStage DEF IInv
        <4> QED
          BY <3>1, <4>1 DEF StopStrandsNothing
      <3>3. \A j \in Instances \ {i} :
               SamePlaces(j) /\ proc'[j] = proc[j] /\ run'[j] = run[j] /\ spill'[j] = spill[j]
        BY <2>3, OneStage DEF IInv
      <3> QED
        BY <2>1, <3>2, <3>3
    <2> QED
      BY <2>2, <2>3 DEF Next
  <1> QED
    BY <1>1, <1>2, Invariant, PTL DEF Spec, StopInv
=============================================================================
