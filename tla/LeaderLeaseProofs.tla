------------------------- MODULE LeaderLeaseProofs -------------------------
(***************************************************************************)
(* Proofs about LeaderLease for any set of instances, any lease and any    *)
(* number of failures.                                                     *)
(***************************************************************************)
EXTENDS LeaderLease, TLAPS

\* The lease outlasts a slow first call, the period after it and another slow
\* call.
Timely == 2 * MaxDelay + Period < TTL

----------------------------------------------------------------------------
(* The inductive invariant.                                                *)

\* An instance that has not started has no call and no flag; the loop has a
\* ticker, before it there is nothing to serve but the first call.
Stages == \A i \in Instances :
    /\ process[i] = "new" => ~isLeader[i] /\ call[i] = "none" /\ late[i] = 0
    /\ process[i] = "starting" => ~isLeader[i] /\ call[i] # "none"
    /\ process[i] \in {"new", "starting"} => due[i] = 0 /\ ~fired[i]
    /\ process[i] = "up" => due[i] > 0 /\ (call[i] = "none" /\ ~fired[i] => late[i] = 0)

\* The time after which the flag will have been written again.
Left(i) == MaxDelay + (IF call[i] = "none" /\ ~fired[i] THEN due[i] ELSE 0) - late[i]

\* The lease of a leader outlasts the time its flag may stand; a call that
\* has won still holds the key, for all but the time since it was sent.
Kept == \A i \in Instances : process[i] \in {"starting", "up"} =>
    /\ isLeader[i] => holder = i /\ call[i] # "lost" /\ ttl > Left(i)
    /\ call[i] = "won" => holder = i /\ ttl + late[i] >= TTL

IInv == TypeOK /\ Stages /\ Kept

----------------------------------------------------------------------------
(* Types.                                                                  *)

LEMMA InitType == Init => TypeOK
<1> USE LeaseAssumption
<1> QED BY SMT DEF Init, TypeOK

LEMMA NextType == TypeOK /\ [Next]_vars => TypeOK'
<1> USE LeaseAssumption
<1> SUFFICES ASSUME TypeOK, [Next]_vars PROVE TypeOK'
    OBVIOUS
<1>1. ASSUME NEW i \in Instances, Start(i) PROVE TypeOK'
    BY <1>1, SMT DEF Start, lease, loop, TypeOK
<1>2. ASSUME NEW i \in Instances, Send(i) PROVE TypeOK'
    BY <1>2, SMT DEF Send, lease, TypeOK
<1>3. ASSUME NEW i \in Instances, Execute(i) PROVE TypeOK'
    BY <1>3, SMT DEF Execute, Acquire, lease, TypeOK
<1>4. ASSUME NEW i \in Instances, Hear(i) PROVE TypeOK'
    <2>1. isLeader' \in [Instances -> BOOLEAN]
        BY <1>4, Zenon DEF Hear, TypeOK
    <2> QED BY <1>4, <2>1, SMT DEF Hear, Answered, lease, TypeOK
<1>5. ASSUME NEW i \in Instances, Fails(i) PROVE TypeOK'
    BY <1>5, SMT DEF Fails, Answered, lease, TypeOK
<1>6. ASSUME NEW i \in Instances, Shutdown(i) PROVE TypeOK'
    BY <1>6, SMT DEF Shutdown, lease, loop, TypeOK
<1>7. ASSUME NEW i \in Instances, Release(i) PROVE TypeOK'
    BY <1>7, SMT DEF Release, lease, loop, TypeOK
<1>8. ASSUME NEW i \in Instances, Exit(i) PROVE TypeOK'
    BY <1>8, SMT DEF Exit, lease, loop, TypeOK
<1>9. CASE Tick
    <2>1. late' \in [Instances -> 0 .. MaxDelay]
        <3> SUFFICES ASSUME NEW i \in Instances
            PROVE (IF Busy(i) THEN late[i] + 1 ELSE late[i]) \in 0 .. MaxDelay
            BY <1>9, Zenon DEF Tick
        <3> QED BY <1>9, SMT DEF Tick, TypeOK
    <2>2. due' \in [Instances -> 0 .. Period]
        BY <1>9, SMT DEF Tick, Less, TypeOK
    <2>3. fired' \in [Instances -> BOOLEAN]
        <3> SUFFICES ASSUME NEW i \in Instances
            PROVE (fired[i] \/ (process[i] = "up" /\ due[i] = 1)) \in BOOLEAN
            BY <1>9, Zenon DEF Tick
        <3> QED BY DEF TypeOK
    <2>4. ttl' \in 0 .. TTL /\ holder' \in Instances \cup {Nobody} /\ ((ttl' = 0) <=> (holder' = Nobody))
        BY <1>9, SMT DEF Tick, Less, TypeOK
    <2> QED BY <1>9, <2>1, <2>2, <2>3, <2>4 DEF Tick, TypeOK
<1>10. CASE UNCHANGED vars
    BY <1>10 DEF vars, lease, loop, TypeOK
<1> QED BY <1>1, <1>2, <1>3, <1>4, <1>5, <1>6, <1>7, <1>8, <1>9, <1>10
        DEF Next, Loop, Ends

\* Every variable of the election keeps its type.
THEOREM TypeCorrect == Spec => []TypeOK
BY InitType, NextType, PTL DEF Spec

----------------------------------------------------------------------------
(* At most one leader.                                                     *)

LEMMA InitInv == Init => IInv
<1> USE LeaseAssumption
<1> QED BY InitType, SMT DEF Init, IInv, Stages, Kept

LEMMA NextStages == TypeOK /\ Stages /\ [Next]_vars => Stages'
<1> USE LeaseAssumption
<1> SUFFICES ASSUME TypeOK, Stages, [Next]_vars PROVE Stages'
    OBVIOUS
<1>1. ASSUME NEW i \in Instances, Loop(i) PROVE Stages'
    <2>1. CASE Start(i)
        BY <2>1, SMT DEF Start, TypeOK, Stages
    <2>2. CASE Send(i)
        BY <2>2, SMT DEF Send, TypeOK, Stages
    <2>3. CASE Execute(i)
        BY <2>3, SMT DEF Execute, Acquire, TypeOK, Stages
    <2>4. CASE Hear(i) \/ Fails(i)
        BY <2>4, SMT DEF Hear, Fails, Answered, Alive, TypeOK, Stages
    <2> QED BY <1>1, <2>1, <2>2, <2>3, <2>4 DEF Loop
<1>2. ASSUME NEW i \in Instances, Ends(i) PROVE Stages'
    BY <1>2, SMT DEF Ends, Shutdown, Release, Exit, Alive, lease, loop, TypeOK, Stages
<1>3. CASE Tick
    <2> SUFFICES ASSUME NEW j \in Instances
                 PROVE /\ process[j] = "new" => late'[j] = 0
                       /\ process[j] \in {"new", "starting"} => due'[j] = 0 /\ ~fired'[j]
                       /\ process[j] = "up" =>
                            due'[j] > 0 /\ (call[j] = "none" /\ ~fired'[j] => late'[j] = 0)
        BY <1>3 DEF Tick, Stages
    <2>1. due[j] \in 0 .. Period /\ late[j] \in 0 .. MaxDelay /\ fired[j] \in BOOLEAN
        BY DEF TypeOK
    <2>2. /\ due'[j] = IF process[j] = "up" /\ due[j] = 1 THEN Period ELSE Less(due[j])
          /\ late'[j] = IF Busy(j) THEN late[j] + 1 ELSE late[j]
        BY <1>3, Zenon DEF Tick
    <2>3. fired'[j] <=> fired[j] \/ (process[j] = "up" /\ due[j] = 1)
        BY <1>3, Zenon DEF Tick
    <2> QED BY <2>1, <2>2, <2>3, SMT DEF Less, Busy, Stages
<1>4. CASE UNCHANGED vars
    BY <1>4 DEF vars, loop, Stages
<1> QED BY <1>1, <1>2, <1>3, <1>4 DEF Next

\* A step of one instance's loop leaves the lease of the others alone.
LEMMA NextKept ==
    ASSUME Timely PROVE IInv /\ [Next]_vars => Kept'
<1> USE LeaseAssumption
<1> SUFFICES ASSUME IInv, [Next]_vars PROVE Kept'
    OBVIOUS
<1> USE DEF IInv
<1>1. ASSUME NEW i \in Instances, Start(i) PROVE Kept'
    BY <1>1, SMT DEF Start, lease, TypeOK, Stages, Kept, Left
<1>2. ASSUME NEW i \in Instances, Send(i) PROVE Kept'
    BY <1>2, SMT DEF Send, lease, TypeOK, Stages, Kept, Left
<1>3. ASSUME NEW i \in Instances, Execute(i) PROVE Kept'
    BY <1>3, Timely, SMT DEF Execute, Acquire, lease, Timely, TypeOK, Kept, Left
<1>4. ASSUME NEW i \in Instances, Hear(i) PROVE Kept'
    BY <1>4, Timely, SMT DEF Hear, Answered, Alive, lease, Timely, TypeOK, Stages, Kept, Left
<1>5. ASSUME NEW i \in Instances, Fails(i) PROVE Kept'
    BY <1>5, SMT DEF Fails, Answered, Alive, lease, TypeOK, Stages, Kept, Left
<1>6. ASSUME NEW i \in Instances, Ends(i) PROVE Kept'
    BY <1>6, SMT DEF Ends, Shutdown, Release, Exit, Alive, lease, loop, TypeOK, Kept, Left
<1>7. CASE Tick
    <2> SUFFICES ASSUME NEW j \in Instances, process[j] \in {"starting", "up"}
                 PROVE /\ isLeader[j] => holder' = j /\ call[j] # "lost" /\ ttl' > Left(j)'
                       /\ call[j] = "won" => holder' = j /\ ttl' + late'[j] >= TTL
        BY <1>7 DEF Tick, Kept
    <2>1. due[j] \in 0 .. Period /\ late[j] \in 0 .. MaxDelay /\ ttl \in 0 .. TTL /\ fired[j] \in BOOLEAN
        BY DEF TypeOK
    <2>2. /\ due'[j] = IF process[j] = "up" /\ due[j] = 1 THEN Period ELSE Less(due[j])
          /\ late'[j] = IF Busy(j) THEN late[j] + 1 ELSE late[j]
        BY <1>7, Zenon DEF Tick
    <2>3. fired'[j] <=> fired[j] \/ (process[j] = "up" /\ due[j] = 1)
        BY <1>7, Zenon DEF Tick
    <2>4. Busy(j) => late[j] < MaxDelay
        BY <1>7 DEF Tick
    <2>5. /\ ttl' = Less(ttl) /\ holder' = (IF ttl <= 1 THEN Nobody ELSE holder) /\ call' = call
        BY <1>7 DEF Tick
    <2>6. isLeader[j] => holder' = j /\ call[j] # "lost" /\ ttl' > Left(j)'
        BY <2>1, <2>2, <2>3, <2>4, <2>5, SMT DEF Less, Busy, Stages, Kept, Left
    <2>7. call[j] = "won" => holder' = j /\ ttl' + late'[j] >= TTL
        BY <2>1, <2>2, <2>4, <2>5, Timely, SMT DEF Timely, Less, Busy, Kept
    <2> QED BY <2>6, <2>7
<1>8. CASE UNCHANGED vars
    BY <1>8 DEF vars, lease, loop, Kept, Left
<1> QED BY <1>1, <1>2, <1>3, <1>4, <1>5, <1>6, <1>7, <1>8 DEF Next, Loop

\* If the lease outlasts a period and two calls, at most one instance sees
\* itself as the leader: IsLeader may be believed without asking Redis.
THEOREM AtMostOneLeader == ASSUME Timely PROVE Spec => []OneLeader
<1>1. IInv /\ [Next]_vars => IInv'
    BY NextType, NextStages, NextKept DEF IInv
<1>2. IInv => OneLeader
    BY DEF IInv, Kept, OneLeader, Leads
<1> QED BY InitInv, <1>1, <1>2, PTL DEF Spec
=============================================================================
