------------------------- MODULE KeyAdmissionProofs ------------------------
(***************************************************************************)
(* Proofs about KeyAdmission for any set of clients and replicas, any      *)
(* lifetime and delay, any quota and any limits.                           *)
(***************************************************************************)
EXTENDS KeyAdmission, FiniteSetTheorems, TLAPS

----------------------------------------------------------------------------
(* Types.                                                                  *)

\* A reader that is between reading a verdict and passing it on has one.
Reader == \A r \in Clients : pc[r] \in Reading => verdict[r] \in Verdicts

LEMMA Bounds == MaxAge \in Nat /\ MaxAge >= Lag
BY KeyAdmissionAssumption, SMT DEF MaxAge

\* What may become of the age of a change.
LEMMA Ages == ASSUME TypeOK, Changes PROVE since' \in 0 .. MaxAge + 1
BY Bounds, SMT DEF TypeOK, Changes

LEMMA InitType == Init => TypeOK /\ Reader
<1> USE KeyAdmissionAssumption
<1> SUFFICES ASSUME Init PROVE TypeOK /\ Reader
    OBVIOUS
<1>1. Expired \in Entries
    BY SMT DEF Expired, Entries, Verdicts
<1>2. local \in [Replicas -> Entries] /\ shared \in Entries
    BY <1>1 DEF Init
<1> QED BY <1>2, SMT DEF Init, TypeOK, Reader, Rows, Reads, NoRow, NoRead, Stages, Reading, MaxAge

LEMMA CurrentIsVerdict == Current \in Verdicts
BY DEF Current, Verdicts

\* What a lifetime does to a copy.
LEMMA Copies ==
    /\ Expired \in Entries
    /\ \A v \in Verdicts : Entry(v) \in Entries
    /\ \A e \in Entries : Older(e) \in Entries
BY KeyAdmissionAssumption, SMT DEF Expired, Entry, Older, Entries, Verdicts

\* A row of which base and start are written.
LEMMA Rewritten ==
    ASSUME NEW m \in Rows, NEW b \in Nat, NEW s \in Nat
    PROVE  [m EXCEPT !.base = b, !.start = s] \in Rows
<1> DEFINE n == [m EXCEPT !.base = b]
<1>1. n \in Rows
    BY SMT DEF Rows
<1> HIDE DEF n
<1>2. [n EXCEPT !.start = s] \in Rows
    BY <1>1, SMT DEF Rows
<1> QED BY <1>2 DEF n

LEMMA NextType == TypeOK /\ Reader /\ [Next]_vars => TypeOK' /\ Reader'
<1> USE KeyAdmissionAssumption, Copies, Bounds
<1> SUFFICES ASSUME TypeOK, Reader, [Next]_vars PROVE TypeOK' /\ Reader'
    OBVIOUS
<1> USE DEF TypeOK, Reader
<1>1. CASE Switch
    BY <1>1, Ages, SMT DEF Switch, cacheVars, readVars, slotVars
<1>2. CASE NextPeriod
    BY <1>2, Ages, SMT DEF NextPeriod, cacheVars, readVars, slotVars
<1>3. CASE Tick
    <2>1. lag' \in [Clients -> 0 .. Lag]
        BY <1>3, SMT DEF Tick
    <2>2. local' \in [Replicas -> Entries] /\ shared' \in Entries
        BY <1>3, Zenon DEF Tick
    <2>3. since' \in 0 .. MaxAge + 1
        BY <1>3, SMT DEF Tick, MaxAge
    <2> QED BY <1>3, <2>1, <2>2, <2>3, Zenon DEF Tick, rowVars, slotVars
<1>4. ASSUME NEW i \in Writers, Charge(i) \/ Edit(i) \/ Reset(i) PROVE TypeOK' /\ Reader'
    <2>1. local' \in [Replicas -> Entries] /\ clearing' \subseteq Replicas
        BY <1>4, SMT DEF Charge, Edit, Reset, Invalidate
    <2>2. member' \in Rows
        <3>1. CASE Charge(i)
            BY <3>1, SMT DEF Charge, Rows
        <3>2. CASE Edit(i)
            BY <3>2 DEF Edit
        <3>3. CASE Reset(i)
            <4>1. member.used \in Nat
                BY DEF Rows
            <4> QED BY <3>3, <4>1, Rewritten, Zenon DEF Reset
        <3> QED BY <1>4, <3>1, <3>2, <3>3
    <2>3. since' \in 0 .. MaxAge + 1
        BY <1>4, Ages DEF Charge, Edit, Reset
    <2>4. enabled' \in BOOLEAN
        BY <1>4, Zenon DEF Charge, Edit, Reset
    <2> QED BY <1>4, <2>1, <2>2, <2>3, <2>4 DEF Charge, Edit, Reset, readVars, slotVars
<1>5. ASSUME NEW i \in Writers, ClearShared(i) PROVE TypeOK' /\ Reader'
    BY <1>5, SMT DEF ClearShared, rowVars, readVars, slotVars
<1>6. ASSUME NEW r \in Clients, Validate(r) PROVE TypeOK' /\ Reader'
    <2> USE DEF Step, Learn, Told, Stages, Reading
    <2>1. CASE ReadLocal(r)
        <3>1. pc' \in [Clients -> Stages] /\ verdict' \in [Clients -> Verdicts \cup {"none"}]
              /\ lag' \in [Clients -> 0 .. Lag]
            BY <2>1, SMT DEF ReadLocal
        <3>2. \A q \in Clients : pc'[q] \in Reading => pc[q] \in Reading /\ verdict'[q] = verdict[q]
            BY <2>1, SMT DEF ReadLocal
        <3> QED BY <2>1, <3>1, <3>2 DEF ReadLocal, rowVars, cacheVars, slotVars
    <2>2. CASE ReadShared(r)
        <3>1. shared.verdict \in Verdicts
            BY DEF Entries
        <3>2. pc' \in [Clients -> Stages] /\ verdict' \in [Clients -> Verdicts \cup {"none"}]
              /\ lag' \in [Clients -> 0 .. Lag]
            BY <2>2, <3>1, SMT DEF ReadShared
        <3>3. Reader'
            BY <2>2, <3>1, SMT DEF ReadShared
        <3> QED BY <2>2, <3>2, <3>3 DEF ReadShared, rowVars, cacheVars, slotVars
    <2>3. CASE Keep(r)
        BY <2>3, SMT DEF Keep, rowVars, slotVars
    <2>4. CASE Query(r)
        <3>1. seen' \in [Clients -> Reads]
            BY <2>4, SMT DEF Query, Reads, Rows, NoRead
        <3> QED BY <2>4, <3>1, CurrentIsVerdict, SMT DEF Query, rowVars, cacheVars, slotVars
    <2>5. CASE QueryFails(r)
        BY <2>5, SMT DEF QueryFails, rowVars, cacheVars, readVars, slotVars
    <2>6. CASE Roll(r)
        <3>1. seen' \in [Clients -> Reads]
            BY <2>6, SMT DEF Roll, Reads, NoRead
        <3>3. member' \in Rows
            <4>1. seen[r].used \in Nat /\ seen[r].now \in Nat
                BY DEF Reads
            <4>2. [member EXCEPT !.base = seen[r].used, !.start = seen[r].now] \in Rows
                <5> DEFINE b == seen[r].used
                           n == seen[r].now
                <5>1. b \in Nat /\ n \in Nat /\ member \in Rows
                    BY <4>1
                <5> HIDE DEF b, n
                <5>2. [member EXCEPT !.base = b, !.start = n] \in Rows
                    BY ONLY <5>1, Rewritten
                <5> QED BY <5>2 DEF b, n
            <4> QED BY <2>6, <4>2, Zenon DEF Roll
        <3>2. since' \in 0 .. MaxAge + 1
            BY <2>6, Ages DEF Roll
        <3> QED BY <2>6, <3>1, <3>2, <3>3, SMT DEF Roll, cacheVars, slotVars
    <2>7. CASE Store(r)
        BY <2>7, SMT DEF Store, rowVars, readVars, slotVars
    <2>8. CASE Share(r)
        BY <2>8, SMT DEF Share, rowVars, slotVars
    <2> QED BY <1>6, <2>1, <2>2, <2>3, <2>4, <2>5, <2>6, <2>7, <2>8 DEF Validate
<1>7. ASSUME NEW r \in Clients, Slots(r) PROVE TypeOK' /\ Reader'
    <2> USE DEF Step, Stages, Reading, Uncached, rowVars, cacheVars, readVars
    <2>1. CASE AcquireUser(r)
        <3>1. users' \subseteq Clients /\ free' \subseteq Clients
            BY <2>1 DEF AcquireUser, Acquired, Young
        <3>2. pc' \in [Clients -> Stages] /\ (\A q \in Clients : pc'[q] \in Reading => pc[q] \in Reading)
            BY <2>1, SMT DEF AcquireUser
        <3> QED BY <2>1, <3>1, <3>2 DEF AcquireUser
    <2>2. CASE AcquireKey(r)
        <3>1. keys' \subseteq Clients /\ free' \subseteq Clients
            BY <2>2 DEF AcquireKey, Acquired, Young
        <3>2. pc' \in [Clients -> Stages] /\ (\A q \in Clients : pc'[q] \in Reading => pc[q] \in Reading)
            BY <2>2, SMT DEF AcquireKey
        <3> QED BY <2>2, <3>1, <3>2 DEF AcquireKey
    <2>3. CASE Deny(r) \/ Release(r)
        BY <2>3, SMT DEF Deny, Release
    <2>4. CASE Cancel(r)
        BY <2>4, Zenon DEF Cancel, slotVars
    <2>5. CASE Outlive(r)
        BY <2>5, SMT DEF Outlive
    <2>6. CASE Again(r)
        BY <2>6, SMT DEF Again
    <2> QED BY <1>7, <2>1, <2>2, <2>3, <2>4, <2>5, <2>6 DEF Slots
<1>8. CASE UNCHANGED vars
    BY <1>8 DEF vars, rowVars, cacheVars, readVars, slotVars
<1> QED BY <1>1, <1>2, <1>3, <1>4, <1>5, <1>6, <1>7, <1>8 DEF Next

\* Every variable of the admission keeps its type.
THEOREM TypeCorrect == Spec => []TypeOK
BY InitType, NextType, PTL DEF Spec
----------------------------------------------------------------------------
(* Slots.                                                                  *)

\* A slot is one of a request that runs or is on its way there, or of one that
\* could not give it back.
SlotsHaveOwners == \A r \in Clients :
    /\ r \in users => pc[r] \in {"key", "deny", "run"} \/ (pc[r] = "done" /\ r \in kept)
    /\ r \in keys => pc[r] = "run" \/ (pc[r] = "done" /\ r \in kept)

\* Only a request that was not let pass is certain to have its slots.
OwnersHaveSlots == \A r \in Clients : r \notin free \cup overdue =>
    /\ pc[r] \in {"key", "deny", "run"} => r \in users
    /\ pc[r] = "run" => r \in keys

Fits == /\ Cardinality(Young(users)) <= limits.user
        /\ Cardinality(Young(keys)) <= limits.key

SlotsInv == SlotsHaveOwners /\ OwnersHaveSlots /\ Fits

\* Fewer slots, or more of them overdue, fit as well.
LEMMA Fewer ==
    ASSUME NEW S \in SUBSET Clients, NEW T, T \subseteq S, NEW max \in Nat, Cardinality(S) <= max
    PROVE  Cardinality(T) <= max /\ IsFiniteSet(T) /\ Cardinality(T) \in Nat
<1>1. IsFiniteSet(S)
    BY KeyAdmissionAssumption, FS_Subset
<1>2. IsFiniteSet(T) /\ Cardinality(T) <= Cardinality(S)
    BY <1>1, FS_Subset
<1>3. Cardinality(S) \in Nat /\ Cardinality(T) \in Nat
    BY <1>1, <1>2, FS_CardinalityType
<1> QED BY <1>2, <1>3, SMT

\* acquireSlotScript: a slot taken where there is room fits.
LEMMA Taken ==
    ASSUME NEW S \in SUBSET Clients, NEW r \in Clients, NEW max \in Nat, Room(S, max)
    PROVE  Cardinality(Young(Young(S) \cup {r})) <= max
<1>1. IsFiniteSet(Young(S)) /\ Cardinality(Young(S)) \in Nat
    BY KeyAdmissionAssumption, FS_Subset, FS_CardinalityType DEF Young
<1>2. Cardinality(Young(S) \cup {r}) <= Cardinality(Young(S)) + 1
    BY <1>1, FS_AddElement, SMT
<1>3. IsFiniteSet(Young(S) \cup {r})
    BY <1>1, FS_AddElement
<1>4. Cardinality(Young(S) \cup {r}) <= max
    BY <1>1, <1>2, <1>3, FS_CardinalityType, SMT DEF Room
<1>5. Young(S) \cup {r} \in SUBSET Clients /\ Young(Young(S) \cup {r}) \subseteq Young(S) \cup {r}
    BY DEF Young
<1> QED BY <1>4, <1>5, Fewer

\* What the script leaves fits, if what it found did.
LEMMA ScriptFits ==
    ASSUME NEW S \in SUBSET Clients, NEW r \in Clients, NEW max \in Nat, Cardinality(Young(S)) <= max,
           NEW T \in {S, Acquired(S, max, r)}
    PROVE  Cardinality(Young(T)) <= max
<1>1. CASE T = S
    BY <1>1
<1>2. CASE Room(S, max) /\ T = Young(S) \cup {r}
    BY <1>2, Taken
<1>3. CASE T = Young(S)
    <2>1. Young(T) = Young(S)
        BY <1>3 DEF Young
    <2> QED BY <2>1
<1> QED BY <1>1, <1>2, <1>3 DEF Acquired

\* The script gives r a slot or no one, and keeps those that are not overdue.
LEMMA ScriptSlots ==
    ASSUME NEW S, NEW r, NEW max, NEW T \in {S, Acquired(S, max, r)}
    PROVE  T \subseteq S \cup {r} /\ S \ overdue \subseteq T
BY DEF Acquired, Young

LEMMA InitSlots == Init => SlotsInv
<1> SUFFICES ASSUME Init PROVE SlotsInv
    OBVIOUS
<1>1. SlotsHaveOwners /\ OwnersHaveSlots
    BY DEF Init, SlotsHaveOwners, OwnersHaveSlots
<1>2. Young(users) = {} /\ Young(keys) = {}
    BY DEF Init, Young
<1>3. limits.user \in Nat /\ limits.key \in Nat
    BY KeyAdmissionAssumption DEF Init
<1>4. Fits
    BY <1>2, <1>3, FS_EmptySet, SMT DEF Fits
<1> QED BY <1>1, <1>4 DEF SlotsInv

LEMMA NextSlots == TypeOK /\ SlotsInv /\ [Next]_vars => SlotsInv'
<1> SUFFICES ASSUME TypeOK, SlotsInv, [Next]_vars PROVE SlotsInv'
    OBVIOUS
<1> USE DEF TypeOK, SlotsInv, SlotsHaveOwners, OwnersHaveSlots
<1>a. limits.user \in Nat /\ limits.key \in Nat
    BY KeyAdmissionAssumption
<1>b. ASSUME UNCHANGED slotVars PROVE Fits'
    BY <1>b DEF slotVars, Fits, Young
<1>1. ASSUME UNCHANGED <<pc, cancelled, slotVars>> PROVE SlotsInv'
    BY <1>1, <1>b DEF slotVars
<1>2. CASE Switch \/ NextPeriod \/ Tick \/ UNCHANGED vars
    BY <1>1, <1>2 DEF Switch, NextPeriod, Tick, vars, slotVars
<1>3. ASSUME NEW i \in Writers, Charge(i) \/ Edit(i) \/ Reset(i) \/ ClearShared(i) PROVE SlotsInv'
    BY <1>1, <1>3 DEF Charge, Edit, Reset, ClearShared
<1>4. ASSUME NEW r \in Clients, Validate(r) PROVE SlotsInv'
    <2>1. UNCHANGED <<cancelled, slotVars>>
        BY <1>4 DEF Validate, ReadLocal, ReadShared, Keep, Query, QueryFails, Roll, Store, Share
    <2>2. /\ pc[r] \in {"local", "shared", "query", "keep", "roll", "store", "share"}
          /\ \E to \in Reading \cup {"shared", "query", "user", "done"} : pc' = [pc EXCEPT ![r] = to]
        BY <1>4 DEF Validate, ReadLocal, ReadShared, Keep, Query, QueryFails, Roll, Store, Share, Step, Told, Reading
    <2>3. r \notin users /\ r \notin keys
        BY <2>2
    <2>4. PICK to \in Reading \cup {"shared", "query", "user", "done"} : pc' = [pc EXCEPT ![r] = to]
        BY <2>2
    <2>5. SlotsHaveOwners' /\ OwnersHaveSlots'
        BY <2>1, <2>3, <2>4 DEF slotVars, Reading
    <2> QED BY <1>b, <2>1, <2>5
<1>5. ASSUME NEW r \in Clients, AcquireUser(r) PROVE SlotsInv'
    <2> USE DEF AcquireUser, Step
    <2>1. users' \in {users, Acquired(users, limits.user, r)} /\ UNCHANGED <<limits, keys, overdue, kept>>
        BY <1>5
    <2>2. pc[r] = "user" /\ r \notin users
        BY <1>5
    <2>3. users' \subseteq users \cup {r} /\ users \ overdue \subseteq users'
        BY <2>1, ScriptSlots
    <2>4. \/ pc' = [pc EXCEPT ![r] = "key"] /\ free' = free /\ r \in users'
          \/ pc' = [pc EXCEPT ![r] = "done"] /\ free' = free /\ users' = Young(users)
          \/ pc' = [pc EXCEPT ![r] = "key"] /\ free' = free \cup {r}
        BY <1>5 DEF Acquired
    <2>5. SlotsHaveOwners' /\ OwnersHaveSlots'
        BY <2>1, <2>2, <2>3, <2>4 DEF Young
    <2>6. Fits'
        <3>1. Cardinality(Young(users')) <= limits.user
            BY <1>a, <2>1, ScriptFits DEF Fits
        <3> QED BY <2>1, <3>1 DEF Fits, Young
    <2> QED BY <2>5, <2>6
<1>6. ASSUME NEW r \in Clients, AcquireKey(r) PROVE SlotsInv'
    <2> USE DEF AcquireKey, Step
    <2>1. keys' \in {keys, Acquired(keys, limits.key, r)} /\ UNCHANGED <<limits, users, overdue, kept>>
        BY <1>6
    <2>2. pc[r] = "key" /\ r \notin keys
        BY <1>6
    <2>3. keys' \subseteq keys \cup {r} /\ keys \ overdue \subseteq keys'
        BY <2>1, ScriptSlots
    <2>4. \/ pc' = [pc EXCEPT ![r] = "run"] /\ free' = free /\ r \in keys'
          \/ pc' = [pc EXCEPT ![r] = "deny"] /\ free' = free /\ keys' = Young(keys)
          \/ pc' = [pc EXCEPT ![r] = "run"] /\ free' = free \cup {r}
        BY <1>6 DEF Acquired
    <2>5. SlotsHaveOwners' /\ OwnersHaveSlots'
        BY <2>1, <2>2, <2>3, <2>4 DEF Young
    <2>6. Fits'
        <3>1. Cardinality(Young(keys')) <= limits.key
            BY <1>a, <2>1, ScriptFits DEF Fits
        <3> QED BY <2>1, <3>1 DEF Fits, Young
    <2> QED BY <2>5, <2>6
<1>7. ASSUME NEW r \in Clients, Deny(r) \/ Release(r) \/ Cancel(r) \/ Outlive(r) \/ Again(r) PROVE SlotsInv'
    <2>1. SlotsHaveOwners' /\ OwnersHaveSlots'
        BY <1>7, Zenon DEF Deny, Release, Cancel, Outlive, Again, Step, Uncached, slotVars
    <2>2. Young(users)' \subseteq Young(users) /\ Young(keys)' \subseteq Young(keys) /\ limits' = limits
        BY <1>7 DEF Deny, Release, Cancel, Outlive, Again, Uncached, slotVars, Young
    <2>3. Young(users) \in SUBSET Clients /\ Young(keys) \in SUBSET Clients
        BY DEF Young
    <2> QED BY <1>a, <2>1, <2>2, <2>3, Fewer DEF Fits
<1> QED BY <1>2, <1>3, <1>4, <1>5, <1>6, <1>7 DEF Next, Slots

LEMMA Slotted == Spec => [](TypeOK /\ SlotsInv)
BY InitType, InitSlots, NextType, NextSlots, PTL DEF Spec

\* The limits of a user and of a key hold for the requests that no failing command
\* has let pass and whose slots have not run out.
THEOREM LimitsHold == Spec => []WithinLimits
<1>1. TypeOK /\ SlotsInv => WithinLimits
    <2> SUFFICES ASSUME TypeOK, SlotsInv PROVE WithinLimits
        OBVIOUS
    <2>1. Counted({"key", "deny", "run"}) \subseteq Young(users) /\ Counted({"run"}) \subseteq Young(keys)
        BY DEF SlotsInv, OwnersHaveSlots, Counted, Young
    <2>2. Young(users) \in SUBSET Clients /\ Young(keys) \in SUBSET Clients
        BY DEF TypeOK, Young
    <2>3. limits.user \in Nat /\ limits.key \in Nat
        BY KeyAdmissionAssumption DEF TypeOK
    <2> QED BY <2>1, <2>2, <2>3, Fewer DEF WithinLimits, SlotsInv, Fits
<1> QED BY <1>1, Slotted, PTL

\* No request that is over keeps a slot, unless the command that gives it back
\* failed.
THEOREM NoSlotLeft == Spec => []SlotsReturned
<1>1. TypeOK /\ SlotsInv => SlotsReturned
    BY DEF TypeOK, SlotsInv, SlotsHaveOwners, SlotsReturned
<1> QED BY <1>1, Slotted, PTL

----------------------------------------------------------------------------
(* The age of verdicts.                                                    *)

\* A verdict that is not the current one is so for at most so many ticks.
WrongFor(v, ticks) == v # Current => since <= ticks

LocalAge == \A i \in Replicas :
    local[i].life > 0 => WrongFor(local[i].verdict, 2 * Lag + 2 * TTL - 1 - local[i].life)

SharedAge == shared.life > 0 => WrongFor(shared.verdict, Lag + TTL - shared.life)

\* A verdict that was computed is as old as its reading, one from Redis older by
\* the delay before it was stored and its lifetime there.
ReaderAge == \A r \in Clients :
    /\ pc[r] \in {"roll", "store", "share"} => WrongFor(verdict[r], lag[r])
    /\ pc[r] = "keep" => WrongFor(verdict[r], Lag + TTL - 1 + lag[r])

AgeInv == LocalAge /\ SharedAge /\ ReaderAge

\* No verdict becomes older in this step: a change starts the count again.
NotOlder == \A v : \A ticks \in Nat :
    (v # Current => since <= ticks) => (v # Current' => since' <= ticks)

LEMMA SameCurrent == UNCHANGED rowVars => Current' = Current
BY DEF Current, Used, Rolled, rowVars

LEMMA Counts ==
    ASSUME TypeOK, Changes \/ UNCHANGED <<rowVars, since>>
    PROVE  NotOlder
<1>1. CASE Changes
    BY <1>1, SMT DEF Changes, NotOlder
<1>2. CASE UNCHANGED <<rowVars, since>>
    BY <1>2, SameCurrent DEF NotOlder
<1> QED BY <1>1, <1>2

LEMMA Lives ==
    ASSUME TypeOK
    PROVE  /\ TTL \in Nat /\ TTL >= 1 /\ Lag \in Nat /\ since \in Nat
           /\ \A i \in Replicas : local[i].life \in 0 .. TTL /\ local[i].verdict \in Verdicts
           /\ shared.life \in 0 .. TTL /\ shared.verdict \in Verdicts
           /\ \A r \in Clients : lag[r] \in 0 .. Lag
<1>1. TTL \in Nat /\ TTL >= 1 /\ Lag \in Nat
    BY KeyAdmissionAssumption, SMT
<1>2. since \in Nat
    BY Bounds, SMT DEF TypeOK
<1> QED BY <1>1, <1>2 DEF TypeOK, Entries

\* Copies that stay, or go, and readers that stay, or are done.
LEMMA KeepsAge ==
    ASSUME TypeOK, AgeInv, NotOlder,
           \A i \in Replicas : local'[i] = local[i] \/ local'[i].life = 0,
           shared' = shared \/ shared'.life = 0,
           \A r \in Clients :
             \/ pc'[r] = pc[r] /\ verdict'[r] = verdict[r] /\ lag'[r] = lag[r]
             \/ pc'[r] \notin Reading
    PROVE  AgeInv'
<1> USE Lives DEF AgeInv
<1>1. LocalAge'
    <2> SUFFICES ASSUME NEW i \in Replicas, local'[i].life > 0
                 PROVE  local'[i].verdict # Current' =>
                          since' <= 2 * Lag + 2 * TTL - 1 - local'[i].life
        BY DEF LocalAge, WrongFor
    <2>1. local'[i] = local[i]
        BY SMT
    <2>2. 2 * Lag + 2 * TTL - 1 - local[i].life \in Nat
        BY SMT
    <2>3. local[i].verdict # Current => since <= 2 * Lag + 2 * TTL - 1 - local[i].life
        BY <2>1 DEF LocalAge, WrongFor
    <2> QED BY <2>1, <2>2, <2>3 DEF NotOlder
<1>2. SharedAge'
    <2> SUFFICES ASSUME shared'.life > 0
                 PROVE  shared'.verdict # Current' => since' <= Lag + TTL - shared'.life
        BY DEF SharedAge, WrongFor
    <2>1. shared' = shared
        BY SMT
    <2>2. Lag + TTL - shared.life \in Nat
        BY SMT
    <2>3. shared.verdict # Current => since <= Lag + TTL - shared.life
        BY <2>1 DEF SharedAge, WrongFor
    <2> QED BY <2>1, <2>2, <2>3 DEF NotOlder
<1>3. ReaderAge'
    <2> SUFFICES ASSUME NEW r \in Clients
                 PROVE  /\ pc'[r] \in {"roll", "store", "share"} =>
                             (verdict'[r] # Current' => since' <= lag'[r])
                        /\ pc'[r] = "keep" =>
                             (verdict'[r] # Current' => since' <= Lag + TTL - 1 + lag'[r])
        BY DEF ReaderAge, WrongFor
    <2>1. CASE pc'[r] \notin Reading
        BY <2>1 DEF Reading
    <2>2. CASE pc'[r] = pc[r] /\ verdict'[r] = verdict[r] /\ lag'[r] = lag[r]
        <3>1. lag[r] \in Nat /\ Lag + TTL - 1 + lag[r] \in Nat
            BY SMT
        <3> QED BY <2>2, <3>1 DEF ReaderAge, WrongFor, NotOlder
    <2> QED BY <2>1, <2>2
<1> QED BY <1>1, <1>2, <1>3

LEMMA InitAge == Init => AgeInv
BY SMT DEF Init, AgeInv, LocalAge, SharedAge, ReaderAge, Expired

\* A step of time is one more tick for every verdict, and one less to live.
LEMMA TickAge == ASSUME TypeOK, AgeInv, Tick PROVE AgeInv'
<1> USE Lives DEF AgeInv, WrongFor
<1>1. Current' = Current /\ since' <= since + 1 /\ since' \in Nat
    BY SameCurrent, Bounds, SMT DEF Tick
<1>2. LocalAge'
    <2> SUFFICES ASSUME NEW i \in Replicas, local'[i].life > 0, local'[i].verdict # Current
                 PROVE  since' <= 2 * Lag + 2 * TTL - 1 - local'[i].life
        BY <1>1 DEF LocalAge
    <2>1. local'[i] = Older(local[i])
        BY DEF Tick
    <2>2. local'[i].life = local[i].life - 1 /\ local'[i].verdict = local[i].verdict /\ local[i].life > 0
        BY <2>1, SMT DEF Older, Expired, TypeOK, Entries
    <2>3. since <= 2 * Lag + 2 * TTL - 1 - local[i].life
        BY <2>2 DEF LocalAge
    <2> QED BY <1>1, <2>2, <2>3, SMT
<1>3. SharedAge'
    <2> SUFFICES ASSUME shared'.life > 0, shared'.verdict # Current
                 PROVE  since' <= Lag + TTL - shared'.life
        BY <1>1 DEF SharedAge
    <2>1. shared'.life = shared.life - 1 /\ shared'.verdict = shared.verdict /\ shared.life > 0
        BY SMT DEF Tick, Older, Expired, TypeOK, Entries
    <2>2. since <= Lag + TTL - shared.life
        BY <2>1 DEF SharedAge
    <2> QED BY <1>1, <2>1, <2>2, SMT
<1>4. ReaderAge'
    <2> SUFFICES ASSUME NEW r \in Clients, pc[r] \in Reading, verdict[r] # Current
                 PROVE  /\ pc[r] \in {"roll", "store", "share"} => since' <= lag'[r]
                        /\ pc[r] = "keep" => since' <= Lag + TTL - 1 + lag'[r]
        BY <1>1 DEF ReaderAge, Tick, Reading
    <2>1. lag'[r] = lag[r] + 1
        BY DEF Tick
    <2> QED BY <1>1, <2>1, SMT DEF ReaderAge
<1> QED BY <1>2, <1>3, <1>4

LEMMA NextAge == TypeOK /\ Reader /\ AgeInv /\ [Next]_vars => AgeInv'
<1> SUFFICES ASSUME TypeOK, Reader, AgeInv, [Next]_vars PROVE AgeInv'
    OBVIOUS
<1> USE DEF TypeOK
<1>1. CASE Switch \/ NextPeriod
    BY <1>1, Counts, KeepsAge DEF Switch, NextPeriod, cacheVars, readVars
<1>2. CASE Tick
    BY <1>2, TickAge
<1>3. ASSUME NEW i \in Writers, Charge(i) \/ Edit(i) \/ Reset(i) \/ ClearShared(i) PROVE AgeInv'
    <2>1. Changes \/ UNCHANGED <<rowVars, since>>
        BY <1>3 DEF Charge, Edit, Reset, ClearShared
    <2>2. UNCHANGED <<pc, verdict, lag>>
        BY <1>3 DEF Charge, Edit, Reset, ClearShared, readVars
    <2>3. \A j \in Replicas : local'[j] = local[j] \/ local'[j].life = 0
        BY <1>3, SMT DEF Charge, Edit, Reset, ClearShared, Invalidate, Expired
    <2>4. shared' = shared \/ shared'.life = 0
        BY <1>3, SMT DEF Charge, Edit, Reset, ClearShared, Expired
    <2>5. NotOlder
        BY <2>1, Counts
    <2> QED BY <2>2, <2>3, <2>4, <2>5, KeepsAge
<1>4. ASSUME NEW r \in Clients, ReadLocal(r) \/ QueryFails(r) \/ Slots(r) PROVE AgeInv'
    <2>1. UNCHANGED <<rowVars, since>> /\ UNCHANGED cacheVars
        BY <1>4 DEF ReadLocal, QueryFails, Slots, AcquireUser, AcquireKey, Deny, Release, Cancel,
                    Outlive, Again, Uncached
    <2>2. \A q \in Clients :
            \/ pc'[q] = pc[q] /\ verdict'[q] = verdict[q] /\ lag'[q] = lag[q]
            \/ pc'[q] \notin Reading
        BY <1>4, SMT DEF ReadLocal, QueryFails, Slots, AcquireUser, AcquireKey, Deny, Release, Cancel,
                    Outlive, Again, Uncached, Told, Learn, Step, Reading, readVars
    <2> QED BY <2>1, <2>2, Counts, KeepsAge DEF cacheVars
<1>5. ASSUME NEW r \in Clients, ReadShared(r) PROVE AgeInv'
    <2>1. UNCHANGED <<rowVars, since>> /\ UNCHANGED cacheVars /\ Current' = Current
        BY <1>5, SameCurrent DEF ReadShared
    <2>2. CASE pc' = [pc EXCEPT ![r] = "query"] /\ UNCHANGED <<verdict, lag>>
        BY <2>1, <2>2, Counts, KeepsAge DEF cacheVars, Reading
    <2>3. CASE shared.life > 0 /\ pc' = [pc EXCEPT ![r] = "keep"] /\ Learn(r, shared.verdict)
        <3>1. verdict'[r] = shared.verdict /\ lag'[r] = 0 /\ pc'[r] = "keep"
            BY <2>3 DEF Learn
        <3>2. shared.verdict # Current => since <= Lag + TTL - 1 + 0
            BY <2>3, Lives, SMT DEF AgeInv, SharedAge, WrongFor
        <3>3. \A q \in Clients \ {r} : pc'[q] = pc[q] /\ verdict'[q] = verdict[q] /\ lag'[q] = lag[q]
            BY <2>3 DEF Learn
        <3>4. ReaderAge'
            BY <2>1, <3>1, <3>2, <3>3, SMT DEF AgeInv, ReaderAge, WrongFor
        <3> QED BY <2>1, <3>4 DEF AgeInv, LocalAge, SharedAge, WrongFor, cacheVars
    <2> QED BY <1>5, <2>2, <2>3 DEF ReadShared, Step
<1>6. ASSUME NEW r \in Clients, Keep(r) \/ Store(r) \/ Share(r) PROVE AgeInv'
    <2>1. UNCHANGED <<rowVars, since>> /\ Current' = Current
        BY <1>6, SameCurrent DEF Keep, Store, Share
    <2>2. verdict[r] # Current => since <= 2 * Lag + TTL - 1
        BY <1>6, Lives, SMT DEF Keep, Store, Share, Told, Step, AgeInv, ReaderAge, WrongFor
    <2>3. LocalAge'
        <3> SUFFICES ASSUME NEW i \in Replicas, local'[i].life > 0, local'[i].verdict # Current
                     PROVE  since <= 2 * Lag + 2 * TTL - 1 - local'[i].life
            BY <2>1 DEF LocalAge, WrongFor
        <3>1. CASE local'[i] = local[i]
            BY <3>1 DEF AgeInv, LocalAge, WrongFor
        <3>2. CASE local'[i] = Entry(verdict[r])
            BY <2>2, <3>2, Lives, SMT DEF Entry
        <3> QED BY <1>6, <3>1, <3>2 DEF Keep, Store, Share
    <2>4. SharedAge'
        <3>1. CASE shared' = shared
            BY <2>1, <3>1 DEF AgeInv, SharedAge, WrongFor
        <3>2. CASE Share(r) /\ shared' = Entry(verdict[r])
            <4>1. verdict[r] # Current => since <= Lag
                BY <3>2, Lives, SMT DEF Share, Told, Step, AgeInv, ReaderAge, WrongFor
            <4> QED BY <2>1, <3>2, <4>1, Lives, SMT DEF SharedAge, WrongFor, Entry
        <3> QED BY <1>6, <3>1, <3>2 DEF Keep, Store, Share
    <2>5. ReaderAge'
        <3>1. \A q \in Clients \ {r} : pc'[q] = pc[q] /\ verdict'[q] = verdict[q] /\ lag'[q] = lag[q]
            BY <1>6 DEF Keep, Store, Share, Told, Learn, Step, readVars
        <3>2. \/ pc'[r] \notin Reading
              \/ pc[r] = "store" /\ pc'[r] = "share" /\ verdict'[r] = verdict[r] /\ lag'[r] = lag[r]
            BY <1>6, SMT DEF Keep, Store, Share, Told, Learn, Step, readVars, Reading
        <3> QED BY <2>1, <3>1, <3>2, SMT DEF AgeInv, ReaderAge, WrongFor, Reading
    <2> QED BY <2>3, <2>4, <2>5 DEF AgeInv
<1>7. ASSUME NEW r \in Clients, Query(r) PROVE AgeInv'
    <2>1. UNCHANGED <<rowVars, since>> /\ UNCHANGED cacheVars /\ Current' = Current
        BY <1>7, SameCurrent DEF Query
    <2>2. verdict'[r] = Current /\ pc'[r] # "keep"
        BY <1>7 DEF Query, Learn, Step
    <2>3. \A q \in Clients \ {r} : pc'[q] = pc[q] /\ verdict'[q] = verdict[q] /\ lag'[q] = lag[q]
        BY <1>7 DEF Query, Learn, Step
    <2>4. ReaderAge'
        BY <2>1, <2>2, <2>3 DEF AgeInv, ReaderAge, WrongFor
    <2> QED BY <2>1, <2>4 DEF AgeInv, LocalAge, SharedAge, WrongFor, cacheVars
<1>8. ASSUME NEW r \in Clients, Roll(r) PROVE AgeInv'
    <2>1. NotOlder
        BY <1>8, Counts DEF Roll
    <2>2. UNCHANGED <<local, shared, verdict, lag>> /\ pc[r] = "roll" /\ pc' = [pc EXCEPT ![r] = "store"]
        BY <1>8 DEF Roll, Step, cacheVars
    <2>3. \A q \in Clients : pc'[q] \in {"roll", "store", "share"} <=> pc[q] \in {"roll", "store", "share"}
        BY <2>2, SMT
    <2>4. \A q \in Clients : (pc'[q] = "keep") <=> (pc[q] = "keep")
        BY <2>2, SMT
    <2>5. ReaderAge'
        <3>1. \A q \in Clients : lag[q] \in Nat /\ Lag + TTL - 1 + lag[q] \in Nat
            BY Lives, SMT
        <3> QED BY <2>1, <2>2, <2>3, <2>4, <3>1 DEF AgeInv, ReaderAge, WrongFor, NotOlder
    <2>6. LocalAge'
        <3>1. \A i \in Replicas : 2 * Lag + 2 * TTL - 1 - local[i].life \in Nat
            BY Lives, SMT
        <3> QED BY <2>1, <2>2, <3>1 DEF AgeInv, LocalAge, WrongFor, NotOlder
    <2>7. SharedAge'
        <3>1. Lag + TTL - shared.life \in Nat
            BY Lives, SMT
        <3> QED BY <2>1, <2>2, <3>1 DEF AgeInv, SharedAge, WrongFor, NotOlder
    <2> QED BY <2>5, <2>6, <2>7 DEF AgeInv
<1>9. CASE UNCHANGED vars
    BY <1>9, Counts, KeepsAge DEF vars, cacheVars, readVars
<1> QED BY <1>1, <1>2, <1>3, <1>4, <1>5, <1>6, <1>7, <1>8, <1>9 DEF Next, Validate

\* Only a copy that lives answers a request that looks for one.
LEMMA LocalHit ==
    ASSUME TypeOK, [Next]_vars, NEW r \in Clients, pc[r] = "local", pc'[r] \in {"user", "done"}
    PROVE  local[At[r]].life > 0
<1> USE DEF TypeOK
<1>1. pc' # pc
    OBVIOUS
<1>2. PICK q \in Clients : Validate(q) \/ Slots(q)
    BY <1>1 DEF Next, vars, Switch, NextPeriod, Tick, Charge, Edit, Reset, ClearShared
<1>3. \E to \in Stages : pc' \in {pc, [pc EXCEPT ![q] = to]}
    BY <1>2 DEF Validate, ReadLocal, ReadShared, Keep, Query, QueryFails, Roll, Store, Share, Told,
             Slots, AcquireUser, AcquireKey, Deny, Release, Cancel, Outlive, Again, Step, Stages, Reading
<1>4. q = r
    BY <1>3
<1>5. ReadLocal(r)
    BY <1>1, <1>2, <1>4, SMT DEF Validate, ReadShared, Keep, Query, QueryFails, Roll, Store, Share, Told,
             Slots, AcquireUser, AcquireKey, Deny, Release, Cancel, Outlive, Again, Step
<1> QED BY <1>5, SMT DEF ReadLocal, Step

\* A request is told something else than the database says for at most two
\* lifetimes of a copy and the delays of two readers.
THEOREM VerdictsAgeWell == Spec => VerdictsAge
<1>1. ASSUME TypeOK, AgeInv, [Next]_vars, NEW r \in Clients, Answered(r), Answer(r) # Current
      PROVE  since <= MaxAge
    <2> USE Lives DEF AgeInv, WrongFor, Answer, Answered
    <2>1. CASE pc[r] = "local"
        <3>1. local[At[r]].life > 0 /\ At[r] \in Replicas
            BY <1>1, <2>1, LocalHit, KeyAdmissionAssumption
        <3>2. since <= 2 * Lag + 2 * TTL - 1 - local[At[r]].life
            BY <1>1, <2>1, <3>1 DEF LocalAge
        <3> QED BY <1>1, <3>1, <3>2, SMT DEF MaxAge
    <2>2. CASE pc[r] \in {"keep", "share"}
        BY <1>1, <2>2, SMT DEF ReaderAge, MaxAge
    <2> QED BY <1>1, <2>1, <2>2
<1>2. TypeOK /\ AgeInv /\ [Next]_vars =>
        [\A r \in Clients : Answered(r) /\ Answer(r) # Current => since <= MaxAge]_vars
    BY <1>1
<1> QED BY <1>2, InitType, InitAge, NextType, NextAge, PTL DEF Spec, VerdictsAge

----------------------------------------------------------------------------
(* The base of a period.                                                   *)

\* A reader moves a row on, never back or to where it is.
MovesOn == \A r \in Clients : pc[r] = "roll" => seen[r].start < seen[r].now

LEMMA NextMovesOn == TypeOK /\ MovesOn /\ [Next]_vars => MovesOn'
<1> SUFFICES ASSUME TypeOK, MovesOn, [Next]_vars PROVE MovesOn'
    OBVIOUS
<1> USE DEF TypeOK, MovesOn
<1>1. CASE Switch \/ NextPeriod \/ Tick \/ UNCHANGED vars
    BY <1>1 DEF Switch, NextPeriod, Tick, vars, readVars
<1>2. ASSUME NEW i \in Writers, Charge(i) \/ Edit(i) \/ Reset(i) \/ ClearShared(i) PROVE MovesOn'
    BY <1>2 DEF Charge, Edit, Reset, ClearShared, readVars
<1>3. ASSUME NEW r \in Clients, Query(r) PROVE MovesOn'
    BY <1>3, SMT DEF Query, Step, Rolled
<1>4. ASSUME NEW r \in Clients, Roll(r) PROVE MovesOn'
    BY <1>4, SMT DEF Roll, Step
<1>5. ASSUME NEW r \in Clients,
             \/ ReadLocal(r) \/ ReadShared(r) \/ Keep(r) \/ QueryFails(r) \/ Store(r) \/ Share(r)
             \/ Slots(r)
      PROVE MovesOn'
    <2>1. seen' = seen
        BY <1>5 DEF ReadLocal, ReadShared, Keep, QueryFails, Store, Share, Slots, AcquireUser, AcquireKey,
                 Deny, Release, Cancel, Outlive, Again, Uncached, readVars
    <2>2. \A q \in Clients : pc'[q] = "roll" => pc[q] = "roll"
        BY <1>5, SMT DEF ReadLocal, ReadShared, Keep, QueryFails, Store, Share, Told, Slots, AcquireUser,
                 AcquireKey, Deny, Release, Cancel, Outlive, Again, Step
    <2> QED BY <2>1, <2>2
<1> QED BY <1>1, <1>2, <1>3, <1>4, <1>5 DEF Next, Validate

\* The base of a period is written once, by one reader or by a reset.
THEOREM BaseIsFixed == Spec => PeriodBaseFixed
<1>1. ASSUME TypeOK, MovesOn, [Next]_vars, member'.base # member.base,
             ~ \E i \in Writers : Reset(i)
      PROVE  member'.start # member.start
    <2>1. CASE Switch \/ NextPeriod \/ Tick \/ UNCHANGED vars
        BY <1>1, <2>1 DEF Switch, NextPeriod, Tick, vars, rowVars
    <2>2. ASSUME NEW i \in Writers, Charge(i) \/ Edit(i) \/ ClearShared(i) PROVE FALSE
        <3>1. CASE Charge(i)
            BY <1>1, <3>1, SMT DEF Charge, TypeOK, Rows
        <3> QED BY <1>1, <2>2, <3>1 DEF Edit, ClearShared, rowVars
    <2>3. ASSUME NEW r \in Clients, Roll(r) PROVE member'.start # member.start
        <3> DEFINE b == seen[r].used
                   n == seen[r].now
        <3>1. member.start = seen[r].start /\ seen[r].start < n /\ n \in Nat /\ b \in Nat
              /\ member.start \in Nat /\ member \in Rows
            BY <1>1, <2>3 DEF Roll, Step, MovesOn, TypeOK, Reads, Rows
        <3> DEFINE x == [member EXCEPT !.base = b]
        <3>2. member' = [x EXCEPT !.start = n]
            BY <1>1, <2>3 DEF Roll
        <3> HIDE DEF b, n
        <3>3. x \in Rows
            BY <3>1, SMT DEF Rows
        <3> HIDE DEF x
        <3>4. member'.start = n
            BY <3>2, <3>3, SMT DEF Rows
        <3> QED BY <3>1, <3>4, SMT
    <2>4. ASSUME NEW r \in Clients, Validate(r), ~Roll(r) PROVE FALSE
        BY <1>1, <2>4 DEF Validate, ReadLocal, ReadShared, Keep, Query, QueryFails, Store, Share, rowVars
    <2>5. ASSUME NEW r \in Clients, Slots(r) PROVE FALSE
        BY <1>1, <2>5 DEF Slots, AcquireUser, AcquireKey, Deny, Release, Cancel, Outlive, Again, Uncached, rowVars
    <2> QED BY <1>1, <2>1, <2>2, <2>3, <2>4, <2>5 DEF Next
<1>2. TypeOK /\ MovesOn /\ [Next]_vars =>
        [member'.base # member.base =>
           member'.start # member.start \/ \E i \in Writers : Reset(i)]_vars
    BY <1>1
<1>3. Init => MovesOn
    BY DEF Init, MovesOn
<1> QED BY <1>2, <1>3, InitType, NextType, NextMovesOn, PTL DEF Spec, PeriodBaseFixed
=============================================================================
