-------------------------- MODULE ForwarderProofs --------------------------
(***************************************************************************)
(* Proofs about Forwarder for any requests, accounts, routes, limits and   *)
(* outcomes.  What holds is a property of each request (Mine), which the   *)
(* steps of the others leave alone (Frame), and a limit of each account.   *)
(***************************************************************************)
EXTENDS Forwarder, FiniteSetTheorems, TLAPS

----------------------------------------------------------------------------
(* Types.                                                                  *)

LocalType ==
    /\ pc \in [Requests -> Places]
    /\ \A r \in Requests : loop[r] \in Loops /\ loop[r].route \in 1 .. Len(Routes[r])
    /\ DOMAIN loop = Requests
    /\ acct \in [Requests -> Accounts \cup {NoAccount}]
    /\ out \in [Requests -> [kind : Kinds \cup {"none"}, final : BOOLEAN, usage : BOOLEAN]]
    /\ records \in [Requests -> Nat] /\ unmetered \subseteq Requests

FaultType == cancelled \in [Requests -> BOOLEAN] /\ errors \in 0 .. MaxErrors

RateType ==
    /\ reserved \in [Requests -> BOOLEAN]
    /\ rpm \in [Accounts -> Int]
    /\ counted \subseteq Accounts
    /\ minute \in Nat
    /\ kept \in [Accounts -> Nat]

ProbeType ==
    /\ gate \in [Accounts -> {"closed", "open", "half"}]
    /\ probe \in [Accounts -> Requests \cup {Nobody}]

SlotType ==
    /\ slots \in [Accounts -> SUBSET Requests]
    /\ overdue \subseteq Requests

Types == LocalType /\ FaultType /\ RateType /\ ProbeType /\ SlotType

\* The places at which an attempt may have a place in the minute, a slot.
InMinute == {"slot", "gate", "begin", "call", "verdict", "apply"}
InSlot  == {"gate", "begin", "call", "verdict", "close"}

\* A probe may be left to its lease.
Leaves(r) == \E o \in Outcomes[r] : o.kind \in {"transient", "fault"}

----------------------------------------------------------------------------
(* The inductive invariant.                                                *)

\* An attempt has an account, and the outcome is one of the plugin's.
HasAccount(r) == /\ pc[r] \in Attempt => acct[r] \in Accounts
                 /\ pc[r] \in {"verdict", "apply"} => out[r] \in Outcomes[r]

\* What is counted, held and claimed belongs to the attempt under way.
PlaceIsMine(r) == reserved[r] => pc[r] \in InMinute

SlotIsMine(r) == \A a \in Accounts :
    r \in slots[a] => pc[r] = "dead" \/ (acct[r] = a /\ pc[r] \in InSlot)

ProbeIsMine(r) == \A a \in Accounts :
    probe[a] = r => \/ pc[r] = "dead" \/ Leaves(r)
                    \/ acct[r] = a /\ pc[r] \in Attempt \ {"close"}

\* Who calls within the lifetime of a slot, and has not passed without one, has its
\* slot.
CallHasSlot(r) ==
    pc[r] \in {"gate", "begin", "call", "verdict"} /\ ~loop[r].free /\ r \notin overdue
        => r \in slots[acct[r]]

\* The record is written as the request ends, and not before; none is for a
\* success without usage.
Unrecorded(r) == records[r] = 0 /\ r \notin unmetered
Recorded(r)   == records[r] = IF r \in unmetered THEN 0 ELSE 1

RecordAtEnd(r) ==
    /\ records[r] \in {0, 1}
    /\ pc[r] \in {"done", "close"} => Recorded(r)
    /\ pc[r] \notin {"done", "close", "dead"} => Unrecorded(r)

Mine(r) == /\ HasAccount(r) /\ PlaceIsMine(r) /\ SlotIsMine(r) /\ ProbeIsMine(r)
           /\ CallHasSlot(r) /\ RecordAtEnd(r)

\* The slots of an account that have not run out keep to its limit.
SlotLimit(a) == /\ IsFiniteSet(slots[a] \ overdue)
                /\ Cardinality(slots[a] \ overdue) <= MaxSlots[a]

IInv == /\ Types
        /\ \A r \in Requests : Mine(r)
        /\ \A a \in Accounts : SlotLimit(a)

----------------------------------------------------------------------------
(* What a step of request r leaves to the others.                          *)

SameRecord(q) == records'[q] = records[q] /\ (q \in unmetered' <=> q \in unmetered)

Spared(q) ==
    /\ pc'[q] = pc[q] /\ acct'[q] = acct[q] /\ out'[q] = out[q]
    /\ loop'[q].free = loop[q].free /\ SameRecord(q)
    /\ reserved'[q] => reserved[q]
    /\ q \notin overdue' => q \notin overdue
    /\ \A a \in Accounts : /\ q \in slots'[a] => q \in slots[a]
                           /\ q \in slots[a] /\ q \notin overdue' => q \in slots'[a]
                           /\ probe'[a] = q => probe[a] = q

Frame(r) == \A q \in Requests \ {r} : Spared(q)

LEMMA SparedKeeps ==
    ASSUME NEW q \in Requests, Mine(q), Spared(q)
    PROVE  Mine(q)'
<1>1. HasAccount(q)' /\ PlaceIsMine(q)' /\ RecordAtEnd(q)'
  BY DEF Spared, SameRecord, Mine, HasAccount, PlaceIsMine, RecordAtEnd, Recorded, Unrecorded
<1>2. SlotIsMine(q)'
  BY DEF Spared, Mine, SlotIsMine
<1>3. ProbeIsMine(q)'
  BY DEF Spared, Mine, ProbeIsMine
<1>4. CallHasSlot(q)'
  BY DEF Spared, Mine, CallHasSlot, HasAccount, Attempt
<1>. QED  BY <1>1, <1>2, <1>3, <1>4 DEF Mine

----------------------------------------------------------------------------
(* The pieces steps are made of.                                           *)

\* Places are taken and given back for one request; a command may fail.
LEMMA GivesBack ==
    ASSUME Types, NEW r \in Requests, Undo(r) \/ Keep(r) \/ UndoNothing(r)
    PROVE  /\ RateType' /\ reserved' = [reserved EXCEPT ![r] = FALSE]
           /\ errors' \in 0 .. MaxErrors
<1>1. RedisFails(r) => errors' \in 0 .. MaxErrors
  BY ForwarderAssumption DEF RedisFails, Types, FaultType
<1>2. CASE Undo(r)
  BY <1>1, <1>2 DEF Undo, Leave, Types, RateType, FaultType
<1>3. CASE Keep(r)
  <2>1. kept' \in [Accounts -> Nat]
    <3>1. kept' = kept \/ kept' = [kept EXCEPT ![acct[r]] = kept[acct[r]] + 1]
      BY <1>3 DEF Keep
    <3>2. kept \in [Accounts -> Nat]
      BY DEF Types, RateType, FaultType
    <3>. QED  BY <3>1, <3>2
  <2>. QED  BY <1>3, <2>1 DEF Keep, Leave, Types, RateType, FaultType
<1>4. CASE UndoNothing(r)
  BY <1>4 DEF UndoNothing, Leave, Types, RateType, FaultType
<1>. QED  BY <1>2, <1>3, <1>4

LEMMA LetThroughTypes ==
    ASSUME Types, NEW r \in Requests, acct[r] \in Accounts, NEW n \in Nat, LetThrough(r, n)
    PROVE  RateType' /\ reserved' = [reserved EXCEPT ![r] = TRUE]
<1>1. rpm' \in [Accounts -> Int] /\ counted' \subseteq Accounts
  BY DEF LetThrough, Types, RateType, FaultType
<1>. QED  BY <1>1 DEF LetThrough, Types, RateType, FaultType

LEMMA CommandTypes ==
    ASSUME Types, NEW r \in Requests, CommandFails(r)
    PROVE  FaultType' /\ cancelled' = cancelled
  BY ForwarderAssumption DEF CommandFails, RedisFails, Types, FaultType

\* A record is written for one request.
LEMMA Writes ==
    ASSUME Types, NEW r \in Requests, Unrecorded(r), WriteRecord(r) \/ RecordResult(r)
    PROVE  /\ records' \in [Requests -> Nat] /\ unmetered' \subseteq Requests
           /\ Recorded(r)'
           /\ \A q \in Requests \ {r} : SameRecord(q)
  BY DEF WriteRecord, RecordResult, Unrecorded, Recorded, SameRecord, Types, LocalType

\* A probe is freed by its holder.
LEMMA FreesProbe ==
    ASSUME Types, NEW r \in Requests, acct[r] \in Accounts, ReleaseFamilyProbe(r)
    PROVE  /\ ProbeType' /\ probe'[acct[r]] # r
           /\ \A a \in Accounts : \A q \in Requests : probe'[a] = q => probe[a] = q
  BY ForwarderAssumption DEF ReleaseFamilyProbe, Freed, Types, ProbeType

LEMMA ClaimsProbe ==
    ASSUME Types, NEW r \in Requests, NEW a \in Accounts, ClaimProbe(r, a)
    PROVE  /\ ProbeType'
           /\ \A b \in Accounts : \A q \in Requests : probe'[b] = q => probe[b] = q \/ (q = r /\ b = a)
  BY DEF ClaimProbe, Types, ProbeType

LEMMA JudgeTypes ==
    ASSUME Types, NEW r \in Requests, acct[r] \in Accounts, out[r] \in Outcomes[r], Judge(r)
    PROVE  /\ ProbeType'
           /\ \A a \in Accounts : \A q \in Requests : probe'[a] = q => probe[a] = q
           /\ probe'[acct[r]] = r => Leaves(r)
<1>1. CASE out[r].kind = "success"
  <2>1. /\ gate' = IF probe[acct[r]] = r THEN [gate EXCEPT ![acct[r]] = "closed"] ELSE gate
        /\ probe' = Freed(r)
    BY <1>1 DEF Judge
  <2>2. gate' \in [Accounts -> {"closed", "open", "half"}]
    BY <2>1 DEF Types, ProbeType
  <2>. QED  BY <2>1, <2>2, ForwarderAssumption DEF Freed, Types, ProbeType
<1>2. CASE out[r].kind = "fault"
  BY <1>2, ForwarderAssumption DEF Judge, gateVars, Types, ProbeType, Leaves
<1>3. CASE out[r].kind = "transient"
  BY <1>3 DEF Judge, gateVars, Types, ProbeType, Leaves
<1>4. CASE out[r].kind \notin {"success", "fault", "transient"}
  BY <1>4, FreesProbe DEF Judge
<1>. QED  BY <1>1, <1>2, <1>3, <1>4

\* The ways a request goes on.
LEMMA AgainTypes ==
    ASSUME Types, NEW r \in Requests, NEW l \in Loops, l.route \in 1 .. Len(Routes[r]), Again(r, l),
           UNCHANGED <<records, unmetered>>
    PROVE  LocalType'
<1> DEFINE m == [l EXCEPT !.free = FALSE]
<1>1. m \in Loops /\ m.route = l.route /\ loop' = [loop EXCEPT ![r] = m]
  BY DEF Again, Loops
<1> HIDE DEF m
<1>. QED  BY <1>1 DEF Again, Goto, Types, LocalType, Places, NoOut

LEMMA FreshLoop == ASSUME NEW r \in Requests PROVE Fresh(1) \in Loops /\ 1 \in 1 .. Len(Routes[r])
<1>1. Routes[r] \in Seq(SUBSET Accounts) /\ Routes[r] # <<>>
  BY ForwarderAssumption
<1>. QED  BY <1>1 DEF Fresh, Loops

LEMMA FinishTypes ==
    ASSUME Types, NEW r \in Requests, Finish(r),
           WriteRecord(r) \/ UNCHANGED <<records, unmetered>>
    PROVE  LocalType'
<1>1. Fresh(1) \in Loops /\ Fresh(1).route \in 1 .. Len(Routes[r])
  BY FreshLoop DEF Fresh
<1> DEFINE new == Fresh(1)
<1> HIDE DEF new
<1>2. loop' = [loop EXCEPT ![r] = new]
  BY DEF Finish, new
<1>3. new \in Loops /\ new.route \in 1 .. Len(Routes[r])
  BY <1>1 DEF new
<1>4. /\ \A q \in Requests : loop'[q] \in Loops /\ loop'[q].route \in 1 .. Len(Routes[q])
      /\ DOMAIN loop' = Requests
  BY <1>2, <1>3 DEF Types, LocalType
<1>5. pc' \in [Requests -> Places] /\ acct' \in [Requests -> Accounts \cup {NoAccount}]
  BY DEF Finish, Goto, Types, LocalType, Places
<1>6. out' \in [Requests -> [kind : Kinds \cup {"none"}, final : BOOLEAN, usage : BOOLEAN]]
  BY DEF Finish, Types, LocalType, NoOut
<1>7. records' \in [Requests -> Nat] /\ unmetered' \subseteq Requests
  <2>1. CASE WriteRecord(r)
    BY <2>1 DEF WriteRecord, Types, LocalType
  <2>. QED  BY <2>1 DEF Types, LocalType
<1>. QED  BY <1>4, <1>5, <1>6, <1>7 DEF LocalType

\* A step that only moves the request, or one of the flags of its loop.
LEMMA GotoTypes ==
    ASSUME Types, NEW r \in Requests, NEW p \in Places, Goto(r, p),
           UNCHANGED <<loop, acct, out, records, unmetered>>
    PROVE  LocalType'
  BY DEF Goto, Types, LocalType

\* The slots that count, of each account, are some of those that counted.
Shrinks == \A a \in Accounts : slots'[a] \ overdue' \subseteq slots[a] \ overdue

LEMMA ReleasesSlot ==
    ASSUME Types, NEW r \in Requests, Mine(r), pc[r] # "dead", ReleaseSlot(r)
    PROVE  /\ SlotType' /\ Shrinks
           /\ \A a \in Accounts : r \notin slots'[a]
           /\ \A q \in Requests \ {r} :
                 /\ q \in overdue' <=> q \in overdue
                 /\ \A a \in Accounts : q \in slots'[a] <=> q \in slots[a]
<1>1. slots' = [slots EXCEPT ![acct[r]] = @ \ {r}] /\ overdue' = overdue \ {r}
  BY DEF ReleaseSlot
<1>2. \A a \in Accounts : r \in slots[a] => acct[r] = a
  BY DEF Mine, SlotIsMine
<1>3. \A a \in Accounts : slots'[a] = slots[a] \ {r}
  BY <1>1, <1>2 DEF Types, SlotType
<1>4. SlotType'
  BY <1>1 DEF Types, SlotType
<1>. QED  BY <1>1, <1>3, <1>4 DEF Shrinks

LEMMA SlotsSame == UNCHANGED slotVars => Shrinks
  BY DEF slotVars, Shrinks

\* A purge drops slots that have run out.
LEMMA Purges ==
    ASSUME Types, NEW b \in Accounts, slots' = [slots EXCEPT ![b] = slots[b] \ overdue], overdue' = overdue
    PROVE  /\ SlotType' /\ Shrinks
           /\ \A a \in Accounts : slots'[a] \subseteq slots[a] /\ slots[a] \ overdue \subseteq slots'[a]
  BY DEF Types, SlotType, Shrinks

\* What an attempt leaves that is over.
LEMMA Over ==
    ASSUME NEW r \in Requests, Mine(r), pc'[r] \in {"loop", "done"}, ~reserved'[r],
           \A a \in Accounts : r \notin slots'[a],
           \A a \in Accounts : probe'[a] = r => Leaves(r),
           IF pc'[r] = "done" THEN Recorded(r)' ELSE Unrecorded(r)'
    PROVE  Mine(r)'
  BY DEF Mine, HasAccount, PlaceIsMine, SlotIsMine, ProbeIsMine, CallHasSlot, RecordAtEnd, Recorded, Unrecorded,
     Attempt, InMinute, Leaves

----------------------------------------------------------------------------
(* Selection.                                                              *)

\* What a step shows to be kept.
Kept(r) == Types' /\ Mine(r)' /\ Frame(r)

\* Between two attempts a request has nothing but probes left to their lease.
LEMMA BetweenAttempts ==
    ASSUME NEW r \in Requests, Mine(r), pc[r] = "loop"
    PROVE  /\ ~reserved[r] \/ reserved[r] \notin BOOLEAN
           /\ \A a \in Accounts : r \notin slots[a] /\ (probe[a] = r => Leaves(r))
           /\ Unrecorded(r)
  BY DEF Mine, PlaceIsMine, SlotIsMine, ProbeIsMine, RecordAtEnd, Unrecorded, InMinute, InSlot, Attempt

LEMMA LoopAgain ==
    ASSUME Types, NEW r \in Requests, Mine(r), pc[r] = "loop", NEW l \in Loops, l.route \in 1 .. Len(Routes[r]),
           Again(r, l), UNCHANGED <<reserved, cancelled, errors, rateVars, gateVars, slotVars, records, unmetered>>
    PROVE  Kept(r)
<1>1. Types'
  <2>1. LocalType'
    BY AgainTypes DEF Types, LocalType
  <2>. QED  BY <2>1 DEF Types, RateType, FaultType, ProbeType, SlotType, rateVars, gateVars, slotVars
<1>2. pc'[r] = "loop"
  BY DEF Again, Goto, Types, LocalType
<1>3. Mine(r)'
  BY <1>2, BetweenAttempts, Over DEF Types, RateType, gateVars, slotVars, Unrecorded
<1>4. Frame(r)
  BY DEF Frame, Spared, SameRecord, Again, Goto, Types, LocalType, gateVars, slotVars
<1>. QED  BY <1>1, <1>3, <1>4 DEF Kept

LEMMA LoopEnds ==
    ASSUME Types, NEW r \in Requests, Mine(r), pc[r] = "loop", Finish(r), WriteRecord(r),
           UNCHANGED <<reserved, cancelled, errors, rateVars, gateVars, slotVars>>
    PROVE  Kept(r)
<1>1. Types'
  <2>1. LocalType'
    BY FinishTypes DEF Types, LocalType
  <2>. QED  BY <2>1 DEF Types, RateType, FaultType, ProbeType, SlotType, rateVars, gateVars, slotVars
<1>2. pc'[r] = "done" /\ Recorded(r)' /\ \A q \in Requests \ {r} : SameRecord(q)
  BY BetweenAttempts, Writes DEF Finish, Goto, Types, LocalType
<1>3. Mine(r)'
  BY <1>2, BetweenAttempts, Over DEF Types, RateType, gateVars, slotVars
<1>4. Frame(r)
  BY <1>2 DEF Frame, Spared, Finish, Goto, Types, LocalType, gateVars, slotVars
<1>. QED  BY <1>1, <1>3, <1>4 DEF Kept

LEMMA SelectionKeeps ==
    ASSUME Types, NEW r \in Requests, Mine(r), Selection(r)
    PROVE  Kept(r) /\ UNCHANGED slotVars
<1>. DEFINE l == loop[r]
<1>0. l \in Loops /\ l.route \in 1 .. Len(Routes[r]) /\ Len(Routes[r]) \in Nat
  <2>1. Routes[r] \in Seq(SUBSET Accounts)
    BY ForwarderAssumption
  <2>. QED  BY <2>1 DEF Types, LocalType
<1>1. CASE Stop(r) \/ GiveUp(r)
  BY <1>1, LoopEnds DEF Stop, GiveUp, NoPick, faults, written
<1>2. CASE WaitForCapacity(r)
  <2>1. [l EXCEPT !.soft = {}] \in Loops /\ [l EXCEPT !.soft = {}].route = l.route
    BY <1>0 DEF Loops
  <2>. QED  BY <1>0, <1>2, <2>1, LoopAgain DEF WaitForCapacity, NoPick, faults, written
<1>3. CASE RetrySameAccount(r)
  <2> DEFINE m == [l EXCEPT !.retried = TRUE, !.soft = @ \ {l.last}]
  <2>1. m \in Loops /\ m.route = l.route
    BY <1>0 DEF Loops
  <2>. QED  BY <1>0, <1>3, <2>1, LoopAgain DEF RetrySameAccount, NoPick, faults, written
<1>4. CASE NextRoute(r)
  <2> DEFINE f == Fresh(l.route + 1)
             m == [f EXCEPT !.hard = l.hard, !.begun = l.begun]
  <2>1. l.hard \in SUBSET Accounts /\ l.begun \in BOOLEAN /\ l.route \in Nat
        /\ l.route + 1 \in 1 .. Len(Routes[r])
    BY <1>0, <1>4 DEF Loops, NextRoute, faults, written
  <2>2. f \in Loops /\ f.route = l.route + 1
    <3> HIDE DEF l
    <3>. QED  BY <2>1 DEF Fresh, Loops
  <2>3. m \in Loops /\ m.route \in 1 .. Len(Routes[r])
    <3> HIDE DEF l, f
    <3>. QED  BY <2>1, <2>2 DEF Loops
  <2>. QED  BY <1>4, <2>3, LoopAgain DEF NextRoute, NoPick, faults, written
<1>5. ASSUME NEW a \in Accounts, PickAccount(r, a) PROVE Kept(r)
  <2>0. /\ pc' = [pc EXCEPT ![r] = "rate"] /\ acct' = [acct EXCEPT ![r] = a]
        /\ UNCHANGED <<loop, reserved, out, cancelled, errors, rateVars, slotVars, records, unmetered>>
        /\ ClaimProbe(r, a) /\ pc[r] = "loop"
    BY <1>5 DEF PickAccount, Goto, faults, written
  <2>1. Types'
    <3>1. LocalType'
      BY <2>0 DEF Types, LocalType, Places
    <3>. QED  BY <2>0, <3>1, ClaimsProbe DEF Types, RateType, FaultType, SlotType, rateVars, slotVars
  <2>2. pc'[r] = "rate" /\ acct'[r] = a
    BY <2>0 DEF Types, LocalType
  <2>3. \A b \in Accounts : probe'[b] = r => Leaves(r) \/ b = a
    BY <2>0, BetweenAttempts, ClaimsProbe
  <2>4. Mine(r)'
    BY <2>0, <2>2, <2>3, BetweenAttempts DEF Mine, HasAccount, PlaceIsMine, SlotIsMine, ProbeIsMine, CallHasSlot,
       RecordAtEnd, Unrecorded, Attempt, Leaves, slotVars, Types, RateType
  <2>5. Frame(r)
    BY <2>0, ClaimsProbe DEF Frame, Spared, SameRecord, Types, LocalType, slotVars
  <2>. QED  BY <2>1, <2>4, <2>5 DEF Kept
<1>6. UNCHANGED slotVars
  BY DEF Selection, Stop, WaitForCapacity, RetrySameAccount, NextRoute, GiveUp, PickAccount, faults, written
<1>. QED  BY <1>1, <1>2, <1>3, <1>4, <1>5, <1>6 DEF Selection

----------------------------------------------------------------------------
(* Gates.                                                                  *)

\* A step that leaves the others' places, slots and probes, and r's own outcome
\* and account, alone.
LEMMA FrameOf ==
    ASSUME Types, NEW r \in Requests,
           \A q \in Requests \ {r} :
               /\ pc'[q] = pc[q] /\ acct'[q] = acct[q] /\ out'[q] = out[q]
               /\ loop'[q].free = loop[q].free /\ SameRecord(q),
           \A q \in Requests \ {r} : reserved'[q] = reserved[q],
           overdue' = overdue,
           \A a \in Accounts : \A q \in Requests \ {r} :
               /\ q \in slots'[a] => q \in slots[a]
               /\ q \in slots[a] /\ q \notin overdue => q \in slots'[a]
               /\ probe'[a] = q => probe[a] = q
    PROVE  Frame(r)
  BY DEF Frame, Spared

\* A flag of the loop is set.
LEMMA FlagTypes ==
    ASSUME Types, NEW r \in Requests,
           \/ \E b \in BOOLEAN : loop' = [loop EXCEPT ![r].waiting = FALSE, ![r].free = b]
           \/ loop' = [loop EXCEPT ![r].begun = TRUE]
           \/ loop' = [loop EXCEPT ![r].late = TRUE]
    PROVE  /\ \A q \in Requests : loop'[q] \in Loops /\ loop'[q].route \in 1 .. Len(Routes[q])
           /\ DOMAIN loop' = Requests
           /\ \A q \in Requests \ {r} : loop'[q] = loop[q]
<1>1. loop[r] \in Loops
  BY DEF Types, LocalType
<1>2. PICK l : /\ \/ \E b \in BOOLEAN : l = [loop[r] EXCEPT !.waiting = FALSE, !.free = b]
                  \/ l \in {[loop[r] EXCEPT !.begun = TRUE], [loop[r] EXCEPT !.late = TRUE]}
               /\ loop' = [loop EXCEPT ![r] = l]
  <2>1. ASSUME NEW b \in BOOLEAN, loop' = [loop EXCEPT ![r].waiting = FALSE, ![r].free = b]
        PROVE  loop' = [loop EXCEPT ![r] = [loop[r] EXCEPT !.waiting = FALSE, !.free = b]]
    BY <2>1 DEF Types, LocalType
  <2>. QED  BY <2>1
<1>3. l \in Loops /\ l.route = loop[r].route
  BY <1>1, <1>2 DEF Loops
<1>. QED  BY <1>2, <1>3 DEF Types, LocalType

\* The full account is left: with nothing held, the loop waits for capacity.
LEMMA CapacityTypes ==
    ASSUME Types, NEW r \in Requests, acct[r] \in Accounts, LocalCapacityFailure(r),
           UNCHANGED <<records, unmetered>>
    PROVE  LocalType'
<1> DEFINE l == loop[r]
           m == [l EXCEPT !.waiting = TRUE, !.soft = @ \cup {acct[r]}]
<1>1. l \in Loops /\ l.route \in 1 .. Len(Routes[r])
  BY DEF Types, LocalType
<1>2. m \in Loops /\ m.route = l.route
  BY <1>1 DEF Loops
<1>. QED  BY <1>1, <1>2, AgainTypes DEF LocalCapacityFailure

\* While an attempt is on its way to the call nothing is recorded, and it holds
\* the slot and the probe of its account only.
LEMMA OnTheWay ==
    ASSUME Types, NEW r \in Requests, Mine(r), pc[r] \in Attempt \ {"close"}
    PROVE  /\ acct[r] \in Accounts /\ Unrecorded(r)
           /\ \A a \in Accounts : /\ r \in slots[a] => acct[r] = a /\ pc[r] \in InSlot
                                  /\ probe[a] = r => Leaves(r) \/ acct[r] = a
  BY DEF Mine, HasAccount, SlotIsMine, ProbeIsMine, RecordAtEnd, Unrecorded, Attempt

LEMMA TryIncrementKeeps ==
    ASSUME Types, NEW r \in Requests, Mine(r), TryIncrementRPM(r)
    PROVE  Kept(r) /\ UNCHANGED slotVars
<1>1. pc[r] = "rate" /\ Goto(r, "slot") /\ UNCHANGED <<loop, acct, out, gateVars, slotVars, records, unmetered>>
      /\ acct[r] \in Accounts
  BY OnTheWay DEF TryIncrementRPM, written, Attempt
<1>2. RateType' /\ FaultType' /\ \A q \in Requests \ {r} : reserved'[q] = reserved[q]
  <2>1. CASE UNCHANGED <<reserved, rateVars, faults>>
    BY <2>1 DEF rateVars, faults, Types, RateType, FaultType
  <2>2. CASE \E n \in Nat : LetThrough(r, n) /\ (UNCHANGED faults \/ CommandFails(r))
    BY <1>1, <2>2, LetThroughTypes, CommandTypes DEF Types, RateType, faults, FaultType
  <2>. QED  BY <2>1, <2>2 DEF TryIncrementRPM
<1>3. Types'
  <2>1. LocalType'
    BY <1>1, GotoTypes DEF Places
  <2>. QED  BY <1>1, <1>2, <2>1 DEF Types, ProbeType, SlotType, gateVars, slotVars
<1>4. pc'[r] = "slot"
  BY <1>1 DEF Goto, Types, LocalType
<1>5. Mine(r)'
  BY <1>1, <1>4, OnTheWay DEF Mine, HasAccount, PlaceIsMine, SlotIsMine, ProbeIsMine, CallHasSlot, RecordAtEnd,
     Unrecorded, Attempt, InMinute, InSlot, Leaves, gateVars, slotVars
<1>6. Frame(r)
  BY <1>1, <1>2, FrameOf DEF Goto, SameRecord, Types, LocalType, gateVars, slotVars
<1>. QED  BY <1>1, <1>3, <1>5, <1>6 DEF Kept

LEMMA RPMFullKeeps ==
    ASSUME Types, NEW r \in Requests, Mine(r), RPMFull(r)
    PROVE  Kept(r) /\ UNCHANGED slotVars
<1>1. /\ pc[r] = "rate" /\ acct[r] \in Accounts /\ ReleaseFamilyProbe(r) /\ LocalCapacityFailure(r)
      /\ UNCHANGED <<reserved, cancelled, errors, rateVars, slotVars, records, unmetered>>
  BY OnTheWay DEF RPMFull, Attempt, faults, written
<1>2. /\ pc' = [pc EXCEPT ![r] = "loop"] /\ acct' = [acct EXCEPT ![r] = NoAccount]
      /\ out' = [out EXCEPT ![r] = NoOut]
  BY <1>1 DEF LocalCapacityFailure, Again, Goto
<1>3. Types'
  <2>1. LocalType'
    BY <1>1, CapacityTypes
  <2>. QED  BY <1>1, <2>1, FreesProbe DEF Types, RateType, FaultType, SlotType, rateVars, slotVars
<1>4. Mine(r)'
  <2>1. pc'[r] = "loop" /\ ~reserved'[r] /\ Unrecorded(r)'
    BY <1>1, <1>2, OnTheWay DEF Unrecorded, Types, LocalType, RateType, FaultType, Mine, PlaceIsMine, InMinute,
       Attempt
  <2>2. \A a \in Accounts : r \notin slots'[a] /\ (probe'[a] = r => Leaves(r))
    BY <1>1, OnTheWay, FreesProbe DEF slotVars, InSlot, Attempt
  <2>. QED  BY <2>1, <2>2, Over
<1>5. Frame(r)
  BY <1>1, <1>2, FreesProbe, FrameOf DEF LocalCapacityFailure, Again, SameRecord, Types, LocalType, slotVars
<1>. QED  BY <1>1, <1>3, <1>4, <1>5 DEF Kept

\* The one step that adds a slot: the account has one left.
LEMMA AcquireKeeps ==
    ASSUME Types, NEW r \in Requests, Mine(r), AcquireSlot(r), \A a \in Accounts : SlotLimit(a)
    PROVE  Kept(r) /\ \A a \in Accounts : SlotLimit(a)'
<1>1. /\ pc[r] = "slot" /\ acct[r] \in Accounts /\ pc' = [pc EXCEPT ![r] = "gate"]
      /\ loop' = [loop EXCEPT ![r].waiting = FALSE, ![r].free = r \notin slots'[acct[r]]]
      /\ UNCHANGED <<acct, reserved, out, rateVars, gateVars, records, unmetered, overdue>>
  BY OnTheWay DEF AcquireSlot, Attempt, Goto, slotVars, faults, written
<1>2. \/ slots' = slots
      \/ slots' = [slots EXCEPT ![acct[r]] = Young(r)]
      \/ /\ Cardinality(Young(r)) < MaxSlots[acct[r]]
         /\ slots' = [slots EXCEPT ![acct[r]] = Young(r) \cup {r}]
  BY DEF AcquireSlot, AddSlot, Refuse, Room
<1>2a. FaultType'
  BY CommandTypes DEF AcquireSlot, faults, Types, FaultType
<1>2b. /\ \A q \in Requests : loop'[q] \in Loops /\ loop'[q].route \in 1 .. Len(Routes[q])
       /\ DOMAIN loop' = Requests /\ \A q \in Requests \ {r} : loop'[q] = loop[q]
  BY <1>1, FlagTypes
<1>2c. loop'[r].free <=> r \notin slots'[acct[r]]
  <2> DEFINE b == r \notin slots'[acct[r]]
  <2>1. loop[r] \in Loops /\ DOMAIN loop = Requests
    BY DEF Types, LocalType
  <2>2. loop'[r] = [loop[r] EXCEPT !.waiting = FALSE, !.free = b]
    BY <1>1, <2>1
  <2> HIDE DEF b
  <2>3. loop'[r].free = b
    BY <2>1, <2>2 DEF Loops
  <2>. QED  BY <2>3 DEF b
<1>3. Types'
  <2>1. LocalType'
    BY <1>1, <1>2b DEF Types, LocalType, Places
  <2>2. SlotType'
    BY <1>1, <1>2 DEF Types, SlotType, Young
  <2>. QED  BY <1>1, <1>2a, <2>1, <2>2 DEF Types, RateType, FaultType, ProbeType, rateVars, gateVars
<1>4. pc'[r] = "gate" /\ \A a \in Accounts : r \in slots'[a] => acct[r] = a
  BY <1>1, <1>2, OnTheWay DEF Types, LocalType, SlotType, InSlot, Attempt
<1>5. Mine(r)'
  BY <1>1, <1>2, <1>2c, <1>4, OnTheWay DEF Mine, HasAccount, PlaceIsMine, SlotIsMine, ProbeIsMine, CallHasSlot,
     RecordAtEnd, Unrecorded, Attempt, InMinute, InSlot, Leaves, gateVars, Types, SlotType, Young
<1>6. Frame(r)
  <2>1. \A a \in Accounts : \A q \in Requests \ {r} : /\ q \in slots'[a] => q \in slots[a]
                                                      /\ q \in slots[a] /\ q \notin overdue => q \in slots'[a]
    BY <1>2 DEF Types, SlotType, Young
  <2>. QED  BY <1>1, <1>2b, <2>1, FrameOf DEF SameRecord, Types, LocalType, gateVars
<1>7. ASSUME NEW a \in Accounts PROVE SlotLimit(a)'
  <2>1. CASE slots'[a] = slots[a]
    BY <1>1, <2>1 DEF SlotLimit
  <2>2. CASE slots'[a] # slots[a]
    <3>1. /\ a = acct[r]
          /\ \/ slots'[a] = Young(r)
             \/ Cardinality(Young(r)) < MaxSlots[a] /\ slots'[a] = Young(r) \cup {r}
      BY <1>2, <2>2 DEF Types, SlotType
    <3>2. \/ slots'[a] \ overdue' = slots[a] \ overdue
          \/ /\ slots'[a] \ overdue' = (slots[a] \ overdue) \cup {r}
             /\ Cardinality(Young(r)) < MaxSlots[a]
      BY <1>1, <3>1 DEF Young
    <3>3. CASE slots'[a] \ overdue' = (slots[a] \ overdue)
      BY <3>3 DEF SlotLimit
    <3>4. CASE /\ slots'[a] \ overdue' = (slots[a] \ overdue) \cup {r}
               /\ Cardinality(Young(r)) < MaxSlots[a]
      <4>1. IsFiniteSet(slots[a] \ overdue) /\ MaxSlots[a] \in Nat
        BY ForwarderAssumption DEF SlotLimit
      <4>2. Cardinality(slots[a] \ overdue) \in Nat /\ Cardinality(slots[a] \ overdue) < MaxSlots[a]
        BY <3>1, <3>4, <4>1, FS_CardinalityType DEF Young
      <4>3. /\ IsFiniteSet((slots[a] \ overdue) \cup {r})
            /\ \/ Cardinality((slots[a] \ overdue) \cup {r}) = Cardinality(slots[a] \ overdue)
               \/ Cardinality((slots[a] \ overdue) \cup {r}) = Cardinality(slots[a] \ overdue) + 1
        BY <4>1, FS_AddElement
      <4>4. Cardinality((slots[a] \ overdue) \cup {r}) <= MaxSlots[a]
        BY <4>1, <4>2, <4>3
      <4>. QED  BY <3>4, <4>3, <4>4 DEF SlotLimit
    <3>. QED  BY <3>2, <3>3, <3>4
  <2>. QED  BY <2>1, <2>2
<1>. QED  BY <1>3, <1>5, <1>6, <1>7 DEF Kept

LEMMA SlotsFullKeeps ==
    ASSUME Types, NEW r \in Requests, Mine(r), SlotsFull(r)
    PROVE  Kept(r) /\ Shrinks
<1>1. /\ pc[r] = "slot" /\ acct[r] \in Accounts /\ ReleaseFamilyProbe(r) /\ LocalCapacityFailure(r)
      /\ slots' = [slots EXCEPT ![acct[r]] = slots[acct[r]] \ overdue]
      /\ UNCHANGED <<overdue, records, unmetered>>
  BY OnTheWay DEF SlotsFull, Refuse, Attempt, Young, faults, written
<1>2. /\ pc' = [pc EXCEPT ![r] = "loop"] /\ acct' = [acct EXCEPT ![r] = NoAccount]
      /\ out' = [out EXCEPT ![r] = NoOut]
  BY <1>1 DEF LocalCapacityFailure, Again, Goto
<1>3. cancelled' \in [Requests -> BOOLEAN]
  BY DEF SlotsFull, Cancel, Types, FaultType
<1>4. RateType' /\ FaultType' /\ reserved' = [reserved EXCEPT ![r] = FALSE]
  BY <1>3, GivesBack DEF SlotsFull, FaultType
<1>5. Types' /\ Shrinks
  <2>1. LocalType'
    BY <1>1, CapacityTypes
  <2>. QED  BY <1>1, <1>4, <2>1, FreesProbe, Purges DEF Types
<1>6. Mine(r)'
  <2>1. pc'[r] = "loop" /\ ~reserved'[r] /\ Unrecorded(r)'
    BY <1>1, <1>2, <1>4, OnTheWay DEF Unrecorded, Types, LocalType, RateType, FaultType, Attempt
  <2>2. \A a \in Accounts : r \notin slots'[a] /\ (probe'[a] = r => Leaves(r))
    BY <1>1, OnTheWay, FreesProbe, Purges DEF InSlot, Attempt
  <2>. QED  BY <2>1, <2>2, Over
<1>7. Frame(r)
  BY <1>1, <1>2, <1>4, FreesProbe, Purges, FrameOf DEF LocalCapacityFailure, Again, SameRecord, Types, LocalType,
     RateType
<1>. QED  BY <1>5, <1>6, <1>7 DEF Kept

LEMMA GatePassesKeeps ==
    ASSUME Types, NEW r \in Requests, Mine(r), GatePasses(r)
    PROVE  Kept(r) /\ UNCHANGED slotVars
<1>1. /\ pc[r] = "gate" /\ acct[r] \in Accounts /\ ClaimProbe(r, acct[r])
      /\ UNCHANGED <<loop, acct, reserved, out, cancelled, errors, rateVars, slotVars, records, unmetered>>
  BY OnTheWay DEF GatePasses, Attempt, faults, written
<1>2. PICK p \in {"begin", "call"} : Goto(r, p)
  BY DEF GatePasses, faults, written
<1>3. Types'
  <2>1. LocalType'
    BY <1>1, <1>2, GotoTypes DEF Places
  <2>. QED  BY <1>1, <2>1, ClaimsProbe DEF Types, RateType, FaultType, SlotType, rateVars, slotVars
<1>4. pc'[r] \in {"begin", "call"}
  BY <1>2 DEF Goto, Types, LocalType
<1>5. \A a \in Accounts : probe'[a] = r => Leaves(r) \/ acct[r] = a
  BY <1>1, OnTheWay, ClaimsProbe DEF Attempt
<1>6. Mine(r)'
  BY <1>1, <1>4, <1>5, OnTheWay DEF Mine, HasAccount, PlaceIsMine, SlotIsMine, ProbeIsMine, CallHasSlot,
     RecordAtEnd, Unrecorded, Attempt, InMinute, InSlot, Leaves, slotVars
<1>7. Frame(r)
  <2>1. \A q \in Requests \ {r} : pc'[q] = pc[q]
    BY <1>2 DEF Goto, Types, LocalType
  <2>2. \A a \in Accounts : \A q \in Requests \ {r} : probe'[a] = q => probe[a] = q
    BY <1>1, ClaimsProbe
  <2>. QED  BY <1>1, <2>1, <2>2 DEF Frame, Spared, SameRecord, slotVars
<1>. QED  BY <1>1, <1>3, <1>6, <1>7 DEF Kept

\* An attempt that ends with everything given back, for another one or none.
LEMMA AttemptEnds ==
    ASSUME Types, NEW r \in Requests, Mine(r), pc[r] \in Attempt \ {"close"}, ReleaseSlot(r),
           ReleaseFamilyProbe(r), Undo(r) \/ UndoNothing(r), UNCHANGED cancelled,
           \/ Finish(r) /\ WriteRecord(r)
           \/ Again(r, [loop[r] EXCEPT !.hard = @ \cup {acct[r]}]) /\ UNCHANGED <<records, unmetered>>
    PROVE  Kept(r) /\ Shrinks
<1>1. acct[r] \in Accounts /\ Unrecorded(r) /\ pc[r] # "dead"
  BY OnTheWay DEF Attempt
<1>2. RateType' /\ FaultType' /\ reserved' = [reserved EXCEPT ![r] = FALSE]
  BY GivesBack DEF Types, FaultType
<1>3. /\ \/ pc' = [pc EXCEPT ![r] = "done"] /\ Recorded(r)'
         \/ pc' = [pc EXCEPT ![r] = "loop"] /\ Unrecorded(r)'
      /\ acct' = [acct EXCEPT ![r] = NoAccount] /\ out' = [out EXCEPT ![r] = NoOut]
      /\ \A q \in Requests \ {r} : loop'[q] = loop[q] /\ SameRecord(q)
  <2>1. CASE Finish(r) /\ WriteRecord(r)
    BY <1>1, <2>1, Writes DEF Finish, Goto, Types, LocalType
  <2>2. CASE Again(r, [loop[r] EXCEPT !.hard = @ \cup {acct[r]}]) /\ UNCHANGED <<records, unmetered>>
    BY <1>1, <2>2 DEF Again, Goto, Unrecorded, SameRecord, Types, LocalType
  <2>. QED  BY <2>1, <2>2
<1>4. Types' /\ Shrinks
  <2>1. LocalType'
    <3>1. loop[r] \in Loops /\ loop[r].route \in 1 .. Len(Routes[r])
      BY DEF Types, LocalType
    <3>2. [loop[r] EXCEPT !.hard = @ \cup {acct[r]}] \in Loops
          /\ [loop[r] EXCEPT !.hard = @ \cup {acct[r]}].route = loop[r].route
      BY <1>1, <3>1 DEF Loops
    <3>. QED  BY <3>1, <3>2, AgainTypes, FinishTypes
  <2>. QED  BY <1>1, <1>2, <2>1, FreesProbe, ReleasesSlot DEF Types
<1>5. Mine(r)'
  <2>1. pc'[r] \in {"loop", "done"} /\ ~reserved'[r]
        /\ IF pc'[r] = "done" THEN Recorded(r)' ELSE Unrecorded(r)'
    BY <1>2, <1>3 DEF Types, LocalType, RateType, FaultType
  <2>2. \A a \in Accounts : r \notin slots'[a] /\ (probe'[a] = r => Leaves(r))
    BY <1>1, OnTheWay, FreesProbe, ReleasesSlot
  <2>. QED  BY <2>1, <2>2, Over
<1>6. Frame(r)
  <2>1. \A q \in Requests \ {r} : /\ pc'[q] = pc[q] /\ acct'[q] = acct[q] /\ out'[q] = out[q]
                                 /\ loop'[q] = loop[q] /\ SameRecord(q)
    BY <1>3 DEF Types, LocalType
  <2>2. \A q \in Requests \ {r} : reserved'[q] = reserved[q]
    BY <1>2 DEF Types, RateType, FaultType
  <2>3. \A a \in Accounts : \A q \in Requests \ {r} : probe'[a] = q => probe[a] = q
    BY <1>1, FreesProbe
  <2>4. \A q \in Requests \ {r} : /\ q \in overdue' <=> q \in overdue
                                 /\ \A a \in Accounts : q \in slots'[a] <=> q \in slots[a]
    BY <1>1, ReleasesSlot
  <2>. QED  BY <2>1, <2>2, <2>3, <2>4 DEF Frame, Spared
<1>. QED  BY <1>4, <1>5, <1>6 DEF Kept

LEMMA BeginAllowsKeeps ==
    ASSUME Types, NEW r \in Requests, Mine(r), BeginAllows(r)
    PROVE  Kept(r) /\ UNCHANGED slotVars
<1>1. /\ pc[r] = "begin" /\ acct[r] \in Accounts /\ pc' = [pc EXCEPT ![r] = "call"]
      /\ loop' = [loop EXCEPT ![r].begun = TRUE]
      /\ UNCHANGED <<acct, reserved, out, cancelled, errors, rateVars, gateVars, slotVars, records, unmetered>>
  BY OnTheWay DEF BeginAllows, Attempt, Goto, faults, written
<1>2. Types'
  <2>1. LocalType'
    BY <1>1, FlagTypes DEF Types, LocalType, Places
  <2>. QED  BY <1>1, <2>1 DEF Types, RateType, FaultType, ProbeType, SlotType, rateVars, gateVars, slotVars
<1>3. pc'[r] = "call" /\ loop'[r].free = loop[r].free
  BY <1>1 DEF Types, LocalType, Loops
<1>4. Mine(r)'
  BY <1>1, <1>3, OnTheWay DEF Mine, HasAccount, PlaceIsMine, SlotIsMine, ProbeIsMine, CallHasSlot, RecordAtEnd,
     Unrecorded, Attempt, InMinute, InSlot, Leaves, gateVars, slotVars
<1>5. Frame(r)
  BY <1>1, FlagTypes, FrameOf DEF SameRecord, Types, LocalType, gateVars, slotVars
<1>. QED  BY <1>1, <1>2, <1>4, <1>5 DEF Kept

LEMMA GatesKeep ==
    ASSUME Types, NEW r \in Requests, Mine(r), Gates(r), \A a \in Accounts : SlotLimit(a)
    PROVE  Kept(r) /\ (Shrinks \/ \A a \in Accounts : SlotLimit(a)')
<1>1. CASE GateRejects(r) \/ BeginDenies(r)
  BY <1>1, AttemptEnds DEF GateRejects, BeginDenies, UndoIfLive, Attempt, faults, written
<1>. QED  BY <1>1, SlotsSame, TryIncrementKeeps, RPMFullKeeps, AcquireKeeps, SlotsFullKeeps, GatePassesKeeps,
         BeginAllowsKeeps DEF Gates

----------------------------------------------------------------------------
(* The call and its outcome.                                               *)

LEMMA PluginReturnsKeeps ==
    ASSUME Types, NEW r \in Requests, Mine(r), NEW o \in Outcomes[r], PluginReturns(r, o)
    PROVE  Kept(r) /\ UNCHANGED slotVars
<1>1. /\ pc[r] = "call" /\ acct[r] \in Accounts /\ pc' = [pc EXCEPT ![r] = "verdict"]
      /\ out' = [out EXCEPT ![r] = o]
      /\ UNCHANGED <<loop, acct, reserved, cancelled, errors, rateVars, gateVars, slotVars, records, unmetered>>
  BY OnTheWay DEF PluginReturns, Attempt, Goto, faults, written
<1>2. Types'
  <2>1. o \in [kind : Kinds \cup {"none"}, final : BOOLEAN, usage : BOOLEAN]
    BY ForwarderAssumption
  <2>2. LocalType'
    BY <1>1, <2>1 DEF Types, LocalType, Places
  <2>. QED  BY <1>1, <2>2 DEF Types, RateType, FaultType, ProbeType, SlotType, rateVars, gateVars, slotVars
<1>3. pc'[r] = "verdict" /\ out'[r] = o
  BY <1>1 DEF Types, LocalType
<1>4. Mine(r)'
  BY <1>1, <1>3, OnTheWay DEF Mine, HasAccount, PlaceIsMine, SlotIsMine, ProbeIsMine, CallHasSlot, RecordAtEnd,
     Unrecorded, Attempt, InMinute, InSlot, Leaves, gateVars, slotVars
<1>5. Frame(r)
  BY <1>1, FrameOf DEF SameRecord, Types, LocalType, gateVars, slotVars
<1>. QED  BY <1>1, <1>2, <1>4, <1>5 DEF Kept

LEMMA ReleaseBeforeFailoverKeeps ==
    ASSUME Types, NEW r \in Requests, Mine(r), ReleaseBeforeFailover(r)
    PROVE  Kept(r) /\ Shrinks
<1>1. /\ pc[r] = "verdict" /\ acct[r] \in Accounts /\ Goto(r, "apply") /\ ReleaseSlot(r)
      /\ UNCHANGED <<loop, acct, reserved, out, cancelled, errors, rateVars, gateVars, records, unmetered>>
  BY OnTheWay DEF ReleaseBeforeFailover, Attempt, faults, written
<1>2. Types' /\ Shrinks
  <2>1. LocalType'
    BY <1>1, GotoTypes DEF Places
  <2>. QED  BY <1>1, <2>1, ReleasesSlot DEF Types, RateType, FaultType, ProbeType, rateVars, gateVars
<1>3. pc'[r] = "apply"
  BY <1>1 DEF Goto, Types, LocalType
<1>4. Mine(r)'
  <2>1. \A a \in Accounts : r \notin slots'[a]
    BY <1>1, ReleasesSlot
  <2>. QED  BY <1>1, <1>3, <2>1, OnTheWay DEF Mine, HasAccount, PlaceIsMine, SlotIsMine, ProbeIsMine, CallHasSlot,
            RecordAtEnd, Unrecorded, Attempt, InMinute, Leaves, gateVars
<1>5. Frame(r)
  <2>1. \A q \in Requests \ {r} : pc'[q] = pc[q]
    BY <1>1 DEF Goto, Types, LocalType
  <2>2. \A q \in Requests \ {r} : /\ q \in overdue' <=> q \in overdue
                                 /\ \A a \in Accounts : q \in slots'[a] <=> q \in slots[a]
    BY <1>1, ReleasesSlot
  <2>. QED  BY <1>1, <2>1, <2>2 DEF Frame, Spared, SameRecord, gateVars
<1>. QED  BY <1>2, <1>4, <1>5 DEF Kept

\* The verdict on the account; the place in the minute is used up or given back.
LEMMA OutcomeApplies ==
    ASSUME Types, NEW r \in Requests, Mine(r), pc[r] \in {"verdict", "apply"}, ApplyOutcome(r)
    PROVE  /\ RateType' /\ FaultType' /\ reserved' = [reserved EXCEPT ![r] = FALSE]
           /\ ProbeType'
           /\ \A a \in Accounts : \A q \in Requests : probe'[a] = q => probe[a] = q
           /\ \A a \in Accounts : probe'[a] = r => Leaves(r)
<1>1. acct[r] \in Accounts /\ out[r] \in Outcomes[r] /\ Judge(r)
  BY DEF Mine, HasAccount, Attempt, ApplyOutcome
<1>2. RateType' /\ errors' \in 0 .. MaxErrors /\ reserved' = [reserved EXCEPT ![r] = FALSE]
  BY GivesBack DEF ApplyOutcome
<1>3. cancelled' \in [Requests -> BOOLEAN]
  BY DEF ApplyOutcome, Cancel, Types, FaultType
<1>4. \A a \in Accounts : probe[a] = r => Leaves(r) \/ acct[r] = a
  BY OnTheWay DEF Attempt
<1>. QED  BY <1>1, <1>2, <1>3, <1>4, JudgeTypes DEF FaultType

LEMMA ExcludedTypes ==
    ASSUME Types, NEW r \in Requests, acct[r] \in Accounts
    PROVE  Excluded(r) \in Loops /\ Excluded(r).route \in 1 .. Len(Routes[r])
<1> DEFINE l == loop[r]
           a == acct[r]
<1>1. l \in Loops /\ l.route \in 1 .. Len(Routes[r])
  BY DEF Types, LocalType
<1>2. Excluded(r) \in {[l EXCEPT !.hard = @ \cup {a}],
                       [l EXCEPT !.soft = @ \cup {a}, !.last = NoAccount],
                       [l EXCEPT !.soft = @ \cup {a}, !.last = a]}
  BY DEF Excluded
<1> HIDE DEF l
<1>3. [l EXCEPT !.hard = @ \cup {a}] \in Loops /\ [l EXCEPT !.hard = @ \cup {a}].route = l.route
  BY <1>1 DEF Loops
<1>4. /\ [l EXCEPT !.soft = @ \cup {a}, !.last = NoAccount] \in Loops
      /\ [l EXCEPT !.soft = @ \cup {a}, !.last = NoAccount].route = l.route
  BY <1>1 DEF Loops
<1>5. /\ [l EXCEPT !.soft = @ \cup {a}, !.last = a] \in Loops
      /\ [l EXCEPT !.soft = @ \cup {a}, !.last = a].route = l.route
  BY <1>1 DEF Loops
<1>. QED  BY <1>1, <1>2, <1>3, <1>4, <1>5

LEMMA FailoverKeeps ==
    ASSUME Types, NEW r \in Requests, Mine(r), Failover(r)
    PROVE  Kept(r) /\ UNCHANGED slotVars
<1>1. /\ pc[r] = "apply" /\ acct[r] \in Accounts /\ Unrecorded(r) /\ ApplyOutcome(r)
      /\ Again(r, Excluded(r)) /\ UNCHANGED <<slotVars, records, unmetered>>
  BY OnTheWay DEF Failover, Attempt, faults, written
<1>2. /\ pc' = [pc EXCEPT ![r] = "loop"] /\ acct' = [acct EXCEPT ![r] = NoAccount]
      /\ out' = [out EXCEPT ![r] = NoOut]
  BY <1>1 DEF Again, Goto
<1>3. Types'
  <2>1. LocalType'
    BY <1>1, ExcludedTypes, AgainTypes
  <2>. QED  BY <1>1, <2>1, OutcomeApplies DEF Types, SlotType, slotVars
<1>4. Mine(r)'
  <2>1. pc'[r] = "loop" /\ ~reserved'[r] /\ Unrecorded(r)'
    BY <1>1, <1>2, OutcomeApplies DEF Unrecorded, Types, LocalType, RateType, FaultType
  <2>2. \A a \in Accounts : r \notin slots'[a]
    BY <1>1, OnTheWay DEF slotVars, InSlot, Attempt
  <2>. QED  BY <1>1, <2>1, <2>2, OutcomeApplies, Over
<1>5. Frame(r)
  <2>1. \A q \in Requests \ {r} : pc'[q] = pc[q] /\ acct'[q] = acct[q] /\ out'[q] = out[q] /\ loop'[q] = loop[q]
    BY <1>1, <1>2 DEF Again, Types, LocalType
  <2>2. \A q \in Requests \ {r} : reserved'[q] = reserved[q]
    BY <1>1, OutcomeApplies DEF Types, RateType
  <2>3. \A a \in Accounts : \A q \in Requests : probe'[a] = q => probe[a] = q
    BY <1>1, OutcomeApplies
  <2>. QED  BY <1>1, <2>1, <2>2, <2>3 DEF Frame, Spared, SameRecord, slotVars
<1>. QED  BY <1>1, <1>3, <1>4, <1>5 DEF Kept

LEMMA WriteResultKeeps ==
    ASSUME Types, NEW r \in Requests, Mine(r), WriteResult(r)
    PROVE  Kept(r) /\ UNCHANGED slotVars
<1>1. /\ pc[r] = "verdict" /\ acct[r] \in Accounts /\ Unrecorded(r) /\ ApplyOutcome(r)
      /\ pc' = [pc EXCEPT ![r] = "close"] /\ RecordResult(r)
      /\ UNCHANGED <<loop, acct, out, slotVars>>
  BY OnTheWay DEF WriteResult, Goto, Attempt
<1>2. Types'
  <2>1. LocalType'
    BY <1>1, Writes DEF Types, LocalType, Places
  <2>. QED  BY <1>1, <2>1, OutcomeApplies DEF Types, SlotType, slotVars
<1>3. pc'[r] = "close" /\ ~reserved'[r] /\ Recorded(r)'
  BY <1>1, OutcomeApplies, Writes DEF Types, LocalType, RateType
<1>4. Mine(r)'
  <2>1. \A a \in Accounts : probe'[a] = r => Leaves(r)
    BY <1>1, OutcomeApplies
  <2>. QED  BY <1>1, <1>3, <2>1, OnTheWay DEF Mine, HasAccount, PlaceIsMine, SlotIsMine, ProbeIsMine, CallHasSlot,
            RecordAtEnd, Recorded, Attempt, InSlot, Leaves, slotVars
<1>5. Frame(r)
  <2>1. \A q \in Requests \ {r} : pc'[q] = pc[q] /\ SameRecord(q)
    BY <1>1, Writes DEF Types, LocalType
  <2>2. \A q \in Requests \ {r} : reserved'[q] = reserved[q]
    BY <1>1, OutcomeApplies DEF Types, RateType
  <2>3. \A a \in Accounts : \A q \in Requests : probe'[a] = q => probe[a] = q
    BY <1>1, OutcomeApplies
  <2>. QED  BY <1>1, <2>1, <2>2, <2>3 DEF Frame, Spared, slotVars
<1>. QED  BY <1>1, <1>2, <1>4, <1>5 DEF Kept

LEMMA CloseKeeps ==
    ASSUME Types, NEW r \in Requests, Mine(r), Close(r)
    PROVE  Kept(r) /\ Shrinks
<1>1. /\ pc[r] = "close" /\ acct[r] \in Accounts /\ Recorded(r) /\ ~reserved[r]
      /\ ReleaseSlot(r) /\ Finish(r)
      /\ UNCHANGED <<reserved, cancelled, errors, rateVars, gateVars, records, unmetered>>
  BY DEF Close, Mine, HasAccount, PlaceIsMine, RecordAtEnd, Attempt, InMinute, faults, written
<1>2. /\ pc' = [pc EXCEPT ![r] = "done"] /\ acct' = [acct EXCEPT ![r] = NoAccount]
      /\ out' = [out EXCEPT ![r] = NoOut]
  BY <1>1 DEF Finish, Goto
<1>3. Types' /\ Shrinks
  <2>1. LocalType'
    BY <1>1, FinishTypes
  <2>. QED  BY <1>1, <2>1, ReleasesSlot DEF Types, RateType, FaultType, ProbeType, rateVars, gateVars
<1>4. Mine(r)'
  <2>1. pc'[r] = "done" /\ ~reserved'[r] /\ Recorded(r)'
    BY <1>1, <1>2 DEF Recorded, Types, LocalType, RateType, FaultType
  <2>2. \A a \in Accounts : r \notin slots'[a] /\ (probe'[a] = r => Leaves(r))
    BY <1>1, ReleasesSlot DEF Mine, ProbeIsMine, Leaves, gateVars
  <2>. QED  BY <2>1, <2>2, Over
<1>5. Frame(r)
  <2>1. \A q \in Requests \ {r} : pc'[q] = pc[q] /\ acct'[q] = acct[q] /\ out'[q] = out[q] /\ loop'[q] = loop[q]
    BY <1>1, <1>2 DEF Finish, Types, LocalType
  <2>2. \A q \in Requests \ {r} : /\ q \in overdue' <=> q \in overdue
                                 /\ \A a \in Accounts : q \in slots'[a] <=> q \in slots[a]
    BY <1>1, ReleasesSlot
  <2>. QED  BY <1>1, <2>1, <2>2 DEF Frame, Spared, SameRecord, gateVars
<1>. QED  BY <1>3, <1>4, <1>5 DEF Kept

LEMMA OutcomeKeeps ==
    ASSUME Types, NEW r \in Requests, Mine(r), Returns(r) \/ Outcome(r)
    PROVE  Kept(r) /\ Shrinks
<1>1. CASE FinishCancelled(r)
  BY <1>1, AttemptEnds DEF FinishCancelled, Attempt, faults, written
<1>. QED  BY <1>1, SlotsSame, PluginReturnsKeeps, ReleaseBeforeFailoverKeeps, FailoverKeeps, WriteResultKeeps,
         CloseKeeps DEF Returns, Outcome

----------------------------------------------------------------------------
(* Time, clients and servers.                                              *)

LEMMA ClientGoesKeeps ==
    ASSUME Types, NEW r \in Requests, Mine(r), ClientGoes(r)
    PROVE  Kept(r) /\ UNCHANGED slotVars
<1>1. /\ cancelled' = [cancelled EXCEPT ![r] = TRUE]
      /\ UNCHANGED <<pc, loop, acct, reserved, out, errors, rateVars, gateVars, slotVars, records, unmetered>>
  BY DEF ClientGoes, Cancel, localVars, faults, written
<1>2. Types'
  BY <1>1 DEF Types, LocalType, RateType, FaultType, ProbeType, SlotType, rateVars, gateVars, slotVars
<1>3. Mine(r)'
  BY <1>1 DEF Mine, HasAccount, PlaceIsMine, SlotIsMine, ProbeIsMine, CallHasSlot, RecordAtEnd, Recorded,
     Unrecorded, Leaves, gateVars, slotVars
<1>4. Frame(r)
  BY <1>1, FrameOf DEF SameRecord, Types, LocalType, gateVars, slotVars
<1>. QED  BY <1>1, <1>2, <1>3, <1>4 DEF Kept

LEMMA QueueDeadlineKeeps ==
    ASSUME Types, NEW r \in Requests, Mine(r), QueueDeadline(r)
    PROVE  Kept(r) /\ UNCHANGED slotVars
<1>1. /\ loop' = [loop EXCEPT ![r].late = TRUE]
      /\ UNCHANGED <<pc, acct, reserved, out, cancelled, errors, rateVars, gateVars, slotVars, records, unmetered>>
  BY DEF QueueDeadline, faults, written
<1>2. Types'
  <2>1. LocalType'
    BY <1>1, FlagTypes DEF Types, LocalType
  <2>. QED  BY <1>1, <2>1 DEF Types, RateType, FaultType, ProbeType, SlotType, rateVars, gateVars, slotVars
<1>3. \A q \in Requests : Spared(q)
  BY <1>1 DEF Spared, SameRecord, Types, LocalType, Loops, gateVars, slotVars
<1>. QED  BY <1>1, <1>2, <1>3, SparedKeeps DEF Kept, Frame

LEMMA CrashKeeps ==
    ASSUME Types, NEW r \in Requests, Mine(r), Crash(r)
    PROVE  Kept(r) /\ UNCHANGED slotVars
<1>1. /\ pc' = [pc EXCEPT ![r] = "dead"] /\ Keep(r) /\ loop' = [loop EXCEPT ![r] = Fresh(1)]
      /\ acct' = [acct EXCEPT ![r] = NoAccount] /\ out' = [out EXCEPT ![r] = NoOut]
      /\ UNCHANGED <<faults, gateVars, slotVars, records, unmetered>>
  BY DEF Crash, written
<1>2. RateType' /\ FaultType' /\ reserved' = [reserved EXCEPT ![r] = FALSE]
  BY <1>1, GivesBack DEF faults, Types, FaultType
<1>3. Types'
  <2> DEFINE new == Fresh(1)
  <2>1. new \in Loops /\ new.route \in 1 .. Len(Routes[r])
    BY FreshLoop DEF Fresh
  <2>2. loop' = [loop EXCEPT ![r] = new]
    BY <1>1
  <2> HIDE DEF new
  <2>3. /\ \A q \in Requests : loop'[q] \in Loops /\ loop'[q].route \in 1 .. Len(Routes[q])
        /\ DOMAIN loop' = Requests
    BY <2>1, <2>2 DEF Types, LocalType
  <2>4. pc' \in [Requests -> Places] /\ acct' \in [Requests -> Accounts \cup {NoAccount}]
    BY <1>1 DEF Types, LocalType, Places
  <2>5. out' \in [Requests -> [kind : Kinds \cup {"none"}, final : BOOLEAN, usage : BOOLEAN]]
    BY <1>1 DEF Types, LocalType, NoOut
  <2>6. LocalType'
    BY <1>1, <2>3, <2>4, <2>5 DEF Types, LocalType
  <2>. QED  BY <1>1, <1>2, <2>6 DEF Types, ProbeType, SlotType, gateVars, slotVars
<1>4. pc'[r] = "dead" /\ ~reserved'[r]
  BY <1>1, <1>2 DEF Types, LocalType, RateType, FaultType
<1>5. Mine(r)'
  BY <1>1, <1>4 DEF Mine, HasAccount, PlaceIsMine, SlotIsMine, ProbeIsMine, CallHasSlot, RecordAtEnd, Unrecorded,
     Attempt
<1>6. Frame(r)
  BY <1>1, <1>2, FrameOf DEF SameRecord, Types, LocalType, RateType, FaultType, gateVars, slotVars
<1>. QED  BY <1>1, <1>3, <1>5, <1>6 DEF Kept

LEMMA SlotAgesKeeps ==
    ASSUME Types, NEW r \in Requests, Mine(r), SlotAges(r)
    PROVE  Kept(r) /\ Shrinks
<1>1. /\ overdue' = overdue \cup {r}
      /\ UNCHANGED <<pc, loop, acct, reserved, out, cancelled, errors, rateVars, gateVars, slots, records, unmetered>>
  BY DEF SlotAges, localVars, faults, written
<1>2. Types' /\ Shrinks
  BY <1>1 DEF Types, LocalType, RateType, FaultType, ProbeType, SlotType, rateVars, gateVars, Shrinks
<1>3. Mine(r)'
  BY <1>1 DEF Mine, HasAccount, PlaceIsMine, SlotIsMine, ProbeIsMine, CallHasSlot, RecordAtEnd, Recorded,
     Unrecorded, Leaves, gateVars
<1>4. Frame(r)
  BY <1>1 DEF Frame, Spared, SameRecord, gateVars
<1>. QED  BY <1>2, <1>3, <1>4 DEF Kept

\* Steps of nobody in particular spare all requests.
LEMMA AccountKeeps ==
    ASSUME Types, NEW b \in Accounts, SlotsExpire(b) \/ Cool(b) \/ LeaseEnds(b)
    PROVE  Types' /\ Shrinks /\ \A q \in Requests : Spared(q)
<1>1. CASE SlotsExpire(b)
  <2>1. /\ slots' = [slots EXCEPT ![b] = {}] /\ slots[b] \subseteq overdue
        /\ UNCHANGED <<pc, loop, acct, reserved, out, cancelled, errors,
                       rateVars, gateVars, overdue, records, unmetered>>
    BY <1>1 DEF SlotsExpire, localVars, faults, written
  <2>2. SlotType' /\ \A a \in Accounts : slots'[a] = IF a = b THEN {} ELSE slots[a]
    BY <2>1 DEF Types, SlotType
  <2>3. Types'
    BY <2>1, <2>2 DEF Types, LocalType, RateType, FaultType, ProbeType, rateVars, gateVars
  <2>4. Shrinks /\ \A q \in Requests : Spared(q)
    BY <2>1, <2>2 DEF Shrinks, Spared, SameRecord, gateVars
  <2>. QED  BY <2>3, <2>4
<1>2. CASE Cool(b)
  <2>1. /\ gate' = [gate EXCEPT ![b] = "half"]
        /\ UNCHANGED <<pc, loop, acct, reserved, out, cancelled, errors,
                       rateVars, probe, slotVars, records, unmetered>>
    BY <1>2 DEF Cool, localVars, faults, written
  <2>2. Types'
    BY <2>1 DEF Types, LocalType, RateType, FaultType, ProbeType, SlotType, rateVars, slotVars
  <2>. QED  BY <2>1, <2>2 DEF Shrinks, Spared, SameRecord, slotVars
<1>3. CASE LeaseEnds(b)
  <2>1. /\ probe' = [probe EXCEPT ![b] = Nobody]
        /\ UNCHANGED <<pc, loop, acct, reserved, out, cancelled, errors,
                       rateVars, gate, slotVars, records, unmetered>>
    BY <1>3 DEF LeaseEnds, localVars, faults, written
  <2>2. Types'
    BY <2>1 DEF Types, LocalType, RateType, FaultType, ProbeType, SlotType, rateVars, slotVars
  <2>3. \A a \in Accounts : \A q \in Requests : probe'[a] = q => probe[a] = q
    BY <2>1, ForwarderAssumption DEF Types, ProbeType
  <2>. QED  BY <2>1, <2>2, <2>3 DEF Shrinks, Spared, SameRecord, slotVars
<1>. QED  BY <1>1, <1>2, <1>3

LEMMA MinuteKeeps ==
    ASSUME Types, NextMinute
    PROVE  Types' /\ Shrinks /\ \A q \in Requests : Spared(q)
<1>1. /\ minute' = minute + 1 /\ rpm' = [a \in Accounts |-> 0] /\ counted' = {}
      /\ reserved' = [r \in Requests |-> FALSE] /\ kept' = [a \in Accounts |-> 0]
      /\ UNCHANGED <<pc, loop, acct, out, cancelled, errors, gateVars, slotVars, records, unmetered>>
  BY DEF NextMinute, faults, written
<1>2. RateType'
  BY <1>1 DEF Types, RateType, FaultType
<1>3. Types'
  BY <1>1, <1>2 DEF Types, LocalType, FaultType, ProbeType, SlotType, gateVars, slotVars
<1>. QED  BY <1>1, <1>3 DEF Shrinks, Spared, SameRecord, gateVars, slotVars

----------------------------------------------------------------------------
(* The invariant is inductive.                                             *)

LEMMA ShrinkLimit ==
    ASSUME Shrinks, NEW a \in Accounts, SlotLimit(a)
    PROVE  SlotLimit(a)'
<1> DEFINE old == slots[a] \ overdue
           new == slots'[a] \ overdue'
<1>1. new \subseteq old /\ IsFiniteSet(old) /\ Cardinality(old) <= MaxSlots[a] /\ MaxSlots[a] \in Nat
  BY ForwarderAssumption DEF Shrinks, SlotLimit
<1>2. IsFiniteSet(new) /\ Cardinality(new) <= Cardinality(old)
  BY <1>1, FS_Subset
<1>3. Cardinality(new) \in Nat /\ Cardinality(old) \in Nat
  BY <1>1, <1>2, FS_CardinalityType
<1>. QED  BY <1>1, <1>2, <1>3 DEF SlotLimit

LEMMA InitInv == Init => IInv
<1> SUFFICES ASSUME Init PROVE IInv
  OBVIOUS
<1>1. Types
  <2>1. \A r \in Requests : Fresh(1) \in Loops /\ 1 \in 1 .. Len(Routes[r])
    BY FreshLoop
  <2>2. Fresh(1).route = 1
    BY DEF Fresh
  <2>3. \A r \in Requests : loop[r] = Fresh(1)
    BY DEF Init
  <2>4. \A r \in Requests : loop[r] \in Loops /\ loop[r].route \in 1 .. Len(Routes[r])
    BY <2>1, <2>2, <2>3
  <2>5. LocalType
    BY <2>4 DEF Init, LocalType, Places, NoOut
  <2>. QED  BY <2>5, ForwarderAssumption DEF Init, Types, RateType, FaultType, ProbeType, SlotType
<1>2. \A r \in Requests : Mine(r)
  BY ForwarderAssumption DEF Init, Mine, HasAccount, PlaceIsMine, SlotIsMine, ProbeIsMine, CallHasSlot, RecordAtEnd,
     Unrecorded, Attempt
<1>3. \A a \in Accounts : SlotLimit(a)
  BY FS_EmptySet, ForwarderAssumption DEF Init, SlotLimit
<1>. QED  BY <1>1, <1>2, <1>3 DEF IInv

LEMMA StepInv == IInv /\ [Next]_vars => IInv'
<1> SUFFICES ASSUME IInv, [Next]_vars PROVE IInv'
  OBVIOUS
<1>0. Types /\ (\A r \in Requests : Mine(r)) /\ \A a \in Accounts : SlotLimit(a)
  BY DEF IInv
<1>1. ASSUME NEW r \in Requests, Kept(r), Shrinks \/ \A a \in Accounts : SlotLimit(a)' PROVE IInv'
  <2>1. \A q \in Requests : Mine(q)'
    <3>1. ASSUME NEW q \in Requests \ {r} PROVE Mine(q)'
      <4>1. Spared(q) /\ Mine(q)
        BY <1>0, <1>1 DEF Kept, Frame
      <4>. QED  BY <4>1, SparedKeeps
    <3>. QED  BY <1>1, <3>1 DEF Kept
  <2>2. \A a \in Accounts : SlotLimit(a)'
    BY <1>0, <1>1, ShrinkLimit
  <2>. QED  BY <1>1, <2>1, <2>2 DEF IInv, Kept
<1>2. ASSUME Types', Shrinks, \A q \in Requests : Spared(q) PROVE IInv'
  <2>1. \A q \in Requests : Mine(q)'
    BY <1>0, <1>2, SparedKeeps
  <2>2. \A a \in Accounts : SlotLimit(a)'
    BY <1>0, <1>2, ShrinkLimit
  <2>. QED  BY <1>2, <2>1, <2>2 DEF IInv
<1>3. ASSUME NEW r \in Requests, Forward(r) PROVE IInv'
  BY <1>0, <1>1, <1>3, SelectionKeeps, GatesKeep, OutcomeKeeps, SlotsSame DEF Forward
<1>4. ASSUME NEW r \in Requests, ClientGoes(r) \/ QueueDeadline(r) \/ SlotAges(r) \/ Crash(r) PROVE IInv'
  BY <1>0, <1>1, <1>4, ClientGoesKeeps, QueueDeadlineKeeps, SlotAgesKeeps, CrashKeeps, SlotsSame
<1>5. ASSUME NEW a \in Accounts, SlotsExpire(a) \/ Cool(a) \/ LeaseEnds(a) PROVE IInv'
  BY <1>0, <1>2, <1>5, AccountKeeps
<1>6. CASE NextMinute
  BY <1>0, <1>2, <1>6, MinuteKeeps
<1>7. CASE UNCHANGED vars
  <2>1. Types' /\ Shrinks /\ \A q \in Requests : Spared(q)
    BY <1>0, <1>7 DEF vars, localVars, faults, written, rateVars, gateVars, slotVars, Types, LocalType, RateType,
       FaultType, ProbeType, SlotType,
       Shrinks, Spared, SameRecord
  <2>. QED  BY <1>2, <2>1
<1>. QED  BY <1>3, <1>4, <1>5, <1>6, <1>7 DEF Next

THEOREM Invariance == Spec => []IInv
<1>. QED  BY InitInv, StepInv, PTL DEF Spec

----------------------------------------------------------------------------
(* The account's minute.  A step takes a place, gives one back, forgets    *)
(* one, uses one up or leaves the minute alone (MinuteStep); the counter   *)
(* of an account and the places in use then move together, but for a       *)
(* command that fails, a request whose client has gone (it forgets its     *)
(* place, or gives back one it has not), and a request under which the     *)
(* minute has turned (it gives back a place of the new one).               *)

\* The attempt has its place, or its client has gone; else the minute turned.
Entitled(r) == pc[r] \in InMinute => reserved[r] \/ cancelled[r]

\* The client of r has gone, and r gives nothing back any more.
Gone == {r \in Requests : cancelled[r] /\ pc[r] \in {"loop", "close", "done", "dead"}}

\* Requests that may have given back in this minute a place of an earlier one.
Turned == {r \in Requests : minute # 0 /\ Entitled(r)}

Holders(a) == {r \in Requests : acct[r] = a /\ reserved[r]}

\* How far the counter and the places in use may be apart, and the places beyond
\* the limit of the account.
MinuteLimit(a) ==
    /\ a \notin counted => rpm[a] = 0
    /\ rpm[a] <= Used(a) + errors + Cardinality(Gone)
    /\ Used(a) <= rpm[a] + errors + Cardinality(Gone) + Cardinality(Turned)
    /\ Used(a) <= MaxRPM[a] + errors + Cardinality(Gone) + Cardinality(Turned)

MInv == /\ \A r \in Requests : minute = 0 => Entitled(r)
        /\ \A a \in Accounts : MinuteLimit(a)

\* What a step of r does to the minute; the others look on.
Others(r) ==
    /\ \A q \in Requests \ {r} : /\ pc'[q] = pc[q] /\ acct'[q] = acct[q]
                                 /\ reserved'[q] = reserved[q] /\ cancelled'[q] = cancelled[q]
    /\ cancelled[r] => cancelled'[r]
    /\ errors' \in Nat /\ errors <= errors'
    /\ UNCHANGED minute

LeavesMinute(r) ==
    /\ UNCHANGED <<rpm, counted, kept>>
    /\ reserved'[r] = reserved[r] /\ (reserved[r] => acct'[r] = acct[r])
    /\ r \in Gone => r \in Gone'
    /\ Entitled(r) => Entitled(r)'

\* By the script, below the limit; or by a command that fails.
TakesPlace(r) ==
    /\ \E n \in 0 .. 2 : /\ LetThrough(r, n)
                         /\ (n = 1 /\ rpm[acct[r]] < MaxRPM[acct[r]]) \/ errors' = errors + 1
    /\ ~reserved[r] /\ acct[r] \in Accounts
    /\ acct'[r] = acct[r] /\ reserved'[r] /\ r \notin Gone

EndsAttempt(r) ==
    /\ acct[r] \in Accounts \/ ~reserved[r]
    /\ ~reserved'[r] /\ pc'[r] \in {"loop", "close", "done", "dead"}

GivesPlace(r)   == Undo(r) /\ acct[r] \in Accounts /\ pc[r] \in InMinute /\ EndsAttempt(r)
ForgetsPlace(r) == UndoNothing(r) /\ cancelled'[r] /\ pc[r] \in InMinute /\ EndsAttempt(r)
UsesPlace(r)    == Keep(r) /\ EndsAttempt(r)

MinuteStep(r) ==
    /\ Others(r)
    /\ LeavesMinute(r) \/ TakesPlace(r) \/ GivesPlace(r) \/ ForgetsPlace(r) \/ UsesPlace(r)

----------------------------------------------------------------------------
(* Each step of a request is one of these.                                 *)

LEMMA EndOf ==
    ASSUME Types, NEW r \in Requests, Mine(r), pc[r] \in Attempt \cup {"loop", "close"},
           NEW p \in {"loop", "close", "done", "dead"}, Goto(r, p),
           acct' = acct \/ acct' = [acct EXCEPT ![r] = NoAccount],
           cancelled' = cancelled \/ cancelled' = [cancelled EXCEPT ![r] = TRUE],
           \/ pc[r] \in InMinute /\ Undo(r)
           \/ pc[r] \in InMinute /\ UndoNothing(r) /\ cancelled'[r]
           \/ Keep(r)
    PROVE  MinuteStep(r)
<1>1. /\ reserved' = [reserved EXCEPT ![r] = FALSE] /\ UNCHANGED minute
      /\ errors' \in Nat /\ errors <= errors'
  BY ForwarderAssumption DEF Undo, UndoNothing, Keep, Leave, RedisFails, Types, FaultType
<1>2. ~reserved'[r] /\ pc'[r] = p
  BY <1>1 DEF Goto, Types, LocalType, RateType
<1>3. acct[r] \in Accounts \/ ~reserved[r]
  BY DEF Mine, HasAccount, PlaceIsMine, InMinute, Attempt
<1>4. Others(r)
  BY <1>1 DEF Others, Goto, Types, LocalType, FaultType, RateType
<1>5. pc[r] \in InMinute => acct[r] \in Accounts
  BY DEF Mine, HasAccount, InMinute, Attempt
<1>. QED  BY <1>2, <1>3, <1>4, <1>5 DEF MinuteStep, GivesPlace, ForgetsPlace, UsesPlace, EndsAttempt

LEMMA SelectionMinute ==
    ASSUME Types, NEW r \in Requests, Mine(r), Selection(r)
    PROVE  MinuteStep(r)
<1>1. pc[r] = "loop" /\ ~reserved[r] /\ UNCHANGED <<reserved, cancelled, errors, rateVars>>
  BY DEF Selection, Stop, WaitForCapacity, RetrySameAccount, NextRoute, GiveUp, PickAccount, NoPick, faults, Mine,
     PlaceIsMine, InMinute
<1>2. PICK p \in {"loop", "rate", "done"}, b \in Accounts \cup {NoAccount} :
        /\ pc' = [pc EXCEPT ![r] = p] /\ acct' = [acct EXCEPT ![r] = b]
        /\ cancelled[r] => p # "rate"
  BY DEF Selection, Stop, WaitForCapacity, RetrySameAccount, NextRoute, GiveUp, PickAccount, NoPick, Again, Finish,
     Goto
<1>3. pc'[r] = p
  BY <1>2 DEF Types, LocalType
<1>4. Others(r)
  BY <1>1, <1>2, ForwarderAssumption DEF Others, Types, LocalType, FaultType, rateVars
<1>5. LeavesMinute(r)
  BY <1>1, <1>2, <1>3 DEF LeavesMinute, Gone, Entitled, InMinute, rateVars
<1>. QED  BY <1>4, <1>5 DEF MinuteStep

LEMMA GatesMinute ==
    ASSUME Types, NEW r \in Requests, Mine(r), Gates(r)
    PROVE  MinuteStep(r)
<1>1. CASE TryIncrementRPM(r)
  <2>1. /\ pc[r] = "rate" /\ acct[r] \in Accounts /\ ~reserved[r] /\ pc' = [pc EXCEPT ![r] = "slot"]
        /\ UNCHANGED acct
    BY <1>1 DEF TryIncrementRPM, Goto, Mine, HasAccount, PlaceIsMine, Attempt, InMinute
  <2>2. pc'[r] = "slot" /\ errors \in Nat
    BY <2>1, ForwarderAssumption DEF Types, LocalType, FaultType
  <2>3. CASE cancelled[r] /\ UNCHANGED <<reserved, rateVars, faults>>
    <3>1. Others(r)
      BY <2>1, <2>2, <2>3 DEF Others, Types, LocalType, rateVars, faults
    <3>2. LeavesMinute(r)
      BY <2>1, <2>2, <2>3 DEF LeavesMinute, Gone, Entitled, InMinute, rateVars, faults
    <3>. QED  BY <3>1, <3>2 DEF MinuteStep
  <2>4. ASSUME NEW n \in 0 .. 2, LetThrough(r, n), UNCHANGED cancelled,
               (n = 1 /\ rpm[acct[r]] < MaxRPM[acct[r]] /\ errors' = errors) \/ errors' = errors + 1
        PROVE  MinuteStep(r)
    <3>1. reserved' = [reserved EXCEPT ![r] = TRUE] /\ UNCHANGED minute
      BY <2>4 DEF LetThrough
    <3>2. Others(r)
      BY <2>1, <2>2, <2>4, <3>1 DEF Others, Types, LocalType, RateType
    <3>3. TakesPlace(r)
      BY <2>1, <2>4, <3>1 DEF TakesPlace, Gone, Types, RateType
    <3>. QED  BY <3>2, <3>3 DEF MinuteStep
  <2>. QED  BY <1>1, <2>3, <2>4 DEF TryIncrementRPM, CommandFails, RedisFails, faults
<1>2. CASE RPMFull(r)
  <2>1. /\ pc[r] = "rate" /\ ~reserved[r] /\ ~cancelled[r] /\ pc' = [pc EXCEPT ![r] = "loop"]
        /\ acct' = [acct EXCEPT ![r] = NoAccount] /\ UNCHANGED <<cancelled, errors, reserved, rateVars>>
    BY <1>2 DEF RPMFull, LocalCapacityFailure, Again, Goto, faults, Mine, PlaceIsMine, InMinute
  <2>2. pc'[r] = "loop"
    BY <2>1 DEF Types, LocalType
  <2>3. Others(r)
    BY <2>1, ForwarderAssumption DEF Others, Types, LocalType, FaultType, rateVars
  <2>4. LeavesMinute(r)
    BY <2>1, <2>2 DEF LeavesMinute, Gone, Entitled, InMinute, rateVars
  <2>. QED  BY <2>3, <2>4 DEF MinuteStep
<1>3. CASE AcquireSlot(r) \/ GatePasses(r) \/ BeginAllows(r)
  <2>1. PICK p \in {"gate", "begin", "call"} : pc' = [pc EXCEPT ![r] = p]
    BY <1>3 DEF AcquireSlot, GatePasses, BeginAllows, Goto
  <2>2. /\ pc[r] \in {"slot", "gate", "begin"}
        /\ UNCHANGED <<acct, reserved, cancelled, rateVars>>
        /\ errors' = errors \/ errors' = errors + 1
    BY <1>3 DEF AcquireSlot, GatePasses, BeginAllows, CommandFails, RedisFails, faults
  <2>3. pc'[r] = p
    BY <2>1 DEF Types, LocalType
  <2>4. Others(r)
    BY <2>1, <2>2, ForwarderAssumption DEF Others, Types, LocalType, FaultType, rateVars
  <2>5. LeavesMinute(r)
    BY <2>1, <2>2, <2>3 DEF LeavesMinute, Gone, Entitled, InMinute, rateVars
  <2>. QED  BY <2>4, <2>5 DEF MinuteStep
<1>4. CASE SlotsFull(r)
  <2>1. Cancel(r) => cancelled'[r] /\ cancelled' = [cancelled EXCEPT ![r] = TRUE]
    BY DEF Cancel, Types, FaultType
  <2>. QED  BY <1>4, <2>1, EndOf DEF SlotsFull, LocalCapacityFailure, Again, InMinute, Attempt
<1>5. CASE GateRejects(r)
  BY <1>5, EndOf DEF GateRejects, Again, InMinute, Attempt
<1>6. CASE BeginDenies(r)
  BY <1>6, EndOf DEF BeginDenies, UndoIfLive, Finish, InMinute, Attempt
<1>. QED  BY <1>1, <1>2, <1>3, <1>4, <1>5, <1>6 DEF Gates

LEMMA OutcomeMinute ==
    ASSUME Types, NEW r \in Requests, Mine(r), Returns(r) \/ Outcome(r)
    PROVE  MinuteStep(r)
<1>0. Cancel(r) => cancelled'[r] /\ cancelled' = [cancelled EXCEPT ![r] = TRUE]
  BY DEF Cancel, Types, FaultType
<1>1. CASE Returns(r) \/ ReleaseBeforeFailover(r)
  <2>1. PICK p \in {"verdict", "apply"} : pc' = [pc EXCEPT ![r] = p]
    BY <1>1 DEF Returns, PluginReturns, ReleaseBeforeFailover, Goto
  <2>2. /\ pc[r] \in {"call", "verdict"}
        /\ UNCHANGED <<acct, reserved, cancelled, errors, rateVars>>
    BY <1>1 DEF Returns, PluginReturns, ReleaseBeforeFailover, faults
  <2>3. pc'[r] = p
    BY <2>1 DEF Types, LocalType
  <2>4. Others(r)
    BY <2>1, <2>2, ForwarderAssumption DEF Others, Types, LocalType, FaultType, rateVars
  <2>5. LeavesMinute(r)
    BY <2>1, <2>2, <2>3 DEF LeavesMinute, Gone, Entitled, InMinute, rateVars
  <2>. QED  BY <2>4, <2>5 DEF MinuteStep
<1>2. CASE FinishCancelled(r)
  BY <1>2, EndOf DEF FinishCancelled, Finish, InMinute, Attempt
<1>3. CASE Failover(r)
  BY <1>0, <1>3, EndOf DEF Failover, ApplyOutcome, Again, InMinute, Attempt
<1>4. CASE WriteResult(r)
  BY <1>0, <1>4, EndOf DEF WriteResult, ApplyOutcome, InMinute, Attempt
<1>5. CASE Close(r)
  <2>1. /\ pc[r] = "close" /\ ~reserved[r] /\ pc' = [pc EXCEPT ![r] = "done"]
        /\ acct' = [acct EXCEPT ![r] = NoAccount] /\ UNCHANGED <<cancelled, errors, reserved, rateVars>>
    BY <1>5 DEF Close, Finish, Goto, faults, Mine, PlaceIsMine, InMinute
  <2>2. pc'[r] = "done"
    BY <2>1 DEF Types, LocalType
  <2>3. Others(r)
    BY <2>1, ForwarderAssumption DEF Others, Types, LocalType, FaultType, rateVars
  <2>4. LeavesMinute(r)
    BY <2>1, <2>2 DEF LeavesMinute, Gone, Entitled, InMinute, rateVars
  <2>. QED  BY <2>3, <2>4 DEF MinuteStep
<1>. QED  BY <1>1, <1>2, <1>3, <1>4, <1>5 DEF Outcome

LEMMA ClientMinute ==
    ASSUME Types, NEW r \in Requests, Mine(r), ClientGoes(r) \/ QueueDeadline(r) \/ SlotAges(r) \/ Crash(r)
    PROVE  MinuteStep(r)
<1>1. CASE ClientGoes(r) \/ QueueDeadline(r) \/ SlotAges(r)
  <2>1. /\ UNCHANGED <<pc, acct, reserved, errors, rateVars>>
        /\ cancelled' = cancelled \/ cancelled' = [cancelled EXCEPT ![r] = TRUE]
    BY <1>1 DEF ClientGoes, QueueDeadline, SlotAges, Cancel, localVars, faults
  <2>2. Others(r)
    BY <2>1, ForwarderAssumption DEF Others, Types, FaultType, rateVars
  <2>3. LeavesMinute(r)
    BY <2>1 DEF LeavesMinute, Gone, Entitled, Types, FaultType, rateVars
  <2>. QED  BY <2>2, <2>3 DEF MinuteStep
<1>2. CASE Crash(r)
  <2>1. pc[r] \in Attempt \cup {"loop", "close"}
    BY <1>2 DEF Crash, Types, LocalType, Places, Attempt
  <2>. QED  BY <1>2, <2>1, EndOf DEF Crash, Goto, faults
<1>. QED  BY <1>1, <1>2

----------------------------------------------------------------------------
(* The counter and the places in use move together.                        *)

LEMMA EntitledKept ==
    ASSUME Types, NEW r \in Requests, MinuteStep(r)
    PROVE  minute' = minute /\ \A q \in Requests : Entitled(q) => Entitled(q)'
<1>1. minute' = minute
  BY DEF MinuteStep, Others
<1>2. ASSUME NEW q \in Requests \ {r} PROVE Entitled(q) => Entitled(q)'
  BY <1>2 DEF MinuteStep, Others, Entitled
<1>3. Entitled(r) => Entitled(r)'
  <2>1. CASE LeavesMinute(r)
    BY <2>1 DEF LeavesMinute
  <2>2. CASE TakesPlace(r)
    BY <2>2 DEF TakesPlace, Entitled
  <2>3. CASE EndsAttempt(r)
    BY <2>3 DEF EndsAttempt, Entitled, InMinute
  <2>. QED  BY <2>1, <2>2, <2>3 DEF MinuteStep, GivesPlace, ForgetsPlace, UsesPlace
<1>. QED  BY <1>1, <1>2, <1>3

LEMMA Counts ==
    ASSUME IsFiniteSet(Requests), Types
    PROVE  /\ IsFiniteSet(Gone) /\ IsFiniteSet(Turned)
           /\ Cardinality(Gone) \in Nat /\ Cardinality(Turned) \in Nat /\ errors \in Nat
           /\ \A a \in Accounts : /\ IsFiniteSet(Holders(a)) /\ Cardinality(Holders(a)) \in Nat
                                  /\ Used(a) = Cardinality(Holders(a)) + kept[a]
                                  /\ kept[a] \in Nat /\ rpm[a] \in Int /\ MaxRPM[a] \in Nat
<1>1. Gone \in SUBSET Requests /\ Turned \in SUBSET Requests
  BY DEF Gone, Turned
<1>2. IsFiniteSet(Gone) /\ IsFiniteSet(Turned)
  BY <1>1, FS_Subset
<1>3. ASSUME NEW a \in Accounts PROVE IsFiniteSet(Holders(a))
  <2>1. Holders(a) \in SUBSET Requests
    BY DEF Holders
  <2>. QED  BY <2>1, FS_Subset
<1>4. \A a \in Accounts : Used(a) = Cardinality(Holders(a)) + kept[a]
  BY DEF Used, Holders
<1>5. \A a \in Accounts : kept[a] \in Nat /\ rpm[a] \in Int /\ MaxRPM[a] \in Nat
  BY ForwarderAssumption DEF Types, RateType
<1>6. errors \in Nat
  BY ForwarderAssumption DEF Types, FaultType
<1>. QED  BY <1>2, <1>3, <1>4, <1>5, <1>6, FS_CardinalityType

\* The slack of an account only grows while the minute lasts: by one when an
\* attempt without a place gives one back, and when one forgets its place.
LEMMA SlackGrows ==
    ASSUME IsFiniteSet(Requests), Types, Types', NEW r \in Requests, MinuteStep(r),
           \A q \in Requests : minute = 0 => Entitled(q)
    PROVE  /\ Cardinality(Gone') \in Nat /\ Cardinality(Turned') \in Nat
           /\ Cardinality(Gone) <= Cardinality(Gone') /\ Cardinality(Turned) <= Cardinality(Turned')
           /\ GivesPlace(r) /\ ~reserved[r] =>
                \/ Cardinality(Gone) + 1 <= Cardinality(Gone')
                \/ Cardinality(Turned) + 1 <= Cardinality(Turned')
           /\ ForgetsPlace(r) => Cardinality(Gone) + 1 <= Cardinality(Gone')
<1>1. /\ IsFiniteSet(Gone) /\ IsFiniteSet(Turned) /\ IsFiniteSet(Gone') /\ IsFiniteSet(Turned')
      /\ Cardinality(Gone) \in Nat /\ Cardinality(Turned) \in Nat
      /\ Cardinality(Gone') \in Nat /\ Cardinality(Turned') \in Nat
  <2>1. Gone' \in SUBSET Requests /\ Turned' \in SUBSET Requests
    BY DEF Gone, Turned
  <2>. QED  BY <2>1, Counts, FS_Subset, FS_CardinalityType
<1>2. Turned \subseteq Turned'
  BY EntitledKept DEF Turned
<1>3. Gone \subseteq Gone'
  <2>1. ASSUME NEW q \in Requests \ {r}, q \in Gone PROVE q \in Gone'
    BY <2>1 DEF MinuteStep, Others, Gone
  <2>2. r \in Gone => r \in Gone'
    <3>1. CASE LeavesMinute(r) \/ TakesPlace(r)
      BY <3>1 DEF LeavesMinute, TakesPlace
    <3>2. CASE EndsAttempt(r)
      BY <3>2 DEF EndsAttempt, Gone, MinuteStep, Others
    <3>. QED  BY <3>1, <3>2 DEF MinuteStep, GivesPlace, ForgetsPlace, UsesPlace
  <2>. QED  BY <2>1, <2>2 DEF Gone
<1>4. Cardinality(Gone) <= Cardinality(Gone') /\ Cardinality(Turned) <= Cardinality(Turned')
  BY <1>1, <1>2, <1>3, FS_Subset
<1>5. ASSUME GivesPlace(r), ~reserved[r]
      PROVE  (r \notin Gone /\ r \in Gone') \/ (r \notin Turned /\ r \in Turned')
  <2>1. /\ pc[r] \in InMinute /\ pc'[r] \in {"loop", "close", "done", "dead"}
        /\ cancelled[r] => cancelled'[r]
        /\ minute' = minute
    BY <1>5 DEF GivesPlace, EndsAttempt, MinuteStep, Others
  <2>2. CASE cancelled[r]
    BY <2>1, <2>2 DEF Gone, InMinute
  <2>3. CASE ~cancelled[r]
    <3>1. ~Entitled(r) /\ minute # 0
      BY <1>5, <2>1, <2>3 DEF Entitled
    <3>2. Entitled(r)'
      BY <2>1 DEF Entitled, InMinute
    <3>. QED  BY <2>1, <3>1, <3>2 DEF Turned
  <2>. QED  BY <2>2, <2>3
<1>6. ASSUME ForgetsPlace(r) PROVE r \notin Gone /\ r \in Gone'
  BY <1>6 DEF ForgetsPlace, EndsAttempt, Gone, InMinute
<1>7. ASSUME NEW S, NEW T, IsFiniteSet(T), IsFiniteSet(S), S \subseteq T, r \notin S, r \in T
      PROVE  Cardinality(S) + 1 <= Cardinality(T)
  <2>1. S \cup {r} \in SUBSET T
    BY <1>7
  <2>2. Cardinality(S \cup {r}) = Cardinality(S) + 1
    BY <1>7, FS_AddElement
  <2>. QED  BY <1>7, <2>1, <2>2, FS_Subset
<1>8. ASSUME GivesPlace(r), ~reserved[r]
      PROVE  \/ Cardinality(Gone) + 1 <= Cardinality(Gone')
             \/ Cardinality(Turned) + 1 <= Cardinality(Turned')
  BY <1>1, <1>2, <1>3, <1>5, <1>7, <1>8
<1>9. ASSUME ForgetsPlace(r) PROVE Cardinality(Gone) + 1 <= Cardinality(Gone')
  BY <1>1, <1>3, <1>6, <1>7, <1>9
<1>. QED  BY <1>1, <1>4, <1>8, <1>9

\* Who holds a place of the account after the step.
LEMMA HoldersMove ==
    ASSUME Types, NEW r \in Requests, MinuteStep(r), NEW a \in Accounts
    PROVE  /\ LeavesMinute(r) => Holders(a)' = Holders(a)
           /\ TakesPlace(r) => Holders(a)' = IF acct[r] = a THEN Holders(a) \cup {r} ELSE Holders(a)
           /\ EndsAttempt(r) => Holders(a)' = Holders(a) \ {r}
           /\ r \in Holders(a) <=> acct[r] = a /\ reserved[r]
<1>1. \A q \in Requests \ {r} : q \in Holders(a)' <=> q \in Holders(a)
  BY DEF MinuteStep, Others, Holders
<1>2. r \in Holders(a) <=> acct[r] = a /\ reserved[r]
  BY DEF Holders
<1>3. r \in Holders(a)' <=> acct'[r] = a /\ reserved'[r]
  BY DEF Holders
<1>4. Holders(a) \subseteq Requests /\ Holders(a)' \subseteq Requests
  BY DEF Holders
<1>5. LeavesMinute(r) => Holders(a)' = Holders(a)
  <2>1. LeavesMinute(r) => (r \in Holders(a)' <=> r \in Holders(a))
    BY <1>2, <1>3 DEF LeavesMinute
  <2>. QED  BY <1>1, <1>4, <2>1
<1>6. TakesPlace(r) => Holders(a)' = IF acct[r] = a THEN Holders(a) \cup {r} ELSE Holders(a)
  <2>1. TakesPlace(r) => (r \in Holders(a)' <=> acct[r] = a) /\ r \notin Holders(a)
    BY <1>2, <1>3 DEF TakesPlace
  <2>. QED  BY <1>1, <1>4, <2>1
<1>7. EndsAttempt(r) => Holders(a)' = Holders(a) \ {r}
  <2>1. EndsAttempt(r) => r \notin Holders(a)'
    BY <1>3 DEF EndsAttempt
  <2>. QED  BY <1>1, <1>4, <2>1
<1>. QED  BY <1>2, <1>5, <1>6, <1>7

\* The bounds of one account, as arithmetic.
LEMMA LimitKept ==
    ASSUME IsFiniteSet(Requests), Types, Types', NEW r \in Requests, MinuteStep(r), MInv
    PROVE  MInv'
<1>1. \A q \in Requests : (minute = 0 => Entitled(q))'
  BY EntitledKept DEF MInv
<1>2. ASSUME NEW a \in Accounts PROVE MinuteLimit(a)'
  <2> DEFINE h  == Cardinality(Holders(a))
             h1 == Cardinality(Holders(a)')
             g  == Cardinality(Gone)
             g1 == Cardinality(Gone')
             t  == Cardinality(Turned)
             t1 == Cardinality(Turned')
  <2>1. /\ h \in Nat /\ kept[a] \in Nat /\ rpm[a] \in Int /\ MaxRPM[a] \in Nat
        /\ g \in Nat /\ t \in Nat /\ errors \in Nat
        /\ Used(a) = h + kept[a] /\ IsFiniteSet(Holders(a))
    BY Counts
  <2>2. /\ a \notin counted => rpm[a] = 0
        /\ rpm[a] <= h + kept[a] + errors + g
        /\ h + kept[a] <= rpm[a] + errors + g + t
        /\ h + kept[a] <= MaxRPM[a] + errors + g + t
    BY <2>1 DEF MInv, MinuteLimit
  <2>3. /\ g1 \in Nat /\ t1 \in Nat /\ g <= g1 /\ t <= t1
        /\ GivesPlace(r) /\ ~reserved[r] => g + 1 <= g1 \/ t + 1 <= t1
        /\ ForgetsPlace(r) => g + 1 <= g1
    BY SlackGrows DEF MInv
  <2>4. Used(a)' = h1 + kept'[a] /\ errors' \in Nat /\ errors <= errors'
    BY DEF Used, Holders, MinuteStep, Others
  <2>5. rpm \in [Accounts -> Int] /\ kept \in [Accounts -> Nat] /\ rpm'[a] \in Int
    BY DEF Types, RateType
  <2>6. \/ /\ h1 = h /\ rpm'[a] = rpm[a] /\ kept'[a] = kept[a]
        \/ /\ h1 = h + 1 /\ rpm'[a] = rpm[a] + 1 /\ kept'[a] = kept[a] /\ rpm[a] < MaxRPM[a]
        \/ /\ h1 = h + 1 /\ rpm'[a] \in rpm[a] .. rpm[a] + 2 /\ kept'[a] = kept[a] /\ errors' = errors + 1
        \/ /\ h1 = h - 1 /\ rpm'[a] = rpm[a] - 1 /\ kept'[a] = kept[a]
        \/ /\ h1 = h - 1 /\ rpm'[a] = 0 /\ rpm[a] = 0 /\ kept'[a] = kept[a] /\ h1 \in Nat
        \/ /\ h1 = h - 1 /\ rpm'[a] = rpm[a] /\ kept'[a] = kept[a] /\ errors' = errors + 1
        \/ /\ h1 = h /\ rpm'[a] = rpm[a] - 1 /\ kept'[a] = kept[a] /\ (g + 1 <= g1 \/ t + 1 <= t1)
        \/ /\ h1 = h - 1 /\ rpm'[a] = rpm[a] /\ kept'[a] = kept[a] /\ g + 1 <= g1
        \/ /\ h1 = h - 1 /\ rpm'[a] = rpm[a] /\ kept'[a] = kept[a] + 1
    <3>1. CASE LeavesMinute(r)
      BY <3>1, HoldersMove DEF LeavesMinute
    <3>2. CASE TakesPlace(r)
      <4>1. PICK n \in 0 .. 2 :
              /\ kept' = kept /\ rpm' = [rpm EXCEPT ![acct[r]] = rpm[acct[r]] + n]
              /\ (n = 1 /\ rpm[acct[r]] < MaxRPM[acct[r]]) \/ errors' = errors + 1
              /\ r \notin Holders(a) /\ acct[r] \in Accounts
        BY <3>2 DEF TakesPlace, LetThrough, Holders
      <4>2. CASE acct[r] = a
        <5>1. h1 = h + 1
          BY <2>1, <3>2, <4>1, <4>2, HoldersMove, FS_AddElement
        <5>2. rpm'[a] = rpm[a] + n /\ kept'[a] = kept[a]
          BY <2>5, <4>1, <4>2
        <5>3. (n = 1 /\ rpm[a] < MaxRPM[a]) \/ errors' = errors + 1
          BY <4>1, <4>2
        <5>4. rpm'[a] \in rpm[a] .. rpm[a] + 2
          BY <2>1, <5>2
        <5> HIDE DEF h, h1, g, g1, t, t1
        <5>. QED  BY <5>1, <5>2, <5>3, <5>4
      <4>3. CASE acct[r] # a
        <5>1. h1 = h
          BY <3>2, <4>3, HoldersMove
        <5>. QED  BY <2>5, <4>1, <4>3, <5>1
      <4>. QED  BY <4>2, <4>3
    <3>3. CASE GivesPlace(r)
      <4>1. /\ EndsAttempt(r) /\ kept' = kept /\ acct[r] \in Accounts
            /\ \/ rpm' = IF acct[r] \in counted THEN [rpm EXCEPT ![acct[r]] = rpm[acct[r]] - 1] ELSE rpm
               \/ rpm' = rpm /\ errors' = errors + 1
        BY <3>3 DEF GivesPlace, Undo, RedisFails
      <4>2. /\ h1 = IF acct[r] = a /\ reserved[r] THEN h - 1 ELSE h
            /\ h1 \in Nat
        <5>1. Holders(a)' = Holders(a) \ {r} /\ (r \in Holders(a) <=> acct[r] = a /\ reserved[r])
          BY <4>1, HoldersMove
        <5>2. IsFiniteSet(Holders(a)')
          BY <2>1, <5>1, FS_Subset
        <5>. QED  BY <2>1, <5>1, <5>2, FS_RemoveElement, FS_CardinalityType
      <4>3. \/ rpm'[a] = IF acct[r] = a /\ a \in counted THEN rpm[a] - 1 ELSE rpm[a]
            \/ rpm'[a] = rpm[a] /\ errors' = errors + 1
        BY <2>5, <4>1
      <4>4. kept'[a] = kept[a] /\ (~reserved[r] => g + 1 <= g1 \/ t + 1 <= t1)
        BY <2>3, <3>3, <4>1
      <4> HIDE DEF h, h1, g, g1, t, t1
      <4>. QED  BY <2>1, <2>2, <4>2, <4>3, <4>4
    <3>4. CASE ForgetsPlace(r)
      <4>1. EndsAttempt(r) /\ kept' = kept /\ rpm' = rpm
        BY <3>4 DEF ForgetsPlace, UndoNothing
      <4>2. h1 = IF acct[r] = a /\ reserved[r] THEN h - 1 ELSE h
        BY <2>1, <4>1, HoldersMove, FS_RemoveElement
      <4>. QED  BY <2>3, <3>4, <4>1, <4>2
    <3>5. CASE UsesPlace(r)
      <4>1. /\ EndsAttempt(r) /\ rpm' = rpm /\ (acct[r] \in Accounts \/ ~reserved[r])
            /\ kept' = IF reserved[r] THEN [kept EXCEPT ![acct[r]] = kept[acct[r]] + 1] ELSE kept
        BY <3>5 DEF UsesPlace, EndsAttempt, Keep
      <4>2. h1 = IF acct[r] = a /\ reserved[r] THEN h - 1 ELSE h
        BY <2>1, <4>1, HoldersMove, FS_RemoveElement
      <4>3. kept'[a] = IF acct[r] = a /\ reserved[r] THEN kept[a] + 1 ELSE kept[a]
        BY <2>5, <4>1
      <4>. QED  BY <4>1, <4>2, <4>3
    <3>. QED  BY <3>1, <3>2, <3>3, <3>4, <3>5 DEF MinuteStep
  <2>7. /\ rpm'[a] <= h1 + kept'[a] + errors' + g1
        /\ h1 + kept'[a] <= rpm'[a] + errors' + g1 + t1
        /\ h1 + kept'[a] <= MaxRPM[a] + errors' + g1 + t1
    <3> HIDE DEF h, h1, g, g1, t, t1
    <3>. QED  BY <2>1, <2>2, <2>3, <2>4, <2>5, <2>6
  <2>8. (a \notin counted => rpm[a] = 0)'
    <3>1. CASE TakesPlace(r)
      <4>1. PICK n \in 0 .. 2 : LetThrough(r, n) /\ acct[r] \in Accounts
        BY <3>1 DEF TakesPlace
      <4>. QED  BY <2>2, <2>5, <4>1 DEF LetThrough
    <3>2. CASE ~TakesPlace(r)
      <4>1. counted' = counted
        BY <3>2 DEF MinuteStep, LeavesMinute, GivesPlace, ForgetsPlace, UsesPlace, Undo, UndoNothing, Keep, Leave
      <4>2. a \notin counted => rpm'[a] = rpm[a]
        BY <2>5, <3>2 DEF MinuteStep, LeavesMinute, GivesPlace, ForgetsPlace, UsesPlace, Undo, UndoNothing, Keep
      <4>. QED  BY <2>2, <4>1, <4>2
    <3>. QED  BY <3>1, <3>2
  <2>. QED  BY <2>4, <2>7, <2>8 DEF MinuteLimit
<1>. QED  BY <1>1, <1>2 DEF MInv

\* At first, and as a minute turns, nothing is counted and no place in use.
Blank == /\ \A a \in Accounts : rpm[a] = 0 /\ kept[a] = 0
         /\ \A r \in Requests : ~reserved[r] /\ (minute = 0 => Entitled(r))

LEMMA BlankLimit == ASSUME IsFiniteSet(Requests) PROVE Types /\ Blank => MInv
<1> SUFFICES ASSUME Types, Blank PROVE MInv
  OBVIOUS
<1>1. \A r \in Requests : minute = 0 => Entitled(r)
  BY DEF Blank
<1>2. ASSUME NEW a \in Accounts PROVE MinuteLimit(a)
  <2>1. /\ Cardinality(Gone) \in Nat /\ Cardinality(Turned) \in Nat /\ errors \in Nat /\ MaxRPM[a] \in Nat
        /\ Used(a) = Cardinality(Holders(a)) + kept[a]
    BY Counts
  <2>2. Holders(a) = {}
    BY DEF Holders, Blank
  <2>3. Used(a) = 0 /\ rpm[a] = 0
    BY <2>1, <2>2, FS_EmptySet DEF Blank
  <2>. QED  BY <2>1, <2>3 DEF MinuteLimit
<1>. QED  BY <1>1, <1>2 DEF MInv

THEOREM MinuteInvariance == ASSUME IsFiniteSet(Requests) PROVE Spec => []MInv
<1>1. Init => MInv
  <2>1. Init => Types /\ Blank
    BY InitInv DEF IInv, Init, Blank, Entitled, InMinute
  <2>. QED  BY <2>1, BlankLimit
<1>2. IInv /\ IInv' /\ MInv /\ [Next]_vars => MInv'
  <2> SUFFICES ASSUME IInv, IInv', MInv, [Next]_vars PROVE MInv'
    OBVIOUS
  <2>1. Types /\ Types' /\ \A r \in Requests : Mine(r)
    BY DEF IInv
  <2>2. ASSUME NEW r \in Requests, MinuteStep(r) PROVE MInv'
    BY <2>1, <2>2, LimitKept
  <2>3. CASE UNCHANGED <<pc, acct, cancelled, errors, reserved, rateVars>>
    BY <2>3 DEF MInv, MinuteLimit, Gone, Turned, Entitled, Used, rateVars
  <2>4. CASE NextMinute
    <3>1. minute \in Nat
      BY <2>1 DEF Types, RateType
    <3>2. Blank'
      BY <2>4, <3>1 DEF NextMinute, Blank
    <3>3. (Types /\ Blank => MInv)'
      BY BlankLimit, PTL
    <3>. QED  BY <2>1, <3>2, <3>3
  <2>5. ASSUME NEW r \in Requests, Forward(r) PROVE MinuteStep(r)
    BY <2>1, <2>5, SelectionMinute, GatesMinute, OutcomeMinute DEF Forward
  <2>6. ASSUME NEW r \in Requests, ClientGoes(r) \/ QueueDeadline(r) \/ SlotAges(r) \/ Crash(r)
        PROVE  MinuteStep(r)
    BY <2>1, <2>6, ClientMinute
  <2>7. ASSUME NEW a \in Accounts, SlotsExpire(a) \/ Cool(a) \/ LeaseEnds(a)
        PROVE  UNCHANGED <<pc, acct, cancelled, errors, reserved, rateVars>>
    BY <2>7 DEF SlotsExpire, Cool, LeaseEnds, localVars, faults
  <2>8. UNCHANGED vars => UNCHANGED <<pc, acct, cancelled, errors, reserved, rateVars>>
    BY DEF vars, localVars, faults
  <2>. QED  BY <2>2, <2>3, <2>4, <2>5, <2>6, <2>7, <2>8 DEF Next
<1>. QED  BY <1>1, <1>2, Invariance, PTL DEF Spec

----------------------------------------------------------------------------
(* The theorems.                                                           *)

\* The variables keep to their types, for any requests, accounts and routes.
THEOREM TypeCorrect == Spec => []TypeOK
<1>1. IInv => TypeOK
  BY DEF IInv, Types, LocalType, FaultType, RateType, ProbeType, SlotType, TypeOK
<1>. QED  BY <1>1, Invariance, PTL

\* A request leaves one usage record, whichever of its ways it takes: canceled
\* or denied, after any number of failovers, or answered; but none if the answer is
\* a success without usage (forwarder.go, Forward; outcome.go, recordUsage).
THEOREM OneRecord == Spec => []RecordedOnce
<1>1. IInv => RecordedOnce
  <2> SUFFICES ASSUME IInv, NEW r \in Requests
      PROVE /\ records[r] <= 1
            /\ pc[r] = "done" => records[r] = IF r \in unmetered THEN 0 ELSE 1
            /\ pc[r] \in {"loop", "rate", "slot", "gate", "begin", "call"} => records[r] = 0
    BY DEF RecordedOnce
  <2>. QED  BY DEF IInv, Mine, RecordAtEnd, Recorded, Unrecorded
<1>. QED  BY <1>1, Invariance, PTL

\* When an attempt is over its place in the minute and, while its server lives,
\* its slot are given back, and its probe but for the outcomes that leave it to
\* its lease (forwarder.go, acquireAccountSlot, finishCanceled; state.go, Apply).
THEOREM NothingLeftBehind == Spec => []AttemptsCleanUp
<1>1. IInv => AttemptsCleanUp
  BY DEF IInv, Types, RateType, Mine, PlaceIsMine, SlotIsMine, ProbeIsMine, Leaves, Attempt, InMinute, InSlot,
     AttemptsCleanUp
<1>. QED  BY <1>1, Invariance, PTL

\* An account's upstream never serves more requests at once than its
\* max_concurrency, but for those whose slot has run out, and those that a failing
\* command or a client that had gone let pass without one (concurrency.go,
\* acquireSlotScript and AcquireSlot, which fails open).
THEOREM ConcurrencyLimit == Spec => []AccountLimit
<1>1. IInv => AccountLimit
  <2> SUFFICES ASSUME IInv, NEW a \in Accounts
      PROVE Cardinality({r \in Requests : /\ pc[r] = "call" /\ acct[r] = a
                                         /\ r \notin overdue /\ ~loop[r].free}) <= MaxSlots[a]
    BY DEF AccountLimit
  <2> DEFINE calls == {r \in Requests : pc[r] = "call" /\ acct[r] = a /\ r \notin overdue /\ ~loop[r].free}
             held  == slots[a] \ overdue
  <2>1. calls \subseteq held
    BY DEF IInv, Mine, CallHasSlot
  <2>2. IsFiniteSet(held) /\ Cardinality(held) <= MaxSlots[a] /\ MaxSlots[a] \in Nat
    BY ForwarderAssumption DEF IInv, SlotLimit
  <2>3. IsFiniteSet(calls) /\ Cardinality(calls) <= Cardinality(held)
    BY <2>1, <2>2, FS_Subset
  <2>4. Cardinality(calls) \in Nat /\ Cardinality(held) \in Nat
    BY <2>2, <2>3, FS_CardinalityType
  <2>. QED  BY <2>2, <2>3, <2>4
<1>. QED  BY <1>1, Invariance, PTL

LEMMA GoneLeft ==
    ASSUME IsFiniteSet(Requests)
    PROVE  Cardinality(Left) \in Nat /\ Cardinality(Gone) <= Cardinality(Left)
<1>1. Gone \in SUBSET Left /\ Left \in SUBSET Requests
  BY DEF Gone, Left
<1>. QED  BY <1>1, FS_Subset, FS_CardinalityType

\* The counter of an account's minute exceeds the places in use by one at most for
\* each command that failed and each client that left: however else attempts fail
\* or crash, at any distance from the turn of the minute, no place stays counted
\* that no attempt uses (rpm.go, TryIncrementRPM and DecrementRPM; forwarder.go).
THEOREM NoPlaceLost == ASSUME IsFiniteSet(Requests) PROVE Spec => []NothingOvercounted
<1>1. IInv /\ MInv => NothingOvercounted
  <2> SUFFICES ASSUME IInv, MInv, NEW a \in Accounts
      PROVE rpm[a] <= Used(a) + errors + Cardinality(Left)
    BY DEF NothingOvercounted
  <2>1. /\ Cardinality(Gone) \in Nat /\ errors \in Nat /\ rpm[a] \in Int
        /\ Cardinality(Holders(a)) \in Nat /\ Used(a) = Cardinality(Holders(a)) + kept[a] /\ kept[a] \in Nat
    BY Counts DEF IInv
  <2>2. rpm[a] <= Used(a) + errors + Cardinality(Gone)
    BY DEF MInv, MinuteLimit
  <2>3. Cardinality(Left) \in Nat /\ Cardinality(Gone) <= Cardinality(Left)
    BY GoneLeft
  <2>. QED  BY <2>1, <2>2, <2>3
<1>. QED  BY <1>1, Invariance, MinuteInvariance, PTL

\* The places in use exceed max_rpm by no more than one for each command that has
\* failed, one for each client that has gone and, after a turn of the minute, one
\* for each request (rpm.go).
THEOREM QuotaNearlyKept == ASSUME IsFiniteSet(Requests) PROVE Spec => []QuotaKept
<1>1. IInv /\ MInv => QuotaKept
  <2> SUFFICES ASSUME IInv, MInv, NEW a \in Accounts
      PROVE Used(a) <= MaxRPM[a] + errors + Cardinality(Left)
                         + (IF minute = 0 THEN 0 ELSE Cardinality(Requests))
    BY DEF QuotaKept
  <2>1. /\ Cardinality(Gone) \in Nat /\ Cardinality(Turned) \in Nat /\ errors \in Nat
        /\ Cardinality(Holders(a)) \in Nat /\ Used(a) = Cardinality(Holders(a)) + kept[a]
        /\ kept[a] \in Nat /\ MaxRPM[a] \in Nat
    BY Counts DEF IInv
  <2>2. Used(a) <= MaxRPM[a] + errors + Cardinality(Gone) + Cardinality(Turned)
    BY DEF MInv, MinuteLimit
  <2>3. Cardinality(Left) \in Nat /\ Cardinality(Gone) <= Cardinality(Left)
    BY GoneLeft
  <2>4. Cardinality(Requests) \in Nat /\ Cardinality(Turned) <= Cardinality(Requests)
    <3>1. Turned \in SUBSET Requests
      BY DEF Turned
    <3>. QED  BY <3>1, FS_Subset, FS_CardinalityType
  <2>5. minute = 0 => Cardinality(Turned) = 0
    BY FS_EmptySet DEF Turned
  <2>. QED  BY <2>1, <2>2, <2>3, <2>4, <2>5
<1>. QED  BY <1>1, Invariance, MinuteInvariance, PTL

----------------------------------------------------------------------------
(* The loop gets on: the half of RequestsEnd that is not about fairness.   *)

\* What decides how far the loop has come.
SameTries(l, m) == /\ m.route = l.route /\ m.late = l.late /\ m.retried = l.retried
                   /\ m.hard = l.hard /\ m.soft = l.soft

\* The next route; else the deadline, the one retry or an exclusion is used up
\* and nothing is regained, but for the account the retry is for.
Higher(l, m) ==
    \/ m.route > l.route
    \/ m.route = l.route /\ m.late /\ ~l.late
    \/ m.route = l.route /\ m.late = l.late /\ m.retried /\ ~l.retried
    \/ /\ m.route = l.route /\ m.late = l.late /\ m.retried = l.retried
       /\ l.hard \subseteq m.hard /\ l.soft \subseteq m.soft
       /\ l.hard # m.hard \/ l.soft # m.soft

\* Before its deadline a request may wait, and then start the round over.
StartsOver(r) ==
    pc[r] = "loop" /\ ~loop[r].late /\ loop'[r] = [loop[r] EXCEPT !.soft = {}, !.free = FALSE]

GetsOn(r) ==
    \/ pc'[r] \in {"done", "dead"}
    \/ SameTries(loop[r], loop'[r]) /\ (pc'[r] = "loop" => pc[r] = "loop")
    \/ Higher(loop[r], loop'[r])
    \/ StartsOver(r)

LoopGetsOn == [][\A r \in Requests : GetsOn(r)]_vars

\* Nobody attempts an account it has excluded.
Untried(r) == pc[r] \in Attempt => acct[r] \notin loop[r].hard \cup loop[r].soft

\* How the step of a request moves its loop.
Ending(r) == pc'[r] \in {"done", "dead"}
Attempting(r) == /\ pc[r] \in Attempt \/ (pc[r] = "loop" /\ acct'[r] \in Candidates(r))
                 /\ pc[r] \in Attempt => acct'[r] = acct[r]
                 /\ pc'[r] \in Attempt /\ SameTries(loop[r], loop'[r])
Rounding(r) == pc'[r] = "loop" /\ (Higher(loop[r], loop'[r]) \/ StartsOver(r))
Watching(r) == /\ pc'[r] = pc[r] /\ acct'[r] = acct[r]
               /\ \/ loop'[r] = loop[r]
                  \/ pc[r] = "loop" /\ Higher(loop[r], loop'[r])

LEMMA MovesGetOn ==
    ASSUME NEW r \in Requests, Untried(r),
           Ending(r) \/ Attempting(r) \/ Rounding(r) \/ Watching(r)
    PROVE  GetsOn(r) /\ Untried(r)'
<1>1. CASE Ending(r)
  BY <1>1 DEF Ending, GetsOn, Untried, Attempt
<1>2. CASE Attempting(r)
  BY <1>2 DEF Attempting, GetsOn, Untried, Attempt, SameTries, Candidates
<1>3. CASE Rounding(r)
  BY <1>3 DEF Rounding, GetsOn, Untried, Attempt
<1>4. CASE Watching(r)
  BY <1>4 DEF Watching, GetsOn, Untried, Attempt, SameTries
<1>. QED  BY <1>1, <1>2, <1>3, <1>4

LEMMA SelectionMoves ==
    ASSUME Types, NEW r \in Requests, Selection(r)
    PROVE  Ending(r) \/ Attempting(r) \/ Rounding(r)
<1>0. /\ loop[r] \in Loops /\ loop[r].route \in Nat
      /\ pc \in [Requests -> Places] /\ DOMAIN loop = Requests
      /\ acct \in [Requests -> Accounts \cup {NoAccount}]
  BY DEF Types, LocalType, Loops
<1>1. CASE Stop(r) \/ GiveUp(r)
  BY <1>0, <1>1 DEF Stop, GiveUp, Finish, Goto, Ending
<1>2. CASE WaitForCapacity(r)
  BY <1>0, <1>2 DEF WaitForCapacity, NoPick, MayWait, Again, Goto, Rounding, StartsOver
<1>3. CASE RetrySameAccount(r)
  <2>1. /\ pc'[r] = "loop" /\ ~loop[r].retried
        /\ loop'[r] = [loop[r] EXCEPT !.retried = TRUE, !.soft = @ \ {loop[r].last}, !.free = FALSE]
    BY <1>0, <1>3 DEF RetrySameAccount, MayRetry, Again, Goto
  <2>. QED  BY <1>0, <2>1 DEF Rounding, Higher, Loops
<1>4. CASE NextRoute(r)
  <2> DEFINE m == [Fresh(loop[r].route + 1) EXCEPT !.hard = loop[r].hard, !.begun = loop[r].begun,
                                                   !.free = FALSE]
  <2>1. pc'[r] = "loop" /\ loop'[r] = m
    BY <1>0, <1>4 DEF NextRoute, Again, Goto
  <2>2. m.route = loop[r].route + 1
    BY DEF Fresh
  <2>. QED  BY <1>0, <2>1, <2>2 DEF Rounding, Higher
<1>5. ASSUME NEW a \in Accounts, PickAccount(r, a) PROVE Attempting(r)
  <2>1. /\ pc[r] = "loop" /\ pc'[r] = "rate" /\ acct'[r] = a /\ loop' = loop
        /\ a \in Candidates(r)
    BY <1>0, <1>5 DEF PickAccount, Pickable, Goto
  <2>. QED  BY <2>1 DEF Attempting, SameTries, Attempt
<1>. QED  BY <1>1, <1>2, <1>3, <1>4, <1>5 DEF Selection

LEMMA GatesMove ==
    ASSUME Types, NEW r \in Requests, Mine(r), Untried(r), Gates(r)
    PROVE  Ending(r) \/ Attempting(r) \/ Rounding(r)
<1>0. /\ loop[r] \in Loops
      /\ pc \in [Requests -> Places] /\ DOMAIN loop = Requests
      /\ acct \in [Requests -> Accounts \cup {NoAccount}]
      /\ pc[r] \in Attempt /\ acct[r] \notin loop[r].hard \cup loop[r].soft
  BY DEF Types, LocalType, Gates, TryIncrementRPM, RPMFull, AcquireSlot, SlotsFull, GatePasses, GateRejects,
     BeginAllows, BeginDenies, Untried, Attempt
<1>1. CASE TryIncrementRPM(r) \/ GatePasses(r)
  BY <1>0, <1>1 DEF TryIncrementRPM, GatePasses, Goto, Attempting, SameTries, Attempt
<1>2. CASE AcquireSlot(r) \/ BeginAllows(r)
  <2>1. \/ \E b \in BOOLEAN : loop' = [loop EXCEPT ![r].waiting = FALSE, ![r].free = b]
        \/ loop' = [loop EXCEPT ![r].begun = TRUE]
    BY <1>2 DEF AcquireSlot, BeginAllows
  <2>2. SameTries(loop[r], loop'[r])
    BY <1>0, <2>1 DEF SameTries, Loops
  <2>3. pc'[r] \in Attempt /\ acct' = acct
    BY <1>0, <1>2 DEF AcquireSlot, BeginAllows, Goto, Attempt
  <2>. QED  BY <1>0, <2>2, <2>3 DEF Attempting
<1>3. CASE RPMFull(r) \/ SlotsFull(r)
  <2>1. /\ pc'[r] = "loop"
        /\ loop'[r] = [loop[r] EXCEPT !.waiting = TRUE, !.soft = @ \cup {acct[r]}, !.free = FALSE]
    BY <1>0, <1>3 DEF RPMFull, SlotsFull, LocalCapacityFailure, Again, Goto
  <2>. QED  BY <1>0, <2>1 DEF Rounding, Higher, Loops
<1>4. CASE GateRejects(r)
  <2>1. pc'[r] = "loop" /\ loop'[r] = [loop[r] EXCEPT !.hard = @ \cup {acct[r]}, !.free = FALSE]
    BY <1>0, <1>4 DEF GateRejects, Again, Goto
  <2>. QED  BY <1>0, <2>1 DEF Rounding, Higher, Loops
<1>5. CASE BeginDenies(r)
  BY <1>0, <1>5 DEF BeginDenies, Finish, Goto, Ending
<1>. QED  BY <1>1, <1>2, <1>3, <1>4, <1>5 DEF Gates

LEMMA OutcomeMoves ==
    ASSUME Types, NEW r \in Requests, Mine(r), Untried(r), Returns(r) \/ Outcome(r)
    PROVE  Ending(r) \/ Attempting(r) \/ Rounding(r)
<1>0. /\ loop[r] \in Loops
      /\ pc \in [Requests -> Places] /\ DOMAIN loop = Requests
      /\ acct \in [Requests -> Accounts \cup {NoAccount}]
      /\ pc[r] \in Attempt /\ acct[r] \notin loop[r].hard \cup loop[r].soft
  BY DEF Types, LocalType, Returns, PluginReturns, Outcome, FinishCancelled, ReleaseBeforeFailover, Failover,
     WriteResult, Close, Untried, Attempt
<1>1. CASE Returns(r) \/ ReleaseBeforeFailover(r) \/ WriteResult(r)
  BY <1>0, <1>1 DEF Returns, PluginReturns, ReleaseBeforeFailover, WriteResult, Goto, Attempting, SameTries, Attempt
<1>2. CASE FinishCancelled(r) \/ Close(r)
  BY <1>0, <1>2 DEF FinishCancelled, Close, Finish, Goto, Ending
<1>3. CASE Failover(r)
  <2>1. pc'[r] = "loop" /\ loop'[r] = [Excluded(r) EXCEPT !.free = FALSE]
    BY <1>0, <1>3 DEF Failover, Again, Goto
  <2>2. /\ Excluded(r).route = loop[r].route /\ Excluded(r).late = loop[r].late
        /\ Excluded(r).retried = loop[r].retried
        /\ \/ /\ Excluded(r).hard = loop[r].hard \cup {acct[r]}
              /\ Excluded(r).soft = loop[r].soft
           \/ /\ Excluded(r).hard = loop[r].hard
              /\ Excluded(r).soft = loop[r].soft \cup {acct[r]}
    <3>1. CASE out[r].kind = "fault"
      BY <1>0, <3>1 DEF Excluded, Loops
    <3>2. CASE out[r].kind = "client"
      BY <1>0, <3>2 DEF Excluded, Loops
    <3>3. CASE out[r].kind \notin {"fault", "client"}
      BY <1>0, <3>3 DEF Excluded, Loops
    <3>. QED  BY <3>1, <3>2, <3>3
  <2>3. Higher(loop[r], [Excluded(r) EXCEPT !.free = FALSE])
    BY <1>0, <2>2 DEF Higher
  <2>. QED  BY <2>1, <2>3 DEF Rounding
<1>. QED  BY <1>1, <1>2, <1>3 DEF Outcome

\* A request never starts a round over but while it may wait: each attempt ends
\* the request or costs it an account, each round after the last attempt its one
\* retry or the route, and what is used up stays so until the next route.  With
\* finitely many accounts that bounds the attempts after queueDeadline, whatever
\* the accounts, the limits and the other requests do (forwarder.go, Forward).
THEOREM LoopIsBounded == Spec => LoopGetsOn
<1>1. Init => \A r \in Requests : Untried(r)
  BY DEF Init, Untried, Attempt
<1>2. IInv /\ (\A r \in Requests : Untried(r)) /\ [Next]_vars
        => \A r \in Requests : GetsOn(r) /\ Untried(r)'
  <2> SUFFICES ASSUME IInv, \A r \in Requests : Untried(r), [Next]_vars, NEW q \in Requests
               PROVE  GetsOn(q) /\ Untried(q)'
    OBVIOUS
  <2>0. /\ Types /\ Mine(q) /\ Untried(q)
        /\ pc \in [Requests -> Places] /\ DOMAIN loop = Requests
        /\ acct \in [Requests -> Accounts \cup {NoAccount}]
    BY DEF IInv, Types, LocalType
  <2>1. CASE Forward(q)
    BY <2>0, <2>1, SelectionMoves, GatesMove, OutcomeMoves, MovesGetOn DEF Forward
  <2>2. CASE QueueDeadline(q)
    <3>1. /\ pc[q] = "loop" /\ ~loop[q].late /\ loop' = [loop EXCEPT ![q].late = TRUE]
          /\ pc' = pc /\ acct' = acct /\ loop[q] \in Loops
      BY <2>0, <2>2 DEF QueueDeadline, NoPick, MayWait, Types, LocalType
    <3>2. Higher(loop[q], loop'[q])
      BY <2>0, <3>1 DEF Higher, Loops
    <3>. QED  BY <2>0, <3>1, <3>2, MovesGetOn DEF Watching
  <2>3. CASE Crash(q)
    BY <2>0, <2>3, MovesGetOn DEF Crash, Ending
  <2>4. ASSUME pc'[q] = pc[q], acct'[q] = acct[q], loop'[q] = loop[q]
        PROVE  GetsOn(q) /\ Untried(q)'
    BY <2>0, <2>4, MovesGetOn DEF Watching
  <2>5. ASSUME NEW r \in Requests \ {q}, Forward(r) \/ QueueDeadline(r) \/ Crash(r)
        PROVE  pc'[q] = pc[q] /\ acct'[q] = acct[q] /\ loop'[q] = loop[q]
    BY <2>0, <2>5 DEF Forward, Selection, Stop, WaitForCapacity, RetrySameAccount, NextRoute, GiveUp, PickAccount,
       Gates, TryIncrementRPM, RPMFull, AcquireSlot, SlotsFull, GatePasses, GateRejects, BeginAllows, BeginDenies,
       Returns, PluginReturns, Outcome, FinishCancelled, ReleaseBeforeFailover, Failover, WriteResult, Close,
       LocalCapacityFailure, Again, Finish, Goto, QueueDeadline, Crash
  <2>6. CASE \/ \E r \in Requests : ClientGoes(r) \/ SlotAges(r)
             \/ \E a \in Accounts : SlotsExpire(a) \/ Cool(a) \/ LeaseEnds(a)
             \/ NextMinute \/ UNCHANGED vars
    <3>1. pc' = pc /\ acct' = acct /\ loop' = loop
      BY <2>6 DEF ClientGoes, SlotAges, SlotsExpire, Cool, LeaseEnds, NextMinute, vars, localVars
    <3>. QED  BY <2>4, <3>1
  <2>. QED  BY <2>1, <2>2, <2>3, <2>4, <2>5, <2>6 DEF Next
<1>3. IInv /\ (\A r \in Requests : Untried(r)) /\ [Next]_vars => [\A r \in Requests : GetsOn(r)]_vars
  BY <1>2
<1>4. IInv /\ (\A r \in Requests : Untried(r)) /\ [Next]_vars => (\A r \in Requests : Untried(r))'
  BY <1>2
<1>. QED  BY <1>1, <1>3, <1>4, Invariance, PTL DEF Spec, LoopGetsOn
=============================================================================
