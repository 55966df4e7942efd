----------------------------- MODULE Forwarder -----------------------------
(***************************************************************************)
(* The forward loop of a gateway request: internal/plugin/forwarder.go,    *)
(* quota.go and outcome.go, with the account gates it goes through:        *)
(* scheduler/rpm.go (requests per minute), scheduler/concurrency.go        *)
(* (slots) and the half-open probe of scheduler/family.go.                 *)
(*                                                                         *)
(* A request walks the routes of its API key.  On a route it picks an      *)
(* account it has not excluded, takes a place in the account's minute and  *)
(* a slot, asks the gate, runs the begin chain once, calls the upstream    *)
(* and judges the outcome: answer, or give everything back and go round    *)
(* again.  Its client may cancel at any moment: from then on each call     *)
(* with the request's context fails, while calls with                      *)
(* context.Background() still work.  A command of the limiters may also    *)
(* fail of itself, executed or not.  Either way they fail open: the        *)
(* request passes.                                                         *)
(*                                                                         *)
(* Selection picks any account that may be scheduled: the order of tiers   *)
(* and the load balancing are left out, and so are sessions.  The probe    *)
(* protocol is that of FamilyCircuit, reduced to closed, open, half-open   *)
(* and who holds the probe.                                                *)
(***************************************************************************)
EXTENDS Integers, Sequences, FiniteSets

CONSTANTS
    Requests,         \* gateway requests
    Nobody,           \* not a request: the holder of a free probe
    Accounts,         \* upstream accounts
    NoAccount,        \* not an account
    Routes,           \* Routes[r]: the accounts of each of r's routes, in order
    Outcomes,         \* Outcomes[r]: what the plugin may return to r
    Limited,          \* accounts at fault by a rate limit, which ends; they
                      \* await a probe at first.  Others are disabled.
    MaxRPM,           \* MaxRPM[a]: extra.max_rpm
    MaxSlots,         \* MaxSlots[a]: max_concurrency
    Cancelling,       \* requests whose client may go away
    Crashing,         \* requests whose server process may end
    Slow,             \* requests whose call may outlive the lifetime of their slot
    Failing,          \* requests whose commands to Redis may fail
    MaxErrors,        \* bound: commands that fail
    MaxMinutes        \* bound: how often the minute turns

\* The kinds of outcome; "broken" is a plugin error or a stream cut off before
\* its first byte.  An outcome is final if canFailover denies another attempt;
\* usage says whether the plugin has measured any.
Kinds == {"success", "client", "fault", "transient", "broken"}

ASSUME ForwarderAssumption ==
    /\ Nobody \notin Requests /\ NoAccount \notin Accounts
    /\ Routes \in [Requests -> Seq(SUBSET Accounts)]
    /\ \A r \in Requests : Routes[r] # <<>>    \* Forward refuses it before the loop
    /\ Outcomes \in [Requests -> SUBSET [kind : Kinds, final : BOOLEAN, usage : BOOLEAN]]
    /\ Limited \subseteq Accounts
    /\ MaxRPM \in [Accounts -> Nat \ {0}] /\ MaxSlots \in [Accounts -> Nat \ {0}]
    /\ Cancelling \subseteq Requests /\ Crashing \subseteq Requests
    /\ Slow \subseteq Requests /\ Failing \subseteq Requests
    /\ MaxErrors \in Nat /\ MaxMinutes \in Nat

VARIABLES
    \* a request
    pc,               \* where it is
    loop,             \* the locals of Forward's loops
    acct,             \* state.account of the attempt
    reserved,         \* has the attempt been let through in this minute?
    out,              \* what the plugin returned
    cancelled,        \* ctx.Err() # nil
    errors,           \* commands of the limiters that have failed
    \* Redis
    rpm,              \* the counter of the current minute
    counted,          \* accounts whose counter exists
    slots,            \* requests in the account's slot set
    overdue,          \* requests that have outlived the lifetime of their slot
    gate,             \* "closed", "open" or "half": the account's circuit
    probe,            \* who holds the half-open probe
    minute,
    \* history
    records,          \* usage records written for a request
    unmetered,        \* requests answered by a success without usage
    kept              \* places of this minute that are used up

localVars == <<pc, loop, acct, reserved, out>>
rateVars  == <<rpm, counted, minute, kept>>
gateVars  == <<gate, probe>>
slotVars  == <<slots, overdue>>
faults    == <<cancelled, errors>>
written   == <<records, unmetered>>
vars == <<localVars, faults, rateVars, gateVars, slotVars, written>>

NoOut == [kind |-> "none", final |-> TRUE, usage |-> FALSE]

Places  == {"loop", "rate", "slot", "gate", "begin", "call", "verdict", "apply",
            "close", "done", "dead"}
Attempt == {"rate", "slot", "gate", "begin", "call", "verdict", "apply", "close"}

\* The loops start over: with a route, or with the request.
Fresh(route) == [route |-> route, hard |-> {}, soft |-> {}, waiting |-> FALSE,
                 retried |-> FALSE, last |-> NoAccount, late |-> FALSE,
                 begun |-> FALSE, free |-> FALSE]

Loops == [route : Nat, hard : SUBSET Accounts, soft : SUBSET Accounts,
          waiting : BOOLEAN, retried : BOOLEAN, last : Accounts \cup {NoAccount},
          late : BOOLEAN, begun : BOOLEAN,
          free : BOOLEAN]     \* has the attempt passed without a slot?

TypeOK ==
    /\ pc \in [Requests -> Places]
    /\ \A r \in Requests : loop[r] \in Loops /\ loop[r].route \in 1 .. Len(Routes[r])
    /\ acct \in [Requests -> Accounts \cup {NoAccount}]
    /\ reserved \in [Requests -> BOOLEAN]
    /\ out \in [Requests -> [kind : Kinds \cup {"none"}, final : BOOLEAN,
                           usage : BOOLEAN]]
    /\ cancelled \in [Requests -> BOOLEAN]
    /\ errors \in 0 .. MaxErrors
    /\ rpm \in [Accounts -> Int]
    /\ counted \subseteq Accounts
    /\ slots \in [Accounts -> SUBSET Requests]
    /\ overdue \subseteq Requests
    /\ gate \in [Accounts -> {"closed", "open", "half"}]
    /\ probe \in [Accounts -> Requests \cup {Nobody}]
    /\ minute \in Nat
    /\ records \in [Requests -> Nat] /\ unmetered \subseteq Requests
    /\ kept \in [Accounts -> Nat]

Init ==
    /\ pc = [r \in Requests |-> "loop"]
    /\ loop = [r \in Requests |-> Fresh(1)]
    /\ acct = [r \in Requests |-> NoAccount]
    /\ reserved = [r \in Requests |-> FALSE]
    /\ out = [r \in Requests |-> NoOut]
    /\ cancelled = [r \in Requests |-> FALSE]
    /\ errors = 0
    /\ rpm = [a \in Accounts |-> 0]
    /\ counted = {}
    /\ slots = [a \in Accounts |-> {}]
    /\ overdue = {}
    /\ gate = [a \in Accounts |-> IF a \in Limited THEN "half" ELSE "closed"]
    /\ probe = [a \in Accounts |-> Nobody]
    /\ minute = 0
    /\ records = [r \in Requests |-> 0] /\ unmetered = {}
    /\ kept = [a \in Accounts |-> 0]

Goto(r, p) == pc' = [pc EXCEPT ![r] = p]

\* The attempt is over: back to the top of the loop.
Again(r, l) ==
    /\ Goto(r, "loop")
    /\ loop' = [loop EXCEPT ![r] = [l EXCEPT !.free = FALSE]]
    /\ acct' = [acct EXCEPT ![r] = NoAccount]
    /\ out' = [out EXCEPT ![r] = NoOut]

\* Forward returns; its locals are gone.
Finish(r) ==
    /\ Goto(r, "done")
    /\ loop' = [loop EXCEPT ![r] = Fresh(1)]
    /\ acct' = [acct EXCEPT ![r] = NoAccount]
    /\ out' = [out EXCEPT ![r] = NoOut]

\* The client goes away: ctx is cancelled.
Cancel(r) ==
    /\ r \in Cancelling /\ ~cancelled[r]
    /\ cancelled' = [cancelled EXCEPT ![r] = TRUE]
    /\ UNCHANGED errors

\* A command with the context of a live request fails.
RedisFails(r) ==
    /\ r \in Failing /\ errors < MaxErrors
    /\ errors' = errors + 1

\* A command with the request's context fails.
CommandFails(r) ==
    /\ \/ cancelled[r] /\ UNCHANGED errors
       \/ ~cancelled[r] /\ RedisFails(r)
    /\ UNCHANGED cancelled

\* recordUsage or recordFailureUsage.
WriteRecord(r) ==
    /\ records' = [records EXCEPT ![r] = @ + 1]
    /\ UNCHANGED unmetered

----------------------------------------------------------------------------
(* The account's minute (rpm.go).                                          *)

\* The request passes, and the counter is incremented n times.
LetThrough(r, n) ==
    /\ rpm' = [rpm EXCEPT ![acct[r]] = @ + n]
    /\ counted' = IF n = 0 THEN counted ELSE counted \cup {acct[r]}
    /\ reserved' = [reserved EXCEPT ![r] = TRUE]
    /\ UNCHANGED <<minute, kept>>

\* The attempt has no place in the minute any more.
Leave(r) == reserved' = [reserved EXCEPT ![r] = FALSE] /\ UNCHANGED <<counted, minute>>

\* DecrementRPM: the counter of the minute it is now, if there is one, whoever
\* has incremented it.  Nobody looks at its error.
Undo(r) ==
    /\ Leave(r) /\ UNCHANGED kept
    /\ \/ /\ rpm' = IF acct[r] \in counted THEN [rpm EXCEPT ![acct[r]] = @ - 1] ELSE rpm
          /\ UNCHANGED errors
       \/ RedisFails(r) /\ UNCHANGED rpm

\* DecrementRPM with a context that is cancelled: nothing is decremented.
UndoNothing(r) == Leave(r) /\ UNCHANGED <<rpm, kept, errors>>

UndoIfLive(r) == IF cancelled[r] THEN UndoNothing(r) ELSE Undo(r)

\* The attempt ends and its place in the minute is used up.
Keep(r) ==
    /\ Leave(r)
    /\ kept' = IF reserved[r] THEN [kept EXCEPT ![acct[r]] = @ + 1] ELSE kept
    /\ UNCHANGED <<rpm, errors>>

----------------------------------------------------------------------------
(* Slots (concurrency.go) and the probe (family.go).                       *)

\* What getCurrentLoad counts.
Load(a) == Cardinality(slots[a] \ overdue)

ReleaseSlot(r) ==
    /\ slots' = [slots EXCEPT ![acct[r]] = @ \ {r}]
    /\ overdue' = overdue \ {r}

\* The circuit lets r pass: peekCircuitStatus, and ClaimProbe for itself.
Open(r, a) == gate[a] = "closed" \/ (gate[a] = "half" /\ probe[a] \in {Nobody, r})

ClaimProbe(r, a) ==
    /\ probe' = IF gate[a] = "half" THEN [probe EXCEPT ![a] = r] ELSE probe
    /\ UNCHANGED gate

\* ReleaseProbe: only the holder's token frees it.
Freed(r) == IF probe[acct[r]] = r THEN [probe EXCEPT ![acct[r]] = Nobody] ELSE probe

ReleaseFamilyProbe(r) == probe' = Freed(r) /\ UNCHANGED gate

----------------------------------------------------------------------------
(* Picking an account (pickAccount, SelectAccountWithRequirements).        *)

\* What the route offers after exclusions.
Candidates(r) == Routes[r][loop[r].route] \ (loop[r].hard \cup loop[r].soft)

\* Blocked by the account's own limits only: ErrLocalCapacityUnavailable.
Full(a) == rpm[a] >= MaxRPM[a] \/ Load(a) >= MaxSlots[a]
LocalCapacity(r) == \E a \in Candidates(r) : Open(r, a) /\ Full(a)

Pickable(r) == {a \in Candidates(r) : Open(r, a) /\ ~Full(a)}

\* The loop sees that the client has gone.
Stop(r) ==
    /\ pc[r] = "loop" /\ cancelled[r]
    /\ Finish(r) /\ WriteRecord(r)
    /\ UNCHANGED <<reserved, faults, rateVars, gateVars, slotVars>>

\* The selection scans, chooses and claims the probe of its choice.
PickAccount(r, a) ==
    /\ pc[r] = "loop" /\ ~cancelled[r]
    /\ a \in Pickable(r)
    /\ ClaimProbe(r, a)
    /\ acct' = [acct EXCEPT ![r] = a]
    /\ Goto(r, "rate")
    /\ UNCHANGED <<loop, reserved, out, faults, rateVars, slotVars, written>>

NoPick(r) == pc[r] = "loop" /\ ~cancelled[r] /\ Pickable(r) = {}

\* The scheduler found no candidate at all: an unclassified exhaustion.
Exhausted(r) == Candidates(r) = {}

\* Mutant: the queue has no deadline.
MayWait_NoDeadline(r) ==
    LocalCapacity(r) \/ (loop[r].waiting /\ loop[r].soft # {} /\ Exhausted(r))

MayWait(r) ==
    /\ LocalCapacity(r) \/ (loop[r].waiting /\ loop[r].soft # {} /\ Exhausted(r))
    /\ ~loop[r].late

\* Wait for a place at an account; soft exclusions are forgotten meanwhile.
WaitForCapacity(r) ==
    /\ NoPick(r) /\ MayWait(r)
    /\ Again(r, [loop[r] EXCEPT !.soft = {}])
    /\ UNCHANGED <<reserved, faults, rateVars, gateVars, slotVars, written>>

MayRetry(r) == ~loop[r].retried /\ loop[r].last # NoAccount /\ Exhausted(r)

\* Nobody else is left: the account that failed blamelessly gets a second try.
RetrySameAccount(r) ==
    /\ NoPick(r) /\ ~MayWait(r) /\ MayRetry(r)
    /\ Again(r, [loop[r] EXCEPT !.retried = TRUE, !.soft = @ \ {loop[r].last}])
    /\ UNCHANGED <<reserved, faults, rateVars, gateVars, slotVars, written>>

NextRoute(r) ==
    /\ NoPick(r) /\ ~MayWait(r) /\ ~MayRetry(r)
    /\ loop[r].route < Len(Routes[r])
    /\ LET l == loop[r]
       IN  Again(r, [Fresh(l.route + 1) EXCEPT !.hard = l.hard, !.begun = l.begun])
    /\ UNCHANGED <<reserved, faults, rateVars, gateVars, slotVars, written>>

\* Every route has failed: the error is sent.
GiveUp(r) ==
    /\ NoPick(r) /\ ~MayWait(r) /\ ~MayRetry(r)
    /\ loop[r].route = Len(Routes[r])
    /\ Finish(r) /\ WriteRecord(r)
    /\ UNCHANGED <<reserved, faults, rateVars, gateVars, slotVars>>

----------------------------------------------------------------------------
(* The gates of an attempt (acquireAccountSlot, ClaimAccountGate).         *)

\* The account is at a limit: exclude it softly and wait for capacity.
LocalCapacityFailure(r) ==
    Again(r, [loop[r] EXCEPT !.waiting = TRUE, !.soft = @ \cup {acct[r]}])

\* tryIncrementScript lets the request in and counts it.  If the command fails,
\* the request passes: the script may have been executed all the same, and the
\* IncrementRPM which is then tried may be too.  Without a client nothing is sent.
TryIncrementRPM(r) ==
    /\ pc[r] = "rate"
    /\ \/ /\ ~cancelled[r] /\ rpm[acct[r]] < MaxRPM[acct[r]]
          /\ LetThrough(r, 1) /\ UNCHANGED faults
       \/ /\ cancelled[r]
          /\ UNCHANGED <<reserved, rateVars, faults>>
       \/ /\ ~cancelled[r] /\ CommandFails(r)
          /\ \E n \in 0 .. (IF rpm[acct[r]] < MaxRPM[acct[r]] THEN 2 ELSE 1) : LetThrough(r, n)
    /\ Goto(r, "slot")
    /\ UNCHANGED <<loop, acct, out, gateVars, slotVars, written>>

RPMFull(r) ==
    /\ pc[r] = "rate" /\ ~cancelled[r] /\ rpm[acct[r]] >= MaxRPM[acct[r]]
    /\ ReleaseFamilyProbe(r)
    /\ LocalCapacityFailure(r)
    /\ UNCHANGED <<reserved, faults, rateVars, slotVars, written>>

Young(r) == slots[acct[r]] \ overdue

\* Mutant: one slot too many.
Room_OffByOne(r) == Cardinality(Young(r)) <= MaxSlots[acct[r]]

Room(r) == Cardinality(Young(r)) < MaxSlots[acct[r]]

\* acquireSlotScript drops overdue members, then counts.
AddSlot(r) == Room(r) /\ slots' = [slots EXCEPT ![acct[r]] = Young(r) \cup {r}]
Refuse(r)  == ~Room(r) /\ slots' = [slots EXCEPT ![acct[r]] = Young(r)]

\* If the command fails the request passes, whether it has been executed or not.
AcquireSlot(r) ==
    /\ pc[r] = "slot"
    /\ \/ ~cancelled[r] /\ AddSlot(r) /\ UNCHANGED faults
       \/ /\ CommandFails(r)
          /\ UNCHANGED slots \/ (~cancelled[r] /\ (AddSlot(r) \/ Refuse(r)))
    /\ loop' = [loop EXCEPT ![r].waiting = FALSE, ![r].free = r \notin slots'[acct[r]]]
    /\ Goto(r, "gate")
    /\ UNCHANGED <<acct, reserved, out, overdue, rateVars, gateVars, written>>

SlotsFull(r) ==
    /\ pc[r] = "slot" /\ ~cancelled[r]
    /\ Refuse(r)
    \* the client may go away before the decrement
    /\ \/ Undo(r) /\ UNCHANGED cancelled
       \/ Cancel(r) /\ UndoNothing(r)
    /\ ReleaseFamilyProbe(r)
    /\ LocalCapacityFailure(r)
    /\ UNCHANGED <<overdue, written>>

\* ClaimAccountGate reads the account with the request's context.
GatePasses(r) ==
    /\ pc[r] = "gate" /\ ~cancelled[r] /\ Open(r, acct[r])
    /\ ClaimProbe(r, acct[r])
    /\ Goto(r, IF loop[r].begun THEN "call" ELSE "begin")
    /\ UNCHANGED <<loop, acct, reserved, out, faults, rateVars, slotVars, written>>

\* Mutant: the place in the minute is not given back.
GateRejects_KeepsPlace(r) ==
    /\ pc[r] = "gate" /\ (cancelled[r] \/ ~Open(r, acct[r]))
    /\ ReleaseSlot(r) /\ ReleaseFamilyProbe(r)
    /\ Again(r, [loop[r] EXCEPT !.hard = @ \cup {acct[r]}])
    /\ UNCHANGED <<reserved, rateVars, faults, written>>

GateRejects(r) ==
    /\ pc[r] = "gate" /\ (cancelled[r] \/ ~Open(r, acct[r]))
    /\ ReleaseSlot(r) /\ Undo(r) /\ ReleaseFamilyProbe(r)
    /\ Again(r, [loop[r] EXCEPT !.hard = @ \cup {acct[r]}])
    /\ UNCHANGED <<cancelled, written>>

\* runForwardBeginChain, before the first call only.
BeginAllows(r) ==
    /\ pc[r] = "begin"
    /\ loop' = [loop EXCEPT ![r].begun = TRUE]
    /\ Goto(r, "call")
    /\ UNCHANGED <<acct, reserved, out, faults, rateVars, gateVars, slotVars, written>>

\* Mutant: a denied request keeps its slot.
BeginDenies_KeepsSlot(r) ==
    /\ pc[r] = "begin"
    /\ UndoIfLive(r) /\ ReleaseFamilyProbe(r)
    /\ Finish(r) /\ WriteRecord(r)
    /\ UNCHANGED <<slotVars, cancelled>>

BeginDenies(r) ==
    /\ pc[r] = "begin"
    /\ UndoIfLive(r) /\ ReleaseFamilyProbe(r) /\ ReleaseSlot(r)
    /\ Finish(r) /\ WriteRecord(r)
    /\ UNCHANGED cancelled

----------------------------------------------------------------------------
(* The call and its outcome.                                               *)

\* The plugin returns: a success is final, another outcome may be.
PluginReturns(r, o) ==
    /\ pc[r] = "call"
    /\ o.kind = "success" => o.final
    /\ out' = [out EXCEPT ![r] = o]
    /\ Goto(r, "verdict")
    /\ UNCHANGED <<loop, acct, reserved, faults, rateVars, gateVars, slotVars, written>>

\* finishCanceled: with a result or without, everything goes back.
\* Mutant: the missing return: the loop goes round and stops there.
FinishCancelled_GoesOn(r) ==
    /\ pc[r] \in {"verdict", "apply"} /\ cancelled[r]
    /\ ReleaseSlot(r) /\ Undo(r) /\ ReleaseFamilyProbe(r)
    /\ Again(r, loop[r]) /\ WriteRecord(r)
    /\ UNCHANGED cancelled

FinishCancelled(r) ==
    /\ pc[r] \in {"verdict", "apply"} /\ cancelled[r]
    /\ ReleaseSlot(r) /\ Undo(r) /\ ReleaseFamilyProbe(r)
    /\ Finish(r) /\ WriteRecord(r)
    /\ UNCHANGED cancelled

\* scheduler.Apply, the part that touches the gates.
Judge(r) ==
    LET a == acct[r]
    IN  CASE out[r].kind = "success" ->
               /\ gate' = IF probe[a] = r THEN [gate EXCEPT ![a] = "closed"] ELSE gate
               /\ probe' = Freed(r)
          [] out[r].kind = "fault" ->
               \/ /\ gate' = [gate EXCEPT ![a] = "open"]
                  /\ probe' = [probe EXCEPT ![a] = Nobody]
               \/ UNCHANGED gateVars             \* a pool account
          [] out[r].kind = "transient" -> UNCHANGED gateVars
          [] OTHER -> ReleaseFamilyProbe(r)

\* The client may go away between applyOutcome's check and the decrement.
ApplyOutcome(r) ==
    /\ Judge(r)
    /\ IF out[r].kind = "success" THEN Keep(r) /\ UNCHANGED cancelled
       ELSE \/ Undo(r) /\ UNCHANGED cancelled
            \/ Cancel(r) /\ UndoNothing(r)

\* A failure another account may make good: the slot goes back first.
\* Mutant: the release gives the place back, and Apply does so again.
ReleaseBeforeFailover_Undoes(r) ==
    /\ pc[r] = "verdict" /\ ~cancelled[r] /\ ~out[r].final
    /\ ReleaseSlot(r) /\ Undo(r)
    /\ Goto(r, "apply")
    /\ UNCHANGED <<loop, acct, out, cancelled, gateVars, written>>

ReleaseBeforeFailover(r) ==
    /\ pc[r] = "verdict" /\ ~cancelled[r] /\ ~out[r].final
    /\ ReleaseSlot(r)
    /\ Goto(r, "apply")
    /\ UNCHANGED <<loop, acct, reserved, out, faults, rateVars, gateVars, written>>

\* An account at fault is out for good, a blameless one for this round.
Excluded(r) ==
    LET l == loop[r]
    IN  CASE out[r].kind = "fault" -> [l EXCEPT !.hard = @ \cup {acct[r]}]
          [] out[r].kind = "client" ->
                [l EXCEPT !.soft = @ \cup {acct[r]}, !.last = NoAccount]
          [] OTHER -> [l EXCEPT !.soft = @ \cup {acct[r]}, !.last = acct[r]]

Failover(r) ==
    /\ pc[r] = "apply" /\ ~cancelled[r]
    /\ ApplyOutcome(r)
    /\ Again(r, Excluded(r))
    /\ UNCHANGED <<slotVars, written>>

\* recordUsage writes nothing for a success without usage; a failure without usage
\* is recorded by recordFailureUsage.
RecordResult(r) ==
    IF out[r].kind = "success" /\ ~out[r].usage
    THEN unmetered' = unmetered \cup {r} /\ UNCHANGED records
    ELSE WriteRecord(r)

\* writeResult, then the slot.
WriteResult(r) ==
    /\ pc[r] = "verdict" /\ ~cancelled[r] /\ out[r].final
    /\ ApplyOutcome(r)
    /\ RecordResult(r)
    /\ Goto(r, "close")
    /\ UNCHANGED <<loop, acct, out, slotVars>>

Close(r) ==
    /\ pc[r] = "close"
    /\ ReleaseSlot(r)
    /\ Finish(r)
    /\ UNCHANGED <<reserved, faults, rateVars, gateVars, written>>

----------------------------------------------------------------------------
(* Time, clients and servers.                                              *)

ClientGoes(r) ==
    /\ pc[r] \notin {"done", "dead"}
    /\ Cancel(r)
    /\ UNCHANGED <<localVars, rateVars, gateVars, slotVars, written>>

\* queueDeadline has passed: it is only looked at before waiting.
QueueDeadline(r) ==
    /\ NoPick(r) /\ MayWait(r)
    /\ loop' = [loop EXCEPT ![r].late = TRUE]
    /\ UNCHANGED <<pc, acct, reserved, out, faults, rateVars, gateVars, slotVars,
                   written>>

\* Another minute, another counter.
NextMinute ==
    /\ minute < MaxMinutes
    /\ minute' = minute + 1
    /\ rpm' = [a \in Accounts |-> 0]
    /\ counted' = {}
    /\ reserved' = [r \in Requests |-> FALSE]
    /\ kept' = [a \in Accounts |-> 0]
    /\ UNCHANGED <<pc, loop, acct, out, faults, gateVars, slotVars, written>>

\* A slot reaches its lifetime: its request's call is long, or its server is gone.
SlotAges(r) ==
    /\ (r \in Slow /\ pc[r] = "call") \/ pc[r] = "dead"
    /\ r \notin overdue /\ \E a \in Accounts : r \in slots[a]
    /\ overdue' = overdue \cup {r}
    /\ UNCHANGED <<localVars, faults, rateVars, gateVars, slots, written>>

\* The whole key expires a lifetime after the last slot was added.
SlotsExpire(a) ==
    /\ slots[a] # {} /\ slots[a] \subseteq overdue
    /\ slots' = [slots EXCEPT ![a] = {}]
    /\ UNCHANGED <<localVars, faults, rateVars, gateVars, overdue, written>>

\* A cooldown runs out: one probe may pass.
Cool(a) ==
    /\ a \in Limited /\ gate[a] = "open"
    /\ gate' = [gate EXCEPT ![a] = "half"]
    /\ UNCHANGED <<localVars, faults, rateVars, probe, slotVars, written>>

\* A probe's lease expires, unless the call keeps it alive.
LeaseEnds(a) ==
    /\ probe[a] # Nobody
    /\ ~(acct[probe[a]] = a /\ pc[probe[a]] = "call")
    /\ probe' = [probe EXCEPT ![a] = Nobody]
    /\ UNCHANGED <<localVars, faults, rateVars, gate, slotVars, written>>

\* The server ends; what it holds in Redis stays.
Crash(r) ==
    /\ r \in Crashing /\ pc[r] \notin {"done", "dead"}
    /\ pc' = [pc EXCEPT ![r] = "dead"]
    /\ Keep(r)
    /\ loop' = [loop EXCEPT ![r] = Fresh(1)]
    /\ acct' = [acct EXCEPT ![r] = NoAccount]
    /\ out' = [out EXCEPT ![r] = NoOut]
    /\ UNCHANGED <<faults, gateVars, slotVars, written>>

----------------------------------------------------------------------------
Selection(r) ==
    \/ Stop(r) \/ WaitForCapacity(r) \/ RetrySameAccount(r) \/ NextRoute(r) \/ GiveUp(r)
    \/ \E a \in Accounts : PickAccount(r, a)

Gates(r) ==
    \/ TryIncrementRPM(r) \/ RPMFull(r) \/ AcquireSlot(r) \/ SlotsFull(r)
    \/ GatePasses(r) \/ GateRejects(r) \/ BeginAllows(r) \/ BeginDenies(r)

Returns(r) == \E o \in Outcomes[r] : PluginReturns(r, o)

Outcome(r) ==
    \/ FinishCancelled(r) \/ ReleaseBeforeFailover(r) \/ Failover(r)
    \/ WriteResult(r) \/ Close(r)

Forward(r) == Selection(r) \/ Gates(r) \/ Returns(r) \/ Outcome(r)

Next ==
    \/ \E r \in Requests : Forward(r) \/ ClientGoes(r) \/ QueueDeadline(r)
                              \/ SlotAges(r) \/ Crash(r)
    \/ \E a \in Accounts : SlotsExpire(a) \/ Cool(a) \/ LeaseEnds(a)
    \/ NextMinute

Spec == Init /\ [][Next]_vars

\* A handler runs on, and its upstream call has a deadline.  queueDeadline is a
\* time: who comes to look at it again and again, between attempts, finds it
\* passed one day (strong fairness).  No slot need be freed, no minute turn, no
\* cooldown end, no client go away.
Fairness == \A r \in Requests : WF_vars(Forward(r)) /\ SF_vars(QueueDeadline(r))

FairSpec == Spec /\ Fairness

----------------------------------------------------------------------------
(* Properties.                                                             *)

\* The places in a's minute: of attempts let through, and those used up.
Used(a) == Cardinality({r \in Requests : acct[r] = a /\ reserved[r]}) + kept[a]

Left == {r \in Requests : cancelled[r]}

\* What fails gives its place back: the counter exceeds the places by one at most
\* for each command that failed and each client that left.
NothingOvercounted ==
    \A a \in Accounts : rpm[a] <= Used(a) + errors + Cardinality(Left)

\* max_rpm is exceeded by one attempt at most for each command that failed (it
\* lets one pass, or one too many decrement) and each client that left, and after
\* a turn of the minute by the attempts that may have given back under it.
QuotaKept ==
    \A a \in Accounts :
        Used(a) <= MaxRPM[a] + errors + Cardinality(Left)
                     + (IF minute = 0 THEN 0 ELSE Cardinality(Requests))

\* An attempt is over: its place in the minute is given back or used up, and
\* unless its server is gone its slot and probe are free again.  (A transient
\* failure, or a fault of a pool account, leaves the probe to its lease.)
AttemptsCleanUp ==
    \A r \in Requests : pc[r] \notin Attempt =>
        /\ ~reserved[r]
        /\ pc[r] # "dead" => \A a \in Accounts :
               /\ r \notin slots[a]
               /\ probe[a] = r => \E o \in Outcomes[r] : o.kind \in {"transient", "fault"}

\* No more than max_concurrency requests are with an account's upstream, but for
\* those that have outlived their slot, and those that a failing command or a
\* client that had left let pass without one.
AccountLimit ==
    \A a \in Accounts :
        Cardinality({r \in Requests : /\ pc[r] = "call" /\ acct[r] = a
                                     /\ r \notin overdue /\ ~loop[r].free}) <= MaxSlots[a]

\* A request leaves one usage record, whichever way it ends, unless it is answered
\* by a success whose plugin has measured no usage: then it leaves none.
RecordedOnce ==
    \A r \in Requests :
        /\ records[r] <= 1
        /\ pc[r] = "done" => records[r] = IF r \in unmetered THEN 0 ELSE 1
        /\ pc[r] \in {"loop", "rate", "slot", "gate", "begin", "call"} => records[r] = 0

\* Every request ends: whatever is full, excluded or failing.
RequestsEnd == <>(\A r \in Requests : pc[r] \in {"done", "dead"})
=============================================================================
