--------------------------- MODULE FamilyCircuit ---------------------------
(***************************************************************************)
(* The circuit of one account and one model family: internal/scheduler/    *)
(* family.go, with the attempts of forwarder.go and host_service.go that   *)
(* go through it.                                                          *)
(*                                                                         *)
(* Three Redis keys: a cooldown with a time to live, a recovery marker     *)
(* without one, and a probe lease that names the attempt holding it.  Each *)
(* Lua script is one step.  The circuit is closed without keys, open while *)
(* the cooldown lives, half-open while only the recovery marker does.      *)
(*                                                                         *)
(* Time passes in ticks; a key is its remaining time to live.  A renewal   *)
(* that is due happens before the next tick.  An attempt is named by its   *)
(* token, a fresh uuid: a name is used again once nobody can know it.      *)
(* Permanent cooldowns (no code writes one) are left out.                  *)
(***************************************************************************)
EXTENDS Naturals, FiniteSets

CONSTANTS
    Attempts,         \* probe tokens, one for each upstream attempt
    NoAttempt,        \* the probe key does not exist
    Cooldowns,        \* times to live a rate limit may ask for
    Lease,            \* familyProbeLease
    RenewEvery,       \* familyProbeRenew
    RetryEvery,       \* familyProbeRenewRetry
    MaxFailures,      \* bound: renewals of an attempt failing in a row
    RedisFails,       \* may a script fail at the gate or after the call?
    AdminClears       \* may an operator clear the circuit?

ASSUME CircuitAssumption ==
    /\ NoAttempt \notin Attempts
    /\ Cooldowns \subseteq Nat \ {0}
    /\ Lease \in Nat \ {0} /\ RenewEvery \in Nat \ {0} /\ RetryEvery \in Nat \ {0}
    /\ MaxFailures \in Nat
    /\ RetryEvery <= RenewEvery
    /\ RenewEvery + MaxFailures * RetryEvery < Lease
    /\ RedisFails \in BOOLEAN /\ AdminClears \in BOOLEAN

VARIABLES
    \* the Redis keys
    cooldown,         \* time to live of the cooldown key, 0 without one
    recovery,         \* does the recovery marker exist?
    transient,        \* do the two hold a value of the retired transient kind?
    probe, lease,     \* holder and time to live of the probe key
    \* attempts
    at,               \* "idle", "picked", "gated" or "calling"
    won,              \* won[a]: gate.ProbeClaimed of attempt a
    keeper,           \* MaintainFamilyProbe: "none", "trying", "renewed"
    renewIn,          \* time to the next renewal
    failures,         \* renewals that failed in a row
    \* ClearAccount
    clearing,         \* the keys it deletes next: "cooldown" when it is not running
    \* history
    sinceMark         \* attempts that claimed the probe of the present circuit

keyVars     == <<cooldown, recovery, transient, probe, lease>>
attemptVars == <<at, won, keeper, renewIn, failures>>
vars == <<keyVars, attemptVars, clearing, sinceMark>>

Maximum(x, y) == IF x >= y THEN x ELSE y

TypeOK ==
    /\ cooldown \in Nat
    /\ recovery \in BOOLEAN /\ transient \in BOOLEAN
    /\ probe \in Attempts \cup {NoAttempt}
    /\ lease \in 0 .. Lease
    /\ (lease = 0) <=> (probe = NoAttempt)
    /\ at \in [Attempts -> {"idle", "picked", "gated", "calling"}]
    /\ won \in [Attempts -> BOOLEAN]
    /\ keeper \in [Attempts -> {"none", "trying", "renewed"}]
    /\ renewIn \in [Attempts -> 0 .. RenewEvery]
    /\ failures \in [Attempts -> 0 .. MaxFailures]
    /\ clearing \in {"cooldown", "recovery", "probe"}
    /\ sinceMark \in SUBSET Attempts

\* Closed; or a circuit of the retired kind is left from an older version.
Init ==
    /\ \/ cooldown = 0 /\ recovery = FALSE /\ transient = FALSE
       \/ cooldown \in Cooldowns \cup {0} /\ recovery = TRUE /\ transient = TRUE
    /\ probe = NoAttempt /\ lease = 0
    /\ at = [a \in Attempts |-> "idle"]
    /\ won = [a \in Attempts |-> FALSE]
    /\ keeper = [a \in Attempts |-> "none"]
    /\ renewIn = [a \in Attempts |-> 0]
    /\ failures = [a \in Attempts |-> 0]
    /\ clearing = "cooldown"
    /\ sinceMark = {}

----------------------------------------------------------------------------
(* The scripts.                                                            *)

HalfOpen == cooldown = 0 /\ recovery /\ ~transient

DropProbe == probe' = NoAttempt /\ lease' = 0

\* Mutant: a new circuit keeps the probe of the old one.
Mark_KeepsProbe(ttl) ==
    /\ cooldown' = Maximum(cooldown, ttl)
    /\ recovery' = TRUE
    /\ transient' = FALSE
    /\ UNCHANGED <<probe, lease>>
    /\ sinceMark' = {}

\* Mutant: the latest rate limit wins, however short.
Mark_Shortens(ttl) ==
    /\ cooldown' = ttl
    /\ recovery' = TRUE
    /\ transient' = FALSE
    /\ DropProbe
    /\ sinceMark' = {}

\* Mutant: the marker is left to the cooldown's own key.
Mark_NoRecovery(ttl) ==
    /\ cooldown' = Maximum(cooldown, ttl)
    /\ transient' = FALSE
    /\ DropProbe
    /\ sinceMark' = {}
    /\ UNCHANGED recovery

\* Mark opens the circuit: the longest cooldown, the marker, no probe.
Mark(ttl) ==
    /\ cooldown' = Maximum(cooldown, ttl)
    /\ recovery' = TRUE
    /\ transient' = FALSE
    /\ DropProbe
    /\ sinceMark' = {}

\* A circuit of the retired kind is dropped once its cooldown is over.
DropTransient ==
    /\ cooldown = 0 /\ recovery /\ transient
    /\ recovery' = FALSE /\ transient' = FALSE
    /\ DropProbe
    /\ UNCHANGED <<cooldown, sinceMark>>

\* Attempt a holds the probe already, or takes the free one.
TakeProbe(a) ==
    /\ HalfOpen
    /\ \/ probe = a /\ UNCHANGED <<probe, lease>>
       \/ probe = NoAttempt /\ probe' = a /\ lease' = Lease
    /\ sinceMark' = sinceMark \cup {a}
    /\ UNCHANGED <<cooldown, recovery, transient>>

\* ClaimProbe lets attempt a pass; w tells whether a knows it holds the probe.
\* Without an answer a passes too, and the script may have run.
ClaimProbe(a, w) ==
    \/ /\ w = FALSE
       /\ \/ cooldown = 0 /\ ~recovery /\ UNCHANGED <<keyVars, sinceMark>>
          \/ DropTransient
    \/ /\ w = TRUE
       /\ TakeProbe(a)
    \/ /\ RedisFails
       /\ w = FALSE
       /\ TakeProbe(a) \/ UNCHANGED <<keyVars, sinceMark>>

ReleaseProbe(a) ==
    /\ IF probe = a THEN DropProbe ELSE UNCHANGED <<probe, lease>>
    /\ UNCHANGED <<cooldown, recovery, transient, sinceMark>>

\* Does attempt a still hold the probe of a half-open circuit?
Owns(a) == cooldown = 0 /\ recovery /\ probe = a

\* Recover closes the circuit for the attempt that holds the probe.
Recover(a) ==
    /\ IF Owns(a)
       THEN /\ recovery' = FALSE /\ transient' = FALSE
            /\ DropProbe
       ELSE UNCHANGED <<recovery, transient, probe, lease>>
    /\ UNCHANGED <<cooldown, sinceMark>>

----------------------------------------------------------------------------
(* An attempt: picked by the scheduler, let through the gate, called.      *)

Goes(a, place) == at' = [at EXCEPT ![a] = place]

\* Nobody knows token a.
Fresh(a) == at[a] = "idle" /\ probe # a /\ a \notin sinceMark

\* Selection claims the gate of the account it picks.
Pick(a) ==
    /\ Fresh(a)
    /\ \E w \in BOOLEAN : ClaimProbe(a, w)
    /\ Goes(a, "picked")
    /\ UNCHANGED <<won, keeper, renewIn, failures, clearing>>

\* ClaimAccountGate claims it (once more) before the call; an attempt that
\* asks for this very account was not picked.
Gate(a) ==
    /\ at[a] = "picked" \/ Fresh(a)
    /\ \E w \in BOOLEAN : ClaimProbe(a, w) /\ won' = [won EXCEPT ![a] = w]
    /\ Goes(a, "gated")
    /\ UNCHANGED <<keeper, renewIn, failures, clearing>>

\* No local capacity, the gate refuses or the middleware does.
GiveUp(a) ==
    /\ at[a] \in {"picked", "gated"}
    /\ ReleaseProbe(a)
    /\ Goes(a, "idle")
    /\ won' = [won EXCEPT ![a] = FALSE]
    /\ UNCHANGED <<keeper, renewIn, failures, clearing>>

\* RenewProbe on behalf of attempt a.
RenewSucceeds(a) ==
    /\ Owns(a)
    /\ lease' = Lease
    /\ keeper' = [keeper EXCEPT ![a] = "renewed"]
    /\ renewIn' = [renewIn EXCEPT ![a] = RenewEvery]
    /\ failures' = [failures EXCEPT ![a] = 0]

\* The lease is somebody else's or gone: it is not taken again.
RenewRefused(a) ==
    /\ ~Owns(a)
    /\ keeper' = [keeper EXCEPT ![a] = "none"]
    /\ UNCHANGED <<lease, renewIn, failures>>

\* Mutant: after a failure the keeper waits a whole period.
RenewFails_FullPeriod(a) ==
    /\ failures[a] < MaxFailures
    /\ keeper' = [keeper EXCEPT ![a] = IF @ = "none" THEN "trying" ELSE @]
    /\ renewIn' = [renewIn EXCEPT ![a] = RenewEvery]
    /\ failures' = [failures EXCEPT ![a] = @ + 1]
    /\ UNCHANGED lease \/ (Owns(a) /\ lease' = Lease)

\* Redis did not answer, though the script may have run: it is tried again soon.
RenewFails(a) ==
    /\ failures[a] < MaxFailures
    /\ keeper' = [keeper EXCEPT ![a] = IF @ = "none" THEN "trying" ELSE @]
    /\ renewIn' = [renewIn EXCEPT ![a] = RetryEvery]
    /\ failures' = [failures EXCEPT ![a] = @ + 1]
    /\ UNCHANGED lease \/ (Owns(a) /\ lease' = Lease)

RenewProbe(a) == RenewSucceeds(a) \/ RenewRefused(a) \/ RenewFails(a)

\* The call begins; a claimed probe is maintained while it lasts.
Call(a) ==
    /\ at[a] = "gated"
    /\ IF won[a] THEN RenewProbe(a) ELSE UNCHANGED <<lease, keeper, renewIn, failures>>
    /\ Goes(a, "calling")
    /\ UNCHANGED <<cooldown, recovery, transient, probe, won, clearing, sinceMark>>

Renew(a) ==
    /\ keeper[a] # "none"
    /\ renewIn[a] = 0
    /\ RenewProbe(a)
    /\ UNCHANGED <<cooldown, recovery, transient, probe, at, won, clearing, sinceMark>>

\* Mutant: nobody stops the keeper.
Ends_KeepsRenewing(a) ==
    /\ at[a] = "calling"
    /\ Goes(a, "idle")
    /\ won' = [won EXCEPT ![a] = FALSE]
    /\ UNCHANGED <<keeper, renewIn, failures, clearing>>

\* The call is over: its keeper is stopped before the outcome is applied.
Ends(a) ==
    /\ at[a] = "calling"
    /\ Goes(a, "idle")
    /\ won' = [won EXCEPT ![a] = FALSE]
    /\ keeper' = [keeper EXCEPT ![a] = "none"]
    /\ renewIn' = [renewIn EXCEPT ![a] = 0]
    /\ failures' = [failures EXCEPT ![a] = 0]
    /\ UNCHANGED clearing

Succeeds(a) ==
    /\ Ends(a)
    /\ Recover(a)

RateLimited(a) ==
    /\ Ends(a)
    /\ \E ttl \in Cooldowns : Mark(ttl)

\* The client was at fault, or went away.
Declined(a) ==
    /\ Ends(a)
    /\ ReleaseProbe(a)

\* The upstream failed, or Redis does not answer: the lease runs out.
Fails(a) ==
    /\ Ends(a)
    /\ UNCHANGED <<keyVars, sinceMark>>

\* The process of attempt a ends.
Dies(a) ==
    /\ at[a] # "idle"
    /\ Goes(a, "idle")
    /\ won' = [won EXCEPT ![a] = FALSE]
    /\ keeper' = [keeper EXCEPT ![a] = "none"]
    /\ renewIn' = [renewIn EXCEPT ![a] = 0]
    /\ failures' = [failures EXCEPT ![a] = 0]
    /\ UNCHANGED <<keyVars, clearing, sinceMark>>

Attempt(a) ==
    \/ Pick(a) \/ Gate(a) \/ GiveUp(a) \/ Call(a) \/ Renew(a)
    \/ Succeeds(a) \/ RateLimited(a) \/ Declined(a) \/ Fails(a) \/ Dies(a)

----------------------------------------------------------------------------
(* Candidates, operators, time.                                            *)

\* Scanning the candidates drops a circuit of the retired kind.
Peek ==
    /\ DropTransient
    /\ UNCHANGED <<attemptVars, clearing>>

\* ClearAccount scans for cooldowns, then recovery markers, then probes; a
\* deletion that fails is passed over.
ClearCooldown ==
    /\ AdminClears
    /\ clearing = "cooldown"
    /\ cooldown' = 0 \/ (RedisFails /\ UNCHANGED cooldown)
    /\ clearing' = "recovery"
    /\ UNCHANGED <<recovery, transient, probe, lease, attemptVars, sinceMark>>

ClearRecovery ==
    /\ clearing = "recovery"
    /\ \/ recovery' = FALSE /\ transient' = FALSE
       \/ RedisFails /\ UNCHANGED <<recovery, transient>>
    /\ clearing' = "probe"
    /\ UNCHANGED <<cooldown, probe, lease, attemptVars, sinceMark>>

ClearProbe ==
    /\ clearing = "probe"
    /\ \/ DropProbe /\ sinceMark' = {}
       \/ RedisFails /\ UNCHANGED <<probe, lease, sinceMark>>
    /\ clearing' = "cooldown"
    /\ UNCHANGED <<cooldown, recovery, transient, attemptVars>>

\* A scan fails: the rest is not cleared.
ClearFails ==
    /\ clearing # "cooldown"
    /\ clearing' = "cooldown"
    /\ UNCHANGED <<keyVars, attemptVars, sinceMark>>

Clear == ClearCooldown \/ ClearRecovery \/ ClearProbe \/ ClearFails

Less(n) == IF n = 0 THEN 0 ELSE n - 1

Tick ==
    /\ \A a \in Attempts : keeper[a] # "none" => renewIn[a] > 0
    /\ cooldown' = Less(cooldown)
    /\ lease' = Less(lease)
    /\ probe' = IF lease' = 0 THEN NoAttempt ELSE probe
    /\ renewIn' = [a \in Attempts |-> Less(renewIn[a])]
    /\ UNCHANGED <<recovery, transient, at, won, keeper, failures, clearing, sinceMark>>

Next == (\E a \in Attempts : Attempt(a)) \/ Peek \/ Clear \/ Tick

Spec == Init /\ [][Next]_vars

\* Time passes, keepers run, and a call ends in one way or another: it has a
\* deadline.
Fairness ==
    /\ WF_vars(Tick)
    /\ \A a \in Attempts :
          /\ WF_vars(GiveUp(a) \/ Call(a))
          /\ WF_vars(Renew(a))
          /\ WF_vars(Succeeds(a) \/ RateLimited(a) \/ Declined(a) \/ Fails(a))
FairSpec == Spec /\ Fairness

----------------------------------------------------------------------------
(* Properties.                                                             *)

\* An attempt forgets nothing it could use against a circuit opened later:
\* but for an operator and the retired kind, only the success of an attempt
\* that claimed the probe after the latest Mark closes a circuit.
ClosedOnlyByItsProbe ==
    [][recovery /\ ~recovery' /\ ~transient /\ clearing # "recovery"
          => \E a \in sinceMark : probe = a /\ at[a] = "calling" /\ at'[a] = "idle"]_vars

\* A probe that is kept stays the only one, even if renewals fail as often
\* in a row as MaxFailures allows: until a Mark or an operator takes the
\* lease away, it is the keeper's.
KeptProbeHolds ==
    \A a \in Attempts : keeper[a] = "renewed" /\ a \in sinceMark => probe = a

\* What the keeper's timing guarantees (the inductive form of the above).
KeptProbeHasTime ==
    \A a \in Attempts :
        keeper[a] = "renewed" /\ a \in sinceMark
           => /\ probe = a
              /\ lease > renewIn[a] + (MaxFailures - failures[a]) * RetryEvery

\* Only time and operators shorten a cooldown; a Mark never does.
CooldownKept ==
    [][cooldown' < cooldown
          => \/ clearing = "cooldown" /\ clearing' = "recovery"
             \/ cooldown' = cooldown - 1 /\ at' = at]_vars

\* Time alone never restores full traffic: whenever a cooldown can run out,
\* the recovery marker is there to ask for a probe.
RecoveryOutlivesCooldown == cooldown > 0 => recovery

\* A lease does not outlive its attempt for ever: whoever holds it, and
\* whatever becomes of that attempt, it is free again.
LeaseEnds == \A a \in Attempts : probe = a ~> probe # a
=============================================================================
