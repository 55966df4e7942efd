--------------------------- MODULE AccountState ----------------------------
(***************************************************************************)
(* The state of one upstream account: internal/scheduler state.go and      *)
(* admin.go, with the route cache (routecache.go, selection.go) that       *)
(* shows it to the scheduler of one process.                               *)
(*                                                                         *)
(* An actor is whoever works on the account: the judgement of a call, a    *)
(* quota probe, an operator or a selection.  Each database statement and   *)
(* each Redis command is a step, so what an actor read can be old when it  *)
(* writes.  Judgements that mark a model family are FamilyCircuit's.       *)
(*                                                                         *)
(* Time passes in ticks: until, quiet and cachedFor are remaining times.   *)
(* Events, log lines, the reason and last_used_at are left out.            *)
(***************************************************************************)
EXTENDS Naturals

CONSTANTS
    Actors,
    RateLimits,        \* times an upstream or a quota window asks for
    DegradedDefault,   \* degradedDefault
    DegradedMax,       \* degradedMax
    Threshold,         \* poolFailureStreakThreshold
    StreakTTL,         \* poolFailureStreakTTL
    DbTimeout,         \* bound: ticks from a bump to the write it leads to
    CacheTTL,          \* routeCacheTTL
    MaxStreak,         \* bound: failures counted
    Fails              \* may a database statement or a Redis command fail?

ASSUME AccountAssumption ==
    /\ RateLimits \subseteq Nat \ {0}
    /\ DegradedDefault \in Nat \ {0} /\ DegradedMax \in Nat
    /\ Threshold \in Nat \ {0} /\ MaxStreak \in Nat
    /\ DbTimeout \in Nat /\ CacheTTL \in Nat \ {0}
    /\ StreakTTL \in Nat
    /\ DegradedMax + DbTimeout < StreakTTL
    /\ Fails \in BOOLEAN

VARIABLES
    isPool,            \* upstream_is_pool
    state, until,      \* the account's row; until is 0 once the time has passed
    streak, quiet,     \* the pool-failure-streak key and its time to live
    cached, cachedFor, \* the state in this process's route snapshot
    step,              \* what the actor does next
    seen,              \* the state it read
    count,             \* the streak it was told
    waited,            \* ticks since then
    \* history
    fresh,             \* its bump renewed the streak and no reset came since
    warranted          \* so it was for the bump behind the present degradation

rowVars    == <<state, until>>
streakVars == <<streak, quiet>>
cacheVars  == <<cached, cachedFor>>
readVars   == <<seen, count, waited, fresh>>
vars == <<isPool, rowVars, streakVars, cacheVars, step, readVars, warranted>>

States   == {"active", "rate_limited", "degraded", "disabled"}
NotCached == "not cached"
Forever  == StreakTTL + 1        \* the key has no time to live
Steps    == {"idle", "activate", "degrade", "degradeIfStreak", "notify", "recovered",
             "toggle", "markers", "load"}

TypeOK ==
    /\ isPool \in BOOLEAN
    /\ state \in States
    /\ until \in Nat
    /\ state = "degraded" => until <= DegradedMax
    /\ streak \in 0 .. MaxStreak
    /\ quiet \in 0 .. Forever
    /\ cached \in States \cup {NotCached}
    /\ cachedFor \in 0 .. CacheTTL
    /\ step \in [Actors -> Steps]
    /\ seen \in [Actors -> States]
    /\ count \in [Actors -> 0 .. MaxStreak]
    /\ waited \in [Actors -> 0 .. DbTimeout]
    /\ fresh \in [Actors -> BOOLEAN]
    /\ warranted \in BOOLEAN

Init ==
    /\ isPool \in BOOLEAN
    /\ state = "active" /\ until = 0
    /\ streak = 0 /\ quiet = 0
    /\ cached = NotCached /\ cachedFor = 0
    /\ step = [a \in Actors |-> "idle"]
    /\ seen = [a \in Actors |-> "active"]
    /\ count = [a \in Actors |-> 0]
    /\ waited = [a \in Actors |-> 0]
    /\ fresh = [a \in Actors |-> FALSE]
    /\ warranted = FALSE

----------------------------------------------------------------------------
(* The pieces operations are made of.                                      *)

\* The n-th failure in a row: the default, doubled from the threshold on, capped.
DegradeWindow(n) ==
    LET window == IF n <= Threshold THEN DegradedDefault
                                    ELSE DegradedDefault * 2 ^ (n - Threshold)
    IN  IF window \in 0 .. DegradedMax THEN window ELSE DegradedMax

Goes(a, next) == step' = [step EXCEPT ![a] = next]

\* What actor a read is of no more use.
Ends(a, next) ==
    /\ Goes(a, next)
    /\ seen' = [seen EXCEPT ![a] = "active"]
    /\ count' = [count EXCEPT ![a] = 0]
    /\ waited' = [waited EXCEPT ![a] = 0]
    /\ fresh' = [fresh EXCEPT ![a] = FALSE]

\* One UPDATE of the row.
SetState(new, ttl) == state' = new /\ until' = ttl /\ warranted' = FALSE

InvalidateAll == cached' = NotCached /\ cachedFor' = 0

\* The streak is forgotten, unless Redis fails.
ResetStreak ==
    \/ /\ streak' = 0 /\ quiet' = 0
       /\ fresh' = [a \in Actors |-> FALSE] /\ warranted' = FALSE
    \/ Fails /\ UNCHANGED <<streakVars, fresh, warranted>>

\* transitionActive reads the row; a failed read counts as active.
Read(a) ==
    \E found \in {state} \cup (IF Fails THEN {"active"} ELSE {}) :
        seen' = [seen EXCEPT ![a] = found]

\* transition: the row is overwritten whatever it holds; disabling notifies.
Transition(a, new, ttl) ==
    \/ SetState(new, ttl) /\ Ends(a, IF new = "disabled" THEN "notify" ELSE "idle")
    \/ Fails /\ Ends(a, "idle") /\ UNCHANGED <<rowVars, warranted>>

----------------------------------------------------------------------------
(* Judgements of calls (Apply) and of quota probes.                        *)

\* A success, and a probe that finds quota (ClearRateLimited).
Success(a) ==
    /\ step[a] = "idle"
    /\ ResetStreak \/ (~isPool /\ UNCHANGED <<streakVars, fresh, warranted>>)
    /\ Read(a)
    /\ Goes(a, "activate")
    /\ UNCHANGED <<isPool, rowVars, cacheVars, count, waited>>

\* transitionActive: back to active unless the account was seen disabled.
Activate(a) ==
    /\ step[a] = "activate"
    /\ \/ /\ seen[a] # "disabled"
          /\ SetState("active", 0)
          /\ Ends(a, IF seen[a] = "active" THEN "idle" ELSE "notify")
       \/ /\ seen[a] = "disabled" \/ Fails
          /\ Ends(a, "idle")
          /\ UNCHANGED <<rowVars, warranted>>
    /\ UNCHANGED <<isPool, streakVars, cacheVars>>

\* notifyCritical, and InvalidateAll after an operator's change.
Notify(a) ==
    /\ step[a] = "notify"
    /\ InvalidateAll
    /\ Goes(a, "idle")
    /\ UNCHANGED <<isPool, rowVars, streakVars, readVars, warranted>>

\* A rate limit without a family, and a full quota window (MarkRateLimited).
RateLimited(a) ==
    /\ step[a] = "idle"
    /\ \E ttl \in RateLimits : Transition(a, "rate_limited", ttl)
    /\ UNCHANGED <<isPool, streakVars, cacheVars>>

\* A dead account, its pool's 401, and a failed probe (MarkDisabled, which
\* invalidates even if it could not write).
Dead(a) ==
    /\ step[a] = "idle"
    /\ \/ Transition(a, "disabled", 0)
       \/ Fails /\ Ends(a, "notify") /\ UNCHANGED <<rowVars, warranted>>
    /\ UNCHANGED <<isPool, streakVars, cacheVars>>

\* Mutant: only the first failure sets the time to live.
Bump_NoRenewal(a) ==
    /\ streak < MaxStreak
    /\ streak' = streak + 1
    /\ count' = [count EXCEPT ![a] = streak + 1]
    /\ quiet' = IF streak = 0 THEN StreakTTL ELSE quiet
    /\ fresh' = [fresh EXCEPT ![a] = TRUE]

\* bumpPoolFailureStreak: INCR, then EXPIRE; either may fail.
Bump(a) ==
    \/ /\ streak < MaxStreak
       /\ streak' = streak + 1
       /\ count' = [count EXCEPT ![a] = streak + 1]
       /\ \/ /\ quiet' = StreakTTL
             /\ fresh' = [fresh EXCEPT ![a] = TRUE]
          \/ /\ Fails
             /\ quiet' = IF streak = 0 THEN Forever ELSE quiet
             /\ fresh' = [fresh EXCEPT ![a] = FALSE]
    \/ /\ Fails
       /\ count' = [count EXCEPT ![a] = 0]
       /\ fresh' = [fresh EXCEPT ![a] = FALSE]
       /\ UNCHANGED streakVars

\* A pool passes on somebody else's error, or its upstream fails.
PoolFailure(a) ==
    /\ step[a] = "idle"
    /\ isPool
    /\ Bump(a)
    /\ waited' = [waited EXCEPT ![a] = 0]
    /\ \E next \in {"degradeIfStreak", "degrade"} : Goes(a, next)
    /\ UNCHANGED <<isPool, rowVars, cacheVars, seen, warranted>>

\* applyDegradedFor with the window the streak calls for.
Degrade(a) ==
    /\ \/ step[a] = "degrade"
       \/ step[a] = "degradeIfStreak" /\ count[a] >= Threshold
    /\ \/ /\ state' = "degraded"
          /\ until' = DegradeWindow(count[a])
          /\ warranted' = fresh[a]
       \/ Fails /\ UNCHANGED <<rowVars, warranted>>
    /\ Ends(a, "idle")
    /\ UNCHANGED <<isPool, streakVars, cacheVars>>

\* Below the threshold a pool's error is only recorded.
Tolerate(a) ==
    /\ step[a] = "degradeIfStreak"
    /\ count[a] < Threshold
    /\ Ends(a, "idle")
    /\ UNCHANGED <<isPool, rowVars, streakVars, cacheVars, warranted>>

----------------------------------------------------------------------------
(* Operators.                                                              *)

\* A toggle reads the account before it recovers or disables it.
Toggle(a) ==
    /\ step[a] = "idle"
    /\ seen' = [seen EXCEPT ![a] = state]
    /\ Goes(a, "toggle")
    /\ UNCHANGED <<isPool, rowVars, streakVars, cacheVars, count, waited, fresh, warranted>>

\* ManualRecover, by a toggle or an edit.
ManualRecover(a) ==
    /\ step[a] = "idle" \/ (step[a] = "toggle" /\ seen[a] = "disabled")
    /\ \/ SetState("active", 0) /\ Ends(a, "recovered")
       \/ Fails /\ Ends(a, "idle") /\ UNCHANGED <<rowVars, warranted>>
    /\ UNCHANGED <<isPool, streakVars, cacheVars>>

Recovered(a) ==
    /\ step[a] = "recovered"
    /\ ResetStreak
    /\ Goes(a, "notify")
    /\ UNCHANGED <<isPool, rowVars, cacheVars, seen, count, waited>>

\* ManualDisable, by a toggle or an edit.
ManualDisable(a) ==
    /\ step[a] = "idle" \/ (step[a] = "toggle" /\ seen[a] # "disabled")
    /\ Transition(a, "disabled", 0)
    /\ UNCHANGED <<isPool, streakVars, cacheVars>>

\* ClearRateLimitMarkers reads the account (and ends unless it is rate limited or
\* degraded) ...
ClearMarkers(a) ==
    /\ step[a] = "idle"
    /\ state \in {"rate_limited", "degraded"}
    /\ Goes(a, "markers")
    /\ UNCHANGED <<isPool, rowVars, streakVars, cacheVars, readVars, warranted>>

\* ... and goes on like a success.
Cleared(a) ==
    /\ step[a] = "markers"
    /\ ResetStreak
    /\ Read(a)
    /\ Goes(a, "activate")
    /\ UNCHANGED <<isPool, rowVars, cacheVars, count, waited>>

----------------------------------------------------------------------------
(* Selection reads the account through the route cache.                    *)

\* groupRouteSnapshot: on a miss it queries the database ...
Query(a) ==
    /\ step[a] = "idle"
    /\ cached = NotCached
    /\ seen' = [seen EXCEPT ![a] = state]
    /\ Goes(a, "load")
    /\ UNCHANGED <<isPool, rowVars, streakVars, cacheVars, count, waited, fresh, warranted>>

\* Mutant: a snapshot is kept until somebody invalidates it.
Store_Forever(a) ==
    /\ step[a] = "load"
    /\ cached' = seen[a] /\ cachedFor' = 0
    /\ Ends(a, "idle")
    /\ UNCHANGED <<isPool, rowVars, streakVars, warranted>>

\* ... and stores what it found, for CacheTTL.
Store(a) ==
    /\ step[a] = "load"
    /\ \/ cached' = seen[a] /\ cachedFor' = CacheTTL
       \/ Fails /\ UNCHANGED cacheVars
    /\ Ends(a, "idle")
    /\ UNCHANGED <<isPool, rowVars, streakVars, warranted>>

----------------------------------------------------------------------------
Less(n) == IF n = 0 THEN 0 ELSE n - 1

Degrading(a) == step[a] \in {"degrade", "degradeIfStreak"}

Tick ==
    /\ \A a \in Actors : Degrading(a) => waited[a] < DbTimeout
    /\ until' = Less(until)
    /\ quiet' = IF quiet = Forever THEN quiet ELSE Less(quiet)
    /\ streak' = IF quiet' = 0 THEN 0 ELSE streak
    /\ cachedFor' = Less(cachedFor)
    /\ cached' = IF cachedFor = 1 THEN NotCached ELSE cached
    /\ waited' = [a \in Actors |-> IF Degrading(a) THEN waited[a] + 1 ELSE waited[a]]
    /\ UNCHANGED <<isPool, state, warranted, step, seen, count, fresh>>

Judge(a) ==
    \/ Success(a) \/ Activate(a) \/ Notify(a)
    \/ RateLimited(a) \/ Dead(a) \/ PoolFailure(a) \/ Degrade(a) \/ Tolerate(a)

Operate(a) ==
    \/ Toggle(a) \/ ManualRecover(a) \/ Recovered(a) \/ ManualDisable(a)
    \/ ClearMarkers(a) \/ Cleared(a)

Select(a) == Query(a) \/ Store(a)

Next == (\E a \in Actors : Judge(a) \/ Operate(a) \/ Select(a)) \/ Tick

Spec == Init /\ [][Next]_vars

\* What was begun goes on, and time passes.
Fairness ==
    /\ WF_vars(Tick)
    /\ \A a \in Actors :
          WF_vars(\/ Activate(a) \/ Notify(a) \/ Recovered(a) \/ Cleared(a) \/ Store(a)
                  \/ Degrade(a) \/ Tolerate(a)
                  \/ step[a] = "toggle" /\ (ManualRecover(a) \/ ManualDisable(a)))
FairSpec == Spec /\ Fairness

----------------------------------------------------------------------------
(* Properties.                                                             *)

\* The streak that chose a degradation is remembered until the degradation
\* is over, whatever the delay of the write, so the next failure escalates;
\* only a reset forgets it earlier.
StreakOutlivesDegradation ==
    state = "degraded" /\ warranted /\ until > 0 => streak > 0 /\ quiet > until

\* A snapshot that shows a disabled account as usable does not stay.
StaleViewEnds ==
    <>[](state = "disabled") => <>[](cached \in {"disabled", NotCached})

\* No judgement or probe ends a disabled state: only ManualRecover does.
\* (What transitionActive and ManualDisable say of it.)
DisabledUntilRecovered ==
    [][state = "disabled" /\ state' # "disabled"
          => \E a \in Actors : step[a] # "recovered" /\ step'[a] = "recovered"]_vars
=============================================================================
