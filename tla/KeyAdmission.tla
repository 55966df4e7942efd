---------------------------- MODULE KeyAdmission ---------------------------
(***************************************************************************)
(* How an API key admits requests: ValidateAPIKey of internal/auth/        *)
(* apikey.go with its two caches, and the slots that acquireClientQuota of *)
(* internal/plugin/quota.go takes for the user and the key (scheduler/     *)
(* concurrency.go).                                                        *)
(*                                                                         *)
(* One key, used by several clients through several replicas of the server *)
(* which share a database and Redis.  A replica looks for the verdict on   *)
(* the key in its own cache, then in Redis, then computes it from the      *)
(* database and stores it in both; each copy lives for TTL.  The key       *)
(* changes meanwhile: it is switched off and on, its member's quota is     *)
(* used up or reset, a new period begins.  The first reader in a new       *)
(* period moves the member's row there.  An edit of the team invalidates   *)
(* the verdict, in the cache of the replica that makes it and then in      *)
(* Redis; a charge does so when the balance has become negative, a switch  *)
(* of the key never.  The selects that load a key are one step, and so are *)
(* a write and the local invalidation after it.                            *)
(*                                                                         *)
(* The member's quota stands for those of the key and the department too,  *)
(* and the switch for the states of key, user and group.  A request with   *)
(* its verdict takes a slot of the user, then one of the key, and gives    *)
(* them back in reverse order.  A command about a slot that fails lets the *)
(* request pass, or leaves the slot behind: with a client that has gone,   *)
(* and with any error of Redis.                                            *)
(***************************************************************************)
EXTENDS Integers, FiniteSets

CONSTANTS
    Clients,          \* each sends one request after another
    Replicas,
    Writers,          \* replicas where the key is charged and its team edited
    At,               \* At[r]: the replica that serves r
    TTL,              \* lifetime of a cached verdict, local or in Redis, in ticks
    Lag,              \* bound: ticks between reading a verdict and storing it
    Quota,            \* what the member may use in one period
    Limits,           \* max_concurrency of the user and of the key
    Leaving,          \* clients that may go away
    Failing,          \* clients whose commands about slots may fail
    Slow,             \* clients whose slot may reach the end of its lifetime
    MaxUsed,          \* bound: what is charged
    MaxPeriods        \* bound: how many periods begin

ASSUME KeyAdmissionAssumption ==
    /\ IsFiniteSet(Clients)
    /\ Writers \subseteq Replicas
    /\ At \in [Clients -> Replicas]
    /\ TTL \in Nat \ {0} /\ Lag \in Nat
    /\ Quota \in Nat \ {0}
    /\ Limits \subseteq [user : Nat \ {0}, key : Nat \ {0}]
    /\ Leaving \subseteq Clients /\ Failing \subseteq Clients /\ Slow \subseteq Clients
    /\ MaxUsed \in Nat /\ MaxPeriods \in Nat

VARIABLES
    \* the database, and the date
    enabled,          \* is the key switched on?
    member,           \* the member's used_quota, period_used_base, period_start
    period,           \* the period the date is in
    \* the caches
    local,            \* local[i]: the verdict in the cache of replica i
    shared,           \* the verdict in Redis
    clearing,         \* replicas that have invalidated their cache, not Redis
    \* a request
    pc,               \* where it is
    verdict,          \* what it was told
    seen,             \* what it has read of the member, and when
    lag,              \* ticks since it read
    cancelled,        \* ctx.Err() # nil
    \* Redis
    limits,           \* what the key's verdict says of concurrency
    users, keys,      \* requests with a slot of the user, of the key
    overdue,          \* requests whose slots have reached the end of their lifetime
    \* history
    free,             \* requests on their way that a failing command has let pass
    kept,             \* requests whose slots a failing command has not given back
    since             \* ticks since the verdict on the key last changed

rowVars   == <<enabled, member, period>>
cacheVars == <<local, shared, clearing>>
readVars  == <<verdict, seen, lag>>
slotVars  == <<limits, users, keys, overdue, free, kept>>
vars == <<rowVars, cacheVars, pc, readVars, cancelled, slotVars, since>>

Verdicts == {"ok", "off", "quota"}
Entries  == [verdict : Verdicts, life : 0 .. TTL]
Rows     == [used : Nat, base : Nat, start : Nat]
Reads    == [used : Nat, start : Nat, now : Nat]
Reading  == {"keep", "roll", "store", "share"}
Stages   == Reading \cup {"local", "shared", "query", "user", "key", "deny", "run", "done"}

\* How old a verdict may be: two lifetimes, each after a delay.  A copy is used in
\* the tick that stores it and in TTL - 1 more.
MaxAge == 2 * (TTL - 1 + Lag)

TypeOK ==
    /\ enabled \in BOOLEAN /\ member \in Rows /\ period \in Nat
    /\ local \in [Replicas -> Entries] /\ shared \in Entries
    /\ clearing \subseteq Replicas
    /\ pc \in [Clients -> Stages]
    /\ verdict \in [Clients -> Verdicts \cup {"none"}]
    /\ seen \in [Clients -> Reads]
    /\ lag \in [Clients -> 0 .. Lag]
    /\ cancelled \in [Clients -> BOOLEAN]
    /\ limits \in Limits
    /\ users \subseteq Clients /\ keys \subseteq Clients /\ overdue \subseteq Clients
    /\ free \subseteq Clients /\ kept \subseteq Clients
    /\ since \in 0 .. MaxAge + 1

Expired == [verdict |-> "ok", life |-> 0]

\* Mutant: a lifetime off by one.
Entry_OffByOne(v) == [verdict |-> v, life |-> TTL + 1]

Entry(v) == [verdict |-> v, life |-> TTL]

NoRow  == [used |-> 0, base |-> 0, start |-> 0]
NoRead == [used |-> 0, start |-> 0, now |-> 0]

Init ==
    /\ enabled = TRUE /\ member = NoRow /\ period = 0
    /\ local = [i \in Replicas |-> Expired] /\ shared = Expired
    /\ clearing = {}
    /\ pc = [r \in Clients |-> "local"]
    /\ verdict = [r \in Clients |-> "none"]
    /\ seen = [r \in Clients |-> NoRead]
    /\ lag = [r \in Clients |-> 0]
    /\ cancelled = [r \in Clients |-> FALSE]
    /\ limits \in Limits
    /\ users = {} /\ keys = {} /\ overdue = {}
    /\ free = {} /\ kept = {}
    /\ since = 0

\* The period of a row has passed; its use counts from zero again.
Rolled(m) == m.start < period

Used(m) == IF Rolled(m) \/ m.used < m.base THEN 0 ELSE m.used - m.base

\* The verdict on the key as the database has it now.
Current ==
    IF ~enabled THEN "off"
    ELSE IF Used(member) >= Quota THEN "quota"
    ELSE "ok"

----------------------------------------------------------------------------
(* What changes a verdict. *)

Changes == since' = IF Current' = Current THEN since ELSE 0

\* An operator switches the key, its user or its group; no cache is cleared.
Switch ==
    /\ enabled' = ~enabled
    /\ UNCHANGED <<member, period, cacheVars, pc, readVars, cancelled, slotVars>>
    /\ Changes

\* InvalidateAPIKeyCacheByHash on replica i: its own cache first.
Invalidate(i) ==
    /\ local' = [local EXCEPT ![i] = Expired]
    /\ clearing' = clearing \cup {i}

\* A usage record of the key is charged; the hook of the recorder invalidates if
\* the balance is negative now.
Charge(i) ==
    /\ member.used < MaxUsed /\ i \notin clearing
    /\ member' = [member EXCEPT !.used = @ + 1]
    /\ Invalidate(i) \/ UNCHANGED <<local, clearing>>
    /\ UNCHANGED <<enabled, period, shared, pc, readVars, cancelled, slotVars>>
    /\ Changes

\* The team's owner switches the member on replica i.
Edit(i) ==
    /\ i \notin clearing
    /\ enabled' = ~enabled
    /\ Invalidate(i)
    /\ UNCHANGED <<member, period, shared, pc, readVars, cancelled, slotVars>>
    /\ Changes

\* ResetPeriod: the owner lets the member's period count from here.
Reset(i) ==
    /\ i \notin clearing
    /\ member' = [member EXCEPT !.base = member.used, !.start = period]
    /\ Invalidate(i)
    /\ UNCHANGED <<enabled, period, shared, pc, readVars, cancelled, slotVars>>
    /\ Changes

\* The second half of the invalidation; it may fail.
ClearShared(i) ==
    /\ i \in clearing
    /\ shared' \in {Expired, shared}
    /\ clearing' = clearing \ {i}
    /\ UNCHANGED <<rowVars, local, pc, readVars, cancelled, slotVars, since>>

NextPeriod ==
    /\ period < MaxPeriods
    /\ period' = period + 1
    /\ UNCHANGED <<enabled, member, cacheVars, pc, readVars, cancelled, slotVars>>
    /\ Changes

Older(e) == IF e.life <= 1 THEN Expired ELSE [e EXCEPT !.life = @ - 1]

\* Time passes; the steps between reading and storing take at most Lag.
Tick ==
    /\ \A r \in Clients : pc[r] \in Reading => lag[r] < Lag
    /\ since' = IF since > MaxAge THEN since ELSE since + 1
    /\ lag' = [r \in Clients |-> IF pc[r] \in Reading THEN lag[r] + 1 ELSE lag[r]]
    /\ local' = [i \in Replicas |-> Older(local[i])]
    /\ shared' = Older(shared)
    /\ UNCHANGED <<rowVars, clearing, pc, verdict, seen, cancelled, slotVars>>

----------------------------------------------------------------------------
(* ValidateAPIKey. *)

\* r goes on from one stage to another.
Step(r, from, to) == pc[r] = from /\ pc' = [pc EXCEPT ![r] = to]

\* r learns a verdict.
Learn(r, v) == /\ verdict' = [verdict EXCEPT ![r] = v]
               /\ lag' = [lag EXCEPT ![r] = 0]

\* r is told its verdict, and goes for its slots or is refused.
Told(r, from, v) ==
    /\ Step(r, from, IF v = "ok" THEN "user" ELSE "done")
    /\ Learn(r, "none")

ReadLocal(r) ==
    /\ IF local[At[r]].life > 0
       THEN Told(r, "local", local[At[r]].verdict)
       ELSE Step(r, "local", "shared") /\ UNCHANGED <<verdict, lag>>
    /\ UNCHANGED <<rowVars, cacheVars, seen, cancelled, slotVars, since>>

\* Redis has the verdict, or not, or does not answer.
ReadShared(r) ==
    /\ \/ shared.life > 0 /\ Step(r, "shared", "keep") /\ Learn(r, shared.verdict)
       \/ Step(r, "shared", "query") /\ UNCHANGED <<verdict, lag>>
    /\ UNCHANGED <<rowVars, cacheVars, seen, cancelled, slotVars, since>>

\* storeAPIKeyLocalCache: a verdict from Redis gets a whole lifetime here.
Keep(r) ==
    /\ Told(r, "keep", verdict[r])
    /\ local' = [local EXCEPT ![At[r]] = Entry(verdict[r])]
    /\ UNCHANGED <<rowVars, shared, clearing, seen, cancelled, slotVars, since>>

\* One query loads the key with its member.  The member is not looked at if the
\* key is off; the row of a past period is to be moved on.
Query(r) ==
    /\ Step(r, "query", IF enabled /\ Rolled(member) THEN "roll" ELSE "store")
    /\ Learn(r, Current)
    /\ seen' = [seen EXCEPT ![r] =
                 IF enabled /\ Rolled(member)
                 THEN [used |-> member.used, start |-> member.start, now |-> period]
                 ELSE NoRead]
    /\ UNCHANGED <<rowVars, cacheVars, cancelled, slotVars, since>>

\* A failing query is not cached.
QueryFails(r) ==
    /\ Step(r, "query", "done")
    /\ UNCHANGED <<rowVars, cacheVars, readVars, cancelled, slotVars, since>>

\* Mutant: the row is moved whatever it is now.
Roll_Unconditional(r) ==
    /\ Step(r, "roll", "store")
    /\ member' = [member EXCEPT !.base = seen[r].used, !.start = seen[r].now]
    /\ seen' = [seen EXCEPT ![r] = NoRead]
    /\ UNCHANGED <<enabled, period, cacheVars, verdict, lag, cancelled, slotVars>>
    /\ Changes

\* evaluateMember moves the row to this period, unless another reader has.
\* The write may fail, which is only logged.
Roll(r) ==
    /\ Step(r, "roll", "store")
    /\ \/ /\ member.start = seen[r].start
          /\ member' = [member EXCEPT !.base = seen[r].used, !.start = seen[r].now]
       \/ UNCHANGED member
    /\ seen' = [seen EXCEPT ![r] = NoRead]
    /\ UNCHANGED <<enabled, period, cacheVars, verdict, lag, cancelled, slotVars>>
    /\ Changes

\* cacheAPIKeyResult: here, and in Redis if Redis answers.
Store(r) ==
    /\ Step(r, "store", "share")
    /\ local' = [local EXCEPT ![At[r]] = Entry(verdict[r])]
    /\ UNCHANGED <<rowVars, shared, clearing, readVars, cancelled, slotVars, since>>

Share(r) ==
    /\ Told(r, "share", verdict[r])
    /\ shared' \in {Entry(verdict[r]), shared}
    /\ UNCHANGED <<rowVars, local, clearing, seen, cancelled, slotVars, since>>

----------------------------------------------------------------------------
(* acquireClientQuota. *)

\* acquireSlotScript: overdue slots are purged, then there is room or not.
Young(slots) == slots \ overdue

\* Mutant: one slot too many.
Room_OffByOne(slots, max) == Cardinality(Young(slots)) <= max

Room(slots, max) == Cardinality(Young(slots)) < max

Uncached == UNCHANGED <<rowVars, cacheVars, readVars, cancelled, since>>

\* A command with the context of a request whose client is gone fails, and one
\* may fail for Redis.
CommandFails(r) == cancelled[r] \/ r \in Failing

\* The script takes a slot of the ones there are, if there is room.
Acquired(slots, max, r) == IF Room(slots, max) THEN Young(slots) \cup {r} ELSE Young(slots)

\* A script that fails, run or not, lets the request pass.
AcquireUser(r) ==
    /\ \/ /\ ~cancelled[r]
          /\ users' = Acquired(users, limits.user, r)
          /\ Step(r, "user", IF Room(users, limits.user) THEN "key" ELSE "done")
          /\ UNCHANGED free
       \/ /\ CommandFails(r)
          /\ users' \in {users, Acquired(users, limits.user, r)}
          /\ Step(r, "user", "key")
          /\ free' = free \cup {r}
    /\ UNCHANGED <<limits, keys, overdue, kept>> /\ Uncached

AcquireKey(r) ==
    /\ \/ /\ ~cancelled[r]
          /\ keys' = Acquired(keys, limits.key, r)
          /\ Step(r, "key", IF Room(keys, limits.key) THEN "run" ELSE "deny")
          /\ UNCHANGED free
       \/ /\ CommandFails(r)
          /\ keys' \in {keys, Acquired(keys, limits.key, r)}
          /\ Step(r, "key", "run")
          /\ free' = free \cup {r}
    /\ UNCHANGED <<limits, users, overdue, kept>> /\ Uncached

\* Mutant: the user's slot is kept.
Deny_Keeps(r) ==
    /\ Step(r, "deny", "done")
    /\ UNCHANGED slotVars /\ Uncached

\* The key has no slot: the one of the user is given back, with the context of
\* the request.
Deny(r) ==
    /\ Step(r, "deny", "done")
    /\ \/ ~cancelled[r] /\ users' = users \ {r} /\ UNCHANGED kept
       \/ CommandFails(r) /\ users' \in {users, users \ {r}} /\ kept' = kept \cup {r}
    /\ free' = free \ {r}
    /\ UNCHANGED <<limits, keys, overdue>> /\ Uncached

\* The request ends, and its slots are given back even if it is cancelled.
Release(r) ==
    /\ Step(r, "run", "done")
    /\ \/ keys' = keys \ {r} /\ users' = users \ {r} /\ UNCHANGED kept
       \/ /\ r \in Failing
          /\ keys' \in {keys, keys \ {r}} /\ users' \in {users, users \ {r}}
          /\ kept' = kept \cup {r}
    /\ free' = free \ {r}
    /\ UNCHANGED <<limits, overdue>> /\ Uncached

\* The client goes away.
Cancel(r) ==
    /\ r \in Leaving /\ pc[r] \in {"user", "key", "deny", "run"}
    /\ ~cancelled[r]
    /\ cancelled' = [cancelled EXCEPT ![r] = TRUE]
    /\ UNCHANGED <<rowVars, cacheVars, pc, readVars, slotVars, since>>

\* A slot reaches the end of its lifetime: its request is long, or has leaked it.
Outlive(r) ==
    /\ r \in users \cup keys
    /\ (r \in Slow /\ pc[r] = "run") \/ pc[r] = "done"
    /\ r \notin overdue
    /\ overdue' = overdue \cup {r}
    /\ UNCHANGED <<rowVars, cacheVars, pc, readVars, cancelled, limits, users, keys, free, kept, since>>

\* The client's next request, with a slot id of its own.
Again(r) ==
    /\ r \notin users \cup keys
    /\ Step(r, "done", "local")
    /\ cancelled' = [cancelled EXCEPT ![r] = FALSE]
    /\ overdue' = overdue \ {r} /\ kept' = kept \ {r}
    /\ UNCHANGED <<rowVars, cacheVars, readVars, limits, users, keys, free, since>>

Validate(r) == \/ ReadLocal(r) \/ ReadShared(r) \/ Keep(r) \/ Query(r) \/ QueryFails(r)
               \/ Roll(r) \/ Store(r) \/ Share(r)

Slots(r) == \/ AcquireUser(r) \/ AcquireKey(r) \/ Deny(r) \/ Release(r)
            \/ Cancel(r) \/ Outlive(r) \/ Again(r)

Next ==
    \/ Switch \/ NextPeriod \/ Tick
    \/ \E i \in Writers : Charge(i) \/ Edit(i) \/ Reset(i) \/ ClearShared(i)
    \/ \E r \in Clients : Validate(r) \/ Slots(r)

Spec == Init /\ [][Next]_vars

----------------------------------------------------------------------------
(* Properties. *)

\* A request is told something else than the database would tell it only for
\* two lifetimes (and the delays of two readers) after the verdict has changed:
\* a verdict that Redis has kept for one lifetime is kept by a replica for
\* another.  (apikey.go speaks of one lifetime, TTL.)
Answer(r) == IF pc[r] = "local" THEN local[At[r]].verdict ELSE verdict[r]

Answered(r) == pc[r] \in {"local", "keep", "share"} /\ pc'[r] \in {"user", "done"}

VerdictsAge ==
    [][\A r \in Clients : Answered(r) /\ Answer(r) # Current => since <= MaxAge]_vars

\* The use that a member's period counts from is fixed once for the period,
\* however many readers find the row in the period before; only a reset of the
\* owner changes it again.
PeriodBaseFixed ==
    [][member'.base # member.base =>
         member'.start # member.start \/ \E i \in Writers : Reset(i)]_vars

\* There are never more requests than the limits allow, those that a failing
\* command has let pass and those whose slots have run out not counted.
Counted(stages) == {r \in Clients : pc[r] \in stages /\ r \notin free \cup overdue}

WithinLimits ==
    /\ Cardinality(Counted({"key", "deny", "run"})) <= limits.user
    /\ Cardinality(Counted({"run"})) <= limits.key

\* A request that is over, admitted or not, even one that a failing command has
\* let pass, leaves no slot behind, unless the command that gives it back fails:
\* for Redis, or as its client has gone while the key refuses it.
SlotsReturned ==
    \A r \in Clients : pc[r] = "done" /\ r \notin kept => r \notin users \cup keys
=============================================================================
