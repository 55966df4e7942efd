---------------------------- MODULE LeaderLease ----------------------------
(***************************************************************************)
(* Leader election between the instances of the core:                      *)
(* internal/cluster/leader.go, started and stopped by server.go.           *)
(*                                                                         *)
(* One Redis key names the leader and has a time to live.  Every instance  *)
(* runs a loop that acquires or renews the key each third of it and keeps  *)
(* the answer in a flag; the background loops read the flag, never the     *)
(* key.  A script is sent, executed by Redis and answered in three steps;  *)
(* MaxDelay is the longest time a call may take, from the moment the loop   *)
(* has a tick to serve until the flag is written, whatever takes it: the   *)
(* network, Redis or a paused process.  The first call is made before      *)
(* there is a ticker, so the first tick comes a period after its answer.   *)
(* An instance is named by its random id, so it starts once.               *)
(***************************************************************************)
EXTENDS Naturals, FiniteSets

CONSTANTS
    Instances,        \* instance ids
    Nobody,           \* the key does not exist
    TTL,              \* time to live of the key
    Period,           \* TTL / 3
    MaxDelay,         \* see above
    MaxErrors         \* bound: calls that fail

ASSUME LeaseAssumption ==
    /\ Nobody \notin Instances
    /\ TTL \in Nat \ {0} /\ Period \in Nat \ {0}
    /\ MaxDelay \in Nat /\ MaxErrors \in Nat

VARIABLES
    holder, ttl,      \* the key and its time to live, 0 without one
    process,          \* "new", "starting", "up", "stopping", "resigned", "down"
    isLeader,         \* the flag
    call,             \* tryAcquire: "none", "sent", or executed: "won", "lost"
    due,              \* time to the ticker's next tick, 0 without a ticker
    fired,            \* the ticker's channel holds a tick
    late,             \* time the loop has had something to do
    errors            \* calls that have failed

lease == <<holder, ttl>>
loop  == <<call, due, fired, late>>
vars  == <<lease, process, isLeader, loop, errors>>

TypeOK ==
    /\ holder \in Instances \cup {Nobody}
    /\ ttl \in 0 .. TTL
    /\ (ttl = 0) <=> (holder = Nobody)
    /\ process \in [Instances -> {"new", "starting", "up", "stopping", "resigned", "down"}]
    /\ isLeader \in [Instances -> BOOLEAN]
    /\ call \in [Instances -> {"none", "sent", "won", "lost"}]
    /\ due \in [Instances -> 0 .. Period]
    /\ fired \in [Instances -> BOOLEAN]
    /\ late \in [Instances -> 0 .. MaxDelay]
    /\ errors \in 0 .. MaxErrors

Init ==
    /\ holder = Nobody /\ ttl = 0
    /\ process = [i \in Instances |-> "new"]
    /\ isLeader = [i \in Instances |-> FALSE]
    /\ call = [i \in Instances |-> "none"]
    /\ due = [i \in Instances |-> 0]
    /\ fired = [i \in Instances |-> FALSE]
    /\ late = [i \in Instances |-> 0]
    /\ errors = 0

Alive(i) == process[i] \in {"starting", "up", "stopping", "resigned"}

\* The background loops run: the context they share is not cancelled.
Leads(i) == process[i] = "up" /\ isLeader[i]

----------------------------------------------------------------------------
(* The loop.                                                               *)

\* Start makes the first call at once and waits for it.
Start(i) ==
    /\ process[i] = "new"
    /\ process' = [process EXCEPT ![i] = "starting"]
    /\ call' = [call EXCEPT ![i] = "sent"]
    /\ UNCHANGED <<lease, isLeader, due, fired, late, errors>>

\* The loop takes a tick: tryAcquire sends its script.
Send(i) ==
    /\ process[i] = "up" /\ call[i] = "none" /\ fired[i]
    /\ call' = [call EXCEPT ![i] = "sent"]
    /\ fired' = [fired EXCEPT ![i] = FALSE]
    /\ UNCHANGED <<lease, process, isLeader, due, late, errors>>

\* Mutant: the holder's key is not renewed.
Acquire_NoRenewal(i) ==
    IF holder = Nobody
    THEN holder' = i /\ ttl' = TTL /\ call' = [call EXCEPT ![i] = "won"]
    ELSE /\ call' = [call EXCEPT ![i] = IF holder = i THEN "won" ELSE "lost"]
         /\ UNCHANGED lease

\* acquireScript: the key is free or the caller's own.
Acquire(i) ==
    IF holder \in {Nobody, i}
    THEN holder' = i /\ ttl' = TTL /\ call' = [call EXCEPT ![i] = "won"]
    ELSE call' = [call EXCEPT ![i] = "lost"] /\ UNCHANGED lease

\* Redis executes what was sent, also by a process that has died since.
Execute(i) ==
    /\ call[i] = "sent"
    /\ Acquire(i)
    /\ UNCHANGED <<process, isLeader, due, fired, late, errors>>

\* tryAcquire returns; after the first call the loop creates its ticker.
Answered(i) ==
    /\ call' = [call EXCEPT ![i] = "none"]
    /\ late' = [late EXCEPT ![i] = 0]
    /\ process' = [process EXCEPT ![i] = IF @ = "starting" THEN "up" ELSE @]
    /\ due' = [due EXCEPT ![i] = IF process[i] = "starting" THEN Period ELSE @]
    /\ UNCHANGED <<lease, fired>>

\* The answer is stored in the flag, also after Resign has cleared it.
Hear(i) ==
    /\ Alive(i) /\ call[i] \in {"won", "lost"}
    /\ isLeader' = [isLeader EXCEPT ![i] = call[i] = "won"]
    /\ Answered(i)
    /\ UNCHANGED errors

\* Mutant: an instance that cannot reach Redis stays leader.
Fails_KeepsFlag(i) ==
    /\ Alive(i) /\ call[i] # "none" /\ errors < MaxErrors
    /\ errors' = errors + 1
    /\ Answered(i)
    /\ UNCHANGED isLeader

\* The call fails, executed or not: leadership is given up.
Fails(i) ==
    /\ Alive(i) /\ call[i] # "none" /\ errors < MaxErrors
    /\ isLeader' = [isLeader EXCEPT ![i] = FALSE]
    /\ errors' = errors + 1
    /\ Answered(i)

Loop(i) == Start(i) \/ Send(i) \/ Execute(i) \/ Hear(i) \/ Fails(i)

----------------------------------------------------------------------------
(* The end of an instance.                                                 *)

\* Shutdown cancels the loops, a call in flight excepted; Resign clears the
\* flag.
Shutdown(i) ==
    /\ process[i] = "up"
    /\ process' = [process EXCEPT ![i] = "stopping"]
    /\ isLeader' = [isLeader EXCEPT ![i] = FALSE]
    /\ UNCHANGED <<lease, loop, errors>>

\* releaseScript deletes the caller's own key; an error is ignored.
Release(i) ==
    /\ process[i] = "stopping"
    /\ process' = [process EXCEPT ![i] = "resigned"]
    /\ IF holder = i THEN holder' = Nobody /\ ttl' = 0 ELSE UNCHANGED lease
    /\ UNCHANGED <<isLeader, loop, errors>>

\* The process ends, by itself or killed.
Exit(i) ==
    /\ Alive(i)
    /\ process' = [process EXCEPT ![i] = "down"]
    /\ isLeader' = [isLeader EXCEPT ![i] = FALSE]
    /\ UNCHANGED <<lease, loop, errors>>

Ends(i) == Shutdown(i) \/ Release(i) \/ Exit(i)

----------------------------------------------------------------------------
(* Time.                                                                   *)

Less(n) == IF n = 0 THEN 0 ELSE n - 1

\* The loop has a call under way or a tick to serve.
Busy(i) == process[i] \in {"starting", "up"} /\ (call[i] # "none" \/ fired[i])

\* The ticker fires each period; a tick that finds one in the channel is lost.
Tick ==
    /\ \A i \in Instances : Busy(i) => late[i] < MaxDelay
    /\ ttl' = Less(ttl)
    /\ holder' = IF ttl <= 1 THEN Nobody ELSE holder
    /\ due' = [i \in Instances |-> IF process[i] = "up" /\ due[i] = 1 THEN Period ELSE Less(due[i])]
    /\ fired' = [i \in Instances |-> fired[i] \/ (process[i] = "up" /\ due[i] = 1)]
    /\ late' = [i \in Instances |-> IF Busy(i) THEN late[i] + 1 ELSE late[i]]
    /\ UNCHANGED <<process, isLeader, call, errors>>

Next ==
    \/ \E i \in Instances : Loop(i) \/ Ends(i)
    \/ Tick

Spec == Init /\ [][Next]_vars

Fairness ==
    /\ WF_vars(Tick)
    /\ \A i \in Instances : WF_vars(Send(i)) /\ WF_vars(Execute(i)) /\ WF_vars(Hear(i))

FairSpec == Spec /\ Fairness

----------------------------------------------------------------------------
(* Properties.                                                             *)

\* At any time the background loops of at most one instance see themselves
\* as the leader's (the first sentence of leader.go), a lease that is renewed
\* late, lost answers and a dead holder's calls included.
OneLeader == \A i, j \in Instances : Leads(i) /\ Leads(j) => i = j

\* As long as an instance stays up, some instance becomes leader and one
\* stays so: a dead holder's key runs out and the renewals keep the key.
Succession ==
    \A i \in Instances : <>[](process[i] = "up") => <>[](\E j \in Instances : Leads(j))
=============================================================================
