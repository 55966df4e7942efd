---------------------------- MODULE HostBilling ----------------------------
(***************************************************************************)
(* How plugins spend a user's balance through the Host: the budget gate    *)
(* in front of a task's submission (internal/plugin/host_budget.go) and    *)
(* the synchronous charges that follow it (recordHostForwardUsage and      *)
(* recordUsage of internal/plugin/host_service.go, RecordSync and          *)
(* RecordSyncCharge of internal/billing/recorder.go).                      *)
(*                                                                         *)
(* One account pays.  Its own tasks, or those of the members it pays for,  *)
(* pass the gate when they are submitted with an estimate: the quotas of   *)
(* the submitter and of its department come with its identity, from a      *)
(* cache or the database; then the costs estimated for its unfinished      *)
(* tasks are read, and the payer's balance after that.  A task that passes *)
(* has its own estimate stored, which is the reservation.  When the        *)
(* upstream has delivered, the plugin settles: a call charges the cost     *)
(* under the task's request id and returns the id of the usage row.        *)
(* Replies get lost and plugins call again, and several calls may settle   *)
(* one task at the same time.  Products (a rendered document) are charged on *)
(* delivery, without the gate, under their idempotency key.                *)
(*                                                                         *)
(* A task costs what was estimated for it.  How tasks move is the subject  *)
(* of TaskLifecycle and is left open here, and so is whether a plugin      *)
(* completes only what it has settled.  The metadata-only paths that are   *)
(* never charged, the check that a request id is not reused for another    *)
(* model or endpoint, and calls without a request id are left out.         *)
(***************************************************************************)
EXTENDS Integers, FiniteSets

CONSTANTS
    Tasks,            \* asynchronous tasks; each is also its request id
    Products,         \* idempotency keys of products
    Submitters,       \* the payer, or members it pays for
    Submitter,        \* Submitter[t]: whose task t is
    Cost,             \* Cost[i]: the user price of a task or product
    Holders,          \* members and departments that have a quota
    Draws,            \* Draws[s]: whose quotas s draws from, its own and its department's
    Flaky,            \* tasks the upstream may not take at once
    Calls,            \* settlement calls
    Settles,          \* Settles[c]: the task or product that c settles
    Balances,         \* what the payer may have at first
    Quotas            \* what may be left of the quotas at first

Ids == Tasks \cup Products

ASSUME HostBillingAssumption ==
    /\ Tasks \cap Products = {} /\ IsFiniteSet(Tasks)
    /\ Submitter \in [Tasks -> Submitters]
    /\ Cost \in [Ids -> Nat \ {0}]
    /\ Draws \in [Submitters -> SUBSET Holders] /\ Flaky \subseteq Tasks
    /\ Settles \in [Calls -> Ids]
    /\ Balances \subseteq Nat /\ Quotas \subseteq [Holders -> Nat]

VARIABLES
    \* the database
    balance,          \* users.balance of the payer
    quota,            \* quota[h]: what is left of h's quota
    task,             \* task[t]: its status
    estimated,        \* estimated[t]: tasks.estimated_cost
    rows,             \* request ids that have a row in usage_logs
    \* identities
    cached,           \* cached[s]: the quotas as they came with s's identity
    \* submissions
    gate,             \* gate[t]: where t's submission is
    seen,             \* seen[t]: the quotas and the reservations it has read
    \* settlements
    call,             \* call[c]: where c is
    result,           \* result[c]: what it returned
    window,           \* window[i]: how often i entered the account's window cost
    \* history
    charges,          \* charges[i]: how often i was taken from the balance
    overspent,        \* has the payer spent past the gate?
    overdrawn         \* quotas that have been spent past the gate

taskVars == <<task, estimated, cached, gate, seen>>
callVars == <<call, result, window>>
bookVars == <<balance, quota, rows, charges>>
vars == <<taskVars, callVars, bookVars, overspent, overdrawn>>

InFlight == {"pending", "processing", "retrying", "cancelling"}
Stages   == {"idle", "reserved", "balance", "persist", "sent", "rejected"}
Results  == {"none", "row", "error"}

Nothing  == [quota |-> [h \in Holders |-> 0], reserved |-> 0]

\* What tasks may have stored as their estimates.
Estimates == [Tasks -> {0} \cup {Cost[t] : t \in Tasks}]

\* The sum of the amounts f over S is the number of their units.
Units(f, S) == UNION {{t} \X (1 .. f[t]) : t \in S}
Total(f, S) == Cardinality(Units(f, S))

TypeOK ==
    /\ balance \in Int /\ quota \in [Holders -> Nat]
    /\ task \in [Tasks -> InFlight \cup {"completed", "failed"}]
    /\ estimated \in Estimates
    /\ rows \subseteq Ids
    /\ cached \in [Submitters -> [Holders -> Nat]]
    /\ gate \in [Tasks -> Stages]
    /\ seen \in [Tasks -> [quota : [Holders -> Nat], reserved : Nat]]
    /\ call \in [Calls -> {"idle", "lookup", "insert", "again", "window", "done"}]
    /\ result \in [Calls -> Results]
    /\ window \in [Ids -> Nat] /\ charges \in [Ids -> Nat]
    /\ overspent \in BOOLEAN /\ overdrawn \subseteq Holders

Init ==
    /\ balance \in Balances
    /\ quota \in Quotas
    /\ cached = [s \in Submitters |-> quota]
    /\ task = [t \in Tasks |-> "pending"]
    /\ estimated = [t \in Tasks |-> 0]
    /\ rows = {}
    /\ gate = [t \in Tasks |-> "idle"]
    /\ seen = [t \in Tasks |-> Nothing]
    /\ call = [c \in Calls |-> "idle"]
    /\ result = [c \in Calls |-> "none"]
    /\ window = [i \in Ids |-> 0]
    /\ charges = [i \in Ids |-> 0]
    /\ overspent = FALSE
    /\ overdrawn = {}

\* The quotas that the cost of i is taken from.  A product is charged to none.
Drawn(i) == {h \in Holders : i \in Tasks /\ h \in Draws[Submitter[i]]}

\* Tasks that passed the gate, will be charged, and are not charged yet.
Owed == {t \in Tasks : /\ gate[t] \in {"persist", "sent"}
                       /\ task[t] \in InFlight /\ t \notin rows}

----------------------------------------------------------------------------
(* Tasks, as the task manager and the plugin move them. *)

\* A task is dispatched, yields and is dispatched again, or is being cancelled.
Moves == {<<"pending", "processing">>, <<"processing", "retrying">>,
          <<"retrying", "processing">>, <<"processing", "cancelling">>}

Move(t) ==
    /\ \E s \in InFlight : <<task[t], s>> \in Moves /\ task' = [task EXCEPT ![t] = s]
    /\ UNCHANGED <<estimated, cached, gate, seen, callVars, bookVars, overspent, overdrawn>>

\* The plugin completes a task; whether it has a usage id is not looked at.
Complete(t) ==
    /\ task[t] = "processing"
    /\ task' = [task EXCEPT ![t] = "completed"]
    /\ UNCHANGED <<estimated, cached, gate, seen, callVars, bookVars, overspent, overdrawn>>

\* A task is rejected, cancelled, out of retries or swept.
Fail(t) ==
    /\ task[t] \in InFlight
    /\ task' = [task EXCEPT ![t] = "failed"]
    /\ UNCHANGED <<estimated, cached, gate, seen, callVars, bookVars, overspent, overdrawn>>

----------------------------------------------------------------------------
(* The gate of a submission. *)

Exhausted(t, quotas) == \E h \in Drawn(t) : quotas[h] = 0

\* ResolveTeamIdentity: from the cache, or from the database and into the cache.
Resolve(t, quotas) ==
    /\ quotas \in {cached[Submitter[t]], quota}
    /\ cached' = [cached EXCEPT ![Submitter[t]] = quotas]

\* Other requests, such as a product's, load identities as well.
LoadIdentity(s) ==
    /\ cached' = [cached EXCEPT ![s] = quota]
    /\ UNCHANGED <<task, estimated, gate, seen, callVars, bookVars, overspent, overdrawn>>

\* resolveHostForwardIdentity loads the member with its department, and refuses
\* if a quota is exhausted.  A quota that has been charged since it was loaded
\* lets more pass than is left.
LoadSubmitter(t) ==
    /\ task[t] = "processing" /\ gate[t] = "idle"
    /\ \E quotas \in {cached[Submitter[t]], quota} :
          /\ Resolve(t, quotas)
          /\ IF Exhausted(t, quotas)
             THEN gate' = [gate EXCEPT ![t] = "rejected"] /\ UNCHANGED seen
             ELSE /\ gate' = [gate EXCEPT ![t] = "reserved"]
                  /\ seen' = [seen EXCEPT ![t].quota = quotas]
          /\ overdrawn' = overdrawn \cup {h \in Drawn(t) : quotas[h] # quota[h]}
    /\ UNCHANGED <<task, estimated, callVars, bookVars, overspent>>

\* A submission without an estimate passes, and reserves nothing; the upstream
\* takes it or not.
SendUnpriced(t) ==
    /\ gate[t] = "reserved"
    /\ \/ gate' = [gate EXCEPT ![t] = "sent"] /\ UNCHANGED task
       \/ /\ t \in Flaky /\ task[t] = "processing"
          /\ gate' = [gate EXCEPT ![t] = "idle"]
          /\ task' = [task EXCEPT ![t] = "retrying"]
    /\ seen' = [seen EXCEPT ![t] = Nothing]
    /\ overspent' = TRUE /\ overdrawn' = overdrawn \cup Drawn(t)
    /\ UNCHANGED <<estimated, cached, callVars, bookVars>>

\* reservedInFlightCost: the estimates of the submitter's other unfinished tasks.
Reservations(t) ==
    Total(estimated, {u \in Tasks \ {t} : Submitter[u] = Submitter[t] /\ task[u] \in InFlight})

\* Two submissions overlap if one counts the reservations before the other has
\* stored its own; another submitter's reservations are not counted at all.
Unseen(t) == {u \in Tasks \ {t} :
                \/ gate[u] \in {"balance", "persist"}
                \/ u \in Owed /\ Submitter[u] # Submitter[t]}

ReadReservations(t) ==
    /\ gate[t] = "reserved"
    /\ seen' = [seen EXCEPT ![t].reserved = Reservations(t)]
    /\ gate' = [gate EXCEPT ![t] = "balance"]
    /\ overspent' = (overspent \/ Unseen(t) # {})
    /\ overdrawn' = overdrawn \cup {h \in Drawn(t) : \E u \in Unseen(t) : h \in Drawn(u)}
    /\ UNCHANGED <<task, estimated, cached, callVars, bookVars>>

\* Mutant: the balance has to cover the reservations only.
Sufficient_WithoutOwn(t) ==
    /\ balance - seen[t].reserved >= 0
    /\ \A h \in Drawn(t) : seen[t].quota[h] - seen[t].reserved - Cost[t] >= 0

\* Mutant: reservations do not count against the quota.
Sufficient_FreeQuota(t) ==
    /\ balance - seen[t].reserved - Cost[t] >= 0
    /\ \A h \in Drawn(t) : seen[t].quota[h] - Cost[t] >= 0

\* evaluateBudget: the balance and the smallest of the quotas must cover the
\* reservations and this task.
Sufficient(t) ==
    /\ balance - seen[t].reserved - Cost[t] >= 0
    /\ \A h \in Drawn(t) : seen[t].quota[h] - seen[t].reserved - Cost[t] >= 0

ReadBalance(t) ==
    /\ gate[t] = "balance"
    /\ gate' = [gate EXCEPT ![t] = IF Sufficient(t) THEN "persist" ELSE "rejected"]
    /\ seen' = [seen EXCEPT ![t] = Nothing]
    /\ UNCHANGED <<task, estimated, cached, callVars, bookVars, overspent, overdrawn>>

\* persistTaskEstimatedCost stores the reservation; a failure is only logged.
Persist(t) ==
    \/ /\ estimated' = [estimated EXCEPT ![t] = Cost[t]]
       /\ UNCHANGED <<overspent, overdrawn>>
    \/ /\ overspent' = TRUE /\ overdrawn' = overdrawn \cup Drawn(t)
       /\ UNCHANGED estimated

Send(t) ==
    /\ gate[t] = "persist"
    /\ Persist(t)
    /\ gate' = [gate EXCEPT ![t] = "sent"]
    /\ UNCHANGED <<task, cached, seen, callVars, bookVars>>

\* The upstream fails, and the task awaits an attempt that submits it again.
SendFails(t) ==
    /\ t \in Flaky /\ gate[t] = "persist" /\ task[t] = "processing"
    /\ Persist(t)
    /\ gate' = [gate EXCEPT ![t] = "idle"]
    /\ task' = [task EXCEPT ![t] = "retrying"]
    /\ UNCHANGED <<cached, seen, callVars, bookVars>>

----------------------------------------------------------------------------
(* Settlements. *)

Goto(c, stage) == call' = [call EXCEPT ![c] = stage] /\ UNCHANGED result
Return(c, r)   == call' = [call EXCEPT ![c] = "done"] /\ result' = [result EXCEPT ![c] = r]

\* A plugin calls, and calls again if it got no usage id.
MayCall(c)      == call[c] = "idle" \/ result[c] = "error"
Begin(c, stage) == call' = [call EXCEPT ![c] = stage] /\ result' = [result EXCEPT ![c] = "none"]

\* A settlement of a task starts, unless a quota is exhausted by now, be it by
\* this task: resolveHostForwardIdentity runs in every call.
BeginTask(c) ==
    LET t == Settles[c] IN
    /\ t \in Tasks /\ MayCall(c)
    /\ gate[t] = "sent" /\ task[t] = "processing"
    /\ \E quotas \in {cached[Submitter[t]], quota} :
          /\ Resolve(t, quotas)
          /\ IF Exhausted(t, quotas) THEN Return(c, "error") ELSE Begin(c, "lookup")
    /\ UNCHANGED <<task, estimated, gate, seen, window, bookVars, overspent, overdrawn>>

\* A product is delivered; this path looks for no row beforehand.
BeginProduct(c) ==
    /\ Settles[c] \in Products /\ MayCall(c)
    /\ Begin(c, "insert")
    /\ UNCHANGED <<taskVars, window, bookVars, overspent, overdrawn>>

\* existingHostForwardUsageID before the charge.  The query may fail.
Lookup(c) ==
    /\ call[c] = "lookup"
    /\ \/ Settles[c] \in rows /\ Return(c, "row")
       \/ Settles[c] \notin rows /\ Goto(c, "insert")
       \/ Return(c, "error")
    /\ UNCHANGED <<taskVars, window, bookVars, overspent, overdrawn>>

\* What a charge does to the promises of the gate: a product is not reserved
\* for, nor is a task that failed before it was charged; and a quota loaded
\* before the charge no longer counts on a reservation read after it.
Breaches(i) ==
    /\ overspent' = (overspent \/ (i \in Products /\ Owed # {})
                               \/ (i \in Tasks /\ task[i] \notin InFlight))
    /\ overdrawn' = overdrawn \cup
         {h \in Drawn(i) : \/ task[i] \notin InFlight
                          \/ \E t \in Tasks : h \in Drawn(t) /\ gate[t] = "reserved"}

Less(n, m) == IF m > n THEN 0 ELSE n - m

\* Mutant: only the keys of products are unique.
Commit_Again(i) ==
    /\ i \in Products => i \notin rows
    /\ rows' = rows \cup {i}
    /\ balance' = balance - Cost[i]
    /\ quota' = [h \in Holders |-> IF h \in Drawn(i) THEN Less(quota[h], Cost[i]) ELSE quota[h]]
    /\ charges' = [charges EXCEPT ![i] = @ + 1]
    /\ Breaches(i)

\* One transaction: the row, whose request id is unique, and the charge.
Commit(i) ==
    /\ i \notin rows
    /\ rows' = rows \cup {i}
    /\ balance' = balance - Cost[i]
    /\ quota' = [h \in Holders |-> IF h \in Drawn(i) THEN Less(quota[h], Cost[i]) ELSE quota[h]]
    /\ charges' = [charges EXCEPT ![i] = @ + 1]
    /\ Breaches(i)

NoCommit == UNCHANGED <<bookVars, overspent, overdrawn>>

\* RecordSync: committed, committed but the reply is lost, or failed (on the
\* unique request id among others).
RecordSync(c) ==
    /\ call[c] = "insert" /\ Settles[c] \in Tasks
    /\ \/ Commit(Settles[c]) /\ Goto(c, "window")
       \/ Commit(Settles[c]) /\ Goto(c, "again")
       \/ NoCommit /\ Goto(c, "again")
    /\ UNCHANGED <<taskVars, window>>

\* RecordSyncCharge inserts the row before it asks for the balance, so that the
\* replay of a charged product fails on the request id.  A balance that does not
\* suffice is an error, and so is any other failure, a commit of which the reply
\* is lost included.
RecordSyncCharge(c) ==
    LET i == Settles[c] IN
    /\ call[c] = "insert" /\ i \in Products
    /\ \/ balance >= Cost[i] /\ Commit(i) /\ Return(c, "row")
       \/ balance >= Cost[i] /\ Commit(i) /\ Return(c, "error")
       \/ i \in rows /\ NoCommit /\ Goto(c, "again")
       \/ NoCommit /\ Return(c, "error")
    /\ UNCHANGED <<taskVars, window>>

\* Mutant: whoever fails to insert has lost a race.
LookupAgain_Assumes(c) ==
    /\ call[c] = "again"
    /\ Return(c, "row")
    /\ UNCHANGED <<taskVars, window, bookVars, overspent, overdrawn>>

\* Mutant: the loser of a race goes on like the winner.
LookupAgain_AddsCost(c) ==
    /\ call[c] = "again"
    /\ \/ Settles[c] \in rows /\ Goto(c, "window")
       \/ Return(c, "error")
    /\ UNCHANGED <<taskVars, window, bookVars, overspent, overdrawn>>

\* After a failed charge the row may be there all the same: another call has
\* won, or only the reply was lost.  Without a row, or if this query fails too,
\* the plugin gets no usage id.
LookupAgain(c) ==
    /\ call[c] = "again"
    /\ \/ Settles[c] \in rows /\ Return(c, "row")
       \/ Return(c, "error")
    /\ UNCHANGED <<taskVars, window, bookVars, overspent, overdrawn>>

\* Only the call that wrote the row adds its cost to the account's window, if
\* that does not fail.
AddWindowCost(c) ==
    /\ call[c] = "window"
    /\ window' \in {window, [window EXCEPT ![Settles[c]] = @ + 1]}
    /\ Return(c, "row")
    /\ UNCHANGED <<taskVars, bookVars, overspent, overdrawn>>

\* The process ends, or the reply never reaches the plugin: an error to it.
Interrupt(c) ==
    /\ call[c] \notin {"idle", "done"}
    /\ Return(c, "error")
    /\ UNCHANGED <<taskVars, window, bookVars, overspent, overdrawn>>

Next ==
    \/ \E s \in Submitters : LoadIdentity(s)
    \/ \E t \in Tasks : \/ Move(t) \/ Complete(t) \/ Fail(t) \/ LoadSubmitter(t)
                        \/ SendUnpriced(t) \/ ReadReservations(t) \/ ReadBalance(t)
                        \/ Send(t) \/ SendFails(t)
    \/ \E c \in Calls : \/ BeginTask(c) \/ BeginProduct(c) \/ Lookup(c)
                        \/ RecordSync(c) \/ RecordSyncCharge(c)
                        \/ LookupAgain(c) \/ AddWindowCost(c) \/ Interrupt(c)

Spec == Init /\ [][Next]_vars

----------------------------------------------------------------------------
(* Properties. *)

\* As long as nothing is spent past the gate in one of the ways above (SendUnpriced,
\* Unseen, Persist, Breaches), what the payer's unfinished tasks will still cost
\* is covered by its balance: a task that settles while another is being submitted
\* leaves both either in the reservations or out of the balance (host_budget.go:
\* balance - reservations - estimate >= 0).
BudgetHolds == ~overspent => Total(Cost, Owed) <= balance

\* The same of the quota of a member or a department, although it is loaded before
\* the reservations; a quota that comes from the cache must not have been charged
\* since (LoadSubmitter).
QuotaHolds ==
    \A h \in Holders \ overdrawn : Total(Cost, {t \in Owed : h \in Drawn(t)}) <= quota[h]

\* A call returns a usage id only for a committed row.
SettledIsCharged == \A c \in Calls : result[c] = "row" => Settles[c] \in rows

\* A cost enters the window of its account at most once, and only if charged,
\* however many calls settle it.
WindowCostOnce == \A i \in Ids : window[i] <= charges[i]

\* Settlements keep the ledger's promise: one charge for one request id.
StatusOf(i) ==
    IF i \in rows THEN "billed"
    ELSE IF \E c \in Calls : Settles[c] = i /\ call[c] # "idle" THEN "pending" ELSE "new"

ledgerStatus == [i \in Ids |-> StatusOf(i)]

Ledger == INSTANCE UsageLedger WITH Records <- Ids, status <- ledgerStatus

ImplementsLedger == Ledger!Init /\ [][UNCHANGED Ledger!ledgerVars \/ Ledger!Next]_(Ledger!ledgerVars)
=============================================================================
