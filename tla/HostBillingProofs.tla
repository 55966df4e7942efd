------------------------- MODULE HostBillingProofs -------------------------
(***************************************************************************)
(* Proofs about the settlements of HostBilling for any set of tasks,       *)
(* products and calls, any costs and any balance.                          *)
(***************************************************************************)
EXTENDS HostBilling, FiniteSetTheorems, TLAPS

----------------------------------------------------------------------------
(* The inductive invariant.                                                *)

\* The types of what settlements read and write.
BillType ==
    /\ rows \subseteq Ids
    /\ task \in [Tasks -> InFlight \cup {"completed", "failed"}]
    /\ call \in [Calls -> {"idle", "lookup", "insert", "again", "window", "done"}]
    /\ result \in [Calls -> Results]
    /\ window \in [Ids -> Nat] /\ charges \in [Ids -> Nat]

\* The row and the charge are one transaction.
OneCharge == \A i \in Ids : charges[i] = IF i \in rows THEN 1 ELSE 0

\* The one call that wrote the row is about to enter its cost in the window.
WindowTurn == \A c \in Calls : call[c] = "window" =>
    /\ Settles[c] \in rows /\ window[Settles[c]] = 0
    /\ \A d \in Calls : call[d] = "window" /\ Settles[d] = Settles[c] => d = c

WindowOnce == \A i \in Ids : window[i] \in {0, 1} /\ (window[i] = 1 => i \in rows)

BillInv == BillType /\ OneCharge /\ WindowTurn /\ WindowOnce /\ SettledIsCharged

LEMMA InitBill == Init => BillInv
BY SMT DEF Init, BillInv, BillType, InFlight, Results, OneCharge, WindowTurn, WindowOnce, SettledIsCharged

\* What a charge does, if it is one.
LEMMA Books ==
    ASSUME BillInv, NEW i \in Ids, Commit(i)
    PROVE  /\ i \notin rows /\ rows' = rows \cup {i}
           /\ charges' = [charges EXCEPT ![i] = @ + 1]
           /\ rows' \subseteq Ids /\ charges' \in [Ids -> Nat] /\ OneCharge'
           /\ window[i] = 0
<1>1. i \notin rows /\ rows' = rows \cup {i} /\ charges' = [charges EXCEPT ![i] = @ + 1]
    BY DEF Commit
<1>2. rows' \subseteq Ids /\ charges' \in [Ids -> Nat]
    BY <1>1, SMT DEF BillInv, BillType
<1>3. OneCharge'
    BY <1>1, SMT DEF BillInv, BillType, OneCharge
<1>4. window[i] = 0
    BY <1>1, SMT DEF BillInv, WindowOnce
<1> QED BY <1>1, <1>2, <1>3, <1>4

\* A step of call c of which the other calls see at most a new row.
LEMMA CallStep ==
    ASSUME BillInv, NEW c \in Calls, task' = task, window' = window,
           rows \subseteq rows', rows' \subseteq Ids, charges' \in [Ids -> Nat], OneCharge',
           NEW stage \in {"insert", "lookup", "again", "done"}, call' = [call EXCEPT ![c] = stage],
           NEW r \in Results, result' = [result EXCEPT ![c] = r],
           r = "row" => Settles[c] \in rows'
    PROVE  BillInv'
<1> USE DEF BillInv, BillType
<1>1. BillType'
    BY SMT
<1>2. WindowTurn'
    BY SMT DEF WindowTurn
<1>3. WindowOnce'
    BY SMT DEF WindowOnce
<1>4. SettledIsCharged'
    BY SMT DEF SettledIsCharged
<1> QED BY <1>1, <1>2, <1>3, <1>4

LEMMA NextBill == BillInv /\ [Next]_vars => BillInv'
<1> USE HostBillingAssumption
<1> SUFFICES ASSUME BillInv, [Next]_vars PROVE BillInv'
    OBVIOUS
<1>1. ASSUME NEW t \in Tasks,
             \/ Move(t) \/ Complete(t) \/ Fail(t) \/ LoadSubmitter(t) \/ SendUnpriced(t)
             \/ ReadReservations(t) \/ ReadBalance(t) \/ Send(t) \/ SendFails(t)
      PROVE  BillInv'
    <2>1. UNCHANGED <<callVars, bookVars>>
        BY <1>1 DEF Move, Complete, Fail, LoadSubmitter, SendUnpriced, ReadReservations, ReadBalance, Send,
                 SendFails
    <2>2. task' \in [Tasks -> InFlight \cup {"completed", "failed"}]
        BY <1>1, SMT DEF Move, Complete, Fail, LoadSubmitter, SendUnpriced, ReadReservations, ReadBalance, Send,
                 SendFails, BillInv, BillType, InFlight
    <2> QED BY <2>1, <2>2 DEF callVars, bookVars, BillInv, BillType, OneCharge, WindowTurn, WindowOnce,
                 SettledIsCharged
<1>2. ASSUME NEW c \in Calls,
             \/ BeginTask(c) \/ BeginProduct(c) \/ Lookup(c) \/ RecordSyncCharge(c)
             \/ LookupAgain(c) \/ Interrupt(c) \/ (RecordSync(c) /\ call' # [call EXCEPT ![c] = "window"])
      PROVE  BillInv'
    <2>0. Settles[c] \in Ids
        BY DEF Ids
    <2>1. task' = task /\ window' = window
        BY <1>2 DEF BeginTask, BeginProduct, Lookup, RecordSync, RecordSyncCharge, LookupAgain, Interrupt, taskVars
    <2>2. \/ UNCHANGED <<rows, charges>>
          \/ Commit(Settles[c])
        BY <1>2 DEF BeginTask, BeginProduct, Lookup, RecordSync, RecordSyncCharge, LookupAgain, Interrupt,
                 NoCommit, bookVars
    <2>3. rows \subseteq rows' /\ rows' \subseteq Ids /\ charges' \in [Ids -> Nat] /\ OneCharge'
        <3>1. CASE UNCHANGED <<rows, charges>>
            BY <3>1 DEF BillInv, BillType, OneCharge
        <3>2. CASE Commit(Settles[c])
            BY <2>0, <3>2, Books
        <3> QED BY <2>2, <3>1, <3>2
    <2>4. \E stage \in {"insert", "lookup", "again", "done"} : call' = [call EXCEPT ![c] = stage]
        BY <1>2 DEF BeginTask, BeginProduct, Lookup, RecordSync, RecordSyncCharge, LookupAgain, Interrupt,
                 Goto, Return, Begin
    <2>5. \E r \in Results : result' = [result EXCEPT ![c] = r] /\ (r = "row" => Settles[c] \in rows')
        <3>1. CASE result' = result
            <4>1. result' = [result EXCEPT ![c] = result[c]] /\ result[c] \in Results
                BY <3>1 DEF BillInv, BillType
            <4>2. result[c] = "row" => Settles[c] \in rows'
                BY <2>3 DEF BillInv, SettledIsCharged
            <4> QED BY <4>1, <4>2
        <3>2. CASE Lookup(c) \/ LookupAgain(c)
            BY <3>1, <3>2, <2>3 DEF Lookup, LookupAgain, Goto, Return, Results
        <3>3. CASE RecordSyncCharge(c)
            BY <3>1, <3>3 DEF RecordSyncCharge, Goto, Return, Results, Commit
        <3>4. CASE BeginTask(c) \/ BeginProduct(c) \/ RecordSync(c) \/ Interrupt(c)
            BY <3>1, <3>4 DEF BeginTask, BeginProduct, RecordSync, Interrupt, Goto, Return, Begin, Results
        <3> QED BY <1>2, <3>2, <3>3, <3>4
    <2> QED BY <2>1, <2>3, <2>4, <2>5, CallStep
<1>3. ASSUME NEW c \in Calls, RecordSync(c), call' = [call EXCEPT ![c] = "window"] PROVE BillInv'
    <2> DEFINE i == Settles[c]
    <2>0. i \in Ids /\ call[c] = "insert"
        BY <1>3 DEF RecordSync, Ids
    <2>1. Commit(i) /\ result' = result /\ task' = task /\ window' = window
        BY <1>3, <2>0 DEF RecordSync, Goto, taskVars, BillInv, BillType
    <2>2. i \notin rows /\ rows' = rows \cup {i} /\ window[i] = 0 /\ OneCharge'
          /\ rows' \subseteq Ids /\ charges' \in [Ids -> Nat]
        BY <2>0, <2>1, Books
    <2>3. BillType'
        BY <1>3, <2>1, <2>2, SMT DEF BillInv, BillType
    <2>4. WindowTurn'
        BY <1>3, <2>1, <2>2, SMT DEF BillInv, BillType, WindowTurn
    <2>5. WindowOnce' /\ SettledIsCharged'
        BY <2>1, <2>2 DEF BillInv, WindowOnce, SettledIsCharged
    <2> QED BY <2>2, <2>3, <2>4, <2>5 DEF BillInv
<1>4. ASSUME NEW c \in Calls, AddWindowCost(c) PROVE BillInv'
    <2> DEFINE i == Settles[c]
    <2>0. i \in rows /\ window[i] = 0 /\ i \in Ids
          /\ \A d \in Calls : call[d] = "window" /\ Settles[d] = i => d = c
        BY <1>4 DEF AddWindowCost, BillInv, WindowTurn, BillType
    <2>1. /\ UNCHANGED <<task, rows, charges>>
          /\ window' \in {window, [window EXCEPT ![i] = @ + 1]}
          /\ call' = [call EXCEPT ![c] = "done"] /\ result' = [result EXCEPT ![c] = "row"]
        BY <1>4 DEF AddWindowCost, Return, taskVars, bookVars
    <2>2. window' = window \/ window' = [window EXCEPT ![i] = 1]
        BY <2>0, <2>1, SMT DEF BillInv, BillType
    <2>3. BillType' /\ OneCharge'
        BY <2>1, <2>2, SMT DEF BillInv, BillType, OneCharge, Results
    <2>4. WindowTurn'
        BY <2>0, <2>1, <2>2, SMT DEF BillInv, BillType, WindowTurn
    <2>5. WindowOnce'
        BY <2>0, <2>1, <2>2, SMT DEF BillInv, BillType, WindowOnce
    <2>6. SettledIsCharged'
        BY <2>0, <2>1, SMT DEF BillInv, BillType, SettledIsCharged
    <2> QED BY <2>3, <2>4, <2>5, <2>6 DEF BillInv
<1>5. CASE UNCHANGED vars \/ \E s \in Submitters : LoadIdentity(s)
    BY <1>5 DEF LoadIdentity, vars, taskVars, callVars, bookVars, BillInv, BillType, OneCharge, WindowTurn, WindowOnce,
         SettledIsCharged
<1> QED BY <1>1, <1>2, <1>3, <1>4, <1>5 DEF Next

LEMMA Invariant == Spec => []BillInv
BY InitBill, NextBill, PTL DEF Spec

\* A usage id is returned only for a committed row.
THEOREM NothingForFree == Spec => []SettledIsCharged
<1>1. BillInv => SettledIsCharged
    BY DEF BillInv
<1> QED BY <1>1, Invariant, PTL

\* A cost enters its account's window once, and only if it was charged.
THEOREM CostOnce == Spec => []WindowCostOnce
<1>1. BillInv => WindowCostOnce
    BY SMT DEF BillInv, BillType, OneCharge, WindowOnce, WindowCostOnce
<1> QED BY <1>1, Invariant, PTL
----------------------------------------------------------------------------
(* The refinement.                                                         *)

\* What has been handed over, by request id.
Begun == {Settles[c] : c \in {d \in Calls : call[d] # "idle"}}

LEMMA BegunStatus ==
    ASSUME NEW i
    PROVE  /\ StatusOf(i)  = IF i \in rows THEN "billed" ELSE IF i \in Begun THEN "pending" ELSE "new"
           /\ StatusOf(i)' = IF i \in rows' THEN "billed" ELSE IF i \in Begun' THEN "pending" ELSE "new"
BY DEF StatusOf, Begun

\* A step that writes no row hands over at most one request id.
LEMMA Hands ==
    ASSUME BillInv, UNCHANGED <<rows, charges>>, NEW i \in Ids,
           Begun' \in {Begun, Begun \cup {i}}
    PROVE  UNCHANGED Ledger!ledgerVars \/ Ledger!Next
<1>1. CASE \A j \in Ids : StatusOf(j)' = StatusOf(j)
    BY <1>1 DEF ledgerStatus, Ledger!ledgerVars
<1>2. CASE ~ \A j \in Ids : StatusOf(j)' = StatusOf(j)
    <2>1. i \notin rows /\ i \notin Begun /\ Begun' = Begun \cup {i}
        BY <1>2, BegunStatus
    <2>2. ledgerStatus[i] = "new"
        BY <2>1, BegunStatus DEF ledgerStatus
    <2>3. ledgerStatus' = [j \in Ids |-> IF j \in {i} THEN "pending" ELSE ledgerStatus[j]]
        BY <2>1, BegunStatus DEF ledgerStatus
    <2> QED BY <2>2, <2>3 DEF Ledger!Next, Ledger!Accept, Ledger!Become
<1> QED BY <1>1, <1>2

\* A charge is the ledger's Bill of one request id.
LEMMA Bills ==
    ASSUME BillInv, NEW i \in Ids, Commit(i), i \in Begun, Begun' = Begun
    PROVE  Ledger!Next
<1>1. i \notin rows /\ rows' = rows \cup {i} /\ charges' = [charges EXCEPT ![i] = @ + 1]
    BY Books
<1>2. ledgerStatus[i] = "pending"
    BY <1>1, BegunStatus DEF ledgerStatus
<1>3. ledgerStatus' = [j \in Ids |-> IF j \in {i} THEN "billed" ELSE ledgerStatus[j]]
    BY <1>1, BegunStatus DEF ledgerStatus
<1>4. charges' = [j \in Ids |-> IF j \in {i} THEN charges[j] + 1 ELSE charges[j]]
    BY <1>1 DEF BillInv, BillType
<1> QED BY <1>2, <1>3, <1>4 DEF Ledger!Next, Ledger!Bill, Ledger!Become

\* The settlements implement the ledger: whatever calls are retried, overlap or
\* fail, a request id is handed over once and charged at most once.
THEOREM Refinement == Spec => ImplementsLedger
<1>1. Init => Ledger!Init
    BY SMT DEF Init, Ledger!Init, ledgerStatus, StatusOf
<1>2. ASSUME BillInv, [Next]_vars PROVE UNCHANGED Ledger!ledgerVars \/ Ledger!Next
    <2> USE HostBillingAssumption DEF BillInv, BillType
    <2>1. CASE UNCHANGED <<call, rows, charges>>
        BY <2>1 DEF Ledger!ledgerVars, ledgerStatus, StatusOf
    <2>2. CASE ~ UNCHANGED <<call, rows, charges>>
        <3>1. PICK c \in Calls : \/ BeginTask(c) \/ BeginProduct(c) \/ Lookup(c) \/ RecordSync(c)
                                 \/ RecordSyncCharge(c) \/ LookupAgain(c) \/ AddWindowCost(c) \/ Interrupt(c)
            BY <1>2, <2>2 DEF Next, LoadIdentity, vars, callVars, bookVars, Move, Complete, Fail, LoadSubmitter,
                     SendUnpriced, ReadReservations, ReadBalance, Send, SendFails
        <3>2. \E stage \in {"lookup", "insert", "again", "window", "done"} : call' = [call EXCEPT ![c] = stage]
            BY <3>1 DEF BeginTask, BeginProduct, Lookup, RecordSync, RecordSyncCharge, LookupAgain,
                     AddWindowCost, Interrupt, Goto, Return, Begin
        <3>3. Begun' = Begun \cup {Settles[c]}
            <4>1. PICK stage \in {"lookup", "insert", "again", "window", "done"} : call' = [call EXCEPT ![c] = stage]
                BY <3>2
            <4>2. \A d \in Calls : (call'[d] # "idle") <=> (call[d] # "idle" \/ d = c)
                BY <1>2, <4>1
            <4> QED BY <4>2 DEF Begun
        <3>4. Settles[c] \in Ids
            BY DEF Ids
        <3>5. CASE UNCHANGED <<rows, charges>>
            BY <1>2, <3>3, <3>4, <3>5, Hands
        <3>6. CASE Commit(Settles[c]) /\ call[c] = "insert"
            <4>1. Settles[c] \in Begun
                BY <3>6 DEF Begun
            <4> QED BY <1>2, <3>3, <3>4, <3>6, <4>1, Bills
        <3> QED BY <3>1, <3>5, <3>6 DEF BeginTask, BeginProduct, Lookup, RecordSync, RecordSyncCharge,
                     LookupAgain, AddWindowCost, Interrupt, NoCommit, bookVars
    <2> QED BY <2>1, <2>2
<1>3. BillInv /\ [Next]_vars => [UNCHANGED Ledger!ledgerVars \/ Ledger!Next]_(Ledger!ledgerVars)
    BY <1>2
<1> QED BY <1>1, <1>3, Invariant, PTL DEF Spec, ImplementsLedger
----------------------------------------------------------------------------
(* Sums: the laws of Total, from those of finite sets.                     *)

LEMMA UnitsFinite ==
    ASSUME NEW S, IsFiniteSet(S), NEW f, \A t \in S : f[t] \in Nat
    PROVE  IsFiniteSet(Units(f, S)) /\ Total(f, S) \in Nat
<1> DEFINE g == [t \in S |-> {t} \X (1 .. f[t])]
           R == {{t} \X (1 .. f[t]) : t \in S}
<1>1. g \in Surjection(S, R)
    BY DEF Surjection
<1>2. IsFiniteSet(R)
    BY <1>1, FS_Surjection
<1>3. ASSUME NEW t \in S PROVE IsFiniteSet({t} \X (1 .. f[t]))
    <2>1. f[t] \in Int /\ 1 \in Int
        OBVIOUS
    <2>2. IsFiniteSet({t}) /\ IsFiniteSet(1 .. f[t])
        BY <2>1, FS_Singleton, FS_Interval
    <2> QED BY <2>2, FS_Product
<1>4. IsFiniteSet(UNION R)
    BY <1>2, <1>3, FS_UNION
<1> QED BY <1>4, FS_CardinalityType DEF Units, Total

LEMMA TotalEmpty == ASSUME NEW f PROVE Total(f, {}) = 0
<1>1. Units(f, {}) = {}
    BY DEF Units
<1> QED BY <1>1, FS_EmptySet DEF Total

\* One more element adds its amount, one less takes it away.
LEMMA TotalAdd ==
    ASSUME NEW S, IsFiniteSet(S), NEW t, t \notin S, NEW f, \A u \in S \cup {t} : f[u] \in Nat
    PROVE  Total(f, S \cup {t}) = Total(f, S) + f[t]
<1> DEFINE own == {t} \X (1 .. f[t])
<1>1. Units(f, S \cup {t}) = Units(f, S) \cup own
    BY DEF Units
<1>2. Units(f, S) \cap own = {}
    BY DEF Units
<1>3. IsFiniteSet(own) /\ Cardinality(own) = f[t]
    <2>1. f[t] \in Nat
        OBVIOUS
    <2>2. IsFiniteSet(1 .. f[t]) /\ Cardinality(1 .. f[t]) = f[t]
        <3>1. f[t] \in Int /\ 1 \in Int
            BY <2>1
        <3>2. IsFiniteSet(1 .. f[t]) /\ Cardinality(1 .. f[t]) = IF 1 > f[t] THEN 0 ELSE f[t] - 1 + 1
            BY <3>1, FS_Interval
        <3> QED BY <2>1, <3>2
    <2>3. IsFiniteSet({t}) /\ Cardinality({t}) = 1
        BY FS_Singleton
    <2> DEFINE A == {t}
               B == 1 .. f[t]
    <2>4. IsFiniteSet(A) /\ Cardinality(A) = 1 /\ IsFiniteSet(B) /\ Cardinality(B) = f[t]
        BY <2>2, <2>3
    <2>5. IsFiniteSet(A \X B) /\ Cardinality(A \X B) = f[t]
        <3> HIDE DEF A, B
        <3>1. IsFiniteSet(A \X B) /\ Cardinality(A \X B) = Cardinality(A) * Cardinality(B)
            BY <2>4, FS_Product
        <3> QED BY <2>1, <2>4, <3>1
    <2> QED BY <2>5
<1>4. IsFiniteSet(Units(f, S)) /\ Cardinality(Units(f, S)) \in Nat
    <2>1. \A u \in S : f[u] \in Nat
        OBVIOUS
    <2> QED BY <2>1, UnitsFinite DEF Total
<1> HIDE DEF own
<1>5. Cardinality(Units(f, S) \cup own) = Cardinality(Units(f, S)) + Cardinality(own) - Cardinality({})
    BY <1>2, <1>3, <1>4, FS_Union
<1>6. f[t] \in Nat /\ Cardinality({}) = 0
    BY FS_EmptySet
<1>7. Total(f, S \cup {t}) = Total(f, S) + f[t] - 0 /\ Total(f, S) \in Nat
    BY <1>1, <1>3, <1>4, <1>5, <1>6, Zenon DEF Total
<1> QED BY <1>6, <1>7

LEMMA TotalRemove ==
    ASSUME NEW S, IsFiniteSet(S), NEW t \in S, NEW f, \A u \in S : f[u] \in Nat
    PROVE  Total(f, S \ {t}) = Total(f, S) - f[t]
<1>1. (S \ {t}) \cup {t} = S /\ IsFiniteSet(S \ {t})
    BY FS_RemoveElement
<1>2. Total(f, S) = Total(f, S \ {t}) + f[t]
    <2> DEFINE R == S \ {t}
    <2>1. Total(f, R \cup {t}) = Total(f, R) + f[t]
        <3>1. IsFiniteSet(R) /\ t \notin R /\ \A u \in R \cup {t} : f[u] \in Nat
            BY <1>1
        <3> QED BY <3>1, TotalAdd
    <2> QED BY <1>1, <2>1
<1>3. Total(f, S \ {t}) \in Nat /\ f[t] \in Nat
    BY <1>1, UnitsFinite
<1> QED BY <1>2, <1>3

\* More elements, of larger amounts, have a larger sum.
LEMMA TotalMonotone ==
    ASSUME NEW T, IsFiniteSet(T), NEW S \in SUBSET T, NEW f, NEW g,
           \A t \in T : f[t] \in Nat /\ g[t] \in Nat, \A t \in S : f[t] <= g[t]
    PROVE  Total(f, S) <= Total(g, T)
<1>1. Units(f, S) \subseteq Units(g, T)
    BY DEF Units
<1>2. IsFiniteSet(Units(g, T))
    BY UnitsFinite
<1> QED BY <1>1, <1>2, FS_Subset DEF Total

----------------------------------------------------------------------------
(* Types.                                                                  *)

\* The types of what submissions read and write.
GateType ==
    /\ balance \in Int /\ quota \in [Holders -> Nat]
    /\ estimated \in Estimates
    /\ cached \in [Submitters -> [Holders -> Nat]]
    /\ gate \in [Tasks -> Stages]
    /\ seen \in [Tasks -> [quota : [Holders -> Nat], reserved : Nat]]
    /\ overspent \in BOOLEAN /\ overdrawn \subseteq Holders

\* A stored estimate is the cost of its task.
LEMMA PersistType ==
    ASSUME NEW t \in Tasks, GateType, Persist(t)
    PROVE  estimated' \in Estimates /\ overspent' \in BOOLEAN /\ overdrawn' \subseteq Holders
<1>1. Drawn(t) \subseteq Holders
    BY DEF Drawn
<1>2. CASE estimated' = [estimated EXCEPT ![t] = Cost[t]] /\ UNCHANGED <<overspent, overdrawn>>
    BY <1>2 DEF GateType, Estimates
<1>3. CASE overspent' = TRUE /\ overdrawn' = overdrawn \cup Drawn(t) /\ UNCHANGED estimated
    BY <1>1, <1>3 DEF GateType
<1> QED BY <1>2, <1>3 DEF Persist

\* A charge takes a natural number from balance and quota; the quota stops at 0.
LEMMA CommitType ==
    ASSUME NEW i \in Ids, GateType, Commit(i)
    PROVE  /\ balance' \in Int /\ quota' \in [Holders -> Nat]
           /\ overspent' \in BOOLEAN /\ overdrawn' \subseteq Holders
<1>1. Cost[i] \in Nat
    BY HostBillingAssumption
<1>2. balance' \in Int
    BY <1>1 DEF Commit, GateType
<1>3. \A n \in Nat : Less(n, Cost[i]) \in Nat
    BY <1>1 DEF Less
<1>4. quota' \in [Holders -> Nat]
    <2>1. \A h \in Holders : quota[h] \in Nat /\ Less(quota[h], Cost[i]) \in Nat
        BY <1>3 DEF GateType
    <2> QED BY <2>1, SMT DEF Commit
<1>5. overspent' \in BOOLEAN
    BY Zenon DEF Commit, Breaches, GateType
<1>6. overdrawn' \subseteq Holders
    <2> DEFINE more == {h \in Drawn(i) : \/ task[i] \notin InFlight
                                         \/ \E t \in Tasks : h \in Drawn(t) /\ gate[t] = "reserved"}
    <2>1. overdrawn' = overdrawn \cup more
        BY DEF Commit, Breaches
    <2>2. more \subseteq Holders
        BY DEF Drawn
    <2> HIDE DEF more
    <2> QED BY <2>1, <2>2 DEF GateType
<1> QED BY <1>2, <1>4, <1>5, <1>6

\* The estimates read are natural numbers, and so is their sum.
LEMMA ReservationsType == ASSUME GateType, NEW t \in Tasks PROVE Reservations(t) \in Nat
<1> DEFINE S == {u \in Tasks \ {t} : Submitter[u] = Submitter[t] /\ task[u] \in InFlight}
<1>1. IsFiniteSet(S)
    <2>1. S \in SUBSET Tasks
        OBVIOUS
    <2> QED BY <2>1, FS_Subset, HostBillingAssumption
<1>2. \A u \in S : estimated[u] \in Nat
    BY HostBillingAssumption DEF GateType, Estimates, Ids
<1> HIDE DEF S
<1>3. Total(estimated, S) \in Nat
    BY <1>1, <1>2, UnitsFinite
<1> QED BY <1>3 DEF Reservations, S

LEMMA NextGate == GateType /\ [Next]_vars => GateType'
<1> SUFFICES ASSUME GateType, [Next]_vars PROVE GateType'
    OBVIOUS
<1>1. CASE UNCHANGED <<balance, quota, estimated, cached, gate, seen, overspent, overdrawn>>
    BY <1>1 DEF GateType
<1>2. ASSUME NEW t \in Tasks, LoadSubmitter(t) PROVE GateType'
    <2>1. PICK quotas \in {cached[Submitter[t]], quota} :
             /\ Resolve(t, quotas)
             /\ seen' = seen \/ seen' = [seen EXCEPT ![t].quota = quotas]
             /\ overdrawn' = overdrawn \cup {h \in Drawn(t) : quotas[h] # quota[h]}
        BY <1>2 DEF LoadSubmitter
    <2>2. quotas \in [Holders -> Nat] /\ Drawn(t) \subseteq Holders
        BY HostBillingAssumption DEF GateType, Drawn
    <2>3. seen' \in [Tasks -> [quota : [Holders -> Nat], reserved : Nat]]
        BY <2>1, <2>2 DEF GateType
    <2>4. gate' \in [Tasks -> Stages]
        BY <1>2 DEF LoadSubmitter, GateType, Stages
    <2>5. cached' \in [Submitters -> [Holders -> Nat]]
        BY <2>1, <2>2 DEF Resolve, GateType
    <2>6. overdrawn' \subseteq Holders
        BY <2>1, <2>2 DEF GateType
    <2> QED BY <1>2, <2>3, <2>4, <2>5, <2>6 DEF LoadSubmitter, GateType, bookVars
<1>10. ASSUME NEW t \in Tasks, SendUnpriced(t) PROVE GateType'
    <2>1. Nothing \in [quota : [Holders -> Nat], reserved : Nat] /\ Drawn(t) \subseteq Holders
        BY DEF Nothing, Drawn
    <2>2. gate' \in [Tasks -> Stages]
        BY <1>10 DEF SendUnpriced, GateType, Stages
    <2>3. seen' \in [Tasks -> [quota : [Holders -> Nat], reserved : Nat]]
        BY <1>10, <2>1 DEF SendUnpriced, GateType
    <2> QED BY <1>10, <2>1, <2>2, <2>3 DEF SendUnpriced, GateType, bookVars
<1>11. ASSUME NEW c \in Calls, BeginTask(c) PROVE GateType'
    <2> DEFINE t == Settles[c]
    <2>1. t \in Tasks /\ \E quotas \in {cached[Submitter[t]], quota} : Resolve(t, quotas)
        BY <1>11 DEF BeginTask
    <2>2. cached' \in [Submitters -> [Holders -> Nat]]
        BY <2>1, HostBillingAssumption DEF Resolve, GateType
    <2> QED BY <1>11, <2>2 DEF BeginTask, GateType, bookVars
<1>12. ASSUME NEW s \in Submitters, LoadIdentity(s) PROVE GateType'
    BY <1>12 DEF LoadIdentity, GateType, bookVars
<1>3. ASSUME NEW t \in Tasks, ReadReservations(t) PROVE GateType'
    <2>1. Reservations(t) \in Nat
        BY ReservationsType
    <2>2. seen' \in [Tasks -> [quota : [Holders -> Nat], reserved : Nat]]
        BY <1>3, <2>1 DEF ReadReservations, GateType
    <2>3. gate' \in [Tasks -> Stages]
        BY <1>3 DEF ReadReservations, GateType, Stages
    <2>4. overspent' \in BOOLEAN
        BY <1>3, Zenon DEF ReadReservations, GateType
    <2>5. overdrawn' \subseteq Holders
        <3>1. Drawn(t) \subseteq Holders
            BY DEF Drawn
        <3> QED BY <1>3, <3>1 DEF ReadReservations, GateType
    <2> QED BY <1>3, <2>2, <2>3, <2>4, <2>5 DEF ReadReservations, GateType, bookVars
<1>4. ASSUME NEW t \in Tasks, ReadBalance(t) PROVE GateType'
    <2>1. Nothing \in [quota : [Holders -> Nat], reserved : Nat]
        BY DEF Nothing
    <2>2. seen' \in [Tasks -> [quota : [Holders -> Nat], reserved : Nat]] /\ gate' \in [Tasks -> Stages]
        BY <1>4, <2>1 DEF ReadBalance, GateType, Stages
    <2> QED BY <1>4, <2>2 DEF ReadBalance, GateType, bookVars
<1>5. ASSUME NEW t \in Tasks, Send(t) \/ SendFails(t) PROVE GateType'
    <2>1. Persist(t) /\ UNCHANGED <<cached, seen, balance, quota>>
        BY <1>5 DEF Send, SendFails, bookVars
    <2>2. gate' \in [Tasks -> Stages]
        BY <1>5 DEF Send, SendFails, GateType, Stages
    <2> QED BY <2>1, <2>2, PersistType DEF GateType
<1>6. ASSUME NEW c \in Calls, RecordSync(c) \/ RecordSyncCharge(c) PROVE GateType'
    <2>1. Settles[c] \in Ids /\ UNCHANGED <<estimated, cached, gate, seen>>
        BY <1>6 DEF RecordSync, RecordSyncCharge, Ids, taskVars
    <2>2. Commit(Settles[c]) \/ UNCHANGED <<balance, quota, overspent, overdrawn>>
        BY <1>6 DEF RecordSync, RecordSyncCharge, NoCommit, bookVars
    <2> QED BY <2>1, <2>2, CommitType DEF GateType
<1>7. CASE \E t \in Tasks : Move(t) \/ Complete(t) \/ Fail(t)
    BY <1>1, <1>7 DEF Move, Complete, Fail, bookVars
<1>8. CASE \E c \in Calls : BeginProduct(c) \/ Lookup(c) \/ LookupAgain(c)
                               \/ AddWindowCost(c) \/ Interrupt(c)
    BY <1>1, <1>8 DEF BeginProduct, Lookup, LookupAgain, AddWindowCost, Interrupt, taskVars, bookVars
<1>9. CASE UNCHANGED vars
    BY <1>1, <1>9 DEF vars, taskVars, bookVars
<1> QED BY <1>2, <1>3, <1>4, <1>5, <1>6, <1>7, <1>8, <1>9, <1>10, <1>11, <1>12 DEF Next

LEMMA InitGate == Init => GateType
<1> SUFFICES ASSUME Init PROVE GateType
    OBVIOUS
<1>1. balance \in Int
    BY HostBillingAssumption DEF Init
<1>2. quota \in [Holders -> Nat]
    BY HostBillingAssumption, Zenon DEF Init
<1>3. cached \in [Submitters -> [Holders -> Nat]]
    BY <1>2 DEF Init
<1>4. Nothing \in [quota : [Holders -> Nat], reserved : Nat]
    BY DEF Nothing
<1> QED BY <1>1, <1>2, <1>3, <1>4 DEF Init, GateType, Estimates, Stages

\* Every variable keeps its type; a quota, which each charge lowers, does not
\* fall below zero.
THEOREM TypeCorrect == Spec => []TypeOK
<1>1.  GateType /\ BillInv => TypeOK
    BY DEF GateType, BillInv, BillType, TypeOK
<1> QED BY <1>1, InitGate, NextGate, Invariant, PTL DEF Spec
----------------------------------------------------------------------------
(* The gate.  While no reservation is passed over, one submission at a     *)
(* time is between its reading of the reservations and its sending; what   *)
(* is owed is within the reservations it has read, and within the balance. *)

OwedBy(h) == {t \in Owed : h \in Drawn(t)}
Between   == {"balance", "persist"}

\* A task is settled after it has been sent, which it remains.
SettlesSent == \A c \in Calls : call[c] # "idle" /\ Settles[c] \in Tasks => gate[Settles[c]] = "sent"

\* Of the tasks in S at most one is being submitted, and what is sent is stored.
Orderly(S) ==
    /\ \A t, u \in S : gate[t] \in Between /\ gate[u] \in Between => t = u
    /\ \A t \in S : gate[t] = "sent" => estimated[t] = Cost[t]

BudgetInv == ~overspent =>
    /\ Orderly(Tasks)
    /\ \A t \in Tasks : gate[t] = "balance" => Total(Cost, Owed) <= seen[t].reserved
    /\ Total(Cost, Owed) <= balance

TasksOf(h) == {t \in Tasks : h \in Drawn(t)}

\* The quota a submission has read is the present one while it may still count
\* on reservations it has not read; later the quota has lost what is charged.
QuotaInv == \A h \in Holders \ overdrawn :
    /\ Orderly(TasksOf(h))
    /\ \A t \in TasksOf(h) :
          /\ gate[t] = "reserved" => seen[t].quota[h] = quota[h]
          /\ gate[t] = "balance" =>
                seen[t].quota[h] + Total(Cost, OwedBy(h)) <= quota[h] + seen[t].reserved
    /\ Total(Cost, OwedBy(h)) <= quota[h]

Promise == SettlesSent /\ BudgetInv /\ QuotaInv

\* The sums that occur are natural numbers.
LEMMA OwedSums ==
    ASSUME GateType
    PROVE  /\ IsFiniteSet(Owed) /\ Total(Cost, Owed) \in Nat /\ Owed \subseteq Tasks
           /\ \A h : /\ IsFiniteSet(OwedBy(h)) /\ Total(Cost, OwedBy(h)) \in Nat
                     /\ OwedBy(h) \subseteq Owed
           /\ \A t \in Tasks : Cost[t] \in Nat \ {0} /\ estimated[t] \in Nat
           /\ \A h \in Holders : quota[h] \in Nat
           /\ \A t \in Tasks : (\A h \in Holders : seen[t].quota[h] \in Nat) /\ seen[t].reserved \in Nat
<1>1. Owed \in SUBSET Tasks /\ \A h : OwedBy(h) \in SUBSET Owed
    BY DEF Owed, OwedBy
<1>2. IsFiniteSet(Owed) /\ \A h : IsFiniteSet(OwedBy(h))
    BY <1>1, FS_Subset, HostBillingAssumption
<1>3. \A t \in Tasks : Cost[t] \in Nat \ {0}
    BY HostBillingAssumption DEF Ids
<1>4. \A t \in Tasks : estimated[t] \in Nat
    BY <1>3 DEF GateType, Estimates
<1>5. Total(Cost, Owed) \in Nat
    BY <1>1, <1>2, <1>3, UnitsFinite
<1>6. ASSUME NEW h PROVE Total(Cost, OwedBy(h)) \in Nat
    BY <1>1, <1>2, <1>3, UnitsFinite
<1> QED BY <1>1, <1>2, <1>3, <1>4, <1>5, <1>6 DEF GateType

\* Less is owed once fewer tasks are.
LEMMA OwedShrinks ==
    ASSUME GateType, GateType', Owed' \subseteq Owed
    PROVE  /\ Total(Cost, Owed') <= Total(Cost, Owed)
           /\ \A h : Total(Cost, OwedBy(h)') <= Total(Cost, OwedBy(h))
<1>1. \A t \in Owed : Cost[t] \in Nat
    BY OwedSums
<1>2. Total(Cost, Owed') <= Total(Cost, Owed)
    BY <1>1, OwedSums, TotalMonotone
<1>3. ASSUME NEW h PROVE Total(Cost, OwedBy(h)') <= Total(Cost, OwedBy(h))
    <2>1. OwedBy(h)' \in SUBSET OwedBy(h) /\ \A t \in OwedBy(h) : Cost[t] \in Nat
        BY <1>1 DEF OwedBy
    <2> QED BY <2>1, OwedSums, TotalMonotone
<1> QED BY <1>2, <1>3

\* A step after which no more is owed, nobody has read reservations anew, and
\* what is sent is stored, keeps the promise if it keeps balance and quota.
LEMMA Calm ==
    ASSUME GateType, GateType', Promise, SettlesSent', Owed' \subseteq Owed,
           UNCHANGED <<balance, quota>>, overspent => overspent', overdrawn \subseteq overdrawn',
           \A t \in Tasks :
              /\ gate'[t] \in Between => gate[t] \in Between
              /\ gate'[t] = "sent" => \/ gate[t] = "sent" /\ estimated'[t] = estimated[t]
                                      \/ estimated'[t] = Cost[t]
                                      \/ overspent' /\ Drawn(t) \subseteq overdrawn'
              /\ gate'[t] = "balance" => gate[t] = "balance" /\ seen'[t] = seen[t]
              /\ gate'[t] = "reserved" => \/ gate[t] = "reserved" /\ seen'[t] = seen[t]
                                          \/ \A h \in Drawn(t) \ overdrawn' : seen'[t].quota[h] = quota[h]
    PROVE  Promise'
<1>1. BudgetInv'
    <2> SUFFICES ASSUME ~overspent'
                 PROVE  /\ Orderly(Tasks)'
                        /\ \A t \in Tasks : gate'[t] = "balance" => Total(Cost, Owed') <= seen'[t].reserved
                        /\ Total(Cost, Owed') <= balance'
        BY DEF BudgetInv
    <2>1. /\ Orderly(Tasks)
          /\ \A t \in Tasks : gate[t] = "balance" => Total(Cost, Owed) <= seen[t].reserved
          /\ Total(Cost, Owed) <= balance
        BY DEF Promise, BudgetInv
    <2>2. Orderly(Tasks)'
        BY <2>1 DEF Orderly
    <2>3. Total(Cost, Owed') <= Total(Cost, Owed) /\ Total(Cost, Owed) \in Nat /\ balance \in Int
        BY OwedShrinks, OwedSums DEF GateType
    <2>4. Total(Cost, Owed') \in Nat
        <3>1. Owed' \in SUBSET Owed /\ \A t \in Owed' : Cost[t] \in Nat
            BY OwedSums
        <3>2. IsFiniteSet(Owed')
            BY <3>1, OwedSums, FS_Subset
        <3> QED BY <3>1, <3>2, UnitsFinite
    <2>5. ASSUME NEW t \in Tasks, gate'[t] = "balance" PROVE Total(Cost, Owed') <= seen'[t].reserved
        <3>1. Total(Cost, Owed) <= seen[t].reserved /\ seen'[t].reserved = seen[t].reserved
              /\ seen[t].reserved \in Nat
            BY <2>1, <2>5, OwedSums
        <3> QED BY <2>3, <2>4, <3>1
    <2>6. Total(Cost, Owed') <= balance'
        BY <2>1, <2>3, <2>4
    <2> QED BY <2>2, <2>5, <2>6
<1>2. QuotaInv'
    <2> SUFFICES ASSUME NEW h \in Holders, h \notin overdrawn'
                 PROVE  /\ Orderly(TasksOf(h))'
                        /\ \A t \in TasksOf(h) :
                              /\ gate'[t] = "reserved" => seen'[t].quota[h] = quota'[h]
                              /\ gate'[t] = "balance" =>
                                    seen'[t].quota[h] + Total(Cost, OwedBy(h)') <= quota'[h] + seen'[t].reserved
                        /\ Total(Cost, OwedBy(h)') <= quota'[h]
        BY DEF QuotaInv, TasksOf
    <2>1. /\ Orderly(TasksOf(h))
          /\ \A t \in TasksOf(h) :
                /\ gate[t] = "reserved" => seen[t].quota[h] = quota[h]
                /\ gate[t] = "balance" =>
                      seen[t].quota[h] + Total(Cost, OwedBy(h)) <= quota[h] + seen[t].reserved
          /\ Total(Cost, OwedBy(h)) <= quota[h]
        BY DEF Promise, QuotaInv
    <2>2. Orderly(TasksOf(h))'
        BY <2>1 DEF Orderly, TasksOf
    <2>3. Total(Cost, OwedBy(h)') <= Total(Cost, OwedBy(h)) /\ Total(Cost, OwedBy(h)) \in Nat
          /\ quota[h] \in Nat
        BY OwedShrinks, OwedSums
    <2>4. Total(Cost, OwedBy(h)') \in Nat
        <3>1. OwedBy(h)' \in SUBSET OwedBy(h) /\ \A t \in OwedBy(h)' : Cost[t] \in Nat
            BY OwedSums DEF OwedBy
        <3>2. IsFiniteSet(OwedBy(h)')
            BY <3>1, OwedSums, FS_Subset
        <3> QED BY <3>1, <3>2, UnitsFinite
    <2>5. ASSUME NEW t \in TasksOf(h)
          PROVE  /\ gate'[t] = "reserved" => seen'[t].quota[h] = quota'[h]
                 /\ gate'[t] = "balance" =>
                       seen'[t].quota[h] + Total(Cost, OwedBy(h)') <= quota'[h] + seen'[t].reserved
        <3>1. t \in Tasks /\ h \in Drawn(t) /\ seen[t].quota[h] \in Nat /\ seen[t].reserved \in Nat
            BY OwedSums DEF TasksOf
        <3> QED BY <2>1, <2>3, <2>4, <3>1
    <2> QED BY <2>1, <2>2, <2>3, <2>4, <2>5
<1> QED BY <1>1, <1>2 DEF Promise

\* Reservations cover the unsettled tasks that are stored.
LEMMA Covered ==
    ASSUME GateType, NEW t \in Tasks, NEW R \in SUBSET Owed,
           \A u \in R : u # t /\ Submitter[u] = Submitter[t] /\ estimated[u] = Cost[u]
    PROVE  Total(Cost, R) <= Reservations(t)
<1> DEFINE S == {u \in Tasks \ {t} : Submitter[u] = Submitter[t] /\ task[u] \in InFlight}
<1>1. R \in SUBSET S
    BY DEF Owed
<1>2. IsFiniteSet(S)
    <2>1. S \in SUBSET Tasks
        OBVIOUS
    <2> QED BY <2>1, FS_Subset, HostBillingAssumption
<1>3. /\ \A u \in S : Cost[u] \in Nat /\ estimated[u] \in Nat
      /\ \A u \in R : Cost[u] <= estimated[u]
    BY <1>1, OwedSums
<1>4. Total(Cost, R) <= Total(estimated, S)
    <2> HIDE DEF S
    <2> QED BY <1>1, <1>2, <1>3, TotalMonotone
<1> QED BY <1>4 DEF Reservations

\* The reservations are read: with no overlap, they cover all that is owed.
LEMMA ReadReservationsKeeps ==
    ASSUME GateType, GateType', Promise, NEW t \in Tasks, ReadReservations(t)
    PROVE  Promise'
<1>1. /\ gate[t] = "reserved" /\ gate' = [gate EXCEPT ![t] = "balance"]
      /\ seen' = [seen EXCEPT ![t].reserved = Reservations(t)]
      /\ overspent' = (overspent \/ Unseen(t) # {})
      /\ overdrawn' = overdrawn \cup {h \in Drawn(t) : \E u \in Unseen(t) : h \in Drawn(u)}
      /\ UNCHANGED <<task, estimated, call, balance, quota, rows>>
    BY DEF ReadReservations, callVars, bookVars
<1>2. /\ \A u \in Tasks \ {t} : gate'[u] = gate[u] /\ seen'[u] = seen[u]
      /\ gate'[t] = "balance" /\ seen'[t].quota = seen[t].quota /\ seen'[t].reserved = Reservations(t)
    BY <1>1 DEF GateType
<1>3. Owed' = Owed
    BY <1>1, <1>2 DEF Owed
<1>4. \A h : OwedBy(h)' = OwedBy(h)
    BY <1>3 DEF OwedBy
<1>5. SettlesSent'
    BY <1>1, <1>2, HostBillingAssumption DEF Promise, SettlesSent
<1>6. BudgetInv'
    <2> SUFFICES ASSUME ~overspent'
                 PROVE  /\ Orderly(Tasks)'
                        /\ \A u \in Tasks : gate'[u] = "balance" => Total(Cost, Owed') <= seen'[u].reserved
                        /\ Total(Cost, Owed') <= balance'
        BY DEF BudgetInv
    <2>1. Unseen(t) = {} /\ ~overspent
        BY <1>1
    <2>2. /\ Orderly(Tasks)
          /\ Total(Cost, Owed) <= balance
        BY <2>1 DEF Promise, BudgetInv
    <2>3. \A u \in Tasks \ {t} : gate[u] \notin Between /\ (u \in Owed => Submitter[u] = Submitter[t])
        BY <2>1 DEF Unseen, Between
    <2>4. Orderly(Tasks)'
        <3>1. \A u \in Tasks : gate'[u] \in Between => u = t
            BY <1>2, <2>3
        <3>2. \A u \in Tasks : gate'[u] = "sent" => estimated'[u] = Cost[u]
            BY <1>1, <1>2, <2>2 DEF Orderly
        <3> QED BY <3>1, <3>2 DEF Orderly
    <2>5. Total(Cost, Owed) <= Reservations(t)
        <3>1. \A u \in Owed : u # t /\ Submitter[u] = Submitter[t] /\ estimated[u] = Cost[u]
            BY <1>1, <2>2, <2>3 DEF Owed, Orderly, Between
        <3> QED BY <3>1, Covered
    <2>6. \A u \in Tasks : gate'[u] = "balance" => u = t
        BY <1>2, <2>3 DEF Between
    <2> QED BY <1>1, <1>2, <1>3, <2>2, <2>4, <2>5, <2>6
<1>7. QuotaInv'
    <2> SUFFICES ASSUME NEW h \in Holders, h \notin overdrawn'
                 PROVE  /\ Orderly(TasksOf(h))'
                        /\ \A u \in TasksOf(h) :
                              /\ gate'[u] = "reserved" => seen'[u].quota[h] = quota'[h]
                              /\ gate'[u] = "balance" =>
                                    seen'[u].quota[h] + Total(Cost, OwedBy(h)') <= quota'[h] + seen'[u].reserved
                        /\ Total(Cost, OwedBy(h)') <= quota'[h]
        BY DEF QuotaInv, TasksOf
    <2>1. /\ Orderly(TasksOf(h))
          /\ \A u \in TasksOf(h) :
                /\ gate[u] = "reserved" => seen[u].quota[h] = quota[h]
                /\ gate[u] = "balance" =>
                      seen[u].quota[h] + Total(Cost, OwedBy(h)) <= quota[h] + seen[u].reserved
          /\ Total(Cost, OwedBy(h)) <= quota[h]
        BY <1>1 DEF Promise, QuotaInv
    <2>2. h \in Drawn(t) => \A u \in TasksOf(h) \ {t} : /\ gate[u] \notin Between
                                                        /\ u \in Owed => Submitter[u] = Submitter[t]
        BY <1>1 DEF Unseen, Between, TasksOf
    <2>3. Orderly(TasksOf(h))'
        <3>1. \A u \in TasksOf(h) : gate'[u] \in Between => u = t \/ (h \notin Drawn(t) /\ gate[u] \in Between)
            BY <1>2, <2>2 DEF TasksOf
        <3>2. t \in TasksOf(h) => h \in Drawn(t)
            BY DEF TasksOf
        <3>3. \A u, v \in TasksOf(h) : gate'[u] \in Between /\ gate'[v] \in Between => u = v
            BY <2>1, <3>1, <3>2 DEF Orderly
        <3>4. \A u \in TasksOf(h) : gate'[u] = "sent" => estimated'[u] = Cost[u]
            BY <1>1, <1>2, <2>1 DEF Orderly, TasksOf
        <3> QED BY <3>3, <3>4 DEF Orderly, TasksOf
    <2>4. ASSUME NEW u \in TasksOf(h), u # t
          PROVE  /\ gate'[u] = "reserved" => seen'[u].quota[h] = quota'[h]
                 /\ gate'[u] = "balance" =>
                       seen'[u].quota[h] + Total(Cost, OwedBy(h)') <= quota'[h] + seen'[u].reserved
        BY <1>1, <1>2, <1>4, <2>1, <2>4 DEF TasksOf
    <2>5. ASSUME t \in TasksOf(h)
          PROVE  /\ gate'[t] # "reserved"
                 /\ seen'[t].quota[h] + Total(Cost, OwedBy(h)') <= quota'[h] + seen'[t].reserved
        <3>1. h \in Drawn(t)
            BY <2>5 DEF TasksOf
        <3>2. \A u \in OwedBy(h) : u # t /\ Submitter[u] = Submitter[t] /\ estimated[u] = Cost[u]
            BY <1>1, <2>1, <2>2, <3>1 DEF OwedBy, Owed, Orderly, TasksOf, Between
        <3>3. OwedBy(h) \in SUBSET Owed
            BY DEF OwedBy
        <3>4. Total(Cost, OwedBy(h)) <= Reservations(t)
            BY <3>2, <3>3, Covered
        <3>5. seen'[t].quota[h] = quota[h] /\ seen'[t].reserved = Reservations(t) /\ gate'[t] = "balance"
            BY <1>1, <1>2, <2>1, <2>5
        <3>6. quota[h] \in Nat /\ Total(Cost, OwedBy(h)) \in Nat /\ Reservations(t) \in Nat
            BY <3>1, OwedSums, ReservationsType
        <3> QED BY <1>1, <1>4, <3>4, <3>5, <3>6
    <2>6. Total(Cost, OwedBy(h)') <= quota'[h]
        BY <1>1, <1>4, <2>1
    <2> QED BY <2>3, <2>4, <2>5, <2>6
<1> QED BY <1>5, <1>6, <1>7 DEF Promise

\* A submission passes: what it will cost fits beside what is owed.
LEMMA PassesKeeps ==
    ASSUME GateType, GateType', Promise, NEW t \in Tasks, ReadBalance(t), Sufficient(t)
    PROVE  Promise'
<1>1. /\ gate[t] = "balance" /\ gate' = [gate EXCEPT ![t] = "persist"]
      /\ seen' = [seen EXCEPT ![t] = Nothing]
      /\ UNCHANGED <<task, estimated, call, balance, quota, rows, overspent, overdrawn>>
    BY DEF ReadBalance, callVars, bookVars
<1>2. /\ \A u \in Tasks \ {t} : gate'[u] = gate[u] /\ seen'[u] = seen[u]
      /\ gate'[t] = "persist"
    BY <1>1 DEF GateType
<1>3. t \notin Owed /\ Owed' \subseteq Owed \cup {t}
    BY <1>1, <1>2 DEF Owed
<1>4. \A h : /\ t \notin OwedBy(h)
             /\ OwedBy(h)' \subseteq OwedBy(h) \cup (IF h \in Drawn(t) THEN {t} ELSE {})
    BY <1>3 DEF OwedBy
<1>5. SettlesSent'
    BY <1>1, <1>2, HostBillingAssumption DEF Promise, SettlesSent
<1>6. ASSUME NEW R, IsFiniteSet(R), R \subseteq Owed, t \notin R, NEW N, N \subseteq R \cup {t}
      PROVE  /\ Total(Cost, N) <= Total(Cost, R) + Cost[t]
             /\ Total(Cost, R) \in Nat /\ Total(Cost, N) \in Nat /\ Cost[t] \in Nat
    <2>1. \A u \in R \cup {t} : Cost[u] \in Nat
        BY <1>6, OwedSums
    <2>2. IsFiniteSet(R \cup {t}) /\ IsFiniteSet(N)
        BY <1>6, FS_AddElement, FS_Subset
    <2>3. Total(Cost, R \cup {t}) = Total(Cost, R) + Cost[t]
        BY <1>6, <2>1, TotalAdd
    <2>4. Total(Cost, N) <= Total(Cost, R \cup {t})
        BY <1>6, <2>1, <2>2, TotalMonotone
    <2>5. Total(Cost, N) \in Nat /\ Total(Cost, R) \in Nat
        <3>1. (\A u \in N : Cost[u] \in Nat) /\ (\A u \in R : Cost[u] \in Nat)
            BY <1>6, <2>1
        <3> QED BY <1>6, <2>2, <3>1, UnitsFinite
    <2> QED BY <2>1, <2>3, <2>4, <2>5
<1>7. seen[t].reserved \in Nat /\ (\A h \in Holders : seen[t].quota[h] \in Nat) /\ balance \in Int
    BY OwedSums DEF GateType
<1>8. BudgetInv'
    <2> SUFFICES ASSUME ~overspent
                 PROVE  /\ Orderly(Tasks)'
                        /\ \A u \in Tasks : gate'[u] = "balance" => Total(Cost, Owed') <= seen'[u].reserved
                        /\ Total(Cost, Owed') <= balance'
        BY <1>1 DEF BudgetInv
    <2>1. Orderly(Tasks) /\ Total(Cost, Owed) <= seen[t].reserved
        BY <1>1 DEF Promise, BudgetInv
    <2>2. \A u \in Tasks : gate'[u] \in Between => u = t
        BY <1>1, <1>2, <2>1 DEF Orderly, Between
    <2>3. Orderly(Tasks)'
        <3>1. \A u \in Tasks : gate'[u] = "sent" => estimated'[u] = Cost[u]
            BY <1>1, <1>2, <2>1 DEF Orderly
        <3> QED BY <2>2, <3>1 DEF Orderly
    <2>4. Total(Cost, Owed') <= balance
        <3>1. /\ Total(Cost, Owed') <= Total(Cost, Owed) + Cost[t]
              /\ Total(Cost, Owed) \in Nat /\ Total(Cost, Owed') \in Nat /\ Cost[t] \in Nat
            BY <1>3, <1>6, OwedSums
        <3>2. balance - seen[t].reserved - Cost[t] >= 0
            BY DEF Sufficient
        <3> QED BY <1>7, <2>1, <3>1, <3>2
    <2>5. \A u \in Tasks : gate'[u] # "balance"
        BY <1>2, <2>2 DEF Between
    <2> QED BY <1>1, <2>3, <2>4, <2>5
<1>9. QuotaInv'
    <2> SUFFICES ASSUME NEW h \in Holders, h \notin overdrawn
                 PROVE  /\ Orderly(TasksOf(h))'
                        /\ \A u \in TasksOf(h) :
                              /\ gate'[u] = "reserved" => seen'[u].quota[h] = quota'[h]
                              /\ gate'[u] = "balance" =>
                                    seen'[u].quota[h] + Total(Cost, OwedBy(h)') <= quota'[h] + seen'[u].reserved
                        /\ Total(Cost, OwedBy(h)') <= quota'[h]
        BY <1>1 DEF QuotaInv, TasksOf
    <2>1. /\ Orderly(TasksOf(h))
          /\ \A u \in TasksOf(h) :
                /\ gate[u] = "reserved" => seen[u].quota[h] = quota[h]
                /\ gate[u] = "balance" =>
                      seen[u].quota[h] + Total(Cost, OwedBy(h)) <= quota[h] + seen[u].reserved
          /\ Total(Cost, OwedBy(h)) <= quota[h]
        BY DEF Promise, QuotaInv
    <2>2. \A u \in TasksOf(h) : gate'[u] \in Between => gate[u] \in Between
        BY <1>1, <1>2 DEF Between, TasksOf
    <2>3. Orderly(TasksOf(h))'
        <3>1. \A u \in TasksOf(h) : gate'[u] = "sent" => estimated'[u] = Cost[u]
            BY <1>1, <1>2, <2>1 DEF Orderly, TasksOf
        <3> QED BY <2>1, <2>2, <3>1 DEF Orderly, TasksOf
    <2>4. CASE h \notin Drawn(t)
        <3>1. OwedBy(h)' \subseteq OwedBy(h) /\ OwedBy(h) \subseteq OwedBy(h)'
            BY <1>1, <1>2, <1>4, <2>4 DEF OwedBy, Owed
        <3>2. \A u \in TasksOf(h) : gate'[u] = gate[u] /\ seen'[u] = seen[u]
            BY <1>2, <2>4 DEF TasksOf
        <3>3. OwedBy(h)' = OwedBy(h) /\ quota' = quota
            BY <1>1, <3>1
        <3> QED BY <2>1, <2>3, <3>2, <3>3
    <2>5. CASE h \in Drawn(t)
        <3>1. t \in TasksOf(h)
            BY <2>5 DEF TasksOf
        <3>2. seen[t].quota[h] + Total(Cost, OwedBy(h)) <= quota[h] + seen[t].reserved /\ quota[h] \in Nat
            BY <1>1, <2>1, <3>1, OwedSums
        <3>3. seen[t].quota[h] - seen[t].reserved - Cost[t] >= 0
            BY <2>5 DEF Sufficient
        <3>4. /\ Total(Cost, OwedBy(h)') <= Total(Cost, OwedBy(h)) + Cost[t]
              /\ Total(Cost, OwedBy(h)) \in Nat /\ Total(Cost, OwedBy(h)') \in Nat /\ Cost[t] \in Nat
            BY <1>4, <1>6, <2>5, OwedSums
        <3>5. Total(Cost, OwedBy(h)') <= quota[h]
            BY <1>7, <3>2, <3>3, <3>4
        <3>6. \A u \in TasksOf(h) : gate'[u] # "balance"
            BY <1>1, <1>2, <2>1, <3>1 DEF Orderly, Between, TasksOf
        <3>7. \A u \in TasksOf(h) : gate'[u] = "reserved" => u # t /\ gate[u] = "reserved" /\ seen'[u] = seen[u]
            BY <1>2 DEF TasksOf
        <3> QED BY <1>1, <2>1, <2>3, <3>5, <3>6, <3>7
    <2> QED BY <2>4, <2>5
<1> QED BY <1>5, <1>8, <1>9 DEF Promise

\* A charge within the promise lowers what is owed as much as the balance, and
\* as the quotas it is taken from.
LEMMA CommitKeeps ==
    ASSUME GateType, GateType', BillType, Promise, NEW i \in Ids, Commit(i), UNCHANGED <<task, estimated, gate, seen>>,
           i \in Tasks => gate[i] = "sent", i \in Products => balance >= Cost[i], SettlesSent'
    PROVE  Promise'
<1>1. /\ i \notin rows /\ rows' = rows \cup {i} /\ balance' = balance - Cost[i]
      /\ quota' = [h \in Holders |-> IF h \in Drawn(i) THEN Less(quota[h], Cost[i]) ELSE quota[h]]
      /\ Breaches(i)
    BY DEF Commit
<1>2. Owed' = Owed \ {i} /\ \A h : OwedBy(h)' = OwedBy(h) \ {i}
    BY <1>1 DEF Owed, OwedBy
<1>3. Cost[i] \in Nat \ {0} /\ balance \in Int
    BY HostBillingAssumption DEF GateType
<1>4. i \in Tasks /\ task[i] \in InFlight => i \in Owed
    BY <1>1 DEF Owed
<1>5. Orderly(Tasks)' <=> Orderly(Tasks)
    BY DEF Orderly
<1>6. \A h : Orderly(TasksOf(h))' <=> Orderly(TasksOf(h))
    BY DEF Orderly, TasksOf
<1>7. BudgetInv'
    <2> SUFFICES ASSUME ~overspent'
                 PROVE  /\ Orderly(Tasks)'
                        /\ \A u \in Tasks : gate'[u] = "balance" => Total(Cost, Owed') <= seen'[u].reserved
                        /\ Total(Cost, Owed') <= balance'
        BY DEF BudgetInv
    <2>1. ~overspent /\ (i \in Products => Owed = {}) /\ (i \in Tasks => i \in Owed)
        BY <1>1, <1>4 DEF Breaches
    <2>2. /\ Orderly(Tasks)
          /\ \A u \in Tasks : gate[u] = "balance" => Total(Cost, Owed) <= seen[u].reserved
          /\ Total(Cost, Owed) <= balance
        BY <2>1 DEF Promise, BudgetInv
    <2>3. Total(Cost, Owed) \in Nat /\ \A u \in Tasks : seen[u].reserved \in Nat
        BY OwedSums
    <2>4. CASE i \in Tasks
        <3>1. Total(Cost, Owed') = Total(Cost, Owed) - Cost[i]
            BY <1>2, <2>1, <2>4, OwedSums, TotalRemove
        <3> QED BY <1>1, <1>3, <1>5, <2>2, <2>3, <3>1
    <2>5. CASE i \in Products
        <3>1. Total(Cost, Owed') = 0
            BY <1>2, <2>1, <2>5, TotalEmpty
        <3>2. balance' >= 0
            BY <1>1, <1>3, <2>5
        <3> QED BY <1>5, <2>2, <2>3, <3>1, <3>2
    <2> QED BY <2>4, <2>5 DEF Ids
<1>8. QuotaInv'
    <2> SUFFICES ASSUME NEW h \in Holders, h \notin overdrawn'
                 PROVE  /\ Orderly(TasksOf(h))'
                        /\ \A u \in TasksOf(h) :
                              /\ gate'[u] = "reserved" => seen'[u].quota[h] = quota'[h]
                              /\ gate'[u] = "balance" =>
                                    seen'[u].quota[h] + Total(Cost, OwedBy(h)') <= quota'[h] + seen'[u].reserved
                        /\ Total(Cost, OwedBy(h)') <= quota'[h]
        BY DEF QuotaInv, TasksOf
    <2>0. quota[h] \in Nat /\ (h \in Drawn(i) => i \in Tasks)
        BY OwedSums DEF Drawn
    <2>1. /\ h \notin overdrawn
          /\ h \in Drawn(i) => /\ task[i] \in InFlight
                               /\ \A u \in TasksOf(h) : gate[u] # "reserved"
        BY <1>1, <2>0 DEF Breaches, TasksOf
    <2>2. /\ Orderly(TasksOf(h))
          /\ \A u \in TasksOf(h) :
                /\ gate[u] = "reserved" => seen[u].quota[h] = quota[h]
                /\ gate[u] = "balance" =>
                      seen[u].quota[h] + Total(Cost, OwedBy(h)) <= quota[h] + seen[u].reserved
          /\ Total(Cost, OwedBy(h)) <= quota[h]
        BY <2>1 DEF Promise, QuotaInv
    <2>3. Total(Cost, OwedBy(h)) \in Nat /\ \A u \in TasksOf(h) : seen[u].reserved \in Nat /\ seen[u].quota[h] \in Nat
        BY OwedSums DEF TasksOf
    <2>4. CASE h \in Drawn(i)
        <3>1. i \in OwedBy(h)
            BY <1>4, <2>0, <2>1, <2>4 DEF OwedBy
        <3>2. \A u \in OwedBy(h) : Cost[u] \in Nat
            BY OwedSums
        <3>3. Total(Cost, OwedBy(h)') = Total(Cost, OwedBy(h)) - Cost[i]
            BY <1>2, <3>1, <3>2, OwedSums, TotalRemove
        <3>4. Total(Cost, OwedBy(h)') \in Nat
            <4>1. IsFiniteSet(OwedBy(h) \ {i}) /\ \A u \in OwedBy(h) \ {i} : Cost[u] \in Nat
                BY <3>2, OwedSums, FS_RemoveElement
            <4> QED BY <1>2, <4>1, UnitsFinite
        <3>5. quota'[h] = Less(quota[h], Cost[i])
            BY <1>1, <2>0, <2>4
        <3>6. quota'[h] = quota[h] - Cost[i]
            BY <1>3, <2>0, <2>2, <2>3, <3>3, <3>4, <3>5 DEF Less
        <3> QED BY <1>3, <1>6, <2>0, <2>1, <2>2, <2>3, <2>4, <3>3, <3>6
    <2>5. CASE h \notin Drawn(i)
        <3>1. i \notin OwedBy(h)
            BY <2>5 DEF OwedBy, Owed
        <3>2. OwedBy(h)' = OwedBy(h) /\ quota'[h] = quota[h]
            BY <1>1, <1>2, <2>0, <2>5, <3>1
        <3> QED BY <1>6, <2>2, <3>2
    <2> QED BY <2>4, <2>5
<1> QED BY <1>7, <1>8 DEF Promise

\* A step of a call that charges nothing.
LEMMA NoChargeKeeps ==
    ASSUME GateType, GateType', Promise, SettlesSent',
           UNCHANGED <<task, estimated, gate, seen, balance, quota, rows, overspent, overdrawn>>
    PROVE  Promise'
<1>1. Owed' = Owed
    BY DEF Owed
<1> QED BY <1>1, Calm

LEMMA NextPromise == GateType /\ GateType' /\ BillInv /\ Promise /\ [Next]_vars => Promise'
<1> SUFFICES ASSUME GateType, GateType', BillType, Promise, [Next]_vars PROVE Promise'
    BY DEF BillInv
<1>1. ASSUME NEW t \in Tasks, Move(t) \/ Complete(t) \/ Fail(t) PROVE Promise'
    <2>1. UNCHANGED <<estimated, gate, seen, call, balance, quota, rows, overspent, overdrawn>>
        BY <1>1 DEF Move, Complete, Fail, callVars, bookVars
    <2>2. PICK s : task' = [task EXCEPT ![t] = s] /\ (s \in InFlight => task[t] \in InFlight)
        BY <1>1 DEF Move, Moves, Complete, Fail, InFlight
    <2>3. Owed' \subseteq Owed
        BY <2>1, <2>2 DEF Owed, BillType
    <2>4. SettlesSent'
        BY <2>1 DEF Promise, SettlesSent
    <2> QED BY <2>1, <2>3, <2>4, Calm
<1>2. ASSUME NEW t \in Tasks, LoadSubmitter(t) PROVE Promise'
    <2>1. /\ gate[t] = "idle" /\ UNCHANGED <<task, estimated, call, balance, quota, rows, overspent>>
          /\ overdrawn \subseteq overdrawn'
        BY <1>2 DEF LoadSubmitter, callVars, bookVars
    <2>2. PICK quotas :
             /\ \/ gate' = [gate EXCEPT ![t] = "rejected"] /\ seen' = seen
                \/ gate' = [gate EXCEPT ![t] = "reserved"] /\ seen' = [seen EXCEPT ![t].quota = quotas]
             /\ \A h \in Drawn(t) \ overdrawn' : quotas[h] = quota[h]
        BY <1>2 DEF LoadSubmitter
    <2>3. PICK g \in {"rejected", "reserved"} :
             /\ gate' = [gate EXCEPT ![t] = g]
             /\ g = "reserved" => seen' = [seen EXCEPT ![t].quota = quotas]
             /\ g = "rejected" => seen' = seen
        BY <2>2
    <2>4. \A u \in Tasks : /\ gate'[u] = IF u = t THEN g ELSE gate[u]
                           /\ u # t => seen'[u] = seen[u]
        BY <2>3 DEF GateType
    <2>5. g = "reserved" => \A h \in Drawn(t) \ overdrawn' : seen'[t].quota[h] = quota[h]
        BY <2>2, <2>3 DEF GateType
    <2>6. Owed' = Owed
        BY <2>1, <2>4 DEF Owed
    <2>7. SettlesSent'
        BY <2>1, <2>4, HostBillingAssumption DEF Promise, SettlesSent
    <2> QED BY <2>1, <2>4, <2>5, <2>6, <2>7, Calm DEF Between
<1>8. ASSUME NEW t \in Tasks, SendUnpriced(t) PROVE Promise'
    <2>1. /\ gate[t] = "reserved" /\ seen' = [seen EXCEPT ![t] = Nothing]
          /\ overspent' = TRUE /\ overdrawn' = overdrawn \cup Drawn(t)
          /\ UNCHANGED <<estimated, call, balance, quota, rows>>
        BY <1>8 DEF SendUnpriced, callVars, bookVars
    <2>2. PICK g \in {"sent", "idle"} : gate' = [gate EXCEPT ![t] = g]
        BY <1>8 DEF SendUnpriced
    <2>3. \A u \in Tasks : /\ gate'[u] = IF u = t THEN g ELSE gate[u]
                           /\ u # t => seen'[u] = seen[u] /\ task'[u] = task[u]
        BY <1>8, <2>1, <2>2 DEF SendUnpriced, GateType, BillType
    <2>4. SettlesSent'
        BY <2>1, <2>3, HostBillingAssumption DEF Promise, SettlesSent
    <2>5. BudgetInv'
        BY <2>1 DEF BudgetInv
    <2>6. QuotaInv'
        <3> SUFFICES ASSUME NEW h \in Holders, h \notin overdrawn'
                     PROVE  /\ Orderly(TasksOf(h))'
                            /\ \A u \in TasksOf(h) :
                                  /\ gate'[u] = "reserved" => seen'[u].quota[h] = quota'[h]
                                  /\ gate'[u] = "balance" =>
                                        seen'[u].quota[h] + Total(Cost, OwedBy(h)') <= quota'[h] + seen'[u].reserved
                            /\ Total(Cost, OwedBy(h)') <= quota'[h]
            BY DEF QuotaInv, TasksOf
        <3>1. h \notin Drawn(t) /\ t \notin TasksOf(h) /\ h \notin overdrawn
            BY <2>1 DEF TasksOf
        <3>2. \A u \in TasksOf(h) : gate'[u] = gate[u] /\ seen'[u] = seen[u] /\ estimated'[u] = estimated[u]
            BY <2>1, <2>3, <3>1 DEF TasksOf
        <3>3. OwedBy(h)' = OwedBy(h)
            BY <2>1, <2>3, <3>1 DEF OwedBy, Owed, TasksOf
        <3>4. Orderly(TasksOf(h))'
            BY <3>1, <3>2 DEF Promise, QuotaInv, Orderly, TasksOf
        <3> QED BY <2>1, <3>1, <3>2, <3>3, <3>4 DEF Promise, QuotaInv
    <2> QED BY <2>4, <2>5, <2>6 DEF Promise
<1>3. ASSUME NEW t \in Tasks, ReadBalance(t), ~Sufficient(t) PROVE Promise'
    <2>1. /\ gate[t] = "balance" /\ seen' = [seen EXCEPT ![t] = Nothing]
          /\ gate' = [gate EXCEPT ![t] = "rejected"]
          /\ UNCHANGED <<task, estimated, call, balance, quota, rows, overspent, overdrawn>>
        BY <1>3 DEF ReadBalance, callVars, bookVars
    <2>2. \A u \in Tasks : /\ gate'[u] = IF u = t THEN "rejected" ELSE gate[u]
                           /\ u # t => seen'[u] = seen[u]
        BY <2>1 DEF GateType
    <2>3. Owed' = Owed
        BY <2>1, <2>2 DEF Owed
    <2>4. SettlesSent'
        BY <2>1, <2>2, HostBillingAssumption DEF Promise, SettlesSent
    <2> QED BY <2>1, <2>2, <2>3, <2>4, Calm DEF Between
<1>4. ASSUME NEW t \in Tasks, Send(t) \/ SendFails(t) PROVE Promise'
    <2>1. /\ gate[t] = "persist" /\ Persist(t)
          /\ UNCHANGED <<seen, call, balance, quota, rows>>
        BY <1>4 DEF Send, SendFails, callVars, bookVars
    <2>2. PICK g \in {"sent", "idle"} : /\ gate' = [gate EXCEPT ![t] = g]
                                        /\ g = "sent" => task' = task
                                        /\ g = "idle" => task' = [task EXCEPT ![t] = "retrying"]
        BY <1>4 DEF Send, SendFails
    <2>3. \A u \in Tasks : /\ gate'[u] = IF u = t THEN g ELSE gate[u]
                           /\ u # t => task'[u] = task[u]
        BY <2>2 DEF GateType, BillType
    <2>4. \/ estimated' = [estimated EXCEPT ![t] = Cost[t]] /\ UNCHANGED <<overspent, overdrawn>>
          \/ overspent' = TRUE /\ overdrawn' = overdrawn \cup Drawn(t) /\ UNCHANGED estimated
        BY <2>1 DEF Persist
    <2>5. estimated'[t] = Cost[t] \/ (overspent' /\ Drawn(t) \subseteq overdrawn')
        BY <2>4 DEF GateType, Estimates
    <2>6. \A u \in Tasks : u # t => estimated'[u] = estimated[u]
        BY <2>4 DEF GateType, Estimates
    <2>7. (overspent => overspent') /\ overdrawn \subseteq overdrawn'
        BY <2>4
    <2>8. Owed' \subseteq Owed
        BY <2>1, <2>2, <2>3 DEF Owed
    <2>9. SettlesSent'
        BY <2>1, <2>3, HostBillingAssumption DEF Promise, SettlesSent
    <2> QED BY <2>1, <2>3, <2>5, <2>6, <2>7, <2>8, <2>9, Calm DEF Between
<1>5. ASSUME NEW c \in Calls, BeginTask(c) \/ BeginProduct(c) PROVE Promise'
    <2>1. /\ UNCHANGED <<task, estimated, gate, seen, balance, quota, rows, overspent, overdrawn>>
          /\ Settles[c] \in Tasks => gate[Settles[c]] = "sent"
        BY <1>5, HostBillingAssumption DEF BeginTask, BeginProduct, taskVars, bookVars
    <2>2. PICK x : call' = [call EXCEPT ![c] = x]
        BY <1>5 DEF BeginTask, BeginProduct, Begin, Return
    <2>3. SettlesSent'
        BY <2>1, <2>2 DEF Promise, SettlesSent, BillType
    <2> QED BY <2>1, <2>3, NoChargeKeeps
<1>6. ASSUME NEW c \in Calls, Lookup(c) \/ RecordSync(c) \/ RecordSyncCharge(c) \/ LookupAgain(c)
                              \/ AddWindowCost(c) \/ Interrupt(c)
      PROVE  Promise'
    <2>1. call[c] # "idle" /\ UNCHANGED <<task, estimated, gate, seen>>
        BY <1>6 DEF Lookup, RecordSync, RecordSyncCharge, LookupAgain, AddWindowCost, Interrupt, taskVars
    <2>2. PICK x : call' = [call EXCEPT ![c] = x]
        BY <1>6 DEF Lookup, RecordSync, RecordSyncCharge, LookupAgain, AddWindowCost, Interrupt, Goto, Return
    <2>3. SettlesSent'
        BY <2>1, <2>2 DEF Promise, SettlesSent, BillType
    <2>4. \/ UNCHANGED <<balance, quota, rows, overspent, overdrawn>>
          \/ /\ Commit(Settles[c])
             /\ Settles[c] \in Products => balance >= Cost[Settles[c]]
        BY <1>6, HostBillingAssumption
           DEF Lookup, RecordSync, RecordSyncCharge, LookupAgain, AddWindowCost, Interrupt, NoCommit, bookVars
    <2>5. CASE UNCHANGED <<balance, quota, rows, overspent, overdrawn>>
        BY <2>1, <2>3, <2>5, NoChargeKeeps
    <2>6. CASE Commit(Settles[c]) /\ (Settles[c] \in Products => balance >= Cost[Settles[c]])
        <3>1. Settles[c] \in Ids /\ (Settles[c] \in Tasks => gate[Settles[c]] = "sent")
            BY <2>1, HostBillingAssumption DEF Promise, SettlesSent
        <3> QED BY <2>1, <2>3, <2>6, <3>1, CommitKeeps
    <2> QED BY <2>4, <2>5, <2>6
<1>7. CASE UNCHANGED vars \/ \E s \in Submitters : LoadIdentity(s)
    <2>1. UNCHANGED <<task, estimated, gate, seen, call, balance, quota, rows, overspent, overdrawn>>
        BY <1>7 DEF LoadIdentity, vars, taskVars, callVars, bookVars
    <2>2. SettlesSent'
        BY <2>1 DEF Promise, SettlesSent
    <2> QED BY <2>1, <2>2, NoChargeKeeps
<1> QED BY <1>1, <1>2, <1>3, <1>4, <1>5, <1>6, <1>7, <1>8, ReadReservationsKeeps, PassesKeeps DEF Next

LEMMA GateInvariant == Spec => [](GateType /\ Promise)
<1>1. Init => GateType /\ Promise
    <2> SUFFICES ASSUME Init PROVE GateType /\ Promise
        OBVIOUS
    <2>1. GateType
        BY InitGate
    <2>2. Owed = {} /\ \A h : OwedBy(h) = {}
        BY DEF Init, Owed, OwedBy
    <2>3. SettlesSent
        BY DEF Init, SettlesSent
    <2>4. Orderly(Tasks) /\ \A h : Orderly(TasksOf(h))
        BY DEF Init, Orderly, TasksOf, Between
    <2>5. balance \in Nat /\ \A h \in Holders : quota[h] \in Nat
        BY <2>1, HostBillingAssumption DEF Init, GateType
    <2>6. \A t \in Tasks : gate[t] = "idle"
        BY DEF Init
    <2>7. BudgetInv
        BY <2>2, <2>4, <2>5, <2>6, TotalEmpty DEF BudgetInv
    <2>8. QuotaInv
        <3>1. \A h \in Holders : Total(Cost, OwedBy(h)) <= quota[h]
            <4>1. \A h : Total(Cost, OwedBy(h)) = 0
                BY <2>2, TotalEmpty
            <4> QED BY <2>5, <4>1
        <3>2. \A h : \A t \in TasksOf(h) : gate[t] = "idle"
            BY <2>6 DEF TasksOf
        <3> QED BY <2>4, <3>1, <3>2 DEF QuotaInv
    <2> QED BY <2>1, <2>3, <2>7, <2>8 DEF Promise
<1> QED BY <1>1, NextGate, NextPromise, Invariant, PTL DEF Spec

\* What the payer's unfinished tasks will still cost is covered by its balance,
\* for any number of tasks, submitters and calls, as long as nothing is spent
\* past the gate (host_budget.go, checkSubmissionBudget).
THEOREM BudgetKept == Spec => []BudgetHolds
<1>1. Promise => BudgetHolds
    BY DEF Promise, BudgetInv, BudgetHolds
<1> QED BY <1>1, GateInvariant, PTL

\* The same of the quota of a member or a department, which a submission reads
\* before the estimates of the others (host_budget.go; auth/team.go,
\* MemberRemainingQuota and DepartmentRemainingQuota).
THEOREM QuotaKept == Spec => []QuotaHolds
<1>1. Promise => QuotaHolds
    BY DEF Promise, QuotaInv, OwedBy, QuotaHolds
<1> QED BY <1>1, GateInvariant, PTL
=============================================================================
