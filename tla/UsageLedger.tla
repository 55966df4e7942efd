---------------------------- MODULE UsageLedger ----------------------------
(***************************************************************************)
(* What the billing recorder promises, with every queue, retry, file and   *)
(* process left out.  A usage record handed to the recorder is pending     *)
(* until one database transaction bills it (its usage_log row and its      *)
(* charge together) or the recorder gives it up (a counted drop, or memory *)
(* lost with its process).  Nothing is billed twice, nothing billed is     *)
(* ever taken back, and a record given up is not billed later.             *)
(***************************************************************************)
EXTENDS Naturals

CONSTANT Records          \* request ids: one usage record each

VARIABLES
    status,               \* status[r]: what has become of record r
    charges               \* charges[r]: how often r's cost left a balance

ledgerVars == <<status, charges>>

Status == {"new", "pending", "billed", "abandoned"}

TypeOK ==
    /\ status \in [Records -> Status]
    /\ charges \in [Records -> Nat]

Init ==
    /\ status = [r \in Records |-> "new"]
    /\ charges = [r \in Records |-> 0]

Become(S, s) == [r \in Records |-> IF r \in S THEN s ELSE status[r]]

\* A caller hands record r over; the recorder may refuse it on the spot.
Accept(r) ==
    /\ status[r] = "new"
    /\ \E s \in {"pending", "abandoned"} : status' = Become({r}, s)
    /\ UNCHANGED charges

\* One transaction bills a batch: all of its records, each once.
Bill(S) ==
    /\ S # {}
    /\ \A r \in S : status[r] = "pending"
    /\ status' = Become(S, "billed")
    /\ charges' = [r \in Records |-> IF r \in S THEN charges[r] + 1 ELSE charges[r]]

\* Pending records are given up.
Abandon(S) ==
    /\ S # {}
    /\ \A r \in S : status[r] = "pending"
    /\ status' = Become(S, "abandoned")
    /\ UNCHANGED charges

Next ==
    \/ \E r \in Records : Accept(r)
    \/ \E S \in SUBSET Records : Bill(S) \/ Abandon(S)

Spec == Init /\ [][Next]_ledgerVars
=============================================================================
