--------------------------- MODULE MCHostBilling ---------------------------
(* A small instance of HostBilling for TLC.                                *)
EXTENDS HostBilling, TLC

CONSTANTS t1, t2, p, m, d, c1, c2, e

\* Two tasks of one member of a department; the quota of either may not cover
\* both.  A product; two calls at a time may settle the first task.
OneMember == [i \in {t1, t2} |-> m]
WithDepartment == m :> {m, d}
Left      == {m :> 4 @@ d :> 3, m :> 2 @@ d :> 3}
Prices    == t1 :> 2 @@ t2 :> 1 @@ p :> 2
Retries   == c1 :> t1 @@ c2 :> t1 @@ e :> p

Symmetric == Permutations({c1, c2})
=============================================================================
