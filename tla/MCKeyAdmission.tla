-------------------------- MODULE MCKeyAdmission ---------------------------
(* A small instance of KeyAdmission for TLC.                               *)
EXTENDS KeyAdmission, TLC

CONSTANTS r, s, a, b

OneEach == r :> a @@ s :> b

\* The key refuses too, for a request may pass the user's limit uncounted.
OneSlot == {[user |-> 1, key |-> 1]}
=============================================================================
