---------------------------- MODULE MCForwarder ----------------------------
(* A small instance of Forwarder for TLC.                                  *)
EXTENDS Forwarder, TLC

CONSTANTS r, s, a1, a2

\* One API key is routed to two groups, the second of both accounts, so that a
\* request can fail at one while the other is full; another key to a group of
\* the first account.
TwoKeys == r :> <<{a2}, {a1, a2}>> @@ s :> <<{a1}>>
One == a1 :> 1 @@ a2 :> 1

Out(kind) == [kind |-> kind, final |-> kind = "success", usage |-> TRUE]
Last(kind) == [kind |-> kind, final |-> TRUE, usage |-> FALSE]

\* The failures of one request release its probe, those of the other may not;
\* one of these comes too late for another attempt.  The success has no usage, the
\* last failure is recorded all the same.
TwoUpstreams ==
    r :> {Last("success"), Out("client")}
    @@ s :> {Out("fault"), Out("transient"), Last("fault")}
=============================================================================
