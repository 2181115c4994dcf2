--------------------------- MODULE RequestChannel ---------------------------
(***************************************************************************)
(* What CHttpClient promises to the code that calls Get: every request is  *)
(* answered at most once, through its callback, in the order the requests  *)
(* were issued, and none is answered once the client has been shut down.   *)
(***************************************************************************)
EXTENDS Sequences

CONSTANT Request

VARIABLES
    issued,     \* the requests handed over to the channel
    pending,    \* those not answered yet, oldest first
    delivered,  \* the answers the callbacks have seen, oldest first
    open        \* FALSE once the channel is closed

vars == <<issued, pending, delivered, open>>

Answer == [req : Request, ok : BOOLEAN]

Init ==
    /\ issued = {}
    /\ pending = <<>>
    /\ delivered = <<>>
    /\ open = TRUE

Submit(r) ==
    /\ open
    /\ r \notin issued
    /\ issued' = issued \cup {r}
    /\ pending' = Append(pending, r)
    /\ UNCHANGED <<delivered, open>>

\* The answer says whether the request succeeded.
Deliver ==
    /\ open
    /\ pending # <<>>
    /\ \E ok \in BOOLEAN :
          delivered' = Append(delivered, [req |-> Head(pending), ok |-> ok])
    /\ pending' = Tail(pending)
    /\ UNCHANGED <<issued, open>>

Close ==
    /\ open' = FALSE
    /\ UNCHANGED <<issued, pending, delivered>>

Next ==
    \/ \E r \in Request : Submit(r)
    \/ Deliver
    \/ Close

Spec == Init /\ [][Next]_vars
=============================================================================
