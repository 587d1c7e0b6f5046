------------------------------ MODULE LogicQueue ------------------------------
(***************************************************************************)
(* What the path from the network threads to the logic thread promises     *)
(* (src/DDServerFramework/src/Common/NetThreadSession.h): what happens to a *)
(* connection becomes an event, and the logic thread handles the events one *)
(* at a time, in the order they were reported, every one exactly once.      *)
(***************************************************************************)
EXTENDS Sequences

CONSTANT Event   \* what can be reported: a connection was made, sent data, closed

VARIABLES
    pending,     \* the events reported and not yet handled, oldest first
    handled      \* the events handled, oldest first

vars == <<pending, handled>>

Init == pending = <<>> /\ handled = <<>>

Report(e) ==
    /\ pending' = Append(pending, e)
    /\ UNCHANGED handled

Handle ==
    /\ pending # <<>>
    /\ handled' = Append(handled, Head(pending))
    /\ pending' = Tail(pending)

Next == Handle \/ \E e \in Event : Report(e)

Spec == Init /\ [][Next]_vars /\ WF_vars(Handle)
===============================================================================
