------------------------------ MODULE MCOutbox ------------------------------
(* Instances of Outbox for TLC. *)
EXTENDS Outbox

\* Every process has its timer, and one of them a request that publishes.
TimersAndRequest ==
    (Pod \X {"timer"}) \cup {<<CHOOSE p \in Pod : TRUE, "request">>}

OwnPod == [c \in Caller |-> c[1]]
=============================================================================
