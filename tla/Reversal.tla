------------------------------ MODULE Reversal ------------------------------
(***************************************************************************)
(* What the storno saga promises its user, with no messages, tables or     *)
(* faults in sight: a bill has one status, the books either show its       *)
(* STORNO or not, and a reversal is decided by the books while the bill is *)
(* REVERSING and then confirmed or cancelled accordingly.                  *)
(***************************************************************************)
CONSTANT Bill

VARIABLES state,    \* the status of each bill
          stornoed  \* the bills whose STORNO entry is in the books

vars == <<state, stornoed>>

Init ==
    /\ state = [b \in Bill |-> "DRAFT"]
    /\ stornoed = {}

Move(b, from, to) ==
    /\ state[b] = from
    /\ state' = [state EXCEPT ![b] = to]
    /\ UNCHANGED stornoed

PostBill(b) == Move(b, "DRAFT", "POSTED")

PayBill(b) == Move(b, "POSTED", "PAID")

RequestReversal(b) == Move(b, "POSTED", "REVERSING")

BookStorno(b) ==
    /\ state[b] = "REVERSING"
    /\ b \notin stornoed
    /\ stornoed' = stornoed \cup {b}
    /\ UNCHANGED state

ConfirmReversal(b) == b \in stornoed /\ Move(b, "REVERSING", "REVERTED")

CancelReversal(b) == b \notin stornoed /\ Move(b, "REVERSING", "POSTED")

Next == \E b \in Bill :
    \/ PostBill(b) \/ PayBill(b) \/ RequestReversal(b)
    \/ BookStorno(b) \/ ConfirmReversal(b) \/ CancelReversal(b)

Spec == Init /\ [][Next]_vars
=============================================================================
