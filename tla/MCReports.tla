------------------------------ MODULE MCReports ------------------------------
(* A bill of the time before the accounts had their codes, an invoice and   *)
(* an issue, with dates on both sides of the ends of the quarters.          *)
EXTENDS Reports, TLC

CONSTANTS b1, i1, m1, c1

MCAmount == (b1 :> 2) @@ (i1 :> 16) @@ (m1 :> 5)

MCDateOf ==
    (b1 :> [post |-> <<3, 31>>, pay |-> <<4, 1>>, revert |-> <<6, 30>>])
    @@ (i1 :> [post |-> <<3, 31>>, pay |-> <<9, 30>>, revert |-> <<12, 31>>])
    @@ (m1 :> [post |-> <<10, 1>>, pay |-> <<1, 1>>, revert |-> <<1, 1>>])
\* At most one event was sent again with another id: one that posts the
\* invoice, or asks to reverse it.
OneCopy ==
    LET again == {k \in DOMAIN topic : topic[k].copy # c1} IN
    /\ Cardinality(again) <= 1
    /\ \A k \in again : topic[k].type \in {"invoiceCreated", "invoiceRevertRequested"}
=============================================================================
