-------------------------- MODULE MCInvoiceService --------------------------
(* Instances of InvoiceService for TLC. *)
EXTENDS InvoiceService, TLC

\* Every invoice has this many inventory lines.
TwoLines == [i \in Invoice |-> 2]

\* Requests are interchangeable.
RequestSymmetry == Permutations(Request)
=============================================================================
