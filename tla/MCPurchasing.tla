---------------------------- MODULE MCPurchasing ----------------------------
(* The instance of Purchasing for TLC. *)
EXTENDS Purchasing, TLC

\* A change of the law that takes one category away and adds another.
TwoLaws == <<TaxCategories, (TaxCategories \ {"43"}) \cup {"VAT-NEW"}>>

Good == [tax |-> "43", account |-> <<667, 2>>, text |-> "plain", flaws |-> {}]

\* A right document, and some with one fault each.
SomeDocuments ==
    {Good, [Good EXCEPT !.tax = "VAT-NEW"], [Good EXCEPT !.account = <<665, 0>>],
     [Good EXCEPT !.account = <<220, 0>>], [Good EXCEPT !.flaws = {"currency"}],
     [Good EXCEPT !.flaws = {"quantity"}], [Good EXCEPT !.text = "personal"],
     [Good EXCEPT !.text = "uuid"]}

\* What a behaviour is about: the inbox, posts of
\* imported bills, posts and lists, stock, or a new law.
Scenes ==
    {[events |-> {"deliver", "import", "listInbox", "outage", "fault"}, requests |-> 4],
     [events |-> {"deliver", "import", "post", "fault"}, requests |-> 4],
     [events |-> {"create", "post", "listBills", "fault"}, requests |-> 4],
     [events |-> {"create", "stock", "post", "outage", "fault"}, requests |-> 2],
     [events |-> {"create", "post", "outage", "law"}, requests |-> 2]}

RequestSymmetry == Permutations(Request)
=============================================================================
