----------------------------- MODULE MCAiService -----------------------------
(* The instance of AiService for TLC. *)
EXTENDS AiService, TLC

\* Two entries of one tenant, one of which reverses the other, and one of
\* another tenant.
Tenant == "j1" :> "t1" @@ "j2" :> "t1" @@ "j3" :> "t2"
Sums == "j1" :> 2 @@ "j2" :> -1 @@ "j3" :> 1

\* The second bundle has another tax category in place of one of the first.
TwoBundles ==
    <<"ska_account" :> {"a1", "a2"} @@ "compliance_rule" :> {} @@ "tax_category" :> {"c1"},
      "ska_account" :> {"a1", "a2"} @@ "compliance_rule" :> {} @@ "tax_category" :> {"c2"}>>

\* What a behaviour is about: one pod and its events, two pods, the corpus,
\* or questions.
Scenes ==
    {[pods |-> {"p1"}, entries |-> {"j1", "j2"},
      events |-> {"events", "crash", "fail", "fault"}],
     [pods |-> {"p1", "p2"}, entries |-> {"j1"},
      events |-> {"events", "crash", "fault"}],
     [pods |-> {"p1", "p2"}, entries |-> {},
      events |-> {"seed", "store", "law", "crash", "fail"}],
     [pods |-> {"p1"}, entries |-> {"j1", "j3"},
      events |-> {"events", "reply", "seed", "store", "ask"}]}
=============================================================================
