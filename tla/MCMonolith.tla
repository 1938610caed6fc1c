----------------------------- MODULE MCMonolith -----------------------------
(* The instance of Monolith for TLC. *)
EXTENDS Monolith, TLC

\* What a behaviour is about: commands and their events, with and without
\* Pub/Sub, or reads of rows.
Scenes ==
    {[pubsub |-> FALSE, bills |-> {"b1"}, requests |-> 5,
      events |-> {"create", "post", "reverse", "crash", "fail"}],
     [pubsub |-> TRUE, bills |-> {"b1"}, requests |-> 4,
      events |-> {"create", "post", "reverse", "crash", "refresh"}],
     [pubsub |-> TRUE, bills |-> {"b1", "b2"}, requests |-> 4,
      events |-> {"create", "post", "reverse"}],
     [pubsub |-> FALSE, bills |-> {"b1"}, requests |-> 5,
      events |-> {"create", "post", "reverse", "get", "list"}]}
=============================================================================
