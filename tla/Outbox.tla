------------------------------- MODULE Outbox -------------------------------
(***************************************************************************)
(* The event outbox of the operations service and its dispatcher           *)
(* (services/operations/src/events/cross-service-event.publisher.ts).      *)
(*                                                                         *)
(* publish() saves one row of ops_event_outbox and then calls              *)
(* flushOutbox(); a timer calls flushOutbox() every 1500 ms.  A flush      *)
(* reads a batch of rows that are due, oldest first, and for each of them  *)
(* sends the event to the topic and then marks the row, in two separate    *)
(* awaits.  The isFlushing flag keeps the callers of one process apart;    *)
(* nothing keeps two processes apart.                                      *)
(*                                                                         *)
(* Abstractions: time is the set `due' of rows whose nextAttemptAt has     *)
(* passed; the number of attempts only sets the length of the backoff and  *)
(* is left out; createdAt is the rank in which rows were saved.            *)
(***************************************************************************)
EXTENDS Naturals, Sequences, FiniteSets

CONSTANTS Event,      \* the events publish() can be called with: one row each
          Pod,        \* the processes of the operations deployment
          Caller,     \* concurrent calls of flushOutbox (the timer, publish())
          PodOf,      \* the process a call runs in
          BatchSize,  \* rows read by one flush (50 in the code)
          MaxFaults   \* bound on the failures and crashes of a behaviour

ASSUME OutboxAssumption ==
    /\ PodOf \in [Caller -> Pod]
    /\ IsFiniteSet(Pod)
    /\ BatchSize \in Nat \ {0}
    /\ MaxFaults \in Nat

VARIABLES status,     \* status[e]: the status column, "NONE" before the row exists
          createdAt,  \* createdAt[e]: 0 before the row exists
          due,        \* rows with nextAttemptAt <= now
          isFlushing, \* isFlushing[p]: the flag of process p
          flush,      \* flush[c]: the local state of the call c
          topic,      \* the log operations.events
          faults      \* failures so far

outboxVars == <<status, createdAt, due, isFlushing, flush>>
vars == <<status, createdAt, due, isFlushing, flush, topic, faults>>

\* A call that is not running.
Idle == [at |-> "idle", todo |-> {}]

Saved == {e \in Event : status[e] # "NONE"}
Delivered == {topic[i] : i \in DOMAIN topic}

Init ==
    /\ status = [e \in Event |-> "NONE"]
    /\ createdAt = [e \in Event |-> 0]
    /\ due = {}
    /\ isFlushing = [p \in Pod |-> FALSE]
    /\ flush = [c \in Caller |-> Idle]
    /\ topic = <<>>
    /\ faults = 0

-----------------------------------------------------------------------------
(* One of the failures the code must survive. *)
Fault == faults < MaxFaults /\ faults' = faults + 1

(* publish: the row is saved as PENDING with nextAttemptAt = now. *)
Save(e) ==
    /\ status[e] = "NONE"
    /\ status' = [status EXCEPT ![e] = "PENDING"]
    /\ createdAt' = [createdAt EXCEPT ![e] = Cardinality(Saved) + 1]
    /\ due' = due \cup {e}
    /\ UNCHANGED <<isFlushing, flush, topic, faults>>

(* Mutant: the query leaves the FAILED rows out. *)
ReadyPendingOnly == {e \in due : status[e] = "PENDING"}

(* The rows the query of flushOutbox selects ... *)
Ready == {e \in due : status[e] \in {"PENDING", "FAILED"}}

(* ... and those it takes: order by createdAt, limited to BatchSize. *)
Batch == {e \in Ready :
            Cardinality({f \in Ready : createdAt[f] < createdAt[e]}) < BatchSize}

(* The row the loop of the call c is at: its oldest one that is left. *)
Current(c, e) ==
    /\ e \in flush[c].todo
    /\ \A f \in flush[c].todo : createdAt[e] <= createdAt[f]

(* The end of the loop body: the next row, or the finally clause. *)
Advance(c, e) ==
    LET rest == flush[c].todo \ {e} IN
    IF rest = {}
    THEN /\ flush' = [flush EXCEPT ![c] = Idle]
         /\ isFlushing' = [isFlushing EXCEPT ![PodOf[c]] = FALSE]
    ELSE /\ flush' = [flush EXCEPT ![c] = [at |-> "deliver", todo |-> rest]]
         /\ UNCHANGED isFlushing

(* Mutant: the flag is not tested. *)
StartFlushUnguarded(c) ==
    /\ flush[c].at = "idle"
    /\ Batch # {}
    /\ isFlushing' = [isFlushing EXCEPT ![PodOf[c]] = TRUE]
    /\ flush' = [flush EXCEPT ![c] = [at |-> "deliver", todo |-> Batch]]
    /\ UNCHANGED <<status, createdAt, due, topic, faults>>

(* flushOutbox up to the first delivery.  The flag is tested and set before *)
(* the first await; a flush that finds no row leaves no trace.              *)
StartFlush(c) ==
    /\ flush[c].at = "idle"
    /\ ~isFlushing[PodOf[c]]
    /\ Batch # {}
    /\ isFlushing' = [isFlushing EXCEPT ![PodOf[c]] = TRUE]
    /\ flush' = [flush EXCEPT ![c] = [at |-> "deliver", todo |-> Batch]]
    /\ UNCHANGED <<status, createdAt, due, topic, faults>>

(* deliver: the event is appended to the topic. *)
Deliver(c) ==
    /\ flush[c].at = "deliver"
    /\ \E e \in Event :
         /\ Current(c, e)
         /\ topic' = Append(topic, e)
    /\ flush' = [flush EXCEPT ![c].at = "markPublished"]
    /\ UNCHANGED <<status, createdAt, due, isFlushing, faults>>

(* Mutant: a failed send is only logged, as without an outbox. *)
DeliverErrorSwallowed(c) ==
    /\ flush[c].at = "deliver"
    /\ Fault
    /\ flush' = [flush EXCEPT ![c].at = "markPublished"]
    /\ UNCHANGED <<status, createdAt, due, isFlushing, topic>>

(* deliver throws: the broker refused the event, or it took the event and   *)
(* the acknowledgement was lost.                                            *)
DeliverError(c) ==
    /\ flush[c].at = "deliver"
    /\ Fault
    /\ \/ UNCHANGED topic
       \/ \E e \in Event : Current(c, e) /\ topic' = Append(topic, e)
    /\ flush' = [flush EXCEPT ![c].at = "markFailed"]
    /\ UNCHANGED <<status, createdAt, due, isFlushing>>

(* The row is updated to PUBLISHED with nextAttemptAt null.  The update is  *)
(* by id alone: it does not look at the status the row has by now.          *)
MarkPublished(c) ==
    /\ flush[c].at = "markPublished"
    /\ \E e \in Event :
         /\ Current(c, e)
         /\ status' = [status EXCEPT ![e] = "PUBLISHED"]
         /\ due' = due \ {e}
         /\ Advance(c, e)
    /\ UNCHANGED <<createdAt, topic, faults>>

(* That update throws inside the try: the catch clause takes over.          *)
MarkPublishedError(c) ==
    /\ flush[c].at = "markPublished"
    /\ Fault
    /\ flush' = [flush EXCEPT ![c].at = "markFailed"]
    /\ UNCHANGED <<status, createdAt, due, isFlushing, topic>>

(* The catch clause: FAILED, and nextAttemptAt in the future.               *)
MarkFailed(c) ==
    /\ flush[c].at = "markFailed"
    /\ \E e \in Event :
         /\ Current(c, e)
         /\ status' = [status EXCEPT ![e] = "FAILED"]
         /\ due' = due \ {e}
         /\ Advance(c, e)
    /\ UNCHANGED <<createdAt, topic, faults>>

(* Mutant: the flag is not reset in a finally clause. *)
MarkFailedErrorKeepsFlag(c) ==
    /\ flush[c].at = "markFailed"
    /\ Fault
    /\ flush' = [flush EXCEPT ![c] = Idle]
    /\ UNCHANGED <<status, createdAt, due, isFlushing, topic>>

(* The update of the catch clause throws: the loop is left for the finally  *)
(* clause, the rest of the batch untouched.                                 *)
MarkFailedError(c) ==
    /\ flush[c].at = "markFailed"
    /\ Fault
    /\ flush' = [flush EXCEPT ![c] = Idle]
    /\ isFlushing' = [isFlushing EXCEPT ![PodOf[c]] = FALSE]
    /\ UNCHANGED <<status, createdAt, due, topic>>

(* The backoff of a FAILED row ends. *)
BackoffElapses(e) ==
    /\ status[e] = "FAILED"
    /\ e \notin due
    /\ due' = due \cup {e}
    /\ UNCHANGED <<status, createdAt, isFlushing, flush, topic, faults>>

(* A process stops and starts again: its calls and its flag are gone, the   *)
(* table is not.                                                            *)
RestartDispatcher(p) ==
    /\ isFlushing' = [isFlushing EXCEPT ![p] = FALSE]
    /\ flush' = [c \in Caller |-> IF PodOf[c] = p THEN Idle ELSE flush[c]]

Crash(p) ==
    /\ isFlushing[p]
    /\ Fault
    /\ RestartDispatcher(p)
    /\ UNCHANGED <<status, createdAt, due, topic>>

-----------------------------------------------------------------------------
(* What a call of flushOutbox does, and what can go wrong in it.            *)
Progress(c) == StartFlush(c) \/ Deliver(c) \/ MarkPublished(c) \/ MarkFailed(c)

Trouble(c) == DeliverError(c) \/ MarkPublishedError(c) \/ MarkFailedError(c)

Next ==
    \/ \E e \in Event : Save(e) \/ BackoffElapses(e)
    \/ \E c \in Caller : Progress(c) \/ Trouble(c)
    \/ \E p \in Pod : Crash(p)

Spec == Init /\ [][Next]_vars

(* The timer fires again and again, a call that runs goes on, and a backoff *)
(* ends.  Nothing is assumed of the requests that call publish().           *)
Fairness ==
    /\ \A c \in Caller : WF_vars(Progress(c))
    /\ \A e \in Event : WF_vars(BackoffElapses(e))

FairSpec == Spec /\ Fairness

-----------------------------------------------------------------------------
(* Types of the variables. *)
CallState == [at : {"idle", "deliver", "markPublished", "markFailed"},
              todo : SUBSET Event]

TypeOK ==
    /\ status \in [Event -> {"NONE", "PENDING", "FAILED", "PUBLISHED"}]
    /\ createdAt \in [Event -> Nat]
    /\ due \subseteq Event
    /\ isFlushing \in [Pod -> BOOLEAN]
    /\ flush \in [Caller -> CallState]
    /\ topic \in Seq(Event)
    /\ faults \in 0 .. MaxFaults

(* A row is only marked PUBLISHED once its event is in the topic, whatever  *)
(* fails or crashes between the send and the update.                        *)
PublishedWasDelivered ==
    \A e \in Event : status[e] = "PUBLISHED" => e \in Delivered

(* The flag of a process is up exactly while one of its calls runs: two     *)
(* calls never flush together, and no exception leaves the flag up, which   *)
(* would stop the dispatcher of that process for ever.                      *)
FlagIsHeld ==
    \A p \in Pod :
        LET running == {c \in Caller : PodOf[c] = p /\ flush[c].at # "idle"}
        IN  /\ Cardinality(running) <= 1
            /\ isFlushing[p] <=> running # {}

Count(e) == Cardinality({k \in DOMAIN topic : topic[k] = e})

(* As long as nothing has failed, events reach the topic in the order in    *)
(* which the rows were saved, and no process sends one twice.  It is the    *)
(* isFlushing flag that gives this: without it publish() and the timer of a *)
(* process would send the same batch.                                       *)
InOrderWithoutFaults ==
    faults = 0 =>
        /\ \A i, j \in DOMAIN topic :
              i < j => \/ createdAt[topic[i]] <= createdAt[topic[j]]
                       \/ \E k \in 1 .. i - 1 : topic[k] = topic[j]
        /\ \A e \in Event : Count(e) <= Cardinality(Pod)

(* Every saved row ends up PUBLISHED and stays so: the at-least-once        *)
(* delivery the outbox is there for, provided failures stop.                *)
EventuallyPublished ==
    \A e \in Event : (status[e] # "NONE") ~> [](status[e] = "PUBLISHED")

=============================================================================
