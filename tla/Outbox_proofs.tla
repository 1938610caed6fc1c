---------------------------- MODULE Outbox_proofs ----------------------------
(***************************************************************************)
(* Proofs about the outbox dispatcher, for any set of events, any number   *)
(* of processes and callers, any batch size and any number of faults: the  *)
(* types of its variables, that a row is marked PUBLISHED only once its    *)
(* event is in the topic, that the isFlushing flag keeps the calls of one  *)
(* process apart and never stays up, and that events are sent in order     *)
(* while nothing fails.                                                    *)
(*                                                                         *)
(* The send and the update are separate steps that both ask which row the  *)
(* loop is at.  They mean the same row because no two rows have the same   *)
(* rank (RanksAreDistinct) and a call only holds saved rows (TodoIsSaved); *)
(* SentIsDelivered carries the send over to the update.                    *)
(***************************************************************************)
EXTENDS Outbox, FiniteSetTheorems, TLAPS

SavedIsFinite == IsFiniteSet(Saved)

RanksAreDistinct ==
    /\ \A e \in Saved : createdAt[e] <= Cardinality(Saved)
    /\ \A e, f \in Saved : createdAt[e] = createdAt[f] => e = f

TodoIsSaved == \A c \in Caller : flush[c].todo \subseteq Saved

SentIsDelivered ==
    \A c \in Caller : flush[c].at = "markPublished" =>
        \A e \in Event : Current(c, e) => e \in Delivered

Typed == TypeOK /\ SavedIsFinite /\ TodoIsSaved

Inv == Typed /\ RanksAreDistinct /\ SentIsDelivered /\ PublishedWasDelivered

(* FlagIsHeld, without counting. *)
Runs(c, p) == PodOf[c] = p /\ flush[c].at # "idle"

OneRuns ==
    \A p \in Pod :
        /\ \A c, d \in Caller : Runs(c, p) /\ Runs(d, p) => c = d
        /\ isFlushing[p] <=> \E c \in Caller : Runs(c, p)

-----------------------------------------------------------------------------
(* The step of a row, or of the calls, leaves the set of saved rows alone.  *)
LEMMA MarkKeepsSaved ==
  ASSUME Typed, NEW e \in Saved, NEW st \in {"PENDING", "FAILED", "PUBLISHED"},
         status' = [status EXCEPT ![e] = st]
  PROVE  Saved' = Saved /\ status' \in [Event -> {"NONE", "PENDING", "FAILED", "PUBLISHED"}]
  BY DEF Typed, TypeOK, Saved

(* A call that reaches the end of the loop body holds less than before.     *)
LEMMA AdvanceIsTyped ==
  ASSUME Typed, NEW c \in Caller, NEW e \in Event, Advance(c, e)
  PROVE  /\ flush' \in [Caller -> CallState]
         /\ isFlushing' \in [Pod -> BOOLEAN]
         /\ flush'[c].at \in {"idle", "deliver"}
         /\ \A d \in Caller : flush'[d].todo \subseteq flush[d].todo
         /\ \A d \in Caller \ {c} : flush'[d] = flush[d]
<1>1. flush \in [Caller -> CallState] /\ isFlushing \in [Pod -> BOOLEAN] /\ PodOf[c] \in Pod
  BY OutboxAssumption DEF Typed, TypeOK
<1>2. flush[c].todo \ {e} \subseteq Event /\ flush[c].todo \ {e} \subseteq flush[c].todo
  BY <1>1 DEF CallState
<1>3. [at |-> "deliver", todo |-> flush[c].todo \ {e}] \in CallState /\ Idle \in CallState
  BY <1>2 DEF CallState, Idle
<1>4. CASE flush[c].todo \ {e} = {}
  <2>1. /\ flush' = [flush EXCEPT ![c] = Idle]
        /\ isFlushing' = [isFlushing EXCEPT ![PodOf[c]] = FALSE]
    BY <1>4 DEF Advance
  <2>2. flush'[c] = Idle /\ Idle.at = "idle" /\ Idle.todo = {}
    BY <1>1, <2>1 DEF Idle
  <2> QED
    BY <1>1, <1>3, <2>1, <2>2
<1>5. CASE flush[c].todo \ {e} # {}
  <2>1. /\ flush' = [flush EXCEPT ![c] = [at |-> "deliver", todo |-> flush[c].todo \ {e}]]
        /\ isFlushing' = isFlushing
    BY <1>5 DEF Advance
  <2> QED
    BY <1>1, <1>2, <1>3, <2>1
<1> QED
  BY <1>4, <1>5

(* A step of one call within the loop body. *)
LEMMA StepIsTyped ==
  ASSUME Typed, NEW c \in Caller, NEW step \in {"markPublished", "markFailed"},
         flush' = [flush EXCEPT ![c].at = step]
  PROVE  /\ flush' \in [Caller -> CallState]
         /\ flush'[c].at = step
         /\ \A d \in Caller : flush'[d].todo = flush[d].todo
         /\ \A d \in Caller \ {c} : flush'[d] = flush[d]
<1>1. flush \in [Caller -> CallState]
  BY DEF Typed, TypeOK
<1>2. flush[c] \in CallState
  BY <1>1
<1>3. /\ [flush[c] EXCEPT !.at = step] \in CallState
      /\ [flush[c] EXCEPT !.at = step].at = step
      /\ [flush[c] EXCEPT !.at = step].todo = flush[c].todo
  BY <1>2 DEF CallState
<1>4. flush' = [flush EXCEPT ![c] = [flush[c] EXCEPT !.at = step]]
  OBVIOUS
<1> QED
  BY <1>1, <1>3, <1>4

(* A process that restarts: its calls are idle, the others go on.           *)
LEMMA RestartIsTyped ==
  ASSUME Typed, NEW p \in Pod, RestartDispatcher(p)
  PROVE  /\ flush' \in [Caller -> CallState]
         /\ isFlushing' \in [Pod -> BOOLEAN]
         /\ \A d \in Caller : flush'[d] = Idle \/ flush'[d] = flush[d]
  BY DEF Typed, TypeOK, RestartDispatcher, CallState, Idle

LEMMA TypedInit == Init => Typed
<1> SUFFICES ASSUME Init PROVE Typed
  OBVIOUS
<1>1. Saved = {}
  BY DEF Init, Saved
<1>2. TypeOK
  BY OutboxAssumption DEF Init, TypeOK, CallState, Idle
<1> QED
  BY <1>1, <1>2, FS_EmptySet DEF Typed, SavedIsFinite, TodoIsSaved, Init, Idle

(* What keeps the rows typed when no row is saved. *)
LEMMA SavedKept ==
  ASSUME Typed, TypeOK', Saved' = Saved,
         \A c \in Caller : flush'[c].todo \subseteq flush[c].todo \cup Saved
  PROVE  Typed'
  BY DEF Typed, SavedIsFinite, TodoIsSaved

LEMMA SaveIsTyped ==
  ASSUME Typed, NEW e \in Event, Save(e)
  PROVE  /\ Typed'
         /\ Saved' = Saved \cup {e}
         /\ e \notin Saved
         /\ Cardinality(Saved) \in Nat
         /\ Cardinality(Saved') = Cardinality(Saved) + 1
<1>1. /\ e \notin Saved
      /\ Saved' = Saved \cup {e}
  BY DEF Save, Saved, Typed, TypeOK
<1>2. Cardinality(Saved) \in Nat
  BY FS_CardinalityType DEF Typed, SavedIsFinite
<1>3. IsFiniteSet(Saved') /\ Cardinality(Saved') = Cardinality(Saved) + 1
  BY <1>1, FS_AddElement DEF Typed, SavedIsFinite
<1>4. TypeOK'
  BY <1>2 DEF Save, Typed, TypeOK
<1>5. SavedIsFinite' /\ TodoIsSaved'
  BY <1>1, <1>3 DEF Save, Typed, SavedIsFinite, TodoIsSaved
<1> QED
  BY <1>1, <1>2, <1>3, <1>4, <1>5 DEF Typed

LEMMA StartFlushIsTyped ==
  ASSUME Typed, NEW c \in Caller, StartFlush(c)
  PROVE  /\ Typed'
         /\ Saved' = Saved
         /\ flush'[c].at = "deliver"
         /\ \A d \in Caller \ {c} : flush'[d] = flush[d]
<1>1. Batch \subseteq Saved /\ Batch \subseteq Event
  BY DEF Batch, Ready, Saved, Typed, TypeOK
<1>2. [at |-> "deliver", todo |-> Batch] \in CallState
  BY <1>1 DEF CallState
<1>3. /\ flush' = [flush EXCEPT ![c] = [at |-> "deliver", todo |-> Batch]]
      /\ UNCHANGED <<status, createdAt, due, topic, faults>>
      /\ isFlushing' \in [Pod -> BOOLEAN]
  BY OutboxAssumption DEF StartFlush, Typed, TypeOK
<1>4. flush \in [Caller -> CallState]
  BY DEF Typed, TypeOK
<1>5. flush' \in [Caller -> CallState]
  BY <1>2, <1>3, <1>4
<1>6. Saved' = Saved
  BY <1>3 DEF Saved
<1>7. TypeOK'
  BY <1>3, <1>5 DEF Typed, TypeOK
<1>8. \A d \in Caller : flush'[d].todo \subseteq flush[d].todo \cup Saved
  BY <1>1, <1>3, <1>4
<1> QED
  BY <1>3, <1>4, <1>6, <1>7, <1>8, SavedKept

(* The row the loop is at is one the call holds, so it is saved.            *)
LEMMA CurrentIsSaved ==
  ASSUME Typed, NEW c \in Caller, NEW e \in Event, Current(c, e)
  PROVE  e \in Saved
  BY DEF Typed, TodoIsSaved, Current

LEMMA MarkIsTyped ==
  ASSUME Typed, NEW c \in Caller, NEW e \in Event, NEW st \in {"FAILED", "PUBLISHED"},
         Current(c, e), Advance(c, e), status' = [status EXCEPT ![e] = st],
         due' = due \ {e}, UNCHANGED <<createdAt, topic, faults>>
  PROVE  Typed' /\ Saved' = Saved
<1>1. e \in Saved
  BY CurrentIsSaved
<1>2. /\ Saved' = Saved
      /\ status' \in [Event -> {"NONE", "PENDING", "FAILED", "PUBLISHED"}]
  BY <1>1, MarkKeepsSaved
<1>3. /\ flush' \in [Caller -> CallState]
      /\ isFlushing' \in [Pod -> BOOLEAN]
      /\ \A d \in Caller : flush'[d].todo \subseteq flush[d].todo
  BY AdvanceIsTyped
<1>4. TypeOK'
  BY <1>2, <1>3 DEF Typed, TypeOK
<1> QED
  BY <1>2, <1>3, <1>4, SavedKept

(* Steps that leave every row as it is. *)
LEMMA RowsKept ==
  ASSUME Typed, UNCHANGED <<status, createdAt, due>>,
         flush' \in [Caller -> CallState],
         \A c \in Caller : flush'[c].todo \subseteq flush[c].todo,
         isFlushing' \in [Pod -> BOOLEAN],
         topic' \in Seq(Event),
         faults' \in 0 .. MaxFaults
  PROVE  Typed' /\ Saved' = Saved
<1>1. Saved' = Saved
  BY DEF Saved
<1>2. TypeOK'
  BY DEF Typed, TypeOK
<1> QED
  BY <1>1, <1>2, SavedKept

LEMMA DeliverIsTyped ==
  ASSUME Typed, NEW c \in Caller, Deliver(c)
  PROVE  Typed' /\ Saved' = Saved
<1>1. topic' \in Seq(Event)
  BY DEF Deliver, Typed, TypeOK
<1> QED
  BY <1>1, StepIsTyped, RowsKept DEF Deliver, Typed, TypeOK

LEMMA DeliverErrorIsTyped ==
  ASSUME Typed, NEW c \in Caller, DeliverError(c)
  PROVE  Typed' /\ Saved' = Saved
<1>1. topic' \in Seq(Event)
  <2>1. topic \in Seq(Event)
    BY DEF Typed, TypeOK
  <2>2. CASE UNCHANGED topic
    BY <2>1, <2>2
  <2>3. ASSUME NEW e \in Event, topic' = Append(topic, e) PROVE topic' \in Seq(Event)
    BY <2>1, <2>3
  <2> QED
    BY <2>2, <2>3 DEF DeliverError
<1>2. faults' \in 0 .. MaxFaults
  BY OutboxAssumption DEF DeliverError, Fault, Typed, TypeOK
<1> QED
  BY <1>1, <1>2, StepIsTyped, RowsKept DEF DeliverError, Typed, TypeOK

LEMMA MarkPublishedErrorIsTyped ==
  ASSUME Typed, NEW c \in Caller, MarkPublishedError(c)
  PROVE  Typed' /\ Saved' = Saved
<1>1. faults' \in 0 .. MaxFaults
  BY OutboxAssumption DEF MarkPublishedError, Fault, Typed, TypeOK
<1> QED
  BY <1>1, StepIsTyped, RowsKept DEF MarkPublishedError, Typed, TypeOK

LEMMA MarkFailedErrorIsTyped ==
  ASSUME Typed, NEW c \in Caller, MarkFailedError(c)
  PROVE  /\ Typed' /\ Saved' = Saved
         /\ flush'[c] = Idle
         /\ \A d \in Caller \ {c} : flush'[d] = flush[d]
<1>1. faults' \in 0 .. MaxFaults
  BY OutboxAssumption DEF MarkFailedError, Fault, Typed, TypeOK
<1>2. /\ flush' = [flush EXCEPT ![c] = Idle]
      /\ isFlushing' = [isFlushing EXCEPT ![PodOf[c]] = FALSE]
      /\ UNCHANGED <<status, createdAt, due, topic>>
  BY DEF MarkFailedError
<1>3. flush \in [Caller -> CallState] /\ Idle \in CallState
  BY DEF Typed, TypeOK, Idle, CallState
<1>4. flush' \in [Caller -> CallState] /\ isFlushing' \in [Pod -> BOOLEAN]
  BY <1>2, <1>3 DEF Typed, TypeOK
<1>5. flush'[c] = Idle /\ \A d \in Caller \ {c} : flush'[d] = flush[d]
  BY <1>2, <1>3
<1>6. \A d \in Caller : flush'[d].todo \subseteq flush[d].todo
  BY <1>5 DEF Idle
<1> QED
  BY <1>1, <1>2, <1>4, <1>5, <1>6, RowsKept DEF Typed, TypeOK

LEMMA BackoffIsTyped ==
  ASSUME Typed, NEW e \in Event, BackoffElapses(e)
  PROVE  Typed' /\ Saved' = Saved
<1>1. Saved' = Saved /\ TypeOK'
  BY DEF BackoffElapses, Saved, Typed, TypeOK
<1>2. flush' = flush
  BY DEF BackoffElapses
<1> QED
  BY <1>1, <1>2, SavedKept

LEMMA CrashIsTyped ==
  ASSUME Typed, NEW p \in Pod, Crash(p)
  PROVE  Typed' /\ Saved' = Saved
<1>1. faults' \in 0 .. MaxFaults
  BY OutboxAssumption DEF Crash, Fault, Typed, TypeOK
<1>2. \A d \in Caller : flush'[d].todo \subseteq flush[d].todo
  BY RestartIsTyped DEF Crash, Idle
<1> QED
  BY <1>1, <1>2, RestartIsTyped, RowsKept DEF Crash, Typed, TypeOK

LEMMA TypedStep == Typed /\ [Next]_vars => Typed'
<1> SUFFICES ASSUME Typed, [Next]_vars PROVE Typed'
  OBVIOUS
<1>1. ASSUME NEW e \in Event, Save(e) PROVE Typed'
  BY <1>1, SaveIsTyped
<1>2. ASSUME NEW e \in Event, BackoffElapses(e) PROVE Typed'
  BY <1>2, BackoffIsTyped
<1>3. ASSUME NEW c \in Caller, StartFlush(c) PROVE Typed'
  BY <1>3, StartFlushIsTyped
<1>4. ASSUME NEW c \in Caller, Deliver(c) PROVE Typed'
  BY <1>4, DeliverIsTyped
<1>5. ASSUME NEW c \in Caller, MarkPublished(c) PROVE Typed'
  BY <1>5, MarkIsTyped DEF MarkPublished
<1>6. ASSUME NEW c \in Caller, MarkFailed(c) PROVE Typed'
  BY <1>6, MarkIsTyped DEF MarkFailed
<1>7. ASSUME NEW c \in Caller, DeliverError(c) PROVE Typed'
  BY <1>7, DeliverErrorIsTyped
<1>8. ASSUME NEW c \in Caller, MarkPublishedError(c) PROVE Typed'
  BY <1>8, MarkPublishedErrorIsTyped
<1>9. ASSUME NEW c \in Caller, MarkFailedError(c) PROVE Typed'
  BY <1>9, MarkFailedErrorIsTyped
<1>10. ASSUME NEW p \in Pod, Crash(p) PROVE Typed'
  BY <1>10, CrashIsTyped
<1>11. CASE UNCHANGED vars
  <2>1. Saved' = Saved /\ TypeOK' /\ flush' = flush
    BY <1>11 DEF vars, Saved, Typed, TypeOK
  <2> QED
    BY <2>1, SavedKept
<1> QED
  BY <1>1, <1>2, <1>3, <1>4, <1>5, <1>6, <1>7, <1>8, <1>9, <1>10, <1>11
     DEF Next, Progress, Trouble

(* Every variable of the outbox keeps its type; that ranks are numbers      *)
(* rests on there being finitely many rows at any time.                     *)
THEOREM TypeCorrect == Spec => []TypeOK
<1>1. Init => Typed
  BY TypedInit
<1>2. Typed /\ [Next]_vars => Typed'
  BY TypedStep
<1>3. Typed => TypeOK
  BY DEF Typed
<1> QED
  BY <1>1, <1>2, <1>3, PTL DEF Spec

-----------------------------------------------------------------------------
(* Ranks are handed out in ascending order, so no two rows share one. *)
LEMMA SaveRanks ==
  ASSUME Inv, NEW e \in Event, Save(e)
  PROVE  RanksAreDistinct'
<1>1. /\ Saved' = Saved \cup {e}
      /\ e \notin Saved
      /\ Cardinality(Saved) \in Nat
      /\ Cardinality(Saved') = Cardinality(Saved) + 1
  BY SaveIsTyped DEF Inv
<1>2. createdAt' = [createdAt EXCEPT ![e] = Cardinality(Saved) + 1]
  BY DEF Save
<1>3. createdAt \in [Event -> Nat] /\ Saved \subseteq Event
  BY DEF Inv, Typed, TypeOK, Saved
<1>4. createdAt'[e] = Cardinality(Saved) + 1 /\ (\A f \in Saved : createdAt'[f] = createdAt[f])
  BY <1>1, <1>2, <1>3
<1>5. \A f \in Saved : createdAt[f] \in Nat /\ createdAt[f] <= Cardinality(Saved)
  BY <1>3 DEF Inv, RanksAreDistinct
<1>6. \A f \in Saved' : createdAt'[f] <= Cardinality(Saved')
  BY <1>1, <1>4, <1>5
<1>7. \A f, g \in Saved' : createdAt'[f] = createdAt'[g] => f = g
  <2>1. \A f, g \in Saved : createdAt[f] = createdAt[g] => f = g
    BY DEF Inv, RanksAreDistinct
  <2>2. \A f \in Saved : createdAt'[f] # createdAt'[e]
    BY <1>1, <1>4, <1>5
  <2> QED
    BY <1>1, <1>4, <2>1, <2>2
<1> QED
  BY <1>6, <1>7 DEF RanksAreDistinct

LEMMA RanksKept ==
  ASSUME Inv, Saved' = Saved, createdAt' = createdAt
  PROVE  RanksAreDistinct'
  BY DEF Inv, RanksAreDistinct

(* So the loop of a call is at one row. *)
LEMMA OneIsCurrent ==
  ASSUME Inv, NEW c \in Caller, NEW e \in Event, NEW f \in Event,
         Current(c, e), Current(c, f)
  PROVE  e = f
<1>1. e \in Saved /\ f \in Saved
  BY CurrentIsSaved DEF Inv
<1>2. createdAt[e] \in Nat /\ createdAt[f] \in Nat
  BY DEF Inv, Typed, TypeOK
<1>3. createdAt[e] <= createdAt[f] /\ createdAt[f] <= createdAt[e]
  BY DEF Current
<1> QED
  BY <1>1, <1>2, <1>3 DEF Inv, RanksAreDistinct

LEMMA AppendDelivers ==
  ASSUME topic \in Seq(Event), NEW e \in Event, topic' = Append(topic, e)
  PROVE  Delivered' = Delivered \cup {e}
<1>1. /\ DOMAIN topic' = DOMAIN topic \cup {Len(topic) + 1}
      /\ topic'[Len(topic) + 1] = e
      /\ \A i \in DOMAIN topic : topic'[i] = topic[i]
  OBVIOUS
<1> QED
  BY <1>1 DEF Delivered

(* A step of the call c that ends its wait to mark a row as PUBLISHED, or   *)
(* does not begin it.                                                       *)
LEMMA SentKept ==
  ASSUME Inv, NEW c \in Caller, createdAt' = createdAt,
         Delivered \subseteq Delivered',
         flush'[c].at # "markPublished",
         \A d \in Caller \ {c} : flush'[d] = flush[d]
  PROVE  SentIsDelivered'
<1> SUFFICES ASSUME NEW d \in Caller, flush'[d].at = "markPublished",
                    NEW e \in Event, Current(d, e)'
             PROVE  e \in Delivered'
  BY DEF SentIsDelivered
<1>1. d # c /\ flush'[d] = flush[d]
  OBVIOUS
<1>2. Current(d, e)
  BY <1>1 DEF Current
<1> QED
  BY <1>1, <1>2 DEF Inv, SentIsDelivered

LEMMA PublishedKept ==
  ASSUME Inv, Delivered \subseteq Delivered',
         \A e \in Event : status'[e] = "PUBLISHED" => status[e] = "PUBLISHED"
  PROVE  PublishedWasDelivered'
  BY DEF Inv, PublishedWasDelivered

LEMMA SaveStep == ASSUME Inv, NEW e \in Event, Save(e) PROVE Inv'
<1>1. /\ Typed' /\ Saved' = Saved \cup {e} /\ e \notin Saved
  BY SaveIsTyped DEF Inv
<1>2. /\ status' = [status EXCEPT ![e] = "PENDING"]
      /\ createdAt' = [createdAt EXCEPT ![e] = Cardinality(Saved) + 1]
      /\ flush' = flush /\ topic' = topic
  BY DEF Save
<1>3. Delivered' = Delivered
  BY <1>2 DEF Delivered
<1>4. PublishedWasDelivered'
  BY <1>2, <1>3 DEF Inv, Typed, TypeOK, PublishedWasDelivered
<1>5. \A f \in Saved : createdAt'[f] = createdAt[f]
  BY <1>1, <1>2 DEF Inv, Typed, TypeOK, Saved
<1>6. \A c \in Caller, f \in Event : Current(c, f)' => Current(c, f)
  BY <1>2, <1>5 DEF Inv, Typed, TodoIsSaved, Current
<1>7. SentIsDelivered'
  BY <1>2, <1>3, <1>6 DEF Inv, SentIsDelivered
<1> QED
  BY <1>1, <1>4, <1>7, SaveRanks DEF Inv

LEMMA StartFlushStep == ASSUME Inv, NEW c \in Caller, StartFlush(c) PROVE Inv'
<1>1. /\ Typed' /\ Saved' = Saved
      /\ flush'[c].at = "deliver"
      /\ \A d \in Caller \ {c} : flush'[d] = flush[d]
  BY StartFlushIsTyped DEF Inv
<1>2. UNCHANGED <<status, createdAt, topic>>
  BY DEF StartFlush
<1>3. Delivered' = Delivered
  BY <1>2 DEF Delivered
<1>4. SentIsDelivered' /\ PublishedWasDelivered' /\ RanksAreDistinct'
  BY <1>1, <1>2, <1>3, SentKept, PublishedKept, RanksKept
<1> QED
  BY <1>1, <1>4 DEF Inv

(* The send: the row the loop is at is in the topic from now on.            *)
LEMMA DeliverStep == ASSUME Inv, NEW c \in Caller, Deliver(c) PROVE Inv'
<1>1. Typed' /\ Saved' = Saved
  BY DeliverIsTyped DEF Inv
<1>2. PICK e \in Event : Current(c, e) /\ topic' = Append(topic, e)
  BY DEF Deliver
<1>3. UNCHANGED <<status, createdAt>>
  BY DEF Deliver
<1>4. Delivered' = Delivered \cup {e}
  BY <1>2, AppendDelivers DEF Inv, Typed, TypeOK
<1>5. /\ \A d \in Caller : flush'[d].todo = flush[d].todo
      /\ \A d \in Caller \ {c} : flush'[d] = flush[d]
  BY StepIsTyped DEF Deliver, Inv
<1>6. SentIsDelivered'
  <2> SUFFICES ASSUME NEW d \in Caller, flush'[d].at = "markPublished",
                      NEW f \in Event, Current(d, f)'
               PROVE  f \in Delivered'
    BY DEF SentIsDelivered
  <2>1. Current(d, f)
    BY <1>3, <1>5 DEF Current
  <2>2. CASE d = c
    BY <1>2, <1>4, <2>1, <2>2, OneIsCurrent
  <2>3. CASE d # c
    BY <1>4, <1>5, <2>1, <2>3 DEF Inv, SentIsDelivered
  <2> QED
    BY <2>2, <2>3
<1>7. PublishedWasDelivered' /\ RanksAreDistinct'
  BY <1>1, <1>3, <1>4, PublishedKept, RanksKept
<1> QED
  BY <1>1, <1>6, <1>7 DEF Inv

LEMMA DeliverErrorStep == ASSUME Inv, NEW c \in Caller, DeliverError(c) PROVE Inv'
<1>1. Typed' /\ Saved' = Saved
  BY DeliverErrorIsTyped DEF Inv
<1>2. UNCHANGED <<status, createdAt>>
  BY DEF DeliverError
<1>3. Delivered \subseteq Delivered'
  <2>1. CASE UNCHANGED topic
    BY <2>1 DEF Delivered
  <2>2. ASSUME NEW e \in Event, topic' = Append(topic, e)
        PROVE  Delivered \subseteq Delivered'
    BY <2>2, AppendDelivers DEF Inv, Typed, TypeOK
  <2> QED
    BY <2>1, <2>2 DEF DeliverError
<1>4. /\ flush'[c].at # "markPublished"
      /\ \A d \in Caller \ {c} : flush'[d] = flush[d]
  BY StepIsTyped DEF DeliverError, Inv
<1>5. SentIsDelivered' /\ PublishedWasDelivered' /\ RanksAreDistinct'
  BY <1>1, <1>2, <1>3, <1>4, SentKept, PublishedKept, RanksKept
<1> QED
  BY <1>1, <1>5 DEF Inv

(* The update: the row was sent by this call, or is not marked PUBLISHED.   *)
LEMMA MarkStep ==
  ASSUME Inv, NEW c \in Caller, NEW e \in Event, NEW st \in {"FAILED", "PUBLISHED"},
         Current(c, e), Advance(c, e), status' = [status EXCEPT ![e] = st],
         due' = due \ {e}, UNCHANGED <<createdAt, topic, faults>>,
         st = "PUBLISHED" => flush[c].at = "markPublished"
  PROVE  Inv'
<1>1. Typed' /\ Saved' = Saved
  BY MarkIsTyped DEF Inv
<1>2. Delivered' = Delivered
  BY DEF Delivered
<1>3. st = "PUBLISHED" => e \in Delivered
  BY DEF Inv, SentIsDelivered
<1>4. PublishedWasDelivered'
  BY <1>2, <1>3 DEF Inv, Typed, TypeOK, PublishedWasDelivered
<1>5. /\ flush'[c].at # "markPublished"
      /\ \A d \in Caller \ {c} : flush'[d] = flush[d]
  BY AdvanceIsTyped DEF Inv
<1>6. SentIsDelivered' /\ RanksAreDistinct'
  BY <1>1, <1>2, <1>5, SentKept, RanksKept
<1> QED
  BY <1>1, <1>4, <1>6 DEF Inv

LEMMA MarkPublishedErrorStep ==
  ASSUME Inv, NEW c \in Caller, MarkPublishedError(c) PROVE Inv'
<1>1. Typed' /\ Saved' = Saved
  BY MarkPublishedErrorIsTyped DEF Inv
<1>2. UNCHANGED <<status, createdAt, topic>>
  BY DEF MarkPublishedError
<1>3. Delivered' = Delivered
  BY <1>2 DEF Delivered
<1>4. /\ flush'[c].at # "markPublished"
      /\ \A d \in Caller \ {c} : flush'[d] = flush[d]
  BY StepIsTyped DEF MarkPublishedError, Inv
<1> QED
  BY <1>1, <1>2, <1>3, <1>4, SentKept, PublishedKept, RanksKept DEF Inv

LEMMA MarkFailedErrorStep ==
  ASSUME Inv, NEW c \in Caller, MarkFailedError(c) PROVE Inv'
<1>1. /\ Typed' /\ Saved' = Saved
      /\ flush'[c] = Idle
      /\ \A d \in Caller \ {c} : flush'[d] = flush[d]
  BY MarkFailedErrorIsTyped DEF Inv
<1>2. UNCHANGED <<status, createdAt, topic>>
  BY DEF MarkFailedError
<1>3. Delivered' = Delivered
  BY <1>2 DEF Delivered
<1>4. flush'[c].at # "markPublished"
  BY <1>1 DEF Idle
<1> QED
  BY <1>1, <1>2, <1>3, <1>4, SentKept, PublishedKept, RanksKept DEF Inv

(* Steps that move no call forward: a backoff ends, a process restarts.     *)
LEMMA CallsKept ==
  ASSUME Inv, Typed', Saved' = Saved, UNCHANGED <<status, createdAt, topic>>,
         \A d \in Caller : flush'[d] = Idle \/ flush'[d] = flush[d]
  PROVE  Inv'
<1>1. Delivered' = Delivered
  BY DEF Delivered
<1>2. SentIsDelivered'
  BY <1>1 DEF Inv, SentIsDelivered, Current, Idle
<1> QED
  BY <1>1, <1>2, PublishedKept, RanksKept DEF Inv

LEMMA CrashStep == ASSUME Inv, NEW p \in Pod, Crash(p) PROVE Inv'
  BY CrashIsTyped, RestartIsTyped, CallsKept DEF Crash, Inv

LEMMA BackoffStep == ASSUME Inv, NEW e \in Event, BackoffElapses(e) PROVE Inv'
  BY BackoffIsTyped, CallsKept DEF BackoffElapses, Inv

LEMMA InvStep == Inv /\ [Next]_vars => Inv'
<1> SUFFICES ASSUME Inv, [Next]_vars PROVE Inv'
  OBVIOUS
<1>1. ASSUME NEW e \in Event, Save(e) PROVE Inv'
  BY <1>1, SaveStep
<1>2. ASSUME NEW e \in Event, BackoffElapses(e) PROVE Inv'
  BY <1>2, BackoffStep
<1>3. ASSUME NEW c \in Caller, StartFlush(c) PROVE Inv'
  BY <1>3, StartFlushStep
<1>4. ASSUME NEW c \in Caller, Deliver(c) PROVE Inv'
  BY <1>4, DeliverStep
<1>5. ASSUME NEW c \in Caller, MarkPublished(c) PROVE Inv'
  BY <1>5, MarkStep DEF MarkPublished
<1>6. ASSUME NEW c \in Caller, MarkFailed(c) PROVE Inv'
  BY <1>6, MarkStep DEF MarkFailed
<1>7. ASSUME NEW c \in Caller, DeliverError(c) PROVE Inv'
  BY <1>7, DeliverErrorStep
<1>8. ASSUME NEW c \in Caller, MarkPublishedError(c) PROVE Inv'
  BY <1>8, MarkPublishedErrorStep
<1>9. ASSUME NEW c \in Caller, MarkFailedError(c) PROVE Inv'
  BY <1>9, MarkFailedErrorStep
<1>10. ASSUME NEW p \in Pod, Crash(p) PROVE Inv'
  BY <1>10, CrashStep
<1>11. CASE UNCHANGED vars
  <2>1. Typed' /\ Saved' = Saved
    BY <1>11, TypedStep DEF Inv, vars, Saved
  <2> QED
    BY <1>11, <2>1, CallsKept DEF vars
<1> QED
  BY <1>1, <1>2, <1>3, <1>4, <1>5, <1>6, <1>7, <1>8, <1>9, <1>10, <1>11
     DEF Next, Progress, Trouble

(* A row is marked PUBLISHED only once its event is in the topic, with any  *)
(* number of processes and whatever fails or crashes in between.            *)
THEOREM PublishedIsDelivered == Spec => []PublishedWasDelivered
<1>1. Init => Inv
  <2> SUFFICES ASSUME Init PROVE Inv
    OBVIOUS
  <2>1. Saved = {}
    BY DEF Init, Saved
  <2> QED
    BY <2>1, TypedInit DEF Init, Inv, RanksAreDistinct, SentIsDelivered,
       PublishedWasDelivered, Idle
<1>2. Inv /\ [Next]_vars => Inv'
  BY InvStep
<1>3. Inv => PublishedWasDelivered
  BY DEF Inv
<1> QED
  BY <1>1, <1>2, <1>3, PTL DEF Spec

-----------------------------------------------------------------------------
(* A call that goes on within the loop body keeps the flag, ... *)
LEMMA RunsOn ==
  ASSUME Typed, OneRuns, NEW c \in Caller,
         flush[c].at # "idle", flush'[c].at # "idle", isFlushing' = isFlushing,
         \A d \in Caller \ {c} : flush'[d] = flush[d]
  PROVE  OneRuns'
<1>1. \A d \in Caller, p \in Pod : Runs(d, p)' <=> Runs(d, p)
  BY DEF Runs
<1> QED
  BY <1>1 DEF OneRuns

(* ... and a call that ends takes it down. *)
LEMMA RunsOut ==
  ASSUME Typed, OneRuns, NEW c \in Caller,
         flush[c].at # "idle", flush'[c].at = "idle",
         isFlushing' = [isFlushing EXCEPT ![PodOf[c]] = FALSE],
         \A d \in Caller \ {c} : flush'[d] = flush[d]
  PROVE  OneRuns'
<1>1. PodOf[c] \in Pod /\ isFlushing \in [Pod -> BOOLEAN]
  BY OutboxAssumption DEF Typed, TypeOK
<1>2. \A d \in Caller, p \in Pod : Runs(d, p)' <=> (d # c /\ Runs(d, p))
  BY DEF Runs
<1>3. Runs(c, PodOf[c])
  BY DEF Runs
<1>4. \A d \in Caller : ~Runs(d, PodOf[c])'
  BY <1>1, <1>2, <1>3 DEF OneRuns
<1>5. \A d \in Caller, p \in Pod : p # PodOf[c] => (Runs(d, p)' <=> Runs(d, p))
  BY <1>2 DEF Runs
<1>6. ASSUME NEW p \in Pod
      PROVE  /\ \A d, f \in Caller : Runs(d, p)' /\ Runs(f, p)' => d = f
             /\ isFlushing'[p] <=> \E d \in Caller : Runs(d, p)'
  <2>1. CASE p = PodOf[c]
    BY <1>1, <1>4, <2>1
  <2>2. CASE p # PodOf[c]
    <3>1. isFlushing'[p] = isFlushing[p]
      BY <1>1, <2>2
    <3> QED
      BY <1>5, <2>2, <3>1 DEF OneRuns
  <2> QED
    BY <2>1, <2>2
<1> QED
  BY <1>6 DEF OneRuns

LEMMA AdvanceRuns ==
  ASSUME Typed, OneRuns, NEW c \in Caller, NEW e \in Event, flush[c].at # "idle",
         Advance(c, e)
  PROVE  OneRuns'
<1>1. flush \in [Caller -> CallState]
  BY DEF Typed, TypeOK
<1>2. \A d \in Caller \ {c} : flush'[d] = flush[d]
  BY AdvanceIsTyped
<1>3. CASE flush[c].todo \ {e} = {}
  <2>1. /\ flush' = [flush EXCEPT ![c] = Idle]
        /\ isFlushing' = [isFlushing EXCEPT ![PodOf[c]] = FALSE]
    BY <1>3 DEF Advance
  <2>2. flush'[c].at = "idle"
    BY <1>1, <2>1 DEF Idle
  <2> QED
    BY <1>2, <2>1, <2>2, RunsOut
<1>4. CASE flush[c].todo \ {e} # {}
  <2>1. /\ flush' = [flush EXCEPT ![c] = [at |-> "deliver", todo |-> flush[c].todo \ {e}]]
        /\ isFlushing' = isFlushing
    BY <1>4 DEF Advance
  <2>2. flush'[c].at = "deliver"
    BY <1>1, <2>1
  <2> QED
    BY <1>2, <2>1, <2>2, RunsOn
<1> QED
  BY <1>3, <1>4

(* A call that starts finds the flag down, so none of its process runs.     *)
LEMMA StartFlushRuns ==
  ASSUME Typed, OneRuns, NEW c \in Caller, StartFlush(c)
  PROVE  OneRuns'
<1>1. /\ ~isFlushing[PodOf[c]]
      /\ isFlushing' = [isFlushing EXCEPT ![PodOf[c]] = TRUE]
      /\ flush'[c].at = "deliver"
      /\ \A d \in Caller \ {c} : flush'[d] = flush[d]
  BY StartFlushIsTyped DEF StartFlush
<1>2. PodOf[c] \in Pod /\ isFlushing \in [Pod -> BOOLEAN]
  BY OutboxAssumption DEF Typed, TypeOK
<1>3. \A d \in Caller : ~Runs(d, PodOf[c])
  BY <1>1, <1>2 DEF OneRuns
<1>4. \A d \in Caller : Runs(d, PodOf[c])' <=> d = c
  BY <1>1, <1>3 DEF Runs
<1>5. \A d \in Caller, p \in Pod : p # PodOf[c] => (Runs(d, p)' <=> Runs(d, p))
  BY <1>1 DEF Runs
<1>6. ASSUME NEW p \in Pod
      PROVE  /\ \A d, f \in Caller : Runs(d, p)' /\ Runs(f, p)' => d = f
             /\ isFlushing'[p] <=> \E d \in Caller : Runs(d, p)'
  <2>1. CASE p = PodOf[c]
    BY <1>1, <1>2, <1>4, <2>1
  <2>2. CASE p # PodOf[c]
    <3>1. isFlushing'[p] = isFlushing[p]
      BY <1>1, <1>2, <2>2
    <3> QED
      BY <1>5, <2>2, <3>1 DEF OneRuns
  <2> QED
    BY <2>1, <2>2
<1> QED
  BY <1>6 DEF OneRuns

LEMMA CrashRuns ==
  ASSUME Typed, OneRuns, NEW p \in Pod, Crash(p)
  PROVE  OneRuns'
<1>1. /\ isFlushing' = [isFlushing EXCEPT ![p] = FALSE]
      /\ flush' = [c \in Caller |-> IF PodOf[c] = p THEN Idle ELSE flush[c]]
  BY DEF Crash, RestartDispatcher
<1>2. \A c \in Caller, q \in Pod : Runs(c, q)' <=> (q # p /\ Runs(c, q))
  BY <1>1 DEF Runs, Idle
<1>3. isFlushing \in [Pod -> BOOLEAN]
  BY DEF Typed, TypeOK
<1>4. ASSUME NEW q \in Pod
      PROVE  /\ \A d, f \in Caller : Runs(d, q)' /\ Runs(f, q)' => d = f
             /\ isFlushing'[q] <=> \E d \in Caller : Runs(d, q)'
  <2>1. CASE q = p
    BY <1>1, <1>2, <1>3, <2>1
  <2>2. CASE q # p
    <3>1. isFlushing'[q] = isFlushing[q]
      BY <1>1, <1>3, <2>2
    <3> QED
      BY <1>2, <2>2, <3>1 DEF OneRuns
  <2> QED
    BY <2>1, <2>2
<1> QED
  BY <1>4 DEF OneRuns

LEMMA OneRunsStep == Typed /\ OneRuns /\ [Next]_vars => OneRuns'
<1> SUFFICES ASSUME Typed, OneRuns, [Next]_vars PROVE OneRuns'
  OBVIOUS
<1>1. ASSUME UNCHANGED <<flush, isFlushing>> PROVE OneRuns'
  BY <1>1 DEF OneRuns, Runs
<1>2. ASSUME NEW e \in Event, Save(e) \/ BackoffElapses(e) PROVE OneRuns'
  BY <1>1, <1>2 DEF Save, BackoffElapses
<1>3. ASSUME NEW c \in Caller, StartFlush(c) PROVE OneRuns'
  BY <1>3, StartFlushRuns
<1>4. ASSUME NEW c \in Caller, Deliver(c) PROVE OneRuns'
  BY <1>4, StepIsTyped, RunsOn DEF Deliver
<1>5. ASSUME NEW c \in Caller, MarkPublished(c) PROVE OneRuns'
  BY <1>5, AdvanceRuns DEF MarkPublished
<1>6. ASSUME NEW c \in Caller, MarkFailed(c) PROVE OneRuns'
  BY <1>6, AdvanceRuns DEF MarkFailed
<1>7. ASSUME NEW c \in Caller, DeliverError(c) PROVE OneRuns'
  BY <1>7, StepIsTyped, RunsOn DEF DeliverError
<1>8. ASSUME NEW c \in Caller, MarkPublishedError(c) PROVE OneRuns'
  BY <1>8, StepIsTyped, RunsOn DEF MarkPublishedError
<1>9. ASSUME NEW c \in Caller, MarkFailedError(c) PROVE OneRuns'
  <2>1. /\ flush[c].at # "idle"
        /\ isFlushing' = [isFlushing EXCEPT ![PodOf[c]] = FALSE]
        /\ \A d \in Caller \ {c} : flush'[d] = flush[d]
        /\ flush'[c] = Idle
    BY <1>9, MarkFailedErrorIsTyped DEF MarkFailedError
  <2>2. flush'[c].at = "idle"
    BY <2>1 DEF Idle
  <2> QED
    BY <2>1, <2>2, RunsOut
<1>10. ASSUME NEW p \in Pod, Crash(p) PROVE OneRuns'
  BY <1>10, CrashRuns
<1>11. CASE UNCHANGED vars
  BY <1>1, <1>11 DEF vars
<1> QED
  BY <1>2, <1>3, <1>4, <1>5, <1>6, <1>7, <1>8, <1>9, <1>10, <1>11
     DEF Next, Progress, Trouble

LEMMA OneRunsSuffices == OneRuns => FlagIsHeld
<1> SUFFICES ASSUME OneRuns, NEW p \in Pod
             PROVE  LET running == {c \in Caller : PodOf[c] = p /\ flush[c].at # "idle"}
                    IN  /\ Cardinality(running) <= 1
                        /\ isFlushing[p] <=> running # {}
  BY DEF FlagIsHeld
<1> DEFINE running == {c \in Caller : PodOf[c] = p /\ flush[c].at # "idle"}
<1>1. running = {c \in Caller : Runs(c, p)}
  BY DEF Runs
<1>2. \A c, d \in running : c = d
  BY <1>1 DEF OneRuns
<1>3. isFlushing[p] <=> running # {}
  BY <1>1 DEF OneRuns
<1> HIDE DEF running
<1>4. Cardinality(running) <= 1
  <2>1. CASE running = {}
    BY <2>1, FS_EmptySet
  <2>2. ASSUME NEW c \in running PROVE Cardinality(running) <= 1
    <3>1. running = {c}
      BY <1>2
    <3>2. Cardinality(running) = 1
      BY <3>1, FS_Singleton
    <3> QED
      BY <3>2
  <2> QED
    BY <2>1, <2>2
<1> QED
  BY <1>3, <1>4 DEF running

(* Of the calls of one process at most one flushes, and the flag is up      *)
(* exactly while one does: no error and no crash leaves it up.              *)
THEOREM FlagIsSound == Spec => []FlagIsHeld
<1>1. Init => Typed /\ OneRuns
  BY TypedInit, OutboxAssumption DEF Init, OneRuns, Runs, Idle
<1>2. Typed /\ OneRuns /\ [Next]_vars => (Typed /\ OneRuns)'
  BY TypedStep, OneRunsStep
<1>3. Typed /\ OneRuns => FlagIsHeld
  BY OneRunsSuffices
<1> QED
  BY <1>1, <1>2, <1>3, PTL DEF Spec

-----------------------------------------------------------------------------
(* Order, as long as nothing has failed.  A row that is not PUBLISHED is    *)
(* due then (NothingFailed), so a batch leaves out no older row that was    *)
(* not sent yet (BatchIsNext), and what is sent for the first time is sent  *)
(* after all that is older (FirstsAreInOrder).  A process sends an event    *)
(* once, since it marks it PUBLISHED before it reads another batch: with    *)
(* each send there is one process fewer that may send it (SendsAreLeft).    *)
NothingFailed ==
    /\ \A e \in Event : status[e] # "FAILED" /\ (status[e] = "PENDING" => e \in due)
    /\ \A c \in Caller : flush[c].at # "markFailed"
    /\ \A c \in Caller : flush[c].at = "idle" => flush[c].todo = {}

DeliveredIsSaved == \A i \in DOMAIN topic : topic[i] \in Saved

FirstsAreInOrder ==
    \A i \in DOMAIN topic : \A f \in Saved : createdAt[f] < createdAt[topic[i]] =>
        \E k \in 1 .. i - 1 : topic[k] = f

BatchIsNext ==
    \A c \in Caller : \A e \in flush[c].todo : \A f \in Saved :
        createdAt[f] < createdAt[e] => f \in Delivered \cup flush[c].todo

HasSent(c, e) == flush[c].at = "markPublished" /\ Current(c, e)

\* The processes that may send the event (once more).
MaySend(e) ==
    {p \in Pod : IF status[e] = "PUBLISHED"
                 THEN \E c \in Caller : PodOf[c] = p /\ e \in flush[c].todo /\ ~HasSent(c, e)
                 ELSE \A c \in Caller : PodOf[c] = p => ~HasSent(c, e)}

SendsAreLeft == \A e \in Event : Count(e) + Cardinality(MaySend(e)) <= Cardinality(Pod)

Smooth == NothingFailed /\ DeliveredIsSaved /\ FirstsAreInOrder /\ BatchIsNext /\ SendsAreLeft

OrderInv == Inv /\ OneRuns /\ (faults = 0 => Smooth)

(* What ranks are. *)
LEMMA RanksAreNumbers ==
  ASSUME Inv
  PROVE  /\ Saved \subseteq Event
         /\ createdAt \in [Event -> Nat] /\ topic \in Seq(Event)
         /\ \A c \in Caller : flush[c].todo \subseteq Saved
         /\ Cardinality(Saved) \in Nat
  BY FS_CardinalityType DEF Inv, Typed, TypeOK, Saved, SavedIsFinite, TodoIsSaved

(* A call that holds rows is the only one of its process that does. *)
LEMMA HoldersAreOne ==
  ASSUME OneRuns, NothingFailed, NEW c \in Caller, NEW d \in Caller,
         PodOf[c] = PodOf[d], flush[c].todo # {}, flush[d].todo # {}
  PROVE  c = d
<1>1. PodOf[c] \in Pod
  BY OutboxAssumption
<1>2. Runs(c, PodOf[c]) /\ Runs(d, PodOf[c])
  BY DEF Runs, NothingFailed
<1> QED
  BY <1>1, <1>2 DEF OneRuns

(* Counting. *)
LEMMA CountIs ==
  ASSUME topic \in Seq(Event), NEW e
  PROVE  IsFiniteSet({k \in DOMAIN topic : topic[k] = e}) /\ Count(e) \in Nat
<1>1. IsFiniteSet(1 .. Len(topic))
  BY FS_Interval
<1>2. {k \in DOMAIN topic : topic[k] = e} \in SUBSET (1 .. Len(topic))
  OBVIOUS
<1> QED
  BY <1>1, <1>2, FS_Subset, FS_CardinalityType DEF Count

LEMMA CountOfAppend ==
  ASSUME topic \in Seq(Event), NEW e \in Event, topic' = Append(topic, e), NEW x
  PROVE  Count(x)' = IF x = e THEN Count(x) + 1 ELSE Count(x)
<1> DEFINE S == {k \in DOMAIN topic : topic[k] = x}
<1>1. /\ DOMAIN topic' = DOMAIN topic \cup {Len(topic) + 1}
      /\ Len(topic) + 1 \notin DOMAIN topic
      /\ topic'[Len(topic) + 1] = e
      /\ \A i \in DOMAIN topic : topic'[i] = topic[i]
  OBVIOUS
<1>2. IsFiniteSet(S) /\ Count(x) = Cardinality(S)
  BY CountIs DEF Count
<1>3. {k \in DOMAIN topic' : topic'[k] = x} =
         IF x = e THEN S \cup {Len(topic) + 1} ELSE S
  BY <1>1
<1>4. Count(x)' = Cardinality(IF x = e THEN S \cup {Len(topic) + 1} ELSE S)
  BY <1>3 DEF Count
<1>5. Len(topic) + 1 \notin S
  BY <1>1
<1> HIDE DEF S
<1>6. Cardinality(S \cup {Len(topic) + 1}) = Cardinality(S) + 1
  BY <1>2, <1>5, FS_AddElement
<1> QED
  BY <1>2, <1>4, <1>6

LEMMA MaySendIs ==
  ASSUME NEW e
  PROVE  /\ MaySend(e) \subseteq Pod
         /\ IsFiniteSet(MaySend(e)) /\ Cardinality(MaySend(e)) \in Nat
         /\ Cardinality(Pod) \in Nat
<1>1. MaySend(e) \in SUBSET Pod
  BY DEF MaySend
<1> QED
  BY <1>1, OutboxAssumption, FS_Subset, FS_CardinalityType

(* A step that sends nothing and lets no process send once more. *)
LEMMA SendsKept ==
  ASSUME Inv, SendsAreLeft, topic' = topic,
         \A e \in Event : MaySend(e)' \subseteq MaySend(e)
  PROVE  SendsAreLeft'
<1> SUFFICES ASSUME NEW e \in Event
             PROVE  Count(e)' + Cardinality(MaySend(e)') <= Cardinality(Pod)
  BY DEF SendsAreLeft
<1>1. Count(e)' = Count(e) /\ Count(e) \in Nat
  BY CountIs, RanksAreNumbers DEF Count
<1>2. /\ Cardinality(MaySend(e)') <= Cardinality(MaySend(e))
      /\ Cardinality(MaySend(e)') \in Nat /\ Cardinality(MaySend(e)) \in Nat
      /\ Cardinality(Pod) \in Nat
  BY MaySendIs, FS_Subset, FS_CardinalityType
<1>3. Count(e) + Cardinality(MaySend(e)) <= Cardinality(Pod)
  BY DEF SendsAreLeft
<1> HIDE DEF Count, MaySend
<1> QED
  BY <1>1, <1>2, <1>3

(* A new row is younger than all others. *)
LEMMA SmoothSave ==
  ASSUME Inv, OneRuns, Smooth, NEW e \in Event, Save(e)
  PROVE  Smooth'
<1>1. /\ Saved' = Saved \cup {e} /\ e \notin Saved
      /\ status' = [status EXCEPT ![e] = "PENDING"]
      /\ createdAt' = [createdAt EXCEPT ![e] = Cardinality(Saved) + 1]
      /\ due' = due \cup {e} /\ UNCHANGED <<flush, topic>>
      /\ status \in [Event -> {"NONE", "PENDING", "FAILED", "PUBLISHED"}]
      /\ status[e] = "NONE"
  BY SaveIsTyped DEF Save, Inv, Typed, TypeOK
<1>2. /\ \A f \in Saved : createdAt'[f] = createdAt[f] /\ createdAt'[f] < createdAt'[e]
      /\ \A f \in Saved' : createdAt'[f] \in Nat
  BY <1>1, RanksAreNumbers DEF Inv, RanksAreDistinct
<1>3. NothingFailed'
  BY <1>1 DEF Smooth, NothingFailed
<1>4. DeliveredIsSaved'
  BY <1>1 DEF Smooth, DeliveredIsSaved
<1>5. FirstsAreInOrder'
  BY <1>1, <1>2 DEF Smooth, FirstsAreInOrder, DeliveredIsSaved
<1>6. BatchIsNext'
  BY <1>1, <1>2, RanksAreNumbers DEF Smooth, BatchIsNext, Delivered
<1>7. \A c \in Caller, x \in Event : Current(c, x)' <=> Current(c, x)
  BY <1>1, <1>2, RanksAreNumbers DEF Current
<1>8. \A x \in Event : MaySend(x)' \subseteq MaySend(x)
  BY <1>1, <1>7 DEF MaySend, HasSent
<1> QED
  BY <1>1, <1>3, <1>4, <1>5, <1>6, <1>8, SendsKept DEF Smooth

(* A batch is closed under older rows that are ready. *)
LEMMA BatchIsClosed ==
  ASSUME Inv, NEW e \in Batch, NEW f \in Ready, createdAt[f] < createdAt[e]
  PROVE  f \in Batch
<1> DEFINE Older(x) == {g \in Ready : createdAt[g] < createdAt[x]}
<1>1. Ready \subseteq Saved /\ \A g \in Ready : createdAt[g] \in Nat
  BY RanksAreNumbers DEF Ready, Saved, Inv, Typed, TypeOK
<1>2. e \in Ready /\ Cardinality(Older(e)) < BatchSize
  BY DEF Batch
<1>3. Older(f) \subseteq Older(e) /\ Older(e) \subseteq Saved
  BY <1>1, <1>2
<1>4. IsFiniteSet(Saved)
  BY DEF Inv, Typed, SavedIsFinite
<1> HIDE DEF Older
<1>5. IsFiniteSet(Older(e)) /\ IsFiniteSet(Older(f))
  BY <1>3, <1>4, FS_Subset
<1>6. /\ Cardinality(Older(f)) <= Cardinality(Older(e))
      /\ Cardinality(Older(f)) \in Nat /\ Cardinality(Older(e)) \in Nat
  BY <1>3, <1>5, FS_Subset, FS_CardinalityType
<1>7. Cardinality(Older(f)) < BatchSize
  BY <1>2, <1>6, OutboxAssumption
<1> QED
  BY <1>7 DEF Batch, Older

LEMMA SmoothStart ==
  ASSUME Inv, OneRuns, Smooth, NEW c \in Caller, StartFlush(c)
  PROVE  Smooth'
<1>1. /\ Saved' = Saved /\ UNCHANGED <<status, createdAt, due, topic>>
      /\ flush[c].at = "idle" /\ flush'[c].at = "deliver"
      /\ flush' = [flush EXCEPT ![c] = [at |-> "deliver", todo |-> Batch]]
      /\ \A d \in Caller \ {c} : flush'[d] = flush[d]
      /\ flush \in [Caller -> CallState]
  BY StartFlushIsTyped DEF StartFlush, Inv, Typed, TypeOK
<1>2. flush'[c].todo = Batch
  BY <1>1
<1>3. NothingFailed'
  BY <1>1 DEF Smooth, NothingFailed
<1>4. DeliveredIsSaved' /\ FirstsAreInOrder'
  BY <1>1 DEF Smooth, DeliveredIsSaved, FirstsAreInOrder
<1>5. ASSUME NEW e \in Batch, NEW f \in Saved, createdAt[f] < createdAt[e]
      PROVE  f \in Delivered \cup Batch
  <2>1. CASE f \in Ready
    BY <1>5, <2>1, BatchIsClosed
  <2>2. CASE f \notin Ready
    <3>1. f \in Event /\ status[f] \in {"PENDING", "FAILED", "PUBLISHED"}
      BY DEF Saved, Inv, Typed, TypeOK
    <3>2. status[f] = "PUBLISHED"
      BY <2>2, <3>1 DEF Ready, Smooth, NothingFailed
    <3> QED
      BY <3>1, <3>2 DEF Inv, PublishedWasDelivered
  <2> QED
    BY <2>1, <2>2
<1>6. BatchIsNext'
  BY <1>1, <1>2, <1>5 DEF Smooth, BatchIsNext, Delivered
<1>7. \A d \in Caller, x \in Event : HasSent(d, x)' <=> HasSent(d, x)
  BY <1>1 DEF HasSent, Current
<1>8. \A x \in Event : status[x] = "PUBLISHED" => x \notin flush'[c].todo
  BY <1>2 DEF Batch, Ready
<1>9. \A x \in Event : MaySend(x)' \subseteq MaySend(x)
  BY <1>1, <1>7, <1>8 DEF MaySend
<1> QED
  BY <1>1, <1>3, <1>4, <1>6, <1>9, SendsKept DEF Smooth

(* A send: all that is older is in the topic, and one process fewer may     *)
(* send the event.                                                          *)
LEMMA SmoothDeliver ==
  ASSUME Inv, OneRuns, Smooth, NEW c \in Caller, Deliver(c)
  PROVE  Smooth'
<1>1. PICK e \in Event : Current(c, e) /\ topic' = Append(topic, e)
  BY DEF Deliver
<1>2. /\ Saved' = Saved /\ UNCHANGED <<status, createdAt, due>>
      /\ flush[c].at = "deliver" /\ flush'[c].at = "markPublished"
      /\ \A d \in Caller : flush'[d].todo = flush[d].todo
      /\ \A d \in Caller \ {c} : flush'[d] = flush[d]
  BY DeliverIsTyped, StepIsTyped DEF Deliver, Inv
<1>3. e \in Saved /\ e \in flush[c].todo
  BY <1>1, RanksAreNumbers DEF Current
<1>4. /\ topic \in Seq(Event) /\ Len(topic) \in Nat
      /\ DOMAIN topic = 1 .. Len(topic)
      /\ DOMAIN topic' = DOMAIN topic \cup {Len(topic) + 1}
      /\ topic'[Len(topic) + 1] = e
      /\ \A i \in DOMAIN topic : topic'[i] = topic[i]
  BY <1>1, RanksAreNumbers
<1>5. Delivered' = Delivered \cup {e}
  BY <1>1, <1>4, AppendDelivers
<1>6. NothingFailed'
  BY <1>2 DEF Smooth, NothingFailed
<1>7. DeliveredIsSaved'
  BY <1>2, <1>3, <1>4 DEF Smooth, DeliveredIsSaved
<1>8. FirstsAreInOrder'
  <2> SUFFICES ASSUME NEW i \in DOMAIN topic', NEW f \in Saved,
                      createdAt[f] < createdAt[topic'[i]]
               PROVE  \E k \in 1 .. i - 1 : topic'[k] = f
    BY <1>2 DEF FirstsAreInOrder
  <2>1. CASE i \in DOMAIN topic
    <3>1. PICK k \in 1 .. i - 1 : topic[k] = f
      BY <1>4, <2>1 DEF Smooth, FirstsAreInOrder
    <3> QED
      BY <1>4, <2>1, <3>1
  <2>2. CASE i = Len(topic) + 1
    <3>1. createdAt[f] < createdAt[e] /\ createdAt[f] \in Nat /\ createdAt[e] \in Nat
      BY <1>3, <1>4, <2>2, RanksAreNumbers
    <3>2. f \notin flush[c].todo
      BY <1>1, <3>1 DEF Current
    <3>3. f \in Delivered
      BY <1>3, <3>1, <3>2 DEF Smooth, BatchIsNext
    <3>4. PICK k \in DOMAIN topic : topic[k] = f
      BY <3>3 DEF Delivered
    <3> QED
      BY <1>4, <2>2, <3>4
  <2> QED
    BY <1>4, <2>1, <2>2
<1>9. BatchIsNext'
  BY <1>2, <1>5 DEF Smooth, BatchIsNext
<1>10. \A d \in Caller, x \in Event : Current(d, x)' <=> Current(d, x)
  BY <1>2 DEF Current
<1>11. /\ \A d \in Caller, x \in Event : HasSent(d, x) => HasSent(d, x)'
       /\ HasSent(c, e)' /\ ~HasSent(c, e)
  BY <1>1, <1>2, <1>10 DEF HasSent
<1>12. \A x \in Event : MaySend(x)' \subseteq MaySend(x)
  BY <1>2, <1>11 DEF MaySend
<1>13. PodOf[c] \in MaySend(e)
  <2>1. PodOf[c] \in Pod
    BY OutboxAssumption
  <2>2. CASE status[e] = "PUBLISHED"
    BY <1>3, <1>11, <2>1, <2>2 DEF MaySend
  <2>3. ASSUME NEW d \in Caller, PodOf[d] = PodOf[c], HasSent(d, e) PROVE FALSE
    <3>1. e \in flush[d].todo
      BY <2>3 DEF HasSent, Current
    <3>2. d = c
      BY <1>3, <2>3, <3>1, HoldersAreOne DEF Smooth
    <3> QED
      BY <1>11, <2>3, <3>2
  <2> QED
    BY <2>1, <2>2, <2>3 DEF MaySend
<1>14. PodOf[c] \notin MaySend(e)'
  <2>1. CASE status[e] = "PUBLISHED"
    <3>1. \A d \in Caller : PodOf[d] = PodOf[c] /\ e \in flush[d].todo => d = c
      BY <1>3, HoldersAreOne DEF Smooth
    <3> QED
      BY <1>2, <1>11, <2>1, <3>1 DEF MaySend
  <2>2. CASE status[e] # "PUBLISHED"
    BY <1>2, <1>11, <2>2 DEF MaySend
  <2> QED
    BY <2>1, <2>2
<1>15. ASSUME NEW x \in Event
       PROVE  Count(x)' + Cardinality(MaySend(x)') <= Cardinality(Pod)
  <2>1. /\ Count(x)' = IF x = e THEN Count(x) + 1 ELSE Count(x)
        /\ Count(x) \in Nat
    BY <1>1, <1>4, CountOfAppend, CountIs
  <2>2. /\ IsFiniteSet(MaySend(x)) /\ Cardinality(MaySend(x)) \in Nat
        /\ Cardinality(Pod) \in Nat
    BY MaySendIs
  <2>3. Count(x) + Cardinality(MaySend(x)) <= Cardinality(Pod)
    BY DEF Smooth, SendsAreLeft
  <2>4. IsFiniteSet(MaySend(x)') /\ Cardinality(MaySend(x)') <= Cardinality(MaySend(x))
    BY <1>12, <2>2, FS_Subset
  <2>5. Cardinality(MaySend(x)') \in Nat
    BY <2>4, FS_CardinalityType
  <2>6. x = e => Cardinality(MaySend(x)') <= Cardinality(MaySend(x)) - 1
    <3> SUFFICES ASSUME x = e PROVE Cardinality(MaySend(e)') <= Cardinality(MaySend(e)) - 1
      OBVIOUS
    <3>1. MaySend(e)' \subseteq MaySend(e) \ {PodOf[c]}
      BY <1>12, <1>14
    <3>2. /\ IsFiniteSet(MaySend(e) \ {PodOf[c]})
          /\ Cardinality(MaySend(e) \ {PodOf[c]}) = Cardinality(MaySend(e)) - 1
      BY <1>13, <2>2, FS_RemoveElement
    <3> HIDE DEF MaySend
    <3> QED
      BY <3>1, <3>2, FS_Subset
  <2> QED
    BY <2>1, <2>2, <2>3, <2>4, <2>5, <2>6
<1> QED
  BY <1>6, <1>7, <1>8, <1>9, <1>15 DEF Smooth, SendsAreLeft

(* A mark: the row was sent, and its process does not take it again.        *)
LEMMA SmoothMark ==
  ASSUME Inv, OneRuns, Smooth, NEW c \in Caller, MarkPublished(c)
  PROVE  Smooth'
<1>1. PICK e \in Event :
        /\ Current(c, e) /\ Advance(c, e)
        /\ status' = [status EXCEPT ![e] = "PUBLISHED"]
        /\ due' = due \ {e}
  BY DEF MarkPublished
<1>2. /\ UNCHANGED <<createdAt, topic, faults>> /\ flush[c].at = "markPublished"
      /\ status \in [Event -> {"NONE", "PENDING", "FAILED", "PUBLISHED"}]
      /\ flush \in [Caller -> CallState]
  BY DEF MarkPublished, Inv, Typed, TypeOK
<1>3. Saved' = Saved
  BY <1>1, <1>2, MarkIsTyped DEF Inv
<1>4. /\ flush'[c].at \in {"idle", "deliver"}
      /\ \A d \in Caller \ {c} : flush'[d] = flush[d]
  BY <1>1, AdvanceIsTyped DEF Inv
<1>5. /\ flush'[c].todo = flush[c].todo \ {e}
      /\ flush'[c].at = "idle" => flush'[c].todo = {}
  BY <1>1, <1>2 DEF Advance, Idle
<1>6. e \in Delivered
  BY <1>1, <1>2 DEF Inv, SentIsDelivered
<1>7. NothingFailed'
  BY <1>1, <1>2, <1>4, <1>5 DEF Smooth, NothingFailed
<1>8. DeliveredIsSaved' /\ FirstsAreInOrder'
  BY <1>2, <1>3 DEF Smooth, DeliveredIsSaved, FirstsAreInOrder
<1>9. BatchIsNext'
  BY <1>2, <1>3, <1>4, <1>5, <1>6 DEF Smooth, BatchIsNext, Delivered
<1>10. \A x \in Event : HasSent(c, x) => x = e
  BY <1>1, OneIsCurrent DEF HasSent
<1>11. /\ \A x \in Event : ~HasSent(c, x)'
       /\ \A d \in Caller \ {c}, x \in Event : HasSent(d, x)' <=> HasSent(d, x)
  BY <1>2, <1>4 DEF HasSent, Current
<1>12. MaySend(e)' \subseteq MaySend(e)
  <2> SUFFICES ASSUME NEW p \in MaySend(e)' PROVE p \in MaySend(e)
    OBVIOUS
  <2>1. p \in Pod /\ status'[e] = "PUBLISHED"
    BY <1>1, <1>2 DEF MaySend
  <2>2. PICK d \in Caller : PodOf[d] = p /\ e \in flush'[d].todo /\ ~HasSent(d, e)'
    BY <2>1 DEF MaySend
  <2>3. d # c /\ e \in flush[d].todo /\ ~HasSent(d, e)
    BY <1>4, <1>5, <1>11, <2>2
  <2>4. \A b \in Caller : PodOf[b] = p /\ HasSent(b, e) => b = d
    <3>1. \A b \in Caller : HasSent(b, e) => flush[b].todo # {}
      BY DEF HasSent, Current
    <3> QED
      BY <2>2, <2>3, <3>1, HoldersAreOne DEF Smooth
  <2> QED
    BY <2>1, <2>2, <2>3, <2>4 DEF MaySend
<1>13. ASSUME NEW x \in Event, x # e PROVE MaySend(x)' \subseteq MaySend(x)
  <2>1. status'[x] = status[x] /\ ~HasSent(c, x)
    BY <1>1, <1>2, <1>10, <1>13
  <2>2. \A d \in Caller : /\ HasSent(d, x)' <=> HasSent(d, x)
                          /\ x \in flush'[d].todo => x \in flush[d].todo
    BY <1>4, <1>5, <1>11, <2>1
  <2> QED
    BY <2>1, <2>2 DEF MaySend
<1>14. \A x \in Event : MaySend(x)' \subseteq MaySend(x)
  BY <1>12, <1>13
<1> QED
  BY <1>2, <1>7, <1>8, <1>9, <1>14, SendsKept DEF Smooth

LEMMA OrderStep == OrderInv /\ [Next]_vars => OrderInv'
<1> SUFFICES ASSUME OrderInv, [Next]_vars, faults' = 0 PROVE Smooth'
  BY InvStep, OneRunsStep DEF OrderInv, Inv
<1>1. Inv /\ OneRuns /\ faults \in Nat
  BY DEF OrderInv, Inv, Typed, TypeOK
<1>2. ~Fault
  BY <1>1 DEF Fault
<1>3. /\ \A c \in Caller : ~Trouble(c)
      /\ \A p \in Pod : ~Crash(p)
  BY <1>2 DEF Trouble, DeliverError, MarkPublishedError, MarkFailedError, Crash
<1>4. \/ \E e \in Event : Save(e) \/ BackoffElapses(e)
      \/ \E c \in Caller : Progress(c)
      \/ UNCHANGED vars
  BY <1>3 DEF Next
<1>5. Smooth
  <2>1. faults' = faults
    BY <1>4 DEF Save, BackoffElapses, Progress, StartFlush, Deliver, MarkPublished,
               MarkFailed, vars
  <2> QED
    BY <2>1 DEF OrderInv
<1>6. ASSUME NEW e \in Event, BackoffElapses(e) PROVE FALSE
  BY <1>5, <1>6 DEF BackoffElapses, Smooth, NothingFailed
<1>7. ASSUME NEW c \in Caller, MarkFailed(c) PROVE FALSE
  BY <1>5, <1>7 DEF MarkFailed, Smooth, NothingFailed
<1>8. CASE UNCHANGED vars
  BY <1>5, <1>8 DEF vars, Smooth, NothingFailed, DeliveredIsSaved, FirstsAreInOrder,
     BatchIsNext, SendsAreLeft, Saved, Delivered, Count, MaySend, HasSent, Current
<1> QED
  BY <1>1, <1>4, <1>5, <1>6, <1>7, <1>8, SmoothSave, SmoothStart, SmoothDeliver, SmoothMark
     DEF Progress

LEMMA OrderSuffices == OrderInv => InOrderWithoutFaults
<1> SUFFICES ASSUME Inv, Smooth
             PROVE  /\ \A i, j \in DOMAIN topic :
                         i < j => \/ createdAt[topic[i]] <= createdAt[topic[j]]
                                  \/ \E k \in 1 .. i - 1 : topic[k] = topic[j]
                    /\ \A e \in Event : Count(e) <= Cardinality(Pod)
  BY DEF OrderInv, InOrderWithoutFaults
<1>1. \A i \in DOMAIN topic : topic[i] \in Saved /\ createdAt[topic[i]] \in Nat
  BY RanksAreNumbers DEF Smooth, DeliveredIsSaved
<1>2. \A i, j \in DOMAIN topic :
         \/ createdAt[topic[i]] <= createdAt[topic[j]]
         \/ \E k \in 1 .. i - 1 : topic[k] = topic[j]
  BY <1>1 DEF Smooth, FirstsAreInOrder
<1>3. ASSUME NEW e \in Event PROVE Count(e) <= Cardinality(Pod)
  <2>1. /\ Count(e) \in Nat /\ Cardinality(MaySend(e)) \in Nat /\ Cardinality(Pod) \in Nat
        /\ Count(e) + Cardinality(MaySend(e)) <= Cardinality(Pod)
    BY CountIs, MaySendIs, RanksAreNumbers DEF Smooth, SendsAreLeft
  <2> QED
    BY <2>1
<1> QED
  BY <1>2, <1>3

(* For any number of processes and calls, and any size of a batch, as long  *)
(* as nothing fails: events reach the topic for the first time in the order *)
(* of their rows, and no process sends one twice (flushOutbox marks a row   *)
(* before it reads the next batch, and isFlushing keeps its calls apart).   *)
THEOREM SendsInOrder == Spec => []InOrderWithoutFaults
<1>1. Init => OrderInv
  <2> SUFFICES ASSUME Init PROVE OrderInv
    OBVIOUS
  <2>1. Saved = {} /\ DOMAIN topic = {}
    BY DEF Init, Saved
  <2>2. Inv
    BY <2>1, TypedInit DEF Init, Inv, RanksAreDistinct, SentIsDelivered,
       PublishedWasDelivered, Idle
  <2>3. OneRuns
    BY OutboxAssumption DEF Init, OneRuns, Runs, Idle
  <2>4. NothingFailed /\ DeliveredIsSaved /\ FirstsAreInOrder /\ BatchIsNext
    BY <2>1 DEF Init, NothingFailed, DeliveredIsSaved, FirstsAreInOrder, BatchIsNext, Idle
  <2>5. ASSUME NEW e \in Event PROVE Count(e) + Cardinality(MaySend(e)) <= Cardinality(Pod)
    <3>1. {k \in DOMAIN topic : topic[k] = e} = {}
      BY <2>1
    <3>2. Count(e) = 0
      BY <3>1, FS_EmptySet DEF Count
    <3>3. /\ Cardinality(MaySend(e)) <= Cardinality(Pod)
          /\ Cardinality(MaySend(e)) \in Nat
      BY MaySendIs, OutboxAssumption, FS_Subset
    <3> QED
      BY <3>2, <3>3
  <2> QED
    BY <2>2, <2>3, <2>4, <2>5 DEF OrderInv, Smooth, SendsAreLeft
<1>2. OrderInv /\ [Next]_vars => OrderInv'
  BY OrderStep
<1>3. OrderInv => InOrderWithoutFaults
  BY OrderSuffices
<1> QED
  BY <1>1, <1>2, <1>3, PTL DEF Spec
=============================================================================
