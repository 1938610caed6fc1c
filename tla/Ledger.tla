------------------------------- MODULE Ledger -------------------------------
(***************************************************************************)
(* The ledger service as a consumer of operations.events                   *)
(* (services/ledger/src/infrastructure/kafka-operations.consumer.ts and    *)
(* the event handlers of services/ledger/src/ledger.service.ts).           *)
(*                                                                         *)
(* One consumer reads the topic in order, one message at a time.  For each *)
(* message shouldProcess() saves a marker in ledger_ingested_events, or    *)
(* skips the message as a duplicate; then the handler of its type changes  *)
(* the journal in memory, saves it, tells the AI service and, for a        *)
(* reversal, replies to operations.  Every one of these is an await, so    *)
(* the process may stop between any two of them.  Errors are caught and    *)
(* logged, and the consumer goes on with the next message.                 *)
(*                                                                         *)
(* The topic is arbitrary here: the producer may repeat, reorder and       *)
(* invent messages.  An eventId is a whole message, an idempotencyKey its  *)
(* type and document.  Amounts, dates and account lines are left out.      *)
(***************************************************************************)
EXTENDS Naturals, Sequences, FiniteSets

CONSTANTS Bill, Invoice, Movement,  \* the documents events are about
          Copy,        \* tells events with the same idempotency key apart
          MaxTopic,    \* bound on the length of the topic
          MaxRestarts, \* bound on restarts and rebalances
          MaxErrors    \* bound on errors that are caught and logged

ASSUME LedgerAssumption ==
    /\ MaxTopic \in Nat
    /\ MaxRestarts \in Nat
    /\ MaxErrors \in Nat
    \* the reference of an entry names the kind of its document
    /\ Bill \cap Invoice = {}
    /\ Bill \cap Movement = {}
    /\ Invoice \cap Movement = {}

VARIABLES topic,       \* the log operations.events
          pos,         \* the next offset the consumer reads
          committed,   \* the offset of the consumer group
          ingested,    \* the table ledger_ingested_events
          mem,         \* the journal in memory
          db,          \* the journal table
          lastId,      \* ids are fresh (uuid): the last one given
          handler,     \* where the handler of the current message is
          ledgerTopic, \* the log ledger.events
          restarts, errors

consumerVars == <<pos, committed, ingested, mem, db, lastId, handler,
                  ledgerTopic, restarts, errors>>
vars == <<topic, pos, committed, ingested, mem, db, lastId, handler,
          ledgerTopic, restarts, errors>>

-----------------------------------------------------------------------------
Doc == Bill \cup Invoice \cup Movement

PostTypes == {"billPosted", "invoiceCreated", "inventoryMovementRecorded"}
PayTypes == {"billPaid", "invoicePaid"}
RevertTypes == {"billRevertRequested", "invoiceRevertRequested"}

Message ==
    [type : {"billPosted", "billPaid", "billRevertRequested"},
     doc : Bill, copy : Copy]
    \cup
    [type : {"invoiceCreated", "invoiceSent", "invoicePaid", "invoiceRevertRequested"},
     doc : Invoice, copy : Copy]
    \cup
    [type : {"inventoryMovementRecorded"}, doc : Movement, copy : Copy]

(* Mutant: the key is the document alone. *)
SameDocument(m, n) == m.doc = n.doc

SameKey(m, n) == m.type = n.type /\ m.doc = n.doc

\* reference is Bill-<id>, or Bill-<id>-PAYMENT; reversedBy is 0 when unset.
Entry == [id : Nat, doc : Doc, part : {"document", "payment"},
          kind : {"ORIGINAL", "STORNO"}, reversedBy : Nat]

Idle == [at |-> "idle"]
Handling == [at : {"handle", "persist", "update", "notify", "reply"},
             msg : Message, entry : Nat, original : Nat]

LedgerMessage == [type : {"journalEntryPosted", "stornoPosted", "stornoFailed"},
                  doc : Doc, entry : Nat]

Init ==
    /\ topic = <<>>
    /\ pos = 1
    /\ committed = 1
    /\ ingested = {}
    /\ mem = {}
    /\ db = {}
    /\ lastId = 0
    /\ handler = Idle
    /\ ledgerTopic = <<>>
    /\ restarts = 0
    /\ errors = 0

-----------------------------------------------------------------------------
Error == errors < MaxErrors /\ errors' = errors + 1
Restart == restarts < MaxRestarts /\ restarts' = restarts + 1

(* The consumer takes the next message of the topic. *)
Receives(m) ==
    /\ handler.at = "idle"
    /\ pos \in DOMAIN topic
    /\ m = topic[pos]
    /\ pos' = pos + 1

(* Mutant: only the eventId is looked up. *)
IsSameEvent(m) == m \in ingested

(* shouldProcess: an event of the same type and document was ingested       *)
(* before (this covers the unique eventId as well).                         *)
IsDuplicate(m) == \E n \in ingested : SameKey(m, n)

SkipDuplicate ==
    \E m \in Message :
       /\ Receives(m)
       /\ IsDuplicate(m)
       /\ UNCHANGED <<topic, committed, ingested, mem, db, lastId, handler,
                      ledgerTopic, restarts, errors>>

(* shouldProcess: the marker is saved, then handleEvent enters a handler.   *)
Ingest ==
    \E m \in Message :
       /\ Receives(m)
       /\ ~IsDuplicate(m)
       /\ ingested' = ingested \cup {m}
       /\ handler' = [at |-> "handle", msg |-> m, entry |-> 0, original |-> 0]
       /\ UNCHANGED <<topic, committed, mem, db, lastId, ledgerTopic, restarts, errors>>

(* The database fails: a failed save counts as a duplicate eventId, and a   *)
(* failed query is logged by the consumer.  The message is gone either way. *)
IngestError ==
    /\ \E m \in Message : Receives(m) /\ ~IsDuplicate(m)
    /\ Error
    /\ UNCHANGED <<topic, committed, ingested, mem, db, lastId, handler,
                   ledgerTopic, restarts>>

-----------------------------------------------------------------------------
At(step) == handler.at = step
Goto(step) == handler' = [handler EXCEPT !.at = step]
Done == handler' = Idle
IsRevert == handler.msg.type \in RevertTypes

\* The steps a handler takes after its last write to the journal: payments
\* do not reach the AI service, and neither does the storno of an invoice.
Notifies(m) == m.type \in PostTypes \cup {"billRevertRequested"}

NextAfterWrite ==
    IF Notifies(handler.msg) THEN Goto("notify")
    ELSE IF IsRevert THEN Goto("reply") ELSE Done

(* onBillPosted, onInvoiceCreated, onInventoryMovementRecorded, onBillPaid, *)
(* onInvoicePaid: a new ORIGINAL entry in memory.                           *)
PostEntry ==
    /\ At("handle")
    /\ handler.msg.type \in PostTypes \cup PayTypes
    /\ lastId' = lastId + 1
    /\ mem' = mem \cup
         {[id |-> lastId + 1, doc |-> handler.msg.doc, kind |-> "ORIGINAL",
           part |-> IF handler.msg.type \in PayTypes THEN "payment" ELSE "document",
           reversedBy |-> 0]}
    /\ handler' = [handler EXCEPT !.at = "persist", !.entry = lastId + 1]
    /\ UNCHANGED <<topic, pos, committed, ingested, db, ledgerTopic, restarts, errors>>

(* The entries onBillRevertRequested and onInvoiceRevertRequested look for. *)
Reversible(d) == {e \in mem : /\ e.doc = d
                              /\ e.part = "document"
                              /\ e.kind = "ORIGINAL"
                              /\ e.reversedBy = 0}

(* Mutant: the STORNO entry is not saved before the original is marked. *)
PostStornoUnsaved ==
    /\ At("handle")
    /\ IsRevert
    /\ lastId' = lastId + 1
    /\ \E o \in Reversible(handler.msg.doc) :
         /\ mem' = (mem \ {o}) \cup
              {[o EXCEPT !.reversedBy = lastId + 1],
               [o EXCEPT !.id = lastId + 1, !.kind = "STORNO"]}
         /\ handler' = [handler EXCEPT !.at = "update", !.entry = lastId + 1,
                                       !.original = o.id]
    /\ UNCHANGED <<topic, pos, committed, ingested, db, ledgerTopic, restarts, errors>>

(* Mutant: the reply is sent without waiting for the save. *)
PostStornoRepliesFirst ==
    /\ At("handle")
    /\ IsRevert
    /\ lastId' = lastId + 1
    /\ \E o \in Reversible(handler.msg.doc) :
         /\ mem' = (mem \ {o}) \cup
              {[o EXCEPT !.reversedBy = lastId + 1],
               [o EXCEPT !.id = lastId + 1, !.kind = "STORNO"]}
         /\ handler' = [handler EXCEPT !.at = "reply", !.entry = lastId + 1,
                                       !.original = o.id]
    /\ UNCHANGED <<topic, pos, committed, ingested, db, ledgerTopic, restarts, errors>>

(* ... the original is marked and the STORNO entry added, in memory.        *)
PostStorno ==
    /\ At("handle")
    /\ IsRevert
    /\ lastId' = lastId + 1
    /\ \E o \in Reversible(handler.msg.doc) :
         /\ mem' = (mem \ {o}) \cup
              {[o EXCEPT !.reversedBy = lastId + 1],
               [o EXCEPT !.id = lastId + 1, !.kind = "STORNO"]}
         /\ handler' = [handler EXCEPT !.at = "persist", !.entry = lastId + 1,
                                       !.original = o.id]
    /\ UNCHANGED <<topic, pos, committed, ingested, db, ledgerTopic, restarts, errors>>

(* Mutant: a request that cannot be served is dropped. *)
RefuseStornoSilently ==
    /\ At("handle")
    /\ IsRevert
    /\ Reversible(handler.msg.doc) = {}
    /\ Done
    /\ UNCHANGED <<topic, pos, committed, ingested, mem, db, lastId, ledgerTopic,
                   restarts, errors>>

(* ... or nothing can be reversed, and the reply is stornoFailed.           *)
RefuseStorno ==
    /\ At("handle")
    /\ IsRevert
    /\ Reversible(handler.msg.doc) = {}
    /\ Goto("reply")
    /\ UNCHANGED <<topic, pos, committed, ingested, mem, db, lastId, ledgerTopic,
                   restarts, errors>>

(* onInvoiceSent does nothing. *)
IgnoreInvoiceSent ==
    /\ At("handle")
    /\ handler.msg.type = "invoiceSent"
    /\ Done
    /\ UNCHANGED <<topic, pos, committed, ingested, mem, db, lastId, ledgerTopic,
                   restarts, errors>>

\* persist() saves the entry as it was when it was created.
NewRow == {[e EXCEPT !.reversedBy = 0] : e \in {x \in mem : x.id = handler.entry}}

AfterPersist == IF IsRevert THEN Goto("update") ELSE NextAfterWrite

(* persist: the new entry is saved ... *)
Persist ==
    /\ At("persist")
    /\ db' = db \cup NewRow
    /\ AfterPersist
    /\ UNCHANGED <<topic, pos, committed, ingested, mem, lastId, ledgerTopic,
                   restarts, errors>>

(* ... or the save fails, which is logged.                                  *)
PersistError ==
    /\ At("persist")
    /\ Error
    /\ AfterPersist
    /\ UNCHANGED <<topic, pos, committed, ingested, mem, db, lastId, ledgerTopic,
                   restarts>>

(* The row of the original entry is updated with reversedBy ...             *)
UpdateOriginal ==
    /\ At("update")
    /\ db' = {IF e.id = handler.original
              THEN [e EXCEPT !.reversedBy = handler.entry] ELSE e : e \in db}
    /\ NextAfterWrite
    /\ UNCHANGED <<topic, pos, committed, ingested, mem, lastId, ledgerTopic,
                   restarts, errors>>

(* ... or the update fails, silently.                                       *)
UpdateError ==
    /\ At("update")
    /\ Error
    /\ NextAfterWrite
    /\ UNCHANGED <<topic, pos, committed, ingested, mem, db, lastId, ledgerTopic,
                   restarts>>

AfterNotify == IF IsRevert THEN Goto("reply") ELSE Done

(* notifyAi: journalEntryPosted is sent to ledger.events, or lost.          *)
Notify ==
    /\ At("notify")
    /\ ledgerTopic' = Append(ledgerTopic,
         [type |-> "journalEntryPosted", doc |-> handler.msg.doc, entry |-> handler.entry])
    /\ AfterNotify
    /\ UNCHANGED <<topic, pos, committed, ingested, mem, db, lastId, restarts, errors>>

NotifyError ==
    /\ At("notify")
    /\ Error
    /\ AfterNotify
    /\ UNCHANGED <<topic, pos, committed, ingested, mem, db, lastId, ledgerTopic,
                   restarts>>

(* publishSagaReply: the reply is sent to ledger.events, or both Kafka and  *)
(* the HTTP fallback fail, which is logged.                                 *)
Reply ==
    /\ At("reply")
    /\ ledgerTopic' = Append(ledgerTopic,
         [type |-> IF handler.entry = 0 THEN "stornoFailed" ELSE "stornoPosted",
          doc |-> handler.msg.doc, entry |-> handler.entry])
    /\ Done
    /\ UNCHANGED <<topic, pos, committed, ingested, mem, db, lastId, restarts, errors>>

ReplyError ==
    /\ At("reply")
    /\ Error
    /\ Done
    /\ UNCHANGED <<topic, pos, committed, ingested, mem, db, lastId, ledgerTopic,
                   restarts>>

-----------------------------------------------------------------------------
(* eachMessage has returned, and its offset is committed.                   *)
Commit ==
    /\ handler.at = "idle"
    /\ committed # pos
    /\ committed' = pos
    /\ UNCHANGED <<topic, pos, ingested, mem, db, lastId, handler, ledgerTopic,
                   restarts, errors>>

(* The group rebalances: the consumer resumes at the committed offset.      *)
Rebalance ==
    /\ handler.at = "idle"
    /\ committed # pos
    /\ Restart
    /\ pos' = committed
    /\ UNCHANGED <<topic, committed, ingested, mem, db, lastId, handler,
                   ledgerTopic, errors>>

(* Mutant: the markers are kept in memory only. *)
CrashForgetsMarkers ==
    /\ Restart
    /\ mem' = db
    /\ ingested' = {}
    /\ handler' = Idle
    /\ pos' = committed
    /\ UNCHANGED <<topic, committed, db, lastId, ledgerTopic, errors>>

(* Mutant: the consumer starts from the beginning of the topic. *)
CrashFromBeginning ==
    /\ Restart
    /\ mem' = db
    /\ handler' = Idle
    /\ pos' = 1
    /\ UNCHANGED <<topic, committed, ingested, db, lastId, ledgerTopic, errors>>

(* The process stops and starts again: onModuleInit reads the journal back  *)
(* from the table, and the consumer resumes at the committed offset.        *)
Crash ==
    /\ Restart
    /\ mem' = db
    /\ handler' = Idle
    /\ pos' = committed
    /\ UNCHANGED <<topic, committed, ingested, db, lastId, ledgerTopic, errors>>

Handle ==
    \/ PostEntry \/ PostStorno \/ RefuseStorno \/ IgnoreInvoiceSent
    \/ Persist \/ UpdateOriginal \/ Notify \/ Reply

(* What the consumer does, and what can go wrong.                           *)
Progress == SkipDuplicate \/ Ingest \/ Handle \/ Commit

Trouble ==
    \/ IngestError \/ PersistError \/ UpdateError \/ NotifyError \/ ReplyError
    \/ Rebalance \/ Crash

(* The environment: any message may be appended to the topic.               *)
Produce(m) ==
    /\ Len(topic) < MaxTopic
    /\ topic' = Append(topic, m)
    /\ UNCHANGED consumerVars

Next == Progress \/ Trouble \/ \E m \in Message : Produce(m)

Spec == Init /\ [][Next]_vars

-----------------------------------------------------------------------------
(* Types of the variables, and the bounds on the faults. *)
TypeOK ==
    /\ topic \in Seq(Message)
    /\ pos \in 1 .. Len(topic) + 1
    /\ committed \in 1 .. pos
    /\ ingested \subseteq Message
    /\ mem \subseteq Entry
    /\ db \subseteq Entry
    /\ lastId \in Nat
    /\ handler \in {Idle} \cup Handling
    /\ ledgerTopic \in Seq(LedgerMessage)
    /\ restarts \in 0 .. MaxRestarts
    /\ errors \in 0 .. MaxErrors

(* At-most-once posting: however often an event is repeated, re-sent with a *)
(* new eventId or re-read after a restart, and whatever fails on the way, a *)
(* document has at most one ORIGINAL entry, one payment and one STORNO.     *)
AtMostOnce ==
    \A journal \in {mem, db} : \A e, f \in journal :
        (e.doc = f.doc /\ e.part = f.part /\ e.kind = f.kind) => e = f

(* Unless a database error was swallowed, a payment is never reversed, and  *)
(* a reversed entry is reversed by a STORNO of its own document that the    *)
(* same journal holds, restarts included: the STORNO is saved before the    *)
(* original is marked.                                                      *)
NoDanglingReversal ==
    errors = 0 => \A journal \in {mem, db} : \A e \in journal : e.reversedBy # 0 =>
        /\ e.kind = "ORIGINAL" /\ e.part = "document"
        /\ \E s \in journal : s.id = e.reversedBy /\ s.kind = "STORNO" /\ s.doc = e.doc

Replies(d) == {i \in DOMAIN ledgerTopic :
                 ledgerTopic[i].doc = d /\ ledgerTopic[i].type # "journalEntryPosted"}

(* A document gets at most one answer, so never both stornoPosted and       *)
(* stornoFailed, and after stornoFailed no STORNO of it is ever posted.     *)
OneAnswer ==
    \A d \in Doc :
        /\ \A i, j \in Replies(d) : i = j
        /\ \A i \in Replies(d) : ledgerTopic[i].type = "stornoFailed" =>
             \A e \in mem \cup db : e.doc = d => e.kind # "STORNO"

(* What processing the message m leaves behind. *)
Effect(m) ==
    CASE m.type \in PostTypes -> \E e \in mem : e.doc = m.doc /\ e.part = "document"
      [] m.type \in PayTypes -> \E e \in mem : e.doc = m.doc /\ e.part = "payment"
      [] m.type \in RevertTypes -> Replies(m.doc) # {}
      [] OTHER -> TRUE

AllReadApplied ==
    handler.at = "idle" => \A i \in 1 .. pos - 1 : Effect(topic[i])

(* As long as nothing has failed or restarted, every message that the       *)
(* consumer has read has had its effect, in whatever order messages come    *)
(* and whatever is skipped as a duplicate; every request to reverse that    *)
(* was read has been answered.                                              *)
ReadIsApplied == restarts = 0 /\ errors = 0 => AllReadApplied

(* "... making replay and retries safe": this also holds after a restart.   *)
ReplayIsSafe == errors = 0 => AllReadApplied

=============================================================================
