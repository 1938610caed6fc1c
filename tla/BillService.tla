---------------------------- MODULE BillService ----------------------------
(***************************************************************************)
(* Bills in one process of the operations service: the aggregate           *)
(* (services/operations/src/domain/bills/fatura-hyrese.aggregate.ts), the  *)
(* commands and saga handlers (application/bills/bill.service.ts), the     *)
(* repository with its cache (infrastructure/bill.repository.ts) and the   *)
(* consumer of saga replies (infrastructure/kafka-ledger-saga.consumer.ts).*)
(*                                                                         *)
(* A command looks its bill up: in the map, or in the table when the map   *)
(* does not have it.  It tests and changes the object without an await in  *)
(* between, except that a post awaits its validation first; then it awaits *)
(* the save of the row, and then publish(), which saves an outbox row.     *)
(* Commands on the same bill run concurrently, so what remains of each is  *)
(* a task, and tasks proceed in any order.  A list, or a lookup, puts an   *)
(* object made from a row that was read before into the map, whatever is   *)
(* there.                                                                  *)
(*                                                                         *)
(* How bills come into being, and what their validation decides, are the   *)
(* subject of Purchasing.  The dispatcher, the ledger and the next-state   *)
(* relation are in StornoSaga, which is built on this module.              *)
(***************************************************************************)
EXTENDS Naturals, Sequences, FiniteSets

CONSTANTS Bill,        \* the bills
          MaxCopies,   \* bound on the commands of one type about one bill
          MaxLists,    \* bound on the lists of bills
          MaxCrashes,  \* bound on restarts and rebalances of operations
          MaxFailures  \* bound on failed queries and writes of operations

VARIABLES bill,           \* bill[b]: the status of the object in the map
          table,          \* table[b]: the status column of its row
          tasks,          \* what is left of the commands in flight
          lists,          \* the lists in flight, with the rows they have read
          published,      \* the events publish() has stored
          ledgerTopic,    \* the log ledger.events
          replyPos,       \* the next offset the saga consumer reads
          replyCommitted, \* the offset of its consumer group
          listed, crashes, failures,
          replaced        \* history: bills whose object in the map gave way to
                          \* one of another status, or was held by a post

billVars == <<bill, table, tasks, lists, replyPos, replyCommitted, listed, crashes,
              failures, replaced>>
-----------------------------------------------------------------------------
Status == {"DRAFT", "POSTED", "PAID", "REVERSING", "REVERTED"}

Command == {"billPosted", "billPaid", "billRevertRequested"}

SagaReply == {"stornoPosted", "stornoFailed"}

Copy == 1 .. MaxCopies

Event == [type : Command, doc : Bill, copy : Copy]

Answer == [type : SagaReply, doc : Bill, entry : Nat]

\* A command in flight: its lookup awaits the query ("find") or its answer
\* ("found", with the status that was read); a post awaits its validation
\* ("check"), with the object in the map, or an object that was replaced there:
\* its status, and the copies of the posts that hold it.
Task == [type : Command \cup SagaReply, doc : Bill, copy : Copy,
         at : {"find", "found", "check", "save", "publish"},
         val : Status \cup {"NONE"}, held : SUBSET Copy]

InMap == {}

Init ==
    /\ bill = [b \in Bill |-> "DRAFT"]
    /\ table = [b \in Bill |-> "DRAFT"]
    /\ tasks = {}
    /\ lists = {}
    /\ published = {}
    /\ ledgerTopic = <<>>
    /\ replyPos = 1
    /\ replyCommitted = 1
    /\ listed = 0
    /\ crashes = 0
    /\ failures = 0
    /\ replaced = {}

-----------------------------------------------------------------------------
Failure == failures < MaxFailures /\ failures' = failures + 1
Crashing == crashes < MaxCrashes /\ crashes' = crashes + 1

(* The aggregate: where a command or a reply may start from, and where it   *)
(* leads (post, pay, reverse, confirmReversal, cancelReversal).             *)
From(type) ==
    CASE type = "billPosted" -> "DRAFT"
      [] type \in {"billPaid", "billRevertRequested"} -> "POSTED"
      [] OTHER -> "REVERSING"

(* Mutant: both replies settle the bill alike. *)
ToRevertedOnly(type) ==
    CASE type = "billPosted" -> "POSTED"
      [] type = "billPaid" -> "PAID"
      [] type = "billRevertRequested" -> "REVERSING"
      [] OTHER -> "REVERTED"

To(type) ==
    CASE type = "billPosted" -> "POSTED"
      [] type = "billPaid" -> "PAID"
      [] type = "billRevertRequested" -> "REVERSING"
      [] type = "stornoPosted" -> "REVERTED"
      [] type = "stornoFailed" -> "POSTED"

\* Each call of publish() makes a new eventId: the copies a command can have.
FreeCopies(type, b) ==
    {n \in Copy : /\ \A t \in tasks : t.type = type /\ t.doc = b => t.copy # n
                  /\ [type |-> type, doc |-> b, copy |-> n] \notin published}

FreeCopy(type, b) == CHOOSE n \in FreeCopies(type, b) : TRUE

NewTask(type, b, at, val) ==
    [type |-> type, doc |-> b, at |-> at, val |-> val, held |-> InMap,
     copy |-> IF type \in Command THEN FreeCopy(type, b) ELSE 1]

\* The object of b goes into the map, and has this status then.
Enter(b, val) == bill' = [bill EXCEPT ![b] = val]

\* The posts that hold the object of b that this name stands for.
Holders(b, held) == {t \in tasks : t.doc = b /\ t.at = "check" /\ t.held = held}

\* These posts when the object in the map is replaced: they keep the old one.
Detached(bs) ==
    {IF t.doc \in bs /\ t \in Holders(t.doc, InMap)
     THEN [t EXCEPT !.val = bill[t.doc],
                    !.held = {u.copy : u \in Holders(t.doc, InMap)}]
     ELSE t : t \in tasks}

\* The bills of which this puts an object in place of one that differs from
\* it, or that a post holds.
Replaces(rows) ==
    {b \in DOMAIN rows : /\ bill[b] # "NONE"
                         /\ bill[b] # rows[b] \/ Holders(b, InMap) # {}}

-----------------------------------------------------------------------------
(* list and listByStatus: the rows are read, all or those with a status...  *)
ListBills(bs) ==
    /\ bs = Bill \/ \E st \in Status : bs = {b \in Bill : table[b] = st}
    /\ bs # {}
    /\ listed < MaxLists
    /\ listed' = listed + 1
    /\ lists' = lists \cup {[no |-> listed + 1, rows |-> [b \in bs |-> table[b]]]}
    /\ UNCHANGED <<bill, table, tasks, published, ledgerTopic, replyPos, replyCommitted,
                   crashes, failures, replaced>>

(* ...and toDomain puts an object made of each into the map.                *)
FillBills(l) ==
    /\ l \in lists
    /\ lists' = lists \ {l}
    /\ bill' = [b \in Bill |-> IF b \in DOMAIN l.rows THEN l.rows[b] ELSE bill[b]]
    /\ tasks' = Detached(DOMAIN l.rows)
    /\ replaced' = replaced \cup Replaces(l.rows)
    /\ UNCHANGED <<table, published, ledgerTopic, replyPos, replyCommitted, listed,
                   crashes, failures>>

(* findById of a command whose bill is not in the map: the row is asked for.*)
FindBill(type, b) ==
    /\ bill[b] = "NONE"
    /\ FreeCopies(type, b) # {}
    /\ tasks' = tasks \cup {NewTask(type, b, "find", "NONE")}
    /\ UNCHANGED <<bill, table, lists, published, ledgerTopic, replyPos, replyCommitted,
                   listed, crashes, failures, replaced>>

ReadBill(t) ==
    /\ t \in tasks
    /\ t.at = "find"
    /\ tasks' = (tasks \ {t}) \cup {[t EXCEPT !.at = "found", !.val = table[t.doc]]}
    /\ UNCHANGED <<bill, table, lists, published, ledgerTopic, replyPos, replyCommitted,
                   listed, crashes, failures, replaced>>

(* The row is there: toDomain puts an object into the map, and the command  *)
(* goes on with it: a post awaits its validation, any other tests the       *)
(* status, changes it and saves, or is refused.                             *)
BillFound(t) ==
    LET row == [b \in {t.doc} |-> t.val]
        others == Detached({t.doc}) \ {t} IN
    /\ t \in tasks
    /\ t.at = "found"
    /\ replaced' = replaced \cup Replaces(row)
    /\ \/ /\ t.type = "billPosted"
          /\ Enter(t.doc, t.val)
          /\ tasks' = others \cup {[t EXCEPT !.at = "check", !.val = "NONE"]}
       \/ /\ t.type # "billPosted"
          /\ t.val = From(t.type)
          /\ Enter(t.doc, To(t.type))
          /\ tasks' = others \cup {[t EXCEPT !.at = "save", !.val = To(t.type)]}
       \/ /\ t.type # "billPosted"
          /\ t.val # From(t.type)
          /\ Enter(t.doc, t.val)
          /\ tasks' = others
    /\ UNCHANGED <<table, lists, published, ledgerTopic, replyPos, replyCommitted,
                   listed, crashes, failures>>

(* postBill of a bill in the map, up to the validation.                     *)
StartPost(b) ==
    /\ bill[b] # "NONE"
    /\ FreeCopies("billPosted", b) # {}
    /\ tasks' = tasks \cup {NewTask("billPosted", b, "check", "NONE")}
    /\ UNCHANGED <<bill, table, lists, published, ledgerTopic, replyPos, replyCommitted,
                   listed, crashes, failures, replaced>>

\* Its status, and the tasks when t puts it into the map: the posts that hold it
\* hold the one in the map again.
StatusInHand(t) == IF t.held = InMap THEN bill[t.doc] ELSE t.val

PutBack(t) ==
    {IF u \in Holders(t.doc, t.held) THEN [u EXCEPT !.val = "NONE", !.held = InMap] ELSE u
     : u \in Detached(IF t.held = InMap THEN {} ELSE {t.doc})}

InHand(t) == [t EXCEPT !.val = "NONE", !.held = InMap]

(* Mutant: the event is published without saving the bill first. *)
PostUnsaved(t) ==
    /\ t \in tasks
    /\ t.at = "check"
    /\ StatusInHand(t) = "DRAFT"
    /\ Enter(t.doc, "POSTED")
    /\ tasks' = (PutBack(t) \ {InHand(t)}) \cup {[InHand(t) EXCEPT !.at = "publish", !.val = "POSTED"]}
    /\ UNCHANGED <<table, lists, published, ledgerTopic, replyPos, replyCommitted,
                   listed, crashes, failures, replaced>>

(* The bill was validated: post() tests and changes the object in hand, and *)
(* save puts it into the map, from where it may have been replaced.         *)
Post(t) ==
    /\ t \in tasks
    /\ t.at = "check"
    /\ StatusInHand(t) = "DRAFT"
    /\ Enter(t.doc, "POSTED")
    /\ tasks' = (PutBack(t) \ {InHand(t)}) \cup {[InHand(t) EXCEPT !.at = "save", !.val = "POSTED"]}
    /\ UNCHANGED <<table, lists, published, ledgerTopic, replyPos, replyCommitted,
                   listed, crashes, failures, replaced>>

(* The validation refuses the bill, or post() does since it is no DRAFT.    *)
RefusePost(t) ==
    /\ t \in tasks
    /\ t.at = "check"
    /\ tasks' = tasks \ {t}
    /\ UNCHANGED <<bill, table, lists, published, ledgerTopic, replyPos, replyCommitted,
                   listed, crashes, failures, replaced>>

(* Mutant: a bill that is REVERSING can be paid. *)
AcceptWhileReversing(type, b) ==
    /\ type # "billPosted"
    /\ bill[b] = From(type) \/ (type = "billPaid" /\ bill[b] = "REVERSING")
    /\ FreeCopies(type, b) # {}
    /\ Enter(b, To(type))
    /\ tasks' = tasks \cup {NewTask(type, b, "save", To(type))}
    /\ UNCHANGED <<table, lists, published, ledgerTopic, replyPos, replyCommitted,
                   listed, crashes, failures, replaced>>

(* payBill and reverseBill of a bill in the map, up to the save: the guard  *)
(* and the change of the aggregate.                                         *)
Accept(type, b) ==
    /\ type # "billPosted"
    /\ bill[b] = From(type)
    /\ FreeCopies(type, b) # {}
    /\ Enter(b, To(type))
    /\ tasks' = tasks \cup {NewTask(type, b, "save", To(type))}
    /\ UNCHANGED <<table, lists, published, ledgerTopic, replyPos, replyCommitted,
                   listed, crashes, failures, replaced>>

(* The save of the row ends; the value was taken when the save began.       *)
SaveBill(t) ==
    /\ t \in tasks
    /\ t.at = "save"
    /\ table' = [table EXCEPT ![t.doc] = t.val]
    /\ tasks' = (tasks \ {t}) \cup
                (IF t.type \in SagaReply THEN {} ELSE {[t EXCEPT !.at = "publish"]})
    /\ UNCHANGED <<bill, lists, published, ledgerTopic, replyPos, replyCommitted,
                   listed, crashes, failures, replaced>>

\* The event of a command.
EventOf(t) == [type |-> t.type, doc |-> t.doc, copy |-> t.copy]

(* publish() stores the event and the command is over.                      *)
Publish(t) ==
    /\ t \in tasks
    /\ t.at = "publish"
    /\ published' = published \cup {EventOf(t)}
    /\ tasks' = tasks \ {t}
    /\ UNCHANGED <<bill, table, lists, ledgerTopic, replyPos, replyCommitted, listed,
                   crashes, failures, replaced>>

(* The query, the save or publish() throws: the request fails, or the saga  *)
(* consumer logs the error.  The object in the map keeps its new status, and*)
(* an event that was not stored is lost.                                    *)
TaskError(t) ==
    /\ t \in tasks
    /\ t.at \in {"find", "save", "publish"}
    /\ Failure
    /\ tasks' = tasks \ {t}
    /\ UNCHANGED <<bill, table, lists, published, ledgerTopic, replyPos, replyCommitted,
                   listed, crashes, replaced>>

-----------------------------------------------------------------------------
\* eachMessage is awaited: one reply at a time.
ConsumerIsFree == \A t \in tasks : t.type \notin SagaReply

(* The consumer reads a message that is not a reply, or a reply to a bill   *)
(* in the map that is not REVERSING, which the handlers ignore.             *)
SkipReply ==
    /\ ConsumerIsFree
    /\ replyPos \in DOMAIN ledgerTopic
    /\ LET m == ledgerTopic[replyPos] IN
         \/ m.type \notin SagaReply
         \/ m.doc \notin Bill
         \/ bill[m.doc] \notin {"REVERSING", "NONE"}
    /\ replyPos' = replyPos + 1
    /\ UNCHANGED <<bill, table, tasks, lists, published, ledgerTopic, replyCommitted,
                   listed, crashes, failures, replaced>>

(* handleStornoPosted and handleStornoFailed up to the save, or up to the   *)
(* query when the bill is not in the map.                                   *)
HandleReply ==
    /\ ConsumerIsFree
    /\ replyPos \in DOMAIN ledgerTopic
    /\ LET m == ledgerTopic[replyPos] IN
         /\ m.type \in SagaReply
         /\ m.doc \in Bill
         /\ \/ /\ bill[m.doc] = "REVERSING"
               /\ Enter(m.doc, To(m.type))
               /\ tasks' = tasks \cup {NewTask(m.type, m.doc, "save", To(m.type))}
            \/ /\ bill[m.doc] = "NONE"
               /\ tasks' = tasks \cup {NewTask(m.type, m.doc, "find", "NONE")}
               /\ UNCHANGED bill
    /\ replyPos' = replyPos + 1
    /\ UNCHANGED <<table, lists, published, ledgerTopic, replyCommitted, listed,
                   crashes, failures, replaced>>

CommitReply ==
    /\ ConsumerIsFree
    /\ replyCommitted # replyPos
    /\ replyCommitted' = replyPos
    /\ UNCHANGED <<bill, table, tasks, lists, published, ledgerTopic, replyPos, listed,
                   crashes, failures, replaced>>

RebalanceReplies ==
    /\ ConsumerIsFree
    /\ replyCommitted # replyPos
    /\ Crashing
    /\ replyPos' = replyCommitted
    /\ UNCHANGED <<bill, table, tasks, lists, published, ledgerTopic, replyCommitted,
                   listed, failures, replaced>>

(* The process stops and starts again: commands and lists are gone, and the *)
(* map is empty; replies are read from the committed offset.                *)
CrashBills ==
    /\ Crashing
    /\ bill' = [b \in Bill |-> "NONE"]
    /\ tasks' = {}
    /\ lists' = {}
    /\ replyPos' = replyCommitted
    /\ UNCHANGED <<table, published, ledgerTopic, replyCommitted, listed, failures,
                   replaced>>

-----------------------------------------------------------------------------
IsPublished(type, b) == \E e \in published : e.type = type /\ e.doc = b

(* The status is saved before the event is stored, so a restart never       *)
(* brings a bill whose billPosted is out back to DRAFT: the event of        *)
(* posting a bill is published once, whatever crashes or fails, and however *)
(* many posts overlap, unless a list or a lookup puts another object in     *)
(* place of one that was changed or is being posted.                        *)
PostedOnce ==
    \A b \in Bill \ replaced : IsPublished("billPosted", b) =>
        /\ table[b] # "DRAFT" /\ bill[b] # "DRAFT"
        /\ \A e, f \in published :
              {e.type, f.type} = {"billPosted"} /\ e.doc = b /\ f.doc = b => e = f

=============================================================================
