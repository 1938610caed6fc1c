----------------------------- MODULE StornoSaga -----------------------------
(***************************************************************************)
(* The storno saga: bills in one operations process (BillService), its     *)
(* outbox and dispatcher (Outbox), the topic operations.events, the ledger *)
(* consumer (Ledger) and the topic ledger.events with the replies.         *)
(*                                                                         *)
(* A command saves the bill and then the outbox row, in two transactions;  *)
(* the dispatcher delivers the row; the ledger posts or reverses the entry *)
(* and replies; the reply settles the bill.                                *)
(***************************************************************************)
EXTENDS Naturals, Sequences, FiniteSets

CONSTANTS Bill,        \* the bills
          Caller,      \* calls of flushOutbox in the one operations process
          BatchSize,   \* rows read by one flush
          MaxCopies,   \* bound on commands of one type about one bill
          MaxLists,    \* bound on lists of bills
          MaxTopic,    \* bound on the topic, for the environment of Ledger only
          MaxCrashes, MaxFailures, \* bounds on the faults of BillService,
          MaxFaults,               \* of Outbox
          MaxRestarts, MaxErrors   \* and of Ledger

ASSUME SagaAssumption ==
    /\ MaxCopies \in Nat \ {0}
    /\ BatchSize \in Nat \ {0}
    /\ {MaxTopic, MaxLists, MaxCrashes, MaxFailures, MaxFaults, MaxRestarts, MaxErrors} \subseteq Nat

VARIABLES bill, table, tasks, lists, replyPos, replyCommitted, listed, crashes,
          failures, replaced,
          status, createdAt, due, isFlushing, flush, faults,
          topic,
          pos, committed, ingested, mem, db, lastId, handler, restarts, errors,
          ledgerTopic

billVars == <<bill, table, tasks, lists, replyPos, replyCommitted, listed, crashes,
              failures, replaced>>
outboxVars == <<status, createdAt, due, isFlushing, flush, faults>>
ledgerVars == <<pos, committed, ingested, mem, db, lastId, handler, restarts, errors>>
vars == <<bill, table, tasks, lists, replyPos, replyCommitted, listed, crashes,
          failures, replaced,
          status, createdAt, due, isFlushing, flush, faults, topic,
          pos, committed, ingested, mem, db, lastId, handler, restarts, errors,
          ledgerTopic>>

-----------------------------------------------------------------------------
\* The one process of operations.
Operations == "operations"

L == INSTANCE Ledger WITH Invoice <- {}, Movement <- {}, Copy <- 1 .. MaxCopies

O == INSTANCE Outbox WITH Event <- L!Message, Pod <- {Operations},
                          PodOf <- [c \in Caller |-> Operations]

B == INSTANCE BillService WITH published <- O!Saved

Init == O!Init /\ L!Init /\ B!Init

-----------------------------------------------------------------------------
(* Users ask for lists, and commands begin: in the map, or by a query.      *)
ListBills(bs) ==
    /\ UNCHANGED <<outboxVars, ledgerVars, topic>>
    /\ B!ListBills(bs)

FillBills(l) ==
    /\ UNCHANGED <<outboxVars, ledgerVars, topic>>
    /\ B!FillBills(l)

Begin(type, b) ==
    /\ UNCHANGED <<outboxVars, ledgerVars, topic>>
    /\ \/ B!Accept(type, b)
       \/ B!FindBill(type, b)
       \/ type = "billPosted" /\ B!StartPost(b)

LookUp(t) ==
    /\ UNCHANGED <<outboxVars, ledgerVars, topic>>
    /\ B!ReadBill(t) \/ B!BillFound(t)

Post(t) ==
    /\ UNCHANGED <<outboxVars, ledgerVars, topic>>
    /\ B!Post(t) \/ B!RefusePost(t)

SaveBill(t) ==
    /\ UNCHANGED <<outboxVars, ledgerVars, topic>>
    /\ B!SaveBill(t)

FailTask(t) ==
    /\ UNCHANGED <<outboxVars, ledgerVars, topic>>
    /\ B!TaskError(t)

(* publish(): the event of the command becomes a row of the outbox.         *)
Publish(t) ==
    /\ t.at = "publish"
    /\ O!Save(B!EventOf(t))
    /\ B!Publish(t)
    /\ UNCHANGED ledgerVars

ReadReply ==
    /\ UNCHANGED <<outboxVars, ledgerVars, topic>>
    /\ B!SkipReply \/ B!HandleReply

MoveReplyOffset ==
    /\ UNCHANGED <<outboxVars, ledgerVars, topic>>
    /\ B!CommitReply \/ B!RebalanceReplies

(* operations restarts: commands, dispatcher and saga consumer together.    *)
CrashOperations ==
    /\ O!RestartDispatcher(Operations)
    /\ UNCHANGED <<status, createdAt, due, faults, topic, ledgerVars>>
    /\ B!CrashBills

Dispatch(c) ==
    /\ O!Progress(c)
    /\ UNCHANGED <<billVars, ledgerVars, ledgerTopic>>

DispatchTrouble(c) ==
    /\ O!Trouble(c)
    /\ UNCHANGED <<billVars, ledgerVars, ledgerTopic>>

BackoffElapses(e) ==
    /\ O!BackoffElapses(e)
    /\ UNCHANGED <<billVars, ledgerVars, ledgerTopic>>

Consume ==
    /\ L!Progress
    /\ UNCHANGED <<billVars, outboxVars>>

ConsumeTrouble ==
    /\ L!Trouble
    /\ UNCHANGED <<billVars, outboxVars>>

\* What a command in flight does next.
Progress(t) == LookUp(t) \/ Post(t) \/ SaveBill(t) \/ Publish(t)

Next ==
    \/ \E bs \in SUBSET Bill : ListBills(bs)
    \/ \E l \in lists : FillBills(l)
    \/ \E type \in B!Command, b \in Bill : Begin(type, b)
    \/ \E t \in tasks : Progress(t) \/ FailTask(t)
    \/ ReadReply
    \/ MoveReplyOffset
    \/ CrashOperations
    \/ \E c \in Caller : Dispatch(c) \/ DispatchTrouble(c)
    \/ \E e \in L!Message : BackoffElapses(e)
    \/ Consume
    \/ ConsumeTrouble

Spec == Init /\ [][Next]_vars

(* Processes that are up go on: commands in flight finish, the timer of the *)
(* dispatcher fires, backoffs end, and both consumers read on.  Users need  *)
(* not do anything, and nothing has to fail.                                *)
Fairness ==
    /\ WF_vars(\E t \in tasks : Progress(t))
    /\ WF_vars(ReadReply)
    /\ \A c \in Caller : WF_vars(Dispatch(c))
    /\ \A e \in L!Message : WF_vars(BackoffElapses(e))
    /\ WF_vars(Consume)

FairSpec == Spec /\ Fairness

-----------------------------------------------------------------------------
(* However the process stops between the save of a bill and that of its     *)
(* event, and however posts overlap, a bill whose billPosted is out is not  *)
(* a DRAFT again, and the event is out once, unless a list or a lookup has  *)
(* replaced an object that was changed or is being posted.                  *)
PostedOnce == B!PostedOnce

EntriesOf(b, part, kind) ==
    {e \in mem : e.doc = b /\ e.part = part /\ e.kind = kind}

(* A bill is REVERTED, in memory or in the table, only if its STORNO entry  *)
(* is in the journal table: no crash of either service and no repeated or   *)
(* reordered message makes operations believe in a reversal that the books  *)
(* do not show.                                                             *)
RevertedHasStorno ==
    \A b \in Bill : "REVERTED" \in {bill[b], table[b]} =>
        \E s \in db : s.doc = b /\ s.kind = "STORNO"

(* Whatever the cache of bills does, and however often billPosted goes out, *)
(* the books have one entry of each kind of a bill: what operations repeats *)
(* the ledger does not.                                                     *)
BooksPostOnce ==
    \A e, f \in mem :
       e.doc = f.doc /\ e.part = f.part /\ e.kind = f.kind => e = f

(* While operations does not restart, and no list puts an older status in   *)
(* place of a newer one, the books never show both a payment and a reversal *)
(* of one bill, in whatever order commands, deliveries, repetitions and     *)
(* replies come.                                                            *)
NotPaidAndReversed ==
    crashes = 0 => \A b \in Bill \ replaced :
        EntriesOf(b, "payment", "ORIGINAL") = {} \/ EntriesOf(b, "document", "STORNO") = {}

(* What a user sees of the saga.                                            *)
R == INSTANCE Reversal WITH
       state <- bill,
       stornoed <- {b \in Bill : \E s \in db : s.doc = b /\ s.kind = "STORNO"}

(* Commands, deliveries, repetitions, ledger restarts and replies together  *)
(* implement the reversal of Reversal: the books decide it while the bill   *)
(* is REVERSING, and the bill then follows the books.  That holds until     *)
(* operations restarts, which takes bills back to what their rows say, or a *)
(* list does so.                                                            *)
ImplementsReversal ==
    R!Init /\ [][crashes' = 0 /\ replaced' = {} => R!Next]_(R!vars)

(* Nothing is left to be done. *)
Quiescent ==
    /\ tasks = {}
    /\ \A e \in O!Saved : status[e] = "PUBLISHED"
    /\ \A c \in Caller : flush[c].at = "idle"
    /\ handler.at = "idle"
    /\ pos = Len(topic) + 1
    /\ replyPos = Len(ledgerTopic) + 1

(* What the journal shows of a bill: its ORIGINAL, whether that is reversed,*)
(* its payment and its STORNO.                                              *)
Books(b) == {<<e.part, e.kind, e.reversedBy # 0>> : e \in {x \in mem : x.doc = b}}

BooksOf(st) ==
    CASE st = "DRAFT" -> {}
      [] st = "POSTED" -> {<<"document", "ORIGINAL", FALSE>>}
      [] st = "PAID" -> {<<"document", "ORIGINAL", FALSE>>, <<"payment", "ORIGINAL", FALSE>>}
      [] st = "REVERTED" -> {<<"document", "ORIGINAL", TRUE>>, <<"document", "STORNO", FALSE>>}
      [] OTHER -> {}

(* When nothing is left to be done, every bill and the books agree, also if *)
(* a refused delivery put the reversal of a bill ahead of its posting, or   *)
(* lists put new objects into the map, unless one put an older status there.*)
BooksAgree ==
    Quiescent => \A b \in Bill \ replaced :
        bill[b] # "REVERSING" => Books(b) = BooksOf(bill[b])

(* "attempt to post STORNO, then reply to Operations with stornoPosted or   *)
(* stornoFailed": when nothing is left to be done, no bill waits for its    *)
(* reply.                                                                   *)
NoBillWaits == Quiescent => \A b \in Bill \ replaced : bill[b] # "REVERSING"

(* A reversal that is requested is settled, unless a list intervenes.       *)
ReversalSettles ==
    \A b \in Bill : (bill[b] = "REVERSING") ~> (bill[b] # "REVERSING" \/ b \in replaced)

=============================================================================
