---------------------------- MODULE Ledger_proofs ----------------------------
(***************************************************************************)
(* Proofs about the ledger consumer, for any sets of documents, any topic  *)
(* and any number of restarts and errors: the types of its variables, that *)
(* it posts at most one entry of each kind for a document (AtMostOnce) and *)
(* answers a document once (OneAnswer), that an entry which counts as      *)
(* reversed has its STORNO (NoDanglingReversal), and that what was read    *)
(* has had its effect while nothing fails (ReadIsApplied).  And about the  *)
(* reports on its journal, for any amounts and dates: that an answer is    *)
(* what the accounts say (AnswerIsInTheBooks), and that the reports agree  *)
(* with each other (ReportsAgree).                                         *)
(*                                                                         *)
(* AtMostOnce is not inductive.  What makes it hold is the marker: every   *)
(* entry goes back to an ingested message of its document (EntryIsCaused), *)
(* so a message that is not a duplicate finds no entry of its own          *)
(* (HandlerIsFresh), neither in memory nor in the table it would be read   *)
(* back from.  Ids are fresh (IdIsOld), so what is saved is the new entry. *)
(*                                                                         *)
(* OneAnswer rests on that: an answer goes back to an ingested message of  *)
(* its document, so who handles one finds no answer (AnswerInv).  For      *)
(* NoDanglingReversal an id belongs to one entry, in memory and in the     *)
(* table, and the STORNO is there before the original is marked, as long   *)
(* as no error was swallowed (ReversalInv).  For ReadIsApplied a message   *)
(* that was read has a marker with its key, and one with a marker has had  *)
(* its effect or is in the hands of the handler (ReadInv).                 *)
(*                                                                         *)
(* For AnswerIsInTheBooks a document that was answered stornoPosted has    *)
(* original and STORNO in the table, whose lines cancel (PairInv).  For    *)
(* ReportsAgree the journal is finite (FiniteInv); a sum over a finite set *)
(* is the same in every order, so sums over accounts, over parts of the    *)
(* chart and over quarters may be taken apart and put together.            *)
(***************************************************************************)
EXTENDS Reports, FunctionTheorems, FiniteSetTheorems, WellFoundedInduction, NaturalsInduction,
        TLAPS

(* The message m posts the entry e. *)
Posts(m, e) ==
    /\ m.doc = e.doc
    /\ \/ m.type \in PostTypes /\ e.part = "document" /\ e.kind = "ORIGINAL"
       \/ m.type \in PayTypes /\ e.part = "payment" /\ e.kind = "ORIGINAL"
       \/ m.type \in RevertTypes /\ e.part = "document" /\ e.kind = "STORNO"

IdIsOld == \A e \in mem \cup db : e.id <= lastId

EntryIsCaused == \A e \in mem \cup db : \E m \in ingested : Posts(m, e)

HandlerIsFresh ==
    /\ handler.at # "idle" => handler.msg \in ingested
    /\ handler.at = "handle" => \A e \in mem : ~Posts(handler.msg, e)
    /\ handler.at \in {"handle", "persist"} => \A e \in db : ~Posts(handler.msg, e)
    /\ handler.at = "persist" =>
         \A e \in mem : e.id = handler.entry => Posts(handler.msg, e)

Inv == TypeOK /\ IdIsOld /\ EntryIsCaused /\ HandlerIsFresh /\ AtMostOnce

-----------------------------------------------------------------------------
(* A message is about a document. *)
LEMMA MessageIsTyped == \A m \in Message : m.doc \in Doc
  BY DEF Message, Doc

(* A handler that is not idle has a message and the ids of two entries. *)
LEMMA HandlerIsTyped ==
  ASSUME TypeOK, handler.at # "idle"
  PROVE  /\ handler \in Handling
         /\ handler.msg \in Message
         /\ handler.msg.doc \in Doc
         /\ handler.entry \in Nat
         /\ handler.original \in Nat
  <1>1. handler \in Handling
    BY DEF TypeOK, Idle
  <1> QED
    BY <1>1, MessageIsTyped DEF Handling

(* What a handler may do next keeps its type. *)
LEMMA GotoIsTyped ==
  ASSUME TypeOK, handler.at # "idle",
         NEW step \in {"handle", "persist", "update", "notify", "reply"}, Goto(step)
  PROVE  handler' \in Handling
  BY HandlerIsTyped DEF Goto, Handling

LEMMA NextAfterWriteIsTyped ==
  ASSUME TypeOK, handler.at # "idle", NextAfterWrite
  PROVE  handler' \in {Idle} \cup Handling
  BY GotoIsTyped DEF NextAfterWrite, Done

LEMMA TypeInit == Init => TypeOK
  BY LedgerAssumption DEF Init, TypeOK, Idle

LEMMA TypeStep == TypeOK /\ [Next]_vars => TypeOK'
<1> SUFFICES ASSUME TypeOK, [Next]_vars PROVE TypeOK'
    OBVIOUS
<1> USE LedgerAssumption
<1>1. CASE SkipDuplicate
  BY <1>1 DEF SkipDuplicate, Receives, TypeOK
<1>2. CASE Ingest
  BY <1>2 DEF Ingest, Receives, TypeOK, Handling
<1>3. CASE IngestError
  BY <1>3 DEF IngestError, Receives, Error, TypeOK
<1>4. CASE PostEntry
  <2>1. handler.msg.doc \in Doc /\ handler \in Handling
    BY <1>4, HandlerIsTyped DEF PostEntry, At
  <2>2. mem' \subseteq Entry
    BY <1>4, <2>1 DEF PostEntry, Entry, TypeOK
  <2>3. lastId + 1 \in Nat
    BY DEF TypeOK
  <2>4. handler' \in Handling
    BY <1>4, <2>1, <2>3 DEF PostEntry, Handling
  <2> QED
    BY <1>4, <2>2, <2>4 DEF PostEntry, TypeOK
<1>5. CASE PostStorno
  <2>1. handler \in Handling
    BY <1>5, HandlerIsTyped DEF PostStorno, At
  <2>2. PICK o \in Reversible(handler.msg.doc) :
          /\ mem' = (mem \ {o}) \cup
               {[o EXCEPT !.reversedBy = lastId + 1],
                [o EXCEPT !.id = lastId + 1, !.kind = "STORNO"]}
          /\ handler' = [handler EXCEPT !.at = "persist", !.entry = lastId + 1,
                                        !.original = o.id]
    BY <1>5 DEF PostStorno
  <2>3. o \in Entry
    BY DEF Reversible, TypeOK
  <2>4. lastId + 1 \in Nat
    BY DEF TypeOK
  <2>5. [o EXCEPT !.reversedBy = lastId + 1] \in Entry
    BY <2>3, <2>4 DEF Entry
  <2>6. [o EXCEPT !.id = lastId + 1, !.kind = "STORNO"] \in Entry
    BY <2>3, <2>4 DEF Entry
  <2>7. mem' \subseteq Entry
    BY <2>2, <2>5, <2>6 DEF TypeOK
  <2>8. o.id \in Nat
    BY <2>3 DEF Entry
  <2>9. handler' \in Handling
    BY <2>1, <2>2, <2>4, <2>8 DEF Handling
  <2> QED
    BY <1>5, <2>7, <2>9 DEF PostStorno, TypeOK
<1>6. CASE RefuseStorno
  BY <1>6, GotoIsTyped DEF RefuseStorno, At, TypeOK
<1>7. CASE IgnoreInvoiceSent
  BY <1>7 DEF IgnoreInvoiceSent, Done, TypeOK
<1>8. ASSUME At("persist"), AfterPersist
      PROVE  handler' \in {Idle} \cup Handling
  BY <1>8, GotoIsTyped, NextAfterWriteIsTyped DEF AfterPersist, At
<1>9. CASE Persist
  <2>1. \A e \in Entry : [e EXCEPT !.reversedBy = 0] \in Entry
    BY DEF Entry
  <2>2. NewRow \subseteq Entry
    BY <2>1 DEF NewRow, TypeOK
  <2> QED
    BY <1>8, <1>9, <2>2 DEF Persist, TypeOK
<1>10. CASE PersistError
  BY <1>8, <1>10 DEF PersistError, Error, TypeOK
<1>11. CASE UpdateOriginal
  <2>1. handler.entry \in Nat
    BY <1>11, HandlerIsTyped DEF UpdateOriginal, At
  <2>2. db' \subseteq Entry
    BY <1>11, <2>1 DEF UpdateOriginal, Entry, TypeOK
  <2>3. handler' \in {Idle} \cup Handling
    BY <1>11, NextAfterWriteIsTyped DEF UpdateOriginal, At
  <2> QED
    BY <1>11, <2>2, <2>3 DEF UpdateOriginal, TypeOK
<1>12. CASE UpdateError
  <2>1. handler' \in {Idle} \cup Handling
    BY <1>12, NextAfterWriteIsTyped DEF UpdateError, At
  <2> QED
    BY <1>12, <2>1 DEF UpdateError, Error, TypeOK
<1>13. ASSUME At("notify"), AfterNotify
       PROVE  handler' \in {Idle} \cup Handling
  BY <1>13, GotoIsTyped DEF AfterNotify, At, Done
<1>14. CASE Notify
  <2>1. handler.msg.doc \in Doc /\ handler.entry \in Nat
    BY <1>14, HandlerIsTyped DEF Notify, At
  <2>2. ledgerTopic' \in Seq(LedgerMessage)
    BY <1>14, <2>1 DEF Notify, LedgerMessage, TypeOK
  <2> QED
    BY <1>13, <1>14, <2>2 DEF Notify, TypeOK
<1>15. CASE NotifyError
  BY <1>13, <1>15 DEF NotifyError, Error, TypeOK
<1>16. CASE Reply
  <2>1. handler.msg.doc \in Doc /\ handler.entry \in Nat
    BY <1>16, HandlerIsTyped DEF Reply, At
  <2>2. ledgerTopic' \in Seq(LedgerMessage)
    BY <1>16, <2>1 DEF Reply, LedgerMessage, TypeOK
  <2> QED
    BY <1>16, <2>2 DEF Reply, Done, TypeOK
<1>17. CASE ReplyError
  BY <1>17 DEF ReplyError, Error, Done, TypeOK
<1>18. CASE Commit
  BY <1>18 DEF Commit, TypeOK
<1>19. CASE Rebalance
  BY <1>19 DEF Rebalance, Restart, TypeOK
<1>20. CASE Crash
  BY <1>20 DEF Crash, Restart, TypeOK
<1>21. ASSUME NEW m \in Message, Produce(m) PROVE TypeOK'
  BY <1>21 DEF Produce, consumerVars, TypeOK
<1>22. CASE UNCHANGED vars
  BY <1>22 DEF vars, TypeOK
<1> QED
  BY <1>1, <1>2, <1>3, <1>4, <1>5, <1>6, <1>7, <1>9, <1>10, <1>11, <1>12, <1>14,
     <1>15, <1>16, <1>17, <1>18, <1>19, <1>20, <1>21, <1>22
     DEF Next, Progress, Handle, Trouble

(* Every variable of the ledger consumer keeps its type, the offset is at   *)
(* most one past the topic and the committed offset never ahead of it.      *)
THEOREM TypeCorrect == Spec => []TypeOK
<1>1. Init => TypeOK
  BY TypeInit
<1>2. TypeOK /\ [Next]_vars => TypeOK'
  BY TypeStep
<1> QED
  BY <1>1, <1>2, PTL DEF Spec

-----------------------------------------------------------------------------
(* AtMostOnce for one journal. *)
Unique(journal) ==
    \A e, f \in journal :
        (e.doc = f.doc /\ e.part = f.part /\ e.kind = f.kind) => e = f

LEMMA AtMostOnceSplit == AtMostOnce <=> Unique(mem) /\ Unique(db)
  BY DEF AtMostOnce, Unique

(* Two messages that would post the same entry have the same key: the kind  *)
(* of its document fixes the type of the message.                           *)
LEMMA SameEntrySameKey ==
  ASSUME NEW m \in Message, NEW n \in Message, NEW e,
         Posts(m, e), Posts(n, e)
  PROVE  SameKey(m, n)
  BY LedgerAssumption
     DEF Message, Posts, SameKey, PostTypes, PayTypes, RevertTypes

(* A message posts one entry at most. *)
LEMMA PostedIsUnique ==
  ASSUME NEW m, NEW journal, Unique(journal),
         NEW e \in journal, NEW f \in journal, Posts(m, e), Posts(m, f)
  PROVE  e = f
  BY DEF Posts, Unique, PostTypes, PayTypes, RevertTypes

(* A step that changes neither the journal nor the markers, and after which *)
(* nothing is left to be posted or saved.                                   *)
LEMMA QuietStep ==
  ASSUME Inv, TypeOK', UNCHANGED <<mem, db, lastId, ingested>>,
         \/ handler' = handler
         \/ handler' = Idle
         \/ /\ handler.at # "idle"
            /\ handler'.at \in {"update", "notify", "reply"}
            /\ handler'.msg = handler.msg
  PROVE  Inv'
<1>1. IdIsOld' /\ EntryIsCaused' /\ AtMostOnce'
  BY DEF Inv, IdIsOld, EntryIsCaused, AtMostOnce
<1>2. HandlerIsFresh'
  BY DEF Inv, HandlerIsFresh, Idle
<1> QED
  BY <1>1, <1>2 DEF Inv

LEMMA GotoKeepsMessage ==
  ASSUME TypeOK, handler.at # "idle",
         NEW step \in {"update", "notify", "reply"}, Goto(step)
  PROVE  handler'.at = step /\ handler'.msg = handler.msg
  BY HandlerIsTyped DEF Goto, Handling

LEMMA NextAfterWriteIsQuiet ==
  ASSUME TypeOK, handler.at # "idle", NextAfterWrite
  PROVE  \/ handler' = Idle
         \/ /\ handler'.at \in {"update", "notify", "reply"}
            /\ handler'.msg = handler.msg
  BY GotoKeepsMessage DEF NextAfterWrite, Done

LEMMA AfterPersistIsQuiet ==
  ASSUME TypeOK, handler.at # "idle", AfterPersist
  PROVE  \/ handler' = Idle
         \/ /\ handler'.at \in {"update", "notify", "reply"}
            /\ handler'.msg = handler.msg
  BY GotoKeepsMessage, NextAfterWriteIsQuiet DEF AfterPersist

LEMMA AfterNotifyIsQuiet ==
  ASSUME TypeOK, handler.at # "idle", AfterNotify
  PROVE  \/ handler' = Idle
         \/ /\ handler'.at \in {"update", "notify", "reply"}
            /\ handler'.msg = handler.msg
  BY GotoKeepsMessage DEF AfterNotify, Done

(* A message that is not a duplicate has posted nothing yet. *)
LEMMA IngestStep == Inv /\ TypeOK' /\ Ingest => Inv'
<1> SUFFICES ASSUME Inv, TypeOK', Ingest PROVE Inv'
  OBVIOUS
<1>1. PICK m \in Message :
        /\ ~IsDuplicate(m)
        /\ ingested' = ingested \cup {m}
        /\ handler' = [at |-> "handle", msg |-> m, entry |-> 0, original |-> 0]
  BY DEF Ingest
<1>2. UNCHANGED <<mem, db, lastId>>
  BY DEF Ingest
<1>3. IdIsOld' /\ AtMostOnce'
  BY <1>2 DEF Inv, IdIsOld, AtMostOnce
<1>4. EntryIsCaused'
  BY <1>1, <1>2 DEF Inv, EntryIsCaused
<1>5. ASSUME NEW e \in mem \cup db, Posts(m, e) PROVE FALSE
  <2>1. PICK n \in ingested : Posts(n, e)
    BY DEF Inv, EntryIsCaused
  <2>2. n \in Message
    BY DEF Inv, TypeOK
  <2>3. SameKey(m, n)
    BY <1>5, <2>1, <2>2, SameEntrySameKey
  <2> QED
    BY <1>1, <2>3 DEF IsDuplicate
<1>6. HandlerIsFresh'
  BY <1>1, <1>2, <1>5 DEF HandlerIsFresh
<1> QED
  BY <1>3, <1>4, <1>6 DEF Inv

(* Posting: the new entry is the only one its message posts. *)
LEMMA PostEntryStep == Inv /\ TypeOK' /\ PostEntry => Inv'
<1> SUFFICES ASSUME Inv, TypeOK', PostEntry PROVE Inv'
  OBVIOUS
<1> DEFINE m == handler.msg
           new == [id |-> lastId + 1, doc |-> m.doc, kind |-> "ORIGINAL",
                   part |-> IF m.type \in PayTypes THEN "payment" ELSE "document",
                   reversedBy |-> 0]
<1>1. /\ handler.at = "handle"
      /\ m.type \in PostTypes \cup PayTypes
      /\ lastId' = lastId + 1
      /\ mem' = mem \cup {new}
      /\ handler' = [handler EXCEPT !.at = "persist", !.entry = lastId + 1]
      /\ UNCHANGED <<db, ingested>>
  BY DEF PostEntry, At
<1>2. m \in Message /\ m \in ingested /\ handler \in Handling
  BY <1>1, HandlerIsTyped DEF Inv, HandlerIsFresh
<1>3. lastId \in Nat /\ (\A e \in mem \cup db : e.id \in Nat)
  BY DEF Inv, TypeOK, Entry
<1>4. Posts(m, new)
  BY <1>1 DEF Posts, PostTypes, PayTypes
<1>5. IdIsOld'
  BY <1>1, <1>3 DEF Inv, IdIsOld
<1>6. EntryIsCaused'
  BY <1>1, <1>2, <1>4 DEF Inv, EntryIsCaused
<1>7. HandlerIsFresh'
  <2>1. /\ handler'.at = "persist"
        /\ handler'.msg = m
        /\ handler'.entry = lastId + 1
    BY <1>1, <1>2 DEF Handling
  <2>2. \A e \in db : ~Posts(m, e)
    BY <1>1 DEF Inv, HandlerIsFresh
  <2>3. \A e \in mem : e.id # lastId + 1
    BY <1>3 DEF Inv, IdIsOld
  <2> HIDE DEF new
  <2>4. \A e \in mem' : e.id = lastId + 1 => Posts(m, e)
    BY <1>1, <1>4, <2>3
  <2> QED
    BY <1>1, <1>2, <2>1, <2>2, <2>4 DEF HandlerIsFresh
<1>8. Unique(mem')
  <2>1. \A e \in mem : ~Posts(m, e)
    BY <1>1 DEF Inv, HandlerIsFresh
  <2>2. \A e \in mem : ~(e.doc = new.doc /\ e.part = new.part /\ e.kind = new.kind)
    BY <1>4, <2>1 DEF Posts
  <2>3. Unique(mem)
    BY AtMostOnceSplit DEF Inv
  <2> HIDE DEF new
  <2> QED
    BY <1>1, <2>2, <2>3 DEF Unique
<1>9. AtMostOnce'
  <2>1. Unique(db)
    BY AtMostOnceSplit DEF Inv
  <2> QED
    BY <1>1, <1>8, <2>1 DEF AtMostOnce, Unique
<1> QED
  BY <1>5, <1>6, <1>7, <1>9 DEF Inv

(* Reversing: the STORNO is new, and the original keeps its document, part  *)
(* and kind.                                                                *)
LEMMA PostStornoStep == Inv /\ TypeOK' /\ PostStorno => Inv'
<1> SUFFICES ASSUME Inv, TypeOK', PostStorno PROVE Inv'
  OBVIOUS
<1> DEFINE m == handler.msg
<1>1. /\ handler.at = "handle"
      /\ m.type \in RevertTypes
      /\ lastId' = lastId + 1
      /\ UNCHANGED <<db, ingested>>
  BY DEF PostStorno, At, IsRevert
<1>2. PICK o \in Reversible(m.doc) :
        /\ mem' = (mem \ {o}) \cup
             {[o EXCEPT !.reversedBy = lastId + 1],
              [o EXCEPT !.id = lastId + 1, !.kind = "STORNO"]}
        /\ handler' = [handler EXCEPT !.at = "persist", !.entry = lastId + 1,
                                      !.original = o.id]
  BY DEF PostStorno
<1> DEFINE marked == [o EXCEPT !.reversedBy = lastId + 1]
           storno == [o EXCEPT !.id = lastId + 1, !.kind = "STORNO"]
<1>3. m \in Message /\ m \in ingested /\ handler \in Handling
  BY <1>1, HandlerIsTyped DEF Inv, HandlerIsFresh
<1>4. lastId \in Nat /\ (\A e \in mem \cup db : e.id \in Nat)
  BY DEF Inv, TypeOK, Entry
<1>5. o \in mem /\ o \in Entry /\ o.doc = m.doc /\ o.part = "document" /\ o.kind = "ORIGINAL"
  BY DEF Reversible, Inv, TypeOK
<1>6. /\ marked.id = o.id /\ marked.doc = o.doc
      /\ marked.part = o.part /\ marked.kind = o.kind
  BY <1>5 DEF Entry
<1>7. /\ storno.id = lastId + 1 /\ storno.doc = m.doc
      /\ storno.part = "document" /\ storno.kind = "STORNO"
  BY <1>5 DEF Entry
<1>8. Posts(m, storno)
  BY <1>1, <1>7 DEF Posts
<1>9. mem' = (mem \ {o}) \cup {marked, storno}
  BY <1>2
<1>10. \A e \in mem : ~Posts(m, e)
  BY <1>1 DEF Inv, HandlerIsFresh
<1>11. /\ handler'.at = "persist"
       /\ handler'.msg = m
       /\ handler'.entry = lastId + 1
  BY <1>2, <1>3 DEF Handling
<1> HIDE DEF marked, storno
<1>12. IdIsOld'
  BY <1>1, <1>4, <1>5, <1>6, <1>7, <1>9 DEF Inv, IdIsOld
<1>13. EntryIsCaused'
  <2>1. PICK n \in ingested : Posts(n, o)
    BY <1>5 DEF Inv, EntryIsCaused
  <2>2. Posts(n, marked)
    BY <1>6, <2>1 DEF Posts
  <2> QED
    BY <1>1, <1>3, <1>8, <1>9, <2>2 DEF Inv, EntryIsCaused
<1>14. HandlerIsFresh'
  <2>1. \A e \in db : ~Posts(m, e)
    BY <1>1 DEF Inv, HandlerIsFresh
  <2>2. \A e \in mem : e.id # lastId + 1
    BY <1>4 DEF Inv, IdIsOld
  <2>3. \A e \in mem' : e.id = lastId + 1 => Posts(m, e)
    BY <1>5, <1>6, <1>8, <1>9, <2>2
  <2> QED
    BY <1>1, <1>3, <1>11, <2>1, <2>3 DEF HandlerIsFresh
<1>15. Unique(mem')
  <2>1. \A e \in mem : ~(e.doc = storno.doc /\ e.part = storno.part /\ e.kind = storno.kind)
    BY <1>1, <1>7, <1>10 DEF Posts
  <2>2. ~(marked.kind = storno.kind)
    BY <1>5, <1>6, <1>7
  <2>3. Unique(mem)
    BY AtMostOnceSplit DEF Inv
  <2>4. \A e \in mem \ {o} :
           ~(e.doc = marked.doc /\ e.part = marked.part /\ e.kind = marked.kind)
    BY <1>5, <1>6, <2>3 DEF Unique
  <2> QED
    BY <1>9, <2>1, <2>2, <2>3, <2>4 DEF Unique
<1>16. AtMostOnce'
  <2>1. Unique(db)
    BY AtMostOnceSplit DEF Inv
  <2> QED
    BY <1>1, <1>15, <2>1 DEF AtMostOnce, Unique
<1> QED
  BY <1>12, <1>13, <1>14, <1>16 DEF Inv

(* Saving: the row is the entry the message has just posted, and the table  *)
(* holds none of that message.                                              *)
LEMMA PersistStep == Inv /\ TypeOK' /\ Persist => Inv'
<1> SUFFICES ASSUME Inv, TypeOK', Persist PROVE Inv'
  OBVIOUS
<1> DEFINE m == handler.msg
<1>1. /\ handler.at = "persist"
      /\ db' = db \cup NewRow
      /\ UNCHANGED <<mem, lastId, ingested>>
      /\ AfterPersist
  BY DEF Persist, At
<1>2. m \in ingested
  BY <1>1 DEF Inv, HandlerIsFresh
<1>3. \A e \in db : ~Posts(m, e)
  BY <1>1 DEF Inv, HandlerIsFresh
<1>4. \A r \in NewRow : Posts(m, r) /\ r.id <= lastId
  <2> TAKE r \in NewRow
  <2>1. PICK e \in mem : e.id = handler.entry /\ r = [e EXCEPT !.reversedBy = 0]
    BY DEF NewRow
  <2>2. r.id = e.id /\ r.doc = e.doc /\ r.part = e.part /\ r.kind = e.kind
    BY <2>1 DEF Inv, TypeOK, Entry
  <2>3. Posts(m, e)
    BY <1>1, <2>1 DEF Inv, HandlerIsFresh
  <2> QED
    BY <2>2, <2>3 DEF Posts, Inv, IdIsOld
<1>5. \A r, q \in NewRow : r = q
  <2> TAKE r, q \in NewRow
  <2>1. PICK e \in mem : e.id = handler.entry /\ r = [e EXCEPT !.reversedBy = 0]
    BY DEF NewRow
  <2>2. PICK f \in mem : f.id = handler.entry /\ q = [f EXCEPT !.reversedBy = 0]
    BY DEF NewRow
  <2>3. Posts(m, e) /\ Posts(m, f)
    BY <1>1, <2>1, <2>2 DEF Inv, HandlerIsFresh
  <2>4. Unique(mem)
    BY AtMostOnceSplit DEF Inv
  <2> QED
    BY <2>1, <2>2, <2>3, <2>4, PostedIsUnique
<1>6. IdIsOld'
  BY <1>1, <1>4 DEF Inv, IdIsOld
<1>7. EntryIsCaused'
  BY <1>1, <1>2, <1>4 DEF Inv, EntryIsCaused
<1>8. HandlerIsFresh'
  BY <1>1, <1>2, AfterPersistIsQuiet DEF Inv, HandlerIsFresh, Idle
<1>9. Unique(db')
  <2>1. \A e \in db, r \in NewRow : ~(e.doc = r.doc /\ e.part = r.part /\ e.kind = r.kind)
    BY <1>3, <1>4 DEF Posts
  <2>2. Unique(db)
    BY AtMostOnceSplit DEF Inv
  <2> QED
    BY <1>1, <1>5, <2>1, <2>2 DEF Unique
<1>10. AtMostOnce'
  <2>1. Unique(mem)
    BY AtMostOnceSplit DEF Inv
  <2> QED
    BY <1>1, <1>9, <2>1 DEF AtMostOnce, Unique
<1> QED
  BY <1>6, <1>7, <1>8, <1>10 DEF Inv

(* Marking the original in the table changes reversedBy alone. *)
LEMMA UpdateOriginalStep == Inv /\ TypeOK' /\ UpdateOriginal => Inv'
<1> SUFFICES ASSUME Inv, TypeOK', UpdateOriginal PROVE Inv'
  OBVIOUS
<1> DEFINE row(e) == IF e.id = handler.original
                     THEN [e EXCEPT !.reversedBy = handler.entry] ELSE e
<1>1. /\ handler.at = "update"
      /\ db' = {row(e) : e \in db}
      /\ UNCHANGED <<mem, lastId, ingested>>
      /\ NextAfterWrite
  BY DEF UpdateOriginal, At
<1>2. \A e \in db : /\ row(e).id = e.id /\ row(e).doc = e.doc
                    /\ row(e).part = e.part /\ row(e).kind = e.kind
  BY DEF Inv, TypeOK, Entry
<1> HIDE DEF row
<1>3. IdIsOld'
  BY <1>1, <1>2 DEF Inv, IdIsOld
<1>4. EntryIsCaused'
  BY <1>1, <1>2 DEF Inv, EntryIsCaused, Posts
<1>5. HandlerIsFresh'
  BY <1>1, NextAfterWriteIsQuiet DEF Inv, HandlerIsFresh, Idle
<1>6. AtMostOnce'
  <2>1. Unique(mem) /\ Unique(db)
    BY AtMostOnceSplit DEF Inv
  <2>2. Unique(db')
    BY <1>1, <1>2, <2>1 DEF Unique
  <2> QED
    BY <1>1, <2>1, <2>2 DEF AtMostOnce, Unique
<1> QED
  BY <1>3, <1>4, <1>5, <1>6 DEF Inv

(* A restart reads the journal back from the table, and the markers stay.   *)
LEMMA CrashStep == Inv /\ TypeOK' /\ Crash => Inv'
  BY DEF Crash, Inv, IdIsOld, EntryIsCaused, HandlerIsFresh, AtMostOnce, Idle

LEMMA InvStep == Inv /\ [Next]_vars => Inv'
<1> SUFFICES ASSUME Inv, [Next]_vars PROVE Inv'
  OBVIOUS
<1>1. TypeOK /\ TypeOK'
  BY TypeStep DEF Inv
<1>2. CASE SkipDuplicate
  BY <1>1, <1>2, QuietStep DEF SkipDuplicate
<1>3. CASE Ingest
  BY <1>1, <1>3, IngestStep
<1>4. CASE IngestError
  BY <1>1, <1>4, QuietStep DEF IngestError
<1>5. CASE PostEntry
  BY <1>1, <1>5, PostEntryStep
<1>6. CASE PostStorno
  BY <1>1, <1>6, PostStornoStep
<1>7. CASE RefuseStorno
  BY <1>1, <1>7, GotoKeepsMessage, QuietStep DEF RefuseStorno, At
<1>8. CASE IgnoreInvoiceSent
  BY <1>1, <1>8, QuietStep DEF IgnoreInvoiceSent, Done
<1>9. CASE Persist
  BY <1>1, <1>9, PersistStep
<1>10. CASE PersistError
  BY <1>1, <1>10, AfterPersistIsQuiet, QuietStep DEF PersistError, At
<1>11. CASE UpdateOriginal
  BY <1>1, <1>11, UpdateOriginalStep
<1>12. CASE UpdateError
  BY <1>1, <1>12, NextAfterWriteIsQuiet, QuietStep DEF UpdateError, At
<1>13. CASE Notify
  BY <1>1, <1>13, AfterNotifyIsQuiet, QuietStep DEF Notify, At
<1>14. CASE NotifyError
  BY <1>1, <1>14, AfterNotifyIsQuiet, QuietStep DEF NotifyError, At
<1>15. CASE Reply
  BY <1>1, <1>15, QuietStep DEF Reply, Done
<1>16. CASE ReplyError
  BY <1>1, <1>16, QuietStep DEF ReplyError, Done
<1>17. CASE Commit
  BY <1>1, <1>17, QuietStep DEF Commit
<1>18. CASE Rebalance
  BY <1>1, <1>18, QuietStep DEF Rebalance
<1>19. CASE Crash
  BY <1>1, <1>19, CrashStep
<1>20. ASSUME NEW m \in Message, Produce(m) PROVE Inv'
  BY <1>1, <1>20, QuietStep DEF Produce, consumerVars
<1>21. CASE UNCHANGED vars
  BY <1>1, <1>21, QuietStep DEF vars
<1> QED
  BY <1>2, <1>3, <1>4, <1>5, <1>6, <1>7, <1>8, <1>9, <1>10, <1>11, <1>12, <1>13,
     <1>14, <1>15, <1>16, <1>17, <1>18, <1>19, <1>20, <1>21
     DEF Next, Progress, Handle, Trouble

(* However often events are repeated, re-sent or re-read after a restart,   *)
(* and whatever fails on the way, a document has at most one ORIGINAL       *)
(* entry, one payment and one STORNO, in memory and in the table.           *)
THEOREM PostsAtMostOnce == Spec => []AtMostOnce
<1>1. Init => Inv
  BY TypeInit DEF Init, Inv, IdIsOld, EntryIsCaused, HandlerIsFresh, AtMostOnce, Idle
<1>2. Inv /\ [Next]_vars => Inv'
  BY InvStep
<1>3. Inv => AtMostOnce
  BY DEF Inv
<1> QED
  BY <1>1, <1>2, <1>3, PTL DEF Spec

-----------------------------------------------------------------------------
(* One answer.  Every answer goes back to an ingested request about its     *)
(* document (AnswerIsCaused), so that a request that is not a duplicate has *)
(* no answer yet (HandlerIsUnanswered); and a request that is about to be   *)
(* refused finds no STORNO (RefusalIsTrue).                                 *)
AnswerIsCaused ==
    \A i \in DOMAIN ledgerTopic : ledgerTopic[i].type # "journalEntryPosted" =>
        \E m \in ingested : m.type \in RevertTypes /\ m.doc = ledgerTopic[i].doc

HandlerIsUnanswered ==
    handler.at # "idle" /\ IsRevert =>
        \A i \in DOMAIN ledgerTopic :
            ledgerTopic[i].type # "journalEntryPosted" => ledgerTopic[i].doc # handler.msg.doc

RefusalIsTrue ==
    /\ handler.at = "reply" => IsRevert
    /\ handler.at = "handle" => handler.entry = 0
    /\ handler.at \in {"persist", "update", "notify"} => handler.entry # 0
    /\ handler.at = "reply" /\ handler.entry = 0 =>
         \A e \in mem \cup db : e.doc = handler.msg.doc => e.kind # "STORNO"

AnswerInv == Inv /\ AnswerIsCaused /\ HandlerIsUnanswered /\ RefusalIsTrue /\ OneAnswer

(* A reversal names a STORNO.  An id means the same entry in memory and in  *)
(* the table (IdIsOne), so the row that is marked is the original that was  *)
(* reversed (OriginalIsKnown), and unless an error was swallowed the table  *)
(* has the STORNO by then (StornoIsKnown).                                  *)
IdIsOne ==
    \A e, f \in mem \cup db :
        e.id = f.id => e.doc = f.doc /\ e.part = f.part /\ e.kind = f.kind

IsStornoOf(s, id, d) == s.id = id /\ s.kind = "STORNO" /\ s.doc = d

OriginalIsKnown ==
    /\ handler.at = "update" => IsRevert
    /\ handler.at \in {"persist", "update"} /\ IsRevert =>
         \A e \in mem \cup db : e.id = handler.original =>
            e.kind = "ORIGINAL" /\ e.part = "document" /\ e.doc = handler.msg.doc

StornoIsKnown ==
    /\ handler.at = "persist" /\ IsRevert =>
         \E s \in mem : IsStornoOf(s, handler.entry, handler.msg.doc)
    /\ handler.at = "update" /\ errors = 0 =>
         \E s \in db : IsStornoOf(s, handler.entry, handler.msg.doc)

ReversalInv == Inv /\ IdIsOne /\ OriginalIsKnown /\ StornoIsKnown /\ NoDanglingReversal

-----------------------------------------------------------------------------
(* What a message adds to the end of a topic. *)
LEMMA AppendIndex ==
  ASSUME NEW S, NEW s \in Seq(S), NEW x \in S
  PROVE  /\ DOMAIN Append(s, x) = DOMAIN s \cup {Len(s) + 1}
         /\ Len(s) + 1 \notin DOMAIN s
         /\ \A i \in DOMAIN s : Append(s, x)[i] = s[i]
         /\ Append(s, x)[Len(s) + 1] = x
  OBVIOUS

LEMMA GotoKeepsHandler ==
  ASSUME TypeOK, handler.at # "idle",
         NEW step \in {"update", "notify", "reply"}, Goto(step)
  PROVE  /\ handler'.at = step
         /\ handler'.msg = handler.msg
         /\ handler'.entry = handler.entry
         /\ handler'.original = handler.original
  BY HandlerIsTyped DEF Goto, Handling

(* A handler that goes on has the same message and entries, and is at       *)
(* "reply" only for a request to reverse.                                   *)
GoesOn ==
    \/ handler' = Idle
    \/ /\ handler'.at \in {"update", "notify", "reply"}
       /\ handler'.at = "reply" => IsRevert
       /\ handler'.msg = handler.msg
       /\ handler'.entry = handler.entry
       /\ handler'.original = handler.original

LEMMA NextAfterWriteGoesOn ==
  ASSUME TypeOK, handler.at # "idle", NextAfterWrite
  PROVE  GoesOn /\ handler'.at # "update"
  BY GotoKeepsHandler DEF NextAfterWrite, Done, GoesOn, Idle

LEMMA AfterPersistGoesOn ==
  ASSUME TypeOK, handler.at # "idle", AfterPersist
  PROVE  GoesOn /\ (handler'.at = "update" => IsRevert)
  BY GotoKeepsHandler, NextAfterWriteGoesOn DEF AfterPersist, GoesOn

LEMMA AfterNotifyGoesOn ==
  ASSUME TypeOK, handler.at # "idle", AfterNotify
  PROVE  GoesOn /\ handler'.at # "update"
  BY GotoKeepsHandler DEF AfterNotify, Done, GoesOn, Idle

-----------------------------------------------------------------------------
NoNewStorno ==
    \A e \in mem' \cup db' : e.kind = "STORNO" =>
        \E f \in mem \cup db : f.kind = "STORNO" /\ f.doc = e.doc

(* A step without an answer, a marker or a STORNO. *)
LEMMA AnswerStays ==
  ASSUME AnswerInv, UNCHANGED <<ledgerTopic, ingested>>, NoNewStorno,
         \/ handler' = Idle
         \/ handler' = handler
         \/ handler.at \in {"persist", "update", "notify"} /\ GoesOn
  PROVE  AnswerIsCaused' /\ HandlerIsUnanswered' /\ RefusalIsTrue' /\ OneAnswer'
<1>1. AnswerIsCaused'
  BY DEF AnswerInv, AnswerIsCaused
<1>2. HandlerIsUnanswered'
  BY DEF AnswerInv, HandlerIsUnanswered, IsRevert, GoesOn, Idle
<1>3. RefusalIsTrue'
  BY DEF AnswerInv, RefusalIsTrue, IsRevert, GoesOn, Idle, NoNewStorno
<1>4. OneAnswer'
  BY DEF AnswerInv, OneAnswer, Replies, NoNewStorno
<1> QED
  BY <1>1, <1>2, <1>3, <1>4

(* A request that was not ingested before has no answer. *)
LEMMA AnswerIngest ==
  ASSUME AnswerInv, Ingest
  PROVE  AnswerIsCaused' /\ HandlerIsUnanswered' /\ RefusalIsTrue' /\ OneAnswer'
<1>1. PICK m \in Message :
        /\ ~IsDuplicate(m)
        /\ ingested' = ingested \cup {m}
        /\ handler' = [at |-> "handle", msg |-> m, entry |-> 0, original |-> 0]
  BY DEF Ingest
<1>2. UNCHANGED <<mem, db, ledgerTopic>>
  BY DEF Ingest
<1>3. AnswerIsCaused' /\ OneAnswer'
  BY <1>1, <1>2 DEF AnswerInv, AnswerIsCaused, OneAnswer, Replies
<1>4. ASSUME m.type \in RevertTypes, NEW i \in DOMAIN ledgerTopic,
             ledgerTopic[i].type # "journalEntryPosted", ledgerTopic[i].doc = m.doc
      PROVE  FALSE
  <2>1. PICK n \in ingested : n.type \in RevertTypes /\ n.doc = m.doc
    BY <1>4 DEF AnswerInv, AnswerIsCaused
  <2>2. n \in Message
    BY DEF AnswerInv, Inv, TypeOK
  <2>3. n.type = m.type
    BY <1>4, <2>1, <2>2, LedgerAssumption DEF Message, RevertTypes
  <2> QED
    BY <1>1, <2>1, <2>3 DEF IsDuplicate, SameKey
<1>5. HandlerIsUnanswered'
  BY <1>1, <1>2, <1>4 DEF HandlerIsUnanswered, IsRevert
<1>6. RefusalIsTrue'
  BY <1>1 DEF RefusalIsTrue
<1> QED
  BY <1>3, <1>5, <1>6

LEMMA AnswerPostEntry ==
  ASSUME AnswerInv, PostEntry
  PROVE  AnswerIsCaused' /\ HandlerIsUnanswered' /\ RefusalIsTrue' /\ OneAnswer'
<1> DEFINE new == [id |-> lastId + 1, doc |-> handler.msg.doc, kind |-> "ORIGINAL",
                   part |-> IF handler.msg.type \in PayTypes THEN "payment" ELSE "document",
                   reversedBy |-> 0]
<1>1. /\ handler.at = "handle"
      /\ mem' = mem \cup {new}
      /\ handler' = [handler EXCEPT !.at = "persist", !.entry = lastId + 1]
      /\ UNCHANGED <<db, ingested, ledgerTopic>>
  BY DEF PostEntry, At
<1>2. handler \in Handling /\ lastId \in Nat
  BY <1>1, HandlerIsTyped DEF AnswerInv, Inv, TypeOK
<1>3. handler'.at = "persist" /\ handler'.msg = handler.msg /\ handler'.entry = lastId + 1
  BY <1>1, <1>2 DEF Handling
<1>4. new.kind = "ORIGINAL"
  OBVIOUS
<1> HIDE DEF new
<1>5. AnswerIsCaused'
  BY <1>1 DEF AnswerInv, AnswerIsCaused
<1>6. HandlerIsUnanswered'
  BY <1>1, <1>3 DEF AnswerInv, HandlerIsUnanswered, IsRevert
<1>7. RefusalIsTrue'
  BY <1>2, <1>3 DEF RefusalIsTrue
<1>8. OneAnswer'
  BY <1>1, <1>4 DEF AnswerInv, OneAnswer, Replies
<1> QED
  BY <1>5, <1>6, <1>7, <1>8

(* The STORNO is of a document that has no answer. *)
LEMMA AnswerPostStorno ==
  ASSUME AnswerInv, PostStorno
  PROVE  AnswerIsCaused' /\ HandlerIsUnanswered' /\ RefusalIsTrue' /\ OneAnswer'
<1>1. /\ handler.at = "handle" /\ IsRevert
      /\ UNCHANGED <<db, ingested, ledgerTopic>>
  BY DEF PostStorno, At
<1>2. PICK o \in Reversible(handler.msg.doc) :
        /\ mem' = (mem \ {o}) \cup
             {[o EXCEPT !.reversedBy = lastId + 1],
              [o EXCEPT !.id = lastId + 1, !.kind = "STORNO"]}
        /\ handler' = [handler EXCEPT !.at = "persist", !.entry = lastId + 1,
                                      !.original = o.id]
  BY DEF PostStorno
<1> DEFINE marked == [o EXCEPT !.reversedBy = lastId + 1]
           storno == [o EXCEPT !.id = lastId + 1, !.kind = "STORNO"]
<1>3. handler \in Handling /\ lastId \in Nat
  BY <1>1, HandlerIsTyped DEF AnswerInv, Inv, TypeOK
<1>4. handler'.at = "persist" /\ handler'.msg = handler.msg /\ handler'.entry = lastId + 1
  BY <1>2, <1>3 DEF Handling
<1>5. o \in Entry /\ o.kind = "ORIGINAL" /\ o.doc = handler.msg.doc
  BY DEF Reversible, AnswerInv, Inv, TypeOK
<1>6. marked.kind = "ORIGINAL" /\ storno.doc = handler.msg.doc
  BY <1>5 DEF Entry
<1>7. mem' = (mem \ {o}) \cup {marked, storno}
  BY <1>2
<1> HIDE DEF marked, storno
<1>8. \A i \in DOMAIN ledgerTopic :
        ledgerTopic[i].type # "journalEntryPosted" => ledgerTopic[i].doc # handler.msg.doc
  BY <1>1 DEF AnswerInv, HandlerIsUnanswered
<1>9. AnswerIsCaused'
  BY <1>1 DEF AnswerInv, AnswerIsCaused
<1>10. HandlerIsUnanswered'
  BY <1>1, <1>4, <1>8 DEF HandlerIsUnanswered
<1>11. RefusalIsTrue'
  BY <1>3, <1>4 DEF RefusalIsTrue
<1>12. OneAnswer'
  BY <1>1, <1>6, <1>7, <1>8 DEF AnswerInv, OneAnswer, Replies
<1> QED
  BY <1>9, <1>10, <1>11, <1>12

(* Nothing can be reversed, and nothing was: the request would have posted  *)
(* any STORNO of its document, and has posted none.                         *)
LEMMA AnswerRefuseStorno ==
  ASSUME AnswerInv, RefuseStorno
  PROVE  AnswerIsCaused' /\ HandlerIsUnanswered' /\ RefusalIsTrue' /\ OneAnswer'
<1>1. /\ handler.at = "handle" /\ IsRevert /\ Goto("reply")
      /\ UNCHANGED <<mem, db, ingested, ledgerTopic>>
  BY DEF RefuseStorno, At
<1>2. /\ handler'.at = "reply"
      /\ handler'.msg = handler.msg
      /\ handler'.entry = handler.entry
  BY <1>1, GotoKeepsHandler DEF AnswerInv, Inv
<1>3. ASSUME NEW e \in mem \cup db, e.doc = handler.msg.doc, e.kind = "STORNO" PROVE FALSE
  <2>1. PICK n \in ingested : Posts(n, e)
    BY DEF AnswerInv, Inv, EntryIsCaused
  <2>2. e.part = "document"
    BY <1>3, <2>1 DEF Posts
  <2>3. Posts(handler.msg, e)
    BY <1>1, <1>3, <2>2 DEF Posts, IsRevert
  <2> QED
    BY <1>1, <2>3 DEF AnswerInv, Inv, HandlerIsFresh
<1>4. AnswerIsCaused' /\ OneAnswer'
  BY <1>1 DEF AnswerInv, AnswerIsCaused, OneAnswer, Replies
<1>5. HandlerIsUnanswered'
  BY <1>1, <1>2 DEF AnswerInv, HandlerIsUnanswered
<1>6. RefusalIsTrue'
  BY <1>1, <1>2, <1>3 DEF RefusalIsTrue, IsRevert
<1> QED
  BY <1>4, <1>5, <1>6

LEMMA AnswerNotify ==
  ASSUME AnswerInv, Notify
  PROVE  AnswerIsCaused' /\ HandlerIsUnanswered' /\ RefusalIsTrue' /\ OneAnswer'
<1> DEFINE x == [type |-> "journalEntryPosted", doc |-> handler.msg.doc,
                 entry |-> handler.entry]
<1>1. /\ handler.at = "notify"
      /\ ledgerTopic' = Append(ledgerTopic, x)
      /\ AfterNotify
      /\ UNCHANGED <<mem, db, ingested>>
  BY DEF Notify, At
<1>2. GoesOn
  BY <1>1, AfterNotifyGoesOn DEF AnswerInv, Inv
<1>3. x \in LedgerMessage /\ ledgerTopic \in Seq(LedgerMessage)
  BY <1>1, HandlerIsTyped DEF AnswerInv, Inv, TypeOK, LedgerMessage
<1>4. x.type = "journalEntryPosted"
  OBVIOUS
<1> HIDE DEF x
<1>5. /\ DOMAIN ledgerTopic' = DOMAIN ledgerTopic \cup {Len(ledgerTopic) + 1}
      /\ \A i \in DOMAIN ledgerTopic : ledgerTopic'[i] = ledgerTopic[i]
      /\ ledgerTopic'[Len(ledgerTopic) + 1] = x
  BY <1>1, <1>3, AppendIndex
<1>6. AnswerIsCaused'
  BY <1>1, <1>4, <1>5 DEF AnswerInv, AnswerIsCaused
<1>7. HandlerIsUnanswered'
  BY <1>1, <1>2, <1>4, <1>5 DEF AnswerInv, HandlerIsUnanswered, IsRevert, GoesOn, Idle
<1>8. RefusalIsTrue'
  BY <1>1, <1>2 DEF AnswerInv, RefusalIsTrue, IsRevert, GoesOn, Idle
<1>9. OneAnswer'
  BY <1>1, <1>4, <1>5 DEF AnswerInv, OneAnswer, Replies
<1> QED
  BY <1>6, <1>7, <1>8, <1>9

(* The answer is the only one, and a refusal is true. *)
LEMMA AnswerReply ==
  ASSUME AnswerInv, Reply
  PROVE  AnswerIsCaused' /\ HandlerIsUnanswered' /\ RefusalIsTrue' /\ OneAnswer'
<1> DEFINE x == [type |-> IF handler.entry = 0 THEN "stornoFailed" ELSE "stornoPosted",
                 doc |-> handler.msg.doc, entry |-> handler.entry]
<1>1. /\ handler.at = "reply" /\ handler' = Idle
      /\ ledgerTopic' = Append(ledgerTopic, x)
      /\ UNCHANGED <<mem, db, ingested>>
  BY DEF Reply, At, Done
<1>2. x \in LedgerMessage /\ ledgerTopic \in Seq(LedgerMessage)
  BY <1>1, HandlerIsTyped DEF AnswerInv, Inv, TypeOK, LedgerMessage
<1>3. IsRevert /\ handler.msg \in ingested
  BY <1>1 DEF AnswerInv, RefusalIsTrue, Inv, HandlerIsFresh
<1>4. x.doc = handler.msg.doc /\ (x.type = "stornoFailed" => handler.entry = 0)
  OBVIOUS
<1> HIDE DEF x
<1>5. /\ DOMAIN ledgerTopic' = DOMAIN ledgerTopic \cup {Len(ledgerTopic) + 1}
      /\ \A i \in DOMAIN ledgerTopic : ledgerTopic'[i] = ledgerTopic[i]
      /\ ledgerTopic'[Len(ledgerTopic) + 1] = x
  BY <1>1, <1>2, AppendIndex
<1>6. AnswerIsCaused'
  BY <1>1, <1>3, <1>4, <1>5 DEF AnswerInv, AnswerIsCaused, IsRevert
<1>7. HandlerIsUnanswered' /\ RefusalIsTrue'
  BY <1>1 DEF HandlerIsUnanswered, RefusalIsTrue, Idle
<1>8. \A i \in DOMAIN ledgerTopic :
        ledgerTopic[i].type # "journalEntryPosted" => ledgerTopic[i].doc # x.doc
  BY <1>1, <1>3, <1>4 DEF AnswerInv, HandlerIsUnanswered
<1>9. x.type = "stornoFailed" => \A e \in mem \cup db : e.doc = x.doc => e.kind # "STORNO"
  BY <1>1, <1>4 DEF AnswerInv, RefusalIsTrue
<1>10. OneAnswer'
  BY <1>1, <1>5, <1>8, <1>9 DEF AnswerInv, OneAnswer, Replies
<1> QED
  BY <1>6, <1>7, <1>10

(* What is saved or marked is no new STORNO. *)
LEMMA PersistAddsNoStorno == Inv /\ Persist => NoNewStorno
<1> SUFFICES ASSUME Inv, Persist PROVE NoNewStorno
  OBVIOUS
<1>1. \A r \in NewRow : \E e \in mem : r.kind = e.kind /\ r.doc = e.doc
  BY DEF NewRow, Inv, TypeOK, Entry
<1> QED
  BY <1>1 DEF Persist, NoNewStorno

LEMMA UpdateAddsNoStorno == Inv /\ UpdateOriginal => NoNewStorno
<1> SUFFICES ASSUME Inv, UpdateOriginal PROVE NoNewStorno
  OBVIOUS
<1>1. \A e \in db : LET r == IF e.id = handler.original
                             THEN [e EXCEPT !.reversedBy = handler.entry] ELSE e
                    IN  r.kind = e.kind /\ r.doc = e.doc
  BY DEF Inv, TypeOK, Entry
<1> QED
  BY <1>1 DEF UpdateOriginal, NoNewStorno

LEMMA AnswerStep == AnswerInv /\ [Next]_vars => AnswerInv'
<1> SUFFICES ASSUME AnswerInv, [Next]_vars PROVE AnswerInv'
  OBVIOUS
<1>1. Inv /\ Inv' /\ TypeOK
  BY InvStep DEF AnswerInv, Inv
<1> SUFFICES AnswerIsCaused' /\ HandlerIsUnanswered' /\ RefusalIsTrue' /\ OneAnswer'
  BY <1>1 DEF AnswerInv
<1>2. UNCHANGED <<mem, db>> => NoNewStorno
  BY DEF NoNewStorno
<1>3. CASE SkipDuplicate
  BY <1>2, <1>3, AnswerStays DEF SkipDuplicate
<1>4. CASE Ingest
  BY <1>4, AnswerIngest
<1>5. CASE IngestError
  BY <1>2, <1>5, AnswerStays DEF IngestError
<1>6. CASE PostEntry
  BY <1>6, AnswerPostEntry
<1>7. CASE PostStorno
  BY <1>7, AnswerPostStorno
<1>8. CASE RefuseStorno
  BY <1>8, AnswerRefuseStorno
<1>9. CASE IgnoreInvoiceSent
  BY <1>2, <1>9, AnswerStays DEF IgnoreInvoiceSent, Done
<1>10. CASE Persist
  BY <1>1, <1>10, PersistAddsNoStorno, AfterPersistGoesOn, AnswerStays DEF Persist, At
<1>11. CASE PersistError
  BY <1>1, <1>2, <1>11, AfterPersistGoesOn, AnswerStays DEF PersistError, At
<1>12. CASE UpdateOriginal
  BY <1>1, <1>12, UpdateAddsNoStorno, NextAfterWriteGoesOn, AnswerStays DEF UpdateOriginal, At
<1>13. CASE UpdateError
  BY <1>1, <1>2, <1>13, NextAfterWriteGoesOn, AnswerStays DEF UpdateError, At
<1>14. CASE Notify
  BY <1>14, AnswerNotify
<1>15. CASE NotifyError
  BY <1>1, <1>2, <1>15, AfterNotifyGoesOn, AnswerStays DEF NotifyError, At
<1>16. CASE Reply
  BY <1>16, AnswerReply
<1>17. CASE ReplyError
  BY <1>2, <1>17, AnswerStays DEF ReplyError, Done
<1>18. CASE Commit
  BY <1>2, <1>18, AnswerStays DEF Commit
<1>19. CASE Rebalance
  BY <1>2, <1>19, AnswerStays DEF Rebalance
<1>20. CASE Crash
  <2>1. NoNewStorno
    BY <1>20 DEF Crash, NoNewStorno
  <2> QED
    BY <1>20, <2>1, AnswerStays DEF Crash
<1>21. ASSUME NEW m \in Message, Produce(m)
       PROVE  AnswerIsCaused' /\ HandlerIsUnanswered' /\ RefusalIsTrue' /\ OneAnswer'
  BY <1>2, <1>21, AnswerStays DEF Produce, consumerVars
<1>22. CASE UNCHANGED vars
  BY <1>2, <1>22, AnswerStays DEF vars
<1> QED
  BY <1>3, <1>4, <1>5, <1>6, <1>7, <1>8, <1>9, <1>10, <1>11, <1>12, <1>13, <1>14,
     <1>15, <1>16, <1>17, <1>18, <1>19, <1>20, <1>21, <1>22
     DEF Next, Progress, Handle, Trouble

(* However often requests are repeated or re-read, and whatever fails: a    *)
(* document gets one answer at most, and after stornoFailed its entries are *)
(* never reversed, in memory or in the table.                               *)
THEOREM AnswersOnce == Spec => []OneAnswer
<1>1. Init => AnswerInv
  <2>1. Init => Inv
    BY TypeInit DEF Init, Inv, IdIsOld, EntryIsCaused, HandlerIsFresh, AtMostOnce, Idle
  <2> QED
    BY <2>1 DEF Init, AnswerInv, AnswerIsCaused, HandlerIsUnanswered, RefusalIsTrue,
                OneAnswer, Replies, Idle
<1>2. AnswerInv /\ [Next]_vars => AnswerInv'
  BY AnswerStep
<1>3. AnswerInv => OneAnswer
  BY DEF AnswerInv
<1> QED
  BY <1>1, <1>2, <1>3, PTL DEF Spec

-----------------------------------------------------------------------------
(* A step that changes neither the journal nor the ids, and leaves nothing  *)
(* to be saved or marked.                                                   *)
LEMMA ReversalStays ==
  ASSUME ReversalInv, UNCHANGED <<mem, db>>, errors' = 0 => errors = 0,
         handler' = handler \/ handler'.at \notin {"persist", "update"}
  PROVE  IdIsOne' /\ OriginalIsKnown' /\ StornoIsKnown' /\ NoDanglingReversal'
<1>1. IdIsOne' /\ NoDanglingReversal'
  BY DEF ReversalInv, IdIsOne, NoDanglingReversal
<1>2. CASE handler' = handler
  <2>1. OriginalIsKnown'
    BY <1>2 DEF ReversalInv, OriginalIsKnown, IsRevert
  <2>2. errors' = 0 => errors = 0
    OBVIOUS
  <2>3. StornoIsKnown'
    BY <1>2, <2>2 DEF ReversalInv, StornoIsKnown, IsStornoOf, IsRevert
  <2> QED
    BY <1>1, <2>1, <2>3
<1>3. CASE handler'.at \notin {"persist", "update"}
  <2>1. OriginalIsKnown'
    BY <1>3 DEF OriginalIsKnown
  <2>2. StornoIsKnown'
    BY <1>3 DEF StornoIsKnown
  <2> QED
    BY <1>1, <2>1, <2>2
<1> QED
  BY <1>2, <1>3

LEMMA ReversalPostEntry ==
  ASSUME ReversalInv, PostEntry
  PROVE  IdIsOne' /\ OriginalIsKnown' /\ StornoIsKnown' /\ NoDanglingReversal'
<1> DEFINE new == [id |-> lastId + 1, doc |-> handler.msg.doc, kind |-> "ORIGINAL",
                   part |-> IF handler.msg.type \in PayTypes THEN "payment" ELSE "document",
                   reversedBy |-> 0]
<1>1. /\ handler.at = "handle"
      /\ handler.msg.type \in PostTypes \cup PayTypes
      /\ mem' = mem \cup {new}
      /\ handler' = [handler EXCEPT !.at = "persist", !.entry = lastId + 1]
      /\ UNCHANGED <<db, errors>>
  BY DEF PostEntry, At
<1>2. handler \in Handling /\ lastId \in Nat /\ (\A e \in mem \cup db : e.id \in Nat)
  BY <1>1, HandlerIsTyped DEF ReversalInv, Inv, TypeOK, Entry
<1>3. handler'.at = "persist" /\ handler'.msg = handler.msg
  BY <1>1, <1>2 DEF Handling
<1>4. handler.msg.type \notin RevertTypes
  BY <1>1 DEF PostTypes, PayTypes, RevertTypes
<1>5. \A e \in mem \cup db : e.id # lastId + 1
  BY <1>2 DEF ReversalInv, Inv, IdIsOld
<1>6. new.id = lastId + 1 /\ new.reversedBy = 0
  OBVIOUS
<1> HIDE DEF new
<1>7. IdIsOne'
  BY <1>1, <1>5, <1>6 DEF ReversalInv, IdIsOne
<1>8. OriginalIsKnown' /\ StornoIsKnown'
  BY <1>3, <1>4 DEF OriginalIsKnown, StornoIsKnown, IsRevert
<1>9. NoDanglingReversal'
  BY <1>1, <1>6 DEF ReversalInv, NoDanglingReversal
<1> QED
  BY <1>7, <1>8, <1>9

(* The original is marked with the id of the STORNO that is added with it.  *)
LEMMA ReversalPostStorno ==
  ASSUME ReversalInv, PostStorno
  PROVE  IdIsOne' /\ OriginalIsKnown' /\ StornoIsKnown' /\ NoDanglingReversal'
<1>1. /\ handler.at = "handle" /\ IsRevert
      /\ UNCHANGED <<db, errors>>
  BY DEF PostStorno, At
<1>2. PICK o \in Reversible(handler.msg.doc) :
        /\ mem' = (mem \ {o}) \cup
             {[o EXCEPT !.reversedBy = lastId + 1],
              [o EXCEPT !.id = lastId + 1, !.kind = "STORNO"]}
        /\ handler' = [handler EXCEPT !.at = "persist", !.entry = lastId + 1,
                                      !.original = o.id]
  BY DEF PostStorno
<1> DEFINE marked == [o EXCEPT !.reversedBy = lastId + 1]
           storno == [o EXCEPT !.id = lastId + 1, !.kind = "STORNO"]
<1>3. handler \in Handling /\ lastId \in Nat /\ (\A e \in mem \cup db : e.id \in Nat)
  BY <1>1, HandlerIsTyped DEF ReversalInv, Inv, TypeOK, Entry
<1>4. /\ handler'.at = "persist" /\ handler'.msg = handler.msg
      /\ handler'.entry = lastId + 1 /\ handler'.original = o.id
  BY <1>2, <1>3 DEF Handling
<1>5. /\ o \in mem /\ o \in Entry /\ o.kind = "ORIGINAL" /\ o.part = "document"
      /\ o.doc = handler.msg.doc /\ o.reversedBy = 0
  BY DEF Reversible, ReversalInv, Inv, TypeOK
<1>6. /\ marked.id = o.id /\ marked.kind = "ORIGINAL" /\ marked.part = "document"
      /\ marked.doc = o.doc /\ marked.reversedBy = lastId + 1
  BY <1>5 DEF Entry
<1>7. /\ storno.id = lastId + 1 /\ storno.kind = "STORNO" /\ storno.part = "document"
      /\ storno.doc = o.doc /\ storno.reversedBy = 0
  BY <1>5 DEF Entry
<1>8. mem' = (mem \ {o}) \cup {marked, storno}
  BY <1>2
<1> HIDE DEF marked, storno
<1>9. \A e \in mem \cup db : e.id # lastId + 1
  BY <1>3 DEF ReversalInv, Inv, IdIsOld
<1>10. IdIsOne'
  BY <1>1, <1>5, <1>6, <1>7, <1>8, <1>9 DEF ReversalInv, IdIsOne
<1>11. OriginalIsKnown'
  <2>1. \A e \in mem \cup db : e.id = o.id =>
           e.kind = "ORIGINAL" /\ e.part = "document" /\ e.doc = o.doc
    BY <1>5 DEF ReversalInv, IdIsOne
  <2>2. o.id # lastId + 1
    BY <1>5, <1>9
  <2> QED
    BY <1>1, <1>4, <1>5, <1>6, <1>7, <1>8, <2>1, <2>2 DEF OriginalIsKnown
<1>12. StornoIsKnown'
  BY <1>4, <1>5, <1>7, <1>8 DEF StornoIsKnown, IsStornoOf
<1>13. NoDanglingReversal'
  BY <1>1, <1>5, <1>6, <1>7, <1>8 DEF ReversalInv, NoDanglingReversal
<1> QED
  BY <1>10, <1>11, <1>12, <1>13

(* The rows that are saved are not reversed, and the STORNO is among them.  *)
LEMMA ReversalPersist ==
  ASSUME ReversalInv, Persist
  PROVE  IdIsOne' /\ OriginalIsKnown' /\ StornoIsKnown' /\ NoDanglingReversal'
<1>1. /\ handler.at = "persist" /\ AfterPersist
      /\ db' = db \cup NewRow
      /\ UNCHANGED <<mem, errors>>
  BY DEF Persist, At
<1>2. GoesOn /\ (handler'.at = "update" => IsRevert)
  BY <1>1, AfterPersistGoesOn DEF ReversalInv, Inv
<1>3. \A r \in NewRow : /\ r.reversedBy = 0
                        /\ \E e \in mem : r.id = e.id /\ r.doc = e.doc /\ r.part = e.part /\ r.kind = e.kind
  BY DEF NewRow, ReversalInv, Inv, TypeOK, Entry
<1>4. IdIsOne'
  BY <1>1, <1>3 DEF ReversalInv, IdIsOne
<1>5. OriginalIsKnown'
  BY <1>1, <1>2, <1>3 DEF ReversalInv, OriginalIsKnown, IsRevert, GoesOn, Idle
<1>6. StornoIsKnown'
  <2>1. ASSUME IsRevert PROVE \E r \in NewRow : IsStornoOf(r, handler.entry, handler.msg.doc)
    <3>1. PICK s \in mem : IsStornoOf(s, handler.entry, handler.msg.doc)
      BY <1>1, <2>1 DEF ReversalInv, StornoIsKnown
    <3>2. [s EXCEPT !.reversedBy = 0] \in NewRow
      BY <3>1 DEF NewRow, IsStornoOf
    <3>3. IsStornoOf([s EXCEPT !.reversedBy = 0], handler.entry, handler.msg.doc)
      BY <3>1 DEF IsStornoOf, ReversalInv, Inv, TypeOK, Entry
    <3> QED
      BY <3>2, <3>3
  <2>2. handler'.at = "update" => \E r \in NewRow : IsStornoOf(r, handler'.entry, handler'.msg.doc)
    BY <1>2, <2>1 DEF GoesOn, Idle
  <2> QED
    BY <1>1, <1>2, <2>2 DEF StornoIsKnown, IsStornoOf, GoesOn, Idle
<1>7. NoDanglingReversal'
  BY <1>1, <1>3 DEF ReversalInv, NoDanglingReversal
<1> QED
  BY <1>4, <1>5, <1>6, <1>7

(* When an error is swallowed, nothing is promised of the table any more.   *)
LEMMA ReversalPersistError ==
  ASSUME ReversalInv, PersistError
  PROVE  IdIsOne' /\ OriginalIsKnown' /\ StornoIsKnown' /\ NoDanglingReversal'
<1>1. /\ handler.at = "persist" /\ AfterPersist
      /\ errors' = errors + 1
      /\ UNCHANGED <<mem, db>>
  BY DEF PersistError, Error, At
<1>2. errors' # 0
  BY <1>1 DEF ReversalInv, Inv, TypeOK
<1>3. GoesOn /\ (handler'.at = "update" => IsRevert)
  BY <1>1, AfterPersistGoesOn DEF ReversalInv, Inv
<1>4. IdIsOne' /\ NoDanglingReversal'
  BY <1>1, <1>2 DEF ReversalInv, IdIsOne, NoDanglingReversal
<1>5. OriginalIsKnown'
  BY <1>1, <1>3 DEF ReversalInv, OriginalIsKnown, IsRevert, GoesOn, Idle
<1>6. StornoIsKnown'
  BY <1>2, <1>3 DEF StornoIsKnown, GoesOn, Idle
<1> QED
  BY <1>4, <1>5, <1>6

(* The row that is marked is that of the original, and its STORNO is there. *)
LEMMA ReversalUpdate ==
  ASSUME ReversalInv, UpdateOriginal
  PROVE  IdIsOne' /\ OriginalIsKnown' /\ StornoIsKnown' /\ NoDanglingReversal'
<1> DEFINE row(e) == IF e.id = handler.original
                     THEN [e EXCEPT !.reversedBy = handler.entry] ELSE e
<1>1. /\ handler.at = "update" /\ NextAfterWrite
      /\ db' = {row(e) : e \in db}
      /\ UNCHANGED <<mem, errors>>
  BY DEF UpdateOriginal, At
<1>2. \A e \in db : /\ row(e).id = e.id /\ row(e).doc = e.doc
                    /\ row(e).part = e.part /\ row(e).kind = e.kind
                    /\ row(e).reversedBy =
                         IF e.id = handler.original THEN handler.entry ELSE e.reversedBy
  BY DEF ReversalInv, Inv, TypeOK, Entry
<1> HIDE DEF row
<1>3. handler'.at \notin {"persist", "update"}
  BY <1>1, NextAfterWriteGoesOn DEF ReversalInv, Inv, GoesOn, Idle
<1>4. IdIsOne'
  BY <1>1, <1>2 DEF ReversalInv, IdIsOne
<1>5. OriginalIsKnown' /\ StornoIsKnown'
  BY <1>3 DEF OriginalIsKnown, StornoIsKnown
<1>6. ASSUME errors = 0, NEW e \in db, row(e).reversedBy # 0
      PROVE  /\ row(e).kind = "ORIGINAL" /\ row(e).part = "document"
             /\ \E s \in db : s.id = row(e).reversedBy /\ s.kind = "STORNO" /\ s.doc = row(e).doc
  <2>1. CASE e.id = handler.original
    <3>1. IsRevert
      BY <1>1 DEF ReversalInv, OriginalIsKnown
    <3>2. e.kind = "ORIGINAL" /\ e.part = "document" /\ e.doc = handler.msg.doc
      BY <1>1, <2>1, <3>1 DEF ReversalInv, OriginalIsKnown
    <3>3. \E s \in db : IsStornoOf(s, handler.entry, handler.msg.doc)
      BY <1>1, <1>6 DEF ReversalInv, StornoIsKnown
    <3> QED
      BY <1>2, <2>1, <3>2, <3>3 DEF IsStornoOf
  <2>2. CASE e.id # handler.original
    BY <1>2, <1>6, <2>2 DEF ReversalInv, NoDanglingReversal
  <2> QED
    BY <2>1, <2>2
<1>7. NoDanglingReversal'
  BY <1>1, <1>2, <1>6 DEF ReversalInv, NoDanglingReversal
<1> QED
  BY <1>4, <1>5, <1>7

(* The journal read back from the table. *)
LEMMA ReversalCrash ==
  ASSUME ReversalInv, Crash
  PROVE  IdIsOne' /\ OriginalIsKnown' /\ StornoIsKnown' /\ NoDanglingReversal'
<1>1. IdIsOne' /\ NoDanglingReversal'
  BY DEF Crash, ReversalInv, IdIsOne, NoDanglingReversal
<1>2. OriginalIsKnown' /\ StornoIsKnown'
  BY DEF Crash, OriginalIsKnown, StornoIsKnown, Idle
<1> QED
  BY <1>1, <1>2

LEMMA ReversalStep == ReversalInv /\ [Next]_vars => ReversalInv'
<1> SUFFICES ASSUME ReversalInv, [Next]_vars PROVE ReversalInv'
  OBVIOUS
<1>1. Inv /\ Inv' /\ TypeOK
  BY InvStep DEF ReversalInv, Inv
<1> SUFFICES IdIsOne' /\ OriginalIsKnown' /\ StornoIsKnown' /\ NoDanglingReversal'
  BY <1>1 DEF ReversalInv
<1>2. Error => (errors' = 0 => errors = 0)
  BY <1>1 DEF Error, TypeOK
<1>3. CASE SkipDuplicate
  BY <1>3, ReversalStays DEF SkipDuplicate
<1>4. CASE Ingest
  BY <1>4, ReversalStays DEF Ingest
<1>5. CASE IngestError
  BY <1>2, <1>5, ReversalStays DEF IngestError
<1>6. CASE PostEntry
  BY <1>6, ReversalPostEntry
<1>7. CASE PostStorno
  BY <1>7, ReversalPostStorno
<1>8. CASE RefuseStorno
  BY <1>1, <1>8, GotoKeepsHandler, ReversalStays DEF RefuseStorno, At
<1>9. CASE IgnoreInvoiceSent
  BY <1>9, ReversalStays DEF IgnoreInvoiceSent, Done, Idle
<1>10. CASE Persist
  BY <1>10, ReversalPersist
<1>11. CASE PersistError
  BY <1>11, ReversalPersistError
<1>12. CASE UpdateOriginal
  BY <1>12, ReversalUpdate
<1>13. CASE UpdateError
  BY <1>1, <1>2, <1>13, NextAfterWriteGoesOn, ReversalStays DEF UpdateError, At, GoesOn, Idle
<1>14. CASE Notify
  BY <1>1, <1>14, AfterNotifyGoesOn, ReversalStays DEF Notify, At, GoesOn, Idle
<1>15. CASE NotifyError
  BY <1>1, <1>2, <1>15, AfterNotifyGoesOn, ReversalStays DEF NotifyError, At, GoesOn, Idle
<1>16. CASE Reply
  BY <1>16, ReversalStays DEF Reply, Done, Idle
<1>17. CASE ReplyError
  BY <1>2, <1>17, ReversalStays DEF ReplyError, Done, Idle
<1>18. CASE Commit
  BY <1>18, ReversalStays DEF Commit
<1>19. CASE Rebalance
  BY <1>19, ReversalStays DEF Rebalance
<1>20. CASE Crash
  BY <1>20, ReversalCrash
<1>21. ASSUME NEW m \in Message, Produce(m)
       PROVE  IdIsOne' /\ OriginalIsKnown' /\ StornoIsKnown' /\ NoDanglingReversal'
  BY <1>21, ReversalStays DEF Produce, consumerVars
<1>22. CASE UNCHANGED vars
  BY <1>22, ReversalStays DEF vars
<1> QED
  BY <1>3, <1>4, <1>5, <1>6, <1>7, <1>8, <1>9, <1>10, <1>11, <1>12, <1>13, <1>14,
     <1>15, <1>16, <1>17, <1>18, <1>19, <1>20, <1>21, <1>22
     DEF Next, Progress, Handle, Trouble

(* Unless an error was swallowed: no payment is ever reversed, and wherever *)
(* a restart cuts in, an entry that counts as reversed has its STORNO in    *)
(* the same journal.                                                        *)
THEOREM ReversalsHaveStornos == Spec => []NoDanglingReversal
<1>1. Init => ReversalInv
  <2>1. Init => Inv
    BY TypeInit DEF Init, Inv, IdIsOld, EntryIsCaused, HandlerIsFresh, AtMostOnce, Idle
  <2> QED
    BY <2>1 DEF Init, ReversalInv, IdIsOne, OriginalIsKnown, StornoIsKnown,
                NoDanglingReversal, Idle
<1>2. ReversalInv /\ [Next]_vars => ReversalInv'
  BY ReversalStep
<1>3. ReversalInv => NoDanglingReversal
  BY DEF ReversalInv
<1> QED
  BY <1>1, <1>2, <1>3, PTL DEF Spec

-----------------------------------------------------------------------------
(* What was read has had its effect.  A message that was read has a marker  *)
(* with its key, its own or that of the message it repeats; and a message   *)
(* with a marker has had its effect or is in the hands of the handler, a    *)
(* request to reverse until it is answered.                                 *)
ReadIsIngested == \A i \in 1 .. pos - 1 : IsDuplicate(topic[i])

InHand(m) ==
    /\ handler.at # "idle" /\ handler.msg = m
    /\ handler.at = "handle" \/ m.type \in RevertTypes

IngestedIsApplied == \A m \in ingested : Effect(m) \/ InHand(m)

ReadInv == TypeOK /\ (restarts = 0 /\ errors = 0 => ReadIsIngested /\ IngestedIsApplied)

(* The cases of Effect do not overlap. *)
LEMMA EffectIs ==
  ASSUME NEW m \in Message
  PROVE  Effect(m) <=>
           /\ m.type \in PostTypes => \E e \in mem : e.doc = m.doc /\ e.part = "document"
           /\ m.type \in PayTypes => \E e \in mem : e.doc = m.doc /\ e.part = "payment"
           /\ m.type \in RevertTypes => Replies(m.doc) # {}
<1>1. CASE m.type \in PostTypes
  BY <1>1 DEF Effect, PostTypes, PayTypes, RevertTypes
<1>2. CASE m.type \in PayTypes
  BY <1>2 DEF Effect, PostTypes, PayTypes, RevertTypes
<1>3. CASE m.type \in RevertTypes
  BY <1>3 DEF Effect, PostTypes, PayTypes, RevertTypes
<1>4. CASE m.type \notin PostTypes \cup PayTypes \cup RevertTypes
  BY <1>4 DEF Effect
<1> QED
  BY <1>1, <1>2, <1>3, <1>4

LEMMA EffectIsNext ==
  ASSUME NEW m \in Message
  PROVE  Effect(m)' <=>
           /\ m.type \in PostTypes => \E e \in mem' : e.doc = m.doc /\ e.part = "document"
           /\ m.type \in PayTypes => \E e \in mem' : e.doc = m.doc /\ e.part = "payment"
           /\ m.type \in RevertTypes => Replies(m.doc)' # {}
<1>1. CASE m.type \in PostTypes
  BY <1>1 DEF Effect, PostTypes, PayTypes, RevertTypes
<1>2. CASE m.type \in PayTypes
  BY <1>2 DEF Effect, PostTypes, PayTypes, RevertTypes
<1>3. CASE m.type \in RevertTypes
  BY <1>3 DEF Effect, PostTypes, PayTypes, RevertTypes
<1>4. CASE m.type \notin PostTypes \cup PayTypes \cup RevertTypes
  BY <1>4 DEF Effect
<1> QED
  BY <1>1, <1>2, <1>3, <1>4

LEMMA SameKeySameEffect ==
  ASSUME NEW m \in Message, NEW n \in Message, SameKey(m, n), Effect(n)
  PROVE  Effect(m)
  BY EffectIs DEF SameKey

(* Neither journal nor replies lose anything. *)
Grows ==
    /\ \A e \in mem : \E f \in mem' : f.doc = e.doc /\ f.part = e.part
    /\ \A i \in DOMAIN ledgerTopic :
          i \in DOMAIN ledgerTopic' /\ ledgerTopic'[i] = ledgerTopic[i]

LEMMA EffectStays ==
  ASSUME NEW m \in Message, Effect(m), Grows PROVE Effect(m)'
<1>1. Replies(m.doc) # {} => Replies(m.doc)' # {}
  BY DEF Replies, Grows
<1>2. m.type \in PostTypes => \E e \in mem' : e.doc = m.doc /\ e.part = "document"
  BY EffectIs DEF Grows
<1>3. m.type \in PayTypes => \E e \in mem' : e.doc = m.doc /\ e.part = "payment"
  BY EffectIs DEF Grows
<1>4. m.type \in RevertTypes => Replies(m.doc)' # {}
  BY <1>1, EffectIs
<1> QED
  BY <1>2, <1>3, <1>4, EffectIsNext

(* A step that lets nothing go before it has had its effect. *)
LEMMA AppliedStays ==
  ASSUME TypeOK, IngestedIsApplied, ingested' = ingested, Grows,
         \A m \in ingested : InHand(m) => InHand(m)' \/ Effect(m)'
  PROVE  IngestedIsApplied'
<1>1. \A m \in ingested : m \in Message
  BY DEF TypeOK
<1> QED
  BY <1>1, EffectStays DEF IngestedIsApplied

(* A handler that goes on keeps a request to reverse in hand. *)
LEMMA AfterWriteIsInHand ==
  ASSUME TypeOK, handler.at \in {"persist", "update", "notify"},
         AfterPersist \/ NextAfterWrite \/ AfterNotify
  PROVE  \A m : InHand(m) => InHand(m)'
<1> SUFFICES ASSUME NEW m, InHand(m) PROVE InHand(m)'
  OBVIOUS
<1>1. IsRevert /\ handler.msg = m /\ m.type \in RevertTypes
  BY DEF InHand, IsRevert
<1>2. Goto("update") \/ Goto("notify") \/ Goto("reply")
  BY <1>1 DEF AfterPersist, NextAfterWrite, AfterNotify
<1>3. handler'.at \in {"update", "notify", "reply"} /\ handler'.msg = m
  BY <1>1, <1>2, GotoKeepsHandler
<1> QED
  BY <1>1, <1>3 DEF InHand

(* The steps that neither read a message nor fail. *)
LEMMA HandleApplies ==
  ASSUME TypeOK, IngestedIsApplied, Handle
  PROVE  IngestedIsApplied'
<1>1. ingested' = ingested
  BY DEF Handle, PostEntry, PostStorno, RefuseStorno, IgnoreInvoiceSent, Persist,
         UpdateOriginal, Notify, Reply
<1>2. CASE PostEntry
  <2> DEFINE new ==
        [id |-> lastId + 1, doc |-> handler.msg.doc, kind |-> "ORIGINAL",
         part |-> IF handler.msg.type \in PayTypes THEN "payment" ELSE "document",
         reversedBy |-> 0]
  <2>1. /\ handler.msg \in Message /\ handler.msg.type \in PostTypes \cup PayTypes
        /\ new \in mem' /\ mem \subseteq mem' /\ ledgerTopic' = ledgerTopic
    BY <1>2, HandlerIsTyped DEF PostEntry, At
  <2>2. Grows
    BY <2>1 DEF Grows
  <2>3. /\ new.doc = handler.msg.doc
        /\ new.part = IF handler.msg.type \in PayTypes THEN "payment" ELSE "document"
    OBVIOUS
  <2> HIDE DEF new
  <2>4. ASSUME NEW m \in ingested, InHand(m) PROVE Effect(m)'
    <3>1. m \in Message /\ m = handler.msg
      BY <2>1, <2>4 DEF InHand
    <3>2. m.type \in PostTypes => \E e \in mem' : e.doc = m.doc /\ e.part = "document"
      BY <2>1, <2>3, <3>1 DEF PostTypes, PayTypes
    <3>3. m.type \in PayTypes => \E e \in mem' : e.doc = m.doc /\ e.part = "payment"
      BY <2>1, <2>3, <3>1
    <3>4. m.type \notin RevertTypes
      BY <2>1, <3>1 DEF PostTypes, PayTypes, RevertTypes
    <3> QED
      BY <3>1, <3>2, <3>3, <3>4, EffectIsNext
  <2> QED
    BY <1>1, <2>2, <2>4, AppliedStays
<1>3. CASE PostStorno
  <2>1. handler \in Handling
    BY <1>3, HandlerIsTyped DEF PostStorno, At
  <2>2. PICK o \in Reversible(handler.msg.doc) :
          /\ mem' = (mem \ {o}) \cup
               {[o EXCEPT !.reversedBy = lastId + 1],
                [o EXCEPT !.id = lastId + 1, !.kind = "STORNO"]}
          /\ handler' = [handler EXCEPT !.at = "persist", !.entry = lastId + 1,
                                        !.original = o.id]
    BY <1>3 DEF PostStorno
  <2>3. o \in Entry
    BY DEF Reversible, TypeOK
  <2>4. /\ [o EXCEPT !.reversedBy = lastId + 1] \in mem'
        /\ [o EXCEPT !.reversedBy = lastId + 1].doc = o.doc
        /\ [o EXCEPT !.reversedBy = lastId + 1].part = o.part
    BY <2>2, <2>3 DEF Entry
  <2>5. ledgerTopic' = ledgerTopic
    BY <1>3 DEF PostStorno
  <2>6. Grows
    BY <2>2, <2>4, <2>5 DEF Grows
  <2>7. handler'.at = "persist" /\ handler'.msg = handler.msg /\ IsRevert
    BY <1>3, <2>1, <2>2 DEF PostStorno, Handling
  <2> QED
    BY <1>1, <2>6, <2>7, AppliedStays DEF InHand, IsRevert
<1>4. CASE RefuseStorno
  <2>1. handler'.at = "reply" /\ handler'.msg = handler.msg /\ IsRevert
    BY <1>4, GotoKeepsHandler DEF RefuseStorno, At
  <2>2. Grows
    BY <1>4 DEF RefuseStorno, Grows
  <2> QED
    BY <1>1, <2>1, <2>2, AppliedStays DEF InHand, IsRevert
<1>5. CASE IgnoreInvoiceSent
  <2>1. handler.msg \in Message /\ handler.msg.type = "invoiceSent"
    BY <1>5, HandlerIsTyped DEF IgnoreInvoiceSent, At
  <2>2. Effect(handler.msg)
    BY <2>1, EffectIs DEF PostTypes, PayTypes, RevertTypes
  <2>3. Grows
    BY <1>5 DEF IgnoreInvoiceSent, Grows
  <2>4. \A m \in ingested : InHand(m) => Effect(m)'
    BY <2>1, <2>2, <2>3, EffectStays DEF InHand
  <2> QED
    BY <1>1, <2>3, <2>4, AppliedStays
<1>6. CASE Persist \/ UpdateOriginal
  <2>1. Grows /\ handler.at \in {"persist", "update"} /\ (AfterPersist \/ NextAfterWrite)
    BY <1>6 DEF Persist, UpdateOriginal, Grows, At
  <2> QED
    BY <1>1, <2>1, AfterWriteIsInHand, AppliedStays
<1>7. CASE Notify
  <2>1. handler.msg.doc \in Doc /\ handler.entry \in Nat
    BY <1>7, HandlerIsTyped DEF Notify, At
  <2>2. Grows
    BY <1>7, <2>1, AppendIndex DEF Notify, Grows, LedgerMessage, TypeOK
  <2> QED
    BY <1>1, <1>7, <2>2, AfterWriteIsInHand, AppliedStays DEF Notify, At
<1>8. CASE Reply
  <2> DEFINE answer ==
        [type |-> IF handler.entry = 0 THEN "stornoFailed" ELSE "stornoPosted",
         doc |-> handler.msg.doc, entry |-> handler.entry]
  <2>1. handler.msg \in Message /\ handler.msg.doc \in Doc /\ handler.entry \in Nat
    BY <1>8, HandlerIsTyped DEF Reply, At
  <2>2. answer \in LedgerMessage /\ ledgerTopic \in Seq(LedgerMessage)
    BY <2>1 DEF LedgerMessage, TypeOK
  <2>3. ledgerTopic' = Append(ledgerTopic, answer) /\ mem' = mem
    BY <1>8 DEF Reply
  <2>4. Grows
    BY <2>2, <2>3, AppendIndex DEF Grows
  <2>6. ASSUME NEW m \in ingested, InHand(m) PROVE Effect(m)'
    <3>1. m \in Message /\ m = handler.msg /\ m.type \in RevertTypes
      BY <1>8, <2>1, <2>6 DEF InHand, Reply, At
    <3>2. /\ Len(ledgerTopic) + 1 \in DOMAIN ledgerTopic'
          /\ ledgerTopic'[Len(ledgerTopic) + 1].doc = m.doc
          /\ ledgerTopic'[Len(ledgerTopic) + 1].type # "journalEntryPosted"
      BY <2>2, <2>3, <3>1, AppendIndex
    <3>3. Replies(m.doc)' # {}
      BY <3>2 DEF Replies
    <3>4. m.type \notin PostTypes \cup PayTypes
      BY <3>1 DEF PostTypes, PayTypes, RevertTypes
    <3> QED
      BY <3>1, <3>3, <3>4, EffectIsNext
  <2> QED
    BY <1>1, <2>4, <2>6, AppliedStays
<1> QED
  BY <1>2, <1>3, <1>4, <1>5, <1>6, <1>7, <1>8 DEF Handle

(* A message that is read has a marker, or gets one and is handled.         *)
LEMMA ReadingApplies ==
  ASSUME TypeOK, ReadIsIngested, IngestedIsApplied, SkipDuplicate \/ Ingest
  PROVE  ReadIsIngested' /\ IngestedIsApplied'
<1>1. PICK m \in Message :
        /\ Receives(m)
        /\ \/ IsDuplicate(m) /\ UNCHANGED <<ingested, handler>>
           \/ /\ ingested' = ingested \cup {m}
              /\ handler' = [at |-> "handle", msg |-> m, entry |-> 0, original |-> 0]
  BY DEF SkipDuplicate, Ingest
<1>2. UNCHANGED <<topic, mem, ledgerTopic>>
  BY DEF SkipDuplicate, Ingest
<1>3. handler.at = "idle" /\ m = topic[pos] /\ pos' = pos + 1 /\ pos \in Nat
  BY <1>1 DEF Receives, TypeOK
<1>4. \A n : IsDuplicate(n) => IsDuplicate(n)'
  BY <1>1 DEF IsDuplicate
<1>5. IsDuplicate(m)'
  BY <1>1, <1>4 DEF IsDuplicate, SameKey
<1>6. \A i \in 1 .. pos' - 1 : i \in 1 .. pos - 1 \/ i = pos
  BY <1>3
<1>7. ReadIsIngested'
  BY <1>2, <1>3, <1>4, <1>5, <1>6 DEF ReadIsIngested
<1>8. Grows
  BY <1>2 DEF Grows
<1>9. ASSUME NEW n \in ingested' PROVE Effect(n)' \/ InHand(n)'
  <2>1. CASE n \in ingested
    <3>1. Effect(n) /\ n \in Message
      BY <1>3, <2>1 DEF IngestedIsApplied, InHand, TypeOK
    <3> QED
      BY <1>8, <3>1, EffectStays
  <2>2. CASE n \notin ingested
    BY <1>1, <1>9, <2>2 DEF InHand
  <2> QED
    BY <2>1, <2>2
<1> QED
  BY <1>7, <1>9 DEF IngestedIsApplied

LEMMA ReadStep == ReadInv /\ [Next]_vars => ReadInv'
<1> SUFFICES ASSUME ReadInv, [Next]_vars, restarts' = 0, errors' = 0
             PROVE  ReadIsIngested' /\ IngestedIsApplied'
  BY TypeStep DEF ReadInv
<1>1. TypeOK /\ TypeOK' /\ restarts \in Nat /\ errors \in Nat
  BY TypeStep DEF ReadInv, TypeOK
<1>2. ~Error /\ ~Restart
  BY <1>1 DEF Error, Restart
<1>3. ~Trouble
  BY <1>2 DEF Trouble, IngestError, PersistError, UpdateError, NotifyError, ReplyError,
             Rebalance, Crash
<1>4. Progress \/ (\E m \in Message : Produce(m)) \/ UNCHANGED vars
  BY <1>3 DEF Next
<1>5. restarts = 0 /\ errors = 0
  BY <1>4 DEF Progress, Handle, SkipDuplicate, Ingest, PostEntry, PostStorno, RefuseStorno,
             IgnoreInvoiceSent, Persist, UpdateOriginal, Notify, Reply, Commit, Produce,
             consumerVars, vars
<1>6. ReadIsIngested /\ IngestedIsApplied
  BY <1>5 DEF ReadInv
<1>7. CASE SkipDuplicate \/ Ingest
  BY <1>1, <1>6, <1>7, ReadingApplies
<1>8. CASE Handle
  <2>1. UNCHANGED <<topic, pos, ingested>>
    BY <1>8 DEF Handle, PostEntry, PostStorno, RefuseStorno, IgnoreInvoiceSent, Persist,
               UpdateOriginal, Notify, Reply
  <2> QED
    BY <1>1, <1>6, <1>8, <2>1, HandleApplies DEF ReadIsIngested, IsDuplicate
<1>9. CASE Commit \/ UNCHANGED vars
  <2>1. UNCHANGED <<topic, pos, ingested, mem, handler, ledgerTopic>>
    BY <1>9 DEF Commit, vars
  <2>2. Grows /\ \A m : InHand(m) => InHand(m)'
    BY <2>1 DEF Grows, InHand
  <2> QED
    BY <1>1, <1>6, <2>1, <2>2, AppliedStays DEF ReadIsIngested, IsDuplicate
<1>10. ASSUME NEW n \in Message, Produce(n) PROVE ReadIsIngested' /\ IngestedIsApplied'
  <2>1. topic' = Append(topic, n) /\ UNCHANGED <<pos, ingested, mem, handler, ledgerTopic>>
    BY <1>10 DEF Produce, consumerVars
  <2>2. \A i \in 1 .. pos - 1 : topic'[i] = topic[i]
    BY <1>1, <2>1 DEF TypeOK
  <2>3. Grows /\ \A m : InHand(m) => InHand(m)'
    BY <2>1 DEF Grows, InHand
  <2> QED
    BY <1>1, <1>6, <2>1, <2>2, <2>3, AppliedStays DEF ReadIsIngested, IsDuplicate
<1> QED
  BY <1>4, <1>7, <1>8, <1>9, <1>10 DEF Progress

(* Between two messages everything that was read has had its effect.        *)
LEMMA ReadSuffices == ReadInv => ReadIsApplied
<1> SUFFICES ASSUME ReadInv, restarts = 0, errors = 0, handler.at = "idle",
                    NEW i \in 1 .. pos - 1
             PROVE  Effect(topic[i])
  BY DEF ReadIsApplied, AllReadApplied
<1>1. TypeOK /\ ReadIsIngested /\ IngestedIsApplied
  BY DEF ReadInv
<1>2. PICK n \in ingested : SameKey(topic[i], n)
  BY <1>1 DEF ReadIsIngested, IsDuplicate
<1>3. topic[i] \in Message /\ n \in Message
  BY <1>1 DEF TypeOK
<1>4. Effect(n)
  BY <1>1 DEF IngestedIsApplied, InHand
<1> QED
  BY <1>2, <1>3, <1>4, SameKeySameEffect

(* For any topic, in whatever order its messages come and however often     *)
(* they are repeated, as long as nothing fails or restarts: each message    *)
(* that was read has had its effect, and a request to reverse its answer    *)
(* (shouldProcess skips only what was handled before).                      *)
THEOREM AllThatIsReadIsApplied == Spec => []ReadIsApplied
<1>1. Init => ReadInv
  BY TypeInit DEF Init, ReadInv, ReadIsIngested, IngestedIsApplied
<1> QED
  BY <1>1, ReadStep, ReadSuffices, PTL DEF Spec
-----------------------------------------------------------------------------
(* Sums over a set: what MapThenSumSet adds up, for a function g.           *)
SumOf(g, S) == MapThenSumSet(LAMBDA e : g[e], S)

Pick(S) == CHOOSE x \in S : TRUE

Body(g, S, h) == [s \in SUBSET S |-> IF s = {} THEN 0 ELSE g[Pick(s)] + h[s \ {Pick(s)}]]

Iter(g, S) == CHOOSE h : h = Body(g, S, h)

LEMMA SumIsIter == \A g, S : SumOf(g, S) = Iter(g, S)[S]
  BY DEF SumOf, MapThenSumSet, MapThenFoldSet, Body, Iter, Pick

(* A family of finite sets has a smallest one.                              *)
LEMMA SmallestExists ==
  ASSUME NEW C, C # {}, \A s \in C : IsFiniteSet(s)
  PROVE  \E s \in C : \A t \in C : Cardinality(s) <= Cardinality(t)
<1> DEFINE R == OpToRel(<, Nat)
           Sizes == {Cardinality(s) : s \in C}
<1>1. IsWellFoundedOn(R, Nat)
  BY NatLessThanWellFounded
<1>2. \A i, j \in Nat : i < j => <<i, j>> \in R
  BY DEF OpToRel
<1>3. Sizes \subseteq Nat /\ Sizes # {}
  BY FS_CardinalityType
<1> HIDE DEF R
<1>4. PICK n \in Sizes : \A k \in Sizes : ~(<<k, n>> \in R)
  BY <1>1, <1>3, WFMin
<1>5. PICK s \in C : n = Cardinality(s)
  BY <1>4
<1>6. ASSUME NEW t \in C PROVE Cardinality(s) <= Cardinality(t)
  <2>1. Cardinality(t) \in Sizes /\ Cardinality(t) \in Nat /\ n \in Nat
    BY <1>3
  <2>2. ~(Cardinality(t) < n)
    BY <1>2, <1>4, <2>1
  <2> QED
    BY <1>5, <2>1, <2>2
<1> QED
  BY <1>6

LEMMA Less ==
  ASSUME NEW S, IsFiniteSet(S), NEW x \in S
  PROVE  /\ IsFiniteSet(S \ {x}) /\ Cardinality(S) \in Nat /\ Cardinality(S \ {x}) \in Nat
         /\ Cardinality(S \ {x}) < Cardinality(S)
<1>1. IsFiniteSet(S \ {x}) /\ Cardinality(S \ {x}) = Cardinality(S) - 1
  BY FS_RemoveElement
<1> QED
  BY <1>1, FS_CardinalityType

LEMMA PickIsIn == \A S : S # {} => Pick(S) \in S
  BY DEF Pick

(* The recursive function of the sum exists: it is built up by the size of  *)
(* its arguments.                                                           *)
Upto(g, S, h, n) ==
    /\ h = [s \in SUBSET S |-> h[s]]
    /\ \A s \in SUBSET S : Cardinality(s) <= n =>
         h[s] = IF s = {} THEN 0 ELSE g[Pick(s)] + h[s \ {Pick(s)}]

LEMMA IterExists ==
  ASSUME NEW g, NEW S, IsFiniteSet(S)
  PROVE  Iter(g, S) = Body(g, S, Iter(g, S))
<1>1. \A s \in SUBSET S : IsFiniteSet(s) /\ Cardinality(s) \in Nat /\ Cardinality(s) <= Cardinality(S)
  BY FS_Subset, FS_CardinalityType
<1> DEFINE Bad == {n \in Nat : ~\E h : Upto(g, S, h, n)}
<1>2. Bad = {}
  <2> SUFFICES ASSUME Bad # {} PROVE FALSE
    OBVIOUS
  <2> DEFINE R == OpToRel(<, Nat)
  <2>1. IsWellFoundedOn(R, Nat)
    BY NatLessThanWellFounded
  <2>2. \A i, j \in Nat : i < j => <<i, j>> \in R
    BY DEF OpToRel
  <2> HIDE DEF R
  <2>3. PICK n \in Bad : \A k \in Bad : ~(<<k, n>> \in R)
    BY <2>1, WFMin
  <2>4. \A k \in Nat : k < n => \E h : Upto(g, S, h, k)
    BY <2>2, <2>3
  <2>5. CASE n = 0
    <3> DEFINE h == [s \in SUBSET S |-> 0]
    <3>1. \A s \in SUBSET S : Cardinality(s) <= 0 => s = {}
      BY <1>1, FS_EmptySet
    <3>2. h = [s \in SUBSET S |-> h[s]]
      OBVIOUS
    <3>3. Upto(g, S, h, 0)
      BY <3>1, <3>2 DEF Upto
    <3> HIDE DEF h
    <3> QED
      BY <2>3, <2>5, <3>3
  <2>6. CASE n # 0
    <3>1. n \in Nat /\ n - 1 \in Nat /\ n - 1 < n
      BY <2>3, <2>6
    <3>2. PICK h : Upto(g, S, h, n - 1)
      BY <2>4, <3>1
    <3> DEFINE k == [s \in SUBSET S |-> IF Cardinality(s) = n
                                        THEN g[Pick(s)] + h[s \ {Pick(s)}] ELSE h[s]]
    <3>3. ASSUME NEW s \in SUBSET S, Cardinality(s) <= n
          PROVE  k[s] = IF s = {} THEN 0 ELSE g[Pick(s)] + k[s \ {Pick(s)}]
      <4>1. CASE s = {}
        <5>1. Cardinality(s) = 0
          BY <4>1, FS_EmptySet
        <5> QED
          <6>1. Cardinality(s) <= n - 1 /\ Cardinality(s) # n
            BY <3>1, <2>6, <5>1
          <6>2. k[s] = h[s]
            BY <6>1
          <6> HIDE DEF k
          <6>3. h[s] = 0
            BY <3>2, <4>1, <6>1, Zenon DEF Upto
          <6> QED
            BY <4>1, <6>2, <6>3
      <4>2. CASE s # {}
        <5>1. Pick(s) \in s /\ s \ {Pick(s)} \in SUBSET S
          BY <4>2, PickIsIn
        <5>2. Cardinality(s \ {Pick(s)}) < Cardinality(s) /\ Cardinality(s \ {Pick(s)}) \in Nat
          BY <1>1, <5>1, Less
        <5>3. k[s \ {Pick(s)}] = h[s \ {Pick(s)}]
          <6>1. Cardinality(s \ {Pick(s)}) # n
            BY <1>1, <3>1, <3>3, <5>2
          <6> QED
            BY <5>1, <6>1
        <5>4. CASE Cardinality(s) = n
          BY <4>2, <5>3, <5>4
        <5>5. CASE Cardinality(s) # n
          <6>1. Cardinality(s) <= n - 1
            BY <1>1, <3>1, <3>3, <5>5
          <6>2. k[s] = h[s]
            BY <5>5
          <6>3. h[s] = g[Pick(s)] + h[s \ {Pick(s)}]
            BY <3>2, <4>2, <6>1 DEF Upto
          <6> HIDE DEF k
          <6> QED
            BY <4>2, <5>3, <6>2, <6>3
        <5> QED
          BY <5>4, <5>5
      <4> QED
        BY <4>1, <4>2
    <3>4. k = [s \in SUBSET S |-> k[s]]
      OBVIOUS
    <3> HIDE DEF k
    <3>5. Upto(g, S, k, n)
      BY <3>3, <3>4 DEF Upto
    <3> QED
      BY <2>3, <3>5
  <2> QED
    BY <2>5, <2>6
<1>3. PICK h : Upto(g, S, h, Cardinality(S))
  BY <1>1, <1>2
<1>4. h = Body(g, S, h)
  BY <1>1, <1>3, Zenon DEF Upto, Body
<1> QED
  BY <1>4, Zenon DEF Iter

LEMMA IterRec ==
  ASSUME NEW g, NEW S, IsFiniteSet(S), NEW s \in SUBSET S
  PROVE  Iter(g, S)[s] = IF s = {} THEN 0 ELSE g[Pick(s)] + Iter(g, S)[s \ {Pick(s)}]
<1>1. Iter(g, S) = Body(g, S, Iter(g, S))
  BY IterExists
<1> DEFINE h == Iter(g, S)
<1>2. h = Body(g, S, h)
  BY <1>1
<1> HIDE DEF h
<1>3. h[s] = IF s = {} THEN 0 ELSE g[Pick(s)] + h[s \ {Pick(s)}]
  BY <1>2 DEF Body
<1> QED
  BY <1>3 DEF h

(* The sum over a part does not depend on the set it is a part of.          *)
LEMMA IterOfPart ==
  ASSUME NEW g, NEW S, IsFiniteSet(S), NEW T \in SUBSET S
  PROVE  Iter(g, S)[T] = SumOf(g, T)
<1>1. IsFiniteSet(T)
  BY FS_Subset
<1> DEFINE C == {s \in SUBSET T : Iter(g, S)[s] # Iter(g, T)[s]}
<1>2. C = {}
  <2> SUFFICES ASSUME C # {} PROVE FALSE
    OBVIOUS
  <2>1. \A s \in C : IsFiniteSet(s)
    BY <1>1, FS_Subset
  <2>2. PICK s \in C : \A t \in C : Cardinality(s) <= Cardinality(t)
    <3> HIDE DEF C
    <3> QED
      BY <2>1, SmallestExists
  <2>3. s \in SUBSET S /\ s \in SUBSET T /\ IsFiniteSet(s)
    BY <2>1
  <2>4. Iter(g, S)[s] = IF s = {} THEN 0 ELSE g[Pick(s)] + Iter(g, S)[s \ {Pick(s)}]
    BY <2>3, IterRec
  <2>10. Iter(g, T)[s] = IF s = {} THEN 0 ELSE g[Pick(s)] + Iter(g, T)[s \ {Pick(s)}]
    BY <1>1, <2>3, IterRec
  <2>5. s # {}
    BY <2>2, <2>4, <2>10
  <2>6. Pick(s) \in s
    BY <2>5, PickIsIn
  <2>7. /\ Cardinality(s \ {Pick(s)}) < Cardinality(s) /\ Cardinality(s \ {Pick(s)}) \in Nat
        /\ Cardinality(s) \in Nat
    BY <2>3, <2>6, Less
  <2>8. s \ {Pick(s)} \notin C
    BY <2>2, <2>7
  <2>9. Iter(g, S)[s \ {Pick(s)}] = Iter(g, T)[s \ {Pick(s)}]
    BY <2>3, <2>8
  <2> QED
    BY <2>2, <2>4, <2>10, <2>5, <2>9
<1>3. Iter(g, S)[T] = Iter(g, T)[T]
  BY <1>2
<1> QED
  BY <1>3, SumIsIter

LEMMA SumOfNone == \A g : SumOf(g, {}) = 0
<1> SUFFICES ASSUME NEW g PROVE SumOf(g, {}) = 0
  OBVIOUS
<1>1. IsFiniteSet({}) /\ {} \in SUBSET {}
  BY FS_EmptySet
<1> QED
  BY <1>1, IterRec, SumIsIter

LEMMA SumOfPick ==
  ASSUME NEW g, NEW S, IsFiniteSet(S), S # {}
  PROVE  SumOf(g, S) = g[Pick(S)] + SumOf(g, S \ {Pick(S)})
<1>1. S \in SUBSET S /\ S \ {Pick(S)} \in SUBSET S
  OBVIOUS
<1>2. Iter(g, S)[S] = g[Pick(S)] + Iter(g, S)[S \ {Pick(S)}]
  BY <1>1, IterRec
<1>3. /\ Iter(g, S)[S] = SumOf(g, S)
      /\ Iter(g, S)[S \ {Pick(S)}] = SumOf(g, S \ {Pick(S)})
  BY <1>1, IterOfPart
<1> QED
  BY <1>2, <1>3

LEMMA SumIsInt ==
  ASSUME NEW g, NEW S, IsFiniteSet(S), \A e \in S : g[e] \in Int
  PROVE  SumOf(g, S) \in Int
<1> DEFINE C == {s \in SUBSET S : SumOf(g, s) \notin Int}
<1>1. C = {}
  <2> SUFFICES ASSUME C # {} PROVE FALSE
    OBVIOUS
  <2>1. \A s \in C : IsFiniteSet(s)
    BY FS_Subset
  <2>2. PICK s \in C : \A t \in C : Cardinality(s) <= Cardinality(t)
    <3> HIDE DEF C
    <3> QED
      BY <2>1, SmallestExists
  <2>3. s # {}
    BY <2>2, SumOfNone
  <2>4. /\ Pick(s) \in s /\ IsFiniteSet(s)
        /\ SumOf(g, s) = g[Pick(s)] + SumOf(g, s \ {Pick(s)})
    BY <2>1, <2>3, PickIsIn, SumOfPick
  <2>5. /\ Cardinality(s \ {Pick(s)}) < Cardinality(s) /\ Cardinality(s \ {Pick(s)}) \in Nat
        /\ Cardinality(s) \in Nat
    BY <2>4, Less
  <2>6. s \ {Pick(s)} \notin C
    BY <2>2, <2>5
  <2>7. SumOf(g, s \ {Pick(s)}) \in Int /\ g[Pick(s)] \in Int
    BY <2>4, <2>6
  <2> QED
    BY <2>4, <2>7
<1> QED
  BY <1>1

(* Whichever element is taken out first.                                    *)
LEMMA SumRemove ==
  ASSUME NEW g, NEW S, IsFiniteSet(S), \A e \in S : g[e] \in Int, NEW x \in S
  PROVE  SumOf(g, S) = g[x] + SumOf(g, S \ {x})
<1> DEFINE C == {s \in SUBSET S : \E e \in s : SumOf(g, s) # g[e] + SumOf(g, s \ {e})}
<1>1. C = {}
  <2> SUFFICES ASSUME C # {} PROVE FALSE
    OBVIOUS
  <2>1. \A s \in C : IsFiniteSet(s)
    BY FS_Subset
  <2>2. PICK s \in C : \A t \in C : Cardinality(s) <= Cardinality(t)
    <3> HIDE DEF C
    <3> QED
      BY <2>1, SmallestExists
  <2>3. PICK e \in s : SumOf(g, s) # g[e] + SumOf(g, s \ {e})
    BY <2>2
  <2> DEFINE p == Pick(s)
  <2>4. /\ p \in s /\ IsFiniteSet(s) /\ s \in SUBSET S
        /\ SumOf(g, s) = g[p] + SumOf(g, s \ {p})
    BY <2>1, <2>3, PickIsIn, SumOfPick
  <2> HIDE DEF p
  <2>5. e # p
    BY <2>3, <2>4
  <2>6. /\ Cardinality(s \ {p}) < Cardinality(s) /\ Cardinality(s \ {p}) \in Nat
        /\ Cardinality(s \ {e}) < Cardinality(s) /\ Cardinality(s \ {e}) \in Nat
        /\ Cardinality(s) \in Nat /\ IsFiniteSet(s \ {e})
    BY <2>4, Less
  <2>7. s \ {p} \notin C /\ s \ {e} \notin C
    <3> HIDE DEF C
    <3>1. \A t \in C : ~(Cardinality(t) < Cardinality(s) /\ Cardinality(t) \in Nat)
      BY <2>2, <2>6
    <3> QED
      BY <2>6, <3>1
  <2>8. /\ SumOf(g, s \ {p}) = g[e] + SumOf(g, (s \ {p}) \ {e})
        /\ SumOf(g, s \ {e}) = g[p] + SumOf(g, (s \ {e}) \ {p})
    BY <2>4, <2>5, <2>7
  <2>9. (s \ {p}) \ {e} = (s \ {e}) \ {p}
    OBVIOUS
  <2>10. g[e] \in Int /\ g[p] \in Int /\ SumOf(g, (s \ {e}) \ {p}) \in Int
    <3>1. IsFiniteSet((s \ {e}) \ {p}) /\ \A y \in (s \ {e}) \ {p} : g[y] \in Int
      BY <2>4, <2>6, FS_Subset
    <3> QED
      BY <2>4, <3>1, SumIsInt
  <2> DEFINE rest == SumOf(g, (s \ {e}) \ {p})
  <2>11. SumOf(g, s \ {p}) = g[e] + rest /\ SumOf(g, s \ {e}) = g[p] + rest
    BY <2>8, <2>9
  <2>12. rest \in Int
    BY <2>10
  <2> HIDE DEF C, rest
  <2>13. SumOf(g, s) = g[p] + (g[e] + rest) /\ SumOf(g, s) # g[e] + (g[p] + rest)
    BY <2>3, <2>4, <2>11
  <2> QED
    BY <2>10, <2>12, <2>13
<1> QED
  BY <1>1

(* One way to show that two sums are the same for every part of a set: take *)
(* out one element.                                                         *)
LEMMA SumAgree ==
  ASSUME NEW g, NEW k, NEW S, \A e \in S : g[e] = k[e]
  PROVE  SumOf(g, S) = SumOf(k, S)
<1>1. \A h : Body(g, S, h) = Body(k, S, h)
  BY PickIsIn DEF Body
<1>2. \A h : h = Body(g, S, h) <=> h = Body(k, S, h)
  BY <1>1
<1>3. Iter(g, S) = Iter(k, S)
  BY <1>2, Zenon DEF Iter
<1> QED
  BY <1>3, SumIsIter

LEMMA SumAdds ==
  ASSUME NEW f, NEW g, NEW k, NEW S, IsFiniteSet(S),
         \A e \in S : g[e] \in Int /\ k[e] \in Int /\ f[e] = g[e] + k[e]
  PROVE  SumOf(f, S) = SumOf(g, S) + SumOf(k, S)
<1> DEFINE C == {s \in SUBSET S : SumOf(f, s) # SumOf(g, s) + SumOf(k, s)}
<1>1. C = {}
  <2> SUFFICES ASSUME C # {} PROVE FALSE
    OBVIOUS
  <2>1. \A s \in C : IsFiniteSet(s)
    BY FS_Subset
  <2>2. PICK s \in C : \A t \in C : Cardinality(s) <= Cardinality(t)
    <3> HIDE DEF C
    <3> QED
      BY <2>1, SmallestExists
  <2>3. s # {}
    <3>1. SumOf(f, {}) = SumOf(g, {}) + SumOf(k, {})
      BY SumOfNone
    <3> QED
      BY <2>2, <3>1
  <2> DEFINE p == Pick(s)
             r == s \ {p}
  <2>4. /\ p \in s /\ IsFiniteSet(s) /\ s \in SUBSET S
        /\ SumOf(f, s) = f[p] + SumOf(f, r)
        /\ SumOf(g, s) = g[p] + SumOf(g, r)
        /\ SumOf(k, s) = k[p] + SumOf(k, r)
    BY <2>1, <2>3, PickIsIn, SumOfPick
  <2>5. /\ Cardinality(r) < Cardinality(s) /\ Cardinality(r) \in Nat
        /\ Cardinality(s) \in Nat /\ IsFiniteSet(r) /\ r \in SUBSET S
    BY <2>4, Less
  <2> HIDE DEF p, r
  <2>6. SumOf(f, r) = SumOf(g, r) + SumOf(k, r)
    BY <2>2, <2>5
  <2>7. SumOf(g, r) \in Int /\ SumOf(k, r) \in Int
    BY <2>5, SumIsInt
  <2>8. g[p] \in Int /\ k[p] \in Int /\ f[p] = g[p] + k[p]
    BY <2>4
  <2> QED
    BY <2>2, <2>4, <2>6, <2>7, <2>8
<1> QED
  BY <1>1

LEMMA SumOfPart ==
  ASSUME NEW g, NEW k, NEW S, IsFiniteSet(S), NEW T \in SUBSET S,
         \A e \in T : g[e] \in Int /\ k[e] = g[e],
         \A e \in S \ T : k[e] = 0
  PROVE  SumOf(k, S) = SumOf(g, T)
<1> DEFINE C == {s \in SUBSET S : SumOf(k, s) # SumOf(g, s \cap T)}
<1>1. C = {}
  <2> SUFFICES ASSUME C # {} PROVE FALSE
    OBVIOUS
  <2>1. \A s \in C : IsFiniteSet(s)
    BY FS_Subset
  <2>2. PICK s \in C : \A t \in C : Cardinality(s) <= Cardinality(t)
    <3> HIDE DEF C
    <3> QED
      BY <2>1, SmallestExists
  <2>3. s # {}
    <3>1. {} \cap T = {}
      OBVIOUS
    <3> QED
      BY <2>2, <3>1, SumOfNone
  <2> DEFINE p == Pick(s)
             r == s \ {p}
  <2>4. p \in s /\ IsFiniteSet(s) /\ s \in SUBSET S /\ SumOf(k, s) = k[p] + SumOf(k, r)
    BY <2>1, <2>3, PickIsIn, SumOfPick
  <2>5. /\ Cardinality(r) < Cardinality(s) /\ Cardinality(r) \in Nat
        /\ Cardinality(s) \in Nat /\ IsFiniteSet(r) /\ r \in SUBSET S
    BY <2>4, Less
  <2>6. r \cap T = (s \cap T) \ {p}
    OBVIOUS
  <2> HIDE DEF p, r
  <2>7. SumOf(k, r) = SumOf(g, r \cap T)
    BY <2>2, <2>5
  <2>8. IsFiniteSet(r \cap T) /\ \A e \in r \cap T : g[e] \in Int
    BY <2>5, FS_Subset
  <2>9. SumOf(g, r \cap T) \in Int
    BY <2>8, SumIsInt
  <2>10. CASE p \in T
    <3>1. IsFiniteSet(s \cap T) /\ p \in s \cap T /\ \A e \in s \cap T : g[e] \in Int
      BY <2>4, <2>10, FS_Subset
    <3>2. SumOf(g, s \cap T) = g[p] + SumOf(g, (s \cap T) \ {p})
      BY <3>1, SumRemove
    <3> QED
      BY <2>2, <2>4, <2>6, <2>7, <2>10, <3>2
  <2>11. CASE p \notin T
    <3>1. r \cap T = s \cap T /\ k[p] = 0
      BY <2>4, <2>6, <2>11
    <3>2. SumOf(k, s) = SumOf(g, s \cap T)
      BY <2>4, <2>7, <2>9, <3>1
    <3> QED
      BY <2>2, <3>2
  <2> QED
    BY <2>10, <2>11
<1>2. SumOf(k, S) = SumOf(g, S \cap T) /\ S \cap T = T
  BY <1>1
<1> QED
  BY <1>2

LEMMA SumSplits ==
  ASSUME NEW g, NEW S, IsFiniteSet(S), NEW T \in SUBSET S, \A e \in S : g[e] \in Int
  PROVE  SumOf(g, S) = SumOf(g, T) + SumOf(g, S \ T)
<1> DEFINE inT == [e \in S |-> IF e \in T THEN g[e] ELSE 0]
           out == [e \in S |-> IF e \in T THEN 0 ELSE g[e]]
<1>1. \A e \in S : /\ inT[e] \in Int /\ out[e] \in Int /\ g[e] = inT[e] + out[e]
                   /\ e \in T => inT[e] = g[e] /\ out[e] = 0
                   /\ e \notin T => inT[e] = 0 /\ out[e] = g[e]
  OBVIOUS
<1> HIDE DEF inT, out
<1>2. SumOf(g, S) = SumOf(inT, S) + SumOf(out, S)
  BY <1>1, SumAdds
<1>3. SumOf(inT, S) = SumOf(g, T)
  <2>1. /\ \A e \in T : g[e] \in Int /\ inT[e] = g[e]
        /\ \A e \in S \ T : inT[e] = 0
    BY <1>1
  <2> QED
    BY <2>1, SumOfPart
<1>4. SumOf(out, S) = SumOf(g, S \ T)
  <2>1. /\ \A e \in S \ T : g[e] \in Int /\ out[e] = g[e]
        /\ \A e \in S \ (S \ T) : out[e] = 0
        /\ S \ T \in SUBSET S
    BY <1>1
  <2> QED
    BY <2>1, SumOfPart
<1> QED
  BY <1>2, <1>3, <1>4

(* Adding up by groups.                                                     *)
LEMMA SumOfGroups ==
  ASSUME NEW g, NEW S, IsFiniteSet(S), \A e \in S : g[e] \in Int,
         NEW A, IsFiniteSet(A), NEW D, \A e \in S : D[e] \in A,
         NEW P, \A a \in A : \A e : e \in P[a] <=> e \in S /\ D[e] = a,
         NEW r, \A a \in A : r[a] = SumOf(g, P[a])
  PROVE  SumOf(r, A) = SumOf(g, S)
<1> DEFINE Of(B) == {e \in S : D[e] \in B}
           C == {B \in SUBSET A : SumOf(r, B) # SumOf(g, Of(B))}
<1>1. C = {}
  <2> SUFFICES ASSUME C # {} PROVE FALSE
    OBVIOUS
  <2>1. \A B \in C : IsFiniteSet(B)
    BY FS_Subset
  <2>2. PICK B \in C : \A t \in C : Cardinality(B) <= Cardinality(t)
    <3> HIDE DEF C
    <3> QED
      BY <2>1, SmallestExists
  <2>3. B # {}
    <3>1. Of({}) = {}
      OBVIOUS
    <3> HIDE DEF Of
    <3> QED
      BY <2>2, <3>1, SumOfNone
  <2> DEFINE p == Pick(B)
             rest == B \ {p}
  <2>4. p \in B /\ IsFiniteSet(B) /\ B \in SUBSET A /\ SumOf(r, B) = r[p] + SumOf(r, rest)
    BY <2>1, <2>3, PickIsIn, SumOfPick
  <2>5. /\ Cardinality(rest) < Cardinality(B) /\ Cardinality(rest) \in Nat
        /\ Cardinality(B) \in Nat /\ IsFiniteSet(rest) /\ rest \in SUBSET A
    BY <2>4, Less
  <2> HIDE DEF p
  <2>6. P[p] \in SUBSET Of(B) /\ Of(B) \ P[p] = Of(rest)
    <3>1. p \in A /\ \A e : e \in P[p] <=> e \in S /\ D[e] = p
      BY <2>4
    <3> QED
      BY <2>4, <3>1
  <2>7. IsFiniteSet(Of(B)) /\ \A e \in Of(B) : g[e] \in Int
    BY FS_Subset
  <2>8. SumOf(g, Of(B)) = SumOf(g, P[p]) + SumOf(g, Of(rest))
    <3> HIDE DEF Of, rest
    <3> QED
      BY <2>6, <2>7, SumSplits
  <2> HIDE DEF rest, Of
  <2>9. SumOf(r, rest) = SumOf(g, Of(rest))
    BY <2>2, <2>5
  <2> QED
    BY <2>2, <2>4, <2>8, <2>9
<1>2. SumOf(r, A) = SumOf(g, Of(A)) /\ Of(A) = S
  BY <1>1
<1> QED
  BY <1>2

LEMMA SumOfImage ==
  ASSUME NEW A, IsFiniteSet(A), NEW f, \A a, b \in A : f[a] = f[b] => a = b,
         NEW v, NEW w, \A a \in A : w[a] = v[f[a]] /\ w[a] \in Int
  PROVE  SumOf(v, {f[a] : a \in A}) = SumOf(w, A)
<1> DEFINE Im(B) == {f[a] : a \in B}
           C == {B \in SUBSET A : SumOf(v, Im(B)) # SumOf(w, B)}
<1>1. C = {}
  <2> SUFFICES ASSUME C # {} PROVE FALSE
    OBVIOUS
  <2>1. \A B \in C : IsFiniteSet(B)
    BY FS_Subset
  <2>2. PICK B \in C : \A t \in C : Cardinality(B) <= Cardinality(t)
    <3> HIDE DEF C
    <3> QED
      BY <2>1, SmallestExists
  <2>3. B # {}
    <3>1. Im({}) = {}
      OBVIOUS
    <3> HIDE DEF Im
    <3> QED
      BY <2>2, <3>1, SumOfNone
  <2> DEFINE p == Pick(B)
             rest == B \ {p}
  <2>4. p \in B /\ IsFiniteSet(B) /\ B \in SUBSET A /\ SumOf(w, B) = w[p] + SumOf(w, rest)
    BY <2>1, <2>3, PickIsIn, SumOfPick
  <2>5. /\ Cardinality(rest) < Cardinality(B) /\ Cardinality(rest) \in Nat
        /\ Cardinality(B) \in Nat /\ IsFiniteSet(rest) /\ rest \in SUBSET A
    BY <2>4, Less
  <2> HIDE DEF p
  <2>6. f[p] \in Im(B) /\ Im(B) \ {f[p]} = Im(rest)
    BY <2>4
  <2>7. IsFiniteSet(Im(B)) /\ \A e \in Im(B) : v[e] \in Int
    <3>1. IsFiniteSet(Im(B))
      <4>1. [a \in B |-> f[a]] \in Surjection(B, Im(B))
        BY DEF Surjection
      <4> HIDE DEF Im
      <4> QED
        BY <2>4, <4>1, FS_Surjection
    <3> QED
      BY <2>4, <3>1
  <2>8. SumOf(v, Im(B)) = v[f[p]] + SumOf(v, Im(rest))
    <3> HIDE DEF Im, rest
    <3> QED
      BY <2>6, <2>7, SumRemove
  <2> HIDE DEF rest, Im
  <2>9. SumOf(v, Im(rest)) = SumOf(w, rest)
    BY <2>2, <2>5
  <2> QED
    BY <2>2, <2>4, <2>8, <2>9
<1> QED
  BY <1>1

-----------------------------------------------------------------------------
(* The journal of the old bills.  Their ids differ, so the invariants hold  *)
(* from there as well.                                                      *)
LEMMA OldIdIsOne ==
  /\ Cardinality(Old) \in Nat
  /\ \A b \in Old : OldId[b] \in 1 .. Cardinality(Old)
  /\ \A b, c \in Old : OldId[b] = OldId[c] => b = c
<1> DEFINE Ids == 1 .. Cardinality(Old)
           IsId(f) == f \in [Old -> Ids] /\ \A b, c \in Old : f[b] = f[c] => b = c
<1>1. Cardinality(Old) \in Nat /\ ExistsBijection(Ids, Old)
  BY FS_CardinalityType, ReportsAssumption
<1>2. PICK g : g \in Bijection(Old, Ids)
  BY <1>1, Fun_ExistsBijSymmetric DEF ExistsBijection
<1>3. IsId(g)
  <2> HIDE DEF Ids
  <2> QED
    BY <1>2, Fun_BijectionProperties
<1>4. OldId = CHOOSE f : IsId(f)
  BY DEF OldId
<1>5. IsId(OldId)
  <2> HIDE DEF IsId
  <2> QED
    BY <1>3, <1>4
<1> QED
  BY <1>1, <1>5

LEMMA OldEntryIs ==
  ASSUME NEW e \in OldEntries
  PROVE  /\ e \in Entry /\ e.doc \in Old /\ e.id = OldId[e.doc] /\ e.id <= Cardinality(Old)
         /\ e.part = "document" /\ e.kind = "ORIGINAL" /\ e.reversedBy = 0
<1>1. PICK b \in Old : e = [id |-> OldId[b], doc |-> b, part |-> "document",
                            kind |-> "ORIGINAL", reversedBy |-> 0]
  BY DEF OldEntries
<1>2. b \in Doc /\ OldId[b] \in Nat /\ OldId[b] <= Cardinality(Old)
  BY OldIdIsOne, ReportsAssumption DEF Doc
<1> QED
  BY <1>1, <1>2 DEF Entry

LEMMA OldEntriesDiffer ==
  ASSUME NEW e \in OldEntries, NEW f \in OldEntries, e.doc = f.doc \/ e.id = f.id
  PROVE  e = f
<1>1. PICK b \in Old : e = [id |-> OldId[b], doc |-> b, part |-> "document",
                            kind |-> "ORIGINAL", reversedBy |-> 0]
  BY DEF OldEntries
<1>2. PICK c \in Old : f = [id |-> OldId[c], doc |-> c, part |-> "document",
                            kind |-> "ORIGINAL", reversedBy |-> 0]
  BY DEF OldEntries
<1>3. b = c
  BY <1>1, <1>2, OldIdIsOne
<1> QED
  BY <1>1, <1>2, <1>3

LEMMA ReportsStepIsLedgers == [ReportsNext]_<<vars, loaded>> => [Next]_vars
  BY DEF ReportsNext, Next, Progress, Trouble

LEMMA ReportsStart == ReportsInit => AnswerInv /\ ReversalInv /\ ReadInv
<1> SUFFICES ASSUME ReportsInit PROVE AnswerInv /\ ReversalInv /\ ReadInv
  OBVIOUS
<1> DEFINE marker(b) == [type |-> "billPosted", doc |-> b, copy |-> CHOOSE c \in Copy : TRUE]
<1>1. /\ topic = <<>> /\ pos = 1 /\ committed = 1
      /\ mem = OldEntries /\ db = OldEntries /\ lastId = Cardinality(Old)
      /\ handler = Idle /\ ledgerTopic = <<>> /\ restarts = 0 /\ errors = 0
      /\ ingested = {marker(b) : b \in Old}
  BY DEF ReportsInit
<1>2. \A b \in Old : marker(b) \in Message /\ marker(b).type = "billPosted" /\ marker(b).doc = b
  BY ReportsAssumption DEF Message
<1> HIDE DEF marker
<1>3. TypeOK
  <2>1. mem \subseteq Entry /\ db \subseteq Entry
    BY <1>1, OldEntryIs
  <2>2. lastId \in Nat
    BY <1>1, OldIdIsOne
  <2>3. ingested \subseteq Message
    BY <1>1, <1>2
  <2> QED
    BY <1>1, <2>1, <2>2, <2>3, LedgerAssumption DEF TypeOK
<1>4. IdIsOld /\ HandlerIsFresh
  BY <1>1, OldEntryIs DEF IdIsOld, HandlerIsFresh, Idle
<1>5. EntryIsCaused
  <2>1. ASSUME NEW e \in OldEntries PROVE Posts(marker(e.doc), e) /\ marker(e.doc) \in ingested
    BY <1>1, <1>2, OldEntryIs DEF Posts, PostTypes
  <2> QED
    BY <1>1, <2>1 DEF EntryIsCaused
<1>6. AtMostOnce
  BY <1>1, OldEntriesDiffer DEF AtMostOnce
<1>7. Inv
  BY <1>3, <1>4, <1>5, <1>6 DEF Inv
<1>8. AnswerInv
  BY <1>1, <1>7 DEF AnswerInv, AnswerIsCaused, HandlerIsUnanswered, RefusalIsTrue, OneAnswer,
                    Replies, Idle
<1>9. ReversalInv
  <2>1. IdIsOne
    BY <1>1, OldEntriesDiffer DEF IdIsOne
  <2>2. NoDanglingReversal
    BY <1>1, OldEntryIs DEF NoDanglingReversal
  <2> QED
    BY <1>1, <1>7, <2>1, <2>2 DEF ReversalInv, OriginalIsKnown, StornoIsKnown, Idle
<1>10. IngestedIsApplied
  <2>1. ASSUME NEW b \in Old PROVE Effect(marker(b))
    <3> DEFINE e == [id |-> OldId[b], doc |-> b, part |-> "document",
                     kind |-> "ORIGINAL", reversedBy |-> 0]
    <3>1. e \in mem /\ e.doc = b /\ e.part = "document"
      BY <1>1 DEF OldEntries
    <3> HIDE DEF e
    <3>2. marker(b).type \in PostTypes
      BY <1>2 DEF PostTypes
    <3>3. \E x \in mem : x.doc = marker(b).doc /\ x.part = "document"
      BY <1>2, <3>1
    <3>4. marker(b).type \notin PayTypes \cup RevertTypes /\ marker(b) \in Message
      BY <1>2 DEF PayTypes, RevertTypes
    <3> QED
      BY <3>3, <3>4, EffectIs
  <2> QED
    BY <1>1, <2>1 DEF IngestedIsApplied
<1>11. ReadInv
  BY <1>1, <1>3, <1>10 DEF ReadInv, ReadIsIngested
<1> QED
  BY <1>8, <1>9, <1>11

-----------------------------------------------------------------------------
(* What was answered is in the books.  Unless an error was swallowed, the   *)
(* table and the journal have the same entries, but for the one that is     *)
(* about to be saved (MemIsSaved, TableIsRead); so a STORNO and its         *)
(* original, which are together in memory when they are posted, are         *)
(* together in the table before the answer is sent (HandlerIsPaired), and   *)
(* stay there (AnswerIsPaired).                                             *)
Same(e, f) == e.id = f.id /\ e.doc = f.doc /\ e.part = f.part /\ e.kind = f.kind

Paired(journal, d) ==
    \A kind \in {"ORIGINAL", "STORNO"} :
        \E e \in journal : e.doc = d /\ e.part = "document" /\ e.kind = kind

MemIsSaved ==
    \A e \in mem : (handler.at = "persist" /\ e.id = handler.entry) \/ \E f \in db : Same(e, f)

TableIsRead == \A e \in db : \E f \in mem : Same(e, f)

HandlerIsPaired ==
    /\ handler.at = "persist" /\ IsRevert => Paired(mem, handler.msg.doc)
    /\ handler.at \in {"update", "notify", "reply"} /\ IsRevert /\ handler.entry # 0 =>
         Paired(db, handler.msg.doc)

AnswerIsPaired ==
    \A i \in DOMAIN ledgerTopic :
        ledgerTopic[i].type = "stornoPosted" => Paired(db, ledgerTopic[i].doc)

Pairs == MemIsSaved /\ TableIsRead /\ HandlerIsPaired /\ AnswerIsPaired

PairInv == AnswerInv /\ (errors = 0 => Pairs)

(* A pair stays a pair as long as every entry keeps what it is.             *)
Kept(journal, next) == \A e \in journal : \E f \in next : Same(e, f)

LEMMA PairIsKept ==
  ASSUME NEW journal, NEW next, Kept(journal, next), NEW d, Paired(journal, d)
  PROVE  Paired(next, d)
  BY DEF Kept, Paired, Same

(* A step that neither posts nor saves, and answers no reversal.            *)
LEMMA PairsStay ==
  ASSUME AnswerInv, Pairs, UNCHANGED <<mem, db>>, handler.at # "persist" \/ handler' = handler,
         \/ handler' = handler \/ handler'.at \in {"idle", "handle"}
         \/ handler'.at = "reply" /\ handler'.entry = 0
         \/ handler.at \in {"persist", "update", "notify"} /\ GoesOn,
         \/ ledgerTopic' = ledgerTopic
         \/ \E a \in LedgerMessage : /\ ledgerTopic' = Append(ledgerTopic, a)
                                     /\ a.type = "stornoPosted" => Paired(db, a.doc)
  PROVE  Pairs'
<1>1. MemIsSaved'
  BY DEF Pairs, MemIsSaved
<1>2. TableIsRead'
  BY DEF Pairs, TableIsRead
<1>3. HandlerIsPaired'
  BY DEF Pairs, HandlerIsPaired, IsRevert, GoesOn, Idle
<1>4. AnswerIsPaired'
  <2>1. CASE ledgerTopic' = ledgerTopic
    BY <2>1 DEF Pairs, AnswerIsPaired
  <2>2. ASSUME NEW a \in LedgerMessage, ledgerTopic' = Append(ledgerTopic, a),
               a.type = "stornoPosted" => Paired(db, a.doc)
        PROVE  AnswerIsPaired'
    <3>1. ledgerTopic \in Seq(LedgerMessage)
      BY DEF AnswerInv, Inv, TypeOK
    <3>2. /\ DOMAIN ledgerTopic' = DOMAIN ledgerTopic \cup {Len(ledgerTopic) + 1}
          /\ \A i \in DOMAIN ledgerTopic : ledgerTopic'[i] = ledgerTopic[i]
          /\ ledgerTopic'[Len(ledgerTopic) + 1] = a
      BY <2>2, <3>1, AppendIndex
    <3> QED
      BY <2>2, <3>2 DEF Pairs, AnswerIsPaired
  <2> QED
    BY <2>1, <2>2
<1> QED
  BY <1>1, <1>2, <1>3, <1>4 DEF Pairs

LEMMA PairsPostEntry ==
  ASSUME AnswerInv, Pairs, PostEntry
  PROVE  Pairs'
<1> DEFINE new == [id |-> lastId + 1, doc |-> handler.msg.doc, kind |-> "ORIGINAL",
                   part |-> IF handler.msg.type \in PayTypes THEN "payment" ELSE "document",
                   reversedBy |-> 0]
<1>1. /\ handler.at = "handle"
      /\ handler.msg.type \in PostTypes \cup PayTypes
      /\ mem' = mem \cup {new}
      /\ handler' = [handler EXCEPT !.at = "persist", !.entry = lastId + 1]
      /\ UNCHANGED <<db, ledgerTopic>>
  BY DEF PostEntry, At
<1>2. handler \in Handling
  BY <1>1, HandlerIsTyped DEF AnswerInv, Inv
<1>3. handler'.at = "persist" /\ handler'.entry = lastId + 1 /\ ~IsRevert'
  BY <1>1, <1>2 DEF Handling, IsRevert, PostTypes, PayTypes, RevertTypes
<1>4. new.id = lastId + 1
  OBVIOUS
<1> HIDE DEF new
<1>5. MemIsSaved'
  BY <1>1, <1>3, <1>4 DEF Pairs, MemIsSaved
<1>6. TableIsRead'
  BY <1>1 DEF Pairs, TableIsRead
<1>7. HandlerIsPaired' /\ AnswerIsPaired'
  BY <1>1, <1>3 DEF Pairs, HandlerIsPaired, AnswerIsPaired
<1> QED
  BY <1>5, <1>6, <1>7 DEF Pairs

LEMMA PairsPostStorno ==
  ASSUME AnswerInv, Pairs, PostStorno
  PROVE  Pairs'
<1>1. handler.at = "handle" /\ UNCHANGED <<db, ledgerTopic>>
  BY DEF PostStorno, At
<1>2. PICK o \in Reversible(handler.msg.doc) :
        /\ mem' = (mem \ {o}) \cup
             {[o EXCEPT !.reversedBy = lastId + 1],
              [o EXCEPT !.id = lastId + 1, !.kind = "STORNO"]}
        /\ handler' = [handler EXCEPT !.at = "persist", !.entry = lastId + 1,
                                      !.original = o.id]
  BY DEF PostStorno
<1> DEFINE marked == [o EXCEPT !.reversedBy = lastId + 1]
           storno == [o EXCEPT !.id = lastId + 1, !.kind = "STORNO"]
<1>3. handler \in Handling
  BY <1>1, HandlerIsTyped DEF AnswerInv, Inv
<1>4. handler'.at = "persist" /\ handler'.msg = handler.msg /\ handler'.entry = lastId + 1
  BY <1>2, <1>3 DEF Handling
<1>5. /\ o \in mem /\ o \in Entry /\ o.kind = "ORIGINAL" /\ o.part = "document"
      /\ o.doc = handler.msg.doc
  BY DEF Reversible, AnswerInv, Inv, TypeOK
<1>6. /\ Same(o, marked)
      /\ storno.id = lastId + 1 /\ storno.kind = "STORNO" /\ storno.part = "document"
      /\ storno.doc = o.doc
  BY <1>5 DEF Entry, Same
<1>7. mem' = (mem \ {o}) \cup {marked, storno}
  BY <1>2
<1> HIDE DEF marked, storno
<1>8. MemIsSaved'
  <2>1. ASSUME NEW e \in mem PROVE \E f \in db : Same(e, f)
    BY <1>1 DEF Pairs, MemIsSaved
  <2>2. \E f \in db : Same(marked, f)
    BY <1>5, <1>6, <2>1 DEF Same
  <2> SUFFICES ASSUME NEW e \in mem'
               PROVE  e.id = handler'.entry \/ \E f \in db : Same(e, f)
    BY <1>1, <1>4 DEF MemIsSaved, Same
  <2> QED
    BY <1>4, <1>6, <1>7, <2>1, <2>2
<1>9. Kept(mem, mem')
  BY <1>6, <1>7 DEF Kept, Same
<1>10. TableIsRead'
  BY <1>1, <1>9 DEF Pairs, TableIsRead, Kept, Same
<1>11. Paired(mem', handler.msg.doc)
  BY <1>5, <1>6, <1>7 DEF Paired, Same
<1>12. HandlerIsPaired' /\ AnswerIsPaired'
  BY <1>1, <1>4, <1>11 DEF Pairs, HandlerIsPaired, AnswerIsPaired
<1> QED
  BY <1>8, <1>10, <1>12 DEF Pairs

(* The new entry reaches the table, and the pair with it.                   *)
LEMMA PairsPersist ==
  ASSUME AnswerInv, Pairs, Persist
  PROVE  Pairs'
<1>1. /\ handler.at = "persist" /\ AfterPersist
      /\ db' = db \cup NewRow
      /\ UNCHANGED <<mem, ledgerTopic>>
  BY DEF Persist, At
<1>2. GoesOn
  BY <1>1, AfterPersistGoesOn DEF AnswerInv, Inv
<1>3. \A r \in NewRow : \E e \in mem : Same(r, e)
  BY DEF NewRow, Same, AnswerInv, Inv, TypeOK, Entry
<1>4. ASSUME NEW e \in mem, e.id = handler.entry PROVE \E r \in NewRow : Same(e, r)
  <2>1. [e EXCEPT !.reversedBy = 0] \in NewRow
    BY <1>4 DEF NewRow
  <2>2. e \in Entry
    BY DEF AnswerInv, Inv, TypeOK
  <2> QED
    BY <2>1, <2>2 DEF Same, Entry
<1>5. Kept(mem, db') /\ Kept(db, db')
  BY <1>1, <1>4 DEF Pairs, MemIsSaved, Kept, Same
<1>6. MemIsSaved'
  BY <1>1, <1>5 DEF MemIsSaved, Kept
<1>7. TableIsRead'
  BY <1>1, <1>3 DEF Pairs, TableIsRead
<1>8. HandlerIsPaired'
  <2>1. ASSUME IsRevert PROVE Paired(db', handler.msg.doc)
    BY <1>1, <1>5, <2>1, PairIsKept DEF Pairs, HandlerIsPaired
  <2> QED
    BY <1>2, <2>1 DEF HandlerIsPaired, IsRevert, GoesOn, Idle
<1>9. AnswerIsPaired'
  <2>1. \A d : Paired(db, d) => Paired(db', d)
    BY <1>5, PairIsKept
  <2> QED
    BY <1>1, <2>1 DEF Pairs, AnswerIsPaired
<1> QED
  BY <1>6, <1>7, <1>8, <1>9 DEF Pairs

LEMMA PairsUpdate ==
  ASSUME AnswerInv, Pairs, UpdateOriginal
  PROVE  Pairs'
<1> DEFINE row(e) == IF e.id = handler.original
                     THEN [e EXCEPT !.reversedBy = handler.entry] ELSE e
<1>1. /\ handler.at = "update" /\ NextAfterWrite
      /\ db' = {row(e) : e \in db}
      /\ UNCHANGED <<mem, ledgerTopic>>
  BY DEF UpdateOriginal, At
<1>2. \A e \in db : Same(row(e), e)
  BY DEF Same, AnswerInv, Inv, TypeOK, Entry
<1> HIDE DEF row
<1>3. GoesOn
  BY <1>1, NextAfterWriteGoesOn DEF AnswerInv, Inv
<1>4. Kept(db, db') /\ Kept(db', db)
  BY <1>1, <1>2 DEF Kept, Same
<1>5. Kept(mem, db') /\ Kept(db', mem)
  <2>1. Kept(mem, db) /\ Kept(db, mem)
    BY <1>1 DEF Pairs, MemIsSaved, TableIsRead, Kept
  <2> QED
    BY <1>4, <2>1 DEF Kept, Same
<1>6. MemIsSaved' /\ TableIsRead'
  BY <1>1, <1>5 DEF MemIsSaved, TableIsRead, Kept
<1>7. \A d : Paired(db, d) => Paired(db', d)
  BY <1>4, PairIsKept
<1>8. HandlerIsPaired'
  BY <1>1, <1>3, <1>7 DEF Pairs, HandlerIsPaired, IsRevert, GoesOn, Idle
<1>9. AnswerIsPaired'
  BY <1>1, <1>7 DEF Pairs, AnswerIsPaired
<1> QED
  BY <1>6, <1>8, <1>9 DEF Pairs

LEMMA PairStep == PairInv /\ [Next]_vars => PairInv'
<1> SUFFICES ASSUME PairInv, [Next]_vars PROVE PairInv'
  OBVIOUS
<1>1. AnswerInv /\ AnswerInv' /\ TypeOK /\ errors \in Nat
  BY AnswerStep DEF PairInv, AnswerInv, Inv, TypeOK
<1> SUFFICES ASSUME errors' = 0 PROVE Pairs'
  BY <1>1 DEF PairInv
<1>2. ~Error
  BY <1>1 DEF Error
<1>3. errors = 0
  <2>1. UNCHANGED errors
    BY <1>2 DEF Next, Progress, Handle, Trouble, vars, consumerVars, SkipDuplicate, Ingest, IngestError,
       PostEntry, PostStorno, RefuseStorno, IgnoreInvoiceSent, Persist, PersistError, UpdateOriginal,
       UpdateError, Notify, NotifyError, Reply, ReplyError, Commit, Rebalance, Crash, Produce
  <2> QED
    BY <2>1
<1>4. Pairs
  BY <1>3 DEF PairInv
<1>5. CASE SkipDuplicate
  BY <1>1, <1>4, <1>5, PairsStay DEF SkipDuplicate
<1>6. CASE Ingest
  BY <1>1, <1>4, <1>6, PairsStay DEF Ingest, Receives
<1>7. CASE PostEntry
  BY <1>1, <1>4, <1>7, PairsPostEntry
<1>8. CASE PostStorno
  BY <1>1, <1>4, <1>8, PairsPostStorno
<1>9. CASE RefuseStorno
  <2>1. handler.at = "handle" /\ handler'.at = "reply" /\ handler'.entry = handler.entry
    BY <1>1, <1>9, GotoKeepsHandler DEF RefuseStorno, At
  <2>2. handler.entry = 0
    BY <1>1, <2>1 DEF AnswerInv, RefusalIsTrue
  <2> QED
    BY <1>1, <1>4, <1>9, <2>1, <2>2, PairsStay DEF RefuseStorno
<1>10. CASE IgnoreInvoiceSent
  BY <1>1, <1>4, <1>10, PairsStay DEF IgnoreInvoiceSent, Done, Idle, At
<1>11. CASE Persist
  BY <1>1, <1>4, <1>11, PairsPersist
<1>12. CASE UpdateOriginal
  BY <1>1, <1>4, <1>12, PairsUpdate
<1>13. CASE Notify
  <2> DEFINE a == [type |-> "journalEntryPosted", doc |-> handler.msg.doc, entry |-> handler.entry]
  <2>1. handler.at = "notify" /\ GoesOn /\ ledgerTopic' = Append(ledgerTopic, a) /\ UNCHANGED <<mem, db>>
    BY <1>1, <1>13, AfterNotifyGoesOn DEF Notify, At
  <2>2. a \in LedgerMessage /\ a.type # "stornoPosted"
    BY <1>1, <2>1, HandlerIsTyped DEF LedgerMessage
  <2> HIDE DEF a
  <2> QED
    BY <1>1, <1>4, <2>1, <2>2, PairsStay
<1>14. CASE Reply
  <2> DEFINE a == [type |-> IF handler.entry = 0 THEN "stornoFailed" ELSE "stornoPosted",
                   doc |-> handler.msg.doc, entry |-> handler.entry]
  <2>1. /\ handler.at = "reply" /\ handler'.at = "idle"
        /\ ledgerTopic' = Append(ledgerTopic, a) /\ UNCHANGED <<mem, db>>
    BY <1>14 DEF Reply, At, Done, Idle
  <2>2. IsRevert
    BY <1>1, <2>1 DEF AnswerInv, RefusalIsTrue
  <2>3. a \in LedgerMessage
    BY <1>1, <2>1, HandlerIsTyped DEF LedgerMessage
  <2>4. a.type = "stornoPosted" => Paired(db, a.doc)
    BY <1>4, <2>1, <2>2 DEF Pairs, HandlerIsPaired
  <2> HIDE DEF a
  <2> QED
    BY <1>1, <1>4, <2>1, <2>3, <2>4, PairsStay
<1>15. CASE Commit
  BY <1>1, <1>4, <1>15, PairsStay DEF Commit
<1>16. CASE Rebalance
  BY <1>1, <1>4, <1>16, PairsStay DEF Rebalance
<1>17. CASE Crash
  <2>1. mem' = db /\ db' = db /\ handler'.at = "idle" /\ ledgerTopic' = ledgerTopic
    BY <1>17 DEF Crash, Idle
  <2> QED
    BY <1>4, <2>1 DEF Pairs, MemIsSaved, TableIsRead, HandlerIsPaired, AnswerIsPaired, Same
<1>18. ASSUME NEW m \in Message, Produce(m) PROVE Pairs'
  BY <1>1, <1>4, <1>18, PairsStay DEF Produce, consumerVars
<1>19. CASE UNCHANGED vars
  BY <1>1, <1>4, <1>19, PairsStay DEF vars
<1> QED
  BY <1>2, <1>5, <1>6, <1>7, <1>8, <1>9, <1>10, <1>11, <1>12, <1>13, <1>14, <1>15, <1>16, <1>17,
     <1>18, <1>19 DEF Next, Progress, Handle, Trouble, IngestError, PersistError, UpdateError,
     NotifyError, ReplyError

-----------------------------------------------------------------------------
(* What an entry adds to some accounts; the balance of the accounts is the  *)
(* sum of that.                                                             *)
Gain(e, accounts) ==
    (IF DebitAccount(e) \in accounts THEN Amount[e.doc] ELSE 0)
    - (IF CreditAccount(e) \in accounts THEN Amount[e.doc] ELSE 0)

LEMMA NetIs ==
  ASSUME NEW S, NEW accounts, NEW g, \A e \in S : g[e] = Gain(e, accounts)
  PROVE  Net(S, accounts) = SumOf(g, S)
<1> DEFINE B(h) == [s \in SUBSET S |->
                     IF s = {} THEN 0
                     ELSE ((IF DebitAccount(CHOOSE x \in s : TRUE) \in accounts
                            THEN Amount[(CHOOSE x \in s : TRUE).doc] ELSE 0)
                           - (IF CreditAccount(CHOOSE x \in s : TRUE) \in accounts
                              THEN Amount[(CHOOSE x \in s : TRUE).doc] ELSE 0))
                          + h[s \ {CHOOSE x \in s : TRUE}]]
<1>1. Net(S, accounts) = (CHOOSE h : h = B(h))[S]
  BY DEF Net, MapThenSumSet, MapThenFoldSet
<1>2. \A h : B(h) = Body(g, S, h)
  BY PickIsIn DEF Body, Pick, Gain
<1> HIDE DEF B
<1>3. \A h : h = B(h) <=> h = Body(g, S, h)
  BY <1>2
<1>4. (CHOOSE h : h = B(h)) = Iter(g, S)
  BY <1>3, Zenon DEF Iter
<1> QED
  BY <1>1, <1>4, SumIsIter

LEMMA TotalIs ==
  ASSUME NEW S, NEW g, \A e \in S : g[e] = Amount[e.doc]
  PROVE  Total(S) = SumOf(g, S)
<1> DEFINE B(h) == [s \in SUBSET S |->
                     IF s = {} THEN 0
                     ELSE Amount[(CHOOSE x \in s : TRUE).doc] + h[s \ {CHOOSE x \in s : TRUE}]]
<1>1. Total(S) = (CHOOSE h : h = B(h))[S]
  BY DEF Total, MapThenSumSet, MapThenFoldSet
<1>2. \A h : B(h) = Body(g, S, h)
  BY PickIsIn DEF Body, Pick
<1> HIDE DEF B
<1>3. \A h : h = B(h) <=> h = Body(g, S, h)
  BY <1>2
<1>4. (CHOOSE h : h = B(h)) = Iter(g, S)
  BY <1>3, Zenon DEF Iter
<1> QED
  BY <1>1, <1>4, SumIsIter

LEMMA SumOfTwo ==
  ASSUME NEW g, NEW x, NEW y, x # y, g[x] \in Int, g[y] \in Int
  PROVE  SumOf(g, {x, y}) = g[x] + g[y]
<1>1. IsFiniteSet({}) /\ IsFiniteSet({y}) /\ IsFiniteSet({x, y})
  <2>1. IsFiniteSet({y})
    BY FS_Singleton
  <2>2. IsFiniteSet({y} \cup {x}) /\ {y} \cup {x} = {x, y}
    BY <2>1, FS_AddElement
  <2> QED
    BY <2>1, <2>2, FS_EmptySet
<1>2. SumOf(g, {x, y}) = g[x] + SumOf(g, {x, y} \ {x})
  <2>1. x \in {x, y} /\ \A e \in {x, y} : g[e] \in Int
    OBVIOUS
  <2> QED
    BY <1>1, <2>1, SumRemove
<1>3. {x, y} \ {x} = {y} /\ {y} \ {y} = {}
  OBVIOUS
<1>4. SumOf(g, {y}) = g[y] + SumOf(g, {y} \ {y})
  <2>1. y \in {y} /\ \A e \in {y} : g[e] \in Int
    OBVIOUS
  <2> QED
    BY <1>1, <2>1, SumRemove
<1>5. SumOf(g, {x, y} \ {x}) = SumOf(g, {y}) /\ SumOf(g, {y} \ {y}) = 0
  BY <1>3, SumOfNone
<1> QED
  BY <1>2, <1>4, <1>5

(* Once a document and its STORNO are both there, they are all there is,    *)
(* and they cancel out in every account.                                    *)
LEMMA StornoCancels ==
  ASSUME NEW o \in Entry, NEW s \in Entry, NEW a, o.doc = s.doc, o.part = s.part,
         o.kind = "ORIGINAL", s.kind = "STORNO"
  PROVE  Net({o, s}, {a}) = 0
<1>1. Amount[o.doc] \in Nat
  BY ReportsAssumption DEF Entry
<1>2. DebitAccount(s) = CreditAccount(o) /\ CreditAccount(s) = DebitAccount(o)
  BY DEF DebitAccount, CreditAccount, Sides
<1> DEFINE g == [e \in {o, s} |-> Gain(e, {a})]
<1>3. Gain(o, {a}) \in Int /\ Gain(s, {a}) \in Int /\ Gain(o, {a}) + Gain(s, {a}) = 0
  BY <1>1, <1>2 DEF Gain
<1>4. Net({o, s}, {a}) = SumOf(g, {o, s})
  BY NetIs
<1>5. g[o] = Gain(o, {a}) /\ g[s] = Gain(s, {a}) /\ o # s
  OBVIOUS
<1> HIDE DEF g
<1>6. SumOf(g, {o, s}) = g[o] + g[s]
  BY <1>3, <1>5, SumOfTwo
<1> QED
  BY <1>3, <1>4, <1>5, <1>6

IsOut(own) ==
    \A a \in {DebitAccount(e) : e \in own} \cup {CreditAccount(e) : e \in own} : Net(own, {a}) = 0

LEMMA PairsSuffice == PairInv => AnswerIsInTheBooks
<1> SUFFICES ASSUME PairInv, errors = 0, NEW d \in Doc, NEW i \in Replies(d)
             PROVE  \/ IsOut({e \in mem : e.doc = d /\ e.part = "document"})
                    \/ /\ ledgerTopic[i].type = "stornoFailed"
                       /\ Cardinality({e \in mem : e.doc = d /\ e.part = "document"}) = 1
  BY Zenon DEF AnswerIsInTheBooks, IsOut
<1> DEFINE own == {e \in mem : e.doc = d /\ e.part = "document"}
<1> SUFFICES IsOut(own) \/ (ledgerTopic[i].type = "stornoFailed" /\ Cardinality(own) = 1)
  OBVIOUS
<1>1. AnswerInv /\ Inv /\ TypeOK /\ Pairs /\ AtMostOnce
  BY DEF PairInv, AnswerInv, Inv
<1>2. /\ i \in DOMAIN ledgerTopic /\ ledgerTopic[i].doc = d
      /\ ledgerTopic[i].type \in {"stornoPosted", "stornoFailed"}
  <2>1. /\ i \in DOMAIN ledgerTopic /\ ledgerTopic[i].doc = d
        /\ ledgerTopic[i].type # "journalEntryPosted"
    BY DEF Replies
  <2>2. ledgerTopic \in Seq(LedgerMessage)
    BY <1>1 DEF TypeOK
  <2>3. ledgerTopic[i] \in LedgerMessage
    BY <2>1, <2>2
  <2> QED
    BY <2>1, <2>3 DEF LedgerMessage
<1>3. \A e \in own : e \in Entry /\ e.doc = d /\ e.part = "document" /\ e \in mem
  BY <1>1 DEF TypeOK
<1>4. \A e, f \in own : e.kind = f.kind => e = f
  BY <1>1, <1>3 DEF AtMostOnce
<1>5. CASE ledgerTopic[i].type = "stornoPosted"
  <2>1. Paired(mem, d)
    <3>1. Kept(db, mem)
      BY <1>1 DEF Pairs, TableIsRead, Kept
    <3> QED
      BY <1>1, <1>2, <1>5, <3>1, PairIsKept DEF Pairs, AnswerIsPaired
  <2>2. PICK o \in own : o.kind = "ORIGINAL"
    BY <2>1 DEF Paired
  <2>3. PICK s \in own : s.kind = "STORNO"
    BY <2>1 DEF Paired
  <2>4. own = {o, s}
    <3>1. \A e \in own : e.kind \in {"ORIGINAL", "STORNO"}
      BY <1>3 DEF Entry
    <3> HIDE DEF own
    <3> QED
      BY <1>4, <2>2, <2>3, <3>1
  <2>5. \A a : Net({o, s}, {a}) = 0
    BY <1>3, <2>2, <2>3, StornoCancels
  <2> HIDE DEF own
  <2> QED
    BY <2>4, <2>5 DEF IsOut
<1>6. CASE ledgerTopic[i].type = "stornoFailed"
  <2>1. \A e \in own : e.kind = "ORIGINAL"
    BY <1>1, <1>2, <1>3, <1>6 DEF AnswerInv, OneAnswer, Entry
  <2> HIDE DEF own
  <2>2. CASE own = {}
    BY <2>2 DEF IsOut
  <2>3. CASE own # {}
    <3>1. PICK e : e \in own
      BY <2>3
    <3>2. own = {e}
      BY <1>4, <2>1, <3>1
    <3>3. Cardinality(own) = 1
      BY <3>2, FS_Singleton
    <3> QED
      BY <1>6, <3>3
  <2> QED
    BY <2>2, <2>3
<1> QED
  BY <1>2, <1>5, <1>6

(* Once operations has been told stornoPosted, the document is out of every *)
(* account; once it has been told stornoFailed it is out of them or in them *)
(* with its one posting, unless a database error was swallowed: whatever    *)
(* events come, however often, and wherever a restart cuts in.              *)
THEOREM AnswersAreInTheBooks == ReportsSpec => []AnswerIsInTheBooks
<1>1. ReportsInit => PairInv
  <2> SUFFICES ASSUME ReportsInit PROVE PairInv
    OBVIOUS
  <2>1. mem = db /\ handler = Idle /\ ledgerTopic = <<>>
    BY DEF ReportsInit
  <2>2. MemIsSaved /\ TableIsRead
    BY <2>1 DEF MemIsSaved, TableIsRead, Same
  <2>3. HandlerIsPaired /\ AnswerIsPaired
    BY <2>1 DEF HandlerIsPaired, AnswerIsPaired, Idle
  <2> QED
    BY <2>2, <2>3, ReportsStart DEF PairInv, Pairs
<1> QED
  BY <1>1, PairStep, PairsSuffice, ReportsStepIsLedgers, PTL DEF ReportsSpec

-----------------------------------------------------------------------------
(* The reports.  The journal is finite, so that its sums mean something.    *)
Finite == IsFiniteSet(mem) /\ IsFiniteSet(db)

FiniteInv == Inv /\ Finite

LEMMA FiniteStep == FiniteInv /\ [Next]_vars => FiniteInv'
<1> SUFFICES ASSUME FiniteInv, [Next]_vars PROVE FiniteInv'
  OBVIOUS
<1>1. Inv' /\ IsFiniteSet(mem) /\ IsFiniteSet(db)
  BY InvStep DEF FiniteInv, Finite
<1> SUFFICES Finite'
  BY <1>1 DEF FiniteInv
<1>2. CASE UNCHANGED <<mem, db>>
  BY <1>1, <1>2 DEF Finite
<1>3. CASE PostEntry
  <2>1. PICK e : mem' = mem \cup {e} /\ UNCHANGED db
    BY <1>3 DEF PostEntry
  <2> QED
    BY <1>1, <2>1, FS_AddElement DEF Finite
<1>4. CASE PostStorno
  <2>1. PICK o \in Reversible(handler.msg.doc) :
          mem' = (mem \ {o}) \cup
            {[o EXCEPT !.reversedBy = lastId + 1], [o EXCEPT !.id = lastId + 1, !.kind = "STORNO"]}
    BY <1>4 DEF PostStorno
  <2> DEFINE e == [o EXCEPT !.reversedBy = lastId + 1]
             f == [o EXCEPT !.id = lastId + 1, !.kind = "STORNO"]
  <2>2. mem' = (mem \ {o}) \cup {e, f} /\ UNCHANGED db /\ o \in mem
    BY <1>4, <2>1 DEF PostStorno, Reversible
  <2> HIDE DEF e, f
  <2>3. IsFiniteSet(mem \ {o})
    BY <1>1, FS_RemoveElement
  <2>4. IsFiniteSet((mem \ {o}) \cup {e})
    BY <2>3, FS_AddElement
  <2>5. IsFiniteSet(((mem \ {o}) \cup {e}) \cup {f})
    BY <2>4, FS_AddElement
  <2>6. ((mem \ {o}) \cup {e}) \cup {f} = mem'
    BY <2>2
  <2> QED
    BY <1>1, <2>2, <2>5, <2>6 DEF Finite
<1>5. CASE Persist
  <2> DEFINE S == {x \in mem : x.id = handler.entry}
             f == [e \in S |-> [e EXCEPT !.reversedBy = 0]]
  <2>1. IsFiniteSet(S)
    BY <1>1, FS_Subset
  <2>2. f \in Surjection(S, NewRow)
    BY DEF Surjection, NewRow
  <2> HIDE DEF S, f
  <2>3. IsFiniteSet(NewRow)
    BY <2>1, <2>2, FS_Surjection
  <2>4. IsFiniteSet(db \cup NewRow)
    BY <1>1, <2>3, FS_Union
  <2> QED
    BY <1>1, <1>5, <2>4 DEF Persist, Finite
<1>6. CASE UpdateOriginal
  <2> DEFINE f == [e \in db |-> IF e.id = handler.original
                                THEN [e EXCEPT !.reversedBy = handler.entry] ELSE e]
  <2>1. f \in Surjection(db, db')
    BY <1>6 DEF UpdateOriginal, Surjection
  <2> HIDE DEF f
  <2>2. IsFiniteSet(db')
    BY <1>1, <2>1, FS_Surjection
  <2> QED
    BY <1>1, <1>6, <2>2 DEF UpdateOriginal, Finite
<1>7. CASE Crash
  BY <1>1, <1>7 DEF Crash, Finite
<1> QED
  BY <1>2, <1>3, <1>4, <1>5, <1>6, <1>7
     DEF Next, Progress, Handle, Trouble, vars, consumerVars, SkipDuplicate, Ingest, IngestError,
         RefuseStorno, IgnoreInvoiceSent, PersistError, UpdateError, Notify, NotifyError,
         Reply, ReplyError, Commit, Rebalance, Produce

-----------------------------------------------------------------------------
(* The accounts of an entry.  A payment is about a bill or an invoice, so   *)
(* every entry has the lines of one of these, or of its storno; and with    *)
(* the new codes, every account belongs to one of five groups.              *)
Lines == {<<665, 220>>, <<220, 100>>, <<140, 700>>, <<100, 140>>, <<125, 220>>, <<500, 125>>}

LEMMA NewCodes ==
  /\ \A a \in {100, 125, 140, 220, 500, 665, 700} : NormalizeAccountCode(a) = a
  /\ NormalizeAccountCode(5100) = 665 /\ NormalizeAccountCode(2000) = 220
<1>1. DOMAIN LegacyToSka = {1000, 1100, 1200, 2000, 4000, 5000, 5100}
  BY DEF LegacyToSka, Legacy
<1>2. \A a \in {100, 125, 140, 220, 500, 665, 700} : a \notin DOMAIN LegacyToSka
  BY <1>1
<1>3. LegacyToSka[5100] = 665
  <2> DEFINE k == CHOOSE x \in DOMAIN SKA : Legacy[x] = 5100
  <2>1. \A x \in DOMAIN SKA : Legacy[x] = 5100 <=> x = "expenses"
    BY DEF SKA, Legacy
  <2>2. "expenses" \in DOMAIN SKA /\ SKA["expenses"] = 665 /\ SKA.expenses = 665
    BY DEF SKA
  <2>3. k = "expenses"
    BY <2>1, <2>2
  <2>4. LegacyToSka[5100] = SKA[k]
    <3>1. 5100 \in {Legacy[x] : x \in DOMAIN Legacy}
      BY DEF Legacy
    <3> QED
      BY <3>1 DEF LegacyToSka
  <2> HIDE DEF k
  <2> QED
    BY <2>2, <2>3, <2>4
<1>4. LegacyToSka[2000] = 220
  <2> DEFINE k == CHOOSE x \in DOMAIN SKA : Legacy[x] = 2000
  <2>1. \A x \in DOMAIN SKA : Legacy[x] = 2000 <=> x = "payable"
    BY DEF SKA, Legacy
  <2>2. "payable" \in DOMAIN SKA /\ SKA["payable"] = 220
    BY DEF SKA
  <2>3. k = "payable"
    BY <2>1, <2>2
  <2>4. LegacyToSka[2000] = SKA[k]
    <3>1. 2000 \in {Legacy[x] : x \in DOMAIN Legacy}
      BY DEF Legacy
    <3> QED
      BY <3>1 DEF LegacyToSka
  <2> HIDE DEF k
  <2> QED
    BY <2>2, <2>3, <2>4
<1> QED
  BY <1>1, <1>2, <1>3, <1>4 DEF NormalizeAccountCode

LEMMA PaymentIsOfBillOrInvoice ==
  ASSUME Inv, NEW e \in mem, e.part = "payment"
  PROVE  e.doc \in Bill \cup Invoice
<1>1. PICK m \in ingested : Posts(m, e)
  BY DEF Inv, EntryIsCaused
<1>2. m \in Message /\ m.type \in PayTypes /\ m.doc = e.doc
  BY <1>1 DEF Posts, Inv, TypeOK
<1> QED
  BY <1>2 DEF Message, PayTypes

LEMMA LinesOfEntry ==
  ASSUME Inv, NEW e \in mem
  PROVE  <<DebitAccount(e), CreditAccount(e)>> \in Lines \/ <<CreditAccount(e), DebitAccount(e)>> \in Lines
<1> DEFINE original == Accounts[e.doc][e.part]
           d == NormalizeAccountCode(original.debit)
           c == NormalizeAccountCode(original.credit)
<1>1. e \in Entry
  BY DEF Inv, TypeOK
<1>2. e.doc \in Bill \cup Invoice \cup Movement /\ e.part \in {"document", "payment"}
  BY <1>1 DEF Entry, Doc
<1>3. <<d, c>> \in Lines
  <2>1. CASE e.doc \in Bill
    <3>1. Accounts[e.doc] =
            [document |-> [debit |-> IF e.doc \in Old THEN 5100 ELSE 665,
                           credit |-> IF e.doc \in Old THEN 2000 ELSE 220],
             payment |-> [debit |-> 220, credit |-> 100]]
      BY <2>1, <1>2, LedgerAssumption, ReportsAssumption DEF Accounts, Doc, SKA, Legacy
    <3>2. CASE e.part = "document"
      BY <3>1, <3>2, NewCodes DEF Lines
    <3>3. CASE e.part = "payment"
      BY <3>1, <3>3, NewCodes DEF Lines
    <3> QED
      BY <1>2, <3>2, <3>3
  <2>2. CASE e.doc \in Invoice
    <3>1. Accounts[e.doc] = [document |-> [debit |-> 140, credit |-> 700],
                             payment |-> [debit |-> 100, credit |-> 140]]
      BY <2>2, <1>2, LedgerAssumption, ReportsAssumption DEF Accounts, Doc, SKA
    <3>2. CASE e.part = "document"
      BY <3>1, <3>2, NewCodes DEF Lines
    <3>3. CASE e.part = "payment"
      BY <3>1, <3>3, NewCodes DEF Lines
    <3> QED
      BY <1>2, <3>2, <3>3
  <2>3. CASE e.doc \in Movement
    <3>1. e.doc \notin Bill \cup Invoice /\ e.part = "document"
      BY <1>2, <2>3, LedgerAssumption, PaymentIsOfBillOrInvoice
    <3>2. CASE e.doc \in Receipt
      <4>1. Accounts[e.doc] = [document |-> [debit |-> 125, credit |-> 220]]
        BY <1>2, <3>1, <3>2 DEF Accounts, Doc, SKA
      <4> QED
        BY <3>1, <4>1, NewCodes DEF Lines
    <3>3. CASE e.doc \notin Receipt
      <4>1. Accounts[e.doc] = [document |-> [debit |-> 500, credit |-> 125]]
        BY <1>2, <3>1, <3>3 DEF Accounts, Doc, SKA
      <4> QED
        BY <3>1, <4>1, NewCodes DEF Lines
    <3> QED
      BY <3>2, <3>3
  <2> QED
    BY <1>2, <2>1, <2>2, <2>3
<1>4. \/ DebitAccount(e) = d /\ CreditAccount(e) = c
      \/ DebitAccount(e) = c /\ CreditAccount(e) = d
  BY DEF DebitAccount, CreditAccount, Sides
<1> QED
  BY <1>3, <1>4

LEMMA ClassOfCode ==
  \A a \in {100, 125, 140, 220, 500, 665, 700} :
     /\ a \in StartsWith(1) <=> a \in {100, 125, 140}
     /\ a \in StartsWith(2) <=> a = 220
     /\ a \in StartsWith(6) <=> a = 665
     /\ a \in StartsWith(7) <=> a = 700
     /\ a \in {SKA.cogs} <=> a = 500
<1>1. \A a \in {100, 125, 140, 220, 500, 665, 700} : a \in {SKA[x] : x \in DOMAIN SKA}
  BY DEF SKA
<1>2. \A a \in {100, 125, 140, 220, 500, 665, 700} : a \in Codes
  BY <1>1 DEF Codes
<1>3. /\ 100 \div 100 = 1 /\ 125 \div 100 = 1 /\ 140 \div 100 = 1 /\ 220 \div 100 = 2
      /\ 500 \div 100 = 5 /\ 665 \div 100 = 6 /\ 700 \div 100 = 7
  OBVIOUS
<1>4. \A a \in {100, 125, 140, 220, 500, 665, 700} : \A k : a \in StartsWith(k) <=> k = a \div 100
  BY <1>2 DEF StartsWith
<1>5. SKA.cogs = 500
  BY DEF SKA
<1> QED
  BY <1>3, <1>4, <1>5

LEMMA GainIsInt ==
  ASSUME Inv, NEW e \in mem, NEW accounts
  PROVE  Amount[e.doc] \in Nat /\ Gain(e, accounts) \in Int
<1>1. Amount[e.doc] \in Nat
  BY ReportsAssumption DEF Inv, TypeOK, Entry
<1> QED
  BY <1>1 DEF Gain

(* What an entry adds to assets less liabilities it adds to the profit.     *)
LEMMA EntryBalances ==
  ASSUME Inv, NEW e \in mem
  PROVE  Gain(e, StartsWith(1)) + Gain(e, StartsWith(2))
         + Gain(e, StartsWith(7)) + Gain(e, {SKA.cogs}) + Gain(e, StartsWith(6)) = 0
<1> DEFINE d == DebitAccount(e)
           c == CreditAccount(e)
           n == Amount[e.doc]
           in(a, k) == IF a \in k THEN n ELSE 0
<1>1. n \in Nat
  BY GainIsInt
<1>2. d \in {100, 125, 140, 220, 500, 665, 700} /\ c \in {100, 125, 140, 220, 500, 665, 700}
  BY LinesOfEntry DEF Lines
<1>3. ASSUME NEW a \in {100, 125, 140, 220, 500, 665, 700}
      PROVE  in(a, StartsWith(1)) + in(a, StartsWith(2)) + in(a, StartsWith(7))
             + in(a, {SKA.cogs}) + in(a, StartsWith(6)) = n
  BY <1>1, ClassOfCode
<1>4. \A k : Gain(e, k) = in(d, k) - in(c, k)
  BY DEF Gain
<1>5. \A a, k : in(a, k) \in Int
  BY <1>1
<1> HIDE DEF d, c, n, in
<1>6. /\ in(d, StartsWith(1)) + in(d, StartsWith(2)) + in(d, StartsWith(7))
         + in(d, {SKA.cogs}) + in(d, StartsWith(6)) = n
      /\ in(c, StartsWith(1)) + in(c, StartsWith(2)) + in(c, StartsWith(7))
         + in(c, {SKA.cogs}) + in(c, StartsWith(6)) = n
  BY <1>2, <1>3
<1> QED
  BY <1>1, <1>4, <1>5, <1>6

LEMMA SumOfZeros ==
  ASSUME NEW z, NEW S, IsFiniteSet(S), \A e \in S : z[e] = 0
  PROVE  SumOf(z, S) = 0
<1>1. /\ {} \in SUBSET S
      /\ \A e \in {} : z[e] \in Int /\ z[e] = z[e]
      /\ \A e \in S \ {} : z[e] = 0
  OBVIOUS
<1>2. SumOf(z, S) = SumOf(z, {})
  BY <1>1, SumOfPart
<1> QED
  BY <1>2, SumOfNone

LEMMA NetIsInt ==
  ASSUME Inv, NEW S \in SUBSET mem, IsFiniteSet(S), NEW accounts
  PROVE  Net(S, accounts) \in Int
<1> DEFINE g == [e \in mem |-> Gain(e, accounts)]
<1>1. \A e \in S : g[e] = Gain(e, accounts) /\ g[e] \in Int
  BY GainIsInt
<1> HIDE DEF g
<1>2. Net(S, accounts) = SumOf(g, S)
  BY <1>1, NetIs
<1> QED
  BY <1>1, <1>2, SumIsInt

LEMMA NetSplits ==
  ASSUME Inv, NEW S \in SUBSET mem, IsFiniteSet(S), NEW T \in SUBSET S, NEW accounts
  PROVE  Net(S, accounts) = Net(T, accounts) + Net(S \ T, accounts)
<1> DEFINE g == [e \in mem |-> Gain(e, accounts)]
<1>1. \A e \in S : g[e] = Gain(e, accounts) /\ g[e] \in Int
  BY GainIsInt
<1> HIDE DEF g
<1>2. SumOf(g, S) = SumOf(g, T) + SumOf(g, S \ T)
  BY <1>1, SumSplits
<1>3. Net(S, accounts) = SumOf(g, S)
  BY <1>1, NetIs
<1>4. Net(T, accounts) = SumOf(g, T)
  BY <1>1, NetIs
<1>5. Net(S \ T, accounts) = SumOf(g, S \ T)
  BY <1>1, NetIs
<1> QED
  BY <1>2, <1>3, <1>4, <1>5

(* Assets less liabilities are revenue less costs, for any entries.         *)
LEMMA BooksBalance ==
  ASSUME Inv, NEW S \in SUBSET mem, IsFiniteSet(S)
  PROVE  Net(S, StartsWith(1)) + Net(S, StartsWith(2))
         = -Net(S, StartsWith(7)) - Net(S, {SKA.cogs}) - Net(S, StartsWith(6))
<1> DEFINE g1 == [e \in S |-> Gain(e, StartsWith(1))]
           g2 == [e \in S |-> Gain(e, StartsWith(2))]
           g7 == [e \in S |-> Gain(e, StartsWith(7))]
           gc == [e \in S |-> Gain(e, {SKA.cogs})]
           g6 == [e \in S |-> Gain(e, StartsWith(6))]
           s2 == [e \in S |-> g1[e] + g2[e]]
           s3 == [e \in S |-> s2[e] + g7[e]]
           s4 == [e \in S |-> s3[e] + gc[e]]
           s5 == [e \in S |-> s4[e] + g6[e]]
<1>1. \A e \in S : /\ g1[e] = Gain(e, StartsWith(1)) /\ g2[e] = Gain(e, StartsWith(2))
                   /\ g7[e] = Gain(e, StartsWith(7)) /\ gc[e] = Gain(e, {SKA.cogs})
                   /\ g6[e] = Gain(e, StartsWith(6))
  OBVIOUS
<1>2. \A e \in S : /\ s2[e] = g1[e] + g2[e] /\ s3[e] = s2[e] + g7[e]
                   /\ s4[e] = s3[e] + gc[e] /\ s5[e] = s4[e] + g6[e]
  OBVIOUS
<1> HIDE DEF g1, g2, g7, gc, g6, s2, s3, s4, s5
<1>3. \A e \in S : g1[e] \in Int /\ g2[e] \in Int /\ g7[e] \in Int /\ gc[e] \in Int /\ g6[e] \in Int
  BY <1>1, GainIsInt
<1>4. \A e \in S : s2[e] \in Int /\ s3[e] \in Int /\ s4[e] \in Int
  BY <1>2, <1>3
<1>5. \A e \in S : s5[e] = 0
  BY <1>1, <1>2, EntryBalances
<1>6. SumOf(s5, S) = 0
  BY <1>5, SumOfZeros
<1>7. SumOf(s2, S) = SumOf(g1, S) + SumOf(g2, S)
  BY <1>2, <1>3, SumAdds
<1>8. SumOf(s3, S) = SumOf(s2, S) + SumOf(g7, S)
  BY <1>2, <1>3, <1>4, SumAdds
<1>9. SumOf(s4, S) = SumOf(s3, S) + SumOf(gc, S)
  BY <1>2, <1>3, <1>4, SumAdds
<1>10. SumOf(s5, S) = SumOf(s4, S) + SumOf(g6, S)
  BY <1>2, <1>3, <1>4, SumAdds
<1>11. Net(S, StartsWith(1)) = SumOf(g1, S)
  BY <1>1, NetIs
<1>12. Net(S, StartsWith(2)) = SumOf(g2, S)
  BY <1>1, NetIs
<1>13. Net(S, StartsWith(7)) = SumOf(g7, S)
  BY <1>1, NetIs
<1>14. Net(S, {SKA.cogs}) = SumOf(gc, S)
  BY <1>1, NetIs
<1>15. Net(S, StartsWith(6)) = SumOf(g6, S)
  BY <1>1, NetIs
<1>16. \A k : Net(S, k) \in Int
  BY NetIsInt
<1> QED
  BY <1>6, <1>7, <1>8, <1>9, <1>10, <1>11, <1>12, <1>13, <1>14, <1>15, <1>16

-----------------------------------------------------------------------------
(* The quarters.  An entry up to the end of a quarter is one of the         *)
(* quarter, or one up to the end of the quarter before it, or one that the  *)
(* last day of that quarter brought since the service started.              *)
UpToEnd(quarter) == {e \in mem : NotAfter(Date(e), QuarterRange(quarter).end)}

During(quarter) == {e \in mem : /\ NotAfter(QuarterRange(quarter).start, Date(e))
                                /\ NotAfter(Date(e), QuarterRange(quarter).end)}

\* The entries with the time of the last day of this quarter.
Edge(quarter) == {e \in mem : e.id > loaded /\ Day(e) = <<3 * quarter, LastDay(3 * quarter)>>}

Worth(S) == Net(S, StartsWith(1)) + Net(S, StartsWith(2))

LEMMA DayIsDate ==
  ASSUME Inv, NEW e \in mem
  PROVE  Day(e) \in (1 .. 12) \X (1 .. 31) /\ Day(e)[2] <= LastDay(Day(e)[1])
<1>1. e.doc \in Doc
  BY DEF Inv, TypeOK, Entry
<1> DEFINE what == CASE e.kind = "STORNO" -> "revert"
                     [] e.part = "payment" -> "pay" [] OTHER -> "post"
           Real == {d \in (1 .. 12) \X (1 .. 31) : d[2] <= LastDay(d[1])}
<1>2. what \in {"post", "pay", "revert"}
  OBVIOUS
<1>3. Day(e) = DateOf[e.doc][what]
  BY DEF Day
<1> HIDE DEF what
<1>4. DateOf[e.doc] \in [{"post", "pay", "revert"} -> Real]
  BY <1>1, ReportsAssumption
<1> HIDE DEF Real
<1>5. Day(e) \in Real
  BY <1>2, <1>3, <1>4
<1> QED
  BY <1>5 DEF Real

LEMMA QuarterHasDays ==
  ASSUME Inv, NEW e \in mem, NEW quarter \in 1 .. 4
  PROVE  /\ Day(e)[1] \in 1 .. 12
         /\ e \in UpToEnd(quarter) <=> Day(e)[1] <= 3 * quarter /\ e \notin Edge(quarter)
         /\ e \in During(quarter) <=> e \in UpToEnd(quarter) /\ Day(e)[1] >= 3 * quarter - 2
         /\ e \in Edge(quarter) => Day(e)[1] = 3 * quarter
<1> DEFINE d == Day(e)
           t == Date(e)
           range == QuarterRange(quarter)
           late == e.id > loaded
<1>1. d \in (1 .. 12) \X (1 .. 31) /\ d[2] <= LastDay(d[1])
  BY DayIsDate
<1>2. t[1] = d[1] /\ t[2] = d[2] /\ t[3] = IF late THEN 1 ELSE 0
  BY DEF Date
<1>3. /\ range.end[1] = 3 * quarter /\ range.end[2] = LastDay(3 * quarter) /\ range.end[3] = 0
      /\ range.start[1] = 3 * quarter - 2 /\ range.start[2] = 1 /\ range.start[3] = 0
  BY DEF QuarterRange
<1>4. LastDay(3 * quarter) \in Nat /\ 3 * quarter \in Nat
  BY DEF LastDay
<1>5. e \in Edge(quarter) <=> late /\ d[1] = 3 * quarter /\ d[2] = LastDay(3 * quarter)
  <2>1. d = <<d[1], d[2]>>
    BY <1>1
  <2>2. d = <<3 * quarter, LastDay(3 * quarter)>> <=> d[1] = 3 * quarter /\ d[2] = LastDay(3 * quarter)
    BY <2>1
  <2> QED
    BY <2>2 DEF Edge
<1>6. /\ e \in UpToEnd(quarter) <=> NotAfter(t, range.end)
      /\ e \in During(quarter) <=> NotAfter(range.start, t) /\ NotAfter(t, range.end)
  BY DEF UpToEnd, During
<1> HIDE DEF d, t, range, late
<1>7. d[1] \in 1 .. 12 /\ d[2] \in Nat /\ d[2] >= 1
  BY <1>1
<1>8. d[1] = 3 * quarter => d[2] <= LastDay(3 * quarter)
  BY <1>1
<1>9. NotAfter(t, range.end) <=>
        d[1] <= 3 * quarter /\ ~(late /\ d[1] = 3 * quarter /\ d[2] = LastDay(3 * quarter))
  BY <1>2, <1>3, <1>4, <1>7, <1>8 DEF NotAfter
<1>10. NotAfter(range.start, t) <=> d[1] >= 3 * quarter - 2
  BY <1>2, <1>3, <1>4, <1>7 DEF NotAfter
<1> QED
  BY <1>5, <1>6, <1>7, <1>9, <1>10 DEF d

LEMMA QuartersFollow ==
  ASSUME Inv, NEW quarter \in 1 .. 4
  PROVE  /\ During(quarter) \in SUBSET UpToEnd(quarter)
         /\ quarter = 1 => UpToEnd(quarter) \ During(quarter) = {}
         /\ quarter # 1 =>
              /\ UpToEnd(quarter - 1) \in SUBSET (UpToEnd(quarter) \ During(quarter))
              /\ (UpToEnd(quarter) \ During(quarter)) \ UpToEnd(quarter - 1) = Edge(quarter - 1)
<1>1. ASSUME NEW e \in mem
      PROVE  /\ e \in During(quarter) => e \in UpToEnd(quarter)
             /\ quarter = 1 => ~(e \in UpToEnd(quarter) /\ e \notin During(quarter))
             /\ quarter # 1 =>
                  /\ e \in UpToEnd(quarter - 1) => e \in UpToEnd(quarter) /\ e \notin During(quarter)
                  /\ e \in Edge(quarter - 1) <=> /\ e \in UpToEnd(quarter)
                                                /\ e \notin During(quarter)
                                                /\ e \notin UpToEnd(quarter - 1)
  <2> DEFINE m == Day(e)[1]
  <2>1. /\ m \in 1 .. 12
        /\ e \in UpToEnd(quarter) <=> m <= 3 * quarter /\ e \notin Edge(quarter)
        /\ e \in During(quarter) <=> e \in UpToEnd(quarter) /\ m >= 3 * quarter - 2
        /\ e \in Edge(quarter) => m = 3 * quarter
    BY QuarterHasDays
  <2>2. ASSUME quarter # 1
        PROVE  /\ e \in UpToEnd(quarter - 1) <=> m <= 3 * (quarter - 1) /\ e \notin Edge(quarter - 1)
               /\ e \in Edge(quarter - 1) => m = 3 * (quarter - 1)
    <3>1. quarter - 1 \in 1 .. 4
      BY <2>2
    <3> QED
      BY <3>1, QuarterHasDays
  <2> HIDE DEF m
  <2> QED
    BY <2>1, <2>2
<1>2. \A k : During(k) \subseteq mem /\ UpToEnd(k) \subseteq mem /\ Edge(k) \subseteq mem
  BY DEF During, UpToEnd, Edge
<1>3. During(quarter) \subseteq UpToEnd(quarter)
  BY <1>1, <1>2
<1>4. ASSUME quarter = 1 PROVE UpToEnd(quarter) \ During(quarter) = {}
  BY <1>1, <1>2, <1>4
<1>5. ASSUME quarter # 1 PROVE UpToEnd(quarter - 1) \subseteq UpToEnd(quarter) \ During(quarter)
  BY <1>1, <1>2, <1>5
<1>6. ASSUME quarter # 1
      PROVE  (UpToEnd(quarter) \ During(quarter)) \ UpToEnd(quarter - 1) = Edge(quarter - 1)
  BY <1>1, <1>2, <1>6
<1> QED
  BY <1>3, <1>4, <1>5, <1>6

LEMMA NetOfNothing == \A a : Net({}, a) = 0
<1> SUFFICES ASSUME NEW a PROVE Net({}, a) = 0
  OBVIOUS
<1> DEFINE g == [e \in {} |-> Gain(e, a)]
<1>1. \A e \in {} : g[e] = Gain(e, a)
  OBVIOUS
<1> HIDE DEF g
<1>2. Net({}, a) = SumOf(g, {})
  BY <1>1, NetIs
<1> QED
  BY <1>2, SumOfNone

LEMMA WorthIs ==
  ASSUME FiniteInv, NEW quarter \in 1 .. 4
  PROVE  /\ Worth(During(quarter)) \in Int /\ Worth(UpToEnd(quarter)) \in Int
         /\ Worth(Edge(quarter)) \in Int
         /\ Worth(UpToEnd(quarter)) =
              Worth(During(quarter)) + IF quarter = 1 THEN 0
                                       ELSE Worth(UpToEnd(quarter - 1)) + Worth(Edge(quarter - 1))
<1>1. Inv /\ IsFiniteSet(mem)
  BY DEF FiniteInv, Finite
<1>2. \A k : /\ UpToEnd(k) \in SUBSET mem /\ IsFiniteSet(UpToEnd(k))
             /\ During(k) \in SUBSET mem /\ IsFiniteSet(During(k))
             /\ Edge(k) \in SUBSET mem /\ IsFiniteSet(Edge(k))
  <2>1. \A k : UpToEnd(k) \in SUBSET mem /\ During(k) \in SUBSET mem /\ Edge(k) \in SUBSET mem
    BY DEF UpToEnd, During, Edge
  <2> QED
    BY <1>1, <2>1, FS_Subset
<1>3. \A k, a : Net(UpToEnd(k), a) \in Int /\ Net(During(k), a) \in Int /\ Net(Edge(k), a) \in Int
  BY <1>1, <1>2, NetIsInt
<1> DEFINE rest == UpToEnd(quarter) \ During(quarter)
<1>4. During(quarter) \in SUBSET UpToEnd(quarter)
  BY <1>1, QuartersFollow
<1>5. \A a : Net(UpToEnd(quarter), a) = Net(During(quarter), a) + Net(rest, a)
  BY <1>1, <1>2, <1>4, NetSplits
<1>6. CASE quarter = 1
  <2>1. rest = {}
    BY <1>1, <1>6, QuartersFollow
  <2>2. \A a : Net(UpToEnd(quarter), a) = Net(During(quarter), a) + 0
    BY <1>5, <2>1, NetOfNothing
  <2> QED
    BY <1>3, <1>6, <2>2 DEF Worth
<1>7. CASE quarter # 1
  <2>1. UpToEnd(quarter - 1) \in SUBSET rest /\ rest \ UpToEnd(quarter - 1) = Edge(quarter - 1)
    BY <1>1, <1>7, QuartersFollow
  <2>2. rest \in SUBSET mem /\ IsFiniteSet(rest)
    BY <1>2, FS_Subset
  <2> HIDE DEF rest
  <2>3. \A a : Net(rest, a) = Net(UpToEnd(quarter - 1), a) + Net(rest \ UpToEnd(quarter - 1), a)
    BY <1>1, <2>1, <2>2, NetSplits
  <2>4. \A a : Net(UpToEnd(quarter), a) =
                 Net(During(quarter), a) + (Net(UpToEnd(quarter - 1), a) + Net(Edge(quarter - 1), a))
    BY <1>5, <2>1, <2>3
  <2> QED
    BY <1>3, <1>7, <2>4 DEF Worth
<1> QED
  BY <1>6, <1>7

(* What falls between the quarters so far falls between them up to the last *)
(* one, or on its last day.                                                 *)
LEMMA BetweenIs ==
  ASSUME FiniteInv, NEW quarter \in 1 .. 4
  PROVE  /\ Between(quarter) \in SUBSET mem /\ IsFiniteSet(Between(quarter))
         /\ Worth(Between(quarter)) \in Int
         /\ Worth(Between(quarter)) =
              IF quarter = 1 THEN 0 ELSE Worth(Between(quarter - 1)) + Worth(Edge(quarter - 1))
<1>1. Inv /\ IsFiniteSet(mem)
  BY DEF FiniteInv, Finite
<1>2. \A k : Between(k) \in SUBSET mem /\ IsFiniteSet(Between(k))
  <2>1. \A k : Between(k) \in SUBSET mem
    BY DEF Between
  <2> QED
    BY <1>1, <2>1, FS_Subset
<1>3. \A k, a : Net(Between(k), a) \in Int
  BY <1>1, <1>2, NetIsInt
<1>4. CASE quarter = 1
  <2>1. Between(quarter) = {}
    BY <1>4 DEF Between
  <2> QED
    BY <1>2, <1>3, <1>4, <2>1, NetOfNothing DEF Worth
<1>5. CASE quarter # 1
  <2> DEFINE b == quarter - 1
  <2>1. b \in 1 .. 3 /\ quarter = b + 1
    BY <1>5
  <2>2. Edge(b) = Between(quarter) \ Between(b) /\ Between(b) \in SUBSET Between(quarter)
    <3>1. ASSUME NEW e \in mem
          PROVE  /\ e \in Between(b) => e \in Between(quarter)
                 /\ e \in Edge(b) <=> e \in Between(quarter) /\ e \notin Between(b)
      <4> DEFINE late == e.id > loaded
                 d == Day(e)
      <4>1. /\ e \in Between(b) <=> late /\ \E k \in 1 .. b - 1 : d = <<3 * k, LastDay(3 * k)>>
            /\ e \in Between(quarter) <=> late /\ \E k \in 1 .. quarter - 1 : d = <<3 * k, LastDay(3 * k)>>
            /\ e \in Edge(b) <=> late /\ d = <<3 * b, LastDay(3 * b)>>
        BY DEF Between, Edge
      <4> HIDE DEF late, d, b
      <4>2. 1 .. quarter - 1 = (1 .. b - 1) \cup {b}
        BY <2>1
      <4>3. \A k \in 1 .. b - 1 : <<3 * k, LastDay(3 * k)>> # <<3 * b, LastDay(3 * b)>>
        <5> SUFFICES ASSUME NEW k \in 1 .. b - 1, <<3 * k, LastDay(3 * k)>> = <<3 * b, LastDay(3 * b)>>
                     PROVE  FALSE
          OBVIOUS
        <5>1. 3 * k = 3 * b /\ k \in Int /\ b \in Int /\ k < b
          BY <2>1
        <5> QED
          BY <5>1
      <4> QED
        BY <4>1, <4>2, <4>3
    <3>2. \A k : Edge(k) \subseteq mem /\ Between(k) \subseteq mem
      BY DEF Edge, Between
    <3> HIDE DEF b
    <3> QED
      BY <3>1, <3>2
  <2>3. \A a : Net(Between(quarter), a) = Net(Between(b), a) + Net(Edge(b), a)
    <3> HIDE DEF b
    <3> QED
      BY <1>1, <1>2, <2>2, NetSplits
  <2>4. \A a : Net(Edge(b), a) \in Int
    <3>1. Edge(b) \in SUBSET mem
      BY DEF Edge
    <3> HIDE DEF b
    <3>2. IsFiniteSet(Edge(b))
      BY <1>1, <3>1, FS_Subset
    <3> QED
      BY <1>1, <3>1, <3>2, NetIsInt
  <2> QED
    BY <1>2, <1>3, <1>5, <2>3, <2>4 DEF Worth
<1> QED
  BY <1>4, <1>5

LEMMA ProfitOf ==
  ASSUME Inv, NEW S \in SUBSET mem, IsFiniteSet(S)
  PROVE  NetProfit(S) = Worth(S)
<1>1. \A k : Net(S, k) \in Int
  BY NetIsInt
<1>2. NetProfit(S) = (-Net(S, StartsWith(7)) - Net(S, {SKA.cogs})) - Net(S, StartsWith(6))
  BY DEF NetProfit
<1> QED
  BY <1>1, <1>2, BooksBalance DEF Worth

LEMMA ProfitIsWorth ==
  ASSUME FiniteInv, NEW quarter \in 1 .. 4
  PROVE  GenerateProfitLoss(quarter).netProfit = Worth(During(quarter))
<1>1. Inv /\ During(quarter) \in SUBSET mem /\ IsFiniteSet(During(quarter))
  <2>1. IsFiniteSet(mem) /\ During(quarter) \subseteq mem
    BY DEF FiniteInv, Finite, During
  <2> QED
    BY <2>1, FS_Subset DEF FiniteInv
<1>2. GenerateProfitLoss(quarter).netProfit = NetProfit(During(quarter))
  BY DEF GenerateProfitLoss, During
<1> QED
  BY <1>1, <1>2, ProfitOf

LEMMA EquityIsWorth ==
  ASSUME FiniteInv, NEW quarter \in 1 .. 4, GenerateBalanceSheet(quarter).exact
  PROVE  GenerateBalanceSheet(quarter).equity = Worth(UpToEnd(quarter))
<1> DEFINE n1 == Net(UpToEnd(quarter), StartsWith(1))
           n2 == Net(UpToEnd(quarter), StartsWith(2))
<1>1. /\ GenerateBalanceSheet(quarter).exact = (n1 >= 0 /\ -n2 >= 0)
      /\ GenerateBalanceSheet(quarter).equity = AtLeast0(n1) - AtLeast0(-n2)
  BY DEF GenerateBalanceSheet, UpToEnd
<1>2. Inv /\ UpToEnd(quarter) \in SUBSET mem /\ IsFiniteSet(UpToEnd(quarter))
  <2>1. IsFiniteSet(mem) /\ UpToEnd(quarter) \subseteq mem
    BY DEF FiniteInv, Finite, UpToEnd
  <2> QED
    BY <2>1, FS_Subset DEF FiniteInv
<1>3. n1 \in Int /\ n2 \in Int
  BY <1>2, NetIsInt
<1>4. Worth(UpToEnd(quarter)) = n1 + n2
  BY DEF Worth
<1> HIDE DEF n1, n2
<1>5. n1 >= 0 /\ -n2 >= 0
  BY <1>1
<1>6. AtLeast0(n1) = n1 /\ AtLeast0(-n2) = -n2
  BY <1>3, <1>5 DEF AtLeast0
<1> QED
  BY <1>1, <1>3, <1>4, <1>6

LEMMA EquityIsProfit ==
  ASSUME FiniteInv, NEW p, \A k \in 1 .. 4 : p[k] = Worth(During(k)), NEW quarter \in 1 .. 4
  PROVE  Worth(UpToEnd(quarter)) = SumOf(p, 1 .. quarter) + Worth(Between(quarter))
<1>1. ASSUME NEW k \in 1 .. 4 PROVE SumOf(p, 1 .. k) = p[k] + SumOf(p, 1 .. k - 1)
  <2>1. IsFiniteSet(1 .. k)
    BY FS_Interval
  <2>2. \A j \in 1 .. k : p[j] \in Int
    <3>1. \A j \in 1 .. 4 : Worth(During(j)) \in Int
      BY WorthIs
    <3> QED
      BY <3>1
  <2>3. k \in 1 .. k /\ (1 .. k) \ {k} = 1 .. k - 1
    OBVIOUS
  <2>4. SumOf(p, 1 .. k) = p[k] + SumOf(p, (1 .. k) \ {k})
    BY <2>1, <2>2, <2>3, SumRemove
  <2> QED
    BY <2>3, <2>4
<1>2. SumOf(p, 1 .. 0) = 0
  <2>1. 1 .. 0 = {}
    OBVIOUS
  <2> QED
    BY <2>1, SumOfNone
<1> DEFINE s(k) == SumOf(p, 1 .. k)
           w(k) == Worth(UpToEnd(k))
           b(k) == Worth(Between(k))
           g(k) == Worth(Edge(k))
<1>3. s(0) = 0 /\ \A k \in 1 .. 4 : s(k) = p[k] + s(k - 1)
  BY <1>1, <1>2
<1>4. \A k \in 1 .. 4 : /\ p[k] \in Int /\ w(k) \in Int /\ g(k) \in Int
                        /\ w(k) = p[k] + IF k = 1 THEN 0 ELSE w(k - 1) + g(k - 1)
  BY WorthIs
<1>5. \A k \in 1 .. 4 : b(k) \in Int /\ b(k) = IF k = 1 THEN 0 ELSE b(k - 1) + g(k - 1)
  BY BetweenIs
<1> HIDE DEF s, w, b, g
<1>6. s(1) = p[1] /\ w(1) = p[1] /\ b(1) = 0 /\ s(1) \in Int
  BY <1>3, <1>4, <1>5
<1>7. w(2) = s(2) + b(2) /\ s(2) \in Int
  <2>1. s(2) = p[2] + s(1) /\ w(2) = p[2] + (w(1) + g(1)) /\ b(2) = b(1) + g(1)
    BY <1>3, <1>4, <1>5
  <2> QED
    BY <1>4, <1>6, <2>1
<1>8. w(3) = s(3) + b(3) /\ s(3) \in Int
  <2>1. s(3) = p[3] + s(2) /\ w(3) = p[3] + (w(2) + g(2)) /\ b(3) = b(2) + g(2)
    BY <1>3, <1>4, <1>5
  <2> QED
    BY <1>4, <1>5, <1>7, <2>1
<1>9. w(4) = s(4) + b(4)
  <2>1. s(4) = p[4] + s(3) /\ w(4) = p[4] + (w(3) + g(3)) /\ b(4) = b(3) + g(3)
    BY <1>3, <1>4, <1>5
  <2> QED
    BY <1>4, <1>5, <1>8, <2>1
<1>10. w(quarter) = s(quarter) + b(quarter)
  BY <1>6, <1>7, <1>8, <1>9
<1> QED
  BY <1>10 DEF s, w, b

-----------------------------------------------------------------------------
(* The trial balance.  It has a row for every account that is used, and     *)
(* every entry is in one row with its debit and in one with its credit.     *)
Used == {DebitAccount(e) : e \in mem} \cup {CreditAccount(e) : e \in mem}

Debited(a) == {e \in mem : DebitAccount(e) = a}
Credited(a) == {e \in mem : CreditAccount(e) = a}

Row(a) == [account |-> a, totalDebit |-> Total(Debited(a)), totalCredit |-> Total(Credited(a)),
           balance |-> Net(mem, {a})]

LEMMA RowsAre == GetTrialBalance = {Row(a) : a \in Used}
  BY DEF GetTrialBalance, Row, Used, Debited, Credited

LEMMA DebitsOfRows ==
  ASSUME NEW S, NEW g, \A row \in S : g[row] = row.totalDebit
  PROVE  MapThenSumSet(LAMBDA row : row.totalDebit, S) = SumOf(g, S)
<1> DEFINE B(h) == [s \in SUBSET S |->
                     IF s = {} THEN 0
                     ELSE (CHOOSE x \in s : TRUE).totalDebit + h[s \ {CHOOSE x \in s : TRUE}]]
<1>1. MapThenSumSet(LAMBDA row : row.totalDebit, S) = (CHOOSE h : h = B(h))[S]
  BY DEF MapThenSumSet, MapThenFoldSet
<1>2. \A h : B(h) = Body(g, S, h)
  BY PickIsIn DEF Body, Pick
<1> HIDE DEF B
<1>3. \A h : h = B(h) <=> h = Body(g, S, h)
  BY <1>2
<1>4. (CHOOSE h : h = B(h)) = Iter(g, S)
  BY <1>3, Zenon DEF Iter
<1> QED
  BY <1>1, <1>4, SumIsIter

LEMMA BalanceOfRows ==
  ASSUME NEW S, NEW g, \A row \in S : g[row] = row.balance
  PROVE  MapThenSumSet(LAMBDA row : row.balance, S) = SumOf(g, S)
<1> DEFINE B(h) == [s \in SUBSET S |->
                     IF s = {} THEN 0
                     ELSE (CHOOSE x \in s : TRUE).balance + h[s \ {CHOOSE x \in s : TRUE}]]
<1>1. MapThenSumSet(LAMBDA row : row.balance, S) = (CHOOSE h : h = B(h))[S]
  BY DEF MapThenSumSet, MapThenFoldSet
<1>2. \A h : B(h) = Body(g, S, h)
  BY PickIsIn DEF Body, Pick
<1> HIDE DEF B
<1>3. \A h : h = B(h) <=> h = Body(g, S, h)
  BY <1>2
<1>4. (CHOOSE h : h = B(h)) = Iter(g, S)
  BY <1>3, Zenon DEF Iter
<1> QED
  BY <1>1, <1>4, SumIsIter

LEMMA UsedIsFinite ==
  ASSUME FiniteInv
  PROVE  IsFiniteSet(Used)
<1> DEFINE d == [e \in mem |-> DebitAccount(e)]
           c == [e \in mem |-> CreditAccount(e)]
           D == {DebitAccount(e) : e \in mem}
           C == {CreditAccount(e) : e \in mem}
<1>1. d \in Surjection(mem, D) /\ c \in Surjection(mem, C)
  BY DEF Surjection
<1>2. IsFiniteSet(mem) /\ Used = D \cup C
  BY DEF FiniteInv, Finite, Used
<1> HIDE DEF d, c, D, C
<1>3. IsFiniteSet(D)
  BY <1>1, <1>2, FS_Surjection
<1>4. IsFiniteSet(C)
  BY <1>1, <1>2, FS_Surjection
<1> QED
  BY <1>2, <1>3, <1>4, FS_Union

(* What a row shows is the sum of the amounts debited less that of the      *)
(* amounts credited.                                                        *)
LEMMA BalanceOfRow ==
  ASSUME FiniteInv, NEW a,
         NEW g, \A e \in mem : g[e] = Amount[e.doc],
         NEW k, \A e \in mem : k[e] = -Amount[e.doc]
  PROVE  /\ SumOf(g, Debited(a)) \in Int /\ SumOf(k, Credited(a)) \in Int
         /\ Net(mem, {a}) = SumOf(g, Debited(a)) + SumOf(k, Credited(a))
<1> DEFINE both == [e \in mem |-> Gain(e, {a})]
           p == [e \in mem |-> IF DebitAccount(e) = a THEN Amount[e.doc] ELSE 0]
           n == [e \in mem |-> IF CreditAccount(e) = a THEN -Amount[e.doc] ELSE 0]
<1>1. Inv /\ IsFiniteSet(mem) /\ \A e \in mem : Amount[e.doc] \in Nat
  BY GainIsInt DEF FiniteInv, Finite
<1>2. \A e \in mem : g[e] \in Int /\ k[e] \in Int
  BY <1>1
<1>3. Debited(a) \in SUBSET mem /\ Credited(a) \in SUBSET mem
  BY DEF Debited, Credited
<1>4. IsFiniteSet(Debited(a)) /\ IsFiniteSet(Credited(a))
  BY <1>1, <1>3, FS_Subset
<1>5. \A e \in mem : both[e] = Gain(e, {a}) /\ p[e] \in Int /\ n[e] \in Int /\ both[e] = p[e] + n[e]
  BY <1>1 DEF Gain
<1>6. /\ \A e \in Debited(a) : p[e] = g[e]
      /\ \A e \in mem \ Debited(a) : p[e] = 0
      /\ \A e \in Credited(a) : n[e] = k[e]
      /\ \A e \in mem \ Credited(a) : n[e] = 0
  BY DEF Debited, Credited
<1> HIDE DEF both, p, n
<1>7. Net(mem, {a}) = SumOf(both, mem)
  BY <1>5, NetIs
<1>8. SumOf(both, mem) = SumOf(p, mem) + SumOf(n, mem)
  BY <1>1, <1>5, SumAdds
<1>9. SumOf(p, mem) = SumOf(g, Debited(a))
  BY <1>1, <1>2, <1>3, <1>6, SumOfPart
<1>10. SumOf(n, mem) = SumOf(k, Credited(a))
  BY <1>1, <1>2, <1>3, <1>6, SumOfPart
<1>11. SumOf(g, Debited(a)) \in Int
  BY <1>2, <1>3, <1>4, SumIsInt
<1>12. SumOf(k, Credited(a)) \in Int
  BY <1>2, <1>3, <1>4, SumIsInt
<1> QED
  BY <1>7, <1>8, <1>9, <1>10, <1>11, <1>12

LEMMA TrialBalanceAgrees ==
  ASSUME FiniteInv
  PROVE  /\ MapThenSumSet(LAMBDA row : row.totalDebit, GetTrialBalance) = GetSummary.totalDebits
         /\ MapThenSumSet(LAMBDA row : row.balance, GetTrialBalance) = 0
<1> DEFINE rows == GetTrialBalance
           f == [a \in Used |-> Row(a)]
           g == [e \in mem |-> Amount[e.doc]]
           k == [e \in mem |-> -Amount[e.doc]]
           D == [e \in mem |-> DebitAccount(e)]
           C == [e \in mem |-> CreditAccount(e)]
           debit == [row \in rows |-> row.totalDebit]
           balance == [row \in rows |-> row.balance]
           P == [a \in Used |-> Debited(a)]
           Q == [a \in Used |-> Credited(a)]
           debits == [a \in Used |-> SumOf(g, Debited(a))]
           credits == [a \in Used |-> SumOf(k, Credited(a))]
           net == [a \in Used |-> Net(mem, {a})]
<1>1. /\ Inv /\ IsFiniteSet(mem) /\ IsFiniteSet(Used)
      /\ \A e \in mem : Amount[e.doc] \in Nat
  BY GainIsInt, UsedIsFinite DEF FiniteInv, Finite
<1>2. /\ \A e \in mem : g[e] = Amount[e.doc] /\ k[e] = -Amount[e.doc]
      /\ \A e \in mem : D[e] \in Used /\ C[e] \in Used
      /\ \A a \in Used : P[a] = Debited(a) /\ Q[a] = Credited(a)
      /\ \A a \in Used : \A e : /\ e \in P[a] <=> e \in mem /\ D[e] = a
                                /\ e \in Q[a] <=> e \in mem /\ C[e] = a
  BY DEF Used, Debited, Credited
<1>3. /\ \A row \in rows : debit[row] = row.totalDebit /\ balance[row] = row.balance
      /\ rows = {f[a] : a \in Used}
      /\ \A a, b \in Used : f[a] = f[b] => a = b
  BY RowsAre DEF Row
<1>4. \A a \in Used : /\ f[a] \in rows /\ f[a].totalDebit = Total(Debited(a))
                      /\ f[a].balance = Net(mem, {a})
                      /\ debits[a] = SumOf(g, Debited(a)) /\ credits[a] = SumOf(k, Credited(a))
                      /\ net[a] = Net(mem, {a})
  BY RowsAre DEF Row
<1> HIDE DEF rows, f, g, k, D, C, P, Q, debit, balance, debits, credits, net
<1>5. \A e \in mem : g[e] \in Int /\ k[e] \in Int
  BY <1>1, <1>2
<1>6. \A a \in Used : /\ debits[a] \in Int /\ credits[a] \in Int
                      /\ net[a] = debits[a] + credits[a]
  <2>1. ASSUME NEW a \in Used
        PROVE  /\ SumOf(g, Debited(a)) \in Int /\ SumOf(k, Credited(a)) \in Int
               /\ Net(mem, {a}) = SumOf(g, Debited(a)) + SumOf(k, Credited(a))
    <3>1. \A e \in mem : g[e] = Amount[e.doc]
      BY <1>2
    <3>2. \A e \in mem : k[e] = -Amount[e.doc]
      BY <1>2
    <3> QED
      BY <3>1, <3>2, BalanceOfRow
  <2> QED
    BY <1>4, <2>1
<1>7. \A a \in Used : debits[a] = debit[f[a]]
  <2> SUFFICES ASSUME NEW a \in Used PROVE debits[a] = debit[f[a]]
    OBVIOUS
  <2>1. \A e \in Debited(a) : g[e] = Amount[e.doc]
    BY <1>2 DEF Debited
  <2>2. Total(Debited(a)) = SumOf(g, Debited(a))
    BY <2>1, TotalIs
  <2> QED
    BY <1>3, <1>4, <2>2
<1>8. \A a \in Used : net[a] = balance[f[a]]
  BY <1>3, <1>4
<1>9. SumOf(debit, rows) = SumOf(debits, Used)
  BY <1>1, <1>3, <1>6, <1>7, SumOfImage
<1>10. SumOf(balance, rows) = SumOf(net, Used)
  <2>1. \A a \in Used : net[a] \in Int
    BY <1>6
  <2> QED
    BY <1>1, <1>3, <1>8, <2>1, SumOfImage
<1>11. SumOf(debits, Used) = SumOf(g, mem)
  <2>1. \A a \in Used : debits[a] = SumOf(g, P[a])
    BY <1>2, <1>4
  <2>2. \A a \in Used : \A e : e \in P[a] <=> e \in mem /\ D[e] = a
    BY <1>2
  <2>3. \A e \in mem : D[e] \in Used
    BY <1>2
  <2>4. \A e \in mem : g[e] \in Int
    BY <1>5
  <2>5. IsFiniteSet(mem) /\ IsFiniteSet(Used)
    BY <1>1
  <2> QED
    BY <2>1, <2>2, <2>3, <2>4, <2>5, SumOfGroups
<1>12. SumOf(credits, Used) = SumOf(k, mem)
  <2>1. \A a \in Used : credits[a] = SumOf(k, Q[a])
    BY <1>2, <1>4
  <2>2. \A a \in Used : \A e : e \in Q[a] <=> e \in mem /\ C[e] = a
    BY <1>2
  <2>3. \A e \in mem : C[e] \in Used
    BY <1>2
  <2>4. \A e \in mem : k[e] \in Int
    BY <1>5
  <2>5. IsFiniteSet(mem) /\ IsFiniteSet(Used)
    BY <1>1
  <2> QED
    BY <2>1, <2>2, <2>3, <2>4, <2>5, SumOfGroups
<1>13. SumOf(net, Used) = SumOf(debits, Used) + SumOf(credits, Used)
  BY <1>1, <1>6, SumAdds
<1>14. SumOf(g, mem) + SumOf(k, mem) = 0
  <2> DEFINE z == [e \in mem |-> 0]
  <2>1. \A e \in mem : z[e] = 0 /\ z[e] = g[e] + k[e]
    BY <1>1, <1>2
  <2> HIDE DEF z
  <2>2. SumOf(z, mem) = SumOf(g, mem) + SumOf(k, mem)
    BY <1>1, <1>5, <2>1, SumAdds
  <2>3. SumOf(z, mem) = 0
    BY <1>1, <2>1, SumOfZeros
  <2> QED
    BY <2>2, <2>3
<1>15. Total(mem) = SumOf(g, mem) /\ GetSummary.totalDebits = Total(mem)
  <2>1. Total(mem) = SumOf(g, mem)
    BY <1>2, TotalIs
  <2> QED
    BY <2>1 DEF GetSummary
<1>16. MapThenSumSet(LAMBDA row : row.totalDebit, rows) = SumOf(debit, rows)
  BY <1>3, DebitsOfRows
<1>17. MapThenSumSet(LAMBDA row : row.balance, rows) = SumOf(balance, rows)
  BY <1>3, BalanceOfRows
<1>18. MapThenSumSet(LAMBDA row : row.totalDebit, rows) = GetSummary.totalDebits
  BY <1>9, <1>11, <1>15, <1>16
<1>19. MapThenSumSet(LAMBDA row : row.balance, rows) = 0
  BY <1>10, <1>11, <1>12, <1>13, <1>14, <1>17
<1> QED
  BY <1>18, <1>19 DEF rows

LEMMA BooksAgree == FiniteInv => ReportsAgree
<1> SUFFICES ASSUME FiniteInv PROVE ReportsAgree
  OBVIOUS
<1> DEFINE profit == <<GenerateProfitLoss(1).netProfit, GenerateProfitLoss(2).netProfit,
                       GenerateProfitLoss(3).netProfit, GenerateProfitLoss(4).netProfit>>
<1>1. \A k \in 1 .. 4 : profit[k] = Worth(During(k))
  <2>1. \A k \in 1 .. 4 : profit[k] = GenerateProfitLoss(k).netProfit
    OBVIOUS
  <2> HIDE DEF profit
  <2> QED
    BY <2>1, ProfitIsWorth
<1>2. ASSUME NEW q \in 1 .. 4, GenerateBalanceSheet(q).exact
      PROVE  GenerateBalanceSheet(q).equity =
               MapThenSumSet(LAMBDA k : profit[k], 1 .. q) + NetProfit(Between(q))
  <2> HIDE DEF profit
  <2>1. Worth(UpToEnd(q)) = SumOf(profit, 1 .. q) + Worth(Between(q))
    BY <1>1, EquityIsProfit
  <2>2. GenerateBalanceSheet(q).equity = Worth(UpToEnd(q))
    BY <1>2, EquityIsWorth
  <2>3. SumOf(profit, 1 .. q) = MapThenSumSet(LAMBDA k : profit[k], 1 .. q)
    BY DEF SumOf
  <2>4. NetProfit(Between(q)) = Worth(Between(q))
    BY BetweenIs, ProfitOf DEF FiniteInv
  <2> QED
    BY <2>1, <2>2, <2>3, <2>4
<1>3. /\ MapThenSumSet(LAMBDA row : row.totalDebit, GetTrialBalance) = GetSummary.totalDebits
      /\ MapThenSumSet(LAMBDA row : row.balance, GetTrialBalance) = 0
  BY TrialBalanceAgrees
<1> QED
  BY <1>2, <1>3, Zenon DEF ReportsAgree

(* The trial balance adds up to the summary and to 0, and the equity at the *)
(* end of each quarter is the profit of the quarters so far and of the      *)
(* entries that fall between them, those with the time of a last day, for   *)
(* any documents, amounts and dates, whatever was paid, reversed, repeated  *)
(* or lost, and with the bills of the old codes.                            *)
THEOREM ReportsAlwaysAgree == ReportsSpec => []ReportsAgree
<1>1. ReportsInit => FiniteInv
  <2> SUFFICES ASSUME ReportsInit PROVE FiniteInv
    OBVIOUS
  <2> DEFINE f == [b \in Old |-> [id |-> OldId[b], doc |-> b, part |-> "document",
                                  kind |-> "ORIGINAL", reversedBy |-> 0]]
  <2>1. f \in Surjection(Old, OldEntries)
    BY DEF Surjection, OldEntries
  <2> HIDE DEF f
  <2>2. IsFiniteSet(OldEntries)
    BY <2>1, ReportsAssumption, FS_Surjection
  <2> QED
    BY <2>2, ReportsStart DEF FiniteInv, Finite, AnswerInv, ReportsInit
<1> QED
  BY <1>1, FiniteStep, BooksAgree, ReportsStepIsLedgers, PTL DEF ReportsSpec

(* With the bills of the old codes in its table the consumer keeps all that *)
(* it keeps when it starts empty: one entry of a kind and one answer for a  *)
(* document, a STORNO for what is reversed, and an effect for what is read. *)
THEOREM OldBillsAreSafe ==
  ReportsSpec => [](TypeOK /\ AtMostOnce /\ OneAnswer /\ NoDanglingReversal /\ ReadIsApplied)
<1>1. AnswerInv /\ ReversalInv /\ ReadInv /\ [Next]_vars => (AnswerInv /\ ReversalInv /\ ReadInv)'
  BY AnswerStep, ReversalStep, ReadStep
<1>2. AnswerInv /\ ReversalInv /\ ReadInv =>
        TypeOK /\ AtMostOnce /\ OneAnswer /\ NoDanglingReversal /\ ReadIsApplied
  BY ReadSuffices DEF AnswerInv, ReversalInv, Inv
<1> QED
  BY <1>1, <1>2, ReportsStart, ReportsStepIsLedgers, PTL DEF ReportsSpec

=============================================================================
