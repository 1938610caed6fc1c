-------------------------- MODULE StornoSaga_proofs --------------------------
(***************************************************************************)
(* Proofs about the storno saga, for any bills, callers and faults: the    *)
(* event of posting a bill is published once (PostsOnce), the books have   *)
(* one entry of each kind of a bill (BooksOnce), a bill is only REVERTED   *)
(* if the journal table has its STORNO (RevertedIsBooked), no bill is paid *)
(* and reversed in the books (NeverPaidAndReversed), the saga implements   *)
(* Reversal (SagaImplementsReversal), and when nothing is left to be done  *)
(* the bills and the books agree (SettledBooksAgree) and no bill waits     *)
(* (FirstReversalsEnd).  Those about the status of a bill leave out bills  *)
(* whose object in the map was replaced by one of another status; the two  *)
(* about the books and about REVERTED bills do not.                        *)
(*                                                                         *)
(* CacheInv types the bills and says what the lookups and lists in flight  *)
(* have read of a bill that is not in the map; from it follows what a step *)
(* of operations does to a bill (Quiet, Moves).  PostInv follows a post    *)
(* from its task to its event.  StornoInv follows a STORNO from the table  *)
(* through the handler and its reply to the bill.  SagaInv takes the       *)
(* invariant of Ledger_proofs over, whose environment the outbox is, and   *)
(* says what the status of a bill tells of requests, answers and the       *)
(* journal (Follows).  CalmInv is about a saga in which nothing restarts   *)
(* or fails to write: it joins the invariants of outbox and ledger with    *)
(* what a status tells of events that were stored (Told), so that once all *)
(* of them are sent and read the journal follows.                          *)
(***************************************************************************)
EXTENDS StornoSaga, FiniteSetTheorems, TLAPS

-----------------------------------------------------------------------------
(* The cache of bills.  A task has changed its bill once it is "late".      *)
Late == {t \in tasks : t.at \in {"save", "publish"}}

Kind == B!Command \cup B!SagaReply

BillsTyped ==
    /\ bill \in [Bill -> B!Status \cup {"NONE"}]
    /\ table \in [Bill -> B!Status]
    /\ tasks \subseteq B!Task
    /\ \A t \in tasks :
          /\ t.at = "found" => t.val \in B!Status
          /\ IF t.at = "check" THEN t.type = "billPosted" ELSE t.held = {}
          /\ t.at \in {"save", "publish"} => t.val = B!To(t.type)
          /\ t.at = "publish" => t.type \in B!Command
    /\ \A l \in lists : \A b \in DOMAIN l.rows : b \in Bill /\ l.rows[b] \in B!Status
    /\ crashes \in Nat

\* Before a bill is in the map nothing is done with it, and what was read of it
\* is true.  The posts of a bill hold the object in the map, as long as that was
\* not replaced.
Cached(b) ==
    /\ bill[b] = "NONE" =>
         /\ \A t \in tasks : t.doc = b =>
               t.at \in {"find", "found"} /\ (t.at = "found" => t.val = table[b])
         /\ \A l \in lists : b \in DOMAIN l.rows => l.rows[b] = table[b]
    /\ b \notin replaced => \A t \in tasks : t.doc = b /\ t.at = "check" => t.held = {}

\* Bills leave the map when the process stops, and only then.
Warm ==
    crashes = 0 => /\ \A b \in Bill : bill[b] # "NONE"
                   /\ \A t \in tasks : t.at \notin {"find", "found"}

CacheInv == BillsTyped /\ (\A b \in Bill : Cached(b)) /\ Warm

\* What a step of operations does to bills that it does not replace: nothing but
\* to put them into the map...
Quiet ==
    /\ Late' = Late
    /\ \A b \in Bill \ replaced' :
          bill'[b] = bill[b] \/ (bill[b] = "NONE" /\ bill'[b] = table[b])

\* ...or a command or a reply changes one.
Moves(type, d) ==
    /\ \E new : /\ new.type = type /\ new.doc = d
                /\ new.at = "save" /\ new.val = B!To(type)
                /\ Late' = Late \cup {new}
    /\ \A b \in Bill \ {d} : bill'[b] = bill[b]
    /\ d \notin replaced' =>
         /\ bill'[d] = B!To(type)
         /\ bill[d] = B!From(type) \/ (bill[d] = "NONE" /\ table[d] = B!From(type))

LEMMA StatusOfKind ==
  /\ \A type : B!From(type) \in B!Status \ {"REVERTED", "PAID"}
  /\ \A type \in Kind : B!To(type) \in B!Status \ {"DRAFT"}
  BY DEF B!From, B!To, B!Status, Kind, B!Command, B!SagaReply

LEMMA NewTaskIs ==
  ASSUME NEW type \in Kind, NEW d \in Bill, NEW at \in {"find", "check", "save"},
         NEW val \in B!Status \cup {"NONE"},
         type \in B!Command => B!FreeCopies(type, d) # {}
  PROVE  /\ B!NewTask(type, d, at, val) \in B!Task
         /\ B!NewTask(type, d, at, val).type = type
         /\ B!NewTask(type, d, at, val).doc = d
         /\ B!NewTask(type, d, at, val).at = at
         /\ B!NewTask(type, d, at, val).val = val
         /\ B!NewTask(type, d, at, val).held = {}
<1>1. type \in B!Command => B!FreeCopy(type, d) \in B!Copy
  BY DEF B!FreeCopy, B!FreeCopies
<1>2. 1 \in B!Copy
  BY SagaAssumption DEF B!Copy
<1> QED
  BY <1>1, <1>2 DEF B!NewTask, B!Task, Kind, B!InMap

\* The tasks when objects of the map are replaced: only posts that hold one of
\* those change.
LEMMA DetachedAre ==
  ASSUME BillsTyped, NEW bs
  PROVE  /\ B!Detached(bs) \subseteq B!Task
         /\ \A u \in B!Detached(bs) : u \in tasks \/
              /\ u.at = "check" /\ u.type = "billPosted" /\ u.val = bill[u.doc]
              /\ u.doc \in bs /\ B!Holders(u.doc, {}) # {}
         /\ \A t \in tasks : t.at # "check" => t \in B!Detached(bs)
         /\ bs = {} => B!Detached(bs) = tasks
<1> DEFINE held(t) == {u.copy : u \in B!Holders(t.doc, {})}
           new(t) == [t EXCEPT !.val = bill[t.doc], !.held = held(t)]
<1>1. ASSUME NEW t \in tasks, t \in B!Holders(t.doc, {})
      PROVE  /\ new(t) \in B!Task /\ new(t).at = "check"
             /\ new(t).type = "billPosted" /\ new(t).doc = t.doc
             /\ new(t).val = bill[t.doc]
  <2>1. t \in B!Task /\ t.at = "check" /\ t.type = "billPosted"
    BY <1>1 DEF B!Holders, BillsTyped
  <2>2. held(t) \subseteq B!Copy
    BY DEF B!Holders, BillsTyped, B!Task
  <2>3. bill[t.doc] \in B!Status \cup {"NONE"}
    BY <2>1 DEF BillsTyped, B!Task
  <2> QED
    BY <2>1, <2>2, <2>3 DEF B!Task
<1>2. B!Detached(bs) = {IF t.doc \in bs /\ t \in B!Holders(t.doc, {}) THEN new(t) ELSE t : t \in tasks}
  BY DEF B!Detached, B!InMap
<1> HIDE DEF new
<1>3. \A t \in tasks : t.at # "check" => t \notin B!Holders(t.doc, {})
  BY DEF B!Holders
<1> QED
  BY <1>1, <1>2, <1>3 DEF BillsTyped

-----------------------------------------------------------------------------
LEMMA CacheInit == Init => CacheInv
  BY DEF Init, B!Init, CacheInv, BillsTyped, Cached, Warm, B!Status

\* A step that changes no bill, and of the tasks only drops some.
LEMMA CacheShrinks ==
  ASSUME CacheInv, UNCHANGED <<bill, table, lists, replaced>>, tasks' \subseteq tasks,
         crashes' = crashes \/ crashes' = crashes + 1
  PROVE  CacheInv'
<1>1. BillsTyped'
  BY DEF CacheInv, BillsTyped
<1>2. ASSUME NEW b \in Bill PROVE Cached(b)'
  BY DEF CacheInv, Cached
<1>3. Warm'
  BY DEF CacheInv, BillsTyped, Warm
<1> QED
  BY <1>1, <1>2, <1>3 DEF CacheInv

LEMMA ListIsQuiet ==
  ASSUME CacheInv, NEW bs \in SUBSET Bill, B!ListBills(bs)
  PROVE  CacheInv' /\ Quiet
<1> DEFINE rows == [b \in bs |-> table[b]]
           l == [no |-> listed + 1, rows |-> rows]
<1>1. lists' = lists \cup {l} /\ UNCHANGED <<bill, table, tasks, crashes, replaced>>
  BY DEF B!ListBills
<1>2. l.rows = rows /\ DOMAIN rows = bs /\ \A b \in bs : rows[b] = table[b]
  OBVIOUS
<1> HIDE DEF rows
<1>3. BillsTyped'
  BY <1>1, <1>2 DEF CacheInv, BillsTyped
<1>4. ASSUME NEW b \in Bill PROVE Cached(b)'
  BY <1>1, <1>2 DEF CacheInv, Cached
<1> QED
  BY <1>1, <1>3, <1>4 DEF CacheInv, Warm, Quiet, Late

\* The bills that have a post with their object in hand are in the map.
LEMMA HeldIsInMap ==
  ASSUME CacheInv, NEW b \in Bill, bill[b] = "NONE", NEW held
  PROVE  B!Holders(b, held) = {}
  BY DEF CacheInv, Cached, B!Holders

LEMMA FillIsQuiet ==
  ASSUME CacheInv, NEW l \in lists, B!FillBills(l)
  PROVE  CacheInv' /\ Quiet
<1> DEFINE bs == DOMAIN l.rows
<1>1. /\ lists' = lists \ {l}
      /\ bill' = [b \in Bill |-> IF b \in bs THEN l.rows[b] ELSE bill[b]]
      /\ tasks' = B!Detached(bs)
      /\ replaced' = replaced \cup B!Replaces(l.rows)
      /\ UNCHANGED <<table, crashes>>
  BY DEF B!FillBills
<1>2. \A b \in bs : b \in Bill /\ l.rows[b] \in B!Status
  BY DEF CacheInv, BillsTyped
<1>3. /\ tasks' \subseteq B!Task
      /\ \A u \in tasks' : u \in tasks \/
              /\ u.at = "check" /\ u.type = "billPosted"
              /\ u.doc \in bs /\ B!Holders(u.doc, {}) # {}
      /\ \A t \in tasks : t.at # "check" => t \in tasks'
  BY <1>1, DetachedAre DEF CacheInv
<1>4. BillsTyped'
  BY <1>1, <1>2, <1>3 DEF CacheInv, BillsTyped
<1>5. \A b \in bs : b \notin replaced' =>
        bill[b] = "NONE" \/ (bill[b] = l.rows[b] /\ B!Holders(b, {}) = {})
  BY <1>1 DEF B!Replaces, B!InMap
<1>6. ASSUME NEW b \in Bill PROVE Cached(b)'
  <2>1. ASSUME bill'[b] = "NONE"
        PROVE  /\ \A t \in tasks' : t.doc = b =>
                    t.at \in {"find", "found"} /\ (t.at = "found" => t.val = table[b])
               /\ \A k \in lists' : b \in DOMAIN k.rows => k.rows[b] = table[b]
    <3>1. bill[b] = "NONE"
      BY <1>1, <1>2, <2>1 DEF B!Status
    <3> QED
      BY <1>1, <1>3, <3>1, HeldIsInMap DEF CacheInv, Cached
  <2>2. ASSUME b \notin replaced', NEW t \in tasks', t.doc = b, t.at = "check"
        PROVE  t.held = {}
    <3>1. b \notin replaced
      BY <1>1, <2>2
    <3>2. t \in tasks
      BY <1>3, <1>5, <2>2, HeldIsInMap
    <3> QED
      BY <2>2, <3>1, <3>2 DEF CacheInv, Cached
  <2> QED
    BY <1>1, <2>1, <2>2 DEF Cached
<1>7. Warm'
  <2>1. \A u \in tasks' : u \in tasks \/ u.at = "check"
    BY <1>3
  <2>2. \A b \in Bill : bill'[b] = bill[b] \/ bill'[b] \in B!Status
    BY <1>1, <1>2
  <2> QED
    BY <1>1, <2>1, <2>2 DEF CacheInv, Warm, B!Status
<1>8. Late' = Late
  BY <1>3 DEF Late
<1>9. ASSUME NEW b \in Bill \ replaced'
      PROVE  bill'[b] = bill[b] \/ (bill[b] = "NONE" /\ bill'[b] = table[b])
  BY <1>1, <1>5 DEF CacheInv, Cached
<1> QED
  BY <1>4, <1>6, <1>7, <1>8, <1>9 DEF CacheInv, Quiet

\* A task is added, or takes the place of one that looked its bill up.
LEMMA TaskEnters ==
  ASSUME CacheInv, NEW new \in B!Task, tasks' \subseteq tasks \cup {new},
         UNCHANGED <<table, lists, crashes, replaced>>,
         bill' \in [Bill -> B!Status \cup {"NONE"}],
         \A b \in Bill : bill'[b] = bill[b] \/ (b = new.doc /\ bill'[b] # "NONE"),
         new.at = "found" => new.val = table[new.doc],
         new.at = "check" => new.type = "billPosted",
         new.held = {},
         new.at = "save" => new.val = B!To(new.type),
         new.at # "publish",
         crashes = 0 => new.at \notin {"find", "found"},
         bill'[new.doc] = "NONE" => new.at \in {"find", "found"}
  PROVE  CacheInv'
<1>1. new.doc \in Bill /\ table[new.doc] \in B!Status
  BY DEF CacheInv, BillsTyped, B!Task
<1>2. BillsTyped'
  BY <1>1 DEF CacheInv, BillsTyped
<1>3. \A b \in Bill : bill'[b] = "NONE" => bill[b] = "NONE"
  OBVIOUS
<1>4. ASSUME NEW b \in Bill PROVE Cached(b)'
  BY <1>1, <1>3 DEF CacheInv, Cached
<1>5. Warm'
  BY <1>3 DEF CacheInv, Warm
<1> QED
  BY <1>2, <1>4, <1>5 DEF CacheInv

LEMMA AcceptMoves ==
  ASSUME CacheInv, NEW type \in B!Command, NEW d \in Bill, B!Accept(type, d)
  PROVE  CacheInv' /\ Moves(type, d)
<1> DEFINE new == B!NewTask(type, d, "save", B!To(type))
<1>1. /\ bill[d] = B!From(type) /\ bill' = [bill EXCEPT ![d] = B!To(type)]
      /\ tasks' = tasks \cup {new}
      /\ UNCHANGED <<table, lists, crashes, replaced>>
  BY DEF B!Accept, B!Enter
<1>2. type \in Kind /\ B!To(type) \in B!Status
  BY StatusOfKind DEF Kind
<1>3. /\ new \in B!Task /\ new.type = type /\ new.doc = d /\ new.at = "save"
      /\ new.val = B!To(type) /\ new.held = {}
  BY <1>2, NewTaskIs DEF B!Accept
<1> HIDE DEF new
<1>4. tasks' \subseteq tasks \cup {new}
  BY <1>1
<1>5. bill'[d] = B!To(type) /\ \A b \in Bill \ {d} : bill'[b] = bill[b]
  BY <1>1 DEF CacheInv, BillsTyped
<1>6. CacheInv'
  <2>1. bill' \in [Bill -> B!Status \cup {"NONE"}] /\ bill'[d] # "NONE"
    BY <1>1, <1>2, <1>5 DEF CacheInv, BillsTyped, B!Status
  <2> QED
    BY <1>1, <1>3, <1>4, <1>5, <2>1, TaskEnters
<1>7. Late' = Late \cup {new}
  BY <1>1, <1>3 DEF Late
<1> QED
  BY <1>1, <1>3, <1>5, <1>6, <1>7 DEF Moves

LEMMA FindIsQuiet ==
  ASSUME CacheInv, NEW type \in B!Command, NEW d \in Bill, B!FindBill(type, d)
  PROVE  CacheInv' /\ Quiet
<1> DEFINE new == B!NewTask(type, d, "find", "NONE")
<1>1. /\ bill[d] = "NONE" /\ tasks' = tasks \cup {new}
      /\ bill' = bill /\ UNCHANGED <<table, lists, crashes, replaced>>
  BY DEF B!FindBill
<1>2. new \in B!Task /\ new.doc = d /\ new.at = "find" /\ new.held = {}
  BY NewTaskIs DEF B!FindBill, Kind
<1>3. crashes # 0
  BY <1>1 DEF CacheInv, Warm
<1> HIDE DEF new
<1>4. CacheInv'
  BY <1>1, <1>2, <1>3, TaskEnters DEF CacheInv, BillsTyped
<1> QED
  BY <1>1, <1>2, <1>4 DEF Quiet, Late

LEMMA StartPostIsQuiet ==
  ASSUME CacheInv, NEW d \in Bill, B!StartPost(d)
  PROVE  CacheInv' /\ Quiet
<1> DEFINE new == B!NewTask("billPosted", d, "check", "NONE")
<1>1. /\ bill[d] # "NONE" /\ tasks' = tasks \cup {new}
      /\ bill' = bill /\ UNCHANGED <<table, lists, crashes, replaced>>
  BY DEF B!StartPost
<1>2. new \in B!Task /\ new.doc = d /\ new.at = "check" /\ new.type = "billPosted" /\ new.held = {}
  <2>1. "billPosted" \in Kind
    BY DEF Kind, B!Command
  <2> QED
    BY <2>1, NewTaskIs DEF B!StartPost
<1> HIDE DEF new
<1>4. CacheInv'
  BY <1>1, <1>2, TaskEnters DEF CacheInv, BillsTyped
<1> QED
  BY <1>1, <1>2, <1>4 DEF Quiet, Late

LEMMA ReadIsQuiet ==
  ASSUME CacheInv, NEW t \in tasks, B!ReadBill(t)
  PROVE  CacheInv' /\ Quiet
<1> DEFINE new == [t EXCEPT !.at = "found", !.val = table[t.doc]]
<1>1. /\ t.at = "find" /\ tasks' = (tasks \ {t}) \cup {new}
      /\ bill' = bill /\ UNCHANGED <<table, lists, crashes, replaced>>
  BY DEF B!ReadBill
<1>2. t \in B!Task /\ table[t.doc] \in B!Status /\ t.held = {}
  BY <1>1 DEF CacheInv, BillsTyped, B!Task
<1>3. new \in B!Task /\ new.doc = t.doc /\ new.at = "found" /\ new.val = table[t.doc] /\ new.held = {}
  BY <1>2 DEF B!Task
<1>4. crashes # 0
  BY <1>1 DEF CacheInv, Warm
<1> HIDE DEF new
<1>5. CacheInv'
  BY <1>1, <1>3, <1>4, TaskEnters DEF CacheInv, BillsTyped
<1> QED
  BY <1>1, <1>3, <1>5 DEF Quiet, Late

\* An object made from a row goes into the map, and its bill may then change.
LEMMA ObjectEnters ==
  ASSUME CacheInv, crashes # 0, NEW d \in Bill, NEW val \in B!Status, NEW to \in B!Status,
         replaced' = replaced \cup B!Replaces([b \in {d} |-> val]),
         bill' = [bill EXCEPT ![d] = to],
         UNCHANGED <<table, lists, crashes>>,
         \A u \in tasks' : u \in B!Detached({d}) \/
            /\ u \in B!Task /\ u.doc = d
            /\ \/ u.at = "check" /\ u.type = "billPosted" /\ u.held = {}
               \/ u.at = "save" /\ u.val = B!To(u.type) /\ u.held = {}
  PROVE  CacheInv' /\ (d \notin replaced' => bill[d] \in {val, "NONE"})
<1>1. /\ B!Detached({d}) \subseteq B!Task
      /\ \A u \in B!Detached({d}) : u \notin tasks =>
              u.at = "check" /\ u.type = "billPosted" /\ u.doc = d /\ B!Holders(d, {}) # {}
  <2>1. BillsTyped
    BY DEF CacheInv
  <2>2. \A u \in B!Detached({d}) : u \in tasks \/
              /\ u.at = "check" /\ u.type = "billPosted"
              /\ u.doc \in {d} /\ B!Holders(u.doc, {}) # {}
    BY <2>1, DetachedAre, Zenon
  <2>3. ASSUME NEW u \in B!Detached({d}), u \notin tasks
        PROVE  u.at = "check" /\ u.type = "billPosted" /\ u.doc = d /\ B!Holders(d, {}) # {}
    <3>1. u.at = "check" /\ u.type = "billPosted" /\ u.doc \in {d} /\ B!Holders(u.doc, {}) # {}
      BY <2>2, <2>3
    <3>2. u.doc = d
      BY <3>1
    <3> QED
      BY <3>1, <3>2, Zenon
  <2>4. B!Detached({d}) \subseteq B!Task
    BY <2>1, DetachedAre
  <2> QED
    BY <2>3, <2>4
<1>2. bill'[d] = to /\ to # "NONE" /\ \A b \in Bill : b # d => bill'[b] = bill[b]
  BY DEF CacheInv, BillsTyped, B!Status
<1>3. BillsTyped'
  <2>1. bill' \in [Bill -> B!Status \cup {"NONE"}]
    BY DEF CacheInv, BillsTyped
  <2>2. tasks' \subseteq B!Task
    BY <1>1
  <2>3. ASSUME NEW u \in tasks', u \notin tasks
        PROVE  \/ u.at = "check" /\ u.type = "billPosted"
               \/ u.at = "save" /\ u.val = B!To(u.type) /\ u.held = {}
    BY <1>1, <2>3
  <2> QED
    BY <2>1, <2>2, <2>3 DEF CacheInv, BillsTyped
<1>4. d \notin replaced' => bill[d] = "NONE" \/ (bill[d] = val /\ B!Holders(d, {}) = {})
  BY DEF B!Replaces, B!InMap
<1>5. B!Holders(d, {}) # {} => bill[d] # "NONE"
  BY HeldIsInMap
<1>6. ASSUME NEW b \in Bill PROVE Cached(b)'
  <2>1. CASE b = d
    <3>1. ASSUME d \notin replaced', NEW u \in tasks', u.at = "check", u.doc = d
          PROVE  u.held = {}
      <4>1. u \in tasks \/ u.held = {}
        BY <1>1, <1>4, <1>5, <3>1
      <4>2. d \notin replaced
        BY <3>1
      <4> QED
        BY <3>1, <4>1, <4>2 DEF CacheInv, Cached
    <3> QED
      BY <1>2, <2>1, <3>1 DEF Cached
  <2>2. CASE b # d
    <3>1. \A u \in tasks' : u.doc = b => u \in tasks
      BY <1>1, <2>2
    <3>2. bill'[b] = bill[b] /\ (b \notin replaced' => b \notin replaced)
      BY <1>2, <2>2
    <3> QED
      BY <3>1, <3>2 DEF CacheInv, Cached
  <2> QED
    BY <2>1, <2>2
<1>7. Warm'
  BY DEF Warm
<1> QED
  BY <1>3, <1>4, <1>6, <1>7 DEF CacheInv

LEMMA FoundMoves ==
  ASSUME CacheInv, NEW t \in tasks, B!BillFound(t)
  PROVE  CacheInv' /\ (Quiet \/ Moves(t.type, t.doc))
<1> DEFINE d == t.doc
<1>1. /\ t.at = "found"
      /\ replaced' = replaced \cup B!Replaces([b \in {d} |-> t.val])
      /\ UNCHANGED <<table, lists, crashes>>
  BY DEF B!BillFound
<1>2. /\ t \in B!Task /\ d \in Bill /\ t.type \in Kind /\ t.val \in B!Status
  BY <1>1 DEF CacheInv, BillsTyped, B!Task, Kind
<1>3. crashes # 0
  BY <1>1 DEF CacheInv, Warm
<1>4. bill[d] = "NONE" => t.val = table[d]
  BY <1>1, <1>2 DEF CacheInv, Cached
<1>5. \A u \in tasks : u.at # "check" => u \in B!Detached({d})
  BY DetachedAre DEF CacheInv
<1>6. \A u \in B!Detached({d}) : u \in tasks \/ u.at = "check"
  BY DetachedAre DEF CacheInv
<1>7. bill \in [Bill -> B!Status \cup {"NONE"}]
  BY DEF CacheInv, BillsTyped
<1> HIDE DEF d
<1>8. CASE t.type = "billPosted"
  <2> DEFINE new == [t EXCEPT !.at = "check", !.val = "NONE"]
  <2>1. bill' = [bill EXCEPT ![d] = t.val] /\ tasks' = (B!Detached({d}) \ {t}) \cup {new}
    BY <1>8 DEF B!BillFound, B!Enter, d
  <2>2. new \in B!Task /\ new.doc = d /\ new.at = "check" /\ new.type = "billPosted"
        /\ new.held = t.held
    BY <1>2, <1>8 DEF B!Task, d
  <2>3. t.held = {}
    BY <1>1 DEF CacheInv, BillsTyped
  <2> HIDE DEF new
  <2>4. CacheInv' /\ (d \notin replaced' => bill[d] \in {t.val, "NONE"})
    BY <1>1, <1>2, <1>3, <2>1, <2>2, <2>3, ObjectEnters
  <2>5. Late' = Late
    BY <1>1, <1>5, <1>6, <2>1, <2>2 DEF Late
  <2>6. \A b \in Bill \ replaced' : bill'[b] = bill[b] \/ (bill[b] = "NONE" /\ bill'[b] = table[b])
    BY <1>2, <1>4, <1>7, <2>1, <2>4
  <2> QED
    BY <2>4, <2>5, <2>6 DEF Quiet
<1>9. CASE t.type # "billPosted" /\ t.val = B!From(t.type)
  <2> DEFINE new == [t EXCEPT !.at = "save", !.val = B!To(t.type)]
  <2>0. t.val # "REVERTED" /\ t.val # "PAID" /\ B!To(t.type) \in B!Status
    BY <1>2, <1>9, StatusOfKind
  <2>1. bill' = [bill EXCEPT ![d] = B!To(t.type)] /\ tasks' = (B!Detached({d}) \ {t}) \cup {new}
    BY <1>9 DEF B!BillFound, B!Enter, d
  <2>2. new \in B!Task /\ new.doc = d /\ new.at = "save" /\ new.type = t.type
        /\ new.val = B!To(t.type)
    BY <1>2, <2>0 DEF B!Task, d
  <2>3. new.held = {}
    BY <1>1, <1>2 DEF CacheInv, BillsTyped, B!Task
  <2> HIDE DEF new
  <2>4. CacheInv' /\ (d \notin replaced' => bill[d] \in {t.val, "NONE"})
    BY <1>1, <1>2, <1>3, <2>0, <2>1, <2>2, <2>3, ObjectEnters
  <2>5. Late' = Late \cup {new}
    BY <1>1, <1>5, <1>6, <2>1, <2>2 DEF Late
  <2>6. bill'[d] = B!To(t.type) /\ \A b \in Bill \ {d} : bill'[b] = bill[b]
    BY <1>2, <1>7, <2>1
  <2>7. Moves(t.type, d)
    BY <1>4, <1>9, <2>2, <2>4, <2>5, <2>6 DEF Moves
  <2> QED
    BY <2>4, <2>7 DEF d
<1>10. CASE t.type # "billPosted" /\ t.val # B!From(t.type)
  <2>1. bill' = [bill EXCEPT ![d] = t.val] /\ tasks' = B!Detached({d}) \ {t}
    BY <1>10 DEF B!BillFound, B!Enter, d
  <2>4. CacheInv' /\ (d \notin replaced' => bill[d] \in {t.val, "NONE"})
    BY <1>1, <1>2, <1>3, <2>1, ObjectEnters
  <2>5. Late' = Late
    BY <1>1, <1>5, <1>6, <2>1 DEF Late
  <2>6. \A b \in Bill \ replaced' : bill'[b] = bill[b] \/ (bill[b] = "NONE" /\ bill'[b] = table[b])
    BY <1>2, <1>4, <1>7, <2>1, <2>4
  <2> QED
    BY <2>4, <2>5, <2>6 DEF Quiet
<1> QED
  BY <1>8, <1>9, <1>10

LEMMA PostMoves ==
  ASSUME CacheInv, NEW t \in tasks, B!Post(t)
  PROVE  CacheInv' /\ Moves("billPosted", t.doc) /\ B!From("billPosted") = "DRAFT"
<1> DEFINE d == t.doc
           bs == IF t.held = {} THEN {} ELSE {d}
           back(u) == [u EXCEPT !.val = "NONE", !.held = {}]
           mine == [t EXCEPT !.val = "NONE", !.held = {}]
           new == [mine EXCEPT !.at = "save", !.val = "POSTED"]
<1>1. /\ t.at = "check"
      /\ (IF t.held = {} THEN bill[d] ELSE t.val) = "DRAFT"
      /\ bill' = [bill EXCEPT ![d] = "POSTED"]
      /\ tasks' = (B!PutBack(t) \ {mine}) \cup {new}
      /\ UNCHANGED <<table, lists, crashes, replaced>>
  BY DEF B!Post, B!StatusInHand, B!Enter, B!InMap, B!InHand
<1>2. t \in B!Task /\ d \in Bill /\ t.type = "billPosted"
  BY <1>1 DEF CacheInv, BillsTyped, B!Task
<1>3. new \in B!Task /\ new.type = "billPosted" /\ new.doc = d /\ new.at = "save"
      /\ new.val = B!To("billPosted") /\ mine.at = "check" /\ new.held = {}
  BY <1>1, <1>2 DEF B!Task, B!Status, B!To
<1>4. B!PutBack(t) = {IF u \in B!Holders(d, t.held) THEN back(u) ELSE u : u \in B!Detached(bs)}
  BY DEF B!PutBack, B!InMap
<1>5. /\ B!Detached(bs) \subseteq B!Task
      /\ \A u \in B!Detached(bs) : u \notin tasks =>
              u.at = "check" /\ u.type = "billPosted" /\ u.doc \in bs
      /\ \A u \in tasks : u.at # "check" => u \in B!Detached(bs)
      /\ bs = {} => B!Detached(bs) = tasks
  <2> HIDE DEF bs
  <2>1. BillsTyped
    BY DEF CacheInv
  <2>2. B!Detached(bs) \subseteq B!Task /\ (bs = {} => B!Detached(bs) = tasks)
    BY <2>1, DetachedAre
  <2>3. \A u \in tasks : u.at # "check" => u \in B!Detached(bs)
    BY <2>1, DetachedAre
  <2>4. ASSUME NEW u \in B!Detached(bs), u \notin tasks
        PROVE  u.at = "check" /\ u.type = "billPosted" /\ u.doc \in bs
    BY <2>1, <2>4, DetachedAre
  <2> QED
    BY <2>2, <2>3, <2>4
<1>6. ASSUME NEW u \in B!Task, u \in B!Holders(d, t.held)
      PROVE  /\ back(u) \in B!Task /\ back(u).at = "check"
             /\ back(u).type = "billPosted" /\ back(u).doc = d /\ back(u).held = {}
             /\ u.at = "check"
  <2>1. u.at = "check" /\ u.doc = d /\ u.type = "billPosted"
    BY <1>6 DEF B!Holders, CacheInv, BillsTyped
  <2> QED
    BY <1>6, <2>1 DEF B!Task
<1>7. bill[d] # "NONE"
  <2>1. t \in B!Holders(d, t.held)
    BY <1>1 DEF B!Holders
  <2> QED
    BY <1>2, <2>1, HeldIsInMap
<1>8. d \notin replaced => bs = {} /\ bill[d] = "DRAFT"
  BY <1>1, <1>2 DEF CacheInv, Cached
<1> HIDE DEF back, mine, new, bs
<1>9. \A u \in tasks' : u # new /\ u \notin tasks =>
         u \in B!Task /\ u.at = "check" /\ u.type = "billPosted" /\ u.doc = d
  <2>1. ASSUME NEW u \in B!Detached(bs), u \notin tasks
        PROVE  u \in B!Task /\ u.at = "check" /\ u.type = "billPosted" /\ u.doc = d
    BY <1>5, <2>1 DEF bs
  <2>2. ASSUME NEW u \in B!PutBack(t), u \notin tasks
        PROVE  u \in B!Task /\ u.at = "check" /\ u.type = "billPosted" /\ u.doc = d
    <3>1. PICK x \in B!Detached(bs) : u = IF x \in B!Holders(d, t.held) THEN back(x) ELSE x
      BY <1>4
    <3> QED
      BY <1>5, <1>6, <2>1, <2>2, <3>1
  <2> QED
    BY <1>1, <2>2
<1>10. \A u \in tasks' : u.at = "check" /\ bs = {} => u.held = {} \/ u \in tasks
  BY <1>1, <1>3, <1>4, <1>5, <1>6
<1>11. bill'[d] = "POSTED" /\ \A b \in Bill \ {d} : bill'[b] = bill[b]
  BY <1>1, <1>2 DEF CacheInv, BillsTyped
<1>12. BillsTyped'
  <2>1. bill' \in [Bill -> B!Status \cup {"NONE"}]
    BY <1>1 DEF CacheInv, BillsTyped, B!Status
  <2> QED
    BY <1>1, <1>3, <1>9, <2>1 DEF CacheInv, BillsTyped
<1>13. ASSUME NEW b \in Bill PROVE Cached(b)'
  <2>1. CASE b = d
    <3>1. ASSUME NEW u \in tasks', u.doc = d, u.at = "check", d \notin replaced PROVE u.held = {}
      BY <1>8, <1>10, <3>1, <1>2 DEF CacheInv, Cached
    <3> QED
      BY <1>1, <1>11, <2>1, <3>1 DEF Cached
  <2>2. CASE b # d
    <3>1. \A u \in tasks' : u.doc = b => u \in tasks
      BY <1>3, <1>9, <2>2
    <3> QED
      BY <1>1, <1>11, <2>2, <3>1 DEF CacheInv, Cached
  <2> QED
    BY <2>1, <2>2
<1>14. Warm'
  BY <1>1, <1>3, <1>9, <1>11 DEF CacheInv, Warm
<1>15. Late' = Late \cup {new}
  <2>1. \A u \in tasks : u.at # "check" => u \in B!PutBack(t) /\ u # mine
    <3>1. \A u \in tasks : u.at # "check" => u \notin B!Holders(d, t.held)
      BY DEF B!Holders
    <3> QED
      BY <1>3, <1>4, <1>5, <3>1
  <2> QED
    BY <1>1, <1>3, <1>9, <2>1 DEF Late
<1>16. Moves("billPosted", d) /\ B!From("billPosted") = "DRAFT"
  BY <1>1, <1>3, <1>8, <1>11, <1>15 DEF Moves, B!To, B!From
<1> QED
  BY <1>12, <1>13, <1>14, <1>16 DEF CacheInv

LEMMA HandleMoves ==
  ASSUME CacheInv, B!HandleReply
  PROVE  /\ CacheInv'
         /\ IF bill[ledgerTopic[replyPos].doc] = "REVERSING"
            THEN Moves(ledgerTopic[replyPos].type, ledgerTopic[replyPos].doc)
            ELSE Quiet
<1> DEFINE m == ledgerTopic[replyPos]
           d == m.doc
<1>1. /\ m.type \in B!SagaReply /\ d \in Bill
      /\ \/ /\ bill[d] = "REVERSING"
            /\ bill' = [bill EXCEPT ![d] = B!To(m.type)]
            /\ tasks' = tasks \cup {B!NewTask(m.type, d, "save", B!To(m.type))}
         \/ /\ bill[d] = "NONE"
            /\ tasks' = tasks \cup {B!NewTask(m.type, d, "find", "NONE")}
            /\ bill' = bill
      /\ UNCHANGED <<table, lists, crashes, replaced>>
  BY DEF B!HandleReply, B!Enter
<1> HIDE DEF m, d
<1>2. /\ m.type \in Kind /\ m.type \notin B!Command
      /\ B!To(m.type) \in B!Status /\ B!From(m.type) = "REVERSING"
  BY <1>1, StatusOfKind DEF Kind, B!SagaReply, B!Command, B!From
<1>3. CASE bill[d] = "REVERSING"
  <2> DEFINE new == B!NewTask(m.type, d, "save", B!To(m.type))
  <2>1. bill' = [bill EXCEPT ![d] = B!To(m.type)] /\ tasks' = tasks \cup {new}
    BY <1>1, <1>3
  <2>2. /\ new \in B!Task /\ new.type = m.type /\ new.doc = d /\ new.at = "save"
        /\ new.val = B!To(m.type) /\ new.held = {}
    BY <1>1, <1>2, NewTaskIs
  <2> HIDE DEF new
  <2>3. bill'[d] = B!To(m.type) /\ \A b \in Bill \ {d} : bill'[b] = bill[b]
    BY <1>1, <2>1 DEF CacheInv, BillsTyped
  <2>4. bill' \in [Bill -> B!Status \cup {"NONE"}] /\ bill'[d] # "NONE"
    BY <1>1, <1>2, <2>1, <2>3 DEF CacheInv, BillsTyped, B!Status
  <2>5. CacheInv'
    BY <1>1, <2>1, <2>2, <2>3, <2>4, TaskEnters
  <2>6. Late' = Late \cup {new}
    BY <2>1, <2>2 DEF Late
  <2>7. Moves(m.type, d)
    BY <1>2, <1>3, <2>2, <2>3, <2>6 DEF Moves
  <2> QED
    BY <1>3, <2>5, <2>7 DEF m, d
<1>4. CASE bill[d] # "REVERSING"
  <2> DEFINE new == B!NewTask(m.type, d, "find", "NONE")
  <2>1. bill' = bill /\ bill[d] = "NONE" /\ tasks' = tasks \cup {new}
    BY <1>1, <1>4
  <2>2. new \in B!Task /\ new.doc = d /\ new.at = "find" /\ new.held = {}
    BY <1>1, <1>2, NewTaskIs
  <2>3. crashes # 0
    BY <1>1, <2>1 DEF CacheInv, Warm
  <2> HIDE DEF new
  <2>4. CacheInv'
    BY <1>1, <2>1, <2>2, <2>3, TaskEnters DEF CacheInv, BillsTyped
  <2> QED
    BY <1>4, <2>1, <2>2, <2>4 DEF Quiet, Late, m, d
<1> QED
  BY <1>3, <1>4

LEMMA OtherIsQuiet ==
  ASSUME CacheInv,
         \/ B!SkipReply \/ B!CommitReply \/ B!RebalanceReplies
         \/ \E t \in tasks : B!RefusePost(t)
  PROVE  CacheInv' /\ Quiet
<1>1. /\ UNCHANGED <<bill, table, lists, replaced>> /\ tasks' \subseteq tasks
      /\ crashes' = crashes \/ crashes' = crashes + 1
  BY DEF B!SkipReply, B!CommitReply, B!RebalanceReplies, B!RefusePost, B!Crashing
<1>2. Late' = Late
  BY DEF B!SkipReply, B!CommitReply, B!RebalanceReplies, B!RefusePost, Late
<1> QED
  BY <1>1, <1>2, CacheShrinks DEF Quiet

(* The steps of operations in which no row changes, of bills or outbox.     *)
BillStep ==
    \/ \E bs \in SUBSET Bill : ListBills(bs)
    \/ \E l \in lists : FillBills(l)
    \/ \E type \in B!Command, b \in Bill : Begin(type, b)
    \/ \E t \in tasks : LookUp(t) \/ Post(t)
    \/ ReadReply
    \/ MoveReplyOffset

LEMMA BillStepKeeps ==
  ASSUME BillStep
  PROVE  /\ UNCHANGED outboxVars /\ UNCHANGED ledgerVars
         /\ UNCHANGED <<table, topic, ledgerTopic, mem, db, lastId, handler, errors>>
         /\ UNCHANGED <<ingested, restarts, failures>>
         /\ replaced \subseteq replaced'
<1> USE DEF BillStep, ListBills, FillBills, Begin, LookUp, Post, ReadReply, MoveReplyOffset
<1>1. UNCHANGED outboxVars /\ UNCHANGED ledgerVars /\ topic' = topic
  OBVIOUS
<1>2. UNCHANGED <<mem, db, lastId, handler, errors, ingested, restarts>>
  BY <1>1 DEF ledgerVars
<1>3. UNCHANGED <<table, ledgerTopic, failures>> /\ replaced \subseteq replaced'
  BY DEF B!ListBills, B!FillBills, B!Accept, B!FindBill, B!StartPost, B!ReadBill, B!BillFound,
         B!Post, B!RefusePost, B!SkipReply, B!HandleReply, B!CommitReply, B!RebalanceReplies
<1> QED
  BY <1>1, <1>2, <1>3

LEMMA BillStepDoes ==
  ASSUME CacheInv, BillStep
  PROVE  /\ CacheInv'
         /\ Quiet \/ \E type \in Kind, d \in Bill : Moves(type, d)
<1>1. CASE \E bs \in SUBSET Bill : ListBills(bs)
  BY <1>1, ListIsQuiet DEF ListBills
<1>2. CASE \E l \in lists : FillBills(l)
  BY <1>2, FillIsQuiet DEF FillBills
<1>3. CASE \E type \in B!Command, b \in Bill : Begin(type, b)
  BY <1>3, AcceptMoves, FindIsQuiet, StartPostIsQuiet DEF Begin, Kind
<1>4. CASE \E t \in tasks : LookUp(t)
  <2>1. PICK t \in tasks : LookUp(t)
    BY <1>4
  <2>2. t.type \in Kind /\ t.doc \in Bill
    BY DEF CacheInv, BillsTyped, B!Task, Kind
  <2> QED
    BY <2>1, <2>2, ReadIsQuiet, FoundMoves DEF LookUp
<1>5. CASE \E t \in tasks : Post(t)
  <2>1. PICK t \in tasks : Post(t)
    BY <1>5
  <2>2. "billPosted" \in Kind /\ t.doc \in Bill
    BY DEF CacheInv, BillsTyped, B!Task, Kind, B!Command
  <2>3. CASE B!Post(t)
    BY <2>2, <2>3, PostMoves
  <2>4. CASE B!RefusePost(t)
    BY <2>4, OtherIsQuiet
  <2> QED
    BY <2>1, <2>3, <2>4 DEF Post
<1>6. CASE ReadReply
  <2>1. CASE B!HandleReply
    <3>1. ledgerTopic[replyPos].type \in Kind /\ ledgerTopic[replyPos].doc \in Bill
      BY <2>1 DEF B!HandleReply, Kind
    <3> QED
      BY <2>1, <3>1, HandleMoves
  <2> QED
    BY <1>6, <2>1, OtherIsQuiet DEF ReadReply
<1>7. CASE MoveReplyOffset
  BY <1>7, OtherIsQuiet DEF MoveReplyOffset
<1> QED
  BY <1>1, <1>2, <1>3, <1>4, <1>5, <1>6, <1>7 DEF BillStep

\* The other steps of operations: the save of a row, which may end a task, a
\* failure, publish() and a restart.
LEMMA SaveDoes ==
  ASSUME CacheInv, NEW t \in tasks, SaveBill(t)
  PROVE  /\ CacheInv' /\ t \in Late /\ t.doc \in Bill /\ t.val \in B!Status \ {"DRAFT"}
         /\ table' = [table EXCEPT ![t.doc] = t.val]
         /\ bill[t.doc] # "NONE"
         /\ IF t.type \in B!SagaReply THEN Late' = Late \ {t}
            ELSE \E next \in B!Task :
                    /\ next.type = t.type /\ next.doc = t.doc
                    /\ next.val = t.val /\ next.at = "publish"
                    /\ Late' = (Late \ {t}) \cup {next}
<1> DEFINE next == [t EXCEPT !.at = "publish"]
<1>1. /\ t.at = "save" /\ table' = [table EXCEPT ![t.doc] = t.val]
      /\ tasks' = (tasks \ {t}) \cup (IF t.type \in B!SagaReply THEN {} ELSE {next})
      /\ UNCHANGED <<bill, lists, crashes, replaced>>
  BY DEF SaveBill, B!SaveBill
<1>2. /\ t \in B!Task /\ t.doc \in Bill /\ t.type \in Kind /\ t.val = B!To(t.type)
      /\ t.held = {}
  BY <1>1 DEF CacheInv, BillsTyped, B!Task, Kind
<1>3. t.val \in B!Status \ {"DRAFT"}
  BY <1>2, StatusOfKind
<1>4. /\ next \in B!Task /\ next.type = t.type /\ next.doc = t.doc /\ next.val = t.val
      /\ next.at = "publish" /\ next.held = {}
  BY <1>2 DEF B!Task
<1>5. t \in Late
  BY <1>1 DEF Late
<1>6. bill[t.doc] # "NONE"
  BY <1>1, <1>2 DEF CacheInv, Cached
<1>7. IF t.type \in B!SagaReply THEN Late' = Late \ {t} ELSE Late' = (Late \ {t}) \cup {next}
  BY <1>1, <1>4 DEF Late
<1>8. t.type \notin B!SagaReply => t.type \in B!Command
  BY <1>2 DEF Kind
<1> HIDE DEF next
<1>9. BillsTyped'
  <2>1. table' \in [Bill -> B!Status]
    BY <1>1, <1>2, <1>3 DEF CacheInv, BillsTyped
  <2>2. ASSUME NEW u \in tasks' PROVE u \in tasks \/ (u = next /\ t.type \in B!Command)
    BY <1>1, <1>8, <2>2
  <2>3. tasks' \subseteq B!Task
    BY <1>4, <2>2 DEF CacheInv, BillsTyped
  <2> QED
    BY <1>1, <1>2, <1>4, <2>1, <2>2, <2>3 DEF CacheInv, BillsTyped
<1>10. ASSUME NEW b \in Bill PROVE Cached(b)'
  <2>1. \A u \in tasks' : u \in tasks \/ (u.at = "publish" /\ u.doc = t.doc)
    BY <1>1, <1>4
  <2>2. bill[b] = "NONE" => b # t.doc /\ table'[b] = table[b]
    BY <1>1, <1>6 DEF CacheInv, BillsTyped
  <2> QED
    BY <1>1, <2>1, <2>2 DEF CacheInv, Cached
<1>11. Warm'
  BY <1>1, <1>4 DEF CacheInv, Warm
<1>12. CacheInv'
  BY <1>9, <1>10, <1>11 DEF CacheInv
<1>13. t.type \notin B!SagaReply => \E x \in B!Task :
          /\ x.type = t.type /\ x.doc = t.doc /\ x.val = t.val /\ x.at = "publish"
          /\ Late' = (Late \ {t}) \cup {x}
  BY <1>4, <1>7
<1> QED
  BY <1>1, <1>2, <1>3, <1>5, <1>6, <1>7, <1>12, <1>13

LEMMA FailDoes ==
  ASSUME CacheInv, NEW t \in tasks, FailTask(t)
  PROVE  /\ CacheInv' /\ UNCHANGED <<bill, table, replaced>>
         /\ Late' \subseteq Late /\ tasks' \subseteq tasks
<1>1. UNCHANGED <<bill, table, lists, replaced, crashes>> /\ tasks' \subseteq tasks
  BY DEF FailTask, B!TaskError
<1> QED
  BY <1>1, CacheShrinks DEF Late

LEMMA PublishDoes ==
  ASSUME CacheInv, NEW t \in tasks, Publish(t)
  PROVE  /\ CacheInv' /\ UNCHANGED <<bill, table, replaced>>
         /\ t \in Late /\ t.at = "publish" /\ Late' = Late \ {t}
         /\ B!EventOf(t) \in L!Message
         /\ B!EventOf(t).type = t.type /\ B!EventOf(t).doc = t.doc
         /\ O!Saved' = O!Saved \cup {B!EventOf(t)}
<1>1. /\ UNCHANGED <<bill, table, lists, replaced, crashes>> /\ tasks' = tasks \ {t}
      /\ t.at = "publish" /\ O!Saved' = O!Saved \cup {B!EventOf(t)}
  BY DEF Publish, B!Publish
<1>2. t \in B!Task /\ t.type \in B!Command
  BY <1>1 DEF CacheInv, BillsTyped
<1>3. B!EventOf(t) \in L!Message
  BY <1>2 DEF B!EventOf, B!Task, B!Copy, B!Command, L!Message
<1> QED
  BY <1>1, <1>3, CacheShrinks DEF Late, B!EventOf

LEMMA CrashDoes ==
  ASSUME CacheInv, CrashOperations
  PROVE  /\ CacheInv' /\ UNCHANGED <<table, replaced>> /\ Late' = {} /\ crashes' # 0
         /\ \A b \in Bill : bill'[b] = "NONE"
<1>1. /\ bill' = [b \in Bill |-> "NONE"] /\ UNCHANGED <<table, replaced>>
      /\ tasks' = {} /\ lists' = {} /\ crashes' = crashes + 1
  BY DEF CrashOperations, B!CrashBills, B!Crashing
<1>2. crashes \in Nat
  BY DEF CacheInv, BillsTyped
<1> QED
  BY <1>1, <1>2 DEF CacheInv, BillsTyped, Cached, Warm, Late

\* The other services leave the bills alone.
LEMMA ElsewhereKeeps ==
  ASSUME \/ \E c \in Caller : Dispatch(c) \/ DispatchTrouble(c)
         \/ \E e \in L!Message : BackoffElapses(e)
         \/ Consume \/ ConsumeTrouble
         \/ UNCHANGED vars
  PROVE  /\ UNCHANGED <<bill, table, tasks, lists, replaced, crashes, failures>>
         /\ UNCHANGED <<replyPos, replyCommitted, Late>>
  BY DEF Dispatch, DispatchTrouble, BackoffElapses, Consume, ConsumeTrouble, billVars, vars, Late

LEMMA CacheStep == CacheInv /\ [Next]_vars => CacheInv'
<1> SUFFICES ASSUME CacheInv, [Next]_vars PROVE CacheInv'
  OBVIOUS
<1>1. CASE BillStep
  BY <1>1, BillStepDoes
<1>2. CASE \E t \in tasks : SaveBill(t) \/ FailTask(t) \/ Publish(t)
  BY <1>2, SaveDoes, FailDoes, PublishDoes
<1>3. CASE CrashOperations
  BY <1>3, CrashDoes
<1>4. CASE \/ \E c \in Caller : Dispatch(c) \/ DispatchTrouble(c)
           \/ \E e \in L!Message : BackoffElapses(e)
           \/ Consume \/ ConsumeTrouble
           \/ UNCHANGED vars
  BY <1>4, ElsewhereKeeps, CacheShrinks
<1> QED
  BY <1>1, <1>2, <1>3, <1>4 DEF Next, Progress, BillStep

-----------------------------------------------------------------------------
(* Posting.  The rows a call is at exist, so that marking them adds none.   *)
Call == [at : {"idle", "deliver", "markPublished", "markFailed"}, todo : SUBSET L!Message]

OutboxTyped ==
    /\ status \in [L!Message -> {"NONE", "PENDING", "FAILED", "PUBLISHED"}]
    /\ due \subseteq L!Message
    /\ flush \in [Caller -> Call]
    /\ \A c \in Caller : flush[c].todo \subseteq O!Saved

\* A post of the bill is being saved or published, or is out.
Posts(b) == {t \in Late : t.type = "billPosted" /\ t.doc = b}
Out(b) == {e \in O!Saved : e.type = "billPosted" /\ e.doc = b}

PostingOf(b) ==
    /\ Posts(b) # {} \/ Out(b) # {} => bill[b] # "DRAFT"
    /\ Out(b) # {} \/ (\E t \in Posts(b) : t.at = "publish") => table[b] # "DRAFT"
    /\ Out(b) # {} => Posts(b) = {}
    /\ \A t, u \in Posts(b) : t = u
    /\ \A e, f \in Out(b) : e = f

PostInv == CacheInv /\ OutboxTyped /\ \A b \in Bill \ replaced : PostingOf(b)

LEMMA PostInit == Init => PostInv
<1> SUFFICES ASSUME Init PROVE PostInv
  OBVIOUS
<1>1. CacheInv
  BY CacheInit
<1> USE DEF Init, O!Init, B!Init
<1>2. OutboxTyped
  BY DEF OutboxTyped, Call, O!Idle
<1>3. O!Saved = {} /\ tasks = {}
  BY DEF O!Saved
<1>4. ASSUME NEW b \in Bill PROVE PostingOf(b)
  BY <1>3 DEF PostingOf, Posts, Out, Late
<1> QED
  BY <1>1, <1>2, <1>4 DEF PostInv

(* A step of the outbox that stores no event.                               *)
LEMMA RowsKept ==
  ASSUME OutboxTyped, NEW e \in O!Saved, NEW s \in {"PENDING", "FAILED", "PUBLISHED"},
         status' = [status EXCEPT ![e] = s]
  PROVE  /\ status' \in [L!Message -> {"NONE", "PENDING", "FAILED", "PUBLISHED"}]
         /\ O!Saved' = O!Saved
  BY DEF OutboxTyped, O!Saved

LEMMA DispatchKeepsRows ==
  ASSUME OutboxTyped, NEW c \in Caller, O!Progress(c) \/ O!Trouble(c)
  PROVE  OutboxTyped' /\ O!Saved' = O!Saved
<1>1. CASE O!StartFlush(c)
  <2>1. O!Batch \subseteq O!Saved /\ O!Saved \subseteq L!Message
    BY DEF O!Batch, O!Ready, O!Saved, OutboxTyped
  <2>2. O!Saved' = O!Saved
    BY <1>1 DEF O!StartFlush, O!Saved
  <2> QED
    BY <1>1, <2>1, <2>2 DEF OutboxTyped, Call, O!StartFlush
<1>2. ASSUME NEW s \in {"deliver", "markPublished", "markFailed"},
             flush' = [flush EXCEPT ![c].at = s], UNCHANGED <<status, due>>
      PROVE  OutboxTyped' /\ O!Saved' = O!Saved
  <2>2. O!Saved' = O!Saved
    BY <1>2 DEF O!Saved
  <2> QED
    BY <1>2, <2>2 DEF OutboxTyped, Call
<1>3. ASSUME NEW e \in O!Saved, NEW s \in {"FAILED", "PUBLISHED"},
             status' = [status EXCEPT ![e] = s], due' = due \ {e}, O!Advance(c, e)
      PROVE  OutboxTyped' /\ O!Saved' = O!Saved
  <2>1. status' \in [L!Message -> {"NONE", "PENDING", "FAILED", "PUBLISHED"}]
        /\ O!Saved' = O!Saved
    BY <1>3, RowsKept
  <2>2. /\ flush' \in [Caller -> Call]
        /\ \A x \in Caller : flush'[x].todo \subseteq flush[x].todo
    BY <1>3 DEF OutboxTyped, Call, O!Advance, O!Idle
  <2> QED
    BY <1>3, <2>1, <2>2 DEF OutboxTyped
<1>4. ASSUME NEW e \in L!Message, O!Current(c, e) PROVE e \in O!Saved
  BY <1>4 DEF O!Current, OutboxTyped
<1>5. CASE O!MarkPublished(c)
  BY <1>5, <1>3, <1>4 DEF O!MarkPublished
<1>6. CASE O!MarkFailed(c)
  BY <1>6, <1>3, <1>4 DEF O!MarkFailed
<1>7. CASE O!MarkFailedError(c)
  <2>2. O!Saved' = O!Saved
    BY <1>7 DEF O!Saved, O!MarkFailedError
  <2> QED
    BY <1>7, <2>2 DEF OutboxTyped, Call, O!Idle, O!MarkFailedError
<1>8. CASE O!Deliver(c) \/ O!DeliverError(c) \/ O!MarkPublishedError(c)
  BY <1>8, <1>2 DEF O!Deliver, O!DeliverError, O!MarkPublishedError
<1> QED
  BY <1>1, <1>5, <1>6, <1>7, <1>8 DEF O!Progress, O!Trouble

LEMMA RowSaved ==
  ASSUME OutboxTyped, NEW e \in L!Message, O!Save(e), O!Saved' \subseteq O!Saved \cup {e}
  PROVE  OutboxTyped'
<1>1. status' \in [L!Message -> {"NONE", "PENDING", "FAILED", "PUBLISHED"}]
  BY DEF O!Save, OutboxTyped
<1>2. O!Saved \subseteq O!Saved'
  BY DEF O!Save, O!Saved, OutboxTyped
<1> QED
  BY <1>1, <1>2 DEF OutboxTyped, O!Save

-----------------------------------------------------------------------------
(* A step that starts no post, publishes none and makes no bill DRAFT.      *)
LEMMA PostingStays ==
  ASSUME NEW b \in Bill, PostingOf(b), Out(b)' = Out(b),
         \A t \in Posts(b)' : t \in Posts(b),
         bill[b] # "DRAFT" => bill'[b] # "DRAFT",
         table[b] # "DRAFT" => table'[b] # "DRAFT"
  PROVE  PostingOf(b)'
  BY DEF PostingOf

\* What leaves the bills, the tasks and the stored events alone.
LEMMA PostingUnchanged ==
  ASSUME PostInv, CacheInv', OutboxTyped', O!Saved' = O!Saved,
         UNCHANGED <<bill, table, replaced>>, Late' \subseteq Late
  PROVE  PostInv'
<1>1. ASSUME NEW b \in Bill \ replaced' PROVE PostingOf(b)'
  <2>1. PostingOf(b) /\ b \in Bill
    BY DEF PostInv
  <2>2. Out(b)' = Out(b) /\ \A t \in Posts(b)' : t \in Posts(b)
    BY DEF Posts, Out
  <2> QED
    BY <2>1, <2>2, PostingStays
<1> QED
  BY <1>1 DEF PostInv

LEMMA OutboxKept ==
  ASSUME OutboxTyped, UNCHANGED outboxVars
  PROVE  OutboxTyped' /\ O!Saved' = O!Saved
<1>1. O!Saved' = O!Saved
  BY DEF outboxVars, O!Saved
<1> QED
  BY <1>1 DEF outboxVars, OutboxTyped

LEMMA PostBillStep ==
  ASSUME PostInv, BillStep
  PROVE  PostInv'
<1>1. /\ UNCHANGED outboxVars /\ table' = table /\ replaced \subseteq replaced'
  BY BillStepKeeps
<1>2. OutboxTyped' /\ O!Saved' = O!Saved
  BY <1>1, OutboxKept DEF PostInv
<1>3. CacheInv /\ CacheInv' /\ (Quiet \/ \E type \in Kind, d \in Bill : Moves(type, d))
  BY BillStepDoes DEF PostInv
<1>4. ASSUME NEW b \in Bill \ replaced' PROVE PostingOf(b)'
  <2>1. PostingOf(b) /\ b \in Bill /\ b \notin replaced'
    BY <1>1 DEF PostInv
  <2>2. Out(b)' = Out(b)
    BY <1>2 DEF Out
  <2>3. bill[b] = "NONE" => Posts(b) = {}
    BY <1>3 DEF CacheInv, Cached, Posts, Late
  <2>4. bill[b] = "NONE" /\ Out(b) # {} => table[b] # "DRAFT"
    BY <2>1 DEF PostingOf
  <2>5. CASE Quiet
    <3>1. Posts(b)' = Posts(b)
      BY <2>5 DEF Quiet, Posts
    <3>2. bill'[b] = bill[b] \/ (bill[b] = "NONE" /\ bill'[b] = table[b])
      BY <2>1, <2>5 DEF Quiet
    <3> QED
      BY <1>1, <2>1, <2>2, <2>3, <2>4, <3>1, <3>2 DEF PostingOf
  <2>6. ASSUME NEW type \in Kind, NEW d \in Bill, Moves(type, d) PROVE PostingOf(b)'
    <3>1. PICK new : /\ new.type = type /\ new.doc = d /\ new.at = "save"
                     /\ Late' = Late \cup {new}
      BY <2>6 DEF Moves
    <3>2. CASE b # d
      <4>1. Posts(b)' = Posts(b) /\ bill'[b] = bill[b]
        BY <2>1, <2>6, <3>1, <3>2 DEF Moves, Posts
      <4> QED
        BY <1>1, <2>1, <2>2, <4>1 DEF PostingOf
    <3>3. CASE b = d
      <4>1. /\ bill'[b] = B!To(type)
            /\ bill[b] = B!From(type) \/ (bill[b] = "NONE" /\ table[b] = B!From(type))
        BY <2>1, <2>6, <3>3 DEF Moves
      <4>2. bill'[b] # "DRAFT"
        BY <4>1, StatusOfKind
      <4>3. CASE type = "billPosted"
        <5>1. Posts(b) = {} /\ Out(b) = {}
          BY <2>1, <2>3, <2>4, <4>1, <4>3 DEF PostingOf, B!From
        <5>2. Posts(b)' = {new}
          BY <3>1, <3>3, <4>3, <5>1 DEF Posts
        <5> QED
          BY <2>2, <3>1, <4>2, <5>1, <5>2 DEF PostingOf
      <4>4. CASE type # "billPosted"
        <5>1. Posts(b)' = Posts(b)
          BY <3>1, <4>4 DEF Posts
        <5> QED
          BY <1>1, <2>1, <2>2, <4>2, <5>1 DEF PostingOf
      <4> QED
        BY <4>3, <4>4
    <3> QED
      BY <3>2, <3>3
  <2> QED
    BY <1>3, <2>5, <2>6
<1> QED
  BY <1>2, <1>3, <1>4 DEF PostInv

LEMMA PostSaveBill ==
  ASSUME PostInv, NEW t \in tasks, SaveBill(t)
  PROVE  PostInv'
<1>1. OutboxTyped' /\ O!Saved' = O!Saved
  BY OutboxKept DEF PostInv, SaveBill
<1>2. UNCHANGED <<bill, replaced>> /\ t.at = "save"
  BY DEF SaveBill, B!SaveBill
<1>3. /\ CacheInv' /\ t \in Late /\ t.doc \in Bill /\ t.val \in B!Status \ {"DRAFT"}
      /\ table' = [table EXCEPT ![t.doc] = t.val]
      /\ IF t.type \in B!SagaReply THEN Late' = Late \ {t}
         ELSE \E next \in B!Task :
                 /\ next.type = t.type /\ next.doc = t.doc /\ next.at = "publish"
                 /\ Late' = (Late \ {t}) \cup {next}
  BY SaveDoes DEF PostInv
<1>4. table \in [Bill -> B!Status]
  BY DEF PostInv, CacheInv, BillsTyped
<1>6. ASSUME NEW b \in Bill \ replaced' PROVE PostingOf(b)'
  <2>0. PostingOf(b) /\ b \in Bill
    BY <1>2 DEF PostInv
  <2>1. Out(b)' = Out(b)
    BY <1>1 DEF Out
  <2>2. /\ table[b] # "DRAFT" => table'[b] # "DRAFT"
        /\ t.doc = b => table'[b] # "DRAFT"
    BY <1>3, <1>4, <2>0
  <2>3. CASE t \in Posts(b)
    <3>1. t.type = "billPosted" /\ t.doc = b
      BY <2>3 DEF Posts
    <3>2. Posts(b) = {t}
      BY <2>0, <2>3 DEF PostingOf
    <3>3. PICK next \in B!Task : /\ next.type = t.type /\ next.doc = t.doc
                                 /\ Late' = (Late \ {t}) \cup {next}
      BY <1>3, <3>1 DEF B!SagaReply
    <3>4. Posts(b)' = {next}
      BY <3>1, <3>2, <3>3 DEF Posts
    <3> QED
      BY <1>2, <2>0, <2>1, <2>2, <2>3, <3>1, <3>4 DEF PostingOf
  <2>4. CASE t \notin Posts(b)
    <3>1. \A u \in Posts(b)' : u \in Posts(b)
      BY <1>3, <2>4 DEF Posts
    <3> QED
      BY <1>2, <2>0, <2>1, <2>2, <3>1, PostingStays
  <2> QED
    BY <2>3, <2>4
<1> QED
  BY <1>1, <1>3, <1>6 DEF PostInv

LEMMA PostPublish ==
  ASSUME PostInv, NEW t \in tasks, Publish(t)
  PROVE  PostInv'
<1> DEFINE e == B!EventOf(t)
<1>1. /\ CacheInv' /\ UNCHANGED <<bill, table, replaced>>
      /\ t \in Late /\ t.at = "publish" /\ Late' = Late \ {t}
      /\ e \in L!Message /\ e.type = t.type /\ e.doc = t.doc
      /\ O!Saved' = O!Saved \cup {e}
  BY PublishDoes DEF PostInv
<1>2. OutboxTyped'
  BY <1>1, RowSaved DEF Publish, PostInv
<1> HIDE DEF e
<1>3. ASSUME NEW b \in Bill \ replaced' PROVE PostingOf(b)'
  <2>0. PostingOf(b) /\ b \in Bill
    BY <1>1 DEF PostInv
  <2>1. \A u \in Posts(b)' : u \in Posts(b)
    BY <1>1 DEF Posts
  <2>2. CASE t \in Posts(b)
    <3>1. Posts(b) = {t} /\ Out(b) = {} /\ bill[b] # "DRAFT" /\ table[b] # "DRAFT"
      BY <1>1, <2>0, <2>2 DEF PostingOf
    <3>2. Posts(b)' = {}
      BY <1>1, <3>1 DEF Posts
    <3>3. \A f \in Out(b)' : f = e
      BY <1>1, <3>1 DEF Out
    <3> QED
      BY <1>1, <3>1, <3>2, <3>3 DEF PostingOf
  <2>3. CASE t \notin Posts(b)
    <3>1. Out(b)' = Out(b)
      BY <1>1, <2>3 DEF Posts, Out
    <3> QED
      BY <1>1, <2>0, <2>1, <3>1, PostingStays
  <2> QED
    BY <2>2, <2>3
<1> QED
  BY <1>1, <1>2, <1>3 DEF PostInv

LEMMA PostCrash ==
  ASSUME PostInv, CrashOperations
  PROVE  PostInv'
<1>1. O!Saved' = O!Saved
  BY DEF CrashOperations, O!Saved
<1>2. OutboxTyped'
  BY <1>1 DEF CrashOperations, O!RestartDispatcher, OutboxTyped, PostInv, Call, O!Idle
<1>3. CacheInv' /\ UNCHANGED <<table, replaced>> /\ Late' = {}
      /\ \A b \in Bill : bill'[b] = "NONE"
  BY CrashDoes DEF PostInv
<1>4. ASSUME NEW b \in Bill \ replaced' PROVE PostingOf(b)'
  BY <1>1, <1>3 DEF PostInv, PostingOf, Posts, Out
<1> QED
  BY <1>2, <1>3, <1>4 DEF PostInv

LEMMA PostStep == PostInv /\ [Next]_vars => PostInv'
<1> SUFFICES ASSUME PostInv, [Next]_vars PROVE PostInv'
  OBVIOUS
<1>0. CacheInv'
  BY CacheStep DEF PostInv
<1>1. CASE BillStep
  BY <1>1, PostBillStep
<1>2. CASE \E t \in tasks : FailTask(t)
  <2>1. PICK t \in tasks : FailTask(t)
    BY <1>2
  <2>2. OutboxTyped' /\ O!Saved' = O!Saved
    BY <2>1, OutboxKept DEF PostInv, FailTask
  <2>3. UNCHANGED <<bill, table, replaced>> /\ Late' \subseteq Late
    BY <2>1, FailDoes DEF PostInv
  <2> QED
    BY <1>0, <2>2, <2>3, PostingUnchanged
<1>3. CASE \/ \E c \in Caller : Dispatch(c) \/ DispatchTrouble(c)
           \/ \E e \in L!Message : BackoffElapses(e)
           \/ Consume \/ ConsumeTrouble
           \/ UNCHANGED vars
  <2>1. UNCHANGED <<bill, table, replaced>> /\ Late' = Late
    BY <1>3, ElsewhereKeeps
  <2>2. OutboxTyped' /\ O!Saved' = O!Saved
    <3>1. CASE \E c \in Caller : Dispatch(c) \/ DispatchTrouble(c)
      BY <3>1, DispatchKeepsRows DEF PostInv, Dispatch, DispatchTrouble
    <3>2. CASE \E e \in L!Message : BackoffElapses(e)
      <4>1. PICK e \in L!Message : BackoffElapses(e)
        BY <3>2
      <4>2. O!Saved' = O!Saved
        BY <4>1 DEF BackoffElapses, O!BackoffElapses, O!Saved
      <4> QED
        BY <4>1, <4>2 DEF BackoffElapses, O!BackoffElapses, OutboxTyped, PostInv
    <3>3. CASE Consume \/ ConsumeTrouble \/ UNCHANGED vars
      <4>1. UNCHANGED outboxVars
        BY <3>3 DEF Consume, ConsumeTrouble, vars, outboxVars
      <4> QED
        BY <4>1, OutboxKept DEF PostInv
    <3> QED
      BY <1>3, <3>1, <3>2, <3>3
  <2> QED
    BY <1>0, <2>1, <2>2, PostingUnchanged
<1> QED
  BY <1>1, <1>2, <1>3, PostSaveBill, PostPublish, PostCrash DEF Next, Progress, BillStep

(* However the process of operations fails or stops between the save of a   *)
(* bill and that of its event, and however posts and lookups overlap: a     *)
(* bill whose billPosted is out is not DRAFT, and the event is out once,    *)
(* unless the object of the bill in the map was replaced by one of another  *)
(* status, or while a post held it.                                         *)
THEOREM PostsOnce == Spec => []PostedOnce
<1>1. PostInv => PostedOnce
  BY DEF PostInv, PostingOf, Out, PostedOnce, B!PostedOnce, B!IsPublished
<1> QED
  BY <1>1, PostInit, PostStep, PTL DEF Spec

-----------------------------------------------------------------------------
(* Reversals: what the ledger knows of a STORNO wherever it is.             *)
Booked(d) == \E s \in db : s.doc = d /\ s.kind = "STORNO"

LedgerTyped ==
    /\ errors \in Nat /\ lastId \in Nat
    /\ mem \subseteq L!Entry /\ db \subseteq L!Entry
    /\ handler \in {L!Idle} \cup L!Handling
    /\ ledgerTopic \in Seq(L!LedgerMessage)

\* A handler answers with an entry only if the table has the STORNO.
HandlerKnows ==
    /\ L!At("handle") => handler.entry = 0
    /\ L!At("persist") /\ L!IsRevert =>
         \E s \in mem : /\ s.id = handler.entry
                        /\ s.doc = handler.msg.doc
                        /\ s.kind = "STORNO"
    /\ L!At("update") \/ L!At("reply") => L!IsRevert
    /\ (L!At("update") \/ L!At("notify") \/ L!At("reply"))
       /\ L!IsRevert /\ handler.entry # 0 => Booked(handler.msg.doc)

AnswersKnow ==
    \A i \in DOMAIN ledgerTopic :
        ledgerTopic[i].type = "stornoPosted" => Booked(ledgerTopic[i].doc)

\* What operations believes about a bill: the statuses of its object, of its row,
\* and of what tasks and lists have in hand.
Believes(b) ==
    {bill[b], table[b]} \cup {t.val : t \in {u \in tasks : u.doc = b}}
    \cup {l.rows[b] : l \in {k \in lists : b \in DOMAIN k.rows}}

BillsKnow ==
    /\ \A b \in Bill : "REVERTED" \in Believes(b) => Booked(b)
    /\ \A t \in tasks : t.type = "stornoPosted" => Booked(t.doc)

StornoInv ==
    /\ PostInv
    /\ LedgerTyped
    /\ errors = 0 => HandlerKnows /\ AnswersKnow /\ BillsKnow

LEMMA StornoInit == Init => StornoInv
<1> SUFFICES ASSUME Init PROVE StornoInv
  OBVIOUS
<1> USE DEF Init, L!Init, B!Init
<1>1. LedgerTyped
  BY DEF LedgerTyped
<1>2. HandlerKnows
  BY DEF HandlerKnows, L!At, L!Idle
<1>3. AnswersKnow /\ BillsKnow
  BY DEF AnswersKnow, BillsKnow, Believes
<1> QED
  BY <1>1, <1>2, <1>3, PostInit DEF StornoInv

-----------------------------------------------------------------------------
(* Steps of operations: they read replies, and leave the journal alone.     *)
LEMMA JournalKept ==
  ASSUME StornoInv, PostInv', UNCHANGED <<mem, db, lastId, handler, errors, ledgerTopic>>,
         BillsKnow => BillsKnow'
  PROVE  StornoInv'
<1>1. LedgerTyped'
  BY DEF StornoInv, LedgerTyped
<1>2. \A d : Booked(d)' <=> Booked(d)
  BY DEF Booked
<1>3. HandlerKnows => HandlerKnows'
  BY <1>2 DEF HandlerKnows, L!At, L!IsRevert
<1>4. AnswersKnow => AnswersKnow'
  BY <1>2 DEF AnswersKnow
<1> QED
  BY <1>1, <1>3, <1>4 DEF StornoInv

\* A step that makes nobody believe more.
LEMMA BeliefStays ==
  ASSUME StornoInv, PostInv', UNCHANGED <<mem, db, lastId, handler, errors, ledgerTopic>>,
         \A b \in Bill : Believes(b)' \subseteq
            Believes(b) \cup {"NONE", "DRAFT", "POSTED", "PAID", "REVERSING"},
         \A t \in tasks' : t.type = "stornoPosted" =>
            \E u \in tasks : u.type = "stornoPosted" /\ u.doc = t.doc
  PROVE  StornoInv'
<1>1. \A d : Booked(d)' <=> Booked(d)
  BY DEF Booked
<1>2. BillsKnow => BillsKnow'
  BY <1>1 DEF BillsKnow
<1> QED
  BY <1>2, JournalKept

\* The task that enters, or takes the place of another one, believes no more
\* than its bill's row.
LEMMA TaskBelieves ==
  ASSUME NEW new, tasks' \subseteq tasks \cup {new}, UNCHANGED <<bill, table, lists>>,
         new.val \in {"NONE", table[new.doc]}
  PROVE  \A b \in Bill : Believes(b)' \subseteq Believes(b) \cup {"NONE"}
  BY DEF Believes

LEMMA StornoList ==
  ASSUME StornoInv, PostInv', NEW bs \in SUBSET Bill, ListBills(bs)
  PROVE  StornoInv'
<1> DEFINE rows == [b \in bs |-> table[b]]
           l == [no |-> listed + 1, rows |-> rows]
<1>1. UNCHANGED <<mem, db, lastId, handler, errors, ledgerTopic>>
  BY BillStepKeeps DEF BillStep, ListBills
<1>2. lists' = lists \cup {l} /\ UNCHANGED <<bill, table, tasks>>
  BY DEF ListBills, B!ListBills
<1>3. l.rows = rows /\ DOMAIN rows = bs /\ \A b \in bs : rows[b] = table[b]
  OBVIOUS
<1> HIDE DEF rows
<1>4. \A b \in Bill : Believes(b)' \subseteq Believes(b)
  BY <1>2, <1>3 DEF Believes
<1> QED
  BY <1>1, <1>2, <1>4, BeliefStays

LEMMA StornoFill ==
  ASSUME StornoInv, PostInv', NEW l \in lists, FillBills(l)
  PROVE  StornoInv'
<1>1. UNCHANGED <<mem, db, lastId, handler, errors, ledgerTopic>>
  BY BillStepKeeps DEF BillStep
<1>2. /\ lists' = lists \ {l} /\ table' = table
      /\ bill' = [b \in Bill |-> IF b \in DOMAIN l.rows THEN l.rows[b] ELSE bill[b]]
      /\ tasks' = B!Detached(DOMAIN l.rows)
  BY DEF FillBills, B!FillBills
<1>3. \A u \in tasks' : u \notin tasks => u.type = "billPosted" /\ u.val = bill[u.doc]
  BY <1>2, DetachedAre DEF StornoInv, PostInv, CacheInv
<1>4. \A b \in Bill : Believes(b)' \subseteq Believes(b)
  BY <1>2, <1>3 DEF Believes
<1> QED
  BY <1>1, <1>3, <1>4, BeliefStays

LEMMA StornoBegin ==
  ASSUME StornoInv, PostInv', NEW type \in B!Command, NEW d \in Bill, Begin(type, d)
  PROVE  StornoInv'
<1>1. UNCHANGED <<mem, db, lastId, handler, errors, ledgerTopic>>
  BY BillStepKeeps DEF BillStep
<1>2. /\ type # "stornoPosted" /\ type \in Kind /\ "billPosted" \in B!Command
      /\ B!To(type) \in {"POSTED", "PAID", "REVERSING"} /\ "billPosted" \in Kind
  BY DEF B!To, B!Command, Kind
<1>3. CASE B!Accept(type, d)
  <2> DEFINE new == B!NewTask(type, d, "save", B!To(type))
  <2>1. /\ tasks' = tasks \cup {new} /\ UNCHANGED <<table, lists>>
        /\ bill' = [bill EXCEPT ![d] = B!To(type)]
    BY <1>3 DEF B!Accept, B!Enter
  <2>2. new.val = B!To(type) /\ new.type = type /\ new.doc = d
    BY DEF B!NewTask
  <2> HIDE DEF new
  <2>3. \A b \in Bill : bill'[b] = bill[b] \/ bill'[b] = B!To(type)
    BY <2>1 DEF StornoInv, PostInv, CacheInv, BillsTyped
  <2>4. \A b \in Bill : Believes(b)' \subseteq Believes(b) \cup {B!To(type)}
    BY <2>1, <2>2, <2>3 DEF Believes
  <2> QED
    BY <1>1, <1>2, <2>1, <2>2, <2>4, BeliefStays
<1>4. ASSUME NEW kind \in B!Command, NEW at, UNCHANGED <<bill, table, lists>>,
             tasks' = tasks \cup {B!NewTask(kind, d, at, "NONE")}
      PROVE  StornoInv'
  <2> DEFINE new == B!NewTask(kind, d, at, "NONE")
  <2>1. new.val = "NONE" /\ new.type = kind /\ new.doc = d /\ kind # "stornoPosted"
    BY DEF B!NewTask, B!Command
  <2> HIDE DEF new
  <2>2. tasks' = tasks \cup {new}
    BY <1>4 DEF new
  <2>3. \A b \in Bill : Believes(b)' \subseteq Believes(b) \cup {"NONE"}
    BY <1>4, <2>1, <2>2, TaskBelieves
  <2> QED
    BY <1>1, <2>1, <2>2, <2>3, BeliefStays
<1>5. CASE B!FindBill(type, d)
  BY <1>4, <1>5 DEF B!FindBill
<1>6. CASE B!StartPost(d)
  BY <1>2, <1>4, <1>6 DEF B!StartPost
<1> QED
  BY <1>3, <1>5, <1>6 DEF Begin

LEMMA StornoLookUp ==
  ASSUME StornoInv, PostInv', NEW t \in tasks, LookUp(t)
  PROVE  StornoInv'
<1>1. UNCHANGED <<mem, db, lastId, handler, errors, ledgerTopic>>
  BY BillStepKeeps DEF BillStep
<1>2. t \in B!Task /\ t.type \in Kind /\ t.doc \in Bill
  BY DEF StornoInv, PostInv, CacheInv, BillsTyped, B!Task, Kind
<1>3. CASE B!ReadBill(t)
  <2> DEFINE new == [t EXCEPT !.at = "found", !.val = table[t.doc]]
  <2>1. tasks' = (tasks \ {t}) \cup {new} /\ UNCHANGED <<bill, table, lists>>
    BY <1>3 DEF B!ReadBill
  <2>2. new.val = table[new.doc] /\ new.type = t.type /\ new.doc = t.doc
    BY <1>2 DEF B!Task
  <2> HIDE DEF new
  <2>3. \A b \in Bill : Believes(b)' \subseteq Believes(b) \cup {"NONE"}
    BY <2>1, <2>2, TaskBelieves
  <2> QED
    BY <1>1, <2>1, <2>2, <2>3, BeliefStays
<1>4. CASE B!BillFound(t)
  <2> DEFINE check == [t EXCEPT !.at = "check", !.val = "NONE"]
             save == [t EXCEPT !.at = "save", !.val = B!To(t.type)]
  <2>1. /\ UNCHANGED <<table, lists>>
        /\ \/ /\ bill' = [bill EXCEPT ![t.doc] = t.val]
              /\ tasks' \subseteq B!Detached({t.doc}) \cup {check}
           \/ /\ bill' = [bill EXCEPT ![t.doc] = B!To(t.type)]
              /\ tasks' \subseteq B!Detached({t.doc}) \cup {save}
    BY <1>4 DEF B!BillFound, B!Enter
  <2>2. /\ check.val = "NONE" /\ check.doc = t.doc /\ check.type = t.type
        /\ save.val = B!To(t.type) /\ save.doc = t.doc /\ save.type = t.type
    BY <1>2 DEF B!Task
  <2>3. \A u \in B!Detached({t.doc}) : u \notin tasks => u.type = "billPosted" /\ u.val = bill[u.doc]
    BY DetachedAre DEF StornoInv, PostInv, CacheInv
  <2> HIDE DEF check, save
  <2>4. \A b \in Bill : Believes(b)' \subseteq
          Believes(b) \cup {"NONE"} \cup (IF b = t.doc THEN {B!To(t.type)} ELSE {})
    <3>1. \A b \in Bill : bill'[b] = bill[b] \/ (b = t.doc /\ bill'[b] \in {t.val, B!To(t.type)})
      BY <1>2, <2>1 DEF StornoInv, PostInv, CacheInv, BillsTyped
    <3>2. ASSUME NEW u \in tasks'
          PROVE  \/ u \in tasks \/ u.val = bill[u.doc] \/ u.val = "NONE"
                 \/ (u.doc = t.doc /\ u.val = B!To(t.type))
      BY <2>1, <2>2, <2>3, <3>2
    <3> QED
      BY <2>1, <3>1, <3>2 DEF Believes
  <2>5. \A u \in tasks' : u.type = "stornoPosted" =>
            \E x \in tasks : x.type = "stornoPosted" /\ x.doc = u.doc
    BY <2>1, <2>2, <2>3
  <2>6. CASE t.type # "stornoPosted"
    <3>1. B!To(t.type) \in {"POSTED", "PAID", "REVERSING"}
      BY <1>2, <2>6 DEF B!To, Kind, B!Command, B!SagaReply
    <3> QED
      BY <1>1, <2>4, <2>5, <3>1, BeliefStays
  <2>7. CASE t.type = "stornoPosted"
    <3>1. \A d : Booked(d)' <=> Booked(d)
      BY <1>1 DEF Booked
    <3>2. BillsKnow => Booked(t.doc)
      BY <2>7 DEF BillsKnow
    <3>3. \A b \in Bill : "REVERTED" \in Believes(b)' => "REVERTED" \in Believes(b) \/ b = t.doc
      BY <2>4
    <3>4. BillsKnow => BillsKnow'
      BY <2>5, <3>1, <3>2, <3>3 DEF BillsKnow
    <3> QED
      BY <1>1, <3>4, JournalKept
  <2> QED
    BY <2>6, <2>7
<1> QED
  BY <1>3, <1>4 DEF LookUp

LEMMA StornoPost ==
  ASSUME StornoInv, PostInv', NEW t \in tasks, Post(t)
  PROVE  StornoInv'
<1>1. UNCHANGED <<mem, db, lastId, handler, errors, ledgerTopic>>
  BY BillStepKeeps DEF BillStep
<1>2. CASE B!RefusePost(t)
  <2>1. UNCHANGED <<bill, table, lists>> /\ tasks' \subseteq tasks
    BY <1>2 DEF B!RefusePost
  <2>2. \A b \in Bill : Believes(b)' \subseteq Believes(b)
    BY <2>1 DEF Believes
  <2> QED
    BY <1>1, <2>1, <2>2, BeliefStays
<1>3. CASE B!Post(t)
  <2> DEFINE mine == [t EXCEPT !.val = "NONE", !.held = {}]
             new == [mine EXCEPT !.at = "save", !.val = "POSTED"]
             back(u) == [u EXCEPT !.val = "NONE", !.held = {}]
             bs == IF t.held = {} THEN {} ELSE {t.doc}
  <2>1. /\ UNCHANGED <<table, lists>> /\ t.at = "check"
        /\ bill' = [bill EXCEPT ![t.doc] = "POSTED"]
        /\ tasks' \subseteq B!PutBack(t) \cup {new}
    BY <1>3 DEF B!Post, B!Enter, B!InHand, B!InMap
  <2>2. B!PutBack(t) = {IF u \in B!Holders(t.doc, t.held) THEN back(u) ELSE u : u \in B!Detached(bs)}
    BY DEF B!PutBack, B!InMap
  <2>3. t \in B!Task /\ t.type = "billPosted"
    BY <2>1 DEF StornoInv, PostInv, CacheInv, BillsTyped
  <2>4. new.val = "POSTED" /\ new.type = "billPosted"
    BY <2>3 DEF B!Task
  <2> HIDE DEF bs
  <2>5. \A u \in B!Detached(bs) : u \notin tasks => u.type = "billPosted" /\ u.val = bill[u.doc]
    BY DetachedAre DEF StornoInv, PostInv, CacheInv
  <2>6. \A u \in B!Task : back(u).val = "NONE" /\ back(u).type = u.type
    BY DEF B!Task
  <2>7. \A u \in B!Holders(t.doc, t.held) : u \in B!Task /\ u.type = "billPosted"
    BY DEF B!Holders, StornoInv, PostInv, CacheInv, BillsTyped
  <2> HIDE DEF new, mine, back
  <2>8. ASSUME NEW u \in tasks'
        PROVE  u \in tasks \/ (u.type = "billPosted" /\ u.val \in {bill[u.doc], "NONE", "POSTED"})
    BY <2>1, <2>2, <2>4, <2>5, <2>6, <2>7, <2>8
  <2>9. \A b \in Bill : bill'[b] \in {bill[b], "POSTED"}
    BY <2>1 DEF StornoInv, PostInv, CacheInv, BillsTyped
  <2>10. \A b \in Bill : Believes(b)' \subseteq Believes(b) \cup {"NONE", "POSTED"}
    BY <2>1, <2>8, <2>9 DEF Believes
  <2> QED
    BY <1>1, <2>8, <2>10, BeliefStays
<1> QED
  BY <1>2, <1>3 DEF Post

LEMMA StornoSaveBill ==
  ASSUME StornoInv, PostInv', NEW t \in tasks, SaveBill(t)
  PROVE  StornoInv'
<1> DEFINE next == [t EXCEPT !.at = "publish"]
<1>1. UNCHANGED <<mem, db, lastId, handler, errors, ledgerTopic>>
  BY DEF SaveBill, B!SaveBill, ledgerVars
<1>2. t \in B!Task /\ table \in [Bill -> B!Status]
  BY DEF StornoInv, PostInv, CacheInv, BillsTyped
<1>3. /\ table' = [table EXCEPT ![t.doc] = t.val]
      /\ UNCHANGED <<bill, lists>> /\ tasks' \subseteq tasks \cup {next}
  BY DEF SaveBill, B!SaveBill
<1>4. next.val = t.val /\ next.doc = t.doc /\ next.type = t.type
  BY <1>2 DEF B!Task
<1> HIDE DEF next
<1>5. \A b \in Bill : table'[b] = table[b] \/ (b = t.doc /\ table'[b] = t.val)
  BY <1>2, <1>3
<1>6. \A b \in Bill : Believes(b)' \subseteq Believes(b)
  BY <1>3, <1>4, <1>5 DEF Believes
<1> QED
  BY <1>1, <1>3, <1>4, <1>6, BeliefStays

LEMMA StornoHandleReply ==
  ASSUME StornoInv, PostInv', ReadReply, B!HandleReply
  PROVE  StornoInv'
<1> DEFINE m == ledgerTopic[replyPos]
<1>1. UNCHANGED <<mem, db, lastId, handler, errors, ledgerTopic>>
  BY BillStepKeeps DEF BillStep
<1>2. replyPos \in DOMAIN ledgerTopic /\ UNCHANGED <<table, lists>>
  BY DEF B!HandleReply
<1>3. PICK new : /\ new.type = m.type /\ new.doc = m.doc /\ new.val \in {"NONE", B!To(m.type)}
                 /\ tasks' = tasks \cup {new}
  BY DEF B!HandleReply, B!NewTask
<1>4. bill' = bill \/ bill' = [bill EXCEPT ![m.doc] = B!To(m.type)]
  BY DEF B!HandleReply, B!Enter
<1>5. m.type \in B!SagaReply
  BY DEF B!HandleReply
<1>6. ASSUME AnswersKnow PROVE m.type = "stornoPosted" => Booked(m.doc)
  BY <1>2, <1>6 DEF AnswersKnow
<1>7. B!To(m.type) = "REVERTED" => m.type = "stornoPosted"
  BY <1>5 DEF B!To, B!SagaReply
<1> HIDE DEF m
<1>8. \A b \in Bill : bill'[b] = bill[b] \/ (b = m.doc /\ bill'[b] = B!To(m.type))
  BY <1>4 DEF StornoInv, PostInv, CacheInv, BillsTyped
<1>9. \A b \in Bill : "REVERTED" \in Believes(b)' =>
         "REVERTED" \in Believes(b) \/ (b = m.doc /\ B!To(m.type) = "REVERTED")
  BY <1>2, <1>3, <1>8 DEF Believes
<1>10. \A d : Booked(d)' <=> Booked(d)
  BY <1>1 DEF Booked
<1>11. ASSUME AnswersKnow, BillsKnow PROVE BillsKnow'
  BY <1>3, <1>6, <1>7, <1>9, <1>10, <1>11 DEF BillsKnow
<1>12. AnswersKnow => AnswersKnow'
  BY <1>1 DEF AnswersKnow, Booked
<1>13. HandlerKnows => HandlerKnows'
  BY <1>1 DEF HandlerKnows, Booked, L!At, L!IsRevert
<1>14. LedgerTyped'
  BY <1>1 DEF LedgerTyped, StornoInv
<1> QED
  BY <1>1, <1>11, <1>12, <1>13, <1>14 DEF StornoInv

\* The other steps of operations save and settle nothing.
LEMMA StornoQuiet ==
  ASSUME StornoInv, PostInv', UNCHANGED <<mem, db, lastId, handler, errors, ledgerTopic>>,
         tasks' \subseteq tasks, lists' \subseteq lists, table' = table,
         bill' = bill \/ bill' = [b \in Bill |-> "NONE"]
  PROVE  StornoInv'
<1>1. \A b \in Bill : Believes(b)' \subseteq Believes(b) \cup {"NONE"}
  BY DEF Believes
<1> QED
  BY <1>1, BeliefStays

-----------------------------------------------------------------------------
(* Steps of the ledger.                                                     *)
LEMMA GotoIsTyped ==
  ASSUME LedgerTyped, handler # L!Idle,
         NEW step \in {"persist", "update", "notify", "reply"}, L!Goto(step)
  PROVE  /\ handler' \in L!Handling
         /\ handler'.at = step /\ handler'.msg = handler.msg
         /\ handler'.entry = handler.entry
  BY DEF LedgerTyped, L!Goto, L!Handling

\* The handler goes on with the same message and entry, or is over.
GoesOn(steps) ==
    \/ handler' = L!Idle
    \/ /\ handler' \in L!Handling
       /\ handler'.at \in steps
       /\ handler'.msg = handler.msg /\ handler'.entry = handler.entry
       /\ handler'.at \in {"update", "reply"} => L!IsRevert

LEMMA HandlerGoesOn ==
  ASSUME LedgerTyped, handler # L!Idle
  PROVE  /\ L!NextAfterWrite => GoesOn({"notify", "reply"})
         /\ L!AfterPersist => GoesOn({"update", "notify", "reply"})
         /\ L!AfterNotify => GoesOn({"reply"})
<1>1. L!NextAfterWrite => GoesOn({"notify", "reply"})
  BY GotoIsTyped DEF L!NextAfterWrite, L!Done, GoesOn
<1>2. L!AfterPersist => GoesOn({"update", "notify", "reply"})
  BY <1>1, GotoIsTyped DEF L!AfterPersist, GoesOn
<1>3. L!AfterNotify => GoesOn({"reply"})
  BY GotoIsTyped DEF L!AfterNotify, L!Done, GoesOn
<1> QED
  BY <1>1, <1>2, <1>3

LEMMA GoesOnKnowing ==
  ASSUME GoesOn({"update", "notify", "reply"}), NEW d, d = handler.msg.doc,
         L!IsRevert /\ handler.entry # 0 => Booked(d)'
  PROVE  HandlerKnows'
<1>1. CASE handler' = L!Idle
  BY <1>1 DEF HandlerKnows, L!At, L!Idle
<1>2. CASE handler' # L!Idle
  <2>1. /\ handler'.at \in {"update", "notify", "reply"}
        /\ handler'.msg = handler.msg /\ handler'.entry = handler.entry
        /\ handler'.at \in {"update", "reply"} => L!IsRevert
    BY <1>2 DEF GoesOn
  <2>2. L!IsRevert' <=> L!IsRevert
    BY <2>1 DEF L!IsRevert
  <2>3. Booked(handler.msg.doc)' <=> Booked(d)'
    BY <2>1 DEF Booked
  <2> QED
    BY <2>1, <2>2, <2>3 DEF HandlerKnows, L!At
<1> QED
  BY <1>1, <1>2

(* A step that takes no STORNO from the table and answers nothing new.      *)
LEMMA BooksGrow ==
  ASSUME StornoInv, PostInv', LedgerTyped', UNCHANGED <<bill, table, tasks, lists>>,
         errors' = errors, ledgerTopic' = ledgerTopic,
         \A d : Booked(d) => Booked(d)',
         errors = 0 => HandlerKnows'
  PROVE  StornoInv'
<1>1. BillsKnow => BillsKnow'
  BY DEF BillsKnow, Believes
<1>2. AnswersKnow => AnswersKnow'
  BY DEF AnswersKnow
<1> QED
  BY <1>1, <1>2 DEF StornoInv

LEMMA AppendIndex ==
  ASSUME NEW S, NEW q \in Seq(S), NEW m \in S
  PROVE  /\ DOMAIN Append(q, m) = DOMAIN q \cup {Len(q) + 1}
         /\ \A i \in DOMAIN q : Append(q, m)[i] = q[i]
         /\ Append(q, m)[Len(q) + 1] = m
  OBVIOUS

\* The same, when something is sent to ledger.events.
LEMMA AnswerKnowing ==
  ASSUME StornoInv, PostInv', LedgerTyped', UNCHANGED <<bill, table, tasks, lists, db>>,
         errors' = errors, NEW m \in L!LedgerMessage, ledgerTopic' = Append(ledgerTopic, m),
         errors = 0 => HandlerKnows' /\ (m.type = "stornoPosted" => Booked(m.doc))
  PROVE  StornoInv'
<1>1. \A d : Booked(d)' <=> Booked(d)
  BY DEF Booked
<1>2. BillsKnow => BillsKnow'
  BY <1>1 DEF BillsKnow, Believes
<1>3. ASSUME errors = 0 PROVE AnswersKnow'
  <2>1. ledgerTopic \in Seq(L!LedgerMessage)
    BY DEF StornoInv, LedgerTyped
  <2> DEFINE q == Append(ledgerTopic, m)
  <2>2. /\ DOMAIN q = DOMAIN ledgerTopic \cup {Len(ledgerTopic) + 1}
        /\ \A i \in DOMAIN ledgerTopic : q[i] = ledgerTopic[i]
        /\ q[Len(ledgerTopic) + 1] = m
    BY <2>1, AppendIndex
  <2>3. ledgerTopic' = q
    OBVIOUS
  <2> HIDE DEF q
  <2>4. ASSUME NEW i \in DOMAIN ledgerTopic'
        PROVE  ledgerTopic'[i] = m \/ (i \in DOMAIN ledgerTopic /\ ledgerTopic'[i] = ledgerTopic[i])
    BY <2>4, <2>2, <2>3
  <2>5. AnswersKnow
    BY <1>3 DEF StornoInv
  <2> QED
    BY <1>1, <1>3, <2>4, <2>5 DEF AnswersKnow
<1> QED
  BY <1>2, <1>3 DEF StornoInv

\* An error was swallowed: nothing is promised.
LEMMA Swallowed ==
  ASSUME StornoInv, PostInv', LedgerTyped', errors' # 0
  PROVE  StornoInv'
  BY DEF StornoInv

LEMMA ErrorStep ==
  ASSUME StornoInv, PostInv', ConsumeTrouble, ~L!Rebalance, ~L!Crash
  PROVE  StornoInv'
<1> USE DEF L!Error
<1>1. errors' = errors + 1 /\ UNCHANGED <<mem, db, lastId, ledgerTopic>>
  BY DEF ConsumeTrouble, L!Trouble, L!IngestError, L!PersistError, L!UpdateError,
         L!NotifyError, L!ReplyError
<1>2. handler' \in {L!Idle} \cup L!Handling
  <2>1. \A step \in {"persist", "update", "notify", "reply"} : L!At(step) => handler # L!Idle
    BY DEF L!At, L!Idle
  <2>2. CASE L!IngestError
    BY <2>2 DEF L!IngestError, StornoInv, LedgerTyped
  <2>3. CASE L!PersistError
    BY <2>1, <2>3, HandlerGoesOn DEF L!PersistError, StornoInv, GoesOn
  <2>4. CASE L!UpdateError
    BY <2>1, <2>4, HandlerGoesOn DEF L!UpdateError, StornoInv, GoesOn
  <2>5. CASE L!NotifyError
    BY <2>1, <2>5, HandlerGoesOn DEF L!NotifyError, StornoInv, GoesOn
  <2>6. CASE L!ReplyError
    BY <2>6 DEF L!ReplyError, L!Done
  <2> QED
    BY <2>2, <2>3, <2>4, <2>5, <2>6 DEF ConsumeTrouble, L!Trouble
<1>3. LedgerTyped' /\ errors' # 0
  BY <1>1, <1>2 DEF StornoInv, LedgerTyped
<1> QED
  BY <1>3, Swallowed

LEMMA StornoPostEntry ==
  ASSUME StornoInv, PostInv', Consume, L!PostEntry
  PROVE  StornoInv'
<1>1. /\ L!At("handle") /\ ~L!IsRevert
      /\ lastId' = lastId + 1 /\ UNCHANGED <<db, ledgerTopic, errors, bill, table, tasks, lists>>
      /\ handler' = [handler EXCEPT !.at = "persist", !.entry = lastId + 1]
  BY DEF Consume, billVars, L!PostEntry, L!IsRevert, L!PostTypes, L!PayTypes, L!RevertTypes
<1>2. handler \in L!Handling /\ lastId \in Nat /\ lastId + 1 \in Nat
  BY <1>1 DEF L!At, L!Idle, StornoInv, LedgerTyped
<1>3. handler' \in L!Handling /\ handler'.at = "persist" /\ handler'.msg = handler.msg
  BY <1>1, <1>2 DEF L!Handling
<1>4. HandlerKnows'
  BY <1>1, <1>3 DEF HandlerKnows, L!At, L!IsRevert
<1>5. mem' \subseteq L!Entry
  <2>1. handler.msg.doc \in L!Doc
    BY <1>2 DEF L!Handling, L!Message, L!Doc
  <2>2. [id |-> lastId + 1, doc |-> handler.msg.doc, kind |-> "ORIGINAL",
         part |-> IF handler.msg.type \in L!PayTypes THEN "payment" ELSE "document",
         reversedBy |-> 0] \in L!Entry
    BY <1>2, <2>1 DEF L!Entry
  <2> QED
    BY <2>2 DEF L!PostEntry, StornoInv, LedgerTyped
<1>6. LedgerTyped'
  BY <1>1, <1>2, <1>3, <1>5 DEF StornoInv, LedgerTyped
<1>7. \A d : Booked(d) => Booked(d)'
  BY <1>1 DEF Booked
<1> QED
  BY <1>1, <1>4, <1>6, <1>7, BooksGrow

LEMMA StornoPostStorno ==
  ASSUME StornoInv, PostInv', Consume, L!PostStorno
  PROVE  StornoInv'
<1>1. /\ L!At("handle")
      /\ lastId' = lastId + 1 /\ UNCHANGED <<db, ledgerTopic, errors, bill, table, tasks, lists>>
  BY DEF Consume, billVars, L!PostStorno
<1>2. PICK o \in L!Reversible(handler.msg.doc) :
         /\ mem' = (mem \ {o}) \cup
              {[o EXCEPT !.reversedBy = lastId + 1],
               [o EXCEPT !.id = lastId + 1, !.kind = "STORNO"]}
         /\ handler' = [handler EXCEPT !.at = "persist", !.entry = lastId + 1,
                                       !.original = o.id]
  BY DEF L!PostStorno
<1>3. /\ handler \in L!Handling /\ lastId \in Nat /\ lastId + 1 \in Nat
      /\ o \in L!Entry /\ o.doc = handler.msg.doc /\ o.id \in Nat
  BY <1>1 DEF L!At, L!Idle, StornoInv, LedgerTyped, L!Reversible, L!Entry
<1>4. /\ handler' \in L!Handling /\ handler'.at = "persist"
      /\ handler'.msg = handler.msg /\ handler'.entry = lastId + 1
  BY <1>2, <1>3 DEF L!Handling
<1> DEFINE storno == [o EXCEPT !.id = lastId + 1, !.kind = "STORNO"]
<1>5. /\ storno \in L!Entry /\ [o EXCEPT !.reversedBy = lastId + 1] \in L!Entry
      /\ storno.id = lastId + 1 /\ storno.doc = handler.msg.doc /\ storno.kind = "STORNO"
  BY <1>3 DEF L!Entry
<1>6. LedgerTyped'
  BY <1>1, <1>2, <1>3, <1>4, <1>5 DEF StornoInv, LedgerTyped
<1>7. HandlerKnows'
  BY <1>2, <1>4, <1>5 DEF HandlerKnows, L!At
<1>8. \A d : Booked(d) => Booked(d)'
  BY <1>1 DEF Booked
<1> QED
  BY <1>1, <1>6, <1>7, <1>8, BooksGrow

LEMMA StornoRefuse ==
  ASSUME StornoInv, PostInv', Consume, L!RefuseStorno
  PROVE  StornoInv'
<1>1. /\ L!At("handle") /\ L!IsRevert /\ L!Goto("reply")
      /\ UNCHANGED <<mem, db, lastId, ledgerTopic, errors, bill, table, tasks, lists>>
  BY DEF Consume, billVars, L!RefuseStorno
<1>2. handler # L!Idle
  BY <1>1 DEF L!At, L!Idle
<1>3. GoesOn({"update", "notify", "reply"}) /\ handler' \in L!Handling
  BY <1>1, <1>2, GotoIsTyped DEF GoesOn, StornoInv
<1>4. errors = 0 => handler.entry = 0
  BY <1>1 DEF StornoInv, HandlerKnows
<1>5. errors = 0 => HandlerKnows'
  BY <1>3, <1>4, GoesOnKnowing
<1>6. LedgerTyped'
  BY <1>1, <1>3 DEF StornoInv, LedgerTyped
<1>7. \A d : Booked(d) => Booked(d)'
  BY <1>1 DEF Booked
<1> QED
  BY <1>1, <1>5, <1>6, <1>7, BooksGrow

LEMMA StornoPersist ==
  ASSUME StornoInv, PostInv', Consume, L!Persist
  PROVE  StornoInv'
<1>1. /\ L!At("persist") /\ db' = db \cup L!NewRow /\ L!AfterPersist
      /\ UNCHANGED <<mem, lastId, ledgerTopic, errors, bill, table, tasks, lists>>
  BY DEF Consume, billVars, L!Persist
<1>2. handler # L!Idle /\ handler \in L!Handling
  BY <1>1 DEF L!At, L!Idle, StornoInv, LedgerTyped
<1>3. GoesOn({"update", "notify", "reply"})
  BY <1>1, <1>2, HandlerGoesOn DEF StornoInv
<1>4. \A e \in L!Entry : /\ [e EXCEPT !.reversedBy = 0] \in L!Entry
                         /\ [e EXCEPT !.reversedBy = 0].doc = e.doc
                         /\ [e EXCEPT !.reversedBy = 0].kind = e.kind
  BY DEF L!Entry
<1>5. LedgerTyped'
  <2>1. L!NewRow \subseteq L!Entry
    BY <1>4 DEF L!NewRow, StornoInv, LedgerTyped
  <2> QED
    BY <1>1, <1>3, <2>1 DEF StornoInv, LedgerTyped, GoesOn
<1>6. \A d : Booked(d) => Booked(d)'
  BY <1>1 DEF Booked
<1>7. ASSUME errors = 0, L!IsRevert, NEW d, d = handler.msg.doc PROVE Booked(d)'
  <2>1. PICK s \in mem : s.id = handler.entry /\ s.doc = d /\ s.kind = "STORNO"
    BY <1>1, <1>7 DEF StornoInv, HandlerKnows
  <2>2. s \in L!Entry
    BY DEF StornoInv, LedgerTyped
  <2>3. [s EXCEPT !.reversedBy = 0] \in db'
    BY <1>1, <2>1 DEF L!NewRow
  <2> QED
    BY <1>4, <2>1, <2>2, <2>3 DEF Booked
<1>8. errors = 0 => HandlerKnows'
  <2> DEFINE d == handler.msg.doc
  <2>1. errors = 0 => (L!IsRevert => \E s \in db' : s.doc = d /\ s.kind = "STORNO")
    BY <1>7 DEF Booked
  <2> QED
    BY <1>3, <1>7, GoesOnKnowing
<1> QED
  BY <1>1, <1>5, <1>6, <1>8, BooksGrow

LEMMA StornoUpdate ==
  ASSUME StornoInv, PostInv', Consume, L!UpdateOriginal
  PROVE  StornoInv'
<1> DEFINE marked(e) == IF e.id = handler.original
                        THEN [e EXCEPT !.reversedBy = handler.entry] ELSE e
<1>1. /\ L!At("update") /\ db' = {marked(e) : e \in db} /\ L!NextAfterWrite
      /\ UNCHANGED <<mem, lastId, ledgerTopic, errors, bill, table, tasks, lists>>
  BY DEF Consume, billVars, L!UpdateOriginal
<1>2. handler # L!Idle /\ handler \in L!Handling /\ handler.entry \in Nat
  BY <1>1 DEF L!At, L!Idle, L!Handling, StornoInv, LedgerTyped
<1>3. GoesOn({"notify", "reply"})
  BY <1>1, <1>2, HandlerGoesOn DEF StornoInv
<1>4. ASSUME NEW e \in L!Entry
      PROVE  marked(e) \in L!Entry /\ marked(e).doc = e.doc /\ marked(e).kind = e.kind
  BY <1>2 DEF L!Entry
<1>5. db \subseteq L!Entry
  BY DEF StornoInv, LedgerTyped
<1> HIDE DEF marked
<1>6. LedgerTyped'
  <2>1. db' \subseteq L!Entry
    BY <1>1, <1>4, <1>5
  <2> QED
    BY <1>1, <1>3, <2>1 DEF StornoInv, LedgerTyped, GoesOn
<1>7. ASSUME NEW d, Booked(d) PROVE Booked(d)'
  <2>1. PICK s \in db : s.doc = d /\ s.kind = "STORNO"
    BY <1>7 DEF Booked
  <2>2. marked(s) \in db' /\ marked(s).doc = d /\ marked(s).kind = "STORNO"
    BY <1>1, <1>4, <1>5, <2>1
  <2> QED
    BY <2>2 DEF Booked
<1>8. errors = 0 => HandlerKnows'
  <2>1. ASSUME errors = 0, NEW d, d = handler.msg.doc, L!IsRevert, handler.entry # 0
        PROVE  Booked(d)'
    <3>1. Booked(d)
      BY <1>1, <2>1 DEF StornoInv, HandlerKnows, Booked
    <3> QED
      BY <1>7, <3>1
  <2>2. GoesOn({"update", "notify", "reply"})
    BY <1>3 DEF GoesOn
  <2> QED
    BY <2>1, <2>2, GoesOnKnowing
<1> QED
  BY <1>1, <1>6, <1>7, <1>8, BooksGrow

LEMMA StornoNotify ==
  ASSUME StornoInv, PostInv', Consume, L!Notify
  PROVE  StornoInv'
<1> DEFINE m == [type |-> "journalEntryPosted", doc |-> handler.msg.doc, entry |-> handler.entry]
<1>1. /\ L!At("notify") /\ ledgerTopic' = Append(ledgerTopic, m) /\ L!AfterNotify
      /\ UNCHANGED <<mem, db, lastId, errors, bill, table, tasks, lists>>
  BY DEF Consume, billVars, L!Notify
<1>2. handler # L!Idle /\ handler \in L!Handling
  BY <1>1 DEF L!At, L!Idle, StornoInv, LedgerTyped
<1>3. m \in L!LedgerMessage /\ m.type # "stornoPosted"
  BY <1>2 DEF L!LedgerMessage, L!Handling, L!Message, L!Doc
<1>4. GoesOn({"reply"})
  BY <1>1, <1>2, HandlerGoesOn DEF StornoInv
<1> HIDE DEF m
<1>5. LedgerTyped'
  <2>1. ledgerTopic' \in Seq(L!LedgerMessage)
    BY <1>1, <1>3 DEF StornoInv, LedgerTyped
  <2> QED
    BY <1>1, <1>4, <2>1 DEF StornoInv, LedgerTyped, GoesOn
<1>6. errors = 0 => HandlerKnows'
  <2>1. ASSUME errors = 0, NEW d, d = handler.msg.doc, L!IsRevert, handler.entry # 0
        PROVE  Booked(d)'
    BY <1>1, <2>1 DEF StornoInv, HandlerKnows, Booked
  <2>2. GoesOn({"update", "notify", "reply"})
    BY <1>4 DEF GoesOn
  <2> QED
    BY <2>1, <2>2, GoesOnKnowing
<1> QED
  BY <1>1, <1>3, <1>5, <1>6, AnswerKnowing

LEMMA StornoReply ==
  ASSUME StornoInv, PostInv', Consume, L!Reply
  PROVE  StornoInv'
<1> DEFINE m == [type |-> IF handler.entry = 0 THEN "stornoFailed" ELSE "stornoPosted",
                 doc |-> handler.msg.doc, entry |-> handler.entry]
<1>1. /\ L!At("reply") /\ ledgerTopic' = Append(ledgerTopic, m) /\ handler' = L!Idle
      /\ UNCHANGED <<mem, db, lastId, errors, bill, table, tasks, lists>>
  BY DEF Consume, billVars, L!Reply, L!Done
<1>2. handler \in L!Handling
  BY <1>1 DEF L!At, L!Idle, StornoInv, LedgerTyped
<1>3. m \in L!LedgerMessage
  BY <1>2 DEF L!LedgerMessage, L!Handling, L!Message, L!Doc
<1>4. ASSUME errors = 0, m.type = "stornoPosted" PROVE Booked(m.doc)
  BY <1>1, <1>4 DEF StornoInv, HandlerKnows, Booked
<1> HIDE DEF m
<1>5. LedgerTyped'
  <2>1. ledgerTopic' \in Seq(L!LedgerMessage)
    BY <1>1, <1>3 DEF StornoInv, LedgerTyped
  <2> QED
    BY <1>1, <2>1 DEF StornoInv, LedgerTyped
<1>6. HandlerKnows'
  BY <1>1 DEF HandlerKnows, L!At, L!Idle
<1> QED
  BY <1>1, <1>3, <1>4, <1>5, <1>6, AnswerKnowing

\* The steps of the ledger that leave the journal as it is.
LEMMA StornoOther ==
  ASSUME StornoInv, PostInv', UNCHANGED <<bill, table, tasks, lists>>,
         \/ L!SkipDuplicate \/ L!Commit \/ L!Rebalance
         \/ L!Ingest \/ L!IgnoreInvoiceSent \/ L!Crash
  PROVE  StornoInv'
<1>1. CASE L!SkipDuplicate \/ L!Commit \/ L!Rebalance
  <2>1. UNCHANGED <<mem, db, lastId, handler, errors, ledgerTopic>>
    BY <1>1 DEF L!SkipDuplicate, L!Commit, L!Rebalance
  <2> QED
    BY <2>1, StornoQuiet
<1>2. CASE L!Ingest
  <2>1. PICK m \in L!Message :
           handler' = [at |-> "handle", msg |-> m, entry |-> 0, original |-> 0]
    BY <1>2 DEF L!Ingest
  <2>2. UNCHANGED <<mem, db, lastId, errors, ledgerTopic>>
    BY <1>2 DEF L!Ingest
  <2>3. LedgerTyped'
    BY <2>1, <2>2 DEF StornoInv, LedgerTyped, L!Handling
  <2>4. HandlerKnows'
    BY <2>1 DEF HandlerKnows, L!At
  <2>5. \A d : Booked(d) => Booked(d)'
    BY <2>2 DEF Booked
  <2> QED
    BY <2>2, <2>3, <2>4, <2>5, BooksGrow
<1>3. CASE L!IgnoreInvoiceSent \/ L!Crash
  <2>1. /\ handler' = L!Idle /\ mem' \in {mem, db}
        /\ UNCHANGED <<db, lastId, errors, ledgerTopic>>
    BY <1>3 DEF L!IgnoreInvoiceSent, L!Crash, L!Done
  <2>2. LedgerTyped'
    BY <2>1 DEF StornoInv, LedgerTyped
  <2>3. HandlerKnows'
    BY <2>1 DEF HandlerKnows, L!At, L!Idle
  <2>4. \A d : Booked(d) => Booked(d)'
    BY <2>1 DEF Booked
  <2> QED
    BY <2>1, <2>2, <2>3, <2>4, BooksGrow
<1> QED
  BY <1>1, <1>2, <1>3

LEMMA StornoStep == StornoInv /\ [Next]_vars => StornoInv'
<1> SUFFICES ASSUME StornoInv, [Next]_vars PROVE StornoInv'
  OBVIOUS
<1>1. PostInv'
  BY PostStep DEF StornoInv
<1>2. CASE UNCHANGED vars
  BY <1>1, <1>2, StornoQuiet DEF vars
<1>3. CASE \/ \E bs \in SUBSET Bill : ListBills(bs)
           \/ \E l \in lists : FillBills(l)
           \/ \E type \in B!Command, b \in Bill : Begin(type, b)
  BY <1>1, <1>3, StornoList, StornoFill, StornoBegin
<1>4. CASE \E t \in tasks : Progress(t) \/ FailTask(t)
  <2>1. PICK t \in tasks : Progress(t) \/ FailTask(t)
    BY <1>4
  <2>2. CASE FailTask(t)
    BY <1>1, <2>2, StornoQuiet DEF FailTask, B!TaskError, ledgerVars
  <2>3. CASE Publish(t)
    BY <1>1, <2>3, StornoQuiet DEF Publish, B!Publish, ledgerVars
  <2> QED
    BY <1>1, <2>1, <2>2, <2>3, StornoLookUp, StornoPost, StornoSaveBill DEF Progress
<1>5. CASE ReadReply
  <2>1. CASE B!SkipReply
    BY <1>1, <1>5, <2>1, StornoQuiet DEF ReadReply, B!SkipReply, ledgerVars
  <2> QED
    BY <1>1, <1>5, <2>1, StornoHandleReply DEF ReadReply
<1>6. CASE MoveReplyOffset
  BY <1>1, <1>6, StornoQuiet DEF MoveReplyOffset, B!CommitReply, B!RebalanceReplies, ledgerVars
<1>7. CASE CrashOperations
  BY <1>1, <1>7, StornoQuiet DEF CrashOperations, B!CrashBills, ledgerVars
<1>8. CASE \E c \in Caller : Dispatch(c) \/ DispatchTrouble(c)
  BY <1>1, <1>8, StornoQuiet DEF Dispatch, DispatchTrouble, ledgerVars, billVars
<1>9. CASE \E e \in L!Message : BackoffElapses(e)
  BY <1>1, <1>9, StornoQuiet DEF BackoffElapses, ledgerVars, billVars
<1>10. CASE Consume
  <2>1. UNCHANGED <<bill, table, tasks, lists>>
    BY <1>10 DEF Consume, billVars
  <2>2. \/ L!SkipDuplicate \/ L!Ingest \/ L!Commit
        \/ L!PostEntry \/ L!PostStorno \/ L!RefuseStorno \/ L!IgnoreInvoiceSent
        \/ L!Persist \/ L!UpdateOriginal \/ L!Notify \/ L!Reply
    BY <1>10 DEF Consume, L!Progress, L!Handle
  <2> QED
    BY <1>1, <1>10, <2>1, <2>2, StornoOther, StornoPostEntry, StornoPostStorno, StornoRefuse,
       StornoPersist, StornoUpdate, StornoNotify, StornoReply
<1>11. CASE ConsumeTrouble
  <2>1. UNCHANGED <<bill, table, tasks, lists>>
    BY <1>11 DEF ConsumeTrouble, billVars
  <2> QED
    BY <1>1, <1>11, <2>1, StornoOther, ErrorStep
<1> QED
  BY <1>2, <1>3, <1>4, <1>5, <1>6, <1>7, <1>8, <1>9, <1>10, <1>11 DEF Next

(* Unless the ledger has swallowed an error of its database: a bill is      *)
(* REVERTED, in memory or in the table, only if its STORNO is in the        *)
(* journal table, whatever stops, is repeated or comes late.                *)
THEOREM RevertedIsBooked == Spec => [](errors = 0 => RevertedHasStorno)
<1>1. StornoInv => (errors = 0 => RevertedHasStorno)
  BY DEF StornoInv, BillsKnow, Believes, Booked, RevertedHasStorno
<1> QED
  BY <1>1, StornoInit, StornoStep, PTL DEF Spec

-----------------------------------------------------------------------------
(* The ledger of the saga is the ledger of Ledger_proofs.  Only its topic   *)
(* is written by somebody else, and no invariant of it looks there.         *)
\* The amounts and the dates of its reports are of no interest here.
LP == INSTANCE Ledger_proofs WITH
        Invoice <- {}, Movement <- {}, Copy <- 1 .. MaxCopies, Receipt <- {}, Old <- {},
        Amount <- [d \in Bill |-> 0],
        DateOf <- [d \in Bill |-> [what \in {"post", "pay", "revert"} |-> <<1, 1>>]],
        loaded <- lastId

LEMMA LedgerAssumed == LP!LedgerAssumption /\ LP!ReportsAssumption
<1>1. LP!LedgerAssumption
  BY SagaAssumption DEF LP!LedgerAssumption
<1>2. LP!Doc = Bill
  BY DEF LP!Doc
<1>3. [d \in Bill |-> 0] \in [Bill -> Nat]
  OBVIOUS
<1>4. <<1, 1>> \in {d \in (1 .. 12) \X (1 .. 31) : d[2] <= LP!LastDay(d[1])}
  BY DEF LP!LastDay
<1>5. [d \in Bill |-> [what \in {"post", "pay", "revert"} |-> <<1, 1>>]]
        \in [Bill -> [{"post", "pay", "revert"} ->
                       {d \in (1 .. 12) \X (1 .. 31) : d[2] <= LP!LastDay(d[1])}]]
  BY <1>4
<1>6. LP!IsFiniteSet({}) /\ 1 .. MaxCopies # {}
  <2>1. <<>> \in Seq({}) /\ \A e \in {} : \E n \in 1 .. Len(<<>>) : <<>>[n] = e
    OBVIOUS
  <2>2. LP!IsFiniteSet({})
    BY <2>1 DEF LP!IsFiniteSet
  <2> QED
    BY <2>2, SagaAssumption
<1>7. [d \in Bill |-> 0] \in [LP!Doc -> Nat]
  BY <1>2, <1>3
<1>8. [d \in Bill |-> [what \in {"post", "pay", "revert"} |-> <<1, 1>>]]
        \in [LP!Doc -> [{"post", "pay", "revert"} ->
                         {d \in (1 .. 12) \X (1 .. 31) : d[2] <= LP!LastDay(d[1])}]]
  BY <1>2, <1>5, Zenon
<1> QED
  BY <1>1, <1>6, <1>7, <1>8, Zenon DEF LP!ReportsAssumption

LEMMA SameLedger ==
  /\ L!Progress => LP!Progress
  /\ L!Trouble => LP!Trouble
<1> USE DEF L!At, LP!At, L!Goto, LP!Goto, L!Done, LP!Done, L!IsRevert, LP!IsRevert,
            L!PostTypes, LP!PostTypes, L!PayTypes, LP!PayTypes, L!RevertTypes, LP!RevertTypes,
            L!Idle, LP!Idle, L!Notifies, LP!Notifies, L!NextAfterWrite, LP!NextAfterWrite,
            L!AfterPersist, LP!AfterPersist, L!AfterNotify, LP!AfterNotify,
            L!Error, LP!Error, L!Restart, LP!Restart
<1>1. L!Message = LP!Message
  BY DEF L!Message, LP!Message
<1>2. \A m : L!Receives(m) <=> LP!Receives(m)
  BY DEF L!Receives, LP!Receives
<1>3. \A m : L!IsDuplicate(m) <=> LP!IsDuplicate(m)
  BY DEF L!IsDuplicate, LP!IsDuplicate, L!SameKey, LP!SameKey
<1>4. \A d : L!Reversible(d) = LP!Reversible(d)
  BY DEF L!Reversible, LP!Reversible
<1>5. L!SkipDuplicate => LP!SkipDuplicate
  BY <1>1, <1>2, <1>3 DEF L!SkipDuplicate, LP!SkipDuplicate
<1>6. L!Ingest => LP!Ingest
  BY <1>1, <1>2, <1>3 DEF L!Ingest, LP!Ingest
<1>7. L!IngestError => LP!IngestError
  BY <1>1, <1>2, <1>3 DEF L!IngestError, LP!IngestError
<1>8. L!PostEntry => LP!PostEntry
  BY DEF L!PostEntry, LP!PostEntry
<1>9. L!PostStorno => LP!PostStorno
  BY <1>4 DEF L!PostStorno, LP!PostStorno
<1>10. L!RefuseStorno => LP!RefuseStorno
  BY <1>4 DEF L!RefuseStorno, LP!RefuseStorno
<1>11. L!IgnoreInvoiceSent => LP!IgnoreInvoiceSent
  BY DEF L!IgnoreInvoiceSent, LP!IgnoreInvoiceSent
<1>12. L!Persist => LP!Persist
  BY DEF L!Persist, LP!Persist, L!NewRow, LP!NewRow
<1>13. L!PersistError => LP!PersistError
  BY DEF L!PersistError, LP!PersistError
<1>14. L!UpdateOriginal => LP!UpdateOriginal
  BY DEF L!UpdateOriginal, LP!UpdateOriginal
<1>15. L!UpdateError => LP!UpdateError
  BY DEF L!UpdateError, LP!UpdateError
<1>16. L!Notify => LP!Notify
  BY DEF L!Notify, LP!Notify
<1>17. L!NotifyError => LP!NotifyError
  BY DEF L!NotifyError, LP!NotifyError
<1>18. L!Reply => LP!Reply
  BY DEF L!Reply, LP!Reply
<1>19. L!ReplyError => LP!ReplyError
  BY DEF L!ReplyError, LP!ReplyError
<1>20. L!Commit => LP!Commit
  BY DEF L!Commit, LP!Commit
<1>21. L!Rebalance => LP!Rebalance
  BY DEF L!Rebalance, LP!Rebalance
<1>22. L!Crash => LP!Crash
  BY DEF L!Crash, LP!Crash
<1> QED
  BY <1>5, <1>6, <1>7, <1>8, <1>9, <1>10, <1>11, <1>12, <1>13, <1>14, <1>15, <1>16, <1>17,
     <1>18, <1>19, <1>20, <1>21, <1>22
     DEF L!Progress, LP!Progress, L!Handle, LP!Handle, L!Trouble, LP!Trouble

LEMMA LedgerInit == Init => LP!AnswerInv
<1> SUFFICES ASSUME Init PROVE LP!AnswerInv
  OBVIOUS
<1> USE DEF Init, L!Init
<1>1. LP!TypeOK
  BY SagaAssumption DEF LP!TypeOK, LP!Idle, L!Idle
<1>2. LP!Inv
  BY <1>1 DEF LP!Inv, LP!IdIsOld, LP!EntryIsCaused, LP!HandlerIsFresh, LP!AtMostOnce, L!Idle
<1> QED
  BY <1>2 DEF LP!AnswerInv, LP!AnswerIsCaused, LP!HandlerIsUnanswered, LP!RefusalIsTrue,
              LP!OneAnswer, LP!Replies, L!Idle

\* A step of operations, which may add an event to the topic.
LEMMA TopicGrows ==
  ASSUME LP!AnswerInv, UNCHANGED ledgerVars, ledgerTopic' = ledgerTopic,
         topic' = topic \/ \E e \in L!Message : topic' = Append(topic, e)
  PROVE  LP!AnswerInv'
<1>1. LP!TypeOK
  BY DEF LP!AnswerInv, LP!Inv
<1>2. /\ topic' \in Seq(LP!Message) /\ Len(topic') >= Len(topic)
      /\ Len(topic) \in Nat /\ Len(topic') \in Nat
  <2>1. topic \in Seq(LP!Message) /\ LP!Message = L!Message
    BY <1>1 DEF LP!TypeOK, LP!Message, L!Message
  <2>2. CASE topic' = topic
    BY <2>1, <2>2
  <2>3. ASSUME NEW e \in L!Message, topic' = Append(topic, e)
        PROVE  topic' \in Seq(L!Message) /\ Len(topic') = Len(topic) + 1 /\ Len(topic) \in Nat
    BY <2>1, <2>3
  <2> QED
    BY <2>1, <2>2, <2>3
<1>3. pos \in 1 .. Len(topic') + 1
  BY <1>1, <1>2 DEF LP!TypeOK
<1>4. LP!TypeOK'
  BY <1>1, <1>2, <1>3 DEF LP!TypeOK, ledgerVars
<1>5. LP!Inv'
  BY <1>4 DEF LP!AnswerInv, LP!Inv, ledgerVars, LP!IdIsOld, LP!EntryIsCaused,
              LP!HandlerIsFresh, LP!AtMostOnce
<1> QED
  BY <1>5 DEF LP!AnswerInv, ledgerVars, LP!AnswerIsCaused, LP!HandlerIsUnanswered, LP!IsRevert,
              LP!RefusalIsTrue, LP!OneAnswer, LP!Replies

\* What is sent to operations.events was stored.
LEMMA DispatchSends ==
  ASSUME OutboxTyped, NEW c \in Caller, O!Progress(c) \/ O!Trouble(c)
  PROVE  topic' = topic \/ \E e \in O!Saved : topic' = Append(topic, e)
<1>1. ASSUME NEW e \in L!Message, O!Current(c, e) PROVE e \in O!Saved
  BY <1>1 DEF O!Current, OutboxTyped
<1>2. CASE O!Deliver(c) \/ O!DeliverError(c)
  BY <1>1, <1>2 DEF O!Deliver, O!DeliverError
<1>3. CASE \/ O!StartFlush(c) \/ O!MarkPublished(c) \/ O!MarkFailed(c)
           \/ O!MarkPublishedError(c) \/ O!MarkFailedError(c)
  BY <1>3 DEF O!StartFlush, O!MarkPublished, O!MarkFailed, O!MarkPublishedError, O!MarkFailedError
<1> QED
  BY <1>2, <1>3 DEF O!Progress, O!Trouble

\* Steps of operations that keep the outbox, and those that keep the ledger and
\* the topic too.
LEMMA OperationsKeep ==
  /\ BillStep \/ (\E t \in tasks : SaveBill(t) \/ FailTask(t)) =>
        UNCHANGED outboxVars /\ UNCHANGED ledgerVars /\ UNCHANGED <<topic, ledgerTopic>>
  /\ CrashOperations \/ (\E e \in L!Message : BackoffElapses(e)) =>
        /\ UNCHANGED ledgerVars /\ UNCHANGED <<topic, ledgerTopic>>
        /\ O!Saved' = O!Saved
  /\ \A t \in tasks : Publish(t) =>
        UNCHANGED ledgerVars /\ UNCHANGED <<topic, ledgerTopic>>
<1>1. BillStep => UNCHANGED outboxVars /\ UNCHANGED ledgerVars /\ UNCHANGED <<topic, ledgerTopic>>
  BY BillStepKeeps
<1>2. ASSUME NEW t \in tasks, SaveBill(t) \/ FailTask(t)
      PROVE  UNCHANGED outboxVars /\ UNCHANGED ledgerVars /\ UNCHANGED <<topic, ledgerTopic>>
  BY <1>2 DEF SaveBill, B!SaveBill, FailTask, B!TaskError
<1>3. CrashOperations =>
        /\ UNCHANGED ledgerVars /\ UNCHANGED <<topic, ledgerTopic>>
        /\ O!Saved' = O!Saved
  BY DEF CrashOperations, B!CrashBills, ledgerVars, O!Saved
<1>4. ASSUME NEW e \in L!Message, BackoffElapses(e)
      PROVE  /\ UNCHANGED ledgerVars /\ UNCHANGED <<topic, ledgerTopic>>
             /\ O!Saved' = O!Saved
  BY <1>4 DEF BackoffElapses, O!BackoffElapses, O!Saved
<1>5. \A t \in tasks : Publish(t) => UNCHANGED ledgerVars /\ UNCHANGED <<topic, ledgerTopic>>
  BY DEF Publish, B!Publish, O!Save
<1> QED
  BY <1>1, <1>2, <1>3, <1>4, <1>5

\* What may be stored grows, and what is read of the log of replies stays.
LEMMA StepIs ==
  ASSUME [Next]_vars
  PROVE  \/ BillStep
         \/ \E t \in tasks : SaveBill(t)
         \/ \E t \in tasks : FailTask(t)
         \/ \E t \in tasks : Publish(t)
         \/ CrashOperations
         \/ \E c \in Caller : Dispatch(c) \/ DispatchTrouble(c)
         \/ \E e \in L!Message : BackoffElapses(e)
         \/ Consume \/ ConsumeTrouble
         \/ UNCHANGED vars
  BY DEF Next, Progress, BillStep

LEMMA LedgerStep ==
  ASSUME PostInv, LP!AnswerInv, [Next]_vars
  PROVE  LP!AnswerInv'
<1>1. CASE Consume \/ ConsumeTrouble
  <2>1. LP!Next
    BY <1>1, SameLedger DEF Consume, ConsumeTrouble, LP!Next
  <2> QED
    BY <2>1, LP!AnswerStep, LedgerAssumed
<1>2. CASE \E c \in Caller : Dispatch(c) \/ DispatchTrouble(c)
  <2>1. PICK c \in Caller : Dispatch(c) \/ DispatchTrouble(c)
    BY <1>2
  <2>2. topic' = topic \/ \E e \in O!Saved : topic' = Append(topic, e)
    BY <2>1, DispatchSends DEF Dispatch, DispatchTrouble, PostInv
  <2>3. O!Saved \subseteq L!Message
    BY DEF O!Saved
  <2> QED
    BY <2>1, <2>2, <2>3, TopicGrows DEF Dispatch, DispatchTrouble
<1>3. ASSUME UNCHANGED ledgerVars, UNCHANGED <<topic, ledgerTopic>> PROVE LP!AnswerInv'
  BY <1>3, TopicGrows
<1>4. CASE UNCHANGED vars
  BY <1>3, <1>4 DEF vars, ledgerVars
<1> QED
  BY <1>1, <1>2, <1>3, <1>4, StepIs, OperationsKeep

(* What Ledger_proofs says of the ledger, in the terms used here.           *)
LEMMA LedgerFacts ==
  ASSUME LP!AnswerInv
  PROVE  /\ errors \in 0 .. MaxErrors
         /\ handler.at # "idle" => handler.msg \in ingested
         /\ ingested \subseteq L!Message
         /\ \A e \in mem \cup db : \E m \in ingested :
               /\ m.doc = e.doc
               /\ e.kind = "STORNO" => m.type = "billRevertRequested"
               /\ e.part = "payment" => m.type = "billPaid" \/ e.kind # "ORIGINAL"
         /\ handler.at # "idle" /\ L!IsRevert =>
               /\ handler.msg.type = "billRevertRequested"
               /\ \A i \in DOMAIN ledgerTopic :
                     ledgerTopic[i].type # "journalEntryPosted" =>
                       ledgerTopic[i].doc # handler.msg.doc
         /\ \A i \in DOMAIN ledgerTopic : ledgerTopic[i].type = "stornoFailed" =>
               \A e \in mem \cup db : e.doc = ledgerTopic[i].doc => e.kind # "STORNO"
<1>1. LP!TypeOK /\ LP!Inv
  BY DEF LP!AnswerInv, LP!Inv
<1>2. /\ errors \in 0 .. MaxErrors
      /\ ingested \subseteq L!Message
      /\ mem \cup db \subseteq LP!Entry
  BY <1>1 DEF LP!TypeOK, LP!Message, L!Message
<1>3. handler.at # "idle" => handler.msg \in ingested
  BY <1>1 DEF LP!Inv, LP!HandlerIsFresh
<1>4. \A m \in ingested : m.type \in L!RevertTypes => m.type = "billRevertRequested"
  BY <1>2 DEF L!Message, L!RevertTypes
<1>5. \A m \in ingested : m.type \in LP!PayTypes => m.type = "billPaid"
  BY <1>2 DEF L!Message, LP!PayTypes
<1>6. LP!RevertTypes = L!RevertTypes /\ (LP!IsRevert <=> L!IsRevert)
  BY DEF LP!RevertTypes, L!RevertTypes, LP!IsRevert, L!IsRevert
<1>7. ASSUME NEW e \in mem \cup db
      PROVE  \E m \in ingested :
               /\ m.doc = e.doc
               /\ e.kind = "STORNO" => m.type = "billRevertRequested"
               /\ e.part = "payment" => m.type = "billPaid" \/ e.kind # "ORIGINAL"
  <2>1. PICK m \in ingested : LP!Posts(m, e)
    BY <1>1 DEF LP!Inv, LP!EntryIsCaused
  <2> QED
    BY <1>4, <1>5, <1>6, <2>1 DEF LP!Posts
<1>8. handler.at # "idle" /\ L!IsRevert =>
               /\ handler.msg.type = "billRevertRequested"
               /\ \A i \in DOMAIN ledgerTopic :
                     ledgerTopic[i].type # "journalEntryPosted" =>
                       ledgerTopic[i].doc # handler.msg.doc
  BY <1>3, <1>4, <1>6 DEF L!IsRevert, LP!AnswerInv, LP!HandlerIsUnanswered
<1>9. ASSUME NEW i \in DOMAIN ledgerTopic, ledgerTopic[i].type = "stornoFailed",
             NEW e \in mem \cup db, e.doc = ledgerTopic[i].doc
      PROVE  e.kind # "STORNO"
  <2>1. e.doc \in LP!Doc
    BY <1>2 DEF LP!Entry
  <2>2. i \in LP!Replies(e.doc)
    BY <1>9 DEF LP!Replies
  <2> QED
    BY <1>9, <2>1, <2>2 DEF LP!AnswerInv, LP!OneAnswer
<1> QED
  BY <1>2, <1>3, <1>7, <1>8, <1>9

-----------------------------------------------------------------------------
(* Bills and books together.  A request is on its way or was published:     *)
TasksOf(type, b) == {t \in Late : t.type = type /\ t.doc = b}
OutOf(type, b) == {e \in O!Saved : e.type = type /\ e.doc = b}

Asked(type, b) == TasksOf(type, b) # {} \/ OutOf(type, b) # {}

IsAnswer(m, b) == m.type \in {"stornoPosted", "stornoFailed"} /\ m.doc = b

\* No answer about the bill has been handled.
Unanswered(b) == \A k \in DOMAIN ledgerTopic : k < replyPos => ~IsAnswer(ledgerTopic[k], b)

HasStorno(b) == \E e \in mem \cup db : e.doc = b /\ e.kind = "STORNO"

\* What the status of a bill says of requests, answers and the journal.
Follows(b) ==
    /\ Asked("billRevertRequested", b) /\ Unanswered(b) => bill[b] = "REVERSING"
    /\ Asked("billPaid", b) => bill[b] = "PAID"
    /\ HasStorno(b) => bill[b] \in {"REVERSING", "REVERTED"}

\* The ledger handles only what operations has stored.
Caused ==
    /\ ingested \subseteq O!Saved
    /\ \A i \in DOMAIN topic : topic[i] \in O!Saved

Counted == crashes \in Nat /\ replyPos \in Nat /\ replyCommitted \in Nat

SagaInv ==
    /\ StornoInv /\ LP!AnswerInv /\ Caused /\ Counted
    /\ crashes = 0 => \A b \in Bill \ replaced : Follows(b)

LEMMA SagaInit == Init => SagaInv
<1> SUFFICES ASSUME Init PROVE SagaInv
  OBVIOUS
<1>1. StornoInv /\ LP!AnswerInv
  BY StornoInit, LedgerInit
<1>2. O!Saved = {} /\ tasks = {} /\ mem = {} /\ db = {}
  BY DEF Init, O!Init, B!Init, L!Init, O!Saved
<1>3. Caused /\ Counted
  BY DEF Init, O!Init, B!Init, L!Init, Caused, Counted
<1>4. \A b \in Bill : Follows(b)
  BY <1>2 DEF Follows, Asked, TasksOf, OutOf, Late, HasStorno
<1> QED
  BY <1>1, <1>3, <1>4 DEF SagaInv

LEMMA FollowsStill ==
  ASSUME NEW b \in Bill, Follows(b), bill'[b] = bill[b],
         Asked("billRevertRequested", b)' => Asked("billRevertRequested", b),
         Asked("billPaid", b)' => Asked("billPaid", b),
         Unanswered(b)' => Unanswered(b),
         HasStorno(b)' => HasStorno(b) \/ bill[b] = "REVERSING"
  PROVE  Follows(b)'
  BY DEF Follows

LEMMA CausedStays ==
  ASSUME Caused, O!Saved \subseteq O!Saved', UNCHANGED <<ingested, topic>>
  PROVE  Caused'
  BY DEF Caused

\* What is in the map, and of a step that puts nothing else there.
LEMMA WarmBills ==
  ASSUME CacheInv, crashes = 0
  PROVE  /\ \A b \in Bill : bill[b] \in B!Status
         /\ Quiet => \A b \in Bill \ replaced' : bill'[b] = bill[b]
  BY DEF CacheInv, BillsTyped, Warm, Quiet

\* A step of operations while it has not restarted: nothing happens to a bill, or
\* a command begins, or a reply is handled.
LEMMA WarmStep ==
  ASSUME CacheInv, crashes = 0, crashes' = 0, BillStep
  PROVE  \/ Quiet /\ replyPos' = replyPos
         \/ Quiet /\ ReadReply /\ B!SkipReply
         \/ ReadReply /\ B!HandleReply
         \/ replyPos' = replyPos /\ \E type \in B!Command, d \in Bill : Moves(type, d)
<1>1. CASE \E bs \in SUBSET Bill : ListBills(bs)
  BY <1>1, ListIsQuiet DEF ListBills, B!ListBills
<1>2. CASE \E l \in lists : FillBills(l)
  BY <1>2, FillIsQuiet DEF FillBills, B!FillBills
<1>3. CASE \E type \in B!Command, b \in Bill : Begin(type, b)
  <2>1. replyPos' = replyPos
    BY <1>3 DEF Begin, B!Accept, B!FindBill, B!StartPost
  <2> QED
    BY <1>3, <2>1, AcceptMoves, FindIsQuiet, StartPostIsQuiet DEF Begin
<1>4. CASE \E t \in tasks : LookUp(t)
  BY <1>4 DEF LookUp, B!ReadBill, B!BillFound, CacheInv, Warm
<1>5. CASE \E t \in tasks : Post(t)
  <2>1. PICK t \in tasks : Post(t)
    BY <1>5
  <2>2. "billPosted" \in B!Command /\ t.doc \in Bill
    BY DEF CacheInv, BillsTyped, B!Task, B!Command
  <2>3. replyPos' = replyPos
    BY <2>1 DEF Post, B!Post, B!RefusePost
  <2>4. CASE B!Post(t)
    BY <2>2, <2>3, <2>4, PostMoves
  <2>5. CASE B!RefusePost(t)
    BY <2>3, <2>5, OtherIsQuiet
  <2> QED
    BY <2>1, <2>4, <2>5 DEF Post
<1>6. CASE ReadReply
  BY <1>6, OtherIsQuiet DEF ReadReply
<1>7. CASE MoveReplyOffset
  <2>1. ~B!RebalanceReplies
    BY DEF B!RebalanceReplies, B!Crashing
  <2>2. B!CommitReply
    BY <1>7, <2>1 DEF MoveReplyOffset
  <2> QED
    BY <2>2, OtherIsQuiet DEF B!CommitReply
<1> QED
  BY <1>1, <1>2, <1>3, <1>4, <1>5, <1>6, <1>7 DEF BillStep

\* A reply that is handled: its bill was waiting, and follows it.
LEMMA ReplyMoves ==
  ASSUME CacheInv, crashes = 0, B!HandleReply
  PROVE  /\ ledgerTopic[replyPos].type \in B!SagaReply
         /\ ledgerTopic[replyPos].doc \in Bill
         /\ bill[ledgerTopic[replyPos].doc] = "REVERSING"
         /\ Moves(ledgerTopic[replyPos].type, ledgerTopic[replyPos].doc)
         /\ replyPos \in DOMAIN ledgerTopic
         /\ replyPos' = replyPos + 1 /\ UNCHANGED <<ledgerTopic, replaced>>
<1>1. /\ ledgerTopic[replyPos].type \in B!SagaReply
      /\ ledgerTopic[replyPos].doc \in Bill
      /\ bill[ledgerTopic[replyPos].doc] \in {"REVERSING", "NONE"}
      /\ replyPos \in DOMAIN ledgerTopic
      /\ replyPos' = replyPos + 1 /\ UNCHANGED <<ledgerTopic, replaced>>
  BY DEF B!HandleReply
<1>2. bill[ledgerTopic[replyPos].doc] = "REVERSING"
  BY <1>1 DEF CacheInv, Warm
<1> QED
  BY <1>1, <1>2, HandleMoves

LEMMA FollowsOperations ==
  ASSUME SagaInv, crashes = 0, crashes' = 0, BillStep, NEW b \in Bill \ replaced'
  PROVE  Follows(b)'
<1>1. /\ UNCHANGED outboxVars /\ UNCHANGED <<mem, db, ledgerTopic>>
      /\ replaced \subseteq replaced'
  BY BillStepKeeps
<1>2. O!Saved' = O!Saved
  BY <1>1, OutboxKept DEF SagaInv, StornoInv, PostInv
<1>3. HasStorno(b)' <=> HasStorno(b)
  BY <1>1 DEF HasStorno
<1>4. b \in Bill /\ b \notin replaced' /\ Follows(b) /\ CacheInv
  BY <1>1 DEF SagaInv, StornoInv, PostInv
<1>5. replyPos \in Nat /\ DOMAIN ledgerTopic \subseteq Nat
  BY DEF SagaInv, StornoInv, Counted, LedgerTyped
<1>6. replyPos' = replyPos \/ replyPos' = replyPos + 1 => (Unanswered(b)' => Unanswered(b))
  BY <1>1, <1>5 DEF Unanswered
<1>7. CASE Quiet /\ (replyPos' = replyPos \/ B!SkipReply)
  <2>1. replyPos' = replyPos \/ replyPos' = replyPos + 1
    BY <1>7 DEF B!SkipReply
  <2>2. \A u : Asked(u, b)' <=> Asked(u, b)
    BY <1>2, <1>7 DEF Quiet, Asked, TasksOf, OutOf
  <2>3. bill'[b] = bill[b]
    BY <1>4, <1>7, WarmBills
  <2> QED
    BY <1>3, <1>4, <1>6, <2>1, <2>2, <2>3, FollowsStill
<1>8. ASSUME NEW type \in Kind, NEW d \in Bill, Moves(type, d)
      PROVE  /\ \A u \in B!Command : u # type \/ b # d => (Asked(u, b)' <=> Asked(u, b))
             /\ b # d => bill'[b] = bill[b]
             /\ b = d => bill'[b] = B!To(type) /\ bill[b] = B!From(type)
  <2>1. PICK new : /\ new.type = type /\ new.doc = d /\ Late' = Late \cup {new}
    BY <1>8 DEF Moves
  <2>2. \A u : u # type \/ b # d => TasksOf(u, b)' = TasksOf(u, b)
    BY <2>1 DEF TasksOf
  <2>3. bill[b] # "NONE"
    BY <1>4 DEF CacheInv, Warm
  <2> QED
    BY <1>2, <1>4, <1>8, <2>2, <2>3 DEF Moves, Asked, OutOf
<1>9. ASSUME NEW type \in B!Command, NEW d \in Bill, Moves(type, d), replyPos' = replyPos
      PROVE  Follows(b)'
  <2>1. type \in Kind
    BY DEF Kind
  <2>2. CASE b # d
    BY <1>3, <1>4, <1>6, <1>8, <1>9, <2>1, <2>2, FollowsStill DEF B!Command
  <2>3. CASE b = d
    <3>1. bill'[b] = B!To(type) /\ bill[b] \in {"DRAFT", "POSTED"}
      BY <1>8, <1>9, <2>1, <2>3 DEF B!From, B!Command
    <3>2. /\ ~(Asked("billRevertRequested", b) /\ Unanswered(b))
          /\ ~Asked("billPaid", b) /\ ~HasStorno(b)
      BY <1>4, <3>1 DEF Follows
    <3>3. /\ type # "billRevertRequested" =>
               (Asked("billRevertRequested", b)' <=> Asked("billRevertRequested", b))
          /\ type # "billPaid" => (Asked("billPaid", b)' <=> Asked("billPaid", b))
      BY <1>8, <1>9, <2>1 DEF B!Command
    <3> QED
      BY <1>3, <1>6, <1>9, <3>1, <3>2, <3>3 DEF Follows, B!To, B!Command
  <2> QED
    BY <2>2, <2>3
<1>10. CASE B!HandleReply
  <2> DEFINE m == ledgerTopic[replyPos]
  <2>1. /\ m.type \in B!SagaReply /\ m.doc \in Bill /\ bill[m.doc] = "REVERSING"
        /\ Moves(m.type, m.doc)
        /\ replyPos \in DOMAIN ledgerTopic /\ replyPos' = replyPos + 1
    BY <1>1, <1>4, <1>10, ReplyMoves
  <2>2. Unanswered(b)' => Unanswered(b) /\ ~IsAnswer(m, b)
    BY <1>1, <1>5, <2>1 DEF Unanswered
  <2>3. m.type = "stornoFailed" => ~HasStorno(m.doc)
    BY <2>1, LedgerFacts DEF SagaInv, HasStorno
  <2> HIDE DEF m
  <2>4. m.type \in Kind /\ m.type \notin B!Command
    BY <2>1 DEF Kind, B!SagaReply, B!Command
  <2>5. \A u \in B!Command : Asked(u, b)' <=> Asked(u, b)
    BY <1>8, <2>1, <2>4
  <2>6. CASE b # m.doc
    BY <1>3, <1>4, <1>6, <1>8, <2>1, <2>4, <2>5, <2>6, FollowsStill DEF B!Command
  <2>7. CASE b = m.doc
    <3>1. ~Unanswered(b)'
      BY <2>1, <2>2, <2>7 DEF IsAnswer, B!SagaReply
    <3>2. ~Asked("billPaid", b)'
      BY <1>4, <2>1, <2>5, <2>7 DEF Follows, B!Command
    <3>3. bill'[b] = B!To(m.type)
      BY <1>8, <2>1, <2>4, <2>7
    <3>4. HasStorno(b)' => bill'[b] = "REVERTED"
      BY <1>3, <2>1, <2>3, <2>7, <3>3 DEF B!To, B!SagaReply
    <3> QED
      BY <3>1, <3>2, <3>4 DEF Follows
  <2> QED
    BY <2>6, <2>7
<1> QED
  BY <1>4, <1>7, <1>9, <1>10, WarmStep

\* The ledger makes a STORNO only for a request that it handles.
LEMMA LedgerAdds ==
  ASSUME Consume \/ ConsumeTrouble, NEW b \in Bill, HasStorno(b)',
         LedgerTyped, LP!AnswerInv
  PROVE  HasStorno(b) \/ (handler.at = "handle" /\ L!IsRevert /\ handler.msg.doc = b)
<1>1. CASE L!PostEntry
  BY <1>1 DEF L!PostEntry, HasStorno
<1>2. CASE L!PostStorno
  <2>1. L!At("handle") /\ L!IsRevert /\ db' = db
    BY <1>2 DEF L!PostStorno
  <2>2. PICK o \in L!Reversible(handler.msg.doc) :
           mem' = (mem \ {o}) \cup {[o EXCEPT !.reversedBy = lastId + 1],
                                   [o EXCEPT !.id = lastId + 1, !.kind = "STORNO"]}
    BY <1>2 DEF L!PostStorno
  <2>3. o \in L!Entry /\ o.doc = handler.msg.doc /\ o.kind = "ORIGINAL"
    BY DEF L!Reversible, LedgerTyped
  <2>4. /\ [o EXCEPT !.reversedBy = lastId + 1].kind = "ORIGINAL"
        /\ [o EXCEPT !.id = lastId + 1, !.kind = "STORNO"].doc = handler.msg.doc
    BY <2>3 DEF L!Entry
  <2> QED
    BY <2>1, <2>2, <2>4 DEF HasStorno, L!At
<1>3. CASE L!Persist
  <2>1. mem' = mem /\ db' = db \cup L!NewRow
    BY <1>3 DEF L!Persist
  <2>2. \A e \in L!NewRow : \E x \in mem : x.doc = e.doc /\ x.kind = e.kind
    BY DEF L!NewRow, LedgerTyped, L!Entry
  <2> QED
    BY <2>1, <2>2 DEF HasStorno
<1>4. CASE L!UpdateOriginal
  <2>1. mem' = mem
    BY <1>4 DEF L!UpdateOriginal
  <2>2. \A e \in db' : \E x \in db : x.doc = e.doc /\ x.kind = e.kind
    BY <1>4 DEF L!UpdateOriginal, LedgerTyped, L!Entry
  <2> QED
    BY <2>1, <2>2 DEF HasStorno
<1>5. CASE \/ L!SkipDuplicate \/ L!Ingest \/ L!Commit
           \/ L!RefuseStorno \/ L!IgnoreInvoiceSent \/ L!Notify \/ L!Reply
  BY <1>5 DEF L!SkipDuplicate, L!Ingest, L!Commit, L!RefuseStorno, L!IgnoreInvoiceSent,
              L!Notify, L!Reply, HasStorno
<1>6. CASE L!Trouble
  <2>1. db' = db /\ mem' \in {mem, db}
    BY <1>6 DEF L!Trouble, L!IngestError, L!PersistError, L!UpdateError, L!NotifyError,
                L!ReplyError, L!Rebalance, L!Crash
  <2> QED
    BY <2>1 DEF HasStorno
<1> QED
  BY <1>1, <1>2, <1>3, <1>4, <1>5, <1>6 DEF Consume, ConsumeTrouble, L!Progress, L!Handle

\* Handling a request, the ledger finds its bill waiting.
LEMMA HandledWaits ==
  ASSUME SagaInv, crashes = 0, NEW b \in Bill \ replaced,
         handler.at # "idle", L!IsRevert, handler.msg.doc = b
  PROVE  bill[b] = "REVERSING"
<1>1. handler.msg \in O!Saved /\ handler.msg.type = "billRevertRequested"
  BY LedgerFacts DEF SagaInv, Caused
<1>2. Asked("billRevertRequested", b)
  BY <1>1 DEF Asked, OutOf
<1>3. Unanswered(b)
  BY LedgerFacts DEF SagaInv, Unanswered, IsAnswer, B!SagaReply
<1> QED
  BY <1>2, <1>3 DEF SagaInv, Follows

\* The log of answers only grows.
LEMMA AnswersGrow ==
  ASSUME Consume \/ ConsumeTrouble, LedgerTyped, NEW b \in Bill, Unanswered(b)'
  PROVE  Unanswered(b)
<1>1. replyPos' = replyPos
  BY DEF Consume, ConsumeTrouble, billVars
<1>2. ledgerTopic' = ledgerTopic \/ \E m : ledgerTopic' = Append(ledgerTopic, m)
  BY DEF Consume, ConsumeTrouble, L!Progress, L!Handle, L!Trouble,
         L!SkipDuplicate, L!Ingest, L!Commit, L!PostEntry, L!PostStorno, L!RefuseStorno,
         L!IgnoreInvoiceSent, L!Persist, L!UpdateOriginal, L!Notify, L!Reply,
         L!IngestError, L!PersistError, L!UpdateError, L!NotifyError, L!ReplyError,
         L!Rebalance, L!Crash
<1>3. ledgerTopic \in Seq(L!LedgerMessage)
  BY DEF LedgerTyped
<1>4. \A i \in DOMAIN ledgerTopic : i \in DOMAIN ledgerTopic' /\ ledgerTopic'[i] = ledgerTopic[i]
  BY <1>2, <1>3
<1> QED
  BY <1>1, <1>4 DEF Unanswered

LEMMA FollowsLedger ==
  ASSUME SagaInv, crashes = 0, Consume \/ ConsumeTrouble, NEW b \in Bill \ replaced
  PROVE  Follows(b)'
<1>1. UNCHANGED <<bill, Late>> /\ O!Saved' = O!Saved
  BY OutboxKept, ElsewhereKeeps DEF Consume, ConsumeTrouble, SagaInv, StornoInv, PostInv
<1>2. \A u : Asked(u, b)' <=> Asked(u, b)
  BY <1>1 DEF Asked, TasksOf, OutOf
<1>3. Unanswered(b)' => Unanswered(b)
  BY AnswersGrow DEF SagaInv, StornoInv
<1>4. HasStorno(b)' => HasStorno(b) \/ bill[b] = "REVERSING"
  BY LedgerAdds, HandledWaits DEF SagaInv, StornoInv
<1>5. Follows(b)
  BY DEF SagaInv
<1> QED
  BY <1>1, <1>2, <1>3, <1>4, <1>5, FollowsStill

LEMMA CountedStays == Counted /\ LP!AnswerInv /\ [Next]_vars => Counted'
<1> SUFFICES ASSUME Counted, LP!AnswerInv, [Next]_vars PROVE Counted'
  OBVIOUS
<1> USE DEF Counted
<1>1. CASE \/ \E c \in Caller : Dispatch(c) \/ DispatchTrouble(c)
           \/ \E e \in L!Message : BackoffElapses(e)
           \/ Consume \/ ConsumeTrouble
           \/ UNCHANGED vars
  BY <1>1, ElsewhereKeeps
<1>2. CASE ReadReply \/ MoveReplyOffset \/ CrashOperations
  BY <1>2 DEF ReadReply, B!SkipReply, B!HandleReply, MoveReplyOffset, B!CommitReply,
              B!RebalanceReplies, CrashOperations, B!CrashBills, B!Crashing
<1>3. CASE \/ \E bs \in SUBSET Bill : ListBills(bs)
           \/ \E l \in lists : FillBills(l)
           \/ \E type \in B!Command, b \in Bill : Begin(type, b)
  BY <1>3 DEF ListBills, B!ListBills, FillBills, B!FillBills, Begin, B!Accept, B!FindBill,
              B!StartPost
<1>4. CASE \E t \in tasks : Progress(t) \/ FailTask(t)
  BY <1>4 DEF Progress, LookUp, B!ReadBill, B!BillFound, Post, B!Post, B!RefusePost,
              SaveBill, B!SaveBill, FailTask, B!TaskError, Publish, B!Publish
<1> QED
  BY <1>1, <1>2, <1>3, <1>4 DEF Next

LEMMA CausedStep == SagaInv /\ [Next]_vars => Caused'
<1> SUFFICES ASSUME SagaInv, [Next]_vars PROVE Caused'
  OBVIOUS
<1>1. OutboxTyped /\ Caused /\ PostInv
  BY DEF SagaInv, StornoInv, PostInv
<1>2. ASSUME UNCHANGED ledgerVars, topic' = topic, O!Saved \subseteq O!Saved' PROVE Caused'
  BY <1>1, <1>2, CausedStays DEF ledgerVars
<1>3. CASE UNCHANGED vars
  <2>1. O!Saved' = O!Saved
    BY <1>3 DEF vars, O!Saved
  <2> QED
    BY <1>2, <1>3, <2>1 DEF vars, ledgerVars
<1>4. CASE BillStep \/ (\E t \in tasks : SaveBill(t) \/ FailTask(t))
  BY <1>1, <1>2, <1>4, OperationsKeep, OutboxKept
<1>5. CASE \E t \in tasks : Publish(t)
  BY <1>1, <1>2, <1>5, OperationsKeep, PublishDoes DEF PostInv
<1>6. CASE CrashOperations \/ \E e \in L!Message : BackoffElapses(e)
  BY <1>2, <1>6, OperationsKeep
<1>7. CASE \E c \in Caller : Dispatch(c) \/ DispatchTrouble(c)
  <2>1. PICK c \in Caller : Dispatch(c) \/ DispatchTrouble(c)
    BY <1>7
  <2>2. O!Saved' = O!Saved /\ ingested' = ingested
    BY <1>1, <2>1, DispatchKeepsRows DEF Dispatch, DispatchTrouble, ledgerVars
  <2>3. topic' = topic \/ \E e \in O!Saved : topic' = Append(topic, e)
    BY <1>1, <2>1, DispatchSends DEF Dispatch, DispatchTrouble
  <2>4. topic \in Seq(L!Message)
    BY DEF SagaInv, LP!AnswerInv, LP!Inv, LP!TypeOK, LP!Message, L!Message
  <2>5. ASSUME NEW e \in O!Saved, topic' = Append(topic, e), NEW i \in DOMAIN topic'
        PROVE  topic'[i] \in O!Saved
    BY <1>1, <2>4, <2>5 DEF Caused
  <2> QED
    BY <1>1, <2>2, <2>3, <2>5 DEF Caused
<1>8. CASE Consume \/ ConsumeTrouble
  <2>1. O!Saved' = O!Saved /\ topic' = topic
    BY <1>1, <1>8, OutboxKept DEF Consume, ConsumeTrouble, L!Progress, L!Handle, L!Trouble,
         L!SkipDuplicate, L!Ingest, L!Commit, L!PostEntry, L!PostStorno, L!RefuseStorno,
         L!IgnoreInvoiceSent, L!Persist, L!UpdateOriginal, L!Notify, L!Reply,
         L!IngestError, L!PersistError, L!UpdateError, L!NotifyError, L!ReplyError,
         L!Rebalance, L!Crash
  <2>2. CASE L!Ingest
    BY <1>1, <2>1, <2>2 DEF L!Ingest, L!Receives, Caused
  <2>3. CASE ~L!Ingest
    <3>1. ingested' = ingested
      BY <1>8, <2>3 DEF Consume, ConsumeTrouble, L!Progress, L!Handle, L!Trouble,
         L!SkipDuplicate, L!Commit, L!PostEntry, L!PostStorno, L!RefuseStorno,
         L!IgnoreInvoiceSent, L!Persist, L!UpdateOriginal, L!Notify, L!Reply,
         L!IngestError, L!PersistError, L!UpdateError, L!NotifyError, L!ReplyError,
         L!Rebalance, L!Crash
    <3> QED
      BY <1>1, <2>1, <3>1, CausedStays
  <2> QED
    BY <2>2, <2>3
<1> QED
  BY <1>3, <1>4, <1>5, <1>6, <1>7, <1>8, StepIs

\* Operations has not restarted when it has not restarted after a step, and what
\* was replaced stays so.
LEMMA StaysWarm ==
  ASSUME Counted, CacheInv, [Next]_vars
  PROVE  /\ replaced \subseteq replaced'
         /\ crashes' = 0 => crashes = 0 /\ ~CrashOperations
<1>1. CASE BillStep
  <2>1. crashes' = crashes \/ crashes' = crashes + 1
    BY <1>1 DEF BillStep, ListBills, FillBills, Begin, LookUp, Post, ReadReply, MoveReplyOffset,
         B!ListBills, B!FillBills, B!Accept, B!FindBill, B!StartPost, B!ReadBill, B!BillFound,
         B!Post, B!RefusePost, B!SkipReply, B!HandleReply, B!CommitReply, B!RebalanceReplies,
         B!Crashing
  <2>2. crashes' = 0 => crashes = 0
    BY <2>1 DEF Counted
  <2>3. CrashOperations => crashes' # 0
    BY CrashDoes
  <2> QED
    BY <1>1, <2>2, <2>3, BillStepKeeps
<1>2. CASE \E t \in tasks : SaveBill(t) \/ FailTask(t) \/ Publish(t)
  BY <1>2, CrashDoes DEF SaveBill, B!SaveBill, FailTask, B!TaskError, Publish, B!Publish
<1>3. CASE CrashOperations
  BY <1>3, CrashDoes
<1>4. CASE \/ \E c \in Caller : Dispatch(c) \/ DispatchTrouble(c)
           \/ \E e \in L!Message : BackoffElapses(e)
           \/ Consume \/ ConsumeTrouble
           \/ UNCHANGED vars
  BY <1>4, ElsewhereKeeps, CrashDoes
<1> QED
  BY <1>1, <1>2, <1>3, <1>4, StepIs

\* The requests of a bill when a row is saved, a task fails, or an event is stored.
LEMMA AskedAfter ==
  ASSUME PostInv, NEW t \in tasks, SaveBill(t) \/ FailTask(t) \/ Publish(t),
         NEW u \in B!Command, NEW b
  PROVE  /\ Asked(u, b)' => Asked(u, b)
         /\ Asked(u, b) /\ (SaveBill(t) \/ Publish(t)) => Asked(u, b)'
<1>1. CacheInv
  BY DEF PostInv
<1>2. ASSUME SaveBill(t) PROVE Asked(u, b)' <=> Asked(u, b)
  <2>1. O!Saved' = O!Saved
    BY <1>2, OutboxKept DEF PostInv, SaveBill
  <2>2. CASE t.type \in B!SagaReply
    <3>1. Late' = Late \ {t}
      BY <1>1, <1>2, <2>2, SaveDoes
    <3>2. t.type # u
      BY <2>2 DEF B!SagaReply, B!Command
    <3> QED
      BY <2>1, <3>1, <3>2 DEF Asked, TasksOf, OutOf
  <2>3. CASE t.type \notin B!SagaReply
    <3>1. PICK next \in B!Task : /\ next.type = t.type /\ next.doc = t.doc
                                 /\ Late' = (Late \ {t}) \cup {next}
      BY <1>1, <1>2, <2>3, SaveDoes
    <3>2. t \in Late
      BY <1>1, <1>2, SaveDoes
    <3> QED
      BY <2>1, <3>1, <3>2 DEF Asked, TasksOf, OutOf
  <2> QED
    BY <2>2, <2>3
<1>3. ASSUME FailTask(t) PROVE Asked(u, b)' => Asked(u, b)
  <2>1. O!Saved' = O!Saved
    BY <1>3, OutboxKept DEF PostInv, FailTask
  <2> QED
    BY <1>1, <1>3, <2>1, FailDoes DEF Asked, TasksOf, OutOf
<1>4. ASSUME Publish(t) PROVE Asked(u, b)' <=> Asked(u, b)
  BY <1>1, <1>4, PublishDoes DEF Asked, TasksOf, OutOf
<1> QED
  BY <1>2, <1>3, <1>4

LEMMA FollowsStep ==
  ASSUME SagaInv, [Next]_vars, crashes' = 0, NEW b \in Bill \ replaced'
  PROVE  Follows(b)'
<1>1. CacheInv /\ Counted /\ OutboxTyped /\ PostInv
  BY DEF SagaInv, StornoInv, PostInv
<1>2. replaced \subseteq replaced' /\ crashes = 0 /\ ~CrashOperations
  BY <1>1, StaysWarm
<1>3. b \in Bill /\ b \notin replaced /\ Follows(b)
  BY <1>2 DEF SagaInv
<1>4. replyPos' = replyPos /\ ledgerTopic' = ledgerTopic => (Unanswered(b)' => Unanswered(b))
  BY DEF Unanswered
<1>5. CASE BillStep
  BY <1>2, <1>5, FollowsOperations
<1>6. CASE \E t \in tasks : SaveBill(t) \/ FailTask(t) \/ Publish(t)
  <2>1. PICK t \in tasks : SaveBill(t) \/ FailTask(t) \/ Publish(t)
    BY <1>6
  <2>2. UNCHANGED <<bill, ledgerTopic, mem, db, replyPos>>
    BY <2>1 DEF SaveBill, B!SaveBill, FailTask, B!TaskError, Publish, B!Publish, ledgerVars
  <2>3. \A u \in B!Command : Asked(u, b)' => Asked(u, b)
    BY <1>1, <2>1, AskedAfter
  <2>4. HasStorno(b)' <=> HasStorno(b)
    BY <2>2 DEF HasStorno
  <2> QED
    BY <1>3, <1>4, <2>2, <2>3, <2>4, FollowsStill DEF B!Command
<1>7. CASE \/ \E c \in Caller : Dispatch(c) \/ DispatchTrouble(c)
           \/ \E e \in L!Message : BackoffElapses(e)
           \/ UNCHANGED vars
  <2>1. UNCHANGED <<bill, Late, replyPos>>
    BY <1>7, ElsewhereKeeps
  <2>2. O!Saved' = O!Saved /\ UNCHANGED <<mem, db, ledgerTopic>>
    <3>1. CASE UNCHANGED vars
      BY <3>1 DEF vars, O!Saved
    <3>2. CASE \E e \in L!Message : BackoffElapses(e)
      BY <3>2, OperationsKeep DEF ledgerVars
    <3>3. CASE \E c \in Caller : Dispatch(c) \/ DispatchTrouble(c)
      BY <1>1, <3>3, DispatchKeepsRows DEF Dispatch, DispatchTrouble, ledgerVars
    <3> QED
      BY <1>7, <3>1, <3>2, <3>3
  <2>3. \A u : Asked(u, b)' <=> Asked(u, b)
    BY <2>1, <2>2 DEF Asked, TasksOf, OutOf
  <2>4. HasStorno(b)' <=> HasStorno(b)
    BY <2>2 DEF HasStorno
  <2> QED
    BY <1>3, <1>4, <2>1, <2>2, <2>3, <2>4, FollowsStill
<1>8. CASE Consume \/ ConsumeTrouble
  BY <1>2, <1>3, <1>8, FollowsLedger
<1> QED
  BY <1>2, <1>5, <1>6, <1>7, <1>8, StepIs

LEMMA SagaStep == SagaInv /\ [Next]_vars => SagaInv'
<1> SUFFICES ASSUME SagaInv, [Next]_vars PROVE SagaInv'
  OBVIOUS
<1>1. StornoInv'
  BY StornoStep DEF SagaInv
<1>2. LP!AnswerInv'
  BY LedgerStep DEF SagaInv, StornoInv
<1>3. Caused' /\ Counted'
  BY CausedStep, CountedStays DEF SagaInv
<1>4. crashes' = 0 => \A b \in Bill \ replaced' : Follows(b)'
  BY FollowsStep
<1> QED
  BY <1>1, <1>2, <1>3, <1>4 DEF SagaInv

(* However often operations publishes the event of a bill, and whatever its *)
(* cache of bills does: the journal in memory has one entry of each kind.   *)
THEOREM BooksOnce == Spec => []BooksPostOnce
<1>1. SagaInv => BooksPostOnce
  BY DEF SagaInv, LP!AnswerInv, LP!Inv, LP!AtMostOnce, BooksPostOnce
<1> QED
  BY <1>1, SagaInit, SagaStep, PTL DEF Spec

(* While operations does not restart, and no list puts an object of another *)
(* status in place of that of a bill: the books never show both a payment   *)
(* and a reversal of it, whatever the ledger loses, repeats or fails.       *)
THEOREM NeverPaidAndReversed == Spec => []NotPaidAndReversed
<1>1. SagaInv => NotPaidAndReversed
  <2> SUFFICES ASSUME SagaInv, crashes = 0, NEW b \in Bill \ replaced,
                      NEW e \in EntriesOf(b, "payment", "ORIGINAL"),
                      NEW s \in EntriesOf(b, "document", "STORNO")
               PROVE  FALSE
    BY DEF NotPaidAndReversed
  <2>1. e \in mem /\ e.doc = b /\ e.part = "payment" /\ e.kind = "ORIGINAL"
    BY DEF EntriesOf
  <2>2. PICK m \in ingested : m.doc = b /\ m.type = "billPaid"
    BY <2>1, LedgerFacts DEF SagaInv
  <2>3. Asked("billPaid", b)
    BY <2>2 DEF SagaInv, Caused, Asked, OutOf
  <2>4. HasStorno(b)
    BY DEF EntriesOf, HasStorno
  <2> QED
    BY <2>3, <2>4 DEF SagaInv, Follows
<1> QED
  BY <1>1, SagaInit, SagaStep, PTL DEF Spec

-----------------------------------------------------------------------------
(* The refinement: what a step of the saga is to its user.                  *)
Stornoed == {b \in Bill : \E s \in db : s.doc = b /\ s.kind = "STORNO"}

LEMMA IsStutter ==
  ASSUME UNCHANGED <<bill, Stornoed>>
  PROVE  UNCHANGED R!vars
  BY DEF R!vars, Stornoed

\* A step of operations that moves one bill, none of which was replaced.
LEMMA StepIsMove ==
  ASSUME CacheInv, CacheInv', crashes = 0, replaced' = {}, db' = db,
         NEW type \in Kind, NEW b \in Bill, Moves(type, b)
  PROVE  R!Move(b, B!From(type), B!To(type))
<1>1. bill \in [Bill -> B!Status \cup {"NONE"}] /\ bill' \in [Bill -> B!Status \cup {"NONE"}]
  BY DEF CacheInv, BillsTyped
<1>2. /\ \A x \in Bill \ {b} : bill'[x] = bill[x]
      /\ bill'[b] = B!To(type) /\ bill[b] = B!From(type)
  BY DEF Moves, CacheInv, Warm
<1>3. bill' = [bill EXCEPT ![b] = B!To(type)]
  BY <1>1, <1>2
<1> QED
  BY <1>2, <1>3 DEF R!Move

LEMMA CommandIsMove ==
  ASSUME NEW type \in B!Command, NEW b \in Bill, R!Move(b, B!From(type), B!To(type))
  PROVE  R!Next
  BY DEF R!Next, R!PostBill, R!PayBill, R!RequestReversal, B!From, B!To, B!Command

LEMMA ReplyIsMove ==
  ASSUME SagaInv, SagaInv', crashes = 0, replaced' = {}, errors = 0, ReadReply, B!HandleReply
  PROVE  R!Next
<1> DEFINE m == ledgerTopic[replyPos]
<1>0. CacheInv /\ CacheInv'
  BY DEF SagaInv, StornoInv, PostInv
<1>1. /\ m.type \in B!SagaReply /\ m.doc \in Bill
      /\ Moves(m.type, m.doc) /\ replyPos \in DOMAIN ledgerTopic
  BY <1>0, ReplyMoves
<1>2. m.type = "stornoPosted" => m.doc \in Stornoed
  BY <1>1 DEF SagaInv, StornoInv, AnswersKnow, Booked, Stornoed
<1>3. m.type = "stornoFailed" => m.doc \notin Stornoed
  BY <1>1, LedgerFacts DEF SagaInv, Stornoed
<1> HIDE DEF m
<1>4. R!Move(m.doc, "REVERSING", B!To(m.type))
  <2>1. m.type \in Kind /\ B!From(m.type) = "REVERSING" /\ db' = db
    BY <1>1 DEF Kind, B!SagaReply, B!From, ReadReply, ledgerVars
  <2> QED
    BY <1>0, <1>1, <2>1, StepIsMove
<1>5. CASE m.type = "stornoPosted"
  BY <1>1, <1>2, <1>4, <1>5 DEF R!Next, R!ConfirmReversal, B!To, Stornoed
<1>6. CASE m.type = "stornoFailed"
  BY <1>1, <1>3, <1>4, <1>6 DEF R!Next, R!CancelReversal, B!To, Stornoed
<1> QED
  BY <1>1, <1>5, <1>6 DEF B!SagaReply

\* The one step that adds to the books: the STORNO is saved.
LEMMA PersistIsBooking ==
  ASSUME SagaInv, crashes = 0, replaced = {}, Consume, L!Persist
  PROVE  R!Next \/ UNCHANGED R!vars
<1> DEFINE d == handler.msg.doc
<1>1. /\ handler.at = "persist" /\ mem' = mem /\ db' = db \cup L!NewRow
      /\ bill' = bill
  BY DEF Consume, billVars, L!Persist, L!At
<1>2. ASSUME NEW e \in mem, e.id = handler.entry, e.kind = "STORNO"
      PROVE  e.doc = d /\ L!IsRevert
  <2>1. LP!Posts(handler.msg, e)
    BY <1>1, <1>2 DEF SagaInv, LP!AnswerInv, LP!Inv, LP!HandlerIsFresh
  <2> QED
    BY <1>2, <2>1 DEF LP!Posts, LP!RevertTypes, L!RevertTypes, L!IsRevert
<1>3. ASSUME NEW b \in Stornoed', b \notin Stornoed PROVE b = d /\ L!IsRevert
  <2>1. PICK s \in db' : s.doc = b /\ s.kind = "STORNO"
    BY <1>3 DEF Stornoed
  <2>2. s \in L!NewRow
    BY <1>1, <1>3, <2>1 DEF Stornoed
  <2>3. PICK e \in mem : e.id = handler.entry /\ s = [e EXCEPT !.reversedBy = 0]
    BY <2>2 DEF L!NewRow
  <2>4. e.doc = b /\ e.kind = "STORNO"
    BY <2>1, <2>3 DEF SagaInv, StornoInv, LedgerTyped, L!Entry
  <2> QED
    BY <1>2, <2>3, <2>4
<1>4. Stornoed \subseteq Stornoed'
  BY <1>1 DEF Stornoed
<1>5. CASE Stornoed' = Stornoed
  BY <1>1, <1>5, IsStutter
<1>6. CASE Stornoed' # Stornoed
  <2>1. PICK b \in Stornoed' : b \notin Stornoed
    BY <1>4, <1>6
  <2>2. b \in Bill /\ b = d /\ L!IsRevert
    BY <1>3, <2>1 DEF Stornoed
  <2>3. bill[b] = "REVERSING"
    BY <1>1, <2>2, HandledWaits
  <2>4. Stornoed' = Stornoed \cup {b}
    BY <1>3, <1>4, <2>1, <2>2
  <2>5. R!BookStorno(b)
    BY <1>1, <2>1, <2>3, <2>4 DEF R!BookStorno, Stornoed
  <2> QED
    BY <2>2, <2>5 DEF R!Next
<1> QED
  BY <1>5, <1>6

\* Every other step of the ledger keeps the documents that have a STORNO.
LEMMA LedgerIsStutter ==
  ASSUME LedgerTyped, Consume \/ ConsumeTrouble, ~L!Persist
  PROVE  UNCHANGED R!vars
<1>1. bill' = bill
  BY DEF Consume, ConsumeTrouble, billVars
<1>2. CASE L!UpdateOriginal
  <2> DEFINE marked(e) == IF e.id = handler.original
                          THEN [e EXCEPT !.reversedBy = handler.entry] ELSE e
  <2>1. db' = {marked(e) : e \in db} /\ db \subseteq L!Entry
    BY <1>2 DEF L!UpdateOriginal, LedgerTyped
  <2>2. \A e \in db : marked(e).doc = e.doc /\ marked(e).kind = e.kind
    BY <2>1 DEF L!Entry
  <2> HIDE DEF marked
  <2>3. Stornoed' = Stornoed
    BY <2>1, <2>2 DEF Stornoed
  <2> QED
    BY <1>1, <2>3, IsStutter
<1>3. CASE ~L!UpdateOriginal
  <2>1. db' = db
    BY <1>3 DEF Consume, ConsumeTrouble, L!Progress, L!Handle, L!Trouble,
         L!SkipDuplicate, L!Ingest, L!Commit, L!PostEntry, L!PostStorno, L!RefuseStorno,
         L!IgnoreInvoiceSent, L!Notify, L!Reply,
         L!IngestError, L!PersistError, L!UpdateError, L!NotifyError, L!ReplyError,
         L!Rebalance, L!Crash
  <2>2. Stornoed' = Stornoed
    BY <2>1 DEF Stornoed
  <2> QED
    BY <1>1, <2>2, IsStutter
<1> QED
  BY <1>2, <1>3

LEMMA StepImplements ==
  ASSUME SagaInv, SagaInv', [Next]_vars, crashes' = 0, replaced' = {}, errors = 0
  PROVE  R!Next \/ UNCHANGED R!vars
<1>0. CacheInv /\ CacheInv' /\ Counted /\ LedgerTyped
  BY DEF SagaInv, StornoInv, PostInv
<1>1. crashes = 0 /\ ~CrashOperations /\ replaced = {}
  BY <1>0, StaysWarm
<1>2. ASSUME UNCHANGED <<bill, db>> PROVE UNCHANGED R!vars
  BY <1>2 DEF R!vars
<1>3. CASE BillStep
  <2>1. db' = db
    BY <1>3, BillStepKeeps
  <2>2. CASE Quiet
    <3>1. \A b \in Bill : bill'[b] = bill[b]
      BY <1>0, <1>1, <2>2, WarmBills
    <3>2. bill' = bill
      BY <1>0, <3>1 DEF CacheInv, BillsTyped
    <3> QED
      BY <1>2, <2>1, <3>2
  <2>3. ASSUME NEW type \in B!Command, NEW d \in Bill, Moves(type, d) PROVE R!Next
    <3>1. R!Move(d, B!From(type), B!To(type))
      BY <1>0, <1>1, <2>1, <2>3, StepIsMove DEF Kind
    <3> QED
      BY <3>1, CommandIsMove
  <2> QED
    BY <1>0, <1>1, <1>3, <2>2, <2>3, WarmStep, ReplyIsMove
<1>4. CASE \E t \in tasks : SaveBill(t) \/ FailTask(t) \/ Publish(t)
  BY <1>2, <1>4 DEF SaveBill, B!SaveBill, FailTask, B!TaskError, Publish, B!Publish, ledgerVars
<1>5. CASE \/ \E c \in Caller : Dispatch(c) \/ DispatchTrouble(c)
           \/ \E e \in L!Message : BackoffElapses(e)
           \/ UNCHANGED vars
  BY <1>2, <1>5 DEF Dispatch, DispatchTrouble, BackoffElapses, billVars, ledgerVars, vars
<1>6. CASE Consume \/ ConsumeTrouble
  <2>1. L!Persist => Consume
    BY <1>6 DEF Consume, ConsumeTrouble, L!Progress, L!Handle
  <2> QED
    BY <1>0, <1>1, <1>6, <2>1, PersistIsBooking, LedgerIsStutter
<1> QED
  BY <1>1, <1>3, <1>4, <1>5, <1>6, StepIs

(* The saga implements the reversal of Reversal while no error of the       *)
(* ledger's database is swallowed: whatever the order, delays, repetitions  *)
(* and restarts of the ledger, the books decide a reversal while the bill   *)
(* is REVERSING, and the bill follows the books.  A restart of operations   *)
(* takes bills back to their rows, and a list may take one back to what its *)
(* row said before; Reversal has no step for either.                        *)
THEOREM SagaImplementsReversal ==
  ASSUME MaxErrors = 0
  PROVE  Spec => ImplementsReversal
<1>1. Init => R!Init
  BY DEF Init, B!Init, L!Init, R!Init
<1>2. SagaInv /\ SagaInv' /\ [Next]_vars =>
         [crashes' = 0 /\ replaced' = {} => R!Next]_(R!vars)
  <2>1. SagaInv => errors = 0
    BY LedgerFacts DEF SagaInv
  <2> QED
    BY <2>1, StepImplements
<1> QED
  BY <1>1, <1>2, SagaInit, SagaStep, PTL DEF Spec, ImplementsReversal

-----------------------------------------------------------------------------
(* When nothing is left to be done.  The outbox of the saga is the outbox   *)
(* of Outbox_proofs, with one process.                                      *)
OP == INSTANCE Outbox_proofs WITH Event <- L!Message, Pod <- {Operations},
                                  PodOf <- [c \in Caller |-> Operations]

LEMMA OutboxAssumed == OP!OutboxAssumption
<1>1. OP!IsFiniteSet({Operations})
  <2>1. IsFiniteSet({Operations})
    BY FS_Singleton
  <2> QED
    BY <2>1, Zenon DEF OP!IsFiniteSet, IsFiniteSet
<1> QED
  BY <1>1, SagaAssumption DEF OP!OutboxAssumption

LEMMA SameOutbox ==
  /\ O!Saved = OP!Saved
  /\ \A e : O!Save(e) => OP!Save(e)
  /\ \A c : O!Progress(c) => OP!Progress(c)
  /\ \A c : O!Trouble(c) => OP!Trouble(c)
  /\ \A e : O!BackoffElapses(e) => OP!BackoffElapses(e)
<1> USE DEF O!Fault, OP!Fault, O!Idle, OP!Idle
<1>1. O!Saved = OP!Saved
  BY DEF O!Saved, OP!Saved
<1>2. \A S : O!Cardinality(S) = OP!Cardinality(S)
  BY Zenon DEF O!Cardinality, OP!Cardinality
<1>3. \A c, e : O!Current(c, e) <=> OP!Current(c, e)
  BY DEF O!Current, OP!Current
<1>4. \A c, e : O!Advance(c, e) => OP!Advance(c, e)
  BY DEF O!Advance, OP!Advance
<1>5. O!Batch = OP!Batch
  <2>1. O!Ready = OP!Ready
    BY DEF O!Ready, OP!Ready
  <2> QED
    BY <1>2, <2>1 DEF O!Batch, OP!Batch
<1>6. \A e : O!Save(e) => OP!Save(e)
  BY <1>1, <1>2 DEF O!Save, OP!Save
<1>7. \A c : O!Progress(c) => OP!Progress(c)
  BY <1>3, <1>4, <1>5 DEF O!Progress, OP!Progress, O!StartFlush, OP!StartFlush, O!Deliver,
     OP!Deliver, O!MarkPublished, OP!MarkPublished, O!MarkFailed, OP!MarkFailed
<1>8. \A c : O!Trouble(c) => OP!Trouble(c)
  BY <1>3 DEF O!Trouble, OP!Trouble, O!DeliverError, OP!DeliverError, O!MarkPublishedError,
     OP!MarkPublishedError, O!MarkFailedError, OP!MarkFailedError
<1>9. \A e : O!BackoffElapses(e) => OP!BackoffElapses(e)
  BY DEF O!BackoffElapses, OP!BackoffElapses
<1> QED
  BY <1>1, <1>6, <1>7, <1>8, <1>9

LEMMA OutboxInit == Init => OP!Inv
<1> SUFFICES ASSUME Init PROVE OP!Inv
  OBVIOUS
<1>1. OP!Init
  BY DEF Init, O!Init, OP!Init, O!Idle, OP!Idle
<1>2. OP!Saved = {}
  BY <1>1 DEF OP!Init, OP!Saved
<1>3. OP!Typed
  BY <1>1, OP!TypedInit, OutboxAssumed
<1> QED
  BY <1>1, <1>2, <1>3 DEF OP!Init, OP!Inv, OP!RanksAreDistinct, OP!SentIsDelivered,
     OP!PublishedWasDelivered, OP!Idle

LEMMA OutboxStep == OP!Inv /\ CacheInv /\ [Next]_vars => OP!Inv'
<1> SUFFICES ASSUME OP!Inv, CacheInv, [Next]_vars PROVE OP!Inv'
  OBVIOUS
<1>1. OP!Next => OP!Inv'
  BY OP!InvStep, OutboxAssumed
<1>2. UNCHANGED <<outboxVars, topic>> => OP!Inv'
  <2>1. UNCHANGED <<outboxVars, topic>> => UNCHANGED OP!vars
    BY DEF outboxVars, OP!vars
  <2> QED
    BY <2>1, OP!InvStep, OutboxAssumed
<1>3. CASE UNCHANGED vars
  BY <1>2, <1>3 DEF vars, outboxVars
<1>4. CASE BillStep \/ (\E t \in tasks : SaveBill(t) \/ FailTask(t))
  BY <1>2, <1>4, OperationsKeep
<1>5. CASE \E t \in tasks : Publish(t)
  <2>1. PICK t \in tasks : Publish(t)
    BY <1>5
  <2>2. B!EventOf(t) \in L!Message
    BY <2>1, PublishDoes
  <2> QED
    BY <1>1, <2>1, <2>2, SameOutbox DEF Publish, OP!Next
<1>6. CASE CrashOperations
  <2>1. OP!Typed /\ OP!RestartDispatcher(Operations)
    BY <1>6 DEF OP!Inv, CrashOperations, O!RestartDispatcher, OP!RestartDispatcher, O!Idle, OP!Idle
  <2>2. /\ flush' \in [Caller -> OP!CallState]
        /\ isFlushing' \in [{Operations} -> BOOLEAN]
        /\ \A d \in Caller : flush'[d] = OP!Idle \/ flush'[d] = flush[d]
    BY <2>1, OP!RestartIsTyped, OutboxAssumed
  <2>3. UNCHANGED <<status, createdAt, due, faults, topic>>
    BY <1>6 DEF CrashOperations
  <2>4. OP!Saved' = OP!Saved
    BY <2>3 DEF OP!Saved
  <2>5. OP!Typed'
    BY <2>1, <2>2, <2>3, <2>4 DEF OP!Typed, OP!TypeOK, OP!SavedIsFinite, OP!TodoIsSaved, OP!Idle
  <2> QED
    BY <2>2, <2>3, <2>4, <2>5, OP!CallsKept, OutboxAssumed
<1>7. CASE \E c \in Caller : Dispatch(c) \/ DispatchTrouble(c)
  BY <1>1, <1>7, SameOutbox DEF Dispatch, DispatchTrouble, OP!Next
<1>8. CASE \E e \in L!Message : BackoffElapses(e)
  BY <1>1, <1>8, SameOutbox DEF BackoffElapses, OP!Next
<1>9. CASE Consume \/ ConsumeTrouble
  <2>1. topic' = topic
    BY <1>9 DEF Consume, ConsumeTrouble, L!Progress, L!Handle, L!Trouble,
         L!SkipDuplicate, L!Ingest, L!Commit, L!PostEntry, L!PostStorno, L!RefuseStorno,
         L!IgnoreInvoiceSent, L!Persist, L!UpdateOriginal, L!Notify, L!Reply,
         L!IngestError, L!PersistError, L!UpdateError, L!NotifyError, L!ReplyError,
         L!Rebalance, L!Crash
  <2> QED
    BY <1>2, <1>9, <2>1 DEF Consume, ConsumeTrouble
<1> QED
  BY <1>3, <1>4, <1>5, <1>6, <1>7, <1>8, <1>9, StepIs

(* The invariants of Ledger_proofs about reversals and about what was read, *)
(* which hold with any topic.                                               *)
LEMMA BooksInit == Init => LP!ReversalInv /\ LP!ReadInv
<1> SUFFICES ASSUME Init PROVE LP!ReversalInv /\ LP!ReadInv
  OBVIOUS
<1>1. LP!Inv /\ LP!TypeOK
  BY LedgerInit DEF LP!AnswerInv, LP!Inv
<1> USE DEF Init, L!Init, L!Idle
<1>2. LP!ReversalInv
  BY <1>1 DEF LP!ReversalInv, LP!IdIsOne, LP!OriginalIsKnown, LP!StornoIsKnown,
              LP!NoDanglingReversal
<1>3. LP!ReadInv
  BY <1>1 DEF LP!ReadInv, LP!ReadIsIngested, LP!IngestedIsApplied
<1> QED
  BY <1>2, <1>3

LEMMA BooksKept ==
  ASSUME LP!ReversalInv, LP!ReadInv, LP!AnswerInv, UNCHANGED ledgerVars,
         ledgerTopic' = ledgerTopic,
         topic' = topic \/ \E e \in L!Message : topic' = Append(topic, e)
  PROVE  LP!ReversalInv' /\ LP!ReadInv'
<1>1. LP!Inv' /\ LP!TypeOK' /\ LP!TypeOK
  BY TopicGrows DEF LP!AnswerInv, LP!Inv
<1>2. LP!ReversalInv'
  BY <1>1 DEF LP!ReversalInv, LP!IdIsOne, LP!OriginalIsKnown, LP!StornoIsKnown, LP!IsRevert,
              LP!NoDanglingReversal, ledgerVars
<1>3. \A i \in 1 .. pos - 1 : topic'[i] = topic[i]
  <2>1. topic \in Seq(LP!Message) /\ pos \in 1 .. Len(topic) + 1
    BY <1>1 DEF LP!TypeOK
  <2>2. \A i \in 1 .. pos - 1 : i \in 1 .. Len(topic)
    BY <2>1
  <2>3. ASSUME NEW e \in L!Message, topic' = Append(topic, e), NEW i \in 1 .. pos - 1
        PROVE  topic'[i] = topic[i]
    BY <2>1, <2>2, <2>3
  <2> QED
    BY <2>3
<1>4. LP!ReadIsIngested => LP!ReadIsIngested'
  BY <1>3 DEF LP!ReadIsIngested, LP!IsDuplicate, ledgerVars
<1>5. LP!IngestedIsApplied => LP!IngestedIsApplied'
  <2>1. LP!Grows /\ ingested' = ingested /\ \A m : LP!InHand(m) => LP!InHand(m)'
    BY DEF LP!Grows, LP!InHand, ledgerVars
  <2> QED
    BY <1>1, <2>1, LP!AppliedStays, LedgerAssumed
<1> QED
  BY <1>1, <1>2, <1>4, <1>5 DEF LP!ReadInv, ledgerVars

LEMMA BooksStep ==
  ASSUME PostInv, LP!AnswerInv, LP!ReversalInv, LP!ReadInv, [Next]_vars
  PROVE  LP!ReversalInv' /\ LP!ReadInv'
<1>1. CASE Consume \/ ConsumeTrouble
  <2>1. LP!Next
    BY <1>1, SameLedger DEF Consume, ConsumeTrouble, LP!Next
  <2> QED
    BY <2>1, LP!ReversalStep, LP!ReadStep, LedgerAssumed
<1>2. CASE \E c \in Caller : Dispatch(c) \/ DispatchTrouble(c)
  <2>1. PICK c \in Caller : Dispatch(c) \/ DispatchTrouble(c)
    BY <1>2
  <2>2. topic' = topic \/ \E e \in O!Saved : topic' = Append(topic, e)
    BY <2>1, DispatchSends DEF Dispatch, DispatchTrouble, PostInv
  <2>3. O!Saved \subseteq L!Message
    BY DEF O!Saved
  <2> QED
    BY <2>1, <2>2, <2>3, BooksKept DEF Dispatch, DispatchTrouble
<1>3. ASSUME UNCHANGED ledgerVars, UNCHANGED <<topic, ledgerTopic>>
      PROVE  LP!ReversalInv' /\ LP!ReadInv'
  BY <1>3, BooksKept
<1>4. CASE UNCHANGED vars
  BY <1>3, <1>4 DEF vars, ledgerVars
<1> QED
  BY <1>1, <1>2, <1>3, <1>4, StepIs, OperationsKeep

-----------------------------------------------------------------------------
(* Calm: operations and the ledger have neither restarted nor failed to     *)
(* write.  Deliveries may still be refused, repeated and reordered.         *)
Undisturbed == crashes = 0 /\ failures = 0 /\ restarts = 0 /\ errors = 0

\* The commands behind the status of a bill.
Told(b) ==
    /\ bill[b] # "DRAFT" => Asked("billPosted", b)
    /\ bill[b] = "PAID" => Asked("billPaid", b)
    /\ bill[b] = "REVERSING" => Asked("billRevertRequested", b)

\* A second reversal of the bill was requested after a first one was stored.
Again(b) ==
    /\ OutOf("billRevertRequested", b) # {}
    /\ \/ TasksOf("billRevertRequested", b) # {}
       \/ \E e, f \in OutOf("billRevertRequested", b) : e # f

\* A bill that waits although it was answered waits for a second reversal.
Waits(b) == bill[b] = "REVERSING" /\ ~Unanswered(b) => Again(b)

\* A STORNO in memory has its original marked; one in the table is in memory.
JournalFollows ==
    /\ \A s \in mem : s.kind = "STORNO" =>
         \E o \in mem : /\ o.doc = s.doc /\ o.part = "document" /\ o.kind = "ORIGINAL"
                        /\ o.reversedBy # 0
    /\ \A s \in db : s.kind = "STORNO" =>
         \E e \in mem : e.doc = s.doc /\ e.kind = "STORNO"

Calm ==
    /\ \A b \in Bill \ replaced : Told(b) /\ Waits(b)
    /\ JournalFollows
    /\ replyPos <= Len(ledgerTopic) + 1

CalmInv ==
    /\ SagaInv /\ OP!Inv /\ LP!ReversalInv /\ LP!ReadInv /\ failures \in Nat
    /\ Undisturbed => Calm

LEMMA CalmInit == Init => CalmInv
<1> SUFFICES ASSUME Init PROVE CalmInv
  OBVIOUS
<1>1. SagaInv /\ OP!Inv /\ LP!ReversalInv /\ LP!ReadInv
  BY SagaInit, OutboxInit, BooksInit
<1>2. failures \in Nat /\ JournalFollows /\ replyPos <= Len(ledgerTopic) + 1
  BY DEF Init, B!Init, L!Init, JournalFollows
<1>3. ASSUME NEW b \in Bill PROVE Told(b) /\ Waits(b)
  BY DEF Init, B!Init, Told, Waits
<1> QED
  BY <1>1, <1>2, <1>3 DEF CalmInv, Calm

(* The steps of which nothing is a restart or a failed write.               *)
CalmNext ==
    \/ UNCHANGED vars
    \/ BillStep
    \/ \E t \in tasks : SaveBill(t) \/ Publish(t)
    \/ \E c \in Caller : Dispatch(c) \/ DispatchTrouble(c)
    \/ \E e \in L!Message : BackoffElapses(e)
    \/ Consume

LEMMA CalmSteps ==
  ASSUME Counted, CacheInv, LP!AnswerInv, failures \in Nat, [Next]_vars, Undisturbed'
  PROVE  CalmNext /\ Undisturbed
<1>1. /\ crashes = 0 /\ ~CrashOperations
      /\ failures \in Nat /\ restarts \in Nat /\ errors \in Nat
  BY StaysWarm DEF Undisturbed, LP!AnswerInv, LP!Inv, LP!TypeOK
<1>2. ~B!Failure /\ ~L!Restart /\ ~L!Error
  BY <1>1 DEF Undisturbed, B!Failure, L!Restart, L!Error
<1>3. \A t : ~FailTask(t)
  BY <1>2 DEF FailTask, B!TaskError
<1>4. ~ConsumeTrouble
  BY <1>2 DEF ConsumeTrouble, L!Trouble, L!IngestError, L!PersistError, L!UpdateError,
              L!NotifyError, L!ReplyError, L!Rebalance, L!Crash
<1>5. CalmNext
  BY <1>1, <1>3, <1>4, StepIs DEF CalmNext
<1>6. UNCHANGED <<failures, restarts, errors>>
  <2>1. CASE Consume
    BY <2>1 DEF Consume, billVars, L!Progress, L!Handle, L!SkipDuplicate, L!Ingest, L!Commit,
         L!PostEntry, L!PostStorno, L!RefuseStorno, L!IgnoreInvoiceSent, L!Persist,
         L!UpdateOriginal, L!Notify, L!Reply
  <2>2. CASE \/ \E c \in Caller : Dispatch(c) \/ DispatchTrouble(c)
             \/ \E e \in L!Message : BackoffElapses(e)
             \/ UNCHANGED vars
    BY <2>2 DEF Dispatch, DispatchTrouble, BackoffElapses, billVars, ledgerVars, vars
  <2>3. CASE BillStep
    BY <2>3, BillStepKeeps
  <2>4. CASE \E t \in tasks : SaveBill(t) \/ Publish(t)
    BY <2>4 DEF SaveBill, B!SaveBill, Publish, B!Publish, ledgerVars
  <2> QED
    BY <1>5, <2>1, <2>2, <2>3, <2>4 DEF CalmNext
<1> QED
  BY <1>1, <1>5, <1>6 DEF Undisturbed

(* What is asked stays asked: a task goes on until its event is stored.     *)
LEMMA AgainStays ==
  ASSUME O!Saved \subseteq O!Saved', NEW b,
         \A t \in TasksOf("billRevertRequested", b) :
            \/ TasksOf("billRevertRequested", b)' # {}
            \/ \E e \in O!Saved' \ O!Saved : e.type = "billRevertRequested" /\ e.doc = b,
         Again(b)
  PROVE  Again(b)'
<1>1. OutOf("billRevertRequested", b) \subseteq OutOf("billRevertRequested", b)'
  BY DEF OutOf
<1>2. PICK e \in OutOf("billRevertRequested", b) : TRUE
  BY DEF Again
<1>3. CASE TasksOf("billRevertRequested", b) # {}
  <2>1. CASE TasksOf("billRevertRequested", b)' # {}
    BY <1>1, <1>2, <2>1 DEF Again
  <2>2. ASSUME NEW f \in O!Saved' \ O!Saved, f.type = "billRevertRequested", f.doc = b
        PROVE  Again(b)'
    <3>1. f \in OutOf("billRevertRequested", b)' /\ f \notin OutOf("billRevertRequested", b)
      BY <2>2 DEF OutOf
    <3> QED
      BY <1>1, <1>2, <3>1 DEF Again
  <2> QED
    BY <1>3, <2>1, <2>2
<1>4. CASE \E f, g \in OutOf("billRevertRequested", b) : f # g
  BY <1>1, <1>2, <1>4 DEF Again
<1> QED
  BY <1>3, <1>4 DEF Again

(* A bill that was answered was asked to be reversed before.                *)
LEMMA AnsweredWasAsked ==
  ASSUME SagaInv, NEW b \in Bill, ~Unanswered(b)
  PROVE  OutOf("billRevertRequested", b) # {}
<1>1. PICK k \in DOMAIN ledgerTopic : IsAnswer(ledgerTopic[k], b)
  BY DEF Unanswered
<1>2. PICK m \in ingested : m.type \in LP!RevertTypes /\ m.doc = b
  BY <1>1 DEF SagaInv, LP!AnswerInv, LP!AnswerIsCaused, IsAnswer
<1>3. m \in O!Saved /\ m.type = "billRevertRequested"
  <2>1. m \in L!Message /\ m \in O!Saved
    BY LedgerFacts DEF SagaInv, Caused
  <2> QED
    BY <1>2, <2>1 DEF L!Message, LP!RevertTypes
<1> QED
  BY <1>2, <1>3 DEF OutOf

\* A step that reads and sends no reply, and keeps what was asked, of a bill whose
\* status it keeps.
LEMMA CalmKept ==
  ASSUME Calm, replaced \subseteq replaced', UNCHANGED <<mem, db, replyPos, ledgerTopic>>,
         \A b \in Bill \ replaced' :
            /\ bill'[b] = bill[b]
            /\ \A u \in B!Command : Asked(u, b) => Asked(u, b)'
            /\ Again(b) => Again(b)'
  PROVE  Calm'
<1>1. ASSUME NEW b \in Bill \ replaced' PROVE Told(b)' /\ Waits(b)'
  <2>1. Told(b) /\ Waits(b)
    BY DEF Calm
  <2>2. Unanswered(b)' <=> Unanswered(b)
    BY DEF Unanswered
  <2> QED
    BY <2>1, <2>2 DEF Told, Waits, B!Command
<1> QED
  BY <1>1 DEF Calm, JournalFollows

\* A command begins.
LEMMA CalmCommand ==
  ASSUME SagaInv, Calm, crashes = 0, O!Saved' = O!Saved, replaced \subseteq replaced',
         UNCHANGED <<mem, db, replyPos, ledgerTopic>>,
         NEW type \in B!Command, NEW d \in Bill, Moves(type, d)
  PROVE  Calm'
<1>1. PICK new : new.type = type /\ new.doc = d /\ Late' = Late \cup {new}
  BY DEF Moves
<1>2. \A u, b : TasksOf(u, b) \subseteq TasksOf(u, b)' /\ OutOf(u, b)' = OutOf(u, b)
  BY <1>1 DEF TasksOf, OutOf
<1>3. /\ \A u, b : Asked(u, b) => Asked(u, b)'
      /\ TasksOf(type, d)' # {} /\ Asked(type, d)'
  BY <1>1, <1>2 DEF Asked, TasksOf
<1>4. \A b : Again(b) => Again(b)'
  BY <1>2 DEF Again
<1>5. ASSUME NEW b \in Bill \ replaced' PROVE Told(b)' /\ Waits(b)'
  <2>0. Told(b) /\ Waits(b) /\ b \in Bill
    BY DEF Calm
  <2>1. Unanswered(b)' <=> Unanswered(b)
    BY DEF Unanswered
  <2>2. CASE b # d
    <3>1. bill'[b] = bill[b]
      BY <2>0, <2>2 DEF Moves
    <3> QED
      BY <1>3, <1>4, <2>0, <2>1, <3>1 DEF Told, Waits
  <2>3. CASE b = d
    <3>1. bill'[b] = B!To(type) /\ bill[b] = B!From(type)
      BY <2>3 DEF Moves, SagaInv, StornoInv, PostInv, CacheInv, Warm
    <3>2. Told(b)'
      <4>1. type # "billPosted" => Asked("billPosted", b)
        BY <2>0, <3>1 DEF Told, B!From, B!Command
      <4>2. CASE type = "billPosted"
        BY <1>3, <2>3, <3>1, <4>2 DEF Told, B!To
      <4>3. CASE type = "billPaid"
        BY <1>3, <2>3, <3>1, <4>1, <4>3 DEF Told, B!To
      <4>4. CASE type = "billRevertRequested"
        BY <1>3, <2>3, <3>1, <4>1, <4>4 DEF Told, B!To
      <4> QED
        BY <4>2, <4>3, <4>4 DEF B!Command
    <3>3. ASSUME bill'[b] = "REVERSING", ~Unanswered(b)' PROVE Again(b)'
      <4>1. type = "billRevertRequested"
        BY <3>1, <3>3 DEF B!To, B!Command
      <4>2. OutOf("billRevertRequested", b) # {}
        BY <2>0, <2>1, <3>3, AnsweredWasAsked
      <4> QED
        BY <1>2, <1>3, <2>3, <4>1, <4>2 DEF Again
    <3> QED
      BY <3>2, <3>3 DEF Waits
  <2> QED
    BY <2>2, <2>3
<1> QED
  BY <1>5 DEF Calm, JournalFollows

LEMMA CalmHandleReply ==
  ASSUME SagaInv, Calm, crashes = 0, O!Saved' = O!Saved, UNCHANGED <<mem, db>>,
         ReadReply, B!HandleReply
  PROVE  Calm'
<1> DEFINE m == ledgerTopic[replyPos]
<1>1. /\ m.type \in B!SagaReply /\ m.doc \in Bill /\ bill[m.doc] = "REVERSING"
      /\ Moves(m.type, m.doc)
      /\ replyPos \in DOMAIN ledgerTopic
      /\ replyPos' = replyPos + 1 /\ ledgerTopic' = ledgerTopic /\ replaced' = replaced
  BY ReplyMoves DEF SagaInv, StornoInv, PostInv
<1>2. replyPos \in Nat /\ ledgerTopic \in Seq(L!LedgerMessage)
  BY DEF SagaInv, StornoInv, Counted, LedgerTyped
<1>3. replyPos' <= Len(ledgerTopic') + 1
  BY <1>1, <1>2
<1>4. ASSUME NEW b \in Bill, b # m.doc, ~Unanswered(b)' PROVE ~Unanswered(b)
  <2>1. PICK k \in DOMAIN ledgerTopic : k < replyPos + 1 /\ IsAnswer(ledgerTopic[k], b)
    BY <1>1, <1>4 DEF Unanswered
  <2>2. k # replyPos /\ k \in Nat
    BY <1>2, <1>4, <2>1 DEF IsAnswer
  <2> QED
    BY <1>2, <2>1, <2>2 DEF Unanswered
<1> HIDE DEF m
<1>5. PICK new : new.type = m.type /\ Late' = Late \cup {new}
  BY <1>1 DEF Moves
<1>6. \A u, b : TasksOf(u, b) \subseteq TasksOf(u, b)' /\ OutOf(u, b)' = OutOf(u, b)
  BY <1>5 DEF TasksOf, OutOf
<1>7. /\ \A u, b : Asked(u, b) => Asked(u, b)'
      /\ \A b : Again(b) => Again(b)'
  BY <1>6 DEF Asked, Again
<1>8. ASSUME NEW b \in Bill \ replaced' PROVE Told(b)' /\ Waits(b)'
  <2>0. Told(b) /\ Waits(b)
    BY <1>1 DEF Calm
  <2>1. CASE b # m.doc
    <3>1. bill'[b] = bill[b]
      BY <1>1, <2>1 DEF Moves
    <3> QED
      BY <1>4, <1>7, <2>0, <2>1, <3>1 DEF Told, Waits
  <2>2. CASE b = m.doc
    <3>1. bill'[b] = B!To(m.type)
      BY <1>1, <2>2 DEF Moves
    <3>2. bill'[b] \in {"POSTED", "REVERTED"} /\ Asked("billPosted", b)
      BY <1>1, <2>0, <2>2, <3>1 DEF B!To, B!SagaReply, Told
    <3> QED
      BY <1>7, <3>2 DEF Told, Waits
  <2> QED
    BY <2>1, <2>2
<1> QED
  BY <1>3, <1>8 DEF Calm, JournalFollows

LEMMA CalmSkipReply ==
  ASSUME SagaInv, Calm, crashes = 0, O!Saved' = O!Saved, UNCHANGED <<mem, db>>,
         B!SkipReply
  PROVE  Calm'
<1> DEFINE m == ledgerTopic[replyPos]
<1>1. /\ \A b \in Bill : IsAnswer(m, b) => bill[b] # "REVERSING"
      /\ replyPos \in DOMAIN ledgerTopic
      /\ replyPos' = replyPos + 1
      /\ UNCHANGED <<bill, tasks, ledgerTopic, replaced>>
  BY DEF B!SkipReply, IsAnswer, B!SagaReply
<1>2. UNCHANGED Late
  BY <1>1 DEF Late
<1>3. replyPos \in Nat /\ ledgerTopic \in Seq(L!LedgerMessage)
  BY DEF SagaInv, StornoInv, Counted, LedgerTyped
<1>4. replyPos' <= Len(ledgerTopic') + 1
  BY <1>1, <1>3
<1> HIDE DEF m
<1>5. ASSUME NEW b \in Bill \ replaced' PROVE Told(b)' /\ Waits(b)'
  <2>0. Told(b) /\ Waits(b)
    BY <1>1 DEF Calm
  <2>1. \A u : TasksOf(u, b)' = TasksOf(u, b) /\ OutOf(u, b)' = OutOf(u, b)
    BY <1>2 DEF TasksOf, OutOf
  <2>2. ASSUME bill'[b] = "REVERSING", ~Unanswered(b)' PROVE ~Unanswered(b)
    <3>1. PICK k \in DOMAIN ledgerTopic : k < replyPos + 1 /\ IsAnswer(ledgerTopic[k], b)
      BY <1>1, <2>2 DEF Unanswered
    <3>2. k # replyPos /\ k \in Nat
      BY <1>1, <1>3, <2>2, <3>1 DEF m
    <3> QED
      BY <1>3, <3>1, <3>2 DEF Unanswered
  <2> QED
    BY <1>1, <2>0, <2>1, <2>2 DEF Told, Waits, Asked, Again
<1> QED
  BY <1>1, <1>4, <1>5 DEF Calm, JournalFollows

(* The ledger appends its answers where the saga consumer has not been, and *)
(* marks an original as it makes the STORNO.                                *)
LEMMA JournalFollowsStep ==
  ASSUME LedgerTyped, JournalFollows, Consume
  PROVE  JournalFollows'
<1>1. CASE L!PostEntry
  BY <1>1 DEF L!PostEntry, JournalFollows
<1>2. CASE L!PostStorno
  <2>1. PICK o \in L!Reversible(handler.msg.doc) :
           mem' = (mem \ {o}) \cup {[o EXCEPT !.reversedBy = lastId + 1],
                                   [o EXCEPT !.id = lastId + 1, !.kind = "STORNO"]}
    BY <1>2 DEF L!PostStorno
  <2>2. /\ o \in L!Entry /\ o.part = "document" /\ o.kind = "ORIGINAL" /\ o.reversedBy = 0
        /\ db' = db /\ lastId \in Nat
    BY <1>2 DEF L!Reversible, LedgerTyped, L!PostStorno
  <2> DEFINE marked == [o EXCEPT !.reversedBy = lastId + 1]
             storno == [o EXCEPT !.id = lastId + 1, !.kind = "STORNO"]
  <2>3. /\ marked.doc = o.doc /\ marked.part = "document" /\ marked.kind = "ORIGINAL"
        /\ marked.reversedBy = lastId + 1 /\ lastId + 1 # 0
        /\ storno.doc = o.doc
    BY <2>2 DEF L!Entry
  <2>4. /\ marked \in mem' /\ \A e \in mem : e # o => e \in mem'
        /\ \A e \in mem' : e = marked \/ e = storno \/ (e \in mem /\ e # o)
    BY <2>1
  <2> HIDE DEF marked, storno
  <2>5. \A s \in mem' : s.kind = "STORNO" =>
         \E x \in mem' : /\ x.doc = s.doc /\ x.part = "document" /\ x.kind = "ORIGINAL"
                         /\ x.reversedBy # 0
    BY <2>2, <2>3, <2>4 DEF JournalFollows
  <2> QED
    BY <2>2, <2>4, <2>5 DEF JournalFollows
<1>3. CASE L!Persist
  <2>1. mem' = mem /\ db' = db \cup L!NewRow
    BY <1>3 DEF L!Persist
  <2>2. \A e \in L!NewRow : \E x \in mem : x.doc = e.doc /\ x.kind = e.kind
    BY DEF L!NewRow, LedgerTyped, L!Entry
  <2> QED
    BY <2>1, <2>2 DEF JournalFollows
<1>4. CASE L!UpdateOriginal
  <2>1. mem' = mem
    BY <1>4 DEF L!UpdateOriginal
  <2>2. \A e \in db' : \E x \in db : x.doc = e.doc /\ x.kind = e.kind
    BY <1>4 DEF L!UpdateOriginal, LedgerTyped, L!Entry
  <2> QED
    BY <2>1, <2>2 DEF JournalFollows
<1>5. CASE \/ L!SkipDuplicate \/ L!Ingest \/ L!Commit
           \/ L!RefuseStorno \/ L!IgnoreInvoiceSent \/ L!Notify \/ L!Reply
  BY <1>5 DEF L!SkipDuplicate, L!Ingest, L!Commit, L!RefuseStorno, L!IgnoreInvoiceSent,
              L!Notify, L!Reply, JournalFollows
<1> QED
  BY <1>1, <1>2, <1>3, <1>4, <1>5 DEF Consume, L!Progress, L!Handle

LEMMA CalmLedger ==
  ASSUME SagaInv, Calm, Consume
  PROVE  Calm'
<1>1. LedgerTyped /\ replyPos \in Nat
  BY DEF SagaInv, StornoInv, Counted
<1>2. UNCHANGED <<bill, Late, replyPos, replaced>> /\ O!Saved' = O!Saved
  BY OutboxKept, ElsewhereKeeps DEF Consume, SagaInv, StornoInv, PostInv
<1>3. ledgerTopic' = ledgerTopic \/ \E m : ledgerTopic' = Append(ledgerTopic, m)
  BY DEF Consume, L!Progress, L!Handle, L!SkipDuplicate, L!Ingest, L!Commit, L!PostEntry,
         L!PostStorno, L!RefuseStorno, L!IgnoreInvoiceSent, L!Persist, L!UpdateOriginal,
         L!Notify, L!Reply
<1>4. /\ Len(ledgerTopic') >= Len(ledgerTopic) /\ Len(ledgerTopic') \in Nat
      /\ \A k \in DOMAIN ledgerTopic' : k < replyPos =>
            k \in DOMAIN ledgerTopic /\ ledgerTopic'[k] = ledgerTopic[k]
  <2>1. ledgerTopic \in Seq(L!LedgerMessage) /\ replyPos <= Len(ledgerTopic) + 1
    BY <1>1 DEF LedgerTyped, Calm
  <2>2. ASSUME NEW m, ledgerTopic' = Append(ledgerTopic, m)
        PROVE  /\ Len(ledgerTopic') = Len(ledgerTopic) + 1
               /\ \A k \in DOMAIN ledgerTopic' : k < replyPos =>
                    k \in DOMAIN ledgerTopic /\ ledgerTopic'[k] = ledgerTopic[k]
    BY <1>1, <2>1, <2>2
  <2> QED
    BY <1>3, <2>1, <2>2
<1>5. ASSUME NEW b \in Bill \ replaced' PROVE Told(b)' /\ Waits(b)'
  <2>1. Told(b)'
    BY <1>2 DEF Calm, Told, Asked, TasksOf, OutOf
  <2>2. Unanswered(b) => Unanswered(b)'
    BY <1>2, <1>4 DEF Unanswered
  <2>3. Again(b)' <=> Again(b)
    BY <1>2 DEF Again, OutOf, TasksOf
  <2> QED
    BY <1>2, <2>1, <2>2, <2>3 DEF Calm, Waits
<1>6. replyPos' <= Len(ledgerTopic') + 1
  BY <1>1, <1>2, <1>4 DEF Calm, LedgerTyped
<1> QED
  BY <1>1, <1>5, <1>6, JournalFollowsStep DEF Calm

LEMMA CalmBillStep ==
  ASSUME SagaInv, Calm, crashes = 0, crashes' = 0, BillStep
  PROVE  Calm'
<1>1. CacheInv /\ OutboxTyped
  BY DEF SagaInv, StornoInv, PostInv
<1>2. UNCHANGED <<mem, db, ledgerTopic>> /\ replaced \subseteq replaced' /\ O!Saved' = O!Saved
  BY <1>1, BillStepKeeps, OutboxKept
<1>3. CASE Quiet /\ replyPos' = replyPos
  <2>1. \A u, b : TasksOf(u, b)' = TasksOf(u, b) /\ OutOf(u, b)' = OutOf(u, b)
    BY <1>2, <1>3 DEF Quiet, TasksOf, OutOf
  <2>2. \A b \in Bill \ replaced' : bill'[b] = bill[b]
    BY <1>1, <1>3, WarmBills
  <2>3. \A b : /\ \A u : Asked(u, b) => Asked(u, b)'
               /\ Again(b) => Again(b)'
    BY <2>1 DEF Asked, Again
  <2> QED
    BY <1>2, <1>3, <2>2, <2>3, CalmKept
<1> QED
  BY <1>1, <1>2, <1>3, WarmStep, CalmCommand, CalmHandleReply, CalmSkipReply

LEMMA CalmTask ==
  ASSUME SagaInv, Calm, NEW t \in tasks, SaveBill(t) \/ Publish(t)
  PROVE  Calm'
<1> DEFINE Request == "billRevertRequested"
<1>1. PostInv /\ CacheInv /\ OutboxTyped
  BY DEF SagaInv, StornoInv, PostInv
<1>2. UNCHANGED <<bill, mem, db, replyPos, ledgerTopic, replaced>>
  BY DEF SaveBill, B!SaveBill, Publish, B!Publish, ledgerVars
<1>3. \A b : \A u \in B!Command : Asked(u, b) => Asked(u, b)'
  BY <1>1, AskedAfter
<1>4. O!Saved \subseteq O!Saved'
  <2>1. SaveBill(t) => O!Saved' = O!Saved
    BY <1>1, OutboxKept DEF SaveBill
  <2> QED
    BY <1>1, <2>1, PublishDoes
<1>5. ASSUME NEW b, NEW x \in TasksOf(Request, b)
      PROVE  \/ TasksOf(Request, b)' # {}
             \/ \E e \in O!Saved' \ O!Saved : e.type = Request /\ e.doc = b
  <2>1. x \in Late /\ x.type = Request /\ x.doc = b
    BY DEF TasksOf
  <2>2. CASE x \in Late'
    BY <2>1, <2>2 DEF TasksOf
  <2>3. CASE x \notin Late' /\ SaveBill(t)
    <3>1. t.type \notin B!SagaReply /\ t = x
      BY <1>1, <2>1, <2>3, SaveDoes DEF B!SagaReply
    <3>2. PICK next \in B!Task : /\ next.type = t.type /\ next.doc = t.doc
                                 /\ Late' = (Late \ {t}) \cup {next}
      BY <1>1, <2>3, <3>1, SaveDoes
    <3> QED
      BY <2>1, <3>1, <3>2 DEF TasksOf
  <2>4. CASE x \notin Late' /\ Publish(t)
    <3>1. /\ Late' = Late \ {t} /\ B!EventOf(t).type = t.type /\ B!EventOf(t).doc = t.doc
          /\ O!Saved' = O!Saved \cup {B!EventOf(t)}
      BY <1>1, <2>4, PublishDoes
    <3>2. B!EventOf(t) \notin O!Saved
      BY <2>4 DEF Publish, O!Save, O!Saved
    <3> QED
      BY <2>1, <2>4, <3>1, <3>2
  <2> QED
    BY <2>2, <2>3, <2>4
<1>6. \A b : Again(b) => Again(b)'
  BY <1>4, <1>5, AgainStays
<1> QED
  BY <1>2, <1>3, <1>6, CalmKept

LEMMA CalmStep == CalmInv /\ [Next]_vars => CalmInv'
<1> SUFFICES ASSUME CalmInv, [Next]_vars PROVE CalmInv'
  OBVIOUS
<1>0. CacheInv /\ OutboxTyped /\ PostInv
  BY DEF CalmInv, SagaInv, StornoInv, PostInv
<1>1. SagaInv' /\ OP!Inv'
  BY <1>0, SagaStep, OutboxStep DEF CalmInv
<1>2. LP!ReversalInv' /\ LP!ReadInv'
  BY BooksStep DEF CalmInv, SagaInv, StornoInv
<1>3. failures' \in Nat
  <2>1. failures \in Nat
    BY DEF CalmInv
  <2>2. CASE \E t \in tasks : SaveBill(t) \/ FailTask(t) \/ Publish(t)
    BY <2>1, <2>2 DEF SaveBill, B!SaveBill, FailTask, B!TaskError, B!Failure, Publish, B!Publish
  <2>3. CASE CrashOperations
    BY <2>1, <2>3 DEF CrashOperations, B!CrashBills
  <2> QED
    BY <2>1, <2>2, <2>3, StepIs, BillStepKeeps, ElsewhereKeeps
<1>4. ASSUME Undisturbed' PROVE Calm'
  <2>1. SagaInv /\ CalmNext /\ Calm /\ crashes = 0 /\ crashes' = 0
    BY <1>0, <1>4, CalmSteps DEF CalmInv, SagaInv, Undisturbed
  <2>2. CASE BillStep
    BY <2>1, <2>2, CalmBillStep
  <2>3. CASE \E t \in tasks : SaveBill(t) \/ Publish(t)
    BY <2>1, <2>3, CalmTask
  <2>4. CASE \/ \E c \in Caller : Dispatch(c) \/ DispatchTrouble(c)
             \/ \E e \in L!Message : BackoffElapses(e)
             \/ UNCHANGED vars
    <3>1. UNCHANGED <<bill, Late, replyPos, replaced>>
      BY <2>4, ElsewhereKeeps
    <3>2. O!Saved' = O!Saved /\ UNCHANGED <<mem, db, ledgerTopic>>
      <4>1. CASE UNCHANGED vars
        BY <4>1 DEF vars, O!Saved
      <4>2. CASE \E e \in L!Message : BackoffElapses(e)
        BY <4>2, OperationsKeep DEF ledgerVars
      <4>3. CASE \E c \in Caller : Dispatch(c) \/ DispatchTrouble(c)
        BY <1>0, <4>3, DispatchKeepsRows DEF Dispatch, DispatchTrouble, ledgerVars
      <4> QED
        BY <2>4, <4>1, <4>2, <4>3
    <3>3. \A u, b : TasksOf(u, b)' = TasksOf(u, b) /\ OutOf(u, b)' = OutOf(u, b)
      BY <3>1, <3>2 DEF TasksOf, OutOf
    <3>4. \A b : /\ \A u : Asked(u, b) => Asked(u, b)'
                 /\ Again(b) => Again(b)'
      BY <3>3 DEF Asked, Again
    <3> QED
      BY <2>1, <3>1, <3>2, <3>4, CalmKept
  <2>5. CASE Consume
    BY <2>1, <2>5, CalmLedger
  <2> QED
    BY <2>1, <2>2, <2>3, <2>4, <2>5 DEF CalmNext
<1> QED
  BY <1>1, <1>2, <1>3, <1>4 DEF CalmInv

(* When nothing is left to be done, every event that was asked for has had  *)
(* its effect on the books.                                                 *)
LEMMA AskedIsApplied ==
  ASSUME CalmInv, Undisturbed, Quiescent, NEW type, NEW b \in Bill, Asked(type, b)
  PROVE  \E e \in O!Saved : e \in LP!Message /\ e.type = type /\ e.doc = b /\ LP!Effect(e)
<1>1. PICK e \in O!Saved : e.type = type /\ e.doc = b
  BY DEF Asked, TasksOf, OutOf, Late, Quiescent
<1>2. e \in L!Message /\ status[e] = "PUBLISHED"
  BY DEF O!Saved, Quiescent
<1>3. PICK i \in DOMAIN topic : topic[i] = e
  BY <1>2 DEF CalmInv, OP!Inv, OP!PublishedWasDelivered, OP!Delivered
<1>4. topic \in Seq(LP!Message) /\ pos = Len(topic) + 1
  BY DEF CalmInv, SagaInv, LP!AnswerInv, LP!Inv, LP!TypeOK, Quiescent
<1>5. i \in 1 .. pos - 1 /\ e \in LP!Message
  BY <1>3, <1>4
<1>6. LP!ReadIsApplied
  BY LP!ReadSuffices, LedgerAssumed DEF CalmInv
<1>7. LP!Effect(topic[i])
  BY <1>5, <1>6 DEF LP!ReadIsApplied, LP!AllReadApplied, Undisturbed, Quiescent
<1> QED
  BY <1>1, <1>3, <1>5, <1>7

(* What may be in the journal about a bill, and what of it was asked for.   *)
LEMMA EntryWasAsked ==
  ASSUME CalmInv, Undisturbed, NEW b \in Bill \ replaced, NEW e \in mem,
         e.doc = b
  PROVE  \/ /\ e.part = "document" /\ e.kind = "ORIGINAL" /\ bill[b] # "DRAFT"
            /\ e.reversedBy # 0 => HasStorno(b)
         \/ e.part = "payment" /\ e.kind = "ORIGINAL" /\ e.reversedBy = 0 /\ bill[b] = "PAID"
         \/ /\ e.part = "document" /\ e.kind = "STORNO" /\ e.reversedBy = 0
            /\ bill[b] \in {"REVERSING", "REVERTED"}
<1>1. PICK m \in ingested : LP!Posts(m, e)
  BY DEF CalmInv, SagaInv, LP!AnswerInv, LP!Inv, LP!EntryIsCaused
<1>2. m \in L!Message /\ m \in O!Saved /\ m.doc = b
  BY <1>1, LedgerFacts DEF CalmInv, SagaInv, Caused, LP!Posts
<1>3. /\ m.type \in LP!PostTypes => m.type = "billPosted"
      /\ m.type \in LP!PayTypes => m.type = "billPaid"
  BY <1>2 DEF L!Message, LP!PostTypes, LP!PayTypes
<1>4. e.reversedBy # 0 => e.kind = "ORIGINAL" /\ e.part = "document" /\ HasStorno(b)
  BY DEF CalmInv, LP!ReversalInv, LP!NoDanglingReversal, Undisturbed, HasStorno
<1>5. PostingOf(b) /\ Follows(b)
  BY DEF CalmInv, SagaInv, StornoInv, PostInv, Undisturbed
<1>6. CASE m.type \in LP!PostTypes /\ e.part = "document" /\ e.kind = "ORIGINAL"
  <2>1. m \in Out(b)
    BY <1>2, <1>3, <1>6 DEF Out
  <2> QED
    BY <1>4, <1>5, <1>6, <2>1 DEF PostingOf
<1>7. CASE m.type \in LP!PayTypes /\ e.part = "payment" /\ e.kind = "ORIGINAL"
  BY <1>2, <1>3, <1>4, <1>5, <1>7 DEF Follows, Asked, OutOf
<1>8. CASE m.type \in LP!RevertTypes /\ e.part = "document" /\ e.kind = "STORNO"
  <2>1. HasStorno(b)
    BY <1>8 DEF HasStorno
  <2> QED
    BY <1>4, <1>5, <1>8, <2>1 DEF Follows
<1> QED
  BY <1>1, <1>6, <1>7, <1>8 DEF LP!Posts

\* The entry of a bill that was posted, or paid.
LEMMA AskedIsBooked ==
  ASSUME CalmInv, Undisturbed, Quiescent, NEW b \in Bill
  PROVE  /\ Asked("billPosted", b) => \E e \in mem : e.doc = b /\ e.part = "document"
         /\ Asked("billPaid", b) => \E e \in mem : e.doc = b /\ e.part = "payment"
         /\ Asked("billRevertRequested", b) => LP!Replies(b) # {}
<1>1. ASSUME Asked("billPosted", b) PROVE \E e \in mem : e.doc = b /\ e.part = "document"
  <2>1. PICK m \in O!Saved : /\ m \in LP!Message /\ m.type = "billPosted" /\ m.doc = b
                             /\ LP!Effect(m)
    BY <1>1, AskedIsApplied
  <2> QED
    BY <2>1, LP!EffectIs, LedgerAssumed DEF LP!PostTypes
<1>2. ASSUME Asked("billPaid", b) PROVE \E e \in mem : e.doc = b /\ e.part = "payment"
  <2>1. PICK m \in O!Saved : /\ m \in LP!Message /\ m.type = "billPaid" /\ m.doc = b
                             /\ LP!Effect(m)
    BY <1>2, AskedIsApplied
  <2> QED
    BY <2>1, LP!EffectIs, LedgerAssumed DEF LP!PayTypes
<1>3. ASSUME Asked("billRevertRequested", b) PROVE LP!Replies(b) # {}
  <2>1. PICK m \in O!Saved : /\ m \in LP!Message /\ m.type = "billRevertRequested"
                             /\ m.doc = b /\ LP!Effect(m)
    BY <1>3, AskedIsApplied
  <2> QED
    BY <2>1, LP!EffectIs, LedgerAssumed DEF LP!RevertTypes
<1> QED
  BY <1>1, <1>2, <1>3

\* What the journal shows of one entry.
Shown(e) == <<e.part, e.kind, e.reversedBy # 0>>

LEMMA BooksAre ==
  ASSUME NEW b, NEW S, \A e \in mem : e.doc = b => Shown(e) \in S,
         \A x \in S : \E e \in mem : e.doc = b /\ Shown(e) = x
  PROVE  Books(b) = S
<1>1. Books(b) = {Shown(e) : e \in {x \in mem : x.doc = b}}
  BY DEF Books, Shown
<1> QED
  BY <1>1

LEMMA CalmBooksAgree ==
  ASSUME CalmInv, Undisturbed, Quiescent, NEW b \in Bill \ replaced,
         bill[b] # "REVERSING"
  PROVE  Books(b) = BooksOf(bill[b])
<1>1. bill[b] \in {"DRAFT", "POSTED", "PAID", "REVERTED"}
  BY WarmBills DEF CalmInv, SagaInv, StornoInv, PostInv, Undisturbed, B!Status
<1>2. Told(b) /\ Follows(b) /\ JournalFollows
  BY DEF CalmInv, Calm, SagaInv, Undisturbed
<1>3. bill[b] # "REVERTED" => ~HasStorno(b)
  BY <1>2 DEF Follows
<1>4. CASE bill[b] = "DRAFT"
  <2>1. \A e \in mem : e.doc # b
    BY <1>4, EntryWasAsked
  <2> QED
    BY <1>4, <2>1 DEF Books, BooksOf
<1>5. CASE bill[b] = "POSTED"
  <2> DEFINE S == {<<"document", "ORIGINAL", FALSE>>}
  <2>1. ASSUME NEW e \in mem, e.doc = b
        PROVE  e.part = "document" /\ e.kind = "ORIGINAL" /\ e.reversedBy = 0
    BY <1>3, <1>5, <2>1, EntryWasAsked
  <2>2. \E e \in mem : e.doc = b
    BY <1>2, <1>5, AskedIsBooked DEF Told
  <2>3. \A e \in mem : e.doc = b => Shown(e) = <<"document", "ORIGINAL", FALSE>>
    BY <2>1 DEF Shown
  <2>4. Books(b) = S
    BY <2>2, <2>3, BooksAre
  <2> QED
    BY <1>5, <2>4 DEF BooksOf
<1>6. CASE bill[b] = "PAID"
  <2> DEFINE S == {<<"document", "ORIGINAL", FALSE>>, <<"payment", "ORIGINAL", FALSE>>}
  <2>1. ASSUME NEW e \in mem, e.doc = b
        PROVE  e.part \in {"document", "payment"} /\ e.kind = "ORIGINAL" /\ e.reversedBy = 0
    BY <1>3, <1>6, <2>1, EntryWasAsked
  <2>2. /\ \E e \in mem : e.doc = b /\ e.part = "document"
        /\ \E e \in mem : e.doc = b /\ e.part = "payment"
    BY <1>2, <1>6, AskedIsBooked DEF Told
  <2>3. \A e \in mem : e.doc = b => Shown(e) = <<e.part, "ORIGINAL", FALSE>>
    BY <2>1 DEF Shown
  <2>4. \A e \in mem : e.doc = b => Shown(e) \in S
    BY <2>1, <2>3
  <2>5. \A x \in S : \E e \in mem : e.doc = b /\ Shown(e) = x
    BY <2>2, <2>3
  <2>6. Books(b) = S
    BY <2>4, <2>5, BooksAre
  <2> QED
    BY <1>6, <2>6 DEF BooksOf
<1>7. CASE bill[b] = "REVERTED"
  <2> DEFINE S == {<<"document", "ORIGINAL", TRUE>>, <<"document", "STORNO", FALSE>>}
  <2>1. Booked(b)
    BY <1>7 DEF CalmInv, SagaInv, StornoInv, BillsKnow, Believes, Undisturbed
  <2>2. PICK s \in mem : s.doc = b /\ s.kind = "STORNO"
    BY <1>2, <2>1 DEF Booked, JournalFollows
  <2>3. PICK o \in mem : /\ o.doc = b /\ o.part = "document" /\ o.kind = "ORIGINAL"
                         /\ o.reversedBy # 0
    BY <1>2, <2>2 DEF JournalFollows
  <2>4. ASSUME NEW e \in mem, e.doc = b
        PROVE  /\ e.part = "document"
               /\ \/ e.kind = "ORIGINAL" /\ e.reversedBy # 0
                  \/ e.kind = "STORNO" /\ e.reversedBy = 0
    <3>1. LP!AtMostOnce
      BY DEF CalmInv, SagaInv, LP!AnswerInv, LP!Inv
    <3>2. e.part = "document" /\ e.kind = "ORIGINAL" => e = o
      BY <2>3, <2>4, <3>1 DEF LP!AtMostOnce
    <3> QED
      BY <1>7, <2>3, <2>4, <3>2, EntryWasAsked
  <2>5. \A e \in mem : e.doc = b =>
          \/ e.kind = "ORIGINAL" /\ Shown(e) = <<"document", "ORIGINAL", TRUE>>
          \/ e.kind = "STORNO" /\ Shown(e) = <<"document", "STORNO", FALSE>>
    BY <2>4 DEF Shown
  <2>6. Books(b) = S
    BY <2>2, <2>3, <2>5, BooksAre
  <2> QED
    BY <1>7, <2>6 DEF BooksOf
<1> QED
  BY <1>1, <1>4, <1>5, <1>6, <1>7

(* However events are delayed, repeated or reordered by refused deliveries, *)
(* as long as neither service restarts or fails to write: when nothing is   *)
(* left to be done, the journal and every bill agree that no list has put an*)
(* object of another status in place of (BillService with the handlers of   *)
(* ledger.service.ts).                                                      *)
THEOREM SettledBooksAgree == Spec => [](Undisturbed => BooksAgree)
<1>1. CalmInv => (Undisturbed => BooksAgree)
  BY CalmBooksAgree DEF BooksAgree
<1> QED
  BY <1>1, CalmInit, CalmStep, PTL DEF Spec

\* No reversal of a bill is requested again after a request was stored.
AskedOnce == \A b \in Bill : ~Again(b)

(* ... and a bill whose reversal is requested once does not wait for its    *)
(* reply any more.  A second request is not answered: see the run           *)
(* SagaSecondReversal.                                                      *)
THEOREM FirstReversalsEnd == Spec => [](Undisturbed /\ AskedOnce => NoBillWaits)
<1>1. CalmInv => (Undisturbed /\ AskedOnce => NoBillWaits)
  <2> SUFFICES ASSUME CalmInv, Undisturbed, AskedOnce, Quiescent,
                      NEW b \in Bill \ replaced, bill[b] = "REVERSING"
               PROVE  FALSE
    BY DEF NoBillWaits
  <2>1. Told(b) /\ Waits(b)
    BY DEF CalmInv, Calm
  <2>2. PICK i \in LP!Replies(b) : TRUE
    BY <2>1, AskedIsBooked DEF Told
  <2>3. ledgerTopic \in Seq(L!LedgerMessage) /\ replyPos = Len(ledgerTopic) + 1
    BY DEF CalmInv, SagaInv, StornoInv, LedgerTyped, Quiescent
  <2>4. /\ i \in DOMAIN ledgerTopic /\ i < replyPos
        /\ ledgerTopic[i] \in L!LedgerMessage
        /\ ledgerTopic[i].doc = b /\ ledgerTopic[i].type # "journalEntryPosted"
    BY <2>2, <2>3 DEF LP!Replies
  <2>5. ~Unanswered(b)
    BY <2>4 DEF Unanswered, IsAnswer, L!LedgerMessage
  <2> QED
    BY <2>1, <2>5 DEF Waits, AskedOnce
<1> QED
  BY <1>1, CalmInit, CalmStep, PTL DEF Spec

=============================================================================
