------------------------ MODULE InvoiceService_proofs ------------------------
(***************************************************************************)
(* Proofs about invoices, for any invoices, processes, requests and faults:*)
(* the types of the variables, that an invoice is past DRAFT only if its   *)
(* receiver has it and its stock was issued, and, when it is sent once,    *)
(* that it keeps to its life and that a reversal excludes other requests.  *)
(* And, when there is one process, an invoice whose reversal was answered  *)
(* is settled.                                                             *)
(*                                                                         *)
(* SentWasShipped is not inductive: it says nothing of the status that a   *)
(* request or a reply is about to save, nor of a send that is on its way.  *)
(* Inv adds both.  That what was shipped stays shipped needs that a send   *)
(* issues no more than the lines of its invoice.                           *)
(*                                                                         *)
(* The last part is about the stock that an invoice issues: the theorems   *)
(* of Inventory.                                                           *)
(***************************************************************************)
EXTENDS InvoiceService, Inventory, FiniteSetTheorems, WellFoundedInduction, NaturalsInduction, TLAPS

\* A request that was begun.
Begun == [at : {"check", "issue", "save", "publish", "done", "lost"},
             cmd : Command, inv : Invoice, pod : Pod]

Past(status) == status \notin {"NONE", "DRAFT"}

(* A send of the invoice went through: what it shipped, it shipped. *)
Sent(i) ==
    \E r \in Requests("send", i) :
       /\ req[r].at \notin {"check", "issue"}
       /\ i \in Receiver => r \in edi
       /\ issued[r] = Lines[i]

(* Where a send is, and what it has done. *)
SendIsOnItsWay ==
    \A r \in Request : req[r].at \in {"check", "issue"} =>
        /\ req[r].cmd = "send"
        /\ req[r].at = "issue" /\ req[r].inv \in Receiver => r \in edi

(* A status past DRAFT that is about to be saved. *)
SavedIsShipped ==
    /\ \A r \in Request, i \in Invoice :
         req[r].at = "save" /\ req[r].cmd # "create" /\ req[r].inv = i => Sent(i)
    /\ \A i \in Invoice : settle # Idle /\ settle.inv = i => Sent(i)

StatusIsShipped ==
    /\ \A i \in Invoice : Past(rows[i]) => Sent(i)
    /\ \A p \in Pod, i \in Invoice : Past(items[p][i]) => Sent(i)

(* A status past DRAFT that onModuleInit has read. *)
LoadedIsShipped ==
    \A p \in Pod, i \in Invoice :
        loading[p].at = "found" /\ Past(loading[p].rows[i]) => Sent(i)

Inv == TypeOK /\ SendIsOnItsWay /\ SavedIsShipped /\ StatusIsShipped /\ LoadedIsShipped

-----------------------------------------------------------------------------
(* A request that was begun has a command, an invoice and a process. *)
LEMMA RequestIsTyped ==
  ASSUME TypeOK, NEW r \in Request, req[r].at # "new"
  PROVE  /\ req[r] \in Begun
         /\ req[r].cmd \in Command
         /\ req[r].inv \in Invoice
         /\ req[r].pod \in Pod
  <1>1. req[r] \in {New} \cup Begun
    BY DEF TypeOK, RequestState, Begun
  <1> QED
    BY <1>1 DEF New, Begun

(* The two ways to say that a request was not begun. *)
LEMMA NewIsNew ==
  ASSUME TypeOK, NEW r \in Request
  PROVE  req[r] = New <=> req[r].at = "new"
  <1>1. req[r] \in {New} \cup Begun
    BY DEF TypeOK, RequestState, Begun
  <1> QED
    BY <1>1 DEF New, Begun

LEMMA GotoIsTyped ==
  ASSUME TypeOK, NEW r \in Request, req[r].at # "new",
         NEW at \in {"check", "issue", "save", "publish", "done", "lost"}, Goto(r, at)
  PROVE  req' \in [Request -> RequestState]
  <1>1. [req[r] EXCEPT !.at = at] \in RequestState
    BY RequestIsTyped DEF RequestState, Begun
  <1> QED
    BY <1>1 DEF Goto, TypeOK

LEMMA BeginIsTyped ==
  ASSUME TypeOK, NEW r \in Request, NEW cmd \in Command, NEW i \in Invoice, NEW p \in Pod,
         NEW at \in {"check", "save"}, Begin(r, cmd, i, p, at)
  PROVE  req' \in [Request -> RequestState]
  BY DEF Begin, RequestState, TypeOK

(* One status in the map of one process changes. *)
LEMMA ItemsAreTyped ==
  ASSUME TypeOK, NEW p \in Pod, NEW i \in Invoice, NEW s \in Status,
         items' = [items EXCEPT ![p][i] = s]
  PROVE  items' \in [Pod -> [Invoice -> Status \cup {"NONE"}]]
  BY DEF TypeOK

-----------------------------------------------------------------------------
LEMMA TypeInit == Init => TypeOK
  BY InvoiceAssumption DEF Init, TypeOK, RequestState, Idle, Reply, Loading

(* A step of a request. *)
LEMMA TypeRequest ==
  ASSUME TypeOK, NEW r \in Request, Step(r)
  PROVE  TypeOK'
<1> USE InvoiceAssumption
<1>1. ASSUME NEW i \in Invoice, NEW p \in Pod, CreateDraft(r, i, p) PROVE TypeOK'
  <2>1. req' \in [Request -> RequestState]
    BY <1>1, BeginIsTyped DEF CreateDraft, Command
  <2>2. items' \in [Pod -> [Invoice -> Status \cup {"NONE"}]]
    BY <1>1, ItemsAreTyped DEF CreateDraft, Status
  <2> QED
    BY <1>1, <2>1, <2>2 DEF CreateDraft, replyVars, TypeOK
<1>2. ASSUME NEW i \in Invoice, NEW p \in Pod, Send(r, i, p) PROVE TypeOK'
  <2>1. req' \in [Request -> RequestState]
    BY <1>2, BeginIsTyped DEF Send, Command
  <2> QED
    BY <1>2, <2>1 DEF Send, replyVars, TypeOK
<1>3. ASSUME NEW i \in Invoice, NEW p \in Pod, Pay(r, i, p) PROVE TypeOK'
  <2>1. req' \in [Request -> RequestState]
    BY <1>3, BeginIsTyped DEF Pay, Command
  <2>2. items' \in [Pod -> [Invoice -> Status \cup {"NONE"}]]
    BY <1>3, ItemsAreTyped DEF Pay, Status
  <2> QED
    BY <1>3, <2>1, <2>2 DEF Pay, replyVars, TypeOK
<1>4. ASSUME NEW i \in Invoice, NEW p \in Pod, Reverse(r, i, p) PROVE TypeOK'
  <2>1. req' \in [Request -> RequestState]
    BY <1>4, BeginIsTyped DEF Reverse, Command
  <2>2. items' \in [Pod -> [Invoice -> Status \cup {"NONE"}]]
    BY <1>4, ItemsAreTyped DEF Reverse, Status
  <2> QED
    BY <1>4, <2>1, <2>2 DEF Reverse, replyVars, TypeOK
<1>5. CASE Deliver(r)
  <2>1. req' \in [Request -> RequestState]
    BY <1>5, GotoIsTyped DEF Deliver
  <2> QED
    BY <1>5, <2>1 DEF Deliver, replyVars, TypeOK
<1>6. CASE Issue(r)
  BY <1>6 DEF Issue, replyVars, TypeOK
<1>7. CASE Refuse(r)
  <2>1. req' \in [Request -> RequestState]
    BY <1>7, GotoIsTyped DEF Refuse
  <2> QED
    BY <1>7, <2>1 DEF Refuse, replyVars, TypeOK
<1>8. CASE SetSent(r)
  <2>1. req' \in [Request -> RequestState]
    BY <1>8, GotoIsTyped DEF SetSent
  <2>2. items' \in [Pod -> [Invoice -> Status \cup {"NONE"}]]
    BY <1>8, RequestIsTyped, ItemsAreTyped DEF SetSent, Status
  <2> QED
    BY <1>8, <2>1, <2>2 DEF SetSent, replyVars, TypeOK
<1>9. CASE Save(r)
  <2>1. req' \in [Request -> RequestState]
    BY <1>9, GotoIsTyped DEF Save
  <2>2. Target(req[r].cmd) \in Status /\ req[r].inv \in Invoice
    BY <1>9, RequestIsTyped DEF Save, Target, Command, Status
  <2> QED
    BY <1>9, <2>1, <2>2 DEF Save, replyVars, TypeOK
<1>10. CASE Publish(r)
  <2>1. req' \in [Request -> RequestState]
    BY <1>10, GotoIsTyped DEF Publish
  <2> QED
    BY <1>10, <2>1 DEF Publish, replyVars, TypeOK
<1>11. CASE Fail(r)
  <2>1. req' \in [Request -> RequestState]
    BY <1>11, GotoIsTyped DEF Fail, Running
  <2> QED
    BY <1>11, <2>1 DEF Fail, Failure, replyVars, TypeOK
<1> QED
  BY <1>1, <1>2, <1>3, <1>4, <1>5, <1>6, <1>7, <1>8, <1>9, <1>10, <1>11 DEF Step

(* How far onModuleInit is. *)
LEMMA LoadingIsTyped ==
  ASSUME TypeOK, NEW p \in Pod
  PROVE  /\ loading[p].at = "found" =>
              loading[p].rows \in [Invoice -> Status \cup {"NONE"}]
         /\ loading[p] # Idle => loading[p] = Finding \/ loading[p].at = "found"
  <1>1. loading[p] \in Loading
    BY DEF TypeOK
  <1>2. Idle.at = "idle" /\ Finding.at = "find"
    BY DEF Idle, Finding
  <1> QED
    BY <1>1, <1>2 DEF Loading

(* A process fills its map: a restart begins it, two steps of the hook end  *)
(* it.                                                                      *)
LEMMA TypeLoading ==
  ASSUME TypeOK, NEW p \in Pod, ReadRows(p) \/ FillItems(p)
  PROVE  TypeOK'
<1>1. CASE ReadRows(p)
  <2>1. Found(rows) \in Loading
    BY DEF Found, Loading, TypeOK
  <2>2. loading' \in [Pod -> Loading]
    BY <1>1, <2>1 DEF ReadRows, TypeOK
  <2> QED
    BY <1>1, <2>2 DEF ReadRows, TypeOK
<1>2. CASE FillItems(p)
  <2>1. items' \in [Pod -> [Invoice -> Status \cup {"NONE"}]]
    BY <1>2, LoadingIsTyped DEF FillItems, TypeOK
  <2>2. loading' \in [Pod -> Loading]
    BY <1>2 DEF FillItems, Loading, TypeOK
  <2> QED
    BY <1>2, <2>1, <2>2 DEF FillItems, TypeOK
<1> QED
  BY <1>1, <1>2

(* A step of the saga consumer, an answer of the ledger, or a restart. *)
LEMMA TypeReply ==
  ASSUME TypeOK, ReplyStep \/ (\E m \in Reply : Answer(m)) \/ (\E p \in Pod : Crash(p))
  PROVE  TypeOK'
<1> USE InvoiceAssumption
<1>1. CASE SkipReply
  <2>1. replies[replyPos] \in Reply
    BY <1>1 DEF SkipReply, TypeOK
  <2>2. replies[replyPos].inv \in Invoice
    BY <2>1 DEF Reply
  <2>3. missed' \subseteq Invoice
    BY <1>1, <2>2 DEF SkipReply, TypeOK
  <2> QED
    BY <1>1, <2>3 DEF SkipReply, requestVars, TypeOK
<1>2. CASE HandleReply
  <2>1. replies[replyPos] \in Reply
    BY <1>2 DEF HandleReply, TypeOK
  <2>2. /\ replies[replyPos].inv \in Invoice
        /\ Settled(replies[replyPos].type) \in Status
    BY <2>1 DEF Reply, Settled, Status
  <2>3. items' \in [Pod -> [Invoice -> Status \cup {"NONE"}]]
    BY <1>2, <2>2, ItemsAreTyped DEF HandleReply, TypeOK
  <2> QED
    BY <1>2, <2>2, <2>3 DEF HandleReply, TypeOK
<1>3. CASE SaveReply
  <2>1. settle.inv \in Invoice /\ settle.val \in Status
    BY <1>3 DEF SaveReply, TypeOK
  <2> QED
    BY <1>3, <2>1 DEF SaveReply, TypeOK
<1>4. CASE SaveReplyError
  BY <1>4 DEF SaveReplyError, Failure, requestVars, TypeOK
<1>5. CASE CommitReply
  BY <1>5 DEF CommitReply, requestVars, TypeOK
<1>6. CASE Rebalance
  BY <1>6 DEF Rebalance, Crashing, requestVars, TypeOK
<1>7. ASSUME NEW m \in Reply, Answer(m) PROVE TypeOK'
  BY <1>7 DEF Answer, requestVars, TypeOK
<1>8. ASSUME NEW p \in Pod, Crash(p) PROVE TypeOK'
  <2>1. items' \in [Pod -> [Invoice -> Status \cup {"NONE"}]]
    BY <1>8 DEF Crash, Restarted, TypeOK
  <2>2. ASSUME NEW r \in Request, Running(r)
        PROVE  [req[r] EXCEPT !.at = "lost"] \in RequestState
    BY <2>2, RequestIsTyped DEF Running, RequestState, Begun
  <2>3. req' \in [Request -> RequestState]
    BY <1>8, <2>2 DEF Crash, Restarted, TypeOK
  <2>4. reader' \in Pod /\ replyPos' \in 1 .. Len(replies) + 1
        /\ replyCommitted \in 1 .. replyPos'
        /\ settle' \in {Idle} \cup [at : {"save"}, inv : Invoice, val : Status]
    BY <1>8 DEF Crash, TypeOK
  <2>5. loading' \in [Pod -> Loading]
    BY <1>8 DEF Crash, Restarted, Loading, TypeOK
  <2> QED
    BY <1>8, <2>1, <2>3, <2>4, <2>5 DEF Crash, Restarted, Crashing, TypeOK
<1> QED
  BY <1>1, <1>2, <1>3, <1>4, <1>5, <1>6, <1>7, <1>8 DEF ReplyStep

LEMMA TypeStep == TypeOK /\ [Next]_vars => TypeOK'
  <1> SUFFICES ASSUME TypeOK, [Next]_vars PROVE TypeOK'
    OBVIOUS
  <1>1. CASE UNCHANGED vars
    BY <1>1 DEF vars, TypeOK
  <1> QED
    BY <1>1, TypeRequest, TypeReply, TypeLoading DEF Next

(* The variables of the invoices have their types in every state. *)
THEOREM TypeCorrect == Spec => []TypeOK
  BY TypeInit, TypeStep, PTL DEF Spec

-----------------------------------------------------------------------------
(* What a request has done is kept: no step changes its command or invoice, *)
(* takes back an EDI item, or issues more than the lines of the invoice,    *)
(* and a send that is through does not start again.                         *)
Keeps(q) ==
    /\ req[q].at # "new" =>
         req'[q].at # "new" /\ req'[q].cmd = req[q].cmd /\ req'[q].inv = req[q].inv
    /\ issued[q] = Lines[req[q].inv] => issued'[q] = issued[q]
    /\ q \in edi => q \in edi'
    /\ req[q].at \notin {"new", "check", "issue"} => req'[q].at \notin {"new", "check", "issue"}

LEMMA GotoKeeps ==
  ASSUME TypeOK, NEW r \in Request, NEW at, at # "new", req[r].at # "new", Goto(r, at),
         at \in {"check", "issue"} => req[r].at \in {"check", "issue"},
         UNCHANGED issued, edi \subseteq edi'
  PROVE  \A q \in Request : Keeps(q)
  <1>1. req[r] \in Begun
    BY RequestIsTyped
  <1>2. req'[r].at = at /\ req'[r].cmd = req[r].cmd /\ req'[r].inv = req[r].inv
    BY <1>1 DEF Goto, Begun, TypeOK
  <1>3. \A q \in Request : q # r => req'[q] = req[q]
    BY DEF Goto, TypeOK
  <1> QED
    BY <1>2, <1>3 DEF Keeps

LEMMA BeginKeeps ==
  ASSUME TypeOK, NEW r \in Request, NEW cmd, NEW i, NEW p, NEW at, Begin(r, cmd, i, p, at),
         UNCHANGED <<issued, edi>>
  PROVE  \A q \in Request : Keeps(q)
  <1>1. req[r].at = "new"
    BY NewIsNew DEF Begin
  <1>2. \A q \in Request : q # r => req'[q] = req[q]
    BY DEF Begin, TypeOK
  <1> QED
    BY <1>1, <1>2 DEF Keeps

LEMMA StepKeeps ==
  ASSUME TypeOK, [Next]_vars
  PROVE  \A q \in Request : Keeps(q)
<1>1. ASSUME NEW r \in Request, Step(r) PROVE \A q \in Request : Keeps(q)
  <2>1. ASSUME NEW i \in Invoice, NEW p \in Pod,
               CreateDraft(r, i, p) \/ Send(r, i, p) \/ Pay(r, i, p) \/ Reverse(r, i, p)
        PROVE  \A q \in Request : Keeps(q)
    BY <2>1, BeginKeeps DEF CreateDraft, Send, Pay, Reverse
  <2>2. CASE Deliver(r)
    BY <2>2, GotoKeeps DEF Deliver
  <2>3. CASE Issue(r)
    BY <2>3, InvoiceAssumption DEF Issue, Keeps, TypeOK
  <2>4. CASE Refuse(r) \/ SetSent(r) \/ Save(r) \/ Publish(r) \/ Fail(r)
    BY <2>4, GotoKeeps DEF Refuse, SetSent, Save, Publish, Fail, Running
  <2> QED
    BY <1>1, <2>1, <2>2, <2>3, <2>4 DEF Step
<1>2. CASE ReplyStep \/ (\E m \in Reply : Answer(m)) \/ UNCHANGED vars
  <2>1. UNCHANGED <<req, issued, edi>>
    BY <1>2 DEF ReplyStep, SkipReply, HandleReply, SaveReply, SaveReplyError,
                CommitReply, Rebalance, Answer, requestVars, vars
  <2> QED
    BY <2>1 DEF Keeps
<1>3. ASSUME NEW p \in Pod, Crash(p) PROVE \A q \in Request : Keeps(q)
  <2>1. TAKE q \in Request
  <2>2. CASE Running(q) /\ req[q].pod = p
    <3>1. req[q] \in Begun
      BY <2>2, RequestIsTyped DEF Running
    <3>2. req'[q] = [req[q] EXCEPT !.at = "lost"]
      BY <1>3, <2>2 DEF Crash, Restarted
    <3>3. req'[q].at = "lost" /\ req'[q].cmd = req[q].cmd /\ req'[q].inv = req[q].inv
      BY <3>1, <3>2 DEF Begun
    <3> QED
      BY <1>3, <3>3 DEF Crash, Restarted, Keeps
  <2>3. CASE ~(Running(q) /\ req[q].pod = p)
    BY <1>3, <2>3 DEF Crash, Restarted, Keeps
  <2> QED
    BY <2>2, <2>3
<1>4. ASSUME NEW p \in Pod, ReadRows(p) \/ FillItems(p) PROVE \A q \in Request : Keeps(q)
  BY <1>4 DEF ReadRows, FillItems, Keeps
<1> QED
  BY <1>1, <1>2, <1>3, <1>4 DEF Next

(* What was sent stays sent. *)
LEMMA SentStays ==
  ASSUME TypeOK, [Next]_vars, NEW i \in Invoice, Sent(i)
  PROVE  Sent(i)'
  <1>1. PICK r \in Requests("send", i) :
          /\ req[r].at \notin {"check", "issue"}
          /\ i \in Receiver => r \in edi
          /\ issued[r] = Lines[i]
    BY DEF Sent
  <1>2. r \in Request /\ req[r].at # "new" /\ req[r].cmd = "send" /\ req[r].inv = i
    BY NewIsNew DEF Requests
  <1>3. Keeps(r)
    BY <1>2, StepKeeps
  <1>4. req'[r] # New
    BY <1>2, <1>3 DEF Keeps, New
  <1>5. r \in Requests("send", i)'
    BY <1>2, <1>3, <1>4 DEF Keeps, Requests
  <1> QED
    BY <1>1, <1>2, <1>3, <1>5 DEF Keeps, Sent

-----------------------------------------------------------------------------
LEMMA InvInit == Init => Inv
  <1> SUFFICES ASSUME Init PROVE Inv
    OBVIOUS
  <1>1. SendIsOnItsWay /\ SavedIsShipped
    BY DEF Init, SendIsOnItsWay, SavedIsShipped, New
  <1>2. StatusIsShipped
    BY DEF Init, StatusIsShipped, Past
  <1>3. LoadedIsShipped
    BY DEF Init, LoadedIsShipped, Idle
  <1> QED
    BY <1>1, <1>2, <1>3, TypeInit DEF Inv

(* A step of a request: the others stay where they are. *)
LEMMA InvRequest ==
  ASSUME Inv, NEW r \in Request, Step(r), TypeOK', \A i \in Invoice : Sent(i) => Sent(i)'
  PROVE  SendIsOnItsWay' /\ SavedIsShipped' /\ StatusIsShipped'
<1> USE DEF Inv
<1>1. ASSUME NEW at, req[r].at # "new", Goto(r, at)
      PROVE  /\ req'[r].at = at /\ req'[r].cmd = req[r].cmd /\ req'[r].inv = req[r].inv
             /\ \A q \in Request : q # r => req'[q] = req[q]
             /\ req[r].cmd \in Command /\ req[r].inv \in Invoice /\ req[r].pod \in Pod
  <2>1. req[r] \in Begun
    BY <1>1, RequestIsTyped
  <2> QED
    BY <1>1, <2>1 DEF Goto, Begun, TypeOK
<1>2. ASSUME NEW cmd, NEW i, NEW p, NEW at, Begin(r, cmd, i, p, at)
      PROVE  /\ req'[r].at = at /\ req'[r].cmd = cmd /\ req'[r].inv = i
             /\ \A q \in Request : q # r => req'[q] = req[q]
  BY <1>2 DEF Begin, TypeOK
<1>3. \A q \in Request : req[q].at \in {"check", "issue", "save"} => req[q].inv \in Invoice
  BY RequestIsTyped
<1>4. settle # Idle => settle.inv \in Invoice
  BY DEF TypeOK
<1>5. ASSUME NEW i \in Invoice, NEW p \in Pod, CreateDraft(r, i, p)
      PROVE  SendIsOnItsWay' /\ SavedIsShipped' /\ StatusIsShipped'
  <2>1. SendIsOnItsWay'
    BY <1>2, <1>5 DEF CreateDraft, SendIsOnItsWay
  <2>2. SavedIsShipped'
    BY <1>2, <1>3, <1>4, <1>5 DEF CreateDraft, SavedIsShipped, replyVars
  <2>3. StatusIsShipped'
    BY <1>5 DEF CreateDraft, StatusIsShipped, Past, TypeOK
  <2> QED
    BY <2>1, <2>2, <2>3
<1>6. ASSUME NEW i \in Invoice, NEW p \in Pod, Send(r, i, p)
      PROVE  SendIsOnItsWay' /\ SavedIsShipped' /\ StatusIsShipped'
  <2>1. SendIsOnItsWay'
    BY <1>2, <1>6 DEF Send, SendIsOnItsWay
  <2>2. SavedIsShipped'
    BY <1>2, <1>3, <1>4, <1>6 DEF Send, SavedIsShipped, replyVars
  <2>3. StatusIsShipped'
    BY <1>6 DEF Send, StatusIsShipped
  <2> QED
    BY <2>1, <2>2, <2>3
<1>7. ASSUME NEW i \in Invoice, NEW p \in Pod, Pay(r, i, p) \/ Reverse(r, i, p)
      PROVE  SendIsOnItsWay' /\ SavedIsShipped' /\ StatusIsShipped'
  <2>1. Sent(i)'
    BY <1>7 DEF Pay, Reverse, StatusIsShipped, Past
  <2>2. SendIsOnItsWay'
    BY <1>2, <1>7 DEF Pay, Reverse, SendIsOnItsWay
  <2>3. SavedIsShipped'
    BY <1>2, <1>3, <1>4, <1>7, <2>1 DEF Pay, Reverse, SavedIsShipped, replyVars
  <2>4. PICK s \in Status : items' = [items EXCEPT ![p][i] = s] /\ rows' = rows
    BY <1>7 DEF Pay, Reverse, Status
  <2>5. \A q \in Pod, j \in Invoice : j = i \/ items'[q][j] = items[q][j]
    BY <2>4 DEF TypeOK
  <2>6. StatusIsShipped'
    BY <2>1, <2>4, <2>5 DEF StatusIsShipped
  <2> QED
    BY <2>2, <2>3, <2>6
<1>8. CASE Deliver(r)
  <2>1. SendIsOnItsWay'
    BY <1>1, <1>8 DEF Deliver, SendIsOnItsWay
  <2>2. SavedIsShipped'
    BY <1>1, <1>3, <1>4, <1>8 DEF Deliver, SavedIsShipped, replyVars
  <2>3. StatusIsShipped'
    BY <1>8 DEF Deliver, StatusIsShipped
  <2> QED
    BY <2>1, <2>2, <2>3
<1>9. CASE Issue(r)
  BY <1>3, <1>4, <1>9 DEF Issue, SendIsOnItsWay, SavedIsShipped, StatusIsShipped, replyVars
<1>10. CASE Refuse(r) \/ Publish(r) \/ Fail(r)
  <2>1. /\ req[r].at # "new" /\ Goto(r, "done")
        /\ UNCHANGED <<items, rows, edi, issued, settle>>
    BY <1>10 DEF Refuse, Publish, Fail, Running, replyVars
  <2>2. SendIsOnItsWay'
    BY <1>1, <2>1 DEF SendIsOnItsWay
  <2>3. SavedIsShipped'
    BY <1>1, <1>3, <1>4, <2>1 DEF SavedIsShipped
  <2>4. StatusIsShipped'
    BY <2>1 DEF StatusIsShipped
  <2> QED
    BY <2>2, <2>3, <2>4
<1>11. CASE SetSent(r)
  <2> PICK i \in Invoice : i = req[r].inv
    BY <1>11, RequestIsTyped DEF SetSent
  <2>1. /\ req[r].at = "issue" /\ req[r].cmd = "send" /\ issued[r] = Lines[i]
        /\ i \in Receiver => r \in edi
    BY <1>11 DEF SetSent, SendIsOnItsWay
  <2>2. i \in Invoice /\ req[r].pod \in Pod /\ req[r] # New
    BY <2>1, RequestIsTyped, NewIsNew
  <2>3. req'[r].at = "save" /\ req'[r].cmd = "send" /\ req'[r].inv = i /\ req'[r] # New
    BY <1>1, <1>11, <2>1 DEF SetSent, New
  <2>4. Sent(i)'
    BY <1>11, <2>1, <2>2, <2>3 DEF SetSent, Sent, Requests
  <2>5. SendIsOnItsWay'
    BY <1>1, <1>11 DEF SetSent, SendIsOnItsWay
  <2>6. SavedIsShipped'
    BY <1>1, <1>3, <1>4, <1>11, <2>4 DEF SetSent, SavedIsShipped, replyVars
  <2>7. StatusIsShipped'
    BY <1>11, <2>2, <2>4 DEF SetSent, StatusIsShipped, TypeOK
  <2> QED
    BY <2>5, <2>6, <2>7
<1>12. CASE Save(r)
  <2> PICK i \in Invoice : i = req[r].inv
    BY <1>12, RequestIsTyped DEF Save
  <2>1. i \in Invoice /\ req[r].cmd \in Command
    BY <1>12, RequestIsTyped DEF Save
  <2>2. Past(Target(req[r].cmd)) => Sent(i)'
    BY <1>12, <2>1 DEF Save, SavedIsShipped, Past, Target
  <2>3. SendIsOnItsWay'
    BY <1>1, <1>12 DEF Save, SendIsOnItsWay
  <2>4. SavedIsShipped'
    BY <1>1, <1>3, <1>4, <1>12 DEF Save, SavedIsShipped, replyVars
  <2>5. StatusIsShipped'
    BY <1>12, <2>1, <2>2 DEF Save, StatusIsShipped, TypeOK
  <2> QED
    BY <2>3, <2>4, <2>5
<1> QED
  BY <1>5, <1>6, <1>7, <1>8, <1>9, <1>10, <1>11, <1>12 DEF Step

(* A step of the saga consumer or of the ledger: requests stay where they   *)
(* are; and a restart, which empties a map.                                 *)
LEMMA InvReply ==
  ASSUME Inv, ReplyStep \/ (\E m \in Reply : Answer(m)) \/ (\E p \in Pod : Crash(p)),
         TypeOK', \A i \in Invoice : Sent(i) => Sent(i)'
  PROVE  SendIsOnItsWay' /\ SavedIsShipped' /\ StatusIsShipped'
<1> USE DEF Inv
<1>1. \A q \in Request : req[q].at \in {"check", "issue", "save"} => req[q].inv \in Invoice
  BY RequestIsTyped
<1>2. settle # Idle => settle.inv \in Invoice
  BY DEF TypeOK
<1>3. CASE SkipReply \/ SaveReplyError \/ CommitReply \/ Rebalance
             \/ (\E m \in Reply : Answer(m))
  <2>1. UNCHANGED <<items, rows, req, edi>> /\ (settle' = settle \/ settle' = Idle)
    BY <1>3 DEF SkipReply, SaveReplyError, CommitReply, Rebalance, Answer, requestVars
  <2> QED
    BY <1>1, <1>2, <2>1 DEF SendIsOnItsWay, SavedIsShipped, StatusIsShipped
<1>4. CASE HandleReply
  <2> PICK i \in Invoice : i = replies[replyPos].inv
    BY <1>4 DEF HandleReply, TypeOK, Reply
  <2>1. i \in Invoice
    BY <1>4 DEF HandleReply, TypeOK, Reply
  <2>2. Sent(i)'
    BY <1>4, <2>1 DEF HandleReply, StatusIsShipped, Past, TypeOK
  <2>3. SendIsOnItsWay'
    BY <1>4 DEF HandleReply, SendIsOnItsWay
  <2>4. SavedIsShipped'
    BY <1>1, <1>4, <2>2 DEF HandleReply, SavedIsShipped
  <2>5. StatusIsShipped'
    BY <1>4, <2>1, <2>2 DEF HandleReply, StatusIsShipped, TypeOK
  <2> QED
    BY <2>3, <2>4, <2>5
<1>5. CASE SaveReply
  <2>1. SendIsOnItsWay'
    BY <1>5 DEF SaveReply, SendIsOnItsWay
  <2>2. SavedIsShipped'
    BY <1>1, <1>5 DEF SaveReply, SavedIsShipped
  <2>3. StatusIsShipped'
    BY <1>2, <1>5 DEF SaveReply, SavedIsShipped, StatusIsShipped, TypeOK
  <2> QED
    BY <2>1, <2>2, <2>3
<1>6. ASSUME NEW p \in Pod, Crash(p)
      PROVE  SendIsOnItsWay' /\ SavedIsShipped' /\ StatusIsShipped'
  <2>1. ASSUME NEW q \in Request, req'[q].at \in {"check", "issue", "save"}
        PROVE  req'[q] = req[q]
    <3>1. CASE Running(q) /\ req[q].pod = p
      <4>1. req'[q] = [req[q] EXCEPT !.at = "lost"]
        BY <1>6, <3>1 DEF Crash, Restarted
      <4>2. req[q] \in Begun
        BY <3>1, RequestIsTyped DEF Running
      <4> QED
        BY <2>1, <4>1, <4>2 DEF Begun
    <3>2. CASE ~(Running(q) /\ req[q].pod = p)
      BY <1>6, <3>2 DEF Crash, Restarted
    <3> QED
      BY <3>1, <3>2
  <2>2. settle' = settle \/ settle' = Idle
    BY <1>6 DEF Crash
  <2>3. SendIsOnItsWay'
    BY <1>6, <2>1 DEF Crash, Restarted, SendIsOnItsWay
  <2>4. SavedIsShipped'
    BY <1>1, <1>2, <2>1, <2>2 DEF SavedIsShipped
  <2>5. StatusIsShipped'
    BY <1>6 DEF Crash, Restarted, StatusIsShipped, Past, TypeOK
  <2> QED
    BY <2>3, <2>4, <2>5
<1> QED
  BY <1>3, <1>4, <1>5, <1>6 DEF ReplyStep

(* onModuleInit reads the table and fills the map with what it read. *)
LEMMA InvLoading ==
  ASSUME Inv, NEW p \in Pod, ReadRows(p) \/ FillItems(p),
         \A i \in Invoice : Sent(i) => Sent(i)'
  PROVE  SendIsOnItsWay' /\ SavedIsShipped' /\ StatusIsShipped'
<1> USE DEF Inv
<1>1. UNCHANGED <<rows, req, edi, settle>>
  BY DEF ReadRows, FillItems
<1>2. \A q \in Request : req[q].at \in {"check", "issue", "save"} => req[q].inv \in Invoice
  BY RequestIsTyped
<1>3. settle # Idle => settle.inv \in Invoice
  BY DEF TypeOK
<1>4. SendIsOnItsWay' /\ SavedIsShipped'
  BY <1>1, <1>2, <1>3 DEF SendIsOnItsWay, SavedIsShipped
<1>5. \A q \in Pod, i \in Invoice :
        \/ items'[q][i] = items[q][i]
        \/ loading[q].at = "found" /\ items'[q][i] = loading[q].rows[i]
  BY DEF ReadRows, FillItems, TypeOK
<1>6. StatusIsShipped'
  BY <1>1, <1>5 DEF StatusIsShipped, LoadedIsShipped
<1> QED
  BY <1>4, <1>6

(* A step changes what onModuleInit has read of one process, if any, and    *)
(* then to the table.                                                       *)
LEMMA LoadingStep ==
  ASSUME TypeOK, [Next]_vars, NEW p \in Pod
  PROVE  \/ loading'[p] = loading[p]
         \/ Crash(p) /\ loading'[p] = Finding
         \/ ReadRows(p) /\ loading[p] = Finding /\ loading'[p] = Found(rows)
         \/ FillItems(p) /\ loading[p].at = "found" /\ loading'[p] = Idle
<1>1. CASE (\E r \in Request : Step(r)) \/ ReplyStep \/ (\E m \in Reply : Answer(m))
           \/ UNCHANGED vars
  BY <1>1 DEF Step, CreateDraft, Send, Pay, Reverse, Deliver, Issue, Refuse, SetSent, Save,
     Publish, Fail, ReplyStep, SkipReply, HandleReply, SaveReply, SaveReplyError, CommitReply,
     Rebalance, Answer, replyVars, requestVars, vars
<1>2. ASSUME NEW q \in Pod, Crash(q)
      PROVE  loading'[p] = loading[p] \/ (Crash(p) /\ loading'[p] = Finding)
  BY <1>2 DEF Crash, Restarted, TypeOK
<1>3. ASSUME NEW q \in Pod, ReadRows(q)
      PROVE  \/ loading'[p] = loading[p]
             \/ ReadRows(p) /\ loading[p] = Finding /\ loading'[p] = Found(rows)
  BY <1>3 DEF ReadRows, TypeOK
<1>4. ASSUME NEW q \in Pod, FillItems(q)
      PROVE  \/ loading'[p] = loading[p]
             \/ FillItems(p) /\ loading[p].at = "found" /\ loading'[p] = Idle
  BY <1>4 DEF FillItems, TypeOK
<1> QED
  BY <1>1, <1>2, <1>3, <1>4 DEF Next

LEMMA LoadedStaysShipped ==
  ASSUME Inv, [Next]_vars, \A i \in Invoice : Sent(i) => Sent(i)'
  PROVE  LoadedIsShipped'
<1> SUFFICES ASSUME NEW p \in Pod, NEW i \in Invoice, loading'[p].at = "found",
                    Past(loading'[p].rows[i])
             PROVE  Sent(i)
  BY DEF LoadedIsShipped, Past
<1>1. CASE loading'[p] = loading[p]
  BY <1>1 DEF Inv, LoadedIsShipped
<1>2. CASE loading'[p] = Found(rows)
  BY <1>2 DEF Found, Inv, StatusIsShipped
<1> QED
  BY <1>1, <1>2, LoadingStep DEF Inv, Finding, Idle

LEMMA InvStep == Inv /\ [Next]_vars => Inv'
  <1> SUFFICES ASSUME Inv, [Next]_vars PROVE Inv'
    OBVIOUS
  <1>1. TypeOK'
    BY TypeStep DEF Inv
  <1>2. \A i \in Invoice : Sent(i) => Sent(i)'
    BY SentStays DEF Inv
  <1>3. CASE UNCHANGED vars
    BY <1>3 DEF vars, Inv, TypeOK, SendIsOnItsWay, SavedIsShipped, StatusIsShipped,
                LoadedIsShipped, Sent, Requests
  <1>4. CASE Next
    <2>1. SendIsOnItsWay' /\ SavedIsShipped' /\ StatusIsShipped'
      BY <1>1, <1>2, <1>4, InvRequest, InvReply, InvLoading DEF Next
    <2> QED
      BY <1>1, <1>2, <2>1, LoadedStaysShipped DEF Inv
  <1> QED
    BY <1>3, <1>4

(* Whatever is refused, fails, restarts or runs twice, in any number of     *)
(* processes, no invoice is past DRAFT, in a map or in the table, whose     *)
(* stock was not issued or that its receiver does not have.                 *)
THEOREM SentIsShipped == Spec => []SentWasShipped
  <1>1. Inv => SentWasShipped
    BY DEF Inv, StatusIsShipped, SentWasShipped, Past, Sent, Shipped
  <1> QED
    BY <1>1, InvInit, InvStep, PTL DEF Spec

-----------------------------------------------------------------------------
(* The path of an invoice that is sent once.                                *)
Known(i) == Requests("create", i) # {}

\* Nothing is asked about, saved or known of an invoice before its draft.
DraftIsFirst ==
    /\ \A i \in Invoice : rows[i] # "NONE" => Known(i)
    /\ \A p \in Pod, i \in Invoice : items[p][i] # "NONE" => Known(i)
    /\ \A r \in Request : req[r].at # "new" => Known(req[r].inv)
    /\ settle # Idle => Known(settle.inv)

\* A send that is on its way found the invoice in the map.
SendHasInvoice ==
    \A r \in Request :
        req[r].at \in {"check", "issue"} => items[req[r].pod][req[r].inv] # "NONE"

(* A process that fills its map has an empty one until then, and no request *)
(* or save of a reply; what it read of the table is known.                  *)
LoadingIsFirst ==
    /\ \A p \in Pod : loading[p] # Idle => \A i \in Invoice : items[p][i] = "NONE"
    /\ \A p \in Pod, i \in Invoice :
         loading[p].at = "found" /\ loading[p].rows[i] # "NONE" => Known(i)
    /\ \A r \in Request : Running(r) => loading[req[r].pod] = Idle
    /\ settle # Idle => loading[reader] = Idle
    /\ crashes = 0 => \A p \in Pod : loading[p] = Idle

FewRequests == IsFiniteSet({r \in Request : req[r] # New})

Unanswered(i) == \A k \in 1 .. replyPos - 1 : replies[k].inv # i

\* A reversal keeps its invoice, until it is answered.
ReversalHolds ==
    crashes = 0 =>
        \A i \in Invoice : SentOnce(i) /\ Unanswered(i) =>
            \A r \in Requests("reverse", i) : items[req[r].pod][i] = "REVERSING"

Path == DraftIsFirst /\ LoadingIsFirst /\ SendHasInvoice /\ FewRequests /\ ReversalHolds

LEMMA OneSender ==
  ASSUME FewRequests, NEW i, SentOnce(i), NEW r \in Requests("send", i),
         NEW q \in Requests("send", i)
  PROVE  r = q
<1>1. IsFiniteSet(Requests("send", i))
  BY FS_Subset DEF FewRequests, Requests
<1>2. Cardinality(Requests("send", i)) \in Nat
  BY <1>1, FS_CardinalityType
<1>3. Cardinality(Requests("send", i)) # 0
  BY <1>1, FS_EmptySet
<1>4. Cardinality(Requests("send", i)) = 1
  BY <1>2, <1>3 DEF SentOnce
<1> QED
  BY <1>1, <1>4, FS_Singleton

\* Requests only come to be.
LEMMA RequestsStay ==
  ASSUME TypeOK, [Next]_vars, NEW cmd, NEW i
  PROVE  Requests(cmd, i) \subseteq Requests(cmd, i)'
<1> SUFFICES ASSUME NEW r \in Requests(cmd, i) PROVE r \in Requests(cmd, i)'
  OBVIOUS
<1>1. r \in Request /\ req[r].at # "new" /\ req[r].cmd = cmd /\ req[r].inv = i
  BY NewIsNew DEF Requests
<1>2. Keeps(r)
  BY <1>1, StepKeeps
<1>3. req'[r] # New
  BY <1>1, <1>2 DEF Keeps, New
<1> QED
  BY <1>1, <1>2, <1>3 DEF Keeps, Requests

LEMMA KnownStays ==
  ASSUME TypeOK, [Next]_vars
  PROVE  \A i : Known(i) => Known(i)'
<1> SUFFICES ASSUME NEW i, Known(i) PROVE Known(i)'
  OBVIOUS
<1>1. Requests("create", i) \subseteq Requests("create", i)'
  BY RequestsStay
<1> QED
  BY <1>1 DEF Known

LEMMA SentOnceBefore ==
  ASSUME TypeOK, [Next]_vars, FewRequests', NEW i, SentOnce(i)'
  PROVE  SentOnce(i)
<1>1. Requests("send", i) \subseteq Requests("send", i)'
  BY RequestsStay
<1>2. IsFiniteSet(Requests("send", i)')
  <2>1. Requests("send", i)' \subseteq {r \in Request : req'[r] # New}
    BY DEF Requests
  <2> QED BY <2>1, FS_Subset DEF FewRequests
<1>3. /\ Cardinality(Requests("send", i)) <= Cardinality(Requests("send", i)')
      /\ Cardinality(Requests("send", i)) \in Nat
      /\ Cardinality(Requests("send", i)') \in Nat
  BY <1>1, <1>2, FS_Subset, FS_CardinalityType
<1>4. Cardinality(Requests("send", i)') <= 1
  BY DEF SentOnce
<1> QED
  BY <1>3, <1>4 DEF SentOnce

\* An invoice that is sent once and is past DRAFT is not being sent.
LEMMA SendIsDraft ==
  ASSUME Inv, Path, NEW r \in Request, req[r].at \in {"check", "issue"}, SentOnce(req[r].inv)
  PROVE  items[req[r].pod][req[r].inv] = "DRAFT"
<1>1. /\ r \in Requests("send", req[r].inv) /\ req[r].inv \in Invoice /\ req[r].pod \in Pod
  BY RequestIsTyped DEF Inv, SendIsOnItsWay, Requests, New
<1>2. ~Sent(req[r].inv)
  BY <1>1, OneSender DEF Sent, Path
<1>3. ~Past(items[req[r].pod][req[r].inv])
  BY <1>1, <1>2 DEF Inv, StatusIsShipped
<1> QED
  BY <1>1, <1>3 DEF Past, Path, SendHasInvoice

(* What a step changes in the maps.                                         *)
LEMMA PathStep ==
  ASSUME Inv, Path, [Next]_vars
  PROVE  StayOnPath
<1> SUFFICES ASSUME NEW p \in Pod, NEW i \in Invoice, loading'[p] = loading[p], SentOnce(i),
                    items'[p][i] # items[p][i]
             PROVE  StaysOnPath(p, i)
  BY DEF StayOnPath, StaysOnPath
<1> USE DEF StaysOnPath
<1>1. ASSUME NEW r \in Request, NEW j \in Invoice, NEW q \in Pod, CreateDraft(r, j, q)
      PROVE  StaysOnPath(p, i)
  <2>1. p = q /\ i = j /\ items'[p][i] = "DRAFT"
    BY <1>1 DEF CreateDraft, Inv, TypeOK
  <2>2. ~Known(i)
    BY <1>1, <2>1 DEF CreateDraft, Known
  <2> QED BY <2>1, <2>2 DEF Path, DraftIsFirst
<1>2. ASSUME NEW r \in Request, NEW j \in Invoice, NEW q \in Pod, Pay(r, j, q) \/ Reverse(r, j, q)
      PROVE  StaysOnPath(p, i)
  <2>1. p = q /\ i = j
    BY <1>2 DEF Pay, Reverse, Inv, TypeOK
  <2>2. CASE Pay(r, j, q)
    BY <2>1, <2>2 DEF Pay, Inv, TypeOK
  <2>3. CASE Reverse(r, j, q)
    BY <2>1, <2>3 DEF Reverse, Inv, TypeOK
  <2> QED BY <1>2, <2>2, <2>3
<1>3. ASSUME NEW r \in Request, SetSent(r) PROVE StaysOnPath(p, i)
  <2>1. p = req[r].pod /\ i = req[r].inv /\ items'[p][i] = "SENT"
    BY <1>3 DEF SetSent, Inv, TypeOK
  <2>2. items[p][i] = "DRAFT"
    BY <1>3, <2>1, SendIsDraft DEF SetSent
  <2> QED BY <2>1, <2>2
<1>4. CASE HandleReply
  BY <1>4 DEF HandleReply, Settled, Inv, TypeOK
<1>5. ASSUME NEW q \in Pod, Crash(q) \/ ReadRows(q) \/ FillItems(q) PROVE FALSE
  <2>1. loading[p] # Idle => items[p][i] = "NONE"
    BY DEF Path, LoadingIsFirst
  <2>2. CASE Crash(q)
    <3>1. p = q /\ loading[p] = Finding /\ items'[p][i] = "NONE"
      BY <2>2 DEF Crash, Restarted, Inv, TypeOK
    <3> QED
      BY <2>1, <3>1 DEF Finding, Idle
  <2>3. CASE ReadRows(q)
    BY <2>3 DEF ReadRows
  <2>4. CASE FillItems(q)
    <3>1. p = q /\ loading[p].at = "found" /\ loading'[p] = Idle
      BY <2>4 DEF FillItems, Inv, TypeOK
    <3> QED
      BY <3>1 DEF Idle
  <2> QED
    BY <1>5, <2>2, <2>3, <2>4
<1>6. ASSUME NEW r \in Request, NEW j \in Invoice, NEW q \in Pod, Send(r, j, q) PROVE FALSE
  BY <1>6 DEF Send
<1>7. ASSUME NEW r \in Request,
             Deliver(r) \/ Issue(r) \/ Refuse(r) \/ Save(r) \/ Publish(r) \/ Fail(r)
      PROVE  FALSE
  BY <1>7 DEF Deliver, Issue, Refuse, Save, Publish, Fail
<1>8. CASE SkipReply \/ SaveReply \/ SaveReplyError \/ CommitReply \/ Rebalance
             \/ (\E m \in Reply : Answer(m)) \/ UNCHANGED vars
  BY <1>8 DEF SkipReply, SaveReply, SaveReplyError, CommitReply, Rebalance, Answer,
              requestVars, vars
<1> QED
  BY <1>1, <1>2, <1>3, <1>4, <1>5, <1>6, <1>7, <1>8 DEF Next, Step, ReplyStep

LEMMA PathInit == Init => Path
<1> SUFFICES ASSUME Init PROVE Path
  OBVIOUS
<1>1. DraftIsFirst /\ SendHasInvoice
  BY DEF Init, DraftIsFirst, SendHasInvoice, New, Idle
<1>2. FewRequests
  <2>1. {r \in Request : req[r] # New} = {}
    BY DEF Init
  <2> QED BY <2>1, FS_EmptySet DEF FewRequests
<1>3. ReversalHolds
  BY DEF Init, ReversalHolds, Requests
<1>4. LoadingIsFirst
  BY DEF Init, LoadingIsFirst, Running, New, Idle
<1> QED BY <1>1, <1>2, <1>3, <1>4 DEF Path

LEMMA FewStay ==
  ASSUME Inv, FewRequests, [Next]_vars
  PROVE  FewRequests'
<1>1. PICK T : T = {r \in Request : req[r] # New} /\ IsFiniteSet(T)
  BY DEF FewRequests
<1>2. \E r : {x \in Request : req'[x] # New} \subseteq T \cup {r}
  <2>1. ASSUME NEW r \in Request, Step(r) PROVE \E y : {x \in Request : req'[x] # New} \subseteq T \cup {y}
    <3>1. \A x \in Request \ {r} : req'[x] = req[x]
      BY <2>1 DEF Step, CreateDraft, Send, Pay, Reverse, Deliver, Issue, Refuse, SetSent, Save,
                  Publish, Fail, Begin, Goto, Inv, TypeOK
    <3>2. {x \in Request : req'[x] # New} \subseteq T \cup {r}
      BY <1>1, <3>1
    <3> QED BY <3>2
  <2>2. CASE ReplyStep \/ (\E m \in Reply : Answer(m)) \/ UNCHANGED vars
    <3>1. UNCHANGED req
      BY <2>2 DEF ReplyStep, SkipReply, HandleReply, SaveReply, SaveReplyError,
                  CommitReply, Rebalance, Answer, requestVars, vars
    <3> QED BY <1>1, <3>1
  <2>3. ASSUME NEW p \in Pod, Crash(p) PROVE {x \in Request : req'[x] # New} \subseteq T
    <3>1. \A x \in Request : req[x] = New => req'[x] = New
      BY <2>3 DEF Crash, Restarted, Running, New
    <3> QED BY <1>1, <3>1
  <2>4. ASSUME NEW p \in Pod, ReadRows(p) \/ FillItems(p)
        PROVE  {x \in Request : req'[x] # New} \subseteq T
    BY <1>1, <2>4 DEF ReadRows, FillItems
  <2> QED BY <2>1, <2>2, <2>3, <2>4 DEF Next
<1>3. PICK y : {x \in Request : req'[x] # New} \subseteq T \cup {y}
  BY <1>2
<1>4. IsFiniteSet(T \cup {y})
  BY <1>1, FS_AddElement
<1> QED
  BY <1>3, <1>4, FS_Subset DEF FewRequests

LEMMA Below ==
  ASSUME NEW m \in Nat, NEW n \in Nat, n >= m, NEW k \in 1 .. m - 1
  PROVE  k \in 1 .. n - 1
  OBVIOUS

\* What a reversal holds in its map stays, unless its invoice is answered.
LEMMA ReversalStays ==
  ASSUME Inv, Path, [Next]_vars, FewRequests', crashes' = crashes, crashes = 0,
         NEW i \in Invoice, SentOnce(i)', Unanswered(i)',
         NEW r \in Request, r \in Requests("reverse", i)'
  PROVE  items'[req'[r].pod][i] = "REVERSING"
<1>1. SentOnce(i)
  BY SentOnceBefore DEF Inv
<1>2. Unanswered(i) /\ (HandleReply => replies[replyPos].inv # i)
  <2>1. /\ replyPos' \in Nat /\ replyPos \in Nat /\ replyPos' >= replyPos /\ replyPos >= 1
        /\ \A k \in 1 .. replyPos - 1 : replies'[k] = replies[k]
    <3>1. CASE \E q \in Request : Step(q)
      BY <3>1 DEF Step, CreateDraft, Send, Pay, Reverse, Deliver, Issue, Refuse, SetSent, Save,
                  Publish, Fail, replyVars, Inv, TypeOK
    <3>2. CASE SkipReply \/ HandleReply \/ SaveReply \/ SaveReplyError \/ CommitReply
               \/ UNCHANGED vars
      BY <3>2 DEF SkipReply, HandleReply, SaveReply, SaveReplyError, CommitReply, vars, Inv, TypeOK
    <3>3. CASE Rebalance \/ (\E p \in Pod : Crash(p))
      BY <3>3 DEF Rebalance, Crash, Restarted, Crashing
    <3>4. CASE \E m \in Reply : Answer(m)
      <4>1. PICK m \in Reply : Answer(m)
        BY <3>4
      <4>2. Len(replies) \in Nat /\ replyPos \in 1 .. Len(replies) + 1
        BY DEF Inv, TypeOK
      <4>3. replyPos' = replyPos /\ \A k \in 1 .. Len(replies) : replies'[k] = replies[k]
        BY <4>1 DEF Answer, Inv, TypeOK
      <4> QED BY <4>2, <4>3
    <3>5. CASE \E p \in Pod : ReadRows(p) \/ FillItems(p)
      BY <3>5 DEF ReadRows, FillItems, Inv, TypeOK
    <3>6. \/ \E q \in Request : Step(q)
          \/ SkipReply \/ HandleReply \/ SaveReply \/ SaveReplyError \/ CommitReply
             \/ UNCHANGED vars
          \/ Rebalance \/ (\E p \in Pod : Crash(p))
          \/ \E p \in Pod : ReadRows(p) \/ FillItems(p)
          \/ \E m \in Reply : Answer(m)
      BY DEF Next, ReplyStep
    <3> QED BY <3>1, <3>2, <3>3, <3>4, <3>5, <3>6
  <2>2. Unanswered(i)
    <3> SUFFICES ASSUME NEW k \in 1 .. replyPos - 1 PROVE replies[k].inv # i
      BY DEF Unanswered
    <3>1. k \in 1 .. replyPos' - 1
      BY <2>1, Below
    <3>2. replies'[k].inv # i
      BY <3>1 DEF Unanswered
    <3> QED BY <2>1, <3>2
  <2>3. ASSUME HandleReply PROVE replies[replyPos].inv # i
    <3>1. replyPos' = replyPos + 1 /\ replies' = replies
      BY <2>3 DEF HandleReply
    <3> QED BY <2>1, <3>1 DEF Unanswered
  <2> QED BY <2>2, <2>3
<1>3. ASSUME r \in Requests("reverse", i), req'[r].pod = req[r].pod
      PROVE  items'[req'[r].pod][i] = "REVERSING"
  <2>1. req[r].pod \in Pod /\ items[req[r].pod][i] = "REVERSING"
    <3>1. req[r].at # "new"
      BY <1>3, NewIsNew DEF Requests, Inv
    <3> QED BY <1>1, <1>2, <1>3, <3>1, RequestIsTyped DEF Path, ReversalHolds, Inv
  <2>4. ~\E p \in Pod : ReadRows(p) \/ FillItems(p)
    BY DEF ReadRows, FillItems, Path, LoadingIsFirst, Finding, Idle
  <2>5. ~\E p \in Pod : Crash(p)
    BY DEF Crash, Restarted, Crashing
  <2>6. loading' = loading
    BY <2>4, <2>5 DEF Next, Step, CreateDraft, Send, Pay, Reverse, Deliver, Issue, Refuse, SetSent,
       Save, Publish, Fail, ReplyStep, SkipReply, HandleReply, SaveReply, SaveReplyError,
       CommitReply, Rebalance, Answer, replyVars, requestVars, vars
  <2>2. StaysOnPath(req[r].pod, i)
    BY <1>1, <2>1, <2>6, PathStep DEF StayOnPath
  <2>3. items'[req[r].pod][i] = items[req[r].pod][i]
    <3> SUFFICES ASSUME items'[req[r].pod][i] # items[req[r].pod][i] PROVE FALSE
      OBVIOUS
    <3>1. HandleReply
      <4>1. ASSUME NEW q \in Request, Step(q) PROVE FALSE
        <5>1. items'[req[r].pod][i] \notin {"REVERTED", "SENT"} \/ SetSent(q)
          <6>1. ASSUME NEW j \in Invoice, NEW p \in Pod,
                       CreateDraft(q, j, p) \/ Send(q, j, p) \/ Pay(q, j, p) \/ Reverse(q, j, p)
                PROVE  items'[req[r].pod][i] \notin {"REVERTED", "SENT"}
            <7>1. Send(q, j, p) => items' = items
              BY DEF Send
            <7>2. ~Send(q, j, p) => \E t \in {"DRAFT", "PAID", "REVERSING"} :
                     items' = [items EXCEPT ![p][j] = t]
              BY <6>1 DEF CreateDraft, Pay, Reverse
            <7>3. CASE Send(q, j, p)
              BY <2>1, <7>1, <7>3
            <7>4. CASE ~Send(q, j, p)
              <8>1. PICK t \in {"DRAFT", "PAID", "REVERSING"} : items' = [items EXCEPT ![p][j] = t]
                BY <7>2, <7>4
              <8>2. items'[req[r].pod][i] = t \/ items'[req[r].pod][i] = items[req[r].pod][i]
                BY <2>1, <8>1 DEF Inv, TypeOK
              <8> QED BY <2>1, <8>2
            <7> QED BY <7>3, <7>4
          <6>2. CASE Deliver(q) \/ Issue(q) \/ Refuse(q) \/ Save(q) \/ Publish(q) \/ Fail(q)
            BY <2>1, <6>2 DEF Deliver, Issue, Refuse, Save, Publish, Fail
          <6> QED BY <4>1, <6>1, <6>2 DEF Step
        <5>2. CASE SetSent(q)
          <6>1. req[q].pod = req[r].pod /\ req[q].inv = i
            BY <5>2, <2>1 DEF SetSent, Inv, TypeOK
          <6>2. items[req[r].pod][i] = "DRAFT"
            BY <1>1, <5>2, <6>1, SendIsDraft DEF SetSent
          <6> QED BY <2>1, <6>2
        <5> QED BY <2>1, <2>2, <5>1, <5>2 DEF StaysOnPath
      <4>2. CASE SkipReply \/ SaveReply \/ SaveReplyError \/ CommitReply \/ UNCHANGED vars
                 \/ (\E m \in Reply : Answer(m))
        BY <4>2 DEF SkipReply, SaveReply, SaveReplyError, CommitReply, Answer, requestVars, vars
      <4>3. CASE Rebalance \/ (\E p \in Pod : Crash(p))
        BY <4>3 DEF Rebalance, Crash, Restarted, Crashing
      <4> QED BY <2>4, <4>1, <4>2, <4>3 DEF Next, ReplyStep
    <3> QED BY <1>2, <2>1, <3>1 DEF HandleReply, Inv, TypeOK
  <2> QED BY <1>3, <2>1, <2>3
<1>4. \/ r \in Requests("reverse", i) /\ req'[r].pod = req[r].pod
      \/ \E p \in Pod : Reverse(r, i, p) /\ req'[r].pod = p
  <2>1. req'[r] # New /\ req'[r].cmd = "reverse" /\ req'[r].inv = i
    BY DEF Requests
  <2>2. ASSUME NEW q \in Request, Step(q), q # r PROVE req'[r] = req[r]
    BY <2>2 DEF Step, CreateDraft, Send, Pay, Reverse, Deliver, Issue, Refuse, SetSent, Save,
                Publish, Fail, Begin, Goto, Inv, TypeOK
  <2>3. CASE req'[r] = req[r]
    BY <2>1, <2>3 DEF Requests
  <2>4. CASE Step(r)
    <3>1. ASSUME NEW j \in Invoice, NEW p \in Pod,
                 CreateDraft(r, j, p) \/ Send(r, j, p) \/ Pay(r, j, p) \/ Reverse(r, j, p)
          PROVE  Reverse(r, i, p) /\ req'[r].pod = p
      BY <2>1, <3>1 DEF CreateDraft, Send, Pay, Reverse, Begin, Inv, TypeOK
    <3>2. CASE Issue(r)
      BY <2>3, <3>2 DEF Issue
    <3>3. CASE Deliver(r) \/ Refuse(r) \/ SetSent(r) \/ Save(r) \/ Publish(r) \/ Fail(r)
      <4>1. PICK at : Goto(r, at) /\ req[r].at # "new"
        BY <3>3 DEF Deliver, Refuse, SetSent, Save, Publish, Fail, Running
      <4>2. req[r] \in Begun /\ req[r] # New
        BY <4>1, RequestIsTyped DEF Inv, New
      <4>3. req'[r].cmd = req[r].cmd /\ req'[r].inv = req[r].inv /\ req'[r].pod = req[r].pod
        BY <4>1, <4>2 DEF Goto, Begun, Inv, TypeOK
      <4> QED BY <2>1, <4>2, <4>3 DEF Requests
    <3> QED BY <2>4, <3>1, <3>2, <3>3 DEF Step
  <2>5. CASE ReplyStep \/ (\E m \in Reply : Answer(m)) \/ UNCHANGED vars
    <3>1. UNCHANGED req
      BY <2>5 DEF ReplyStep, SkipReply, HandleReply, SaveReply, SaveReplyError,
                  CommitReply, Rebalance, Answer, requestVars, vars
    <3> QED BY <2>3, <3>1
  <2>6. ASSUME NEW p \in Pod, Crash(p) PROVE FALSE
    BY <2>6 DEF Crash, Restarted, Crashing
  <2>7. ASSUME NEW p \in Pod, ReadRows(p) \/ FillItems(p) PROVE req'[r] = req[r]
    BY <2>7 DEF ReadRows, FillItems
  <2> QED BY <2>2, <2>3, <2>4, <2>5, <2>6, <2>7 DEF Next
<1>5. ASSUME NEW p \in Pod, Reverse(r, i, p), req'[r].pod = p
      PROVE  items'[req'[r].pod][i] = "REVERSING"
  BY <1>5 DEF Reverse, Inv, TypeOK
<1> QED
  BY <1>3, <1>4, <1>5

LEMMA ReversalHoldsOn ==
  ASSUME Inv, Path, [Next]_vars, Inv', FewRequests'
  PROVE  ReversalHolds'
<1> SUFFICES ASSUME crashes' = 0, NEW i \in Invoice, SentOnce(i)', Unanswered(i)',
                    NEW r \in Requests("reverse", i)'
             PROVE  items'[req'[r].pod][i] = "REVERSING"
  BY DEF ReversalHolds
<1>1. crashes' = crashes \/ crashes' = crashes + 1
  BY DEF Next, Step, ReplyStep, CreateDraft, Send, Pay, Reverse, Deliver, Issue, Refuse, SetSent,
         Save, Publish, Fail, SkipReply, HandleReply, SaveReply, SaveReplyError, CommitReply,
         Rebalance, Answer, Crash, Restarted, Crashing, ReadRows, FillItems, vars
<1>2. crashes \in Nat
  BY InvoiceAssumption DEF Inv, TypeOK
<1>3. crashes' = crashes /\ crashes = 0
  BY <1>1, <1>2
<1>4. r \in Request
  BY DEF Requests
<1> QED
  BY <1>3, <1>4, ReversalStays

LEMMA DraftStaysFirst ==
  ASSUME Inv, Path, [Next]_vars, TypeOK'
  PROVE  DraftIsFirst' /\ SendHasInvoice'
<1>1. \A i : Known(i) => Known(i)'
  BY KnownStays DEF Inv
<1> USE DEF Path
<1>2. ASSUME NEW r \in Request, NEW i \in Invoice, NEW p \in Pod,
             CreateDraft(r, i, p) \/ Send(r, i, p) \/ Pay(r, i, p) \/ Reverse(r, i, p)
      PROVE  DraftIsFirst' /\ SendHasInvoice'
  <2>1. PICK cmd \in Command, at \in {"check", "save"} :
          /\ req' = [req EXCEPT ![r] = [at |-> at, cmd |-> cmd, inv |-> i, pod |-> p]]
          /\ at = "check" => items[p][i] # "NONE" /\ items' = items
          /\ cmd # "create" => items[p][i] # "NONE"
    BY <1>2 DEF CreateDraft, Send, Pay, Reverse, Begin, Command
  <2>2. /\ req'[r] = [at |-> at, cmd |-> cmd, inv |-> i, pod |-> p]
        /\ \A q \in Request \ {r} : req'[q] = req[q]
    BY <2>1 DEF Inv, TypeOK
  <2>3. Known(i)'
    <3>1. CASE cmd = "create"
      BY <2>2, <3>1 DEF Known, Requests, New
    <3>2. CASE cmd # "create"
      BY <1>1, <2>1, <3>2 DEF DraftIsFirst
    <3> QED BY <3>1, <3>2
  <2>4. rows' = rows /\ settle' = settle /\ \A q \in Pod, j \in Invoice :
          items'[q][j] = items[q][j] \/ (j = i /\ items'[q][j] # "NONE")
    BY <1>2 DEF CreateDraft, Send, Pay, Reverse, replyVars, Inv, TypeOK
  <2>5. DraftIsFirst'
    BY <1>1, <2>2, <2>3, <2>4 DEF DraftIsFirst
  <2>6. \A q \in Request \ {r} : req[q].at \in {"check", "issue"} =>
           req[q].pod \in Pod /\ req[q].inv \in Invoice
    BY RequestIsTyped DEF Inv
  <2>7. SendHasInvoice'
    BY <2>1, <2>2, <2>4, <2>6 DEF SendHasInvoice
  <2> QED BY <2>5, <2>7
<1>3. ASSUME NEW r \in Request,
             Deliver(r) \/ Issue(r) \/ Refuse(r) \/ SetSent(r) \/ Save(r) \/ Publish(r) \/ Fail(r)
      PROVE  DraftIsFirst' /\ SendHasInvoice'
  <2>1. req[r].at # "new" /\ settle' = settle
    BY <1>3 DEF Deliver, Issue, Refuse, SetSent, Save, Publish, Fail, Running, replyVars
  <2>2. req[r] \in Begun /\ req[r].inv \in Invoice /\ Known(req[r].inv)
    BY <2>1, RequestIsTyped DEF Inv, DraftIsFirst
  <2>3. \A q \in Request :
          /\ \/ req'[q].inv = req[q].inv /\ req'[q].pod = req[q].pod
             \/ req'[q] = req[q]
          /\ req'[q].at \in {"check", "issue"} => req[q].at \in {"check", "issue"}
          /\ req[q].at = "new" => req'[q].at = "new"
    <3>1. CASE Issue(r)
      BY <3>1 DEF Issue
    <3>2. CASE Deliver(r) \/ Refuse(r) \/ SetSent(r) \/ Save(r) \/ Publish(r) \/ Fail(r)
      <4>1. PICK at : Goto(r, at) /\ (at \in {"check", "issue"} => req[r].at = "check")
        BY <3>2 DEF Deliver, Refuse, SetSent, Save, Publish, Fail
      <4>2. req'[r].at = at /\ req'[r].inv = req[r].inv /\ req'[r].pod = req[r].pod
        BY <2>2, <4>1 DEF Goto, Begun, Inv, TypeOK
      <4>3. \A q \in Request \ {r} : req'[q] = req[q]
        BY <4>1 DEF Goto, Inv, TypeOK
      <4> QED BY <2>1, <4>1, <4>2, <4>3
    <3> QED BY <1>3, <3>1, <3>2
  <2>4. /\ \A q \in Pod, j \in Invoice :
             items'[q][j] = items[q][j] \/ (j = req[r].inv /\ items'[q][j] # "NONE")
        /\ \A j \in Invoice : rows'[j] = rows[j] \/ j = req[r].inv
    <3>1. CASE SetSent(r)
      BY <3>1 DEF SetSent, Inv, TypeOK
    <3>2. CASE Save(r)
      BY <3>2 DEF Save, Inv, TypeOK
    <3>3. CASE Deliver(r) \/ Issue(r) \/ Refuse(r) \/ Publish(r) \/ Fail(r)
      BY <3>3 DEF Deliver, Issue, Refuse, Publish, Fail
    <3> QED BY <1>3, <3>1, <3>2, <3>3
  <2>5. DraftIsFirst'
    BY <1>1, <2>1, <2>2, <2>3, <2>4 DEF DraftIsFirst
  <2>6. \A q \in Request : req[q].at \in {"check", "issue"} =>
           req[q].pod \in Pod /\ req[q].inv \in Invoice
    BY RequestIsTyped DEF Inv
  <2>7. SendHasInvoice'
    BY <2>3, <2>4, <2>6 DEF SendHasInvoice
  <2> QED BY <2>5, <2>7
<1>4. CASE ReplyStep \/ (\E m \in Reply : Answer(m)) \/ UNCHANGED vars
  <2>1. UNCHANGED req
    BY <1>4 DEF ReplyStep, SkipReply, HandleReply, SaveReply, SaveReplyError,
                CommitReply, Rebalance, Answer, requestVars, vars
  <2>2. \A q \in Request : req[q].at \in {"check", "issue"} =>
           req[q].pod \in Pod /\ req[q].inv \in Invoice
    BY RequestIsTyped DEF Inv
  <2>3. CASE HandleReply
    <3>1. PICK j \in Invoice : j = replies[replyPos].inv
      BY <2>3 DEF HandleReply, Inv, TypeOK, Reply
    <3>2. /\ items[reader][j] = "REVERSING" /\ reader \in Pod /\ rows' = rows /\ settle'.inv = j
          /\ \A q \in Pod, k \in Invoice :
               items'[q][k] = items[q][k] \/ (k = j /\ items'[q][k] # "NONE")
      BY <2>3, <3>1 DEF HandleReply, Settled, Inv, TypeOK
    <3>3. Known(j)
      BY <3>2 DEF DraftIsFirst
    <3>4. DraftIsFirst'
      BY <1>1, <2>1, <3>2, <3>3 DEF DraftIsFirst
    <3> QED BY <2>1, <2>2, <3>2, <3>4 DEF SendHasInvoice
  <2>4. CASE SaveReply
    <3>1. settle # Idle /\ settle' = Idle /\ items' = items
          /\ \A j \in Invoice : rows'[j] = rows[j] \/ j = settle.inv
      BY <2>4 DEF SaveReply, Inv, TypeOK
    <3> QED BY <1>1, <2>1, <3>1 DEF DraftIsFirst, SendHasInvoice
  <2>5. CASE SkipReply \/ SaveReplyError \/ CommitReply \/ Rebalance
             \/ (\E m \in Reply : Answer(m)) \/ UNCHANGED vars
    <3>1. UNCHANGED <<items, rows>> /\ (settle' = settle \/ settle' = Idle)
      BY <2>5 DEF SkipReply, SaveReplyError, CommitReply, Rebalance, Answer, requestVars, vars
    <3> QED BY <1>1, <2>1, <3>1 DEF DraftIsFirst, SendHasInvoice
  <2> QED BY <1>4, <2>3, <2>4, <2>5 DEF ReplyStep
<1>5. ASSUME NEW p \in Pod, Crash(p) PROVE DraftIsFirst' /\ SendHasInvoice'
  <2>1. ASSUME NEW q \in Request
        PROVE  \/ req'[q] = req[q] /\ (req[q].at \in {"check", "issue"} => req[q].pod # p)
               \/ /\ req'[q].at = "lost" /\ req'[q].inv = req[q].inv
                  /\ req[q].at # "new"
    <3>1. CASE Running(q) /\ req[q].pod = p
      <4>1. req[q] \in Begun
        BY <3>1, RequestIsTyped DEF Running, Inv
      <4>2. req'[q] = [req[q] EXCEPT !.at = "lost"]
        BY <1>5, <3>1 DEF Crash, Restarted
      <4> QED BY <3>1, <4>1, <4>2 DEF Begun, Running
    <3>2. CASE ~(Running(q) /\ req[q].pod = p)
      BY <1>5, <3>2 DEF Crash, Restarted, Running
    <3> QED BY <3>1, <3>2
  <2>2. /\ rows' = rows /\ (settle' = settle \/ settle' = Idle)
        /\ \A q \in Pod, j \in Invoice : items'[q][j] = IF q = p THEN "NONE" ELSE items[q][j]
    BY <1>5 DEF Crash, Restarted, Inv, TypeOK
  <2>3. DraftIsFirst'
    BY <1>1, <2>1, <2>2 DEF DraftIsFirst
  <2>4. \A q \in Request : req[q].at \in {"check", "issue"} =>
           req[q].pod \in Pod /\ req[q].inv \in Invoice
    BY RequestIsTyped DEF Inv
  <2>5. SendHasInvoice'
    BY <2>1, <2>2, <2>4 DEF SendHasInvoice
  <2> QED BY <2>3, <2>5
<1>6. ASSUME NEW p \in Pod, ReadRows(p) \/ FillItems(p) PROVE DraftIsFirst' /\ SendHasInvoice'
  <2>1. UNCHANGED <<rows, req, settle>>
    BY <1>6 DEF ReadRows, FillItems
  <2>2. \A q \in Pod, j \in Invoice :
          \/ items'[q][j] = items[q][j]
          \/ loading[q].at = "found" /\ items'[q][j] = loading[q].rows[j]
    BY <1>6 DEF ReadRows, FillItems, Inv, TypeOK
  <2>3. DraftIsFirst'
    BY <1>1, <2>1, <2>2 DEF DraftIsFirst, LoadingIsFirst
  <2>4. ASSUME NEW q \in Request, req[q].at \in {"check", "issue"}
        PROVE  /\ req[q].pod \in Pod /\ req[q].inv \in Invoice
               /\ loading[req[q].pod] = Idle
    BY <2>4, RequestIsTyped DEF Running, LoadingIsFirst, Inv
  <2>5. SendHasInvoice'
    BY <2>1, <2>2, <2>4 DEF SendHasInvoice, Idle
  <2> QED BY <2>3, <2>5
<1> QED
  BY <1>2, <1>3, <1>4, <1>5, <1>6 DEF Next, Step

\* A request that was not running and is, was begun in a process with a map.
LEMMA RunsWithMap ==
  ASSUME Inv, Path, [Next]_vars, NEW r \in Request, Running(r)'
  PROVE  loading'[req'[r].pod] = Idle
<1>1. ASSUME NEW i \in Invoice, NEW p \in Pod,
             CreateDraft(r, i, p) \/ Send(r, i, p) \/ Pay(r, i, p) \/ Reverse(r, i, p)
      PROVE  loading'[req'[r].pod] = Idle
  BY <1>1 DEF CreateDraft, Send, Pay, Reverse, Begin, replyVars, Inv, TypeOK
<1>2. ASSUME Running(r), req'[r].pod = req[r].pod, ~Crash(req[r].pod)
      PROVE  loading'[req'[r].pod] = Idle
  <2>1. loading[req[r].pod] = Idle
    BY <1>2 DEF Path, LoadingIsFirst
  <2>2. req[r].pod \in Pod
    BY <1>2, RequestIsTyped DEF Running, Inv
  <2> QED
    BY <1>2, <2>1, <2>2, LoadingStep DEF Inv, Finding, Idle
<1>3. CASE UNCHANGED req
  <2>1. ~Crash(req[r].pod)
    <3>1. req[r] \in Begun
      BY <1>3, RequestIsTyped DEF Running, Inv
    <3>2. Crash(req[r].pod) => req'[r] = [req[r] EXCEPT !.at = "lost"]
      BY <1>3 DEF Crash, Restarted, Running
    <3> QED
      BY <1>3, <3>1, <3>2 DEF Running, Begun
  <2> QED
    BY <1>2, <1>3, <2>1 DEF Running
<1>4. ASSUME NEW q \in Request, Step(q), ~\E i \in Invoice, p \in Pod :
               CreateDraft(r, i, p) \/ Send(r, i, p) \/ Pay(r, i, p) \/ Reverse(r, i, p)
      PROVE  loading'[req'[r].pod] = Idle
  <2>1. loading' = loading
    BY <1>4 DEF Step, CreateDraft, Send, Pay, Reverse, Deliver, Issue, Refuse, SetSent, Save,
                Publish, Fail, replyVars
  <2>2. CASE q # r
    <3>1. req'[r] = req[r]
      BY <1>4, <2>2 DEF Step, CreateDraft, Send, Pay, Reverse, Deliver, Issue, Refuse, SetSent,
                        Save, Publish, Fail, Begin, Goto, Inv, TypeOK
    <3> QED
      BY <2>1, <3>1 DEF Running, Path, LoadingIsFirst
  <2>3. CASE q = r
    <3>1. Running(r) /\ (req' = req \/ \E at : Goto(r, at))
      BY <1>4, <2>3 DEF Step, Deliver, Issue, Refuse, SetSent, Save, Publish, Fail, Running
    <3>2. req[r] \in Begun
      BY <3>1, RequestIsTyped DEF Running, Inv
    <3>3. req'[r].pod = req[r].pod
      BY <3>1, <3>2 DEF Goto, Begun, Inv, TypeOK
    <3> QED
      BY <2>1, <3>1, <3>3 DEF Path, LoadingIsFirst
  <2> QED
    BY <2>2, <2>3
<1>5. ASSUME NEW p \in Pod, Crash(p) PROVE loading'[req'[r].pod] = Idle
  <2>1. CASE Running(r) /\ req[r].pod = p
    <3>1. req[r] \in Begun
      BY <2>1, RequestIsTyped DEF Running, Inv
    <3>2. req'[r] = [req[r] EXCEPT !.at = "lost"]
      BY <1>5, <2>1 DEF Crash, Restarted
    <3> QED
      BY <3>1, <3>2 DEF Running, Begun
  <2>2. CASE ~(Running(r) /\ req[r].pod = p)
    <3>1. req'[r] = req[r] /\ loading' = [loading EXCEPT ![p] = Finding]
      BY <1>5, <2>2 DEF Crash, Restarted
    <3>2. Running(r) /\ req[r].pod # p /\ req[r].pod \in Pod
      BY <2>2, <3>1, RequestIsTyped DEF Running, Inv
    <3> QED
      BY <3>1, <3>2 DEF Path, LoadingIsFirst, Inv, TypeOK
  <2> QED
    BY <2>1, <2>2
<1>6. CASE ReplyStep \/ (\E m \in Reply : Answer(m)) \/ UNCHANGED vars
           \/ \E p \in Pod : ReadRows(p) \/ FillItems(p)
  <2>1. UNCHANGED req
    BY <1>6 DEF ReplyStep, SkipReply, HandleReply, SaveReply, SaveReplyError, CommitReply,
                Rebalance, Answer, requestVars, vars, ReadRows, FillItems
  <2> QED
    BY <1>3, <2>1
<1> QED
  BY <1>1, <1>4, <1>5, <1>6 DEF Next

LEMMA LoadingStaysFirst ==
  ASSUME Inv, Path, [Next]_vars, TypeOK'
  PROVE  LoadingIsFirst'
<1>1. \A i : Known(i) => Known(i)'
  BY KnownStays DEF Inv
<1> USE DEF Path
<1>2. ASSUME NEW p \in Pod, loading'[p] # Idle, NEW i \in Invoice
      PROVE  items'[p][i] = "NONE"
  <2>1. CASE Crash(p)
    BY <2>1 DEF Crash, Restarted, Inv, TypeOK
  <2>2. CASE ~Crash(p)
    <3>7. FillItems(p) => loading'[p] = Idle
      BY DEF FillItems, Inv, TypeOK
    <3>1. loading[p] # Idle /\ ~FillItems(p)
      BY <1>2, <2>2, <3>7, LoadingStep DEF Inv, Idle, Finding
    <3>2. items[p][i] = "NONE"
      BY <3>1 DEF LoadingIsFirst
    <3>3. ASSUME NEW r \in Request, Step(r) PROVE items'[p][i] = items[p][i]
      <4>1. ASSUME NEW j \in Invoice, NEW q \in Pod,
                   CreateDraft(r, j, q) \/ Send(r, j, q) \/ Pay(r, j, q) \/ Reverse(r, j, q)
            PROVE  items'[p][i] = items[p][i]
        BY <3>1, <4>1 DEF CreateDraft, Send, Pay, Reverse, Begin, Inv, TypeOK
      <4>2. CASE SetSent(r)
        <5>1. req[r].pod # p
          BY <3>1, <4>2 DEF SetSent, Running, LoadingIsFirst
        <5> QED
          BY <4>2, <5>1 DEF SetSent, Inv, TypeOK
      <4>3. CASE Deliver(r) \/ Issue(r) \/ Refuse(r) \/ Save(r) \/ Publish(r) \/ Fail(r)
        BY <4>3 DEF Deliver, Issue, Refuse, Save, Publish, Fail
      <4> QED
        BY <3>3, <4>1, <4>2, <4>3 DEF Step
    <3>4. CASE HandleReply
      <4>1. /\ items[reader][replies[replyPos].inv] = "REVERSING"
            /\ replies[replyPos].inv \in Invoice /\ reader \in Pod
            /\ items' = [items EXCEPT ![reader][replies[replyPos].inv] =
                                        Settled(replies[replyPos].type)]
        BY <3>4 DEF HandleReply, Reply, Inv, TypeOK
      <4>2. p # reader
        BY <3>1, <4>1 DEF LoadingIsFirst
      <4> QED
        BY <3>2, <4>1, <4>2 DEF Inv, TypeOK
    <3>5. CASE SkipReply \/ SaveReply \/ SaveReplyError \/ CommitReply \/ Rebalance
               \/ (\E m \in Reply : Answer(m)) \/ UNCHANGED vars
      BY <3>2, <3>5 DEF SkipReply, SaveReply, SaveReplyError, CommitReply, Rebalance, Answer,
                        requestVars, vars
    <3>6. ASSUME NEW q \in Pod, Crash(q) \/ ReadRows(q) \/ FillItems(q)
          PROVE  items'[p][i] = items[p][i]
      BY <2>2, <3>1, <3>6 DEF Crash, Restarted, ReadRows, FillItems, Inv, TypeOK
    <3> QED
      BY <3>2, <3>3, <3>4, <3>5, <3>6 DEF Next, ReplyStep
  <2> QED
    BY <2>1, <2>2
<1>3. ASSUME NEW p \in Pod, NEW i \in Invoice, loading'[p].at = "found",
             loading'[p].rows[i] # "NONE"
      PROVE  Known(i)'
  <2>1. CASE loading'[p] = loading[p]
    BY <1>1, <1>3, <2>1 DEF LoadingIsFirst
  <2>2. CASE loading'[p] = Found(rows)
    BY <1>1, <1>3, <2>2 DEF Found, DraftIsFirst
  <2> QED
    BY <1>3, <2>1, <2>2, LoadingStep DEF Inv, Finding, Idle
<1>4. ASSUME settle' # Idle PROVE loading'[reader'] = Idle
  <2>1. reader \in Pod
    BY DEF Inv, TypeOK
  <2>2. ASSUME loading[reader] = Idle, reader' = reader, ~Crash(reader)
        PROVE  loading'[reader'] = Idle
    BY <2>1, <2>2, LoadingStep DEF Inv, Finding, Idle
  <2>3. CASE HandleReply
    <3>1. /\ items[reader][replies[replyPos].inv] = "REVERSING"
          /\ replies[replyPos].inv \in Invoice
      BY <2>3 DEF HandleReply, Reply, Inv, TypeOK
    <3>2. loading[reader] = Idle /\ loading' = loading /\ reader' = reader
      BY <2>1, <2>3, <3>1 DEF HandleReply, LoadingIsFirst
    <3> QED
      BY <3>2
  <2>4. ASSUME NEW q \in Pod, Crash(q) PROVE loading'[reader'] = Idle
    <3>1. reader # q /\ settle # Idle /\ reader' = reader
          /\ loading' = [loading EXCEPT ![q] = Finding]
      BY <1>4, <2>4 DEF Crash, Restarted
    <3> QED
      BY <2>1, <3>1 DEF LoadingIsFirst, Inv, TypeOK
  <2>5. CASE SkipReply \/ SaveReply \/ SaveReplyError \/ CommitReply \/ Rebalance
    BY <1>4, <2>5 DEF SkipReply, SaveReply, SaveReplyError, CommitReply, Rebalance
  <2>6. CASE (\E r \in Request : Step(r)) \/ (\E m \in Reply : Answer(m)) \/ UNCHANGED vars
    <3>1. UNCHANGED <<loading, reader, settle>>
      BY <2>6 DEF Step, CreateDraft, Send, Pay, Reverse, Deliver, Issue, Refuse, SetSent, Save,
                  Publish, Fail, Answer, replyVars, requestVars, vars
    <3> QED
      BY <1>4, <3>1 DEF LoadingIsFirst
  <2>7. ASSUME NEW q \in Pod, ReadRows(q) \/ FillItems(q) PROVE loading'[reader'] = Idle
    <3>1. UNCHANGED <<reader, settle>> /\ loading[reader] = Idle
      BY <1>4, <2>7 DEF ReadRows, FillItems, LoadingIsFirst
    <3>2. reader # q
      BY <2>7, <3>1 DEF ReadRows, FillItems, Finding, Idle
    <3> QED
      BY <2>1, <2>7, <3>1, <3>2 DEF ReadRows, FillItems, Inv, TypeOK
  <2> QED
    BY <2>3, <2>4, <2>5, <2>6, <2>7 DEF Next, ReplyStep
<1>5. ASSUME crashes' = 0, NEW p \in Pod PROVE loading'[p] = Idle
  <2>1. crashes \in Nat
    BY InvoiceAssumption DEF Inv, TypeOK
  <2>2. crashes' = crashes \/ crashes' = crashes + 1
    BY <1>5, <2>1 DEF Next, Step, ReplyStep, CreateDraft, Send, Pay, Reverse, Deliver, Issue, Refuse,
       SetSent, Save, Publish, Fail, SkipReply, HandleReply, SaveReply, SaveReplyError, CommitReply,
       Rebalance, Answer, Crash, Restarted, Crashing, ReadRows, FillItems, vars
  <2>3. Crash(p) => crashes' = crashes + 1
    BY DEF Crash, Restarted, Crashing
  <2>4. crashes = 0 /\ ~Crash(p)
    BY <1>5, <2>1, <2>2, <2>3
  <2>5. loading[p] = Idle
    BY <2>4 DEF LoadingIsFirst
  <2> QED
    BY <2>4, <2>5, LoadingStep DEF Inv, Finding, Idle
<1>6. \A r \in Request : Running(r)' => loading'[req'[r].pod] = Idle
  BY RunsWithMap
<1> QED
  BY <1>2, <1>3, <1>4, <1>5, <1>6 DEF LoadingIsFirst

LEMMA PathIsKept == Inv /\ Path /\ [Next]_vars => Inv' /\ Path'
<1> SUFFICES ASSUME Inv, Path, [Next]_vars PROVE Inv' /\ Path'
  OBVIOUS
<1>1. Inv'
  BY InvStep
<1>2. FewRequests'
  BY FewStay DEF Path
<1>3. ReversalHolds'
  BY <1>1, <1>2, ReversalHoldsOn
<1>4. DraftIsFirst' /\ SendHasInvoice'
  BY <1>1, DraftStaysFirst DEF Inv
<1>5. LoadingIsFirst'
  BY <1>1, LoadingStaysFirst DEF Inv
<1> QED
  BY <1>1, <1>2, <1>3, <1>4, <1>5 DEF Path

(* With one send per invoice no step of a request or of the saga consumer   *)
(* moves an invoice off its path, for any number of processes, requests in  *)
(* flight, and late or repeated replies; only a process that stops or fills *)
(* its map changes a status otherwise.                                      *)
THEOREM PathIsFollowed == Spec => Lifecycle
<1>1. Inv /\ Path /\ [Next]_vars => [StayOnPath]_vars
  BY PathStep
<1> QED
  BY <1>1, InvInit, PathInit, PathIsKept, PTL DEF Spec, Lifecycle

(* Until its answer is handled, a reversal of an invoice that is sent once  *)
(* keeps it REVERSING in its process, whatever else is in flight.           *)
THEOREM ReversalIsAlone == Spec => []ReversalExcludes
<1>1. Inv /\ Path => ReversalExcludes
  BY DEF Path, ReversalHolds, ReversalExcludes, AwaitsAnswer, Unanswered
<1> QED
  BY <1>1, InvInit, PathInit, PathIsKept, PTL DEF Spec

-----------------------------------------------------------------------------
(* Answered reversals, when there is one process.  While the table has an   *)
(* invoice REVERSING, and no answer was missed, its answer is still to be   *)
(* read, and the map has it REVERSING too or will when it is filled, or the *)
(* answer is being saved, and its offset is not committed: it is read again *)
(* if the process stops.                                                    *)
OnePod == \E p : Pod = {p}

\* What the map of a process has, or will have when it is filled.
View(p) ==
    IF loading[p] = Idle THEN items[p]
    ELSE IF loading[p].at = "found" THEN loading[p].rows ELSE rows

IsReversing(i) == \A p \in Pod : View(p)[i] = "REVERSING"
Unread(i) == Unanswered(i) /\ IsReversing(i)
BeingSettled(i) ==
    /\ settle # Idle /\ settle.inv = i
    /\ \A k \in 1 .. replyCommitted - 1 : replies[k].inv # i

\* r is the only reversal of i.
Only(r, i) == Requests("reverse", i) = {r}

Held(r, i) ==
    /\ req[r].at \in {"save", "publish"} => ~Answered(i) /\ IsReversing(i)
    /\ rows[i] = "REVERSING" => req[r].at # "save" /\ (Unread(i) \/ BeingSettled(i))

ReversalIsSettled ==
    \A i \in Invoice \ missed, r \in Request :
        failures = 0 /\ SentOnce(i) /\ Only(r, i) => Held(r, i)

AnswerHasRequest ==
    /\ \A i \in Invoice : Answered(i) => Requests("reverse", i) \cap published # {}
    /\ \A r \in published : req[r].at = "done"

RowHasRequest ==
    /\ \A i \in Invoice : rows[i] = "REVERSING" => Requests("reverse", i) # {}
    /\ settle # Idle => settle.val # "REVERSING"

SettleInv == ReversalIsSettled /\ AnswerHasRequest /\ RowHasRequest

LEMMA SettleInit == Init => SettleInv
<1> SUFFICES ASSUME Init PROVE SettleInv
  OBVIOUS
<1>1. \A cmd, i : Requests(cmd, i) = {}
  BY DEF Init, Requests
<1>2. ReversalIsSettled
  BY <1>1 DEF ReversalIsSettled, Only
<1>3. AnswerHasRequest /\ RowHasRequest
  BY DEF Init, AnswerHasRequest, RowHasRequest, Answered
<1> QED
  BY <1>2, <1>3 DEF SettleInv

(* Answers are to published requests, and a request is REVERSING in the     *)
(* table by a request.                                                      *)
LEMMA RequestOfAnswer ==
  ASSUME Inv, SettleInv, [Next]_vars
  PROVE  AnswerHasRequest'
<1>1. \A i : Requests("reverse", i) \subseteq Requests("reverse", i)'
  BY RequestsStay DEF Inv
<1>2. /\ \A i \in Invoice : Answered(i) => Requests("reverse", i) \cap published # {}
      /\ \A r \in published : req[r].at = "done"
      /\ published \subseteq Request
  BY DEF SettleInv, AnswerHasRequest, Inv, TypeOK
<1>3. ASSUME NEW r \in Request, req[r].at = "done" PROVE req'[r].at = "done"
  <2>1. ASSUME NEW q \in Request, Step(q) PROVE req'[r].at = "done"
    <3>1. CASE q = r
      BY <1>3, <2>1, <3>1 DEF Step, CreateDraft, Send, Pay, Reverse, Deliver, Issue, Refuse,
         SetSent, Save, Publish, Fail, Running, Begin, New
    <3>2. CASE q # r
      BY <1>3, <2>1, <3>2 DEF Step, CreateDraft, Send, Pay, Reverse, Deliver, Issue, Refuse,
         SetSent, Save, Publish, Fail, Begin, Goto, Inv, TypeOK
    <3> QED
      BY <3>1, <3>2
  <2>2. CASE ReplyStep \/ (\E m \in Reply : Answer(m)) \/ UNCHANGED vars
    BY <1>3, <2>2 DEF ReplyStep, SkipReply, HandleReply, SaveReply, SaveReplyError, CommitReply,
       Rebalance, Answer, requestVars, vars
  <2>3. ASSUME NEW p \in Pod, Crash(p) PROVE req'[r].at = "done"
    BY <1>3, <2>3 DEF Crash, Restarted, Running
  <2>4. ASSUME NEW p \in Pod, ReadRows(p) \/ FillItems(p) PROVE req'[r].at = "done"
    BY <1>3, <2>4 DEF ReadRows, FillItems
  <2> QED
    BY <2>1, <2>2, <2>3, <2>4 DEF Next
<1>4. CASE UNCHANGED <<published, replies>>
  BY <1>1, <1>2, <1>3, <1>4 DEF AnswerHasRequest, Answered
<1>5. ASSUME NEW r \in Request, Publish(r) PROVE AnswerHasRequest'
  <2>1. published' = published \cup {r} /\ replies' = replies /\ Goto(r, "done")
        /\ req[r].at = "publish"
    BY <1>5 DEF Publish, replyVars
  <2>2. req[r] \in Begun
    BY <2>1, RequestIsTyped DEF Inv
  <2>3. req'[r].at = "done"
    BY <2>1, <2>2 DEF Goto, Begun, Inv, TypeOK
  <2> QED
    BY <1>1, <1>2, <1>3, <2>1, <2>3 DEF AnswerHasRequest, Answered
<1>6. ASSUME NEW m \in Reply, Answer(m) PROVE AnswerHasRequest'
  <2>1. /\ Requests("reverse", m.inv) \cap published # {} /\ replies' = Append(replies, m)
        /\ UNCHANGED <<req, published>>
    BY <1>6 DEF Answer, requestVars
  <2>2. \A i \in Invoice : Answered(i)' => Answered(i) \/ i = m.inv
    BY <2>1 DEF Answered, Inv, TypeOK
  <2> QED
    BY <1>1, <1>2, <2>1, <2>2 DEF AnswerHasRequest
<1>7. CASE SkipReply \/ HandleReply \/ SaveReply \/ SaveReplyError \/ CommitReply \/ Rebalance
           \/ UNCHANGED vars \/ (\E p \in Pod : Crash(p) \/ ReadRows(p) \/ FillItems(p))
  BY <1>4, <1>7 DEF SkipReply, HandleReply, SaveReply, SaveReplyError, CommitReply,
     Rebalance, Crash, Restarted, ReadRows, FillItems, requestVars, vars
<1>8. ASSUME NEW r \in Request, Step(r), ~Publish(r) PROVE AnswerHasRequest'
  BY <1>4, <1>8 DEF Step, CreateDraft, Send, Pay, Reverse, Deliver, Issue, Refuse, SetSent,
     Save, Fail, replyVars
<1> QED
  BY <1>5, <1>6, <1>7, <1>8 DEF Next, ReplyStep

LEMMA RequestOfRow ==
  ASSUME Inv, SettleInv, [Next]_vars
  PROVE  RowHasRequest'
<1>1. \A i : Requests("reverse", i) \subseteq Requests("reverse", i)'
  BY RequestsStay DEF Inv
<1>2. /\ \A i \in Invoice : rows[i] = "REVERSING" => Requests("reverse", i) # {}
      /\ settle # Idle => settle.val # "REVERSING"
      /\ rows \in [Invoice -> Status \cup {"NONE"}]
  BY DEF SettleInv, RowHasRequest, Inv, TypeOK
<1>3. CASE rows' = rows /\ (settle' = settle \/ settle' = Idle)
  BY <1>1, <1>2, <1>3 DEF RowHasRequest
<1>4. ASSUME NEW r \in Request, Save(r) PROVE RowHasRequest'
  <2>1. /\ rows' = [rows EXCEPT ![req[r].inv] = Target(req[r].cmd)]
        /\ req[r].at # "new" /\ settle' = settle
    BY <1>4 DEF Save, replyVars
  <2>2. req[r] # New /\ req[r].cmd \in Command /\ req[r].inv \in Invoice
    BY <2>1, RequestIsTyped, NewIsNew DEF Inv
  <2>3. Target(req[r].cmd) = "REVERSING" => req[r].cmd = "reverse"
    BY <2>2 DEF Target, Command
  <2>4. \A i \in Invoice : rows'[i] = "REVERSING" => Requests("reverse", i) # {}
    BY <1>2, <2>1, <2>2, <2>3 DEF Requests
  <2> QED
    BY <1>1, <1>2, <2>1, <2>4 DEF RowHasRequest
<1>5. CASE SaveReply
  BY <1>1, <1>2, <1>5 DEF SaveReply, RowHasRequest, Idle
<1>6. CASE HandleReply
  <2>1. rows' = rows /\ settle'.val # "REVERSING"
    BY <1>6 DEF HandleReply, Settled
  <2> QED
    BY <1>1, <1>2, <2>1 DEF RowHasRequest
<1>7. CASE SkipReply \/ SaveReplyError \/ CommitReply \/ Rebalance \/ UNCHANGED vars
           \/ (\E p \in Pod : Crash(p) \/ ReadRows(p) \/ FillItems(p))
           \/ (\E m \in Reply : Answer(m))
  BY <1>3, <1>7 DEF SkipReply, SaveReplyError, CommitReply, Rebalance, Crash, Restarted, Answer,
     ReadRows, FillItems, requestVars, vars
<1>8. ASSUME NEW r \in Request, Step(r), ~Save(r) PROVE RowHasRequest'
  BY <1>3, <1>8 DEF Step, CreateDraft, Send, Pay, Reverse, Deliver, Issue, Refuse, SetSent,
     Publish, Fail, replyVars
<1> QED
  BY <1>4, <1>5, <1>6, <1>7, <1>8 DEF Next, ReplyStep

(* The only reversal was that before, or it begins. *)
LEMMA OnlyBefore ==
  ASSUME Inv, [Next]_vars, NEW i \in Invoice, NEW r \in Request, Only(r, i)'
  PROVE  Only(r, i) \/ (Requests("reverse", i) = {} /\ \E p \in Pod : Reverse(r, i, p))
<1>1. Requests("reverse", i) \subseteq {r}
  BY RequestsStay DEF Inv, Only
<1>2. ASSUME Requests("reverse", i) = {} PROVE \E p \in Pod : Reverse(r, i, p)
  <2>1. req'[r] # New /\ req'[r].cmd = "reverse" /\ req'[r].inv = i
    BY DEF Only, Requests
  <2>2. req[r] = New \/ req[r].cmd # "reverse" \/ req[r].inv # i
    BY <1>2 DEF Requests
  <2>3. req[r].at # "new" => req'[r].cmd = req[r].cmd /\ req'[r].inv = req[r].inv
    BY StepKeeps DEF Inv, Keeps
  <2>4. req[r] = New
    BY <2>1, <2>2, <2>3, NewIsNew DEF Inv
  <2>5. req'[r] # req[r]
    BY <2>1, <2>4
  <2>6. \E q \in Request : Step(q)
    <3>1. CASE ReplyStep \/ (\E m \in Reply : Answer(m)) \/ UNCHANGED vars
      BY <2>5, <3>1 DEF ReplyStep, SkipReply, HandleReply, SaveReply, SaveReplyError, CommitReply,
         Rebalance, Answer, requestVars, vars
    <3>2. ASSUME NEW p \in Pod, Crash(p) PROVE FALSE
      BY <2>4, <2>5, <3>2 DEF Crash, Restarted, Running, New
    <3>3. ASSUME NEW p \in Pod, ReadRows(p) \/ FillItems(p) PROVE FALSE
      BY <2>5, <3>3 DEF ReadRows, FillItems
    <3> QED
      BY <3>1, <3>2, <3>3 DEF Next
  <2>7. PICK q \in Request : Step(q)
    BY <2>6
  <2>8. q = r
    BY <2>5, <2>7 DEF Step, CreateDraft, Send, Pay, Reverse, Deliver, Issue, Refuse, SetSent,
       Save, Publish, Fail, Begin, Goto, Inv, TypeOK
  <2>9. PICK j \in Invoice, p \in Pod :
          CreateDraft(r, j, p) \/ Send(r, j, p) \/ Pay(r, j, p) \/ Reverse(r, j, p)
    BY <2>4, <2>5, <2>7, <2>8 DEF Step, Deliver, Issue, Refuse, SetSent, Save, Publish, Fail,
       Running, New
  <2>10. Reverse(r, j, p) /\ j = i
    BY <2>1, <2>9 DEF CreateDraft, Send, Pay, Reverse, Begin, Inv, TypeOK
  <2> QED
    BY <2>10
<1> QED
  BY <1>1, <1>2 DEF Only

(* A step that leaves the reversal, the row and the answers alone, and the  *)
(* status in the map while that is REVERSING.                               *)
LEMMA HeldStays ==
  ASSUME NEW i \in Invoice, NEW r \in Request, Held(r, i),
         UNCHANGED <<replies, replyPos, replyCommitted, settle>>, rows'[i] = rows[i],
         req'[r].at = req[r].at \/ req'[r].at \notin {"save", "publish"},
         IsReversing(i) => IsReversing(i)'
  PROVE  Held(r, i)'
<1>1. (Answered(i)' <=> Answered(i)) /\ (Unread(i) => Unread(i)')
      /\ (BeingSettled(i) => BeingSettled(i)')
  BY DEF Answered, Unread, Unanswered, BeingSettled
<1> QED
  BY <1>1 DEF Held

(* Another request, or the next step of the reversal. *)
LEMMA HeldByRequest ==
  ASSUME Inv, Path, OnePod, NEW i \in Invoice, NEW r \in Request, Only(r, i), Only(r, i)',
         SentOnce(i), Held(r, i), failures' = failures, NEW q \in Request, Step(q)
  PROVE  Held(r, i)'
<1>1. PICK p : Pod = {p}
  BY DEF OnePod
<1>2. /\ req[r].at # "new" /\ req[r].cmd = "reverse" /\ req[r].inv = i
      /\ \A s \in Request : req[s].at # "new" /\ req[s].cmd = "reverse" /\ req[s].inv = i => s = r
      /\ req[r] # New
  BY NewIsNew DEF Only, Requests, Inv
<1>3. /\ items \in [Pod -> [Invoice -> Status \cup {"NONE"}]]
      /\ req = [s \in Request |-> req[s]] /\ rows \in [Invoice -> Status \cup {"NONE"}]
      /\ \A s \in Request : req[s].at # "new" => req[s].pod = p /\ req[s].inv \in Invoice
  BY <1>1, RequestIsTyped DEF Inv, TypeOK
<1>10. loading' = loading /\ loading[p] = Idle
  <2>1. loading' = loading
    BY DEF Step, CreateDraft, Send, Pay, Reverse, Deliver, Issue, Refuse, SetSent, Save, Publish,
           Fail, replyVars
  <2>2. ASSUME NEW j \in Invoice, NEW x \in Pod,
               CreateDraft(q, j, x) \/ Send(q, j, x) \/ Pay(q, j, x) \/ Reverse(q, j, x)
        PROVE  loading[p] = Idle
    BY <1>1, <2>2 DEF CreateDraft, Send, Pay, Reverse, Begin
  <2>3. CASE Deliver(q) \/ Issue(q) \/ Refuse(q) \/ SetSent(q) \/ Save(q) \/ Publish(q) \/ Fail(q)
    <3>1. Running(q)
      BY <2>3 DEF Deliver, Issue, Refuse, SetSent, Save, Publish, Fail, Running
    <3> QED
      <4>1. loading[req[q].pod] = Idle
        BY <3>1 DEF Path, LoadingIsFirst
      <4>2. req[q].at # "new"
        BY <3>1 DEF Running
      <4>3. req[q].pod = p
        BY <1>1, <4>2, RequestIsTyped DEF Inv
      <4> QED
        BY <2>1, <4>1, <4>3
  <2> QED
    BY <2>1, <2>2, <2>3 DEF Step
<1>11. /\ IsReversing(i) <=> items[p][i] = "REVERSING"
       /\ IsReversing(i)' <=> items'[p][i] = "REVERSING"
  BY <1>1, <1>10 DEF IsReversing, View
<1>4. ASSUME NEW j \in Invoice, CreateDraft(q, j, p) \/ Send(q, j, p) \/ Pay(q, j, p)
      PROVE  Held(r, i)'
  <2>1. /\ UNCHANGED <<rows, replies, replyPos, replyCommitted, settle>> /\ req[q] = New
        /\ \A s \in Request : s # q => req'[s] = req[s]
    BY <1>3, <1>4 DEF CreateDraft, Send, Pay, Begin, replyVars
  <2>2. req'[r] = req[r]
    BY <1>2, <2>1
  <2>3. ASSUME IsReversing(i) PROVE IsReversing(i)'
    <3>1. items[p][i] = "REVERSING"
      BY <1>11, <2>3
    <3>2. CreateDraft(q, j, p) => j # i
      BY <1>2 DEF CreateDraft, Path, DraftIsFirst, Known
    <3>3. Pay(q, j, p) => j # i
      BY <3>1 DEF Pay
    <3>4. items'[p][i] = items[p][i]
      BY <1>1, <1>3, <1>4, <3>2, <3>3 DEF CreateDraft, Send, Pay
    <3> QED
      BY <1>11, <3>1, <3>4
  <2> QED
    BY <2>1, <2>2, <2>3, HeldStays
<1>5. ASSUME NEW j \in Invoice, Reverse(q, j, p) PROVE Held(r, i)'
  <2>1. /\ UNCHANGED <<rows, replies, replyPos, replyCommitted, settle>> /\ req[q] = New
        /\ req' = [req EXCEPT ![q] = [at |-> "save", cmd |-> "reverse", inv |-> j, pod |-> p]]
        /\ items' = [items EXCEPT ![p][j] = "REVERSING"]
    BY <1>5 DEF Reverse, Begin, replyVars
  <2>2. q # r /\ req'[r] = req[r]
    BY <1>2, <1>3, <2>1
  <2>3. IsReversing(i) => IsReversing(i)'
    BY <1>1, <1>3, <1>11, <2>1
  <2> QED
    BY <2>1, <2>2, <2>3, HeldStays
<1>6. CASE Deliver(q) \/ Issue(q) \/ Refuse(q) \/ SetSent(q)
  <2>1. /\ UNCHANGED <<rows, replies, replyPos, replyCommitted, settle>>
        /\ req[q].at \in {"check", "issue"} /\ \A s \in Request : s # q => req'[s] = req[s]
    BY <1>3, <1>6 DEF Deliver, Issue, Refuse, SetSent, Goto, replyVars
  <2>2. req[q].cmd = "send"
    BY <2>1 DEF Inv, SendIsOnItsWay
  <2>3. req'[r] = req[r]
    BY <1>2, <2>1, <2>2
  <2>4. ASSUME IsReversing(i) PROVE IsReversing(i)'
    <3>1. items[p][i] = "REVERSING"
      BY <1>11, <2>4
    <3>2. req[q].inv = i => items[p][i] = "DRAFT"
      BY <1>3, <2>1, SendIsDraft
    <3>3. SetSent(q) => items' = [items EXCEPT ![p][req[q].inv] = "SENT"]
      BY <1>3, <2>1 DEF SetSent
    <3>4. ~SetSent(q) => items' = items
      BY <1>6 DEF Deliver, Issue, Refuse
    <3>5. items'[p][i] = items[p][i]
      BY <1>1, <1>3, <3>1, <3>2, <3>3, <3>4
    <3> QED
      BY <1>11, <3>1, <3>5
  <2> QED
    BY <2>1, <2>3, <2>4, HeldStays
<1>7. CASE Save(q)
  <2>1. /\ UNCHANGED <<items, replies, replyPos, replyCommitted, settle>>
        /\ req[q].at = "save"
        /\ rows' = [rows EXCEPT ![req[q].inv] = Target(req[q].cmd)]
        /\ Goto(q, IF req[q].cmd = "send" THEN "done" ELSE "publish")
    BY <1>7 DEF Save, replyVars
  <2>2. IsReversing(i)' <=> IsReversing(i)
    BY <1>11, <2>1
  <2>3. CASE q = r
    <3>1. req'[r].at = "publish"
      BY <1>2, <1>3, <2>1, <2>3, RequestIsTyped DEF Goto, Inv, Begun
    <3>2. ~Answered(i) /\ IsReversing(i)
      BY <2>1, <2>3 DEF Held
    <3>3. Unanswered(i)
      BY <3>2 DEF Answered, Unanswered, Inv, TypeOK
    <3>4. ~Answered(i)' /\ Unanswered(i)'
      BY <2>1, <3>2, <3>3 DEF Answered, Unanswered
    <3> QED
      BY <2>2, <3>1, <3>2, <3>4 DEF Held, Unread
  <2>4. CASE q # r
    <3>1. req'[r] = req[r]
      BY <1>3, <2>1, <2>4 DEF Goto
    <3>2. CASE req[q].inv # i
      <4>1. rows'[i] = rows[i]
        BY <1>3, <2>1, <3>2
      <4> QED
        BY <2>1, <2>2, <3>1, <4>1, HeldStays
    <3>3. CASE req[q].inv = i
      <4>1. req[q].cmd # "reverse" /\ req[q].cmd \in Command
        BY <1>2, <2>1, <2>4, <3>3, RequestIsTyped DEF Inv
      <4>2. rows'[i] # "REVERSING"
        BY <1>3, <2>1, <3>3, <4>1 DEF Target, Command
      <4>3. Answered(i)' <=> Answered(i)
        BY <2>1 DEF Answered
      <4> QED
        BY <2>2, <3>1, <4>2, <4>3 DEF Held
    <3> QED
      BY <3>2, <3>3
  <2> QED
    BY <2>3, <2>4
<1>8. CASE Publish(q)
  <2>1. /\ UNCHANGED <<items, rows, replies, replyPos, replyCommitted, settle>>
        /\ req[q].at = "publish" /\ Goto(q, "done")
    BY <1>8 DEF Publish, replyVars
  <2>2. IsReversing(i) => IsReversing(i)'
    BY <1>11, <2>1
  <2>3. req'[r].at = req[r].at \/ req'[r].at = "done"
    BY <1>2, <1>3, <2>1, RequestIsTyped DEF Goto, Inv, Begun
  <2> QED
    BY <2>1, <2>2, <2>3, HeldStays
<1>9. ~Fail(q)
  BY InvoiceAssumption DEF Fail, Failure, Inv, TypeOK
<1> QED
  BY <1>1, <1>4, <1>5, <1>6, <1>7, <1>8, <1>9 DEF Step

(* The consumer of the answers. *)
LEMMA HeldByReply ==
  ASSUME Inv, Path, OnePod, SettleInv, NEW i \in Invoice, NEW r \in Request, Held(r, i),
         failures' = failures, ReplyStep, i \notin missed'
  PROVE  Held(r, i)'
<1>1. req' = req
  BY DEF ReplyStep, SkipReply, HandleReply, SaveReply, SaveReplyError, CommitReply, Rebalance,
     requestVars
<1>2. /\ items \in [Pod -> [Invoice -> Status \cup {"NONE"}]] /\ reader \in Pod
      /\ rows \in [Invoice -> Status \cup {"NONE"}]
      /\ replyPos \in Nat /\ replyCommitted \in Nat /\ replyCommitted <= replyPos /\ replyPos >= 1
  BY DEF Inv, TypeOK
<1>8. loading' = loading
  BY DEF ReplyStep, SkipReply, HandleReply, SaveReply, SaveReplyError, CommitReply, Rebalance,
     requestVars
<1>9. Pod = {reader}
  BY <1>2 DEF OnePod
<1>10. IsReversing(i) <=> View(reader)[i] = "REVERSING"
  BY <1>9 DEF IsReversing
<1>3. CASE SkipReply
  <2>1. /\ UNCHANGED <<items, rows, replies, replyCommitted, settle>>
        /\ settle = Idle /\ replyPos' = replyPos + 1
        /\ items[reader][replies[replyPos].inv] # "REVERSING"
        /\ loading[reader] = Idle \/ replies[replyPos].inv \in missed'
    BY <1>3 DEF SkipReply, requestVars
  <2>4. IsReversing(i)' <=> IsReversing(i)
    BY <1>8, <2>1 DEF IsReversing, View
  <2>2. ASSUME Unread(i) PROVE Unread(i)'
    <3>1. replies[replyPos].inv # i
      BY <1>10, <2>1, <2>2 DEF Unread, View
    <3> QED
      BY <1>2, <2>1, <2>2, <2>4, <3>1 DEF Unread, Unanswered
  <2>3. (Answered(i)' <=> Answered(i)) /\ ~BeingSettled(i) /\ (IsReversing(i)' <=> IsReversing(i))
    BY <2>1, <2>4 DEF Answered, BeingSettled
  <2> QED
    BY <1>1, <2>1, <2>2, <2>3 DEF Held
<1>4. CASE HandleReply
  <2>1. PICK m : m = replies[replyPos]
    OBVIOUS
  <2>2. /\ UNCHANGED <<rows, replies, replyCommitted>> /\ replyPos \in DOMAIN replies
        /\ settle = Idle /\ replyPos' = replyPos + 1
        /\ items' = [items EXCEPT ![reader][m.inv] = Settled(m.type)]
        /\ settle' = [at |-> "save", inv |-> m.inv, val |-> Settled(m.type)]
    BY <1>4, <2>1 DEF HandleReply
  <2>6. loading[reader] = Idle
    <3>2. items[reader][m.inv] = "REVERSING"
      BY <1>4, <2>1 DEF HandleReply
    <3>3. m \in Reply
      BY <2>1, <2>2 DEF Inv, TypeOK
    <3>1. items[reader][m.inv] = "REVERSING" /\ m.inv \in Invoice
      BY <3>2, <3>3 DEF Reply
    <3> QED
      BY <1>2, <3>1 DEF Path, LoadingIsFirst
  <2>3. (Answered(i)' <=> Answered(i)) /\ ~BeingSettled(i)
    BY <2>2 DEF Answered, BeingSettled
  <2>4. CASE m.inv = i
    <3>1. Answered(i)
      BY <2>1, <2>2, <2>4 DEF Answered
    <3>2. ASSUME Unread(i) PROVE BeingSettled(i)'
      <4>1. settle' # Idle /\ settle'.inv = i
        BY <2>2, <2>4 DEF Idle
      <4>2. \A k \in 1 .. replyCommitted - 1 : replies[k].inv # i
        BY <1>2, <3>2 DEF Unread, Unanswered
      <4> QED
        BY <2>2, <4>1, <4>2 DEF BeingSettled
    <3> QED
      BY <1>1, <2>2, <2>3, <3>1, <3>2 DEF Held
  <2>5. CASE m.inv # i
    <3>1. IsReversing(i)' <=> IsReversing(i)
      <4>1. \A p \in Pod : items'[p][i] = items[p][i]
        BY <1>2, <2>2, <2>5
      <4> QED
        BY <1>8, <1>9, <2>6, <4>1 DEF IsReversing, View
    <3>2. Unanswered(i) => Unanswered(i)'
      <4>1. \A k \in 1 .. replyPos : k \in 1 .. replyPos - 1 \/ k = replyPos
        BY <1>2
      <4>2. 1 .. replyPos' - 1 = 1 .. replyPos
        BY <1>2, <2>2
      <4> QED
        BY <2>1, <2>2, <2>5, <4>1, <4>2 DEF Unanswered
    <3> QED
      BY <1>1, <2>2, <2>3, <3>1, <3>2 DEF Held, Unread
  <2> QED
    BY <2>4, <2>5
<1>5. CASE SaveReply
  <2>1. /\ UNCHANGED <<items, replies, replyPos, replyCommitted>>
        /\ settle # Idle /\ rows' = [rows EXCEPT ![settle.inv] = settle.val]
    BY <1>5 DEF SaveReply
  <2>5. loading[reader] = Idle
    BY <2>1 DEF Path, LoadingIsFirst
  <2>6. IsReversing(i)' <=> IsReversing(i)
    BY <1>8, <1>9, <2>1, <2>5 DEF IsReversing, View
  <2>2. (Answered(i)' <=> Answered(i)) /\ (IsReversing(i)' <=> IsReversing(i))
        /\ (Unread(i) => Unread(i)')
    BY <2>1, <2>6 DEF Answered, Unread, Unanswered
  <2>3. CASE settle.inv = i
    <3>1. rows'[i] # "REVERSING"
      BY <1>2, <2>1, <2>3 DEF SettleInv, RowHasRequest
    <3> QED
      BY <1>1, <2>2, <3>1 DEF Held
  <2>4. CASE settle.inv # i
    <3>1. ~BeingSettled(i) /\ rows'[i] = rows[i]
      BY <1>2, <2>1, <2>4 DEF BeingSettled
    <3> QED
      BY <1>1, <2>2, <3>1 DEF Held
  <2> QED
    BY <2>3, <2>4
<1>6. ~SaveReplyError
  BY InvoiceAssumption DEF SaveReplyError, Failure, Inv, TypeOK
<1>7. CASE CommitReply \/ Rebalance
  <2>1. /\ UNCHANGED <<items, rows, replies, settle>> /\ settle = Idle
        /\ replyPos' \in Nat /\ replyPos' <= replyPos
    BY <1>2, <1>7 DEF CommitReply, Rebalance, requestVars
  <2>2. ~BeingSettled(i) /\ (Answered(i)' <=> Answered(i)) /\ (IsReversing(i)' <=> IsReversing(i))
    BY <1>8, <2>1 DEF BeingSettled, Answered, IsReversing, View
  <2>3. Unanswered(i) => Unanswered(i)'
    <3>1. \A k \in 1 .. replyPos' - 1 : k \in 1 .. replyPos - 1
      <4>1. replyPos >= replyPos'
        BY <1>2, <2>1
      <4> QED
        BY <1>2, <2>1, <4>1, Below
    <3> QED
      BY <2>1, <3>1 DEF Unanswered
  <2> QED
    BY <1>1, <2>1, <2>2, <2>3 DEF Held, Unread
<1> QED
  BY <1>3, <1>4, <1>5, <1>6, <1>7 DEF ReplyStep

LEMMA HeldByAnswer ==
  ASSUME Inv, SettleInv, NEW i \in Invoice, NEW r \in Request, Only(r, i), Held(r, i),
         NEW m \in Reply, Answer(m)
  PROVE  Held(r, i)'
<1>1. /\ UNCHANGED <<req, items, loading, rows, replyPos, replyCommitted, settle>>
      /\ replies' = Append(replies, m) /\ Requests("reverse", m.inv) \cap published # {}
  BY DEF Answer, requestVars
<1>2. /\ replies \in Seq(Reply) /\ replyPos \in 1 .. Len(replies) + 1
      /\ replyCommitted \in 1 .. replyPos /\ Len(replies) \in Nat
  BY DEF Inv, TypeOK
<1>3. /\ \A k \in 1 .. replyPos - 1 : k \in 1 .. Len(replies)
      /\ \A k \in 1 .. replyCommitted - 1 : k \in 1 .. Len(replies)
      /\ \A k \in 1 .. Len(replies) : replies'[k] = replies[k]
  BY <1>1, <1>2
<1>4. (Unread(i) => Unread(i)') /\ (BeingSettled(i) => BeingSettled(i)')
      /\ (IsReversing(i)' <=> IsReversing(i))
  BY <1>1, <1>3 DEF Unread, Unanswered, BeingSettled, IsReversing, View
<1>5. CASE m.inv = i
  <2>1. req[r].at = "done"
    BY <1>1, <1>5 DEF Only, SettleInv, AnswerHasRequest
  <2> QED
    BY <1>1, <1>4, <2>1 DEF Held
<1>6. CASE m.inv # i
  <2>1. Answered(i)' => Answered(i)
    BY <1>1, <1>2, <1>6 DEF Answered
  <2> QED
    BY <1>1, <1>4, <2>1 DEF Held
<1> QED
  BY <1>5, <1>6

(* The process stops: the map will be filled from the table, and the        *)
(* answers are read from the committed offset.                              *)
LEMMA HeldByCrash ==
  ASSUME Inv, OnePod, NEW i \in Invoice, NEW r \in Request, Only(r, i), Held(r, i),
         NEW q \in Pod, Crash(q)
  PROVE  Held(r, i)'
<1>1. Pod = {q}
  BY DEF OnePod
<1>2. /\ UNCHANGED <<rows, replies, replyCommitted>> /\ replyPos' = replyCommitted /\ settle' = Idle
      /\ loading' = [loading EXCEPT ![q] = Finding]
      /\ req' = [s \in Request |->
                   IF Running(s) /\ req[s].pod = q THEN [req[s] EXCEPT !.at = "lost"] ELSE req[s]]
  BY <1>1 DEF Crash, Restarted, Inv, TypeOK
<1>3. req[r] \in Begun /\ req[r].pod = q
  <2>1. req[r].at # "new"
    BY NewIsNew DEF Only, Requests, Inv
  <2> QED
    BY <1>1, <2>1, RequestIsTyped DEF Inv
<1>4. req'[r].at \notin {"save", "publish"}
  BY <1>2, <1>3 DEF Running, Begun
<1>5. ASSUME rows'[i] = "REVERSING" PROVE Unread(i)'
  <2>1. Unread(i) \/ BeingSettled(i)
    BY <1>2, <1>5 DEF Held
  <2>2. \A k \in 1 .. replyCommitted - 1 : replies[k].inv # i
    BY <2>1 DEF Unread, Unanswered, BeingSettled, Inv, TypeOK
  <2>3. \A p \in Pod : View(p)'[i] = "REVERSING"
    BY <1>1, <1>2, <1>5 DEF View, Finding, Idle, Inv, TypeOK
  <2> QED
    BY <1>2, <2>2, <2>3 DEF Unread, Unanswered, IsReversing
<1> QED
  BY <1>4, <1>5 DEF Held

(* The process fills its map: what it will have, it gets. *)
LEMMA HeldByLoading ==
  ASSUME Inv, Path, OnePod, NEW i \in Invoice, NEW r \in Request, Held(r, i),
         NEW q \in Pod, ReadRows(q) \/ FillItems(q)
  PROVE  Held(r, i)'
<1>1. Pod = {q}
  BY DEF OnePod
<1>2. UNCHANGED <<rows, req, replies, replyPos, replyCommitted, settle>>
  BY DEF ReadRows, FillItems
<1>3. CASE ReadRows(q)
  <2>1. loading[q] = Finding /\ loading'[q] = Found(rows)
    BY <1>3 DEF ReadRows, Inv, TypeOK
  <2>2. View(q) = rows /\ View(q)' = rows
    BY <2>1 DEF View, Finding, Found, Idle
  <2>3. IsReversing(i) => IsReversing(i)'
    BY <1>1, <2>2 DEF IsReversing
  <2> QED
    BY <1>2, <2>3, HeldStays
<1>4. CASE FillItems(q)
  <2>1. loading[q].at = "found" /\ loading'[q] = Idle /\ items'[q] = loading[q].rows
    BY <1>4 DEF FillItems, Inv, TypeOK
  <2>2. View(q)' = View(q)
    BY <2>1 DEF View, Idle
  <2>3. IsReversing(i) => IsReversing(i)'
    BY <1>1, <2>2 DEF IsReversing
  <2> QED
    BY <1>2, <2>3, HeldStays
<1> QED
  BY <1>3, <1>4

LEMMA MissedStays ==
  ASSUME [Next]_vars
  PROVE  missed \subseteq missed'
  BY DEF Next, Step, ReplyStep, CreateDraft, Send, Pay, Reverse, Deliver, Issue, Refuse, SetSent,
     Save, Publish, Fail, SkipReply, HandleReply, SaveReply, SaveReplyError, CommitReply,
     Rebalance, Answer, Crash, Restarted, ReadRows, FillItems, replyVars, vars

LEMMA SettleStep ==
  OnePod /\ Inv /\ Path /\ SettleInv /\ [Next]_vars => SettleInv'
<1> SUFFICES ASSUME OnePod, Inv, Path, SettleInv, [Next]_vars PROVE SettleInv'
  OBVIOUS
<1>1. FewRequests'
  BY FewStay DEF Path
<1>2. ReversalIsSettled'
  <2> SUFFICES ASSUME NEW i \in Invoice, NEW r \in Request, failures' = 0, SentOnce(i)',
                      Only(r, i)', i \notin missed'
               PROVE  Held(r, i)'
    BY DEF ReversalIsSettled
  <2>1. failures = 0 /\ failures' = failures
    <3>1. failures' = failures \/ failures' = failures + 1
      BY DEF Next, Step, ReplyStep, CreateDraft, Send, Pay, Reverse, Deliver, Issue, Refuse, SetSent,
         Save, Publish, Fail, Failure, SkipReply, HandleReply, SaveReply, SaveReplyError, CommitReply,
         Rebalance, Answer, Crash, Restarted, ReadRows, FillItems, vars
    <3>2. failures \in Nat
      BY InvoiceAssumption DEF Inv, TypeOK
    <3> QED
      BY <3>1, <3>2
  <2>2. SentOnce(i)
    BY <1>1, SentOnceBefore DEF Inv
  <2>3. CASE Only(r, i)
    <3>1. Held(r, i)
      BY <2>1, <2>2, <2>3, MissedStays DEF SettleInv, ReversalIsSettled
    <3>2. CASE UNCHANGED vars
      <4>1. IsReversing(i) => IsReversing(i)'
        BY <3>2 DEF vars, IsReversing, View
      <4> QED
        BY <3>1, <3>2, <4>1, HeldStays DEF vars
    <3> QED
      BY <2>1, <2>2, <2>3, <3>1, <3>2, HeldByRequest, HeldByReply, HeldByAnswer, HeldByCrash,
         HeldByLoading DEF Next
  <2>4. ASSUME Requests("reverse", i) = {}, NEW p \in Pod, Reverse(r, i, p)
        PROVE  Held(r, i)'
    <3>1. /\ UNCHANGED <<rows, replies, loading>> /\ loading[p] = Idle
          /\ items' = [items EXCEPT ![p][i] = "REVERSING"]
      BY <2>4 DEF Reverse, Begin, replyVars
    <3>2. ~Answered(i) /\ rows[i] # "REVERSING"
      BY <2>4 DEF SettleInv, AnswerHasRequest, RowHasRequest
    <3>3. IsReversing(i)'
      BY <3>1 DEF OnePod, IsReversing, View, Inv, TypeOK
    <3> QED
      BY <3>1, <3>2, <3>3 DEF Held, Answered
  <2> QED
    BY <2>3, <2>4, OnlyBefore
<1> QED
  BY <1>2, RequestOfAnswer, RequestOfRow DEF SettleInv

(* In one process, whatever requests, answers, restarts and rebalances come *)
(* together: an invoice that is sent once and whose one reversal is answered *)
(* does not stay REVERSING in the table when everything has come to rest,   *)
(* unless an answer about it was read before the map was filled.            *)
THEOREM AnswersSettle == OnePod /\ Spec => []AnsweredIsSettled
<1>1. Inv /\ Path /\ SettleInv => AnsweredIsSettled
  <2> SUFFICES ASSUME Inv, Path, SettleInv, Quiescent, failures = 0, NEW i \in Invoice,
                      i \notin missed, SentOnce(i), Answered(i),
                      Cardinality(Requests("reverse", i)) = 1
               PROVE  rows[i] # "REVERSING"
    BY DEF AnsweredIsSettled, Settles
  <2>1. IsFiniteSet(Requests("reverse", i))
    BY FS_Subset DEF Path, FewRequests, Requests
  <2>2. PICK r : Requests("reverse", i) = {r}
    BY <2>1, FS_Singleton
  <2>3. r \in Request /\ Only(r, i)
    BY <2>2 DEF Only, Requests
  <2>4. Held(r, i)
    BY <2>3 DEF SettleInv, ReversalIsSettled
  <2>5. ~Unread(i)
    BY DEF Quiescent, Answered, Unread, Unanswered, Inv, TypeOK
  <2>6. ~BeingSettled(i)
    BY DEF Quiescent, BeingSettled
  <2> QED
    BY <2>4, <2>5, <2>6 DEF Held
<1>2. OnePod /\ Inv /\ Path /\ SettleInv /\ [Next]_vars => SettleInv'
  BY SettleStep
<1>3. CASE OnePod
  BY <1>1, <1>2, <1>3, InvInit, PathInit, SettleInit, PathIsKept, PTL DEF Spec
<1> QED
  BY <1>3
-----------------------------------------------------------------------------
(***************************************************************************)
(* The stock that invoices issue from: the theorems of Inventory, for any  *)
(* requests, quantities, costs and faults.                                 *)
(*                                                                         *)
(* Fractions have their least denominator, so that equal fractions are     *)
(* equal and Plus is commutative and associative; a sum over a finite set  *)
(* is then the same in every order.  StockInv says, until the first        *)
(* restart, that a request that waits has not moved the stock yet, and that*)
(* quantity times average is the sum over the movements.  RestartInv says, *)
(* for ever, that the item is the fold of the movements in the order of    *)
(* createdAt, and that rows are of movements in the map.                   *)
(***************************************************************************)
Fractions == [num : Int, den : Nat \ {0}]

LEMMA Cancel ==
  ASSUME NEW x \in Int, NEW y \in Int, NEW d \in Nat \ {0}, x * d = y * d
  PROVE  x = y
<1>1. CASE x < y
  <2>1. y - x \in Nat \ {0} /\ (y - x) * d = 0
    BY <1>1
  <2> QED
    BY <2>1
<1>2. CASE y < x
  <2>1. x - y \in Nat \ {0} /\ (x - y) * d = 0
    BY <1>2
  <2> QED
    BY <2>1
<1> QED
  BY <1>1, <1>2

LEMMA Divided ==
  ASSUME NEW x \in Int, NEW d \in Nat \ {0}
  PROVE  /\ (x \div d) \in Int /\ x % d \in 0 .. d - 1
         /\ x = (x \div d) * d + (x % d)
  OBVIOUS

LEMMA Multiple ==
  ASSUME NEW x \in Int, NEW d \in Nat \ {0}
  PROVE  /\ x % d = 0 => (x \div d) \in Int /\ (x \div d) * d = x
         /\ \A m \in Int : x = m * d => x % d = 0
<1>1. /\ (x \div d) \in Int /\ x % d \in 0 .. d - 1
      /\ x = (x \div d) * d + (x % d)
  BY Divided
<1> DEFINE k == x \div d
           r == x % d
<1>2. k \in Int /\ r \in 0 .. d - 1 /\ x = k * d + r
  BY <1>1
<1> HIDE DEF k, r
<1>3. r = 0 => k * d = x
  BY <1>2
<1>4. ASSUME NEW m \in Int, x = m * d PROVE r = 0
  <2> DEFINE z == m - k
  <2>1. z \in Int /\ z * d = r
    BY <1>2, <1>4
  <2> HIDE DEF z
  <2>2. CASE z >= 1
    <3>1. z - 1 \in Nat /\ (z - 1) * d \in Nat
      BY <2>1, <2>2
    <3>2. z * d = (z - 1) * d + d
      BY <2>1
    <3> QED
      BY <1>2, <2>1, <3>1, <3>2
  <2>3. CASE z <= -1
    <3>1. -z - 1 \in Nat /\ (-z - 1) * d \in Nat
      BY <2>1, <2>3
    <3>2. z * d = -((-z - 1) * d) - d
      BY <2>1
    <3> QED
      BY <1>2, <2>1, <3>1, <3>2
  <2>4. CASE z = 0
    BY <2>1, <2>4
  <2> QED
    BY <2>1, <2>2, <2>3, <2>4
<1> QED
  BY <1>2, <1>3, <1>4 DEF k, r

LEMMA NatProduct ==
  ASSUME NEW x \in Nat, NEW y \in Nat
  PROVE  x * y \in Nat /\ (x # 0 /\ y # 0 => x * y # 0)
  OBVIOUS

LEMMA DenominatorExists ==
  ASSUME NEW n \in Int, NEW d \in Nat \ {0}
  PROVE  /\ LeastDenominator(n, d) \in 1 .. d
         /\ IsDenominator(LeastDenominator(n, d), n, d)
         /\ \A h \in 1 .. LeastDenominator(n, d) - 1 : ~IsDenominator(h, n, d)
<1> DEFINE C == {q \in 1 .. d : IsDenominator(q, n, d)}
           R == OpToRel(<, Nat)
<1>1. IsWellFoundedOn(R, Nat)
  BY NatLessThanWellFounded
<1>2. \A i, j \in Nat : i < j => <<i, j>> \in R
  BY DEF OpToRel
<1>3. d \in C
  <2>1. (n * d) % d = 0
    BY Multiple
  <2> QED
    BY <2>1 DEF IsDenominator
<1>4. C \subseteq Nat
  OBVIOUS
<1> HIDE DEF R, C
<1>5. PICK q \in C : \A h \in C : ~(<<h, q>> \in R)
  BY <1>1, <1>3, <1>4, WFMin
<1>6. q \in 1 .. d /\ IsDenominator(q, n, d)
  BY <1>5 DEF C
<1>7. ASSUME NEW h \in 1 .. q - 1 PROVE ~IsDenominator(h, n, d)
  <2>1. h \in 1 .. d /\ h < q /\ h \in Nat /\ q \in Nat
    BY <1>6
  <2>2. h \notin C
    BY <1>2, <1>5, <2>1
  <2> QED
    BY <2>1, <2>2 DEF C
<1> QED
  BY <1>6, <1>7 DEF LeastDenominator

LEMMA FracIs ==
  ASSUME NEW n \in Int, NEW d \in Nat \ {0}
  PROVE  /\ Frac(n, d) \in Fractions
         /\ Frac(n, d).den = LeastDenominator(n, d)
         /\ Frac(n, d).num * d = n * Frac(n, d).den
<1> DEFINE q == LeastDenominator(n, d)
           m == (n * q) \div d
<1>1. q \in 1 .. d /\ (n * q) % d = 0
  BY DenominatorExists DEF IsDenominator
<1>2. Frac(n, d) = [num |-> m, den |-> q]
  <2>1. Abs(d) = d /\ ~(d < 0)
    BY DEF Abs
  <2>2. 1 * n = n
    OBVIOUS
  <2> HIDE DEF q
  <2>3. Frac(n, d) = [num |-> (1 * n * q) \div d, den |-> q]
    BY <2>1 DEF Frac, q
  <2> QED
    BY <2>2, <2>3
<1> HIDE DEF q
<1>3. m \in Int /\ m * d = n * q
  BY <1>1, Multiple
<1> HIDE DEF m
<1>4. /\ Frac(n, d).num = m /\ Frac(n, d).den = q
      /\ Frac(n, d) \in Fractions
  BY <1>1, <1>2, <1>3 DEF Fractions
<1> QED
  BY <1>3, <1>4 DEF q

LEMMA FracIsNat ==
  ASSUME NEW n \in Nat, NEW d \in Nat \ {0}
  PROVE  Frac(n, d).num \in Nat
<1> DEFINE f == Frac(n, d)
<1>1. f.num \in Int /\ f.den \in Nat \ {0} /\ f.num * d = n * f.den
  BY FracIs DEF Fractions
<1> DEFINE a == f.num
           b == f.den
<1>2. a \in Int /\ b \in Nat \ {0} /\ a * d = n * b
  BY <1>1
<1> HIDE DEF f, a, b
<1>3. n * b \in Nat
  BY <1>2, NatProduct
<1>4. ASSUME a < 0 PROVE FALSE
  <2>1. -a - 1 \in Nat
    BY <1>2, <1>4
  <2>2. (-a - 1) * d \in Nat
    BY <2>1
  <2>3. a * d = -((-a - 1) * d) - d
    BY <1>2
  <2> QED
    BY <1>2, <1>3, <2>2, <2>3
<1> QED
  BY <1>2, <1>4 DEF a, f

(* A fraction has no smaller denominator than that of Frac.                 *)
LEMMA FracIsLeast ==
  ASSUME NEW n \in Int, NEW d \in Nat \ {0}, NEW q \in Nat \ {0}, NEW m \in Int,
         n * q = m * d
  PROVE  LeastDenominator(n, d) <= q
<1> DEFINE p == LeastDenominator(n, d)
<1>1. p \in 1 .. d /\ \A h \in 1 .. p - 1 : ~IsDenominator(h, n, d)
  BY DenominatorExists
<1>2. IsDenominator(q, n, d)
  BY Multiple DEF IsDenominator
<1> HIDE DEF p
<1> QED
  BY <1>1, <1>2 DEF p

(* Equal fractions are equal records.                                       *)
LEMMA FracEqual ==
  ASSUME NEW n \in Int, NEW d \in Nat \ {0}, NEW k \in Int, NEW e \in Nat \ {0},
         n * e = k * d
  PROVE  Frac(n, d) = Frac(k, e)
<1> DEFINE q == LeastDenominator(n, d)
           p == LeastDenominator(k, e)
           a == Frac(n, d).num
           b == Frac(k, e).num
<1>1. /\ Frac(n, d) = [num |-> a, den |-> q] /\ a \in Int /\ q \in Nat \ {0}
      /\ a * d = n * q
  BY FracIs DEF Fractions
<1>2. /\ Frac(k, e) = [num |-> b, den |-> p] /\ b \in Int /\ p \in Nat \ {0}
      /\ b * e = k * p
  BY FracIs DEF Fractions
<1> HIDE DEF q, p, a, b
<1>3. k * q = a * e
  <2>1. (k * q) * d = (a * e) * d
    <3>1. (k * q) * d = (k * d) * q
      BY <1>1
    <3>2. (k * d) * q = (n * e) * q
      OBVIOUS
    <3>3. (n * e) * q = (n * q) * e
      BY <1>1
    <3>4. (n * q) * e = (a * d) * e
      BY <1>1
    <3>5. (a * d) * e = (a * e) * d
      BY <1>1
    <3> QED
      BY <3>1, <3>2, <3>3, <3>4, <3>5
  <2>2. k * q \in Int /\ a * e \in Int
    BY <1>1
  <2> HIDE <1>1, <1>2
  <2> QED
    BY <2>1, <2>2, Cancel
<1>4. n * p = b * d
  <2>1. (n * p) * e = (b * d) * e
    <3>1. (n * p) * e = (n * e) * p
      BY <1>2
    <3>2. (n * e) * p = (k * d) * p
      OBVIOUS
    <3>3. (k * d) * p = (k * p) * d
      BY <1>2
    <3>4. (k * p) * d = (b * e) * d
      BY <1>2
    <3>5. (b * e) * d = (b * d) * e
      BY <1>2
    <3> QED
      BY <3>1, <3>2, <3>3, <3>4, <3>5
  <2>2. n * p \in Int /\ b * d \in Int
    BY <1>2
  <2> QED
    BY <2>1, <2>2, Cancel
<1>5. p <= q
  BY <1>1, <1>3, FracIsLeast DEF p
<1>6. q <= p
  BY <1>2, <1>4, FracIsLeast DEF q
<1>7. p = q
  BY <1>1, <1>2, <1>5, <1>6
<1>8. b * e = a * e
  BY <1>2, <1>3, <1>7
<1>9. a = b
  BY <1>1, <1>2, <1>8, Cancel
<1> QED
  BY <1>1, <1>2, <1>7, <1>9

LEMMA PlusIs ==
  ASSUME NEW a \in Fractions, NEW b \in Fractions
  PROVE  /\ Plus(a, b) \in Fractions /\ Plus(a, b) = Plus(b, a)
         /\ a.num \in Nat /\ b.num \in Nat => Plus(a, b).num \in Nat
<1>1. a.num \in Int /\ b.num \in Int /\ a.den \in Nat \ {0} /\ b.den \in Nat \ {0}
  BY DEF Fractions
<1> DEFINE n == a.num * b.den + b.num * a.den
           d == a.den * b.den
<1>2. n \in Int /\ d \in Nat \ {0}
  BY <1>1, NatProduct
<1>3. n = b.num * a.den + a.num * b.den /\ d = b.den * a.den
  BY <1>1
<1>4. a.num \in Nat /\ b.num \in Nat => n \in Nat
  BY <1>1, NatProduct
<1>5. Plus(a, b) = Frac(n, d) /\ Plus(b, a) = Frac(n, d)
  <2>1. Plus(b, a) = Frac(b.num * a.den + a.num * b.den, b.den * a.den)
    BY DEF Plus
  <2> QED
    BY <2>1, <1>3 DEF Plus
<1> HIDE DEF n, d
<1>6. Frac(n, d) \in Fractions
  BY <1>2, FracIs
<1>7. n \in Nat => Frac(n, d).num \in Nat
  BY <1>2, FracIsNat
<1> QED
  BY <1>4, <1>5, <1>6, <1>7

LEMMA PlusFrac ==
  ASSUME NEW n \in Int, NEW d \in Nat \ {0}, NEW c \in Fractions
  PROVE  Plus(Frac(n, d), c) = Frac(n * c.den + c.num * d, d * c.den)
<1> DEFINE x == Frac(n, d).num
           y == Frac(n, d).den
           u == c.num
           v == c.den
<1>1. x \in Int /\ y \in Nat \ {0} /\ x * d = n * y
  BY FracIs DEF Fractions
<1>2. u \in Int /\ v \in Nat \ {0}
  BY DEF Fractions
<1>3. Plus(Frac(n, d), c) = Frac(x * v + u * y, y * v)
  BY DEF Plus
<1> HIDE DEF x, y, u, v
<1>4. (x * v + u * y) * (d * v) = (n * v + u * d) * (y * v)
  <2>1. (x * v + u * y) * (d * v) = (x * d) * (v * v) + (u * y) * (d * v)
    BY <1>1, <1>2
  <2>2. (n * y) * (v * v) + (u * y) * (d * v) = (n * v + u * d) * (y * v)
    BY <1>1, <1>2
  <2> QED
    BY <1>1, <2>1, <2>2
<1>5. /\ x * v + u * y \in Int /\ n * v + u * d \in Int
      /\ d * v \in Nat \ {0} /\ y * v \in Nat \ {0}
  BY <1>1, <1>2, NatProduct
<1>6. Frac(x * v + u * y, y * v) = Frac(n * v + u * d, d * v)
  BY <1>4, <1>5, FracEqual
<1> QED
  BY <1>3, <1>6 DEF u, v

LEMMA PlusAssociates ==
  ASSUME NEW a \in Fractions, NEW b \in Fractions, NEW c \in Fractions
  PROVE  Plus(Plus(a, b), c) = Plus(a, Plus(b, c))
<1> DEFINE i == a.num
           p == a.den
           j == b.num
           q == b.den
           k == c.num
           r == c.den
<1>1. i \in Int /\ j \in Int /\ k \in Int /\ p \in Nat \ {0} /\ q \in Nat \ {0} /\ r \in Nat \ {0}
  BY DEF Fractions
<1>2. /\ Plus(a, b) = Frac(i * q + j * p, p * q)
      /\ Plus(b, c) = Frac(j * r + k * q, q * r)
  BY DEF Plus
<1>3. Plus(a, Plus(b, c)) = Plus(Plus(b, c), a)
  BY PlusIs
<1> HIDE DEF i, j, k, p, q, r
<1>4. /\ i * q + j * p \in Int /\ p * q \in Nat \ {0}
      /\ j * r + k * q \in Int /\ q * r \in Nat \ {0}
  BY <1>1, NatProduct
<1>5. Plus(Frac(i * q + j * p, p * q), c) = Frac((i * q + j * p) * r + k * (p * q), (p * q) * r)
  BY <1>4, PlusFrac DEF k, r
<1>6. Plus(Frac(j * r + k * q, q * r), a) = Frac((j * r + k * q) * p + i * (q * r), (q * r) * p)
  BY <1>4, PlusFrac DEF i, p
<1>7. /\ (i * q + j * p) * r + k * (p * q) = (j * r + k * q) * p + i * (q * r)
      /\ (p * q) * r = (q * r) * p
  BY <1>1
<1> QED
  BY <1>2, <1>3, <1>5, <1>6, <1>7

LEMMA TimesIs ==
  ASSUME NEW k \in Int, NEW a \in Fractions
  PROVE  /\ Times(k, a) \in Fractions
         /\ k \in Nat /\ a.num \in Nat => Times(k, a).num \in Nat
<1>1. k * a.num \in Int /\ a.den \in Nat \ {0}
  BY DEF Fractions
<1>2. k \in Nat /\ a.num \in Nat => k * a.num \in Nat
  BY NatProduct
<1>3. Frac(k * a.num, a.den) \in Fractions
  BY <1>1, FracIs
<1>4. k * a.num \in Nat => Frac(k * a.num, a.den).num \in Nat
  BY <1>1, FracIsNat
<1> QED
  BY <1>2, <1>3, <1>4 DEF Times

LEMMA OverIs ==
  ASSUME NEW a \in Fractions, NEW k \in Nat \ {0}
  PROVE  /\ Over(a, k) \in Fractions
         /\ a.num \in Nat => Over(a, k).num \in Nat
<1>1. a.num \in Int /\ a.den \in Nat \ {0} /\ a.den * k \in Nat \ {0}
  BY NatProduct DEF Fractions
<1>2. Frac(a.num, a.den * k) \in Fractions
  BY <1>1, FracIs
<1>3. a.num \in Nat => Frac(a.num, a.den * k).num \in Nat
  BY <1>1, FracIsNat
<1> QED
  BY <1>2, <1>3 DEF Over

(* What a receipt makes of the value, divided and multiplied again.         *)
LEMMA TimesOver ==
  ASSUME NEW a \in Fractions, NEW b \in Fractions, NEW k \in Nat \ {0}
  PROVE  Times(k, Over(Plus(a, b), k)) = Plus(a, b)
<1> DEFINE n == a.num * b.den + b.num * a.den
           d == a.den * b.den
           c == Plus(a, b)
           f == Over(c, k)
<1>1. n \in Int /\ d \in Nat \ {0}
  BY NatProduct DEF Fractions
<1>2. c = Frac(n, d) /\ c \in Fractions
  BY PlusIs DEF Plus
<1> HIDE DEF n, d, c
<1>3. c.num \in Int /\ c.den \in Nat \ {0} /\ c.num * d = n * c.den
  <2>1. Frac(n, d).num * d = n * Frac(n, d).den
    BY <1>1, FracIs
  <2> QED
    BY <1>2, <2>1 DEF Fractions
<1>4. Frac(c.num, c.den) = Frac(n, d)
  BY <1>1, <1>3, FracEqual
<1>5. f.num \in Int /\ f.den \in Nat \ {0} /\ f.num * (c.den * k) = c.num * f.den
  <2>1. c.den * k \in Nat \ {0}
    BY <1>3, NatProduct
  <2>2. /\ Frac(c.num, c.den * k) \in Fractions
        /\ Frac(c.num, c.den * k).num * (c.den * k) = c.num * Frac(c.num, c.den * k).den
    BY <1>3, <2>1, FracIs
  <2> QED
    BY <2>2 DEF Over, Fractions
<1> DEFINE x == f.num
           y == f.den
           i == c.num
           j == c.den
<1>6. /\ x \in Int /\ y \in Nat \ {0} /\ x * (j * k) = i * y
      /\ i \in Int /\ j \in Nat \ {0}
  BY <1>3, <1>5
<1>7. Times(k, f) = Frac(k * x, y) /\ Frac(i, j) = c
  BY <1>2, <1>4 DEF Times
<1> HIDE DEF f, x, y, i, j
<1>8. (k * x) * j = i * y /\ k * x \in Int
  <2>1. (k * x) * j = x * (j * k)
    BY <1>6
  <2> QED
    BY <1>6, <2>1
<1>9. Frac(k * x, y) = Frac(i, j)
  BY <1>6, <1>8, FracEqual
<1> QED
  BY <1>7, <1>9 DEF f, c

LEMMA TimesAdds ==
  ASSUME NEW q \in Int, NEW k \in Int, NEW a \in Fractions
  PROVE  Times(q + k, a) = Plus(Times(q, a), Times(k, a))
<1> DEFINE n == a.num
           d == a.den
           c == Times(k, a)
           x == c.num
           y == c.den
<1>1. n \in Int /\ d \in Nat \ {0} /\ q * n \in Int /\ k * n \in Int
  BY DEF Fractions
<1>2. c \in Fractions
  BY TimesIs
<1>3. c = Frac(k * n, d) /\ Times(q, a) = Frac(q * n, d) /\ Times(q + k, a) = Frac((q + k) * n, d)
  BY DEF Times
<1> HIDE DEF n, d, c
<1>4. Plus(Frac(q * n, d), c) = Frac((q * n) * y + x * d, d * y)
  BY <1>1, <1>2, PlusFrac
<1>5. x \in Int /\ y \in Nat \ {0} /\ x * d = (k * n) * y
  <2>1. Frac(k * n, d).num * d = (k * n) * Frac(k * n, d).den
    BY <1>1, FracIs
  <2> QED
    BY <1>2, <1>3, <2>1 DEF Fractions
<1> HIDE DEF x, y
<1>6. ((q * n) * y + x * d) * d = ((q + k) * n) * (d * y)
  <2>1. ((q * n) * y + x * d) * d = ((q * n) * y + (k * n) * y) * d
    BY <1>5
  <2>2. ((q * n) * y + (k * n) * y) * d = ((q + k) * n) * (d * y)
    BY <1>1, <1>5
  <2> QED
    BY <2>1, <2>2
<1>7. /\ (q * n) * y + x * d \in Int /\ (q + k) * n \in Int
      /\ d * y \in Nat \ {0}
  BY <1>1, <1>5, NatProduct
<1>8. Frac((q * n) * y + x * d, d * y) = Frac((q + k) * n, d)
  BY <1>1, <1>6, <1>7, FracEqual
<1> QED
  BY <1>3, <1>4, <1>8 DEF c

LEMMA ZeroIs == Zero \in Fractions /\ Zero.num \in Nat /\ Zero = Frac(0, 1)
<1>1. Frac(0, 1) \in Fractions
  BY FracIs
<1>2. Frac(0, 1).num \in Nat
  BY FracIsNat
<1> QED
  BY <1>1, <1>2 DEF Zero

LEMMA PlusSwaps ==
  ASSUME NEW a \in Fractions, NEW b \in Fractions, NEW c \in Fractions
  PROVE  Plus(a, Plus(b, c)) = Plus(b, Plus(a, c))
<1>1. Plus(a, Plus(b, c)) = Plus(Plus(a, b), c)
  BY PlusAssociates
<1>2. Plus(b, Plus(a, c)) = Plus(Plus(b, a), c)
  BY PlusAssociates
<1>3. Plus(a, b) = Plus(b, a)
  BY PlusIs
<1> QED
  BY <1>1, <1>2, <1>3

-----------------------------------------------------------------------------
(* Two folds: sums of fractions over a set, for a function g on it, and      *)
(* what a table makes of an item.                                           *)
Base(f) == IF f = "sum" THEN Zero ELSE EmptyItem
Op(f, x, y) == IF f = "sum" THEN Plus(x, y) ELSE Applied(y, x)
Choice(f, s) == IF f = "sum" THEN CHOOSE m \in s : TRUE ELSE Seqs!Max(s)

Body(f, g, S, h) ==
    [s \in SUBSET S |-> IF s = {} THEN Base(f)
                        ELSE Op(f, g[Choice(f, s)], h[s \ {Choice(f, s)}])]

Iter(f, g, S) == CHOOSE h : h = Body(f, g, S, h)

Chooses(f, S) == \A s \in SUBSET S : s # {} => Choice(f, s) \in s

Sum(g, S) == Seqs!MapThenFoldSet(Plus, Zero, LAMBDA e : g[e], LAMBDA s : CHOOSE m \in s : TRUE, S)

LEMMA SumIsIter == \A g, S : Sum(g, S) = Iter("sum", g, S)[S]
  BY DEF Sum, Seqs!MapThenFoldSet, Body, Iter, Base, Op, Choice

LEMMA ReplayIsIter == \A t : Replay(t) = Iter("replay", t, DOMAIN t)[DOMAIN t]
  BY DEF Replay, Seqs!FoldLeft, Seqs!MapThenFoldSet, Body, Iter, Base, Op, Choice

(* A family of finite sets has a smallest one.                              *)
LEMMA SmallestExists ==
  ASSUME NEW C, C # {}, \A s \in C : IsFiniteSet(s)
  PROVE  \E s \in C : \A t \in C : Cardinality(s) <= Cardinality(t)
<1> DEFINE R == OpToRel(<, Nat)
           Sizes == {Cardinality(s) : s \in C}
<1>1. IsWellFoundedOn(R, Nat)
  BY NatLessThanWellFounded
<1>2. \A i, j \in Nat : i < j => <<i, j>> \in R
  BY DEF OpToRel
<1>3. Sizes \subseteq Nat /\ Sizes # {}
  BY FS_CardinalityType
<1> HIDE DEF R
<1>4. PICK n \in Sizes : \A k \in Sizes : ~(<<k, n>> \in R)
  BY <1>1, <1>3, WFMin
<1>5. PICK s \in C : n = Cardinality(s)
  BY <1>4
<1>6. ASSUME NEW t \in C PROVE Cardinality(s) <= Cardinality(t)
  <2>1. Cardinality(t) \in Sizes /\ Cardinality(t) \in Nat /\ n \in Nat
    BY <1>3
  <2>2. ~(Cardinality(t) < n)
    BY <1>2, <1>4, <2>1
  <2> QED
    BY <1>5, <2>1, <2>2
<1> QED
  BY <1>6

LEMMA Less ==
  ASSUME NEW S, IsFiniteSet(S), NEW x \in S
  PROVE  /\ IsFiniteSet(S \ {x}) /\ Cardinality(S) \in Nat /\ Cardinality(S \ {x}) \in Nat
         /\ Cardinality(S \ {x}) < Cardinality(S)
<1>1. IsFiniteSet(S \ {x}) /\ Cardinality(S \ {x}) = Cardinality(S) - 1
  BY FS_RemoveElement
<1> QED
  BY <1>1, FS_CardinalityType

(* The recursive function of a fold exists: it is built up by the size of  *)
(* its arguments.                                                           *)
Upto(f, g, S, h, n) ==
    /\ h = [s \in SUBSET S |-> h[s]]
    /\ \A s \in SUBSET S : Cardinality(s) <= n =>
         h[s] = IF s = {} THEN Base(f) ELSE Op(f, g[Choice(f, s)], h[s \ {Choice(f, s)}])

LEMMA IterExists ==
  ASSUME NEW f, NEW g, NEW S, IsFiniteSet(S), Chooses(f, S)
  PROVE  Iter(f, g, S) = Body(f, g, S, Iter(f, g, S))
<1>1. \A s \in SUBSET S : IsFiniteSet(s) /\ Cardinality(s) \in Nat /\ Cardinality(s) <= Cardinality(S)
  BY FS_Subset, FS_CardinalityType
<1> DEFINE Bad == {n \in Nat : ~\E h : Upto(f, g, S, h, n)}
<1>2. Bad = {}
  <2> SUFFICES ASSUME Bad # {} PROVE FALSE
    OBVIOUS
  <2> DEFINE R == OpToRel(<, Nat)
  <2>1. IsWellFoundedOn(R, Nat)
    BY NatLessThanWellFounded
  <2>2. \A i, j \in Nat : i < j => <<i, j>> \in R
    BY DEF OpToRel
  <2> HIDE DEF R
  <2>3. PICK n \in Bad : \A k \in Bad : ~(<<k, n>> \in R)
    BY <2>1, WFMin
  <2>4. \A k \in Nat : k < n => \E h : Upto(f, g, S, h, k)
    BY <2>2, <2>3
  <2>5. CASE n = 0
    <3> DEFINE h == [s \in SUBSET S |-> Base(f)]
    <3>1. \A s \in SUBSET S : Cardinality(s) <= 0 => s = {}
      BY <1>1, FS_EmptySet
    <3>2. h = [s \in SUBSET S |-> h[s]]
      OBVIOUS
    <3>3. Upto(f, g, S, h, 0)
      BY <3>1, <3>2 DEF Upto
    <3> HIDE DEF h
    <3> QED
      BY <2>3, <2>5, <3>3
  <2>6. CASE n # 0
    <3>1. n \in Nat /\ n - 1 \in Nat /\ n - 1 < n
      BY <2>3, <2>6
    <3>2. PICK h : Upto(f, g, S, h, n - 1)
      BY <2>4, <3>1
    <3> DEFINE k == [s \in SUBSET S |-> IF Cardinality(s) = n
                                        THEN Op(f, g[Choice(f, s)], h[s \ {Choice(f, s)}]) ELSE h[s]]
    <3>3. ASSUME NEW s \in SUBSET S, Cardinality(s) <= n
          PROVE  k[s] = IF s = {} THEN Base(f) ELSE Op(f, g[Choice(f, s)], k[s \ {Choice(f, s)}])
      <4>1. CASE s = {}
        <5>1. Cardinality(s) = 0
          BY <4>1, FS_EmptySet
        <5> QED
          <6>1. Cardinality(s) <= n - 1 /\ Cardinality(s) # n
            BY <3>1, <2>6, <5>1
          <6>2. k[s] = h[s]
            BY <6>1
          <6> HIDE DEF k
          <6>3. h[s] = Base(f)
            BY <3>2, <4>1, <6>1, Zenon DEF Upto
          <6> QED
            BY <4>1, <6>2, <6>3
      <4>2. CASE s # {}
        <5>1. Choice(f, s) \in s /\ s \ {Choice(f, s)} \in SUBSET S
          BY <4>2 DEF Chooses
        <5>2. Cardinality(s \ {Choice(f, s)}) < Cardinality(s) /\ Cardinality(s \ {Choice(f, s)}) \in Nat
          BY <1>1, <5>1, Less
        <5>3. k[s \ {Choice(f, s)}] = h[s \ {Choice(f, s)}]
          <6>1. Cardinality(s \ {Choice(f, s)}) # n
            BY <1>1, <3>1, <3>3, <5>2
          <6> QED
            BY <5>1, <6>1
        <5>4. CASE Cardinality(s) = n
          BY <4>2, <5>3, <5>4
        <5>5. CASE Cardinality(s) # n
          <6>1. Cardinality(s) <= n - 1
            BY <1>1, <3>1, <3>3, <5>5
          <6>2. k[s] = h[s]
            BY <5>5
          <6>3. h[s] = Op(f, g[Choice(f, s)], h[s \ {Choice(f, s)}])
            BY <3>2, <4>2, <6>1 DEF Upto
          <6> HIDE DEF k
          <6> QED
            BY <4>2, <5>3, <6>2, <6>3
        <5> QED
          BY <5>4, <5>5
      <4> QED
        BY <4>1, <4>2
    <3>4. k = [s \in SUBSET S |-> k[s]]
      OBVIOUS
    <3> HIDE DEF k
    <3>5. Upto(f, g, S, k, n)
      BY <3>3, <3>4 DEF Upto
    <3> QED
      BY <2>3, <3>5
  <2> QED
    BY <2>5, <2>6
<1>3. PICK h : Upto(f, g, S, h, Cardinality(S))
  BY <1>1, <1>2
<1>4. h = Body(f, g, S, h)
  BY <1>1, <1>3, Zenon DEF Upto, Body
<1> QED
  BY <1>4, Zenon DEF Iter

LEMMA IterRec ==
  ASSUME NEW f, NEW g, NEW S, IsFiniteSet(S), Chooses(f, S), NEW s \in SUBSET S
  PROVE  /\ s = {} => Iter(f, g, S)[s] = Base(f)
         /\ s # {} => Iter(f, g, S)[s] = Op(f, g[Choice(f, s)], Iter(f, g, S)[s \ {Choice(f, s)}])
<1>1. Iter(f, g, S) = Body(f, g, S, Iter(f, g, S))
  BY IterExists
<1> DEFINE h == Iter(f, g, S)
<1>2. h = Body(f, g, S, h)
  BY <1>1
<1> HIDE DEF h
<1>3. h[s] = IF s = {} THEN Base(f) ELSE Op(f, g[Choice(f, s)], h[s \ {Choice(f, s)}])
  BY <1>2 DEF Body
<1> QED
  BY <1>3 DEF h

(* A fold over a part does not  depend on the set it is a part of.          *)
LEMMA IterOfPart ==
  ASSUME NEW f, NEW g, NEW S, IsFiniteSet(S), Chooses(f, S), NEW T \in SUBSET S
  PROVE  Iter(f, g, S)[T] = Iter(f, g, T)[T]
<1>1. IsFiniteSet(T) /\ Chooses(f, T)
  BY FS_Subset DEF Chooses
<1> DEFINE C == {s \in SUBSET T : Iter(f, g, S)[s] # Iter(f, g, T)[s]}
<1>2. C = {}
  <2> SUFFICES ASSUME C # {} PROVE FALSE
    OBVIOUS
  <2>1. \A s \in C : IsFiniteSet(s)
    BY <1>1, FS_Subset
  <2>2. PICK s \in C : \A t \in C : Cardinality(s) <= Cardinality(t)
    <3> HIDE DEF C
    <3> QED
      BY <2>1, SmallestExists
  <2>3. s \in SUBSET S /\ s \in SUBSET T /\ IsFiniteSet(s)
    BY <2>1
  <2>4. /\ s = {} => Iter(f, g, S)[s] = Base(f)
        /\ s # {} => Iter(f, g, S)[s] = Op(f, g[Choice(f, s)], Iter(f, g, S)[s \ {Choice(f, s)}])
    BY <2>3, IterRec
  <2>10. /\ s = {} => Iter(f, g, T)[s] = Base(f)
         /\ s # {} => Iter(f, g, T)[s] = Op(f, g[Choice(f, s)], Iter(f, g, T)[s \ {Choice(f, s)}])
    <3>1. s \in SUBSET T
      BY <2>3
    <3> HIDE DEF C
    <3> QED
      BY <1>1, <3>1, IterRec
  <2>11. Iter(f, g, S)[s] # Iter(f, g, T)[s]
    BY <2>2
  <2>5. s # {}
    BY <2>4, <2>10, <2>11, Zenon
  <2>6. Choice(f, s) \in s
    BY <2>3, <2>5 DEF Chooses
  <2>7. /\ Cardinality(s \ {Choice(f, s)}) < Cardinality(s) /\ Cardinality(s \ {Choice(f, s)}) \in Nat
        /\ Cardinality(s) \in Nat
    BY <2>3, <2>6, Less
  <2>8. s \ {Choice(f, s)} \notin C
    BY <2>2, <2>7
  <2>9. Iter(f, g, S)[s \ {Choice(f, s)}] = Iter(f, g, T)[s \ {Choice(f, s)}]
    BY <2>3, <2>8
  <2> QED
    BY <2>2, <2>4, <2>10, <2>5, <2>9
<1> QED
  BY <1>2

Pick(S) == CHOOSE x \in S : TRUE

LEMMA PickIsIn ==
  /\ \A S : S # {} => Pick(S) \in S
  /\ \A S : Chooses("sum", S)
  BY DEF Pick, Chooses, Choice

LEMMA SumOfNone == \A g : Sum(g, {}) = Zero
<1> SUFFICES ASSUME NEW g PROVE Sum(g, {}) = Zero
  OBVIOUS
<1>1. IsFiniteSet({}) /\ {} \in SUBSET {}
  BY FS_EmptySet
<1>2. Chooses("sum", {})
  BY PickIsIn
<1>3. Iter("sum", g, {})[{}] = Base("sum")
  BY <1>1, <1>2, IterRec
<1> QED
  BY <1>3, SumIsIter DEF Base

LEMMA SumOfPick ==
  ASSUME NEW g, NEW S, IsFiniteSet(S), S # {}
  PROVE  Sum(g, S) = Plus(g[Pick(S)], Sum(g, S \ {Pick(S)}))
<1>1. S \in SUBSET S /\ S \ {Pick(S)} \in SUBSET S
  OBVIOUS
<1>2. Iter("sum", g, S)[S] = Plus(g[Pick(S)], Iter("sum", g, S)[S \ {Pick(S)}])
  <2>1. Chooses("sum", S)
    BY PickIsIn
  <2>2. Iter("sum", g, S)[S] = Op("sum", g[Choice("sum", S)], Iter("sum", g, S)[S \ {Choice("sum", S)}])
    BY <1>1, <2>1, IterRec
  <2> QED
    BY <2>2 DEF Op, Choice, Pick
<1>3. Iter("sum", g, S)[S \ {Pick(S)}] = Iter("sum", g, S \ {Pick(S)})[S \ {Pick(S)}]
  BY <1>1, PickIsIn, IterOfPart
<1> QED
  BY <1>2, <1>3, SumIsIter

LEMMA SumIsFraction ==
  ASSUME NEW g, NEW S, IsFiniteSet(S), \A e \in S : g[e] \in Fractions
  PROVE  Sum(g, S) \in Fractions
<1> DEFINE C == {s \in SUBSET S : Sum(g, s) \notin Fractions}
<1>1. C = {}
  <2> SUFFICES ASSUME C # {} PROVE FALSE
    OBVIOUS
  <2>1. \A s \in C : IsFiniteSet(s)
    BY FS_Subset
  <2>2. PICK s \in C : \A t \in C : Cardinality(s) <= Cardinality(t)
    <3> HIDE DEF C
    <3> QED
      BY <2>1, SmallestExists
  <2>3. s # {}
    BY <2>2, SumOfNone, ZeroIs
  <2>4. /\ Pick(s) \in s /\ IsFiniteSet(s)
        /\ Sum(g, s) = Plus(g[Pick(s)], Sum(g, s \ {Pick(s)}))
    BY <2>1, <2>3, PickIsIn, SumOfPick
  <2>5. /\ Cardinality(s \ {Pick(s)}) < Cardinality(s) /\ Cardinality(s \ {Pick(s)}) \in Nat
        /\ Cardinality(s) \in Nat
    BY <2>4, Less
  <2>6. s \ {Pick(s)} \notin C
    BY <2>2, <2>5
  <2>7. Sum(g, s \ {Pick(s)}) \in Fractions /\ g[Pick(s)] \in Fractions
    BY <2>4, <2>6
  <2>8. Plus(g[Pick(s)], Sum(g, s \ {Pick(s)})) \in Fractions
    BY <2>7, PlusIs
  <2> QED
    BY <2>2, <2>4, <2>8
<1> QED
  BY <1>1

(* Whichever element is taken out first.                                    *)
LEMMA SumRemove ==
  ASSUME NEW g, NEW S, IsFiniteSet(S), \A e \in S : g[e] \in Fractions, NEW x \in S
  PROVE  Sum(g, S) = Plus(g[x], Sum(g, S \ {x}))
<1> DEFINE C == {s \in SUBSET S : \E e \in s : Sum(g, s) # Plus(g[e], Sum(g, s \ {e}))}
<1>1. C = {}
  <2> SUFFICES ASSUME C # {} PROVE FALSE
    OBVIOUS
  <2>1. \A s \in C : IsFiniteSet(s)
    BY FS_Subset
  <2>2. PICK s \in C : \A t \in C : Cardinality(s) <= Cardinality(t)
    <3> HIDE DEF C
    <3> QED
      BY <2>1, SmallestExists
  <2>3. PICK e \in s : Sum(g, s) # Plus(g[e], Sum(g, s \ {e}))
    BY <2>2
  <2> DEFINE p == Pick(s)
  <2>4. /\ p \in s /\ IsFiniteSet(s) /\ s \in SUBSET S
        /\ Sum(g, s) = Plus(g[p], Sum(g, s \ {p}))
    BY <2>1, <2>3, PickIsIn, SumOfPick
  <2> HIDE DEF p
  <2>5. e # p
    BY <2>3, <2>4
  <2>6. /\ Cardinality(s \ {p}) < Cardinality(s) /\ Cardinality(s \ {p}) \in Nat
        /\ Cardinality(s \ {e}) < Cardinality(s) /\ Cardinality(s \ {e}) \in Nat
        /\ Cardinality(s) \in Nat /\ IsFiniteSet(s \ {e})
    BY <2>4, Less
  <2>7. s \ {p} \notin C /\ s \ {e} \notin C
    <3> HIDE DEF C
    <3>1. \A t \in C : ~(Cardinality(t) < Cardinality(s) /\ Cardinality(t) \in Nat)
      BY <2>2, <2>6
    <3> QED
      BY <2>6, <3>1
  <2>8. /\ Sum(g, s \ {p}) = Plus(g[e], Sum(g, (s \ {p}) \ {e}))
        /\ Sum(g, s \ {e}) = Plus(g[p], Sum(g, (s \ {e}) \ {p}))
    BY <2>4, <2>5, <2>7
  <2>9. (s \ {p}) \ {e} = (s \ {e}) \ {p}
    OBVIOUS
  <2>10. g[e] \in Fractions /\ g[p] \in Fractions /\ Sum(g, (s \ {e}) \ {p}) \in Fractions
    <3>1. IsFiniteSet((s \ {e}) \ {p}) /\ \A y \in (s \ {e}) \ {p} : g[y] \in Fractions
      BY <2>4, <2>6, FS_Subset
    <3> QED
      BY <2>4, <3>1, SumIsFraction
  <2> DEFINE rest == Sum(g, (s \ {e}) \ {p})
  <2>11. Sum(g, s \ {p}) = Plus(g[e], rest) /\ Sum(g, s \ {e}) = Plus(g[p], rest)
    BY <2>8, <2>9
  <2>12. rest \in Fractions
    BY <2>10
  <2> HIDE DEF C, rest
  <2>13. Sum(g, s) = Plus(g[p], Plus(g[e], rest)) /\ Sum(g, s) # Plus(g[e], Plus(g[p], rest))
    BY <2>3, <2>4, <2>11
  <2>14. Plus(g[p], Plus(g[e], rest)) = Plus(g[e], Plus(g[p], rest))
    <3>1. g[e] \in Fractions /\ g[p] \in Fractions
      BY <2>10
    <3> QED
      BY <2>12, <3>1, PlusSwaps
  <2> QED
    BY <2>13, <2>14
<1> QED
  BY <1>1

LEMMA SumAgree ==
  ASSUME NEW g, NEW k, NEW S, \A e \in S : g[e] = k[e]
  PROVE  Sum(g, S) = Sum(k, S)
<1>1. \A h : Body("sum", g, S, h) = Body("sum", k, S, h)
  BY PickIsIn DEF Body, Chooses
<1>2. \A h : h = Body("sum", g, S, h) <=> h = Body("sum", k, S, h)
  BY <1>1
<1>3. Iter("sum", g, S) = Iter("sum", k, S)
  BY <1>2, Zenon DEF Iter
<1> QED
  BY <1>3, SumIsIter

-----------------------------------------------------------------------------
Cost == {f \in Fractions : f.num \in Nat}

Movement == [type : {"RECEIPT", "ISSUE"}, qty : Nat \ {0}, cost : Cost,
             reversedBy : Mover \cup {None}, createdAt : Nat]

Asked == [at : {"validate", "save", "publish", "saveMark", "done", "lost"},
          type : {"RECEIPT", "ISSUE"}, qty : Nat \ {0}, cost : Cost \cup {None}, of : Mover \cup {None}]

ItemOK == item \in [qty : Nat, avg : Cost]

MovementsOK ==
    /\ DOMAIN movements \subseteq Mover /\ IsFiniteSet(DOMAIN movements)
    /\ movements \in [DOMAIN movements -> Movement]

RequestsOK == stockReq \in [Mover -> {NewRequest} \cup Asked]

(* A request that waits for compliance has made no movement. *)
NotYetMoved == \A r \in Mover : stockReq[r].at \in {"new", "validate"} => r \notin DOMAIN movements

Covered == ItemOK /\ MovementsOK /\ RequestsOK /\ NotYetMoved

StockInv ==
    /\ stockCrashes \in Nat
    /\ stockCrashes = 0 => Covered /\ Times(item.qty, item.avg) = Balance

(* What a movement adds to the balance, and the balance as a sum.           *)
Worth(mv) == Times(IF mv.type = "RECEIPT" THEN mv.qty ELSE -mv.qty, mv.cost)
Worths(ms) == [m \in DOMAIN ms |-> Worth(ms[m])]
BalanceOf(ms) == Sum(Worths(ms), DOMAIN ms)

LEMMA BalanceIsSum ==
  /\ Balance = BalanceOf(movements)
  /\ Balance' = BalanceOf(movements')
<1> DEFINE S == DOMAIN movements
           B(h) == [s \in SUBSET S |-> IF s = {} THEN Zero
                                       ELSE Plus(Worth(movements[Pick(s)]), h[s \ {Pick(s)}])]
           T == DOMAIN movements'
           C(h) == [s \in SUBSET T |-> IF s = {} THEN Zero
                                       ELSE Plus(Worth(movements'[Pick(s)]), h[s \ {Pick(s)}])]
<1>1. \A h : B(h) = Body("sum", Worths(movements), S, h)
  BY PickIsIn DEF Body, Worths, Choice, Pick, Op, Base, Chooses
<1>2. \A h : C(h) = Body("sum", Worths(movements'), T, h)
  BY PickIsIn DEF Body, Worths, Choice, Pick, Op, Base, Chooses
<1>3. Balance = (CHOOSE h : h = B(h))[S]
  BY DEF Balance, Seqs!MapThenFoldSet, Value, Worth, Pick
<1>4. Balance' = (CHOOSE h : h = C(h))[T]
  BY DEF Balance, Seqs!MapThenFoldSet, Value, Worth, Pick
<1>5. (CHOOSE h : h = B(h)) = Iter("sum", Worths(movements), S)
  <2>1. \A h : h = B(h) <=> h = Body("sum", Worths(movements), S, h)
    BY <1>1
  <2> HIDE DEF B, S
  <2> QED
    BY <2>1, Zenon DEF Iter
<1>6. (CHOOSE h : h = C(h)) = Iter("sum", Worths(movements'), T)
  <2>1. \A h : h = C(h) <=> h = Body("sum", Worths(movements'), T, h)
    BY <1>2
  <2> HIDE DEF C, T
  <2> QED
    BY <2>1, Zenon DEF Iter
<1> HIDE DEF B, C
<1> QED
  BY <1>3, <1>4, <1>5, <1>6, SumIsIter DEF BalanceOf

LEMMA WorthIs ==
  ASSUME NEW mv \in Movement
  PROVE  Worth(mv) \in Fractions
<1> DEFINE k == IF mv.type = "RECEIPT" THEN mv.qty ELSE -mv.qty
<1>1. k \in Int /\ mv.cost \in Fractions
  BY DEF Movement, Cost
<1> HIDE DEF k
<1> QED
  BY <1>1, TimesIs DEF Worth, k

(* Marks are not worth anything.                                            *)
LEMMA BalanceStays ==
  ASSUME NEW ms, NEW ns, DOMAIN ns = DOMAIN ms,
         \A m \in DOMAIN ms : /\ ns[m].type = ms[m].type /\ ns[m].qty = ms[m].qty
                              /\ ns[m].cost = ms[m].cost
  PROVE  BalanceOf(ns) = BalanceOf(ms)
  BY DEF BalanceOf, Worths, Worth

LEMMA BalanceAdds ==
  ASSUME NEW ms, IsFiniteSet(DOMAIN ms), \A m \in DOMAIN ms : ms[m] \in Movement,
         NEW r, r \notin DOMAIN ms, NEW mv \in Movement
  PROVE  BalanceOf([m \in DOMAIN ms \cup {r} |-> IF m = r THEN mv ELSE ms[m]])
           = Plus(BalanceOf(ms), Worth(mv))
<1> DEFINE D == DOMAIN ms
           ns == [m \in D \cup {r} |-> IF m = r THEN mv ELSE ms[m]]
           g == Worths(ms)
           k == Worths(ns)
<1>1. DOMAIN ns = D \cup {r} /\ ns[r] = mv /\ \A m \in D : ns[m] = ms[m]
  OBVIOUS
<1> HIDE DEF ns
<1>2. k[r] = Worth(mv) /\ \A m \in D : k[m] = g[m]
  BY <1>1 DEF Worths
<1>3. \A m \in D \cup {r} : k[m] \in Fractions
  <2>1. \A m \in D : g[m] = Worth(ms[m])
    BY DEF Worths
  <2>2. \A m \in D : Worth(ms[m]) \in Fractions
    BY WorthIs
  <2>3. Worth(mv) \in Fractions
    BY WorthIs
  <2> QED
    BY <1>2, <2>1, <2>2, <2>3
<1> HIDE DEF g, k
<1>4. IsFiniteSet(D \cup {r}) /\ (D \cup {r}) \ {r} = D
  BY FS_AddElement
<1>5. Sum(k, D \cup {r}) = Plus(k[r], Sum(k, D))
  <2>1. r \in D \cup {r}
    OBVIOUS
  <2>2. Sum(k, D \cup {r}) = Plus(k[r], Sum(k, (D \cup {r}) \ {r}))
    BY <1>3, <1>4, <2>1, SumRemove
  <2> QED
    BY <1>4, <2>2
<1>6. Sum(k, D) = Sum(g, D)
  BY <1>2, SumAgree
<1>7. Sum(g, D) \in Fractions
  <2>1. \A m \in D : g[m] \in Fractions
    BY <1>2, <1>3
  <2> QED
    BY <2>1, SumIsFraction
<1>8. k[r] \in Fractions
  BY <1>3
<1>9. Plus(k[r], Sum(g, D)) = Plus(Sum(g, D), k[r])
  BY <1>7, <1>8, PlusIs
<1> QED
  BY <1>1, <1>2, <1>5, <1>6, <1>9 DEF BalanceOf, g, k, ns

LEMMA StockBegins == StockInit => StockInv
<1> SUFFICES ASSUME StockInit PROVE StockInv
  OBVIOUS
<1>1. /\ item = [qty |-> 0, avg |-> Zero] /\ DOMAIN movements = {}
      /\ movements \in [{} -> Movement] /\ stockCrashes = 0
  BY DEF StockInit, EmptyItem, EmptyMap
<1>2. ItemOK
  BY <1>1, ZeroIs DEF ItemOK, Cost
<1>3. MovementsOK
  BY <1>1, FS_EmptySet DEF MovementsOK
<1>4. RequestsOK /\ NotYetMoved
  BY <1>1 DEF StockInit, RequestsOK, NotYetMoved
<1>5. Times(0, Zero) = Zero
  <2>1. Zero.num \in Int /\ Zero.den \in Nat \ {0}
    BY ZeroIs DEF Fractions
  <2>2. 0 * Zero.num = 0
    BY <2>1
  <2>3. Frac(0, Zero.den) = Frac(0, 1)
    BY <2>1, FracEqual
  <2> QED
    BY <2>2, <2>3, ZeroIs DEF Times
<1>6. Balance = Zero
  BY <1>1, BalanceIsSum, SumOfNone DEF BalanceOf
<1> QED
  BY <1>1, <1>2, <1>3, <1>4, <1>5, <1>6 DEF StockInv, Covered

LEMMA AskedIs ==
  ASSUME Covered, NEW r \in Mover, stockReq[r].at # "new"
  PROVE  stockReq[r] \in Asked
  BY DEF Covered, RequestsOK, NewRequest

LEMMA CostIsCost ==
  ASSUME Covered, NEW r \in Mover, stockReq[r].at = "validate"
  PROVE  CostOf(r) \in Cost
<1>1. stockReq[r] \in Asked /\ item.avg \in Cost
  BY AskedIs DEF Covered, ItemOK
<1> QED
  BY <1>1 DEF CostOf, Asked

(* A receipt moves the average to what keeps the value, an issue takes out  *)
(* what it is worth at the average; and no issue takes more than there is.  *)
LEMMA AppliedIs ==
  ASSUME NEW it \in [qty : Nat, avg : Cost], NEW mv \in Movement,
         mv.type = "ISSUE" => it.qty >= mv.qty /\ mv.cost = it.avg
  PROVE  /\ Applied(it, mv) \in [qty : Nat, avg : Cost]
         /\ Times(Applied(it, mv).qty, Applied(it, mv).avg) = Plus(Times(it.qty, it.avg), Worth(mv))
<1> DEFINE q == it.qty
           a == it.avg
           k == mv.qty
           c == mv.cost
<1>1. /\ q \in Nat /\ a \in Fractions /\ a.num \in Nat /\ a \in Cost
      /\ k \in Nat \ {0} /\ c \in Fractions /\ c.num \in Nat
      /\ it = [qty |-> q, avg |-> a]
      /\ mv.type \in {"RECEIPT", "ISSUE"}
  BY DEF Movement, Cost
<1>2. CASE mv.type = "RECEIPT"
  <2> DEFINE v == Plus(Times(q, a), Times(k, c))
  <2>1. Applied(it, mv) = [qty |-> q + k, avg |-> Over(v, q + k)] /\ q + k \in Nat \ {0}
    BY <1>1, <1>2 DEF Applied
  <2>2. /\ Times(q, a) \in Fractions /\ Times(q, a).num \in Nat
        /\ Times(k, c) \in Fractions /\ Times(k, c).num \in Nat
    <3>1. k \in Int /\ k \in Nat /\ q \in Int
      BY <1>1
    <3> HIDE DEF q, a, k, c
    <3> QED
      BY <1>1, <3>1, TimesIs
  <2>3. v \in Fractions /\ v.num \in Nat
    BY <2>2, PlusIs
  <2>4. Times(q + k, Over(v, q + k)) = v
    BY <2>1, <2>2, TimesOver
  <2> HIDE DEF v
  <2>5. Over(v, q + k) \in Cost
    BY <2>1, <2>3, OverIs DEF Cost
  <2>6. v = Plus(Times(q, a), Worth(mv))
    BY <1>2 DEF v, Worth
  <2> QED
    BY <2>1, <2>4, <2>5, <2>6
<1>3. CASE mv.type = "ISSUE"
  <2>1. Applied(it, mv) = [qty |-> q - k, avg |-> a] /\ q - k \in Nat
    BY <1>1, <1>3 DEF Applied
  <2>2. Worth(mv) = Times(-k, a)
    BY <1>3 DEF Worth
  <2>3. Times(q + (-k), a) = Plus(Times(q, a), Times(-k, a))
    <3>1. q \in Int /\ -k \in Int
      BY <1>1
    <3> HIDE DEF q, a, k
    <3> QED
      BY <1>1, <3>1, TimesAdds
  <2>4. q + (-k) = q - k
    BY <1>1
  <2> QED
    BY <1>1, <2>1, <2>2, <2>3, <2>4
<1> QED
  BY <1>1, <1>2, <1>3

LEMMA ApplyKeeps ==
  ASSUME Covered, Times(item.qty, item.avg) = Balance, NEW r \in Mover, Apply(r)
  PROVE  Covered' /\ (Times(item.qty, item.avg) = Balance)'
<1> DEFINE mv == [type |-> stockReq[r].type, qty |-> stockReq[r].qty, cost |-> CostOf(r),
                  reversedBy |-> None, createdAt |-> Cardinality(DOMAIN movements) + 1]
           D == DOMAIN movements
<1>1. /\ stockReq[r].at = "validate" /\ (stockReq[r].type = "ISSUE" => item.qty >= stockReq[r].qty)
      /\ item' = Applied(item, mv)
      /\ movements' = [m \in D \cup {r} |-> IF m = r THEN mv ELSE movements[m]]
      /\ stockReq' = [stockReq EXCEPT ![r].at = "save"]
  BY DEF Apply, Enter, MoveTo
<1>2. stockReq[r] \in Asked
  BY <1>1, AskedIs
<1>3. Cardinality(D) + 1 \in Nat /\ IsFiniteSet(D) /\ D \subseteq Mover
  BY FS_CardinalityType DEF Covered, MovementsOK
<1>4. mv \in Movement
  BY <1>1, <1>2, <1>3, CostIsCost DEF Asked, Movement
<1>5. item \in [qty : Nat, avg : Cost] /\ (mv.type = "ISSUE" => item.qty >= mv.qty /\ mv.cost = item.avg)
  BY <1>1 DEF CostOf, Covered, ItemOK
<1>6. r \notin D /\ \A m \in D : movements[m] \in Movement
  BY <1>1 DEF Covered, NotYetMoved, MovementsOK
<1> HIDE DEF mv, D
<1>7. ItemOK' /\ Times(item'.qty, item'.avg) = Plus(Times(item.qty, item.avg), Worth(mv))
  BY <1>1, <1>4, <1>5, AppliedIs DEF ItemOK
<1>8. MovementsOK'
  <2>1. DOMAIN movements' = D \cup {r} /\ IsFiniteSet(D \cup {r}) /\ D \cup {r} \subseteq Mover
    BY <1>1, <1>3, FS_AddElement
  <2>2. movements' \in [D \cup {r} -> Movement]
    BY <1>1, <1>4, <1>6
  <2> QED
    BY <2>1, <2>2 DEF MovementsOK
<1>9. RequestsOK' /\ NotYetMoved'
  <2>1. stockReq \in [Mover -> {NewRequest} \cup Asked]
    BY DEF Covered, RequestsOK
  <2>2. stockReq'[r] \in Asked /\ stockReq'[r].at = "save"
    BY <1>1, <1>2, <2>1 DEF Asked
  <2>3. \A s \in Mover : s # r => stockReq'[s] = stockReq[s]
    BY <1>1, <2>1
  <2>4. RequestsOK'
    BY <1>1, <2>1, <2>2, <2>3 DEF RequestsOK
  <2>5. DOMAIN movements' = D \cup {r}
    BY <1>1
  <2>6. NotYetMoved'
    <3>1. \A s \in Mover : stockReq[s].at \in {"new", "validate"} => s \notin D
      BY DEF NotYetMoved, Covered, D
    <3>2. \A s \in Mover : s # r => (s \in DOMAIN movements' <=> s \in D)
      BY <2>5
    <3> QED
      BY <2>2, <2>3, <3>1, <3>2 DEF NotYetMoved
  <2> QED
    BY <2>4, <2>6
<1>10. BalanceOf(movements') = Plus(BalanceOf(movements), Worth(mv))
  BY <1>1, <1>3, <1>4, <1>6, BalanceAdds DEF D
<1>11. Balance' = Plus(Balance, Worth(mv))
  BY <1>10, BalanceIsSum
<1> QED
  BY <1>7, <1>8, <1>9, <1>11 DEF Covered

(* A step of a request that neither makes nor marks a movement.             *)
LEMMA RequestMoves ==
  ASSUME Covered, Times(item.qty, item.avg) = Balance, UNCHANGED <<item, movements>>,
         NEW r \in Mover, NEW q, stockReq' = [stockReq EXCEPT ![r] = q],
         q \in Asked, q.at = "validate" => stockReq[r].at = "new"
  PROVE  Covered' /\ (Times(item.qty, item.avg) = Balance)'
<1>1. stockReq \in [Mover -> {NewRequest} \cup Asked]
  BY DEF Covered, RequestsOK
<1>2. q.at # "new" => stockReq'[r] = q /\ \A s \in Mover : s # r => stockReq'[s] = stockReq[s]
  BY <1>1
<1>3. RequestsOK'
  BY <1>1 DEF RequestsOK
<1>4. NotYetMoved'
  <2>1. \A s \in Mover : stockReq'[s] = IF s = r THEN q ELSE stockReq[s]
    BY <1>1
  <2>2. q.at \in {"new", "validate"} => r \notin DOMAIN movements
    BY DEF Covered, NotYetMoved, Asked
  <2> QED
    BY <2>1, <2>2 DEF Covered, NotYetMoved
<1>5. ItemOK' /\ MovementsOK'
  BY DEF Covered, ItemOK, MovementsOK
<1>6. Balance' = Balance
  BY BalanceIsSum
<1> QED
  BY <1>3, <1>4, <1>5, <1>6 DEF Covered

LEMMA StockStepKeeps ==
  ASSUME Covered, Times(item.qty, item.avg) = Balance, NEW r \in Mover, MovementStep(r)
  PROVE  Covered' /\ (Times(item.qty, item.avg) = Balance)'
<1>1. ASSUME NEW at \in {"save", "publish", "saveMark", "done"}, stockReq[r].at # "new", MoveTo(r, at),
             UNCHANGED <<item, movements>>
      PROVE  Covered' /\ (Times(item.qty, item.avg) = Balance)'
  <2> DEFINE q == [stockReq[r] EXCEPT !.at = at]
  <2>1. stockReq[r] \in Asked
    BY <1>1, AskedIs
  <2>2. stockReq' = [stockReq EXCEPT ![r] = q]
    BY <1>1 DEF MoveTo
  <2>3. q \in Asked /\ q.at = at
    BY <2>1 DEF Asked
  <2>4. q.at = "validate" => stockReq[r].at = "new"
    BY <2>3
  <2> HIDE DEF q
  <2> QED
    BY <1>1, <2>2, <2>3, <2>4, RequestMoves
<1>2. ASSUME NEW type \in {"RECEIPT", "ISSUE"}, NEW qty \in Nat \ {0},
             NEW cost \in Cost \cup {None}, NEW m \in Mover \cup {None},
             stockReq[r] = NewRequest, UNCHANGED <<item, movements>>,
             stockReq' = [stockReq EXCEPT ![r] = [at |-> "validate", type |-> type, qty |-> qty,
                                        cost |-> cost, of |-> m]]
      PROVE  Covered' /\ (Times(item.qty, item.avg) = Balance)'
  <2> DEFINE q == [at |-> "validate", type |-> type, qty |-> qty, cost |-> cost, of |-> m]
  <2>1. q \in Asked /\ stockReq[r].at = "new" /\ stockReq' = [stockReq EXCEPT ![r] = q]
    BY <1>2 DEF Asked, NewRequest
  <2> HIDE DEF q
  <2> QED
    BY <1>2, <2>1, RequestMoves
<1>3. ASSUME NEW qty \in Quantity, NEW cost \in {Frac(c, 1) : c \in Price} \cup {None},
             Record(r, "RECEIPT", qty, cost)
      PROVE  Covered' /\ (Times(item.qty, item.avg) = Balance)'
  <2>1. qty \in Nat \ {0}
    BY InventoryAssumption
  <2>2. \A c \in Price : Frac(c, 1) \in Cost
    <3> SUFFICES ASSUME NEW c \in Price PROVE Frac(c, 1) \in Cost
      OBVIOUS
    <3>1. c \in Nat /\ c \in Int /\ 1 \in Nat \ {0}
      BY InventoryAssumption
    <3>2. Frac(c, 1) \in Fractions /\ Frac(c, 1).num \in Nat
      BY <3>1, FracIs, FracIsNat
    <3> QED
      BY <3>2 DEF Cost
  <2>3. cost \in Cost \cup {None}
    BY <2>2
  <2> QED
    BY <1>2, <1>3, <2>1, <2>3 DEF Record
<1>4. ASSUME NEW qty \in Quantity, Record(r, "ISSUE", qty, None)
      PROVE  Covered' /\ (Times(item.qty, item.avg) = Balance)'
  <2>1. qty \in Nat \ {0}
    BY InventoryAssumption
  <2> QED
    BY <1>2, <1>4, <2>1 DEF Record
<1>5. ASSUME NEW m \in Mover, ReverseMovement(r, m)
      PROVE  Covered' /\ (Times(item.qty, item.avg) = Balance)'
  <2>1. movements[m] \in Movement
    BY <1>5 DEF ReverseMovement, Covered, MovementsOK
  <2>2. /\ Opposite(movements[m].type) \in {"RECEIPT", "ISSUE"}
        /\ movements[m].qty \in Nat \ {0} /\ movements[m].cost \in Cost
    BY <2>1 DEF Movement, Opposite
  <2> QED
    BY <1>2, <1>5, <2>2 DEF ReverseMovement
<1>6. CASE RefuseMovement(r)
  BY <1>1, <1>6 DEF RefuseMovement
<1>7. CASE Apply(r)
  BY <1>7, ApplyKeeps
<1>8. CASE SaveMovement(r)
  BY <1>1, <1>8 DEF SaveMovement
<1>9. CASE PublishMovement(r)
  <2>1. CASE stockReq[r].of = None
    BY <1>1, <1>9, <2>1 DEF PublishMovement
  <2>2. CASE stockReq[r].of # None
    <3> DEFINE m == stockReq[r].of
               D == DOMAIN movements
               q == [stockReq[r] EXCEPT !.at = "saveMark"]
    <3>1. /\ item' = item /\ stockReq' = [stockReq EXCEPT ![r] = q] /\ stockReq[r].at = "publish"
          /\ movements' = [movements EXCEPT ![m].reversedBy = r]
      BY <1>9, <2>2 DEF PublishMovement, MoveTo
    <3>2. /\ movements \in [D -> Movement] /\ D \subseteq Mover /\ IsFiniteSet(D)
          /\ stockReq \in [Mover -> {NewRequest} \cup Asked]
      BY DEF Covered, MovementsOK, RequestsOK
    <3>3. DOMAIN movements' = D
      BY <3>1, <3>2
    <3> HIDE DEF m, D
    <3>4. \A n \in D : /\ movements'[n] \in Movement
                       /\ movements'[n].type = movements[n].type
                       /\ movements'[n].qty = movements[n].qty
                       /\ movements'[n].cost = movements[n].cost
      <4> SUFFICES ASSUME NEW n \in D
                   PROVE  /\ movements'[n] \in Movement
                          /\ movements'[n].type = movements[n].type
                          /\ movements'[n].qty = movements[n].qty
                          /\ movements'[n].cost = movements[n].cost
        OBVIOUS
      <4>1. movements[n] \in Movement
        BY <3>2
      <4>2. movements'[n] = IF n = m THEN [movements[n] EXCEPT !.reversedBy = r] ELSE movements[n]
        BY <3>1, <3>2
      <4> QED
        BY <4>1, <4>2 DEF Movement
    <3>5. MovementsOK'
      <4>1. movements' = [n \in D |-> movements'[n]]
        BY <3>1, <3>2
      <4>2. movements' \in [D -> Movement]
        BY <3>4, <4>1
      <4> QED
        BY <3>2, <3>3, <4>2 DEF MovementsOK
    <3>6. Balance' = Balance
      <4>1. BalanceOf(movements') = BalanceOf(movements)
        BY <3>3, <3>4, BalanceStays DEF D
      <4> QED
        BY <4>1, BalanceIsSum
    <3>7. q \in Asked /\ q.at = "saveMark"
      <4>1. stockReq[r] \in Asked
        BY <3>1, AskedIs
      <4> QED
        BY <4>1 DEF Asked
    <3> HIDE DEF q
    <3>8. stockReq'[r] = q /\ \A s \in Mover : s # r => stockReq'[s] = stockReq[s]
      BY <3>1, <3>2
    <3>9. RequestsOK'
      BY <3>1, <3>2, <3>7 DEF RequestsOK
    <3>10. NotYetMoved'
      BY <3>3, <3>7, <3>8 DEF Covered, NotYetMoved, D
    <3> QED
      BY <3>1, <3>5, <3>6, <3>9, <3>10 DEF Covered, ItemOK
  <2> QED
    BY <2>1, <2>2
<1>10. CASE SaveMark(r)
  BY <1>1, <1>10 DEF SaveMark
<1>11. CASE FailMovement(r)
  BY <1>1, <1>11 DEF FailMovement
<1> QED
  BY <1>3, <1>4, <1>5, <1>6, <1>7, <1>8, <1>9, <1>10, <1>11 DEF MovementStep

LEMMA StockStep == StockInv /\ [StockNext]_stockVars => StockInv'
<1> SUFFICES ASSUME StockInv, [StockNext]_stockVars PROVE StockInv'
  OBVIOUS
<1>1. CASE RestartStock
  BY <1>1 DEF RestartStock, StockInv
<1>2. ASSUME NEW r \in Mover, MovementStep(r) PROVE StockInv'
  <2>1. stockCrashes' = stockCrashes
    BY <1>2 DEF MovementStep, Record, ReverseMovement, RefuseMovement, Apply, Enter,
       SaveMovement, PublishMovement, SaveMark, FailMovement
  <2>2. stockCrashes = 0 => Covered' /\ (Times(item.qty, item.avg) = Balance)'
    BY <1>2, StockStepKeeps DEF StockInv
  <2> QED
    BY <2>1, <2>2 DEF StockInv
<1>3. CASE UNCHANGED stockVars
  <2>1. Covered => Covered'
    BY <1>3 DEF stockVars, Covered, ItemOK, MovementsOK, RequestsOK, NotYetMoved
  <2>2. Balance' = Balance
    BY <1>3, BalanceIsSum DEF stockVars
  <2> QED
    BY <1>3, <2>1, <2>2 DEF stockVars, StockInv
<1> QED
  BY <1>1, <1>2, <1>3 DEF StockNext

LEMMA StockSuffices == StockInv => StockIsCovered /\ ValueIsBalance
<1> SUFFICES ASSUME StockInv, stockCrashes = 0
             PROVE  item.qty >= 0 /\ ~IsNegative(item.avg) /\ Times(item.qty, item.avg) = Balance
  BY DEF StockIsCovered, ValueIsBalance
<1>1. item \in [qty : Nat, avg : Cost] /\ Times(item.qty, item.avg) = Balance
  BY DEF StockInv, Covered, ItemOK
<1>2. item.qty \in Nat /\ item.avg.num \in Nat
  BY <1>1 DEF Cost
<1> QED
  BY <1>1, <1>2 DEF IsNegative

(* However the requests of recordMovement and reverseMovement interleave at *)
(* the answer of compliance, no issue takes more than there is: until the   *)
(* process restarts, quantityOnHand is never negative and neither is        *)
(* averageUnitCost (recordMovement tests the stock and applies the movement *)
(* in one piece).                                                           *)
THEOREM StockStaysCovered == StockSpec => []StockIsCovered
  BY StockBegins, StockStep, StockSuffices, PTL DEF StockSpec

(* Until the process restarts, getValuation's quantity times average cost   *)
(* is exactly what the movements add up to, receipts less issues, each with *)
(* the totalValue that its event tells the ledger: applyMovement moves the  *)
(* average to what keeps the value, and an issue is worth the average.      *)
THEOREM ValueStaysBalanced == StockSpec => []ValueIsBalance
  BY StockBegins, StockStep, StockSuffices, PTL DEF StockSpec

-----------------------------------------------------------------------------
(* What a table makes of an item.                                           *)
LEMMA MaxIs ==
  ASSUME NEW n \in Nat
  PROVE  /\ Chooses("replay", 1 .. n)
         /\ n # 0 => Choice("replay", 1 .. n) = n
<1>1. ASSUME NEW S \in SUBSET (1 .. n), S # {}
      PROVE  Seqs!Max(S) \in S /\ \A x \in S : Seqs!Max(S) >= x
  <2> DEFINE R == OpToRel(<, Nat)
             C == {n - x : x \in S}
  <2>1. IsWellFoundedOn(R, Nat)
    BY NatLessThanWellFounded
  <2>2. \A i, j \in Nat : i < j => <<i, j>> \in R
    BY DEF OpToRel
  <2>3. C \subseteq Nat /\ C # {}
    <3>1. \A x \in S : n - x \in Nat
      BY <1>1
    <3> QED
      BY <1>1, <3>1
  <2> HIDE DEF R
  <2>4. PICK c \in C : \A d \in C : ~(<<d, c>> \in R)
    <3> HIDE DEF C
    <3> QED
      BY <2>1, <2>3, WFMin
  <2>5. PICK m \in S : c = n - m
    BY <2>4
  <2>6. ASSUME NEW x \in S PROVE m >= x
    <3>1. n - x \in C /\ n - x \in Nat /\ c \in Nat
      BY <2>3, <2>4
    <3>2. ~(n - x < c)
      BY <2>2, <2>4, <3>1
    <3> QED
      BY <2>5, <3>1, <3>2
  <2> QED
    BY <2>6, Zenon DEF Seqs!Max
<1>2. Chooses("replay", 1 .. n)
  BY <1>1 DEF Chooses, Choice
<1>3. ASSUME n # 0 PROVE Seqs!Max(1 .. n) = n
  <2>1. n \in 1 .. n /\ 1 .. n \in SUBSET (1 .. n) /\ 1 .. n # {}
    BY <1>3
  <2>2. Seqs!Max(1 .. n) \in 1 .. n /\ Seqs!Max(1 .. n) >= n
    BY <1>1, <2>1
  <2> QED
    BY <2>2
<1> QED
  BY <1>2, <1>3 DEF Choice

LEMMA ReplayAgree ==
  ASSUME NEW s, NEW t, NEW n \in Nat, DOMAIN s = 1 .. n, DOMAIN t = 1 .. n,
         \A k \in 1 .. n : s[k].type = t[k].type /\ s[k].qty = t[k].qty /\ s[k].cost = t[k].cost
  PROVE  Replay(s) = Replay(t)
<1> DEFINE S == 1 .. n
<1>1. \A k \in S : \A it : Op("replay", s[k], it) = Op("replay", t[k], it)
  BY DEF Op, Applied
<1>2. \A h : Body("replay", s, S, h) = Body("replay", t, S, h)
  <2>1. Chooses("replay", S)
    BY MaxIs
  <2>2. \A x \in SUBSET S : x # {} => Choice("replay", x) \in S
    BY <2>1 DEF Chooses
  <2> HIDE DEF S
  <2> QED
    BY <1>1, <2>2 DEF Body
<1>3. \A h : h = Body("replay", s, S, h) <=> h = Body("replay", t, S, h)
  BY <1>2
<1>4. Iter("replay", s, S) = Iter("replay", t, S)
  BY <1>3, Zenon DEF Iter
<1> QED
  BY <1>4, ReplayIsIter

LEMMA IterOfNone ==
  ASSUME NEW f, NEW g
  PROVE  Iter(f, g, {})[{}] = Base(f)
<1>1. IsFiniteSet({}) /\ {} \in SUBSET {}
  BY FS_EmptySet
<1>2. Chooses(f, {})
  BY DEF Chooses
<1>3. Iter(f, g, {}) = Body(f, g, {}, Iter(f, g, {}))
  BY <1>1, <1>2, IterExists
<1> DEFINE h == Iter(f, g, {})
<1>4. h = Body(f, g, {}, h)
  BY <1>3
<1> HIDE DEF h
<1>5. h[{}] = Base(f)
  BY <1>1, <1>4 DEF Body
<1> QED
  BY <1>5 DEF h

LEMMA ReplayOfNone ==
  ASSUME NEW t, DOMAIN t = {}
  PROVE  Replay(t) = EmptyItem
  BY IterOfNone, ReplayIsIter DEF Base

LEMMA ReplayStep ==
  ASSUME NEW n \in Nat, NEW s, DOMAIN s = 1 .. n + 1, NEW t, DOMAIN t = 1 .. n,
         \A k \in 1 .. n : t[k] = s[k]
  PROVE  Replay(s) = Applied(Replay(t), s[n + 1])
<1> DEFINE S == 1 .. n + 1
           T == 1 .. n
<1>1. /\ IsFiniteSet(S) /\ S \in SUBSET S /\ S # {} /\ S \ {n + 1} = T /\ T \in SUBSET S
      /\ n + 1 \in Nat /\ n + 1 # 0
  <2>1. IsFiniteSet(S)
    BY FS_Interval
  <2>2. n + 1 \in S
    OBVIOUS
  <2>3. S \ {n + 1} = T
    OBVIOUS
  <2> HIDE DEF S, T
  <2> QED
    BY <2>1, <2>2, <2>3
<1>2. Chooses("replay", S) /\ Choice("replay", S) = n + 1
  BY <1>1, MaxIs
<1>3. Iter("replay", s, S)[S] = Applied(Iter("replay", s, S)[T], s[n + 1])
  <2> HIDE DEF S, T
  <2>2. IsFiniteSet(S)
    BY <1>1
  <2>3. S \in SUBSET S /\ S # {}
    BY <1>1
  <2>4. Chooses("replay", S)
    BY <1>2
  <2>1. Iter("replay", s, S)[S] =
          Op("replay", s[Choice("replay", S)], Iter("replay", s, S)[S \ {Choice("replay", S)}])
    BY <2>2, <2>3, <2>4, IterRec
  <2> QED
    BY <1>1, <1>2, <2>1 DEF Op
<1>4. Iter("replay", s, S)[T] = Iter("replay", s, T)[T]
  BY <1>1, <1>2, IterOfPart
<1> DEFINE r == [k \in T |-> s[k]]
<1>5. Iter("replay", s, T) = Iter("replay", t, T)
  <2>1. Chooses("replay", T)
    BY MaxIs
  <2>2. \A x \in SUBSET T : x # {} => Choice("replay", x) \in T
    BY <2>1 DEF Chooses
  <2>3. \A h : Body("replay", s, T, h) = Body("replay", t, T, h)
    BY <2>2 DEF Body
  <2>4. \A h : h = Body("replay", s, T, h) <=> h = Body("replay", t, T, h)
    BY <2>3
  <2> QED
    BY <2>4, Zenon DEF Iter
<1> QED
  BY <1>3, <1>4, <1>5, ReplayIsIter

(* Numbers as fractions: the sums of this module can add them up.           *)
LEMMA WholeIs ==
  ASSUME NEW a \in Int, NEW b \in Int
  PROVE  /\ Frac(a, 1) \in Fractions
         /\ Plus(Frac(a, 1), Frac(b, 1)) = Frac(a + b, 1)
         /\ Frac(a, 1) = Frac(b, 1) => a = b
<1>1. ASSUME NEW n \in Int
      PROVE  Frac(n, 1) \in Fractions /\ Frac(n, 1).num = n /\ Frac(n, 1).den = 1
  <2>1. 1 \in Nat \ {0}
    OBVIOUS
  <2>2. Frac(n, 1) \in Fractions /\ Frac(n, 1).den = LeastDenominator(n, 1)
        /\ Frac(n, 1).num * 1 = n * Frac(n, 1).den
    BY <2>1, FracIs
  <2>3. LeastDenominator(n, 1) \in 1 .. 1
    BY <2>1, DenominatorExists
  <2> DEFINE x == Frac(n, 1).num
             y == Frac(n, 1).den
  <2>4. x \in Int /\ y = 1 /\ x * 1 = n * y
    BY <2>2, <2>3 DEF Fractions
  <2> HIDE DEF x, y
  <2>5. x = n
    BY <2>4
  <2> QED
    BY <2>2, <2>4, <2>5 DEF x, y
<1>2. Plus(Frac(a, 1), Frac(b, 1)) = Frac(a * 1 + b * 1, 1 * 1)
  BY <1>1 DEF Plus
<1>3. a * 1 + b * 1 = a + b /\ 1 * 1 = 1
  OBVIOUS
<1> QED
  BY <1>1, <1>2, <1>3

Signed(mv) == Frac(IF mv.type = "RECEIPT" THEN mv.qty ELSE -mv.qty, 1)

Moves(s, n) ==
    /\ DOMAIN s = 1 .. n
    /\ \A k \in 1 .. n : s[k].type \in {"RECEIPT", "ISSUE"} /\ s[k].qty \in Nat \ {0}

Adds(s, n) ==
    /\ Replay(s) = [qty |-> Replay(s).qty, avg |-> Replay(s).avg]
    /\ Replay(s).qty \in Int
    /\ Frac(Replay(s).qty, 1) = Sum([k \in 1 .. n |-> Signed(s[k])], 1 .. n)

LEMMA QuantityAdds ==
  ASSUME NEW it, it = [qty |-> it.qty, avg |-> it.avg], it.qty \in Int,
         NEW mv, mv.type \in {"RECEIPT", "ISSUE"}, mv.qty \in Nat \ {0}
  PROVE  /\ Applied(it, mv) = [qty |-> Applied(it, mv).qty, avg |-> Applied(it, mv).avg]
         /\ Applied(it, mv).qty \in Int
         /\ Frac(Applied(it, mv).qty, 1) = Plus(Signed(mv), Frac(it.qty, 1))
<1> DEFINE k == IF mv.type = "RECEIPT" THEN mv.qty ELSE -mv.qty
<1>1. k \in Int
  OBVIOUS
<1>2. /\ Applied(it, mv) = [qty |-> Applied(it, mv).qty, avg |-> Applied(it, mv).avg]
      /\ Applied(it, mv).qty = k + it.qty
  <2>1. CASE mv.type = "RECEIPT"
    BY <2>1 DEF Applied
  <2>2. CASE mv.type = "ISSUE"
    BY <2>2 DEF Applied
  <2> QED
    BY <2>1, <2>2
<1> HIDE DEF k
<1>3. Plus(Frac(k, 1), Frac(it.qty, 1)) = Frac(k + it.qty, 1)
  BY <1>1, WholeIs
<1> QED
  BY <1>1, <1>2, <1>3 DEF Signed, k

LEMMA ReplayAdds ==
  ASSUME NEW n \in Nat, NEW s, Moves(s, n)
  PROVE  Adds(s, n)
<1> DEFINE Bad == {i \in Nat : \E x : Moves(x, i) /\ ~Adds(x, i)}
           R == OpToRel(<, Nat)
<1> SUFFICES ASSUME Bad # {} PROVE FALSE
  OBVIOUS
<1>1. IsWellFoundedOn(R, Nat)
  BY NatLessThanWellFounded
<1>2. \A i, j \in Nat : i < j => <<i, j>> \in R
  BY DEF OpToRel
<1> HIDE DEF R
<1>3. PICK i \in Bad : \A j \in Bad : ~(<<j, i>> \in R)
  BY <1>1, WFMin
<1>4. PICK x : Moves(x, i) /\ ~Adds(x, i)
  BY <1>3
<1>5. \A j \in Nat : j < i => \A y : Moves(y, j) => Adds(y, j)
  BY <1>2, <1>3
<1> HIDE DEF Bad
<1>6. i \in Nat
  BY <1>3 DEF Bad
<1>7. CASE i = 0
  <2>1. DOMAIN x = {} /\ 1 .. i = {}
    BY <1>4, <1>7 DEF Moves
  <2>2. Replay(x) = [qty |-> 0, avg |-> Zero]
    BY <2>1, ReplayOfNone DEF EmptyItem
  <2>3. Sum([k \in 1 .. i |-> Signed(x[k])], 1 .. i) = Zero
    BY <2>1, SumOfNone
  <2> QED
    BY <1>4, <2>2, <2>3, ZeroIs DEF Adds
<1>8. CASE i # 0
  <2> DEFINE j == i - 1
             y == [k \in 1 .. j |-> x[k]]
             g == [k \in 1 .. i |-> Signed(x[k])]
             h == [k \in 1 .. j |-> Signed(y[k])]
  <2>1. j \in Nat /\ j < i /\ j + 1 = i /\ i \in 1 .. i /\ (1 .. i) \ {i} = 1 .. j
    BY <1>6, <1>8
  <2>2. DOMAIN y = 1 .. j /\ \A k \in 1 .. j : y[k] = x[k] /\ k \in 1 .. i
    BY <2>1
  <2> HIDE DEF j, y
  <2>3. Moves(y, j)
    BY <1>4, <2>2 DEF Moves
  <2>4. Adds(y, j)
    BY <1>5, <2>1, <2>3
  <2>5. Replay(x) = Applied(Replay(y), x[i])
    <3>1. DOMAIN x = 1 .. j + 1
      BY <1>4, <2>1 DEF Moves
    <3>2. Replay(x) = Applied(Replay(y), x[j + 1])
      BY <2>1, <2>2, <3>1, ReplayStep
    <3> QED
      BY <2>1, <3>2
  <2>6. x[i].type \in {"RECEIPT", "ISSUE"} /\ x[i].qty \in Nat \ {0}
    BY <1>4, <2>1 DEF Moves
  <2>7. /\ Replay(x) = [qty |-> Replay(x).qty, avg |-> Replay(x).avg]
        /\ Replay(x).qty \in Int
        /\ Frac(Replay(x).qty, 1) = Plus(Signed(x[i]), Frac(Replay(y).qty, 1))
    <3>1. /\ Replay(y) = [qty |-> Replay(y).qty, avg |-> Replay(y).avg]
          /\ Replay(y).qty \in Int
      BY <2>4 DEF Adds
    <3> DEFINE it == Replay(y)
    <3>2. it = [qty |-> it.qty, avg |-> it.avg] /\ it.qty \in Int
      BY <3>1
    <3> HIDE DEF it
    <3>3. /\ Applied(it, x[i]) = [qty |-> Applied(it, x[i]).qty, avg |-> Applied(it, x[i]).avg]
          /\ Applied(it, x[i]).qty \in Int
          /\ Frac(Applied(it, x[i]).qty, 1) = Plus(Signed(x[i]), Frac(it.qty, 1))
      BY <2>6, <3>2, QuantityAdds
    <3> QED
      BY <2>5, <3>3 DEF it
  <2>8. \A k \in 1 .. i : g[k] \in Fractions
    <3> SUFFICES ASSUME NEW k \in 1 .. i PROVE Signed(x[k]) \in Fractions
      OBVIOUS
    <3> DEFINE q == IF x[k].type = "RECEIPT" THEN x[k].qty ELSE -x[k].qty
    <3>1. q \in Int
      BY <1>4 DEF Moves
    <3> HIDE DEF q
    <3> QED
      BY <3>1, WholeIs DEF Signed, q
  <2>9. g[i] = Signed(x[i])
    BY <2>1
  <2>10. \A k \in 1 .. j : g[k] = h[k]
    BY <2>2
  <2> HIDE DEF g, h
  <2>11. Sum(g, 1 .. i) = Plus(g[i], Sum(g, (1 .. i) \ {i}))
    <3>1. IsFiniteSet(1 .. i)
      BY <1>6, FS_Interval
    <3> QED
      BY <2>1, <2>8, <3>1, SumRemove
  <2>12. Sum(g, 1 .. j) = Sum(h, 1 .. j)
    BY <2>10, SumAgree
  <2>13. Frac(Replay(y).qty, 1) = Sum(h, 1 .. j)
    BY <2>4 DEF Adds, h
  <2>14. Frac(Replay(x).qty, 1) = Sum(g, 1 .. i)
    BY <2>1, <2>7, <2>9, <2>11, <2>12, <2>13
  <2> QED
    BY <1>4, <2>7, <2>14 DEF Adds, g
<1> QED
  BY <1>7, <1>8

(* Counting the same in another way.                                        *)
LEMMA SumOfImage ==
  ASSUME NEW A, IsFiniteSet(A), NEW f, \A a, b \in A : f[a] = f[b] => a = b,
         NEW v, NEW w, \A a \in A : w[a] = v[f[a]] /\ w[a] \in Fractions
  PROVE  Sum(v, {f[a] : a \in A}) = Sum(w, A)
<1> DEFINE Im(B) == {f[a] : a \in B}
           C == {B \in SUBSET A : Sum(v, Im(B)) # Sum(w, B)}
<1>1. C = {}
  <2> SUFFICES ASSUME C # {} PROVE FALSE
    OBVIOUS
  <2>1. \A B \in C : IsFiniteSet(B)
    BY FS_Subset
  <2>2. PICK B \in C : \A t \in C : Cardinality(B) <= Cardinality(t)
    <3> HIDE DEF C
    <3> QED
      BY <2>1, SmallestExists
  <2>3. B # {}
    <3>1. Im({}) = {}
      OBVIOUS
    <3> HIDE DEF Im
    <3> QED
      BY <2>2, <3>1, SumOfNone
  <2> DEFINE p == Pick(B)
             rest == B \ {p}
  <2>4. p \in B /\ IsFiniteSet(B) /\ B \in SUBSET A /\ Sum(w, B) = Plus(w[p], Sum(w, rest))
    BY <2>1, <2>3, PickIsIn, SumOfPick
  <2>5. /\ Cardinality(rest) < Cardinality(B) /\ Cardinality(rest) \in Nat
        /\ Cardinality(B) \in Nat /\ IsFiniteSet(rest) /\ rest \in SUBSET A
    BY <2>4, Less
  <2> HIDE DEF p
  <2>6. f[p] \in Im(B) /\ Im(B) \ {f[p]} = Im(rest)
    BY <2>4
  <2>7. IsFiniteSet(Im(B)) /\ \A e \in Im(B) : v[e] \in Fractions
    <3>1. IsFiniteSet(Im(B))
      <4>1. [a \in B |-> f[a]] \in Surjection(B, Im(B))
        BY DEF Surjection
      <4> HIDE DEF Im
      <4> QED
        BY <2>4, <4>1, FS_Surjection
    <3> QED
      BY <2>4, <3>1
  <2>8. Sum(v, Im(B)) = Plus(v[f[p]], Sum(v, Im(rest)))
    <3> HIDE DEF Im, rest
    <3> QED
      BY <2>6, <2>7, SumRemove
  <2> HIDE DEF rest, Im
  <2>9. Sum(v, Im(rest)) = Sum(w, rest)
    BY <2>2, <2>5
  <2> QED
    BY <2>2, <2>4, <2>8, <2>9
<1> QED
  BY <1>1

-----------------------------------------------------------------------------
(* A movement, a row and a request, with any cost.                          *)
IsMovement(mv) ==
    /\ mv = [type |-> mv.type, qty |-> mv.qty, cost |-> mv.cost,
             reversedBy |-> mv.reversedBy, createdAt |-> mv.createdAt]
    /\ mv.type \in {"RECEIPT", "ISSUE"} /\ mv.qty \in Nat \ {0}

IsRow(row) ==
    /\ row = [id |-> row.id, type |-> row.type, qty |-> row.qty, cost |-> row.cost,
              reversedBy |-> row.reversedBy]
    /\ row.id \in DOMAIN movements
    /\ row.type = movements[row.id].type /\ row.qty = movements[row.id].qty

IsAsked(q) ==
    /\ q = [at |-> q.at, type |-> q.type, qty |-> q.qty, cost |-> q.cost, of |-> q.of]
    /\ q.at \in {"validate", "save", "publish", "saveMark", "done", "lost"}
    /\ q.type \in {"RECEIPT", "ISSUE"} /\ q.qty \in Nat \ {0}

AskedOK ==
    /\ stockReq = [r \in Mover |-> stockReq[r]]
    /\ \A r \in Mover : stockReq[r] = NewRequest \/ IsAsked(stockReq[r])

(* What a request that runs is about to save is in the map. *)
HeldInMap ==
    \A r \in Mover :
        /\ stockReq[r].at \in {"save", "publish", "saveMark"} => r \in DOMAIN movements
        /\ stockReq[r].at \in {"validate", "save", "publish", "saveMark"} /\ stockReq[r].of # None =>
             stockReq[r].of \in DOMAIN movements
        /\ stockReq[r].at = "saveMark" => stockReq[r].of # None

MapOK ==
    /\ DOMAIN movements \subseteq Mover /\ IsFiniteSet(DOMAIN movements)
    /\ movements = [m \in DOMAIN movements |-> movements[m]]
    /\ \A m \in DOMAIN movements : IsMovement(movements[m])

(* createdAt numbers the movements. *)
Numbers == 1 .. Cardinality(DOMAIN movements)

Numbered ==
    /\ \A m \in DOMAIN movements : movements[m].createdAt \in Numbers
    /\ \A m, k \in DOMAIN movements : movements[m].createdAt = movements[k].createdAt => m = k
    /\ \A n \in Numbers : \E m \in DOMAIN movements : movements[m].createdAt = n

At(n) == CHOOSE m \in DOMAIN movements : movements[m].createdAt = n

(* The item is what the movements make of it in their order.                *)
ItemIsApplied == item = Replay([n \in Numbers |-> movements[At(n)]])

RowsOK ==
    /\ Len(stockRows) \in Nat /\ DOMAIN stockRows = 1 .. Len(stockRows)
    /\ stockRows = [k \in DOMAIN stockRows |-> stockRows[k]]
    /\ \A k \in DOMAIN stockRows : IsRow(stockRows[k])
    /\ \A j, k \in DOMAIN stockRows : stockRows[j].id = stockRows[k].id => j = k

RestartInv == AskedOK /\ NotYetMoved /\ HeldInMap /\ MapOK /\ Numbered /\ ItemIsApplied /\ RowsOK

LEMMA AtIs ==
  ASSUME Numbered
  PROVE  /\ \A n \in Numbers : At(n) \in DOMAIN movements /\ movements[At(n)].createdAt = n
         /\ \A m \in DOMAIN movements : At(movements[m].createdAt) = m
<1>1. ASSUME NEW n \in Numbers
      PROVE  At(n) \in DOMAIN movements /\ movements[At(n)].createdAt = n
  <2>1. \E m \in DOMAIN movements : movements[m].createdAt = n
    BY DEF Numbered
  <2> QED
    BY <2>1 DEF At
<1> QED
  BY <1>1 DEF Numbered

(* The quantity of the item, and that of the rows, is what the movements    *)
(* add up to, in whatever order.                                            *)
LEMMA ItemCounts ==
  ASSUME MapOK, Numbered, ItemIsApplied
  PROVE  /\ item.qty \in Int
         /\ Frac(item.qty, 1) = Sum([m \in DOMAIN movements |-> Signed(movements[m])], DOMAIN movements)
<1> DEFINE n == Cardinality(DOMAIN movements)
           s == [k \in Numbers |-> movements[At(k)]]
           f == [k \in Numbers |-> At(k)]
           v == [m \in DOMAIN movements |-> Signed(movements[m])]
           w == [k \in Numbers |-> Signed(s[k])]
<1>1. n \in Nat /\ Numbers = 1 .. n
  BY FS_CardinalityType DEF MapOK, Numbers
<1>2. \A k \in Numbers : f[k] \in DOMAIN movements /\ s[k] = movements[f[k]]
  BY AtIs
<1>3. \A k, j \in Numbers : f[k] = f[j] => k = j
  BY AtIs
<1>4. {f[k] : k \in Numbers} = DOMAIN movements
  BY AtIs DEF Numbered
<1>5. DOMAIN s = Numbers
  OBVIOUS
<1> HIDE DEF n, s, f
<1>6. Moves(s, n)
  BY <1>1, <1>2, <1>5 DEF MapOK, IsMovement, Moves
<1>7. Adds(s, n)
  BY <1>1, <1>6, ReplayAdds
<1>8. item = Replay(s)
  BY DEF ItemIsApplied, s
<1>9. item.qty \in Int /\ Frac(item.qty, 1) = Sum(w, Numbers)
  BY <1>1, <1>7, <1>8 DEF Adds
<1>10. \A k \in Numbers : w[k] = v[f[k]] /\ w[k] \in Fractions
  <2> SUFFICES ASSUME NEW k \in Numbers PROVE w[k] = v[f[k]] /\ Signed(s[k]) \in Fractions
    OBVIOUS
  <2> DEFINE q == IF s[k].type = "RECEIPT" THEN s[k].qty ELSE -s[k].qty
  <2>1. q \in Int
    BY <1>1, <1>6 DEF Moves
  <2> HIDE DEF q
  <2>2. Signed(s[k]) \in Fractions
    BY <2>1, WholeIs DEF Signed, q
  <2> QED
    BY <1>2, <2>2
<1>11. IsFiniteSet(Numbers)
  BY <1>1, FS_Interval
<1> HIDE DEF v, w
<1>12. Sum(v, {f[k] : k \in Numbers}) = Sum(w, Numbers)
  BY <1>3, <1>10, <1>11, SumOfImage
<1> QED
  BY <1>4, <1>9, <1>12 DEF v

LEMMA RowsCount ==
  ASSUME MapOK, RowsOK, AllSaved
  PROVE  /\ Replay(stockRows).qty \in Int
         /\ Frac(Replay(stockRows).qty, 1)
              = Sum([m \in DOMAIN movements |-> Signed(movements[m])], DOMAIN movements)
<1> DEFINE n == Len(stockRows)
           S == 1 .. n
           f == [k \in S |-> stockRows[k].id]
           v == [m \in DOMAIN movements |-> Signed(movements[m])]
           w == [k \in S |-> Signed(stockRows[k])]
<1>1. n \in Nat /\ DOMAIN stockRows = S
  BY DEF RowsOK
<1>2. \A k \in S : /\ f[k] \in DOMAIN movements
                   /\ stockRows[k].type = movements[f[k]].type /\ stockRows[k].qty = movements[f[k]].qty
  BY <1>1 DEF RowsOK, IsRow
<1>3. \A k, j \in S : f[k] = f[j] => k = j
  BY <1>1 DEF RowsOK
<1>4. {f[k] : k \in S} = DOMAIN movements
  BY <1>1 DEF AllSaved, Saved
<1> HIDE DEF n, f
<1>5. Moves(stockRows, n)
  BY <1>1, <1>2 DEF MapOK, IsMovement, Moves
<1>6. Adds(stockRows, n)
  BY <1>1, <1>5, ReplayAdds
<1>7. Replay(stockRows).qty \in Int /\ Frac(Replay(stockRows).qty, 1) = Sum(w, S)
  BY <1>1, <1>6 DEF Adds
<1>8. \A k \in S : w[k] = v[f[k]] /\ w[k] \in Fractions
  <2> SUFFICES ASSUME NEW k \in S PROVE w[k] = v[f[k]] /\ Signed(stockRows[k]) \in Fractions
    OBVIOUS
  <2> DEFINE q == IF stockRows[k].type = "RECEIPT" THEN stockRows[k].qty ELSE -stockRows[k].qty
  <2>1. q \in Int
    BY <1>5 DEF Moves
  <2> HIDE DEF q
  <2>2. Signed(stockRows[k]) \in Fractions
    BY <2>1, WholeIs DEF Signed, q
  <2>3. Signed(stockRows[k]) = Signed(movements[f[k]])
    BY <1>2 DEF Signed
  <2> QED
    BY <1>2, <2>2, <2>3
<1>9. IsFiniteSet(S)
  BY <1>1, FS_Interval
<1> HIDE DEF v, w, S
<1>10. Sum(v, {f[k] : k \in S}) = Sum(w, S)
  BY <1>3, <1>8, <1>9, SumOfImage
<1> QED
  BY <1>4, <1>7, <1>10 DEF v

(* Rows that are all there, and in order, are numbered as their movements.  *)
LEMMA OrderIsCreatedAt ==
  ASSUME MapOK, Numbered, RowsOK, AllSaved, InOrder
  PROVE  \A j \in DOMAIN stockRows : movements[stockRows[j].id].createdAt = j
<1> DEFINE c == [k \in DOMAIN stockRows |-> movements[stockRows[k].id].createdAt]
           Bad == {j \in DOMAIN stockRows : c[j] # j}
           R == OpToRel(<, Nat)
<1> SUFFICES ASSUME Bad # {} PROVE FALSE
  OBVIOUS
<1>1. DOMAIN stockRows \subseteq Nat \ {0}
  BY DEF RowsOK
<1>2. IsWellFoundedOn(R, Nat)
  BY NatLessThanWellFounded
<1>3. \A i, j \in Nat : i < j => <<i, j>> \in R
  BY DEF OpToRel
<1> HIDE DEF R
<1>4. PICK j \in Bad : \A i \in Bad : ~(<<i, j>> \in R)
  <2>1. Bad \subseteq Nat
    BY <1>1
  <2> HIDE DEF Bad
  <2> QED
    BY <1>2, <2>1, WFMin
<1>5. j \in DOMAIN stockRows /\ c[j] # j /\ \A i \in DOMAIN stockRows : i < j => c[i] = i
  BY <1>1, <1>3, <1>4
<1> HIDE DEF Bad
<1>6. Cardinality(DOMAIN movements) \in Nat
  BY FS_CardinalityType DEF MapOK
<1>7. /\ \A k \in DOMAIN stockRows : c[k] \in Numbers
      /\ \A i, k \in DOMAIN stockRows : c[i] = c[k] => i = k
      /\ \A n \in Numbers : \E k \in DOMAIN stockRows : c[k] = n
  <2>1. \A k \in DOMAIN stockRows : stockRows[k].id \in DOMAIN movements
    BY DEF RowsOK, IsRow
  <2>2. \A m \in DOMAIN movements : \E k \in DOMAIN stockRows : stockRows[k].id = m
    BY DEF AllSaved, Saved
  <2>3. \A i, k \in DOMAIN stockRows : stockRows[i].id = stockRows[k].id => i = k
    BY DEF RowsOK
  <2> QED
    BY <2>1, <2>2, <2>3 DEF Numbered
<1>8. \A i, k \in DOMAIN stockRows : i < k => c[i] < c[k]
  BY DEF InOrder
<1> HIDE DEF c
<1>9. DOMAIN stockRows = 1 .. Len(stockRows) /\ Len(stockRows) \in Nat
  BY DEF RowsOK
<1>10. c[j] \in Nat /\ j \in Nat /\ c[j] >= 1
  BY <1>5, <1>6, <1>7, <1>9 DEF Numbers
<1>11. c[j] > j
  <2> SUFFICES ASSUME c[j] < j PROVE FALSE
    BY <1>5, <1>10
  <2>1. c[j] \in DOMAIN stockRows
    BY <1>5, <1>9, <1>10
  <2>2. c[c[j]] = c[j]
    BY <1>5, <2>1
  <2> QED
    BY <1>5, <1>7, <2>1, <2>2
<1>12. j \in Numbers
  <2>1. c[j] \in Numbers
    BY <1>5, <1>7
  <2> QED
    BY <1>5, <1>6, <1>9, <1>10, <1>11, <2>1 DEF Numbers
<1>13. PICK k \in DOMAIN stockRows : c[k] = j
  BY <1>7, <1>12
<1>14. ~(k < j) /\ k # j
  BY <1>5, <1>13, <1>9
<1>15. k > j
  BY <1>5, <1>9, <1>14
<1>16. c[j] < c[k]
  BY <1>5, <1>8, <1>15, <1>9
<1> QED
  BY <1>10, <1>11, <1>13, <1>16

LEMMA RestartSuffices == RestartInv => RestartRestores
<1> SUFFICES ASSUME RestartInv, AllSaved
             PROVE  /\ Replay(stockRows).qty = item.qty
                    /\ InOrder /\ Exact => Replay(stockRows) = item
  BY DEF RestartRestores
<1>1. MapOK /\ Numbered /\ ItemIsApplied /\ RowsOK
  BY DEF RestartInv
<1>2. Replay(stockRows).qty = item.qty
  BY <1>1, ItemCounts, RowsCount, WholeIs
<1>3. ASSUME InOrder, Exact PROVE Replay(stockRows) = item
  <2> DEFINE s == [n \in Numbers |-> movements[At(n)]]
             n == Len(stockRows)
  <2>1. \A j \in DOMAIN stockRows : movements[stockRows[j].id].createdAt = j
    BY <1>1, <1>3, OrderIsCreatedAt
  <2>2. \A j \in DOMAIN stockRows : j \in Numbers /\ At(j) = stockRows[j].id
    BY <1>1, <2>1, AtIs DEF RowsOK, IsRow, Numbered
  <2>3. Numbers \subseteq DOMAIN stockRows
    <3> SUFFICES ASSUME NEW j \in Numbers PROVE j \in DOMAIN stockRows
      OBVIOUS
    <3>1. At(j) \in DOMAIN movements /\ movements[At(j)].createdAt = j
      BY <1>1, AtIs
    <3>2. PICK k \in DOMAIN stockRows : stockRows[k].id = At(j)
      BY <3>1 DEF AllSaved, Saved
    <3> QED
      BY <2>1, <3>1, <3>2
  <2>4. Numbers = DOMAIN stockRows
    BY <2>2, <2>3
  <2>5. DOMAIN stockRows = 1 .. n /\ n \in Nat /\ DOMAIN s = 1 .. n
    BY <1>1, <2>4 DEF RowsOK
  <2>6. \A j \in 1 .. n : stockRows[j].type = s[j].type /\ stockRows[j].qty = s[j].qty /\ stockRows[j].cost = s[j].cost
    <3> SUFFICES ASSUME NEW j \in 1 .. n
                 PROVE  stockRows[j].type = s[j].type /\ stockRows[j].qty = s[j].qty /\ stockRows[j].cost = s[j].cost
      OBVIOUS
    <3>1. j \in DOMAIN stockRows /\ s[j] = movements[stockRows[j].id]
      BY <2>2, <2>4, <2>5
    <3>2. IsRow(stockRows[j]) /\ movements[stockRows[j].id].cost = stockRows[j].cost
      BY <1>1, <1>3, <3>1 DEF RowsOK, Exact
    <3> QED
      BY <3>1, <3>2 DEF IsRow
  <2>7. item = Replay(s)
    BY <1>1 DEF ItemIsApplied
  <2> HIDE DEF s, n
  <2>8. Replay(stockRows) = Replay(s)
    BY <2>5, <2>6, ReplayAgree
  <2> QED
    BY <2>7, <2>8
<1> QED
  BY <1>2, <1>3

LEMMA RestartInit == StockInit => RestartInv
<1> SUFFICES ASSUME StockInit PROVE RestartInv
  OBVIOUS
<1>1. /\ DOMAIN movements = {} /\ movements = [m \in {} |-> None] /\ stockRows = <<>>
      /\ stockReq = [r \in Mover |-> NewRequest] /\ item = EmptyItem
  BY DEF StockInit, EmptyMap
<1>2. IsFiniteSet({}) /\ Cardinality({}) = 0
  BY FS_EmptySet
<1>3. Numbers = {}
  BY <1>1, <1>2 DEF Numbers
<1>4. AskedOK /\ NotYetMoved /\ HeldInMap
  BY <1>1 DEF AskedOK, NotYetMoved, HeldInMap, NewRequest
<1>5. MapOK /\ Numbered
  BY <1>1, <1>2, <1>3 DEF MapOK, Numbered
<1>6. ItemIsApplied
  <2> DEFINE t == [n \in Numbers |-> movements[At(n)]]
  <2>1. DOMAIN t = {}
    BY <1>3
  <2> HIDE DEF t
  <2>2. Replay(t) = EmptyItem
    BY <2>1, ReplayOfNone
  <2> QED
    BY <1>1, <2>2 DEF ItemIsApplied, t
<1>7. RowsOK
  BY <1>1 DEF RowsOK
<1> QED
  BY <1>4, <1>5, <1>6, <1>7 DEF RestartInv

(* What a step makes of the requests, given what it makes of the map.       *)
LEMMA MoversStay ==
  ASSUME RestartInv, NEW r \in Mover, NEW q, stockReq' = [stockReq EXCEPT ![r] = q], IsAsked(q),
         \/ DOMAIN movements' = DOMAIN movements /\ (q.at = "validate" => stockReq[r].at = "new")
         \/ DOMAIN movements' = DOMAIN movements \cup {r} /\ q.at # "validate",
         q.at \in {"save", "publish", "saveMark"} => r \in DOMAIN movements',
         q.at \in {"validate", "save", "publish", "saveMark"} /\ q.of # None =>
            q.of \in DOMAIN movements,
         q.at = "saveMark" => q.of # None
  PROVE  AskedOK' /\ NotYetMoved' /\ HeldInMap'
<1>1. /\ stockReq = [s \in Mover |-> stockReq[s]]
      /\ \A s \in Mover : stockReq[s] = NewRequest \/ IsAsked(stockReq[s])
  BY DEF RestartInv, AskedOK
<1>2. stockReq'[r] = q /\ \A s \in Mover : s # r => stockReq'[s] = stockReq[s]
  BY <1>1
<1>3. DOMAIN movements \subseteq DOMAIN movements'
  OBVIOUS
<1>4. AskedOK'
  <2>1. stockReq' = [s \in Mover |-> stockReq'[s]]
    BY <1>1
  <2>2. \A s \in Mover : stockReq'[s] = NewRequest \/ IsAsked(stockReq'[s])
    BY <1>1, <1>2
  <2> QED
    BY <2>1, <2>2 DEF AskedOK, IsAsked
<1>5. NotYetMoved'
  <2> SUFFICES ASSUME NEW s \in Mover, stockReq'[s].at \in {"new", "validate"}
               PROVE  s \notin DOMAIN movements'
    BY DEF NotYetMoved
  <2>1. CASE s # r
    <3>1. s \notin DOMAIN movements
      BY <1>2, <2>1 DEF RestartInv, NotYetMoved
    <3> QED
      BY <2>1, <3>1
  <2>2. CASE s = r
    <3>1. q.at = "validate"
      BY <1>2, <2>2 DEF IsAsked
    <3>2. stockReq[r].at = "new" /\ DOMAIN movements' = DOMAIN movements
      BY <3>1
    <3> QED
      BY <2>2, <3>2 DEF RestartInv, NotYetMoved
  <2> QED
    BY <2>1, <2>2
<1>6. HeldInMap'
  <2> SUFFICES ASSUME NEW s \in Mover
               PROVE  /\ stockReq'[s].at \in {"save", "publish", "saveMark"} => s \in DOMAIN movements'
                      /\ stockReq'[s].at \in {"validate", "save", "publish", "saveMark"} /\ stockReq'[s].of # None =>
                            stockReq'[s].of \in DOMAIN movements'
                      /\ stockReq'[s].at = "saveMark" => stockReq'[s].of # None
    BY DEF HeldInMap
  <2>1. CASE s # r
    BY <1>2, <1>3, <2>1 DEF RestartInv, HeldInMap
  <2>2. CASE s = r
    BY <1>2, <1>3, <2>2
  <2> QED
    BY <2>1, <2>2
<1> QED
  BY <1>4, <1>5, <1>6

(* A step that at most marks a movement.                                    *)
LEMMA MapStays ==
  ASSUME RestartInv, item' = item, DOMAIN movements' = DOMAIN movements,
         movements' = [m \in DOMAIN movements |-> movements'[m]],
         \A m \in DOMAIN movements :
            \/ movements'[m] = movements[m]
            \/ \E r : movements'[m] = [movements[m] EXCEPT !.reversedBy = r]
  PROVE  MapOK' /\ Numbered' /\ ItemIsApplied' /\ (stockRows' = stockRows => RowsOK')
<1> DEFINE D == DOMAIN movements
<1>1. MapOK /\ Numbered /\ ItemIsApplied /\ RowsOK
  BY DEF RestartInv
<1>2. \A m \in D : /\ IsMovement(movements'[m])
                   /\ movements'[m].type = movements[m].type
                   /\ movements'[m].qty = movements[m].qty
                   /\ movements'[m].cost = movements[m].cost
                   /\ movements'[m].createdAt = movements[m].createdAt
  <2> SUFFICES ASSUME NEW m \in D
               PROVE  /\ IsMovement(movements'[m])
                      /\ movements'[m].type = movements[m].type
                      /\ movements'[m].qty = movements[m].qty
                      /\ movements'[m].cost = movements[m].cost
                      /\ movements'[m].createdAt = movements[m].createdAt
    OBVIOUS
  <2>1. IsMovement(movements[m])
    BY <1>1 DEF MapOK
  <2>2. CASE movements'[m] = movements[m]
    BY <2>1, <2>2
  <2>3. CASE \E r : movements'[m] = [movements[m] EXCEPT !.reversedBy = r]
    <3>1. PICK r : movements'[m] = [movements[m] EXCEPT !.reversedBy = r]
      BY <2>3
    <3> DEFINE mv == movements[m]
               nv == movements'[m]
    <3>2. /\ mv = [type |-> mv.type, qty |-> mv.qty, cost |-> mv.cost,
                   reversedBy |-> mv.reversedBy, createdAt |-> mv.createdAt]
          /\ mv.type \in {"RECEIPT", "ISSUE"} /\ mv.qty \in Nat \ {0}
      BY <2>1 DEF IsMovement
    <3>3. nv = [mv EXCEPT !.reversedBy = r]
      BY <3>1
    <3> HIDE DEF mv, nv
    <3>4. nv = [type |-> mv.type, qty |-> mv.qty, cost |-> mv.cost,
                reversedBy |-> r, createdAt |-> mv.createdAt]
      BY <3>2, <3>3
    <3>5. /\ IsMovement(nv) /\ nv.type = mv.type /\ nv.qty = mv.qty /\ nv.cost = mv.cost
          /\ nv.createdAt = mv.createdAt
      BY <3>2, <3>4 DEF IsMovement
    <3> QED
      BY <3>5 DEF mv, nv
  <2> QED
    BY <2>2, <2>3
<1>3. MapOK'
  BY <1>1, <1>2 DEF MapOK
<1>4. Numbers' = Numbers
  BY DEF Numbers
<1>5. Numbered'
  BY <1>1, <1>2, <1>4 DEF Numbered
<1>6. ItemIsApplied'
  <2> DEFINE s == [n \in Numbers |-> movements[At(n)]]
             t == [n \in Numbers |-> movements'[At(n)']]
             n == Cardinality(D)
  <2>1. \A k \in Numbers : At(k)' = At(k)
    <3> SUFFICES ASSUME NEW k \in Numbers PROVE At(k)' = At(k)
      OBVIOUS
    <3>1. \A m : m \in DOMAIN movements' /\ movements'[m].createdAt = k
                   <=> m \in DOMAIN movements /\ movements[m].createdAt = k
      BY <1>2
    <3>2. (CHOOSE m : m \in DOMAIN movements' /\ movements'[m].createdAt = k)
            = (CHOOSE m : m \in DOMAIN movements /\ movements[m].createdAt = k)
      BY <3>1, Zenon
    <3> QED
      BY <3>2 DEF At
  <2>2. n \in Nat /\ Numbers = 1 .. n
    BY <1>1, FS_CardinalityType DEF MapOK, Numbers
  <2>3. \A k \in Numbers : s[k].type = t[k].type /\ s[k].qty = t[k].qty /\ s[k].cost = t[k].cost
    <3>1. \A k \in Numbers : At(k) \in D
      BY <1>1, AtIs
    <3> QED
      BY <1>2, <2>1, <3>1
  <2>4. DOMAIN s = 1 .. n /\ DOMAIN t = 1 .. n
    BY <2>2
  <2> HIDE DEF s, t, n
  <2>5. Replay(s) = Replay(t)
    BY <2>2, <2>3, <2>4, ReplayAgree
  <2>6. item = Replay(s)
    BY <1>1 DEF ItemIsApplied, s
  <2>7. item' = Replay(t)
    BY <2>5, <2>6
  <2> QED
    BY <1>4, <2>7 DEF ItemIsApplied, t
<1>7. stockRows' = stockRows => RowsOK'
  <2> SUFFICES ASSUME stockRows' = stockRows PROVE RowsOK'
    OBVIOUS
  <2>1. \A k \in DOMAIN stockRows : IsRow(stockRows[k])'
    <3> SUFFICES ASSUME NEW k \in DOMAIN stockRows PROVE IsRow(stockRows[k])'
      OBVIOUS
    <3>1. IsRow(stockRows[k])
      BY <1>1 DEF RowsOK
    <3> QED
      BY <1>2, <3>1 DEF IsRow
  <2> QED
    BY <1>1, <2>1 DEF RowsOK
<1> QED
  BY <1>3, <1>5, <1>6, <1>7

LEMMA UpsertKeeps ==
  ASSUME RowsOK, NEW row, IsRow(row), stockRows' = Upsert(row), UNCHANGED movements
  PROVE  RowsOK'
<1>1. /\ Len(stockRows) \in Nat /\ DOMAIN stockRows = 1 .. Len(stockRows)
      /\ stockRows = [k \in DOMAIN stockRows |-> stockRows[k]]
      /\ \A k \in DOMAIN stockRows : IsRow(stockRows[k])
      /\ \A j, k \in DOMAIN stockRows : stockRows[j].id = stockRows[k].id => j = k
  BY DEF RowsOK
<1>2. \A x : IsRow(x)' <=> IsRow(x)
  BY DEF IsRow
<1>3. CASE row.id \in Saved
  <2>1. stockRows' = [k \in DOMAIN stockRows |-> IF stockRows[k].id = row.id THEN row ELSE stockRows[k]]
    BY <1>3 DEF Upsert
  <2>2. DOMAIN stockRows' = 1 .. Len(stockRows) /\ Len(stockRows') = Len(stockRows)
    <3>1. DOMAIN stockRows' = 1 .. Len(stockRows)
      BY <1>1, <2>1
    <3>2. stockRows' \in Seq({IF stockRows[k].id = row.id THEN row ELSE stockRows[k] : k \in DOMAIN stockRows})
      BY <1>1, <2>1
    <3> QED
      BY <1>1, <3>1, <3>2
  <2>3. \A k \in DOMAIN stockRows' : IsRow(stockRows'[k]) /\ stockRows'[k].id = stockRows[k].id
    BY <1>1, <2>1
  <2>4. stockRows' = [k \in DOMAIN stockRows' |-> stockRows'[k]]
    BY <2>1
  <2>5. \A j, k \in DOMAIN stockRows' : stockRows'[j].id = stockRows'[k].id => j = k
    BY <1>1, <2>2, <2>3
  <2> QED
    BY <1>1, <1>2, <2>2, <2>3, <2>4, <2>5 DEF RowsOK
<1>4. CASE row.id \notin Saved
  <2>1. stockRows' = Append(stockRows, row)
    BY <1>4 DEF Upsert
  <2> DEFINE n == Len(stockRows)
             T == {stockRows[k] : k \in DOMAIN stockRows} \cup {row}
  <2>2. stockRows \in Seq(T) /\ row \in T
    BY <1>1
  <2> HIDE DEF T
  <2>9. stockRows' \in Seq(T)
    BY <2>1, <2>2
  <2>10. stockRows' = [k \in DOMAIN stockRows' |-> stockRows'[k]]
    BY <2>9
  <2>3. /\ Len(stockRows') = n + 1 /\ DOMAIN stockRows' = 1 .. n + 1
        /\ stockRows'[n + 1] = row /\ \A k \in 1 .. n : stockRows'[k] = stockRows[k]
    BY <2>1, <2>2
  <2> HIDE DEF n
  <2>4. n \in Nat /\ DOMAIN stockRows = 1 .. n
    BY <1>1 DEF n
  <2>5. \A k \in DOMAIN stockRows' : IsRow(stockRows'[k])
    BY <1>1, <2>3, <2>4
  <2>6. \A k \in 1 .. n : stockRows'[k].id # stockRows'[n + 1].id
    BY <1>4, <2>3, <2>4 DEF Saved
  <2>7. \A j, k \in DOMAIN stockRows' : stockRows'[j].id = stockRows'[k].id => j = k
    <3> SUFFICES ASSUME NEW j \in 1 .. n + 1, NEW k \in 1 .. n + 1, stockRows'[j].id = stockRows'[k].id
                 PROVE  j = k
      BY <2>3
    <3>1. CASE j \in 1 .. n /\ k \in 1 .. n
      BY <1>1, <2>3, <2>4, <3>1
    <3>2. CASE j = n + 1 /\ k \in 1 .. n
      BY <2>6, <3>2
    <3>3. CASE k = n + 1 /\ j \in 1 .. n
      BY <2>6, <3>3
    <3> QED
      BY <2>4, <3>1, <3>2, <3>3
  <2>8. Len(stockRows') \in Nat /\ DOMAIN stockRows' = 1 .. Len(stockRows')
    BY <2>3, <2>4
  <2> QED
    BY <1>2, <2>3, <2>5, <2>7, <2>8, <2>10 DEF RowsOK
<1> QED
  BY <1>3, <1>4

LEMMA ApplyNumbers ==
  ASSUME RestartInv, NEW r \in Mover, Apply(r)
  PROVE  RestartInv'
<1> DEFINE mv == [type |-> stockReq[r].type, qty |-> stockReq[r].qty, cost |-> CostOf(r),
                  reversedBy |-> None, createdAt |-> Cardinality(DOMAIN movements) + 1]
           D == DOMAIN movements
           n == Cardinality(D)
           q == [stockReq[r] EXCEPT !.at = "save"]
<1>1. /\ stockReq[r].at = "validate"
      /\ item' = Applied(item, mv)
      /\ movements' = [m \in D \cup {r} |-> IF m = r THEN mv ELSE movements[m]]
      /\ stockReq' = [stockReq EXCEPT ![r] = q] /\ stockRows' = stockRows
  BY DEF Apply, Enter, MoveTo
<1>2. /\ AskedOK /\ NotYetMoved /\ HeldInMap /\ MapOK /\ Numbered /\ ItemIsApplied /\ RowsOK
      /\ IsAsked(stockReq[r])
  BY <1>1 DEF RestartInv, AskedOK, NewRequest
<1>3. n \in Nat /\ IsFiniteSet(D) /\ D \subseteq Mover
  BY <1>2, FS_CardinalityType DEF MapOK
<1>4. IsMovement(mv) /\ mv.createdAt = n + 1
  BY <1>2 DEF IsMovement, IsAsked
<1>5. IsAsked(q) /\ q.at = "save" /\ q.of = stockReq[r].of
  BY <1>2 DEF IsAsked
<1>6. stockReq[r].of # None => stockReq[r].of \in D
  BY <1>1, <1>2 DEF HeldInMap
<1>7. r \notin D
  BY <1>1, <1>2 DEF NotYetMoved
<1> HIDE DEF mv, q
<1>8. DOMAIN movements' = D \cup {r}
  BY <1>1
<1>9. movements'[r] = mv /\ \A m \in D : movements'[m] = movements[m]
  BY <1>1, <1>7
<1>10. AskedOK' /\ NotYetMoved' /\ HeldInMap'
  BY <1>1, <1>5, <1>6, <1>8, MoversStay
<1>11. IsFiniteSet(D \cup {r}) /\ Cardinality(D \cup {r}) = n + 1
  BY <1>3, <1>7, FS_AddElement
<1>12. Numbers = 1 .. n /\ Numbers' = 1 .. n + 1
  BY <1>8, <1>11 DEF Numbers
<1>13. MapOK'
  <2>1. movements' = [m \in DOMAIN movements' |-> movements'[m]]
    BY <1>1
  <2>2. \A m \in DOMAIN movements' : IsMovement(movements'[m])
    BY <1>2, <1>4, <1>8, <1>9 DEF MapOK
  <2> QED
    BY <1>3, <1>8, <1>11, <2>1, <2>2 DEF MapOK, IsMovement
<1>14. Numbered'
  <2> HIDE DEF n, D
  <2>1. /\ \A m \in D : movements'[m].createdAt \in 1 .. n
        /\ movements'[r].createdAt = n + 1
    BY <1>2, <1>4, <1>9, <1>12 DEF Numbered, D
  <2>2. \A m \in DOMAIN movements' : movements'[m].createdAt \in Numbers'
    BY <1>3, <1>8, <1>12, <2>1
  <2>3. \A m, k \in DOMAIN movements' : movements'[m].createdAt = movements'[k].createdAt => m = k
    <3>1. \A m, k \in D : movements'[m].createdAt = movements'[k].createdAt => m = k
      BY <1>2, <1>9 DEF Numbered, D
    <3>2. \A m \in D : movements'[m].createdAt # n + 1
      BY <1>3, <2>1
    <3> QED
      BY <1>8, <2>1, <3>1, <3>2
  <2>4. \A k \in Numbers' : \E m \in DOMAIN movements' : movements'[m].createdAt = k
    <3> SUFFICES ASSUME NEW k \in 1 .. n + 1
                 PROVE  \E m \in DOMAIN movements' : movements'[m].createdAt = k
      BY <1>12
    <3>1. CASE k = n + 1
      BY <1>8, <2>1, <3>1
    <3>2. CASE k # n + 1
      <4>1. k \in Numbers
        BY <1>3, <1>12, <3>2
      <4>2. PICK m \in D : movements[m].createdAt = k
        BY <1>2, <4>1 DEF Numbered, D
      <4> QED
        BY <1>8, <1>9, <4>2
    <3> QED
      BY <3>1, <3>2
  <2> QED
    BY <2>2, <2>3, <2>4 DEF Numbered
<1>15. ItemIsApplied'
  <2> DEFINE s == [k \in 1 .. n + 1 |-> movements'[At(k)']]
             t == [k \in 1 .. n |-> movements[At(k)]]
  <2> HIDE DEF n
  <2>1. \A k \in 1 .. n : At(k) \in D /\ At(k)' = At(k)
    <3> SUFFICES ASSUME NEW k \in 1 .. n PROVE At(k) \in D /\ At(k)' = At(k)
      OBVIOUS
    <3>1. At(k) \in D /\ movements[At(k)].createdAt = k
      BY <1>2, <1>12, AtIs
    <3>2. \A m : m \in DOMAIN movements' /\ movements'[m].createdAt = k
                   <=> m \in DOMAIN movements /\ movements[m].createdAt = k
      <4>1. k # n + 1
        BY <1>3
      <4> QED
        BY <1>4, <1>8, <1>9, <4>1
    <3>3. (CHOOSE m : m \in DOMAIN movements' /\ movements'[m].createdAt = k)
            = (CHOOSE m : m \in DOMAIN movements /\ movements[m].createdAt = k)
      BY <3>2, Zenon
    <3> QED
      BY <3>1, <3>3 DEF At
  <2>2. \A i : i = n + 1 => At(i)' = r
    <3> SUFFICES ASSUME NEW i, i = n + 1 PROVE At(i)' = r
      OBVIOUS
    <3>1. \A m : m \in DOMAIN movements' /\ movements'[m].createdAt = i <=> m = r
      <4>1. \A m \in D : movements[m].createdAt # n + 1
        BY <1>2, <1>3, <1>12 DEF Numbered
      <4> QED
        BY <1>4, <1>8, <1>9, <4>1
    <3>2. r \in DOMAIN movements' /\ movements'[r].createdAt = i
      BY <3>1
    <3> QED
      BY <3>1, <3>2, Zenon DEF At
  <2>3. \A k \in 1 .. n : t[k] = s[k]
    <3> SUFFICES ASSUME NEW k \in 1 .. n PROVE t[k] = s[k]
      OBVIOUS
    <3>1. k \in 1 .. n + 1
      BY <1>3
    <3> QED
      BY <1>9, <2>1, <3>1
  <2>4. s[n + 1] = mv
    <3>1. n + 1 \in 1 .. n + 1
      BY <1>3
    <3> QED
      BY <1>9, <2>2, <3>1
  <2>5. DOMAIN s = 1 .. n + 1 /\ DOMAIN t = 1 .. n
    OBVIOUS
  <2>6. item = Replay(t)
    BY <1>2, <1>12 DEF ItemIsApplied
  <2>8. ItemIsApplied' <=> item' = Replay(s)
    BY <1>12 DEF ItemIsApplied
  <2> HIDE DEF s, t
  <2>7. Replay(s) = Applied(Replay(t), s[n + 1])
    BY <1>3, <2>3, <2>5, ReplayStep
  <2> QED
    BY <1>1, <2>4, <2>6, <2>7, <2>8
<1>16. RowsOK'
  <2>1. \A k \in DOMAIN stockRows : IsRow(stockRows[k])'
    <3> SUFFICES ASSUME NEW k \in DOMAIN stockRows PROVE IsRow(stockRows[k])'
      OBVIOUS
    <3>1. IsRow(stockRows[k])
      BY <1>2 DEF RowsOK
    <3> QED
      BY <1>1, <1>8, <1>9, <3>1 DEF IsRow
  <2> QED
    BY <1>1, <1>2, <2>1 DEF RowsOK
<1> QED
  BY <1>10, <1>13, <1>14, <1>15, <1>16 DEF RestartInv

(* A restart numbers the movements as the rows are numbered, and applies    *)
(* the rows in this order.                                                  *)
LEMMA CrashNumbers ==
  ASSUME RestartInv, RestartStock
  PROVE  RestartInv'
<1> DEFINE n == Len(stockRows)
           K(m) == CHOOSE j \in DOMAIN stockRows : stockRows[j].id = m
<1>1. /\ AskedOK /\ NotYetMoved /\ HeldInMap /\ MapOK /\ RowsOK
      /\ n \in Nat /\ DOMAIN stockRows = 1 .. n
      /\ \A k \in 1 .. n : IsRow(stockRows[k])
      /\ \A j, k \in 1 .. n : stockRows[j].id = stockRows[k].id => j = k
  BY DEF RestartInv, RowsOK
<1>2. /\ item' = Replay(stockRows) /\ stockRows' = stockRows
      /\ movements' = [m \in Saved |->
                         [type |-> stockRows[K(m)].type, qty |-> stockRows[K(m)].qty, cost |-> stockRows[K(m)].cost,
                          reversedBy |-> stockRows[K(m)].reversedBy, createdAt |-> K(m)]]
      /\ stockReq' = [r \in Mover |-> IF Moving(r) THEN [stockReq[r] EXCEPT !.at = "lost"] ELSE stockReq[r]]
  BY DEF RestartStock
<1>3. \A m \in Saved : K(m) \in 1 .. n /\ stockRows[K(m)].id = m
  <2> SUFFICES ASSUME NEW m \in Saved PROVE K(m) \in 1 .. n /\ stockRows[K(m)].id = m
    OBVIOUS
  <2>1. \E j \in DOMAIN stockRows : stockRows[j].id = m
    BY DEF Saved
  <2> QED
    BY <1>1, <2>1
<1>4. \A k \in 1 .. n : stockRows[k].id \in Saved /\ K(stockRows[k].id) = k
  <2> SUFFICES ASSUME NEW k \in 1 .. n PROVE stockRows[k].id \in Saved /\ K(stockRows[k].id) = k
    OBVIOUS
  <2>1. stockRows[k].id \in Saved
    BY <1>1 DEF Saved
  <2>2. K(stockRows[k].id) \in 1 .. n /\ stockRows[K(stockRows[k].id)].id = stockRows[k].id
    BY <1>3, <2>1
  <2> HIDE DEF K
  <2> QED
    BY <1>1, <2>1, <2>2
<1> HIDE DEF n, K
<1>5. Saved \subseteq DOMAIN movements
  BY <1>1 DEF Saved, IsRow
<1>6. IsFiniteSet(Saved) /\ Cardinality(Saved) = n
  <2> DEFINE f == [k \in 1 .. n |-> stockRows[k].id]
  <2>1. f \in [1 .. n -> Saved]
    BY <1>4
  <2>2. \A a, b \in DOMAIN f : f[a] = f[b] => a = b
    BY <1>1
  <2>3. \A m \in Saved : \E k \in 1 .. n : f[k] = m
    BY <1>3
  <2>4. IsFiniteSet(1 .. n) /\ Cardinality(1 .. n) = n
    BY <1>1, FS_Interval
  <2> HIDE DEF f
  <2>5. f \in Bijection(1 .. n, Saved)
    BY <2>1, <2>2, <2>3 DEF Bijection, Injection, Surjection, IsInjective
  <2>6. ExistsBijection(1 .. n, Saved)
    BY <2>5 DEF ExistsBijection
  <2> QED
    BY <2>4, <2>6, FS_Bijection
<1>7. DOMAIN movements' = Saved /\ Numbers' = 1 .. n
  BY <1>2, <1>6 DEF Numbers
<1>8. \A m \in Saved :
         /\ movements'[m] = [type |-> stockRows[K(m)].type, qty |-> stockRows[K(m)].qty, cost |-> stockRows[K(m)].cost,
                             reversedBy |-> stockRows[K(m)].reversedBy, createdAt |-> K(m)]
         /\ movements'[m].createdAt = K(m)
  BY <1>2
<1>9. \A k \in 1 .. n : /\ stockRows[k].type \in {"RECEIPT", "ISSUE"}
                        /\ stockRows[k].qty \in Nat \ {0}
  BY <1>1 DEF IsRow, MapOK, IsMovement
<1>10. AskedOK' /\ NotYetMoved' /\ HeldInMap'
  <2>1. \A r \in Mover :
           \/ stockReq'[r] = NewRequest /\ stockReq[r] = NewRequest
           \/ IsAsked(stockReq'[r]) /\ stockReq'[r].at \in {"done", "lost"}
    <3> SUFFICES ASSUME NEW r \in Mover
                 PROVE  \/ stockReq'[r] = NewRequest /\ stockReq[r] = NewRequest
                        \/ IsAsked(stockReq'[r]) /\ stockReq'[r].at \in {"done", "lost"}
      OBVIOUS
    <3>1. stockReq'[r] = IF Moving(r) THEN [stockReq[r] EXCEPT !.at = "lost"] ELSE stockReq[r]
      BY <1>2
    <3>2. CASE stockReq[r] = NewRequest
      BY <3>1, <3>2 DEF Moving, NewRequest
    <3>3. CASE IsAsked(stockReq[r])
      BY <3>1, <3>3 DEF Moving, IsAsked
    <3> QED
      BY <1>1, <3>2, <3>3 DEF AskedOK
  <2>2. AskedOK'
    <3>1. stockReq' = [r \in Mover |-> stockReq'[r]]
      BY <1>2
    <3> QED
      BY <2>1, <3>1 DEF AskedOK, IsAsked
  <2>3. NotYetMoved'
    <3> SUFFICES ASSUME NEW r \in Mover, stockReq'[r].at \in {"new", "validate"}
                 PROVE  r \notin DOMAIN movements'
      BY DEF NotYetMoved
    <3>1. stockReq[r].at = "new"
      BY <2>1 DEF NewRequest
    <3>2. r \notin DOMAIN movements
      BY <1>1, <3>1 DEF NotYetMoved
    <3> QED
      BY <1>5, <1>7, <3>2
  <2>4. HeldInMap'
    <3> SUFFICES ASSUME NEW r \in Mover
                 PROVE  stockReq'[r].at \notin {"validate", "save", "publish", "saveMark"}
      BY DEF HeldInMap
    <3> QED
      BY <2>1 DEF NewRequest
  <2> QED
    BY <2>2, <2>3, <2>4
<1>11. MapOK'
  <2>1. \A m \in DOMAIN movements' : IsMovement(movements'[m])
    <3> SUFFICES ASSUME NEW m \in Saved PROVE IsMovement(movements'[m])
      BY <1>7
    <3> DEFINE mv == movements'[m]
               row == stockRows[K(m)]
               k == K(m)
    <3>1. /\ mv = [type |-> row.type, qty |-> row.qty, cost |-> row.cost,
                   reversedBy |-> row.reversedBy, createdAt |-> k]
          /\ row.type \in {"RECEIPT", "ISSUE"} /\ row.qty \in Nat \ {0}
      BY <1>3, <1>8, <1>9
    <3> HIDE DEF mv, row, k
    <3>2. IsMovement(mv)
      BY <3>1 DEF IsMovement
    <3> QED
      BY <3>2 DEF mv
  <2>2. movements' = [m \in DOMAIN movements' |-> movements'[m]]
    BY <1>2
  <2>3. DOMAIN movements' \subseteq Mover
    BY <1>1, <1>5, <1>7 DEF MapOK
  <2> QED
    BY <1>6, <1>7, <2>1, <2>2, <2>3 DEF MapOK, IsMovement
<1>12. Numbered'
  <2>1. \A m \in Saved : movements'[m].createdAt \in 1 .. n
    BY <1>3, <1>8
  <2>2. \A m, k \in Saved : movements'[m].createdAt = movements'[k].createdAt => m = k
    BY <1>3, <1>8
  <2>3. \A k \in 1 .. n : \E m \in Saved : movements'[m].createdAt = k
    BY <1>4, <1>8
  <2> QED
    BY <1>7, <2>1, <2>2, <2>3 DEF Numbered
<1>13. ItemIsApplied'
  <2> DEFINE s == [k \in 1 .. n |-> movements'[At(k)']]
  <2>1. \A k \in 1 .. n : At(k)' = stockRows[k].id
    <3> SUFFICES ASSUME NEW k \in 1 .. n PROVE At(k)' = stockRows[k].id
      OBVIOUS
    <3>1. \A m : m \in DOMAIN movements' /\ movements'[m].createdAt = k <=> m = stockRows[k].id
      BY <1>3, <1>4, <1>7, <1>8
    <3>2. stockRows[k].id \in DOMAIN movements' /\ movements'[stockRows[k].id].createdAt = k
      BY <3>1
    <3> QED
      BY <3>1, <3>2, Zenon DEF At
  <2>2. \A k \in 1 .. n : s[k].type = stockRows[k].type /\ s[k].qty = stockRows[k].qty /\ s[k].cost = stockRows[k].cost
    <3> SUFFICES ASSUME NEW k \in 1 .. n
                 PROVE  s[k].type = stockRows[k].type /\ s[k].qty = stockRows[k].qty /\ s[k].cost = stockRows[k].cost
      OBVIOUS
    <3>1. s[k] = movements'[stockRows[k].id]
      BY <2>1
    <3>2. stockRows[k].id \in Saved /\ K(stockRows[k].id) = k
      BY <1>4
    <3> DEFINE mv == movements'[stockRows[k].id]
               row == stockRows[k]
    <3>3. mv = [type |-> row.type, qty |-> row.qty, cost |-> row.cost,
                reversedBy |-> row.reversedBy, createdAt |-> k]
      BY <1>8, <3>2
    <3> HIDE DEF mv, row
    <3>4. mv.type = row.type /\ mv.qty = row.qty /\ mv.cost = row.cost
      BY <3>3
    <3>5. s[k] = mv
      BY <3>1 DEF mv
    <3> HIDE DEF s
    <3> QED
      BY <3>4, <3>5 DEF row
  <2>3. DOMAIN s = 1 .. n /\ DOMAIN stockRows = 1 .. n
    BY <1>1
  <2>4. ItemIsApplied' <=> item' = Replay(s)
    BY <1>7 DEF ItemIsApplied
  <2> HIDE DEF s
  <2>5. Replay(s) = Replay(stockRows)
    BY <1>1, <2>2, <2>3, ReplayAgree
  <2> QED
    BY <1>2, <2>4, <2>5
<1>14. RowsOK'
  <2>1. \A k \in 1 .. n : IsRow(stockRows[k])'
    <3> SUFFICES ASSUME NEW k \in 1 .. n PROVE IsRow(stockRows[k])'
      OBVIOUS
    <3>1. IsRow(stockRows[k])
      BY <1>1
    <3>2. stockRows[k].id \in Saved /\ K(stockRows[k].id) = k
      BY <1>4
    <3> QED
      BY <1>2, <1>7, <1>8, <3>1, <3>2 DEF IsRow
  <2>2. stockRows' = stockRows /\ DOMAIN stockRows = 1 .. n
    BY <1>1, <1>2
  <2> QED
    BY <1>1, <2>1, <2>2 DEF RowsOK
<1> QED
  BY <1>10, <1>11, <1>12, <1>13, <1>14 DEF RestartInv

LEMMA StepRestarts ==
  ASSUME RestartInv, NEW r \in Mover, MovementStep(r)
  PROVE  RestartInv'
<1>1. /\ AskedOK /\ NotYetMoved /\ HeldInMap /\ MapOK /\ Numbered /\ ItemIsApplied /\ RowsOK
      /\ stockReq[r] = NewRequest \/ IsAsked(stockReq[r])
      /\ \A m \in DOMAIN movements : IsMovement(movements[m])
  BY DEF RestartInv, AskedOK, MapOK
<1>2. ASSUME UNCHANGED <<item, movements>>
      PROVE  MapOK' /\ Numbered' /\ ItemIsApplied' /\ (stockRows' = stockRows => RowsOK')
  <2>1. movements' = [m \in DOMAIN movements |-> movements'[m]]
    BY <1>1, <1>2 DEF MapOK
  <2> QED
    BY <1>2, <2>1, MapStays
<1>3. ASSUME NEW at \in {"publish", "saveMark", "done"}, MoveTo(r, at),
             stockReq[r].at \in {"validate", "save", "publish", "saveMark"},
             at # "done" => stockReq[r].at # "validate",
             at = "saveMark" => stockReq[r].of # None, DOMAIN movements' = DOMAIN movements
      PROVE  AskedOK' /\ NotYetMoved' /\ HeldInMap'
  <2> DEFINE q == [stockReq[r] EXCEPT !.at = at]
  <2>1. IsAsked(stockReq[r])
    BY <1>1, <1>3 DEF NewRequest
  <2>2. IsAsked(q) /\ q.at = at /\ q.of = stockReq[r].of
    BY <2>1 DEF IsAsked
  <2>3. stockReq' = [stockReq EXCEPT ![r] = q]
    BY <1>3 DEF MoveTo
  <2>4. at # "done" => r \in DOMAIN movements
    BY <1>1, <1>3 DEF HeldInMap
  <2>5. stockReq[r].of # None => stockReq[r].of \in DOMAIN movements
    BY <1>1, <1>3 DEF HeldInMap
  <2> HIDE DEF q
  <2>6. q.at # "validate"
    BY <2>2
  <2>7. q.at \in {"save", "publish", "saveMark"} => r \in DOMAIN movements'
    BY <1>3, <2>2, <2>4
  <2>8. q.at \in {"validate", "save", "publish", "saveMark"} /\ q.of # None =>
           q.of \in DOMAIN movements
    BY <2>2, <2>5
  <2>9. q.at = "saveMark" => q.of # None
    BY <1>3, <2>2
  <2> QED
    BY <1>3, <2>2, <2>3, <2>6, <2>7, <2>8, <2>9, MoversStay
<1>4. ASSUME NEW type \in {"RECEIPT", "ISSUE"}, NEW qty \in Nat \ {0}, NEW cost, NEW m,
             m # None => m \in DOMAIN movements, stockReq[r] = NewRequest,
             stockReq' = [stockReq EXCEPT ![r] = [at |-> "validate", type |-> type, qty |-> qty,
                                        cost |-> cost, of |-> m]],
             UNCHANGED <<item, movements, stockRows>>
      PROVE  RestartInv'
  <2> DEFINE q == [at |-> "validate", type |-> type, qty |-> qty, cost |-> cost, of |-> m]
  <2>1. IsAsked(q) /\ q.at = "validate" /\ q.of = m
    BY <1>4 DEF IsAsked
  <2>2. stockReq' = [stockReq EXCEPT ![r] = q] /\ stockReq[r].at = "new"
    BY <1>4 DEF NewRequest
  <2> HIDE DEF q
  <2>3. AskedOK' /\ NotYetMoved' /\ HeldInMap'
    BY <1>4, <2>1, <2>2, MoversStay
  <2> QED
    BY <1>2, <1>4, <2>3 DEF RestartInv
<1>5. ASSUME NEW m, m \in DOMAIN movements, NEW mark
      PROVE  IsRow(Row(m, [movements[m] EXCEPT !.reversedBy = mark]))
  <2> DEFINE mv == movements[m]
             nv == [mv EXCEPT !.reversedBy = mark]
  <2>1. mv = [type |-> mv.type, qty |-> mv.qty, cost |-> mv.cost,
              reversedBy |-> mv.reversedBy, createdAt |-> mv.createdAt]
    BY <1>1, <1>5 DEF IsMovement
  <2>2. nv.type = mv.type /\ nv.qty = mv.qty
    <3> HIDE DEF mv
    <3> QED
      BY <2>1
  <2> QED
    BY <1>5, <2>2 DEF IsRow, Row
<1>6. ASSUME NEW qty \in Quantity, NEW cost, Record(r, "RECEIPT", qty, cost)
      PROVE  RestartInv'
  <2>1. qty \in Nat \ {0}
    BY InventoryAssumption
  <2> QED
    BY <1>4, <1>6, <2>1 DEF Record
<1>7. ASSUME NEW qty \in Quantity, Record(r, "ISSUE", qty, None)
      PROVE  RestartInv'
  <2>1. qty \in Nat \ {0}
    BY InventoryAssumption
  <2> QED
    BY <1>4, <1>7, <2>1 DEF Record
<1>8. ASSUME NEW m \in Mover, ReverseMovement(r, m)
      PROVE  RestartInv'
  <2>1. IsMovement(movements[m]) /\ m \in DOMAIN movements
    BY <1>1, <1>8 DEF ReverseMovement
  <2>2. Opposite(movements[m].type) \in {"RECEIPT", "ISSUE"} /\ movements[m].qty \in Nat \ {0}
    BY <2>1 DEF IsMovement, Opposite
  <2> QED
    BY <1>4, <1>8, <2>1, <2>2 DEF ReverseMovement
<1>9. CASE RefuseMovement(r)
  <2>1. AskedOK' /\ NotYetMoved' /\ HeldInMap'
    BY <1>3, <1>9 DEF RefuseMovement
  <2> QED
    BY <1>2, <1>9, <2>1 DEF RefuseMovement, RestartInv
<1>10. CASE FailMovement(r)
  <2>1. AskedOK' /\ NotYetMoved' /\ HeldInMap'
    BY <1>3, <1>10 DEF FailMovement
  <2> QED
    BY <1>2, <1>10, <2>1 DEF FailMovement, RestartInv
<1>11. CASE SaveMovement(r)
  <2>1. AskedOK' /\ NotYetMoved' /\ HeldInMap'
    BY <1>3, <1>11 DEF SaveMovement
  <2>2. r \in DOMAIN movements
    BY <1>1, <1>11 DEF SaveMovement, HeldInMap
  <2>3. IsRow(Row(r, [movements[r] EXCEPT !.reversedBy = None]))
    BY <1>5, <2>2
  <2>4. RowsOK'
    BY <1>1, <1>11, <2>3, UpsertKeeps DEF SaveMovement
  <2> QED
    BY <1>2, <1>11, <2>1, <2>4 DEF SaveMovement, RestartInv
<1>12. CASE SaveMark(r) /\ stockReq[r].of # None
  <2>1. AskedOK' /\ NotYetMoved' /\ HeldInMap'
    BY <1>3, <1>12 DEF SaveMark
  <2>2. stockReq[r].of \in DOMAIN movements
    BY <1>1, <1>12 DEF SaveMark, HeldInMap
  <2>3. IsRow(Row(stockReq[r].of, [movements[stockReq[r].of] EXCEPT !.reversedBy = r]))
    BY <1>5, <2>2
  <2>4. RowsOK'
    BY <1>1, <1>12, <2>3, UpsertKeeps DEF SaveMark
  <2> QED
    BY <1>2, <1>12, <2>1, <2>4 DEF SaveMark, RestartInv
<1>13. CASE PublishMovement(r)
  <2>1. CASE stockReq[r].of = None
    <3>1. AskedOK' /\ NotYetMoved' /\ HeldInMap'
      BY <1>3, <1>13, <2>1 DEF PublishMovement
    <3> QED
      BY <1>2, <1>13, <2>1, <3>1 DEF PublishMovement, RestartInv
  <2>2. CASE stockReq[r].of # None
    <3> DEFINE m == stockReq[r].of
    <3>1. /\ item' = item /\ stockRows' = stockRows /\ MoveTo(r, "saveMark") /\ stockReq[r].at = "publish"
          /\ movements' = [movements EXCEPT ![m].reversedBy = r]
      BY <1>13, <2>2 DEF PublishMovement
    <3>8. m # None
      BY <2>2
    <3> HIDE DEF m
    <3>2. movements = [k \in DOMAIN movements |-> movements[k]]
      BY <1>1 DEF MapOK
    <3>3. DOMAIN movements' = DOMAIN movements
      BY <3>1
    <3>4. movements' = [k \in DOMAIN movements |-> movements'[k]]
      BY <3>1
    <3>5. \A k \in DOMAIN movements :
             \/ movements'[k] = movements[k]
             \/ \E x : movements'[k] = [movements[k] EXCEPT !.reversedBy = x]
      BY <3>1
    <3>6. AskedOK' /\ NotYetMoved' /\ HeldInMap'
      BY <1>3, <3>1, <3>3, <3>8 DEF m
    <3>7. MapOK' /\ Numbered' /\ ItemIsApplied' /\ RowsOK'
      BY <3>1, <3>3, <3>4, <3>5, MapStays
    <3> QED
      BY <3>6, <3>7 DEF RestartInv
  <2> QED
    BY <2>1, <2>2
<1>14. CASE Apply(r)
  BY <1>14, ApplyNumbers
<1>15. SaveMark(r) => stockReq[r].of # None
  BY <1>1 DEF SaveMark, HeldInMap
<1> QED
  BY <1>6, <1>7, <1>8, <1>9, <1>10, <1>11, <1>12, <1>13, <1>14, <1>15 DEF MovementStep

LEMMA RestartStep == RestartInv /\ [StockNext]_stockVars => RestartInv'
<1> SUFFICES ASSUME RestartInv, [StockNext]_stockVars PROVE RestartInv'
  OBVIOUS
<1>1. CASE RestartStock
  BY <1>1, CrashNumbers
<1>2. ASSUME NEW r \in Mover, MovementStep(r) PROVE RestartInv'
  BY <1>2, StepRestarts
<1>3. CASE UNCHANGED stockVars
  <2>1. /\ AskedOK /\ NotYetMoved /\ HeldInMap /\ MapOK /\ Numbered /\ ItemIsApplied /\ RowsOK
        /\ movements' = [m \in DOMAIN movements |-> movements'[m]]
    BY <1>3 DEF stockVars, RestartInv, MapOK
  <2>2. MapOK' /\ Numbered' /\ ItemIsApplied' /\ RowsOK'
    BY <1>3, <2>1, MapStays DEF stockVars
  <2>3. AskedOK' /\ NotYetMoved' /\ HeldInMap'
    BY <1>3, <2>1 DEF stockVars, AskedOK, IsAsked, NotYetMoved, HeldInMap
  <2> QED
    BY <2>2, <2>3 DEF RestartInv
<1> QED
  BY <1>1, <1>2, <1>3 DEF StockNext

(* Once all movements are saved, starting the service again finds the       *)
(* quantity there is now, whatever order the saves took, and the average    *)
(* cost too if no save overtook another and no cost was rounded             *)
(* (onModuleInit), for any movements and any number of restarts.            *)
THEOREM RestartsRestore == StockSpec => []RestartRestores
  BY RestartInit, RestartStep, RestartSuffices, PTL DEF StockSpec

=============================================================================
