--------------------------- MODULE InvoiceService ---------------------------
(***************************************************************************)
(* Invoices in the operations service                                      *)
(* (services/operations/src/application/invoices/invoice.service.ts) and   *)
(* the saga replies about them                                             *)
(* (infrastructure/kafka-ledger-saga.consumer.ts).                         *)
(*                                                                         *)
(* Every process keeps all invoices in a map that it fills from the table  *)
(* when it starts, and never reads them again.  The saga consumer starts   *)
(* beside that: the hooks of one module are not awaited one by one, so a   *)
(* reply may be read while the map is empty.  Requests come when all hooks *)
(* are done.  A request tests the status in the map, and send() then       *)
(* awaits the compliance service, the IAM service, the EDI inbox and one   *)
(* ISSUE movement per inventory line before it changes the status.  Each   *)
(* action below is one such await, up to the next one.                     *)
(*                                                                         *)
(* A movement and an EDI item count once the call that makes them has      *)
(* returned; what happens inside these calls, amounts, and the id of the   *)
(* EDI item kept in the invoice are left out.                              *)
(***************************************************************************)
EXTENDS Naturals, Sequences, FiniteSets

CONSTANTS Invoice,     \* the invoices
          Receiver,    \* the invoices that have a receiverNui
          Lines,       \* Lines[i]: the inventory lines of the invoice i
          Pod,         \* the processes of the operations deployment
          Request,     \* the requests of the users
          MaxSends,    \* bound on the requests that send an invoice
          MaxCrashes,  \* bound on restarts and rebalances
          MaxFailures  \* bound on awaited calls that throw

ASSUME InvoiceAssumption ==
    /\ Receiver \subseteq Invoice
    /\ Lines \in [Invoice -> Nat]
    /\ MaxSends \in Nat
    /\ MaxCrashes \in Nat
    /\ MaxFailures \in Nat

VARIABLES items,          \* items[p][i]: the status in the map of process p
          loading,        \* loading[p]: how far onModuleInit of p is
          rows,           \* rows[i]: the status column of the table
          req,            \* req[r]: the request and where it is
          edi,            \* the requests whose EDI item was delivered
          issued,         \* issued[r]: ISSUE movements the request has made
          published,      \* the requests whose event was stored
          replies,        \* the saga replies of the log ledger.events
          reader,         \* the process its partition is assigned to
          replyPos,       \* the next offset that process reads
          replyCommitted, \* the offset of the consumer group
          settle,         \* the reply being saved
          missed,         \* the invoices of replies read while a map was empty
          crashes, failures

\* Requests and replies alike leave loading alone.
requestVars == <<items, loading, rows, req, edi, issued, published>>
replyVars == <<loading, replies, reader, replyPos, replyCommitted, settle, missed>>
vars == <<items, loading, rows, req, edi, issued, published, replies, reader,
          replyPos, replyCommitted, settle, missed, crashes, failures>>

-----------------------------------------------------------------------------
Status == {"DRAFT", "SENT", "PAID", "REVERSING", "REVERTED"}
Command == {"create", "send", "pay", "reverse"}

New == [at |-> "new"]
Idle == [at |-> "idle"]

\* onModuleInit before its query has answered, and when it has these rows.
Finding == [at |-> "find"]
Found(table) == [at |-> "found", rows |-> table]

Reply == [type : {"stornoPosted", "stornoFailed"}, inv : Invoice]

Init ==
    /\ items = [p \in Pod |-> [i \in Invoice |-> "NONE"]]
    /\ loading = [p \in Pod |-> Idle]
    /\ rows = [i \in Invoice |-> "NONE"]
    /\ req = [r \in Request |-> New]
    /\ edi = {}
    /\ issued = [r \in Request |-> 0]
    /\ published = {}
    /\ replies = <<>>
    /\ reader \in Pod
    /\ replyPos = 1
    /\ replyCommitted = 1
    /\ settle = Idle
    /\ missed = {}
    /\ crashes = 0
    /\ failures = 0

\* The requests of a kind about an invoice that were begun.
Requests(cmd, i) ==
    {r \in Request : req[r] # New /\ req[r].cmd = cmd /\ req[r].inv = i}

Running(r) == req[r].at \notin {"new", "done", "lost"}

Failure == failures < MaxFailures /\ failures' = failures + 1
Crashing == crashes < MaxCrashes /\ crashes' = crashes + 1

\* The status a request gives to its invoice.
Target(cmd) ==
    CASE cmd = "create"  -> "DRAFT"
      [] cmd = "send"    -> "SENT"
      [] cmd = "pay"     -> "PAID"
      [] cmd = "reverse" -> "REVERSING"

Begin(r, cmd, i, p, at) ==
    /\ req[r] = New
    /\ loading[p] = Idle
    /\ req' = [req EXCEPT ![r] = [at |-> at, cmd |-> cmd, inv |-> i, pod |-> p]]

Goto(r, at) == req' = [req EXCEPT ![r].at = at]

-----------------------------------------------------------------------------
(* createDraft after its validation: a fresh id, the map, then the save.    *)
CreateDraft(r, i, p) ==
    /\ Requests("create", i) = {}
    /\ Begin(r, "create", i, p, "save")
    /\ items' = [items EXCEPT ![p][i] = "DRAFT"]
    /\ UNCHANGED <<rows, edi, issued, published, replyVars, crashes, failures>>

(* send up to its first await: the invoice is a DRAFT.                      *)
Send(r, i, p) ==
    /\ items[p][i] = "DRAFT"
    /\ Cardinality(Requests("send", i)) < MaxSends
    /\ Begin(r, "send", i, p, "check")
    /\ UNCHANGED <<items, rows, edi, issued, published, replyVars, crashes, failures>>

(* compliance and IAM agree, and the EDI item of the receiver is saved.     *)
Deliver(r) ==
    /\ req[r].at = "check"
    /\ edi' = IF req[r].inv \in Receiver THEN edi \cup {r} ELSE edi
    /\ Goto(r, "issue")
    /\ UNCHANGED <<items, rows, issued, published, replyVars, crashes, failures>>

(* recordMovement returns for one more inventory line.                      *)
Issue(r) ==
    /\ req[r].at = "issue"
    /\ issued[r] < Lines[req[r].inv]
    /\ issued' = [issued EXCEPT ![r] = @ + 1]
    /\ UNCHANGED <<items, rows, req, edi, published, replyVars, crashes, failures>>

(* The call that is awaited refuses: compliance, an unknown receiver or the *)
(* own company, stock that does not suffice.  What was done stays done.     *)
Refuse(r) ==
    /\ \/ req[r].at = "check"
       \/ req[r].at = "issue" /\ issued[r] < Lines[req[r].inv]
    /\ Goto(r, "done")
    /\ UNCHANGED <<items, rows, edi, issued, published, replyVars, crashes, failures>>

(* Mutant: the invoice is SENT before its stock is issued. *)
SetSentFirst(r) ==
    /\ req[r].at = "issue"
    /\ items' = [items EXCEPT ![req[r].pod][req[r].inv] = "SENT"]
    /\ Goto(r, "save")
    /\ UNCHANGED <<rows, edi, issued, published, replyVars, crashes, failures>>

(* The end of send: the status is set, without another look at it.          *)
SetSent(r) ==
    /\ req[r].at = "issue"
    /\ issued[r] = Lines[req[r].inv]
    /\ items' = [items EXCEPT ![req[r].pod][req[r].inv] = "SENT"]
    /\ Goto(r, "save")
    /\ UNCHANGED <<rows, edi, issued, published, replyVars, crashes, failures>>

(* Mutant: an invoice that is REVERSING can be paid. *)
PayWhileReversing(r, i, p) ==
    /\ items[p][i] \in {"SENT", "REVERSING"}
    /\ Begin(r, "pay", i, p, "save")
    /\ items' = [items EXCEPT ![p][i] = "PAID"]
    /\ UNCHANGED <<rows, edi, issued, published, replyVars, crashes, failures>>

(* pay and reverse up to the save.                                          *)
Pay(r, i, p) ==
    /\ items[p][i] = "SENT"
    /\ Begin(r, "pay", i, p, "save")
    /\ items' = [items EXCEPT ![p][i] = "PAID"]
    /\ UNCHANGED <<rows, edi, issued, published, replyVars, crashes, failures>>

Reverse(r, i, p) ==
    /\ items[p][i] \in {"SENT", "PAID"}
    /\ Begin(r, "reverse", i, p, "save")
    /\ items' = [items EXCEPT ![p][i] = "REVERSING"]
    /\ UNCHANGED <<rows, edi, issued, published, replyVars, crashes, failures>>

(* persist ends; the row was taken from the invoice when it began.  All but *)
(* send have an event to publish.                                           *)
Save(r) ==
    /\ req[r].at = "save"
    /\ rows' = [rows EXCEPT ![req[r].inv] = Target(req[r].cmd)]
    /\ Goto(r, IF req[r].cmd = "send" THEN "done" ELSE "publish")
    /\ UNCHANGED <<items, edi, issued, published, replyVars, crashes, failures>>

Publish(r) ==
    /\ req[r].at = "publish"
    /\ published' = published \cup {r}
    /\ Goto(r, "done")
    /\ UNCHANGED <<items, rows, edi, issued, replyVars, crashes, failures>>

(* An awaited call throws and the request fails; the map keeps its status.  *)
Fail(r) ==
    /\ Running(r)
    /\ Failure
    /\ Goto(r, "done")
    /\ UNCHANGED <<items, rows, edi, issued, published, replyVars, crashes>>

-----------------------------------------------------------------------------
(* The environment: the ledger answers a published request, either way, and *)
(* each invoice at most once (Ledger!OneAnswer).                            *)
Answered(i) == \E k \in DOMAIN replies : replies[k].inv = i

Answer(m) ==
    /\ ~Answered(m.inv)
    /\ Requests("reverse", m.inv) \cap published # {}
    /\ replies' = Append(replies, m)
    /\ UNCHANGED <<requestVars, reader, replyPos, replyCommitted, settle, missed,
                   crashes, failures>>

(* A reply about an invoice that this process does not know, or that is not *)
(* REVERSING, is ignored; a process that still fills its map knows none.    *)
SkipReply ==
    /\ settle = Idle
    /\ replyPos \in DOMAIN replies
    /\ items[reader][replies[replyPos].inv] # "REVERSING"
    /\ replyPos' = replyPos + 1
    /\ missed' = IF loading[reader] = Idle THEN missed
                                           ELSE missed \cup {replies[replyPos].inv}
    /\ UNCHANGED <<requestVars, replies, reader, replyCommitted, settle, crashes, failures>>

\* handleStornoPosted finalises; handleStornoFailed goes back to SENT.
Settled(type) == IF type = "stornoPosted" THEN "REVERTED" ELSE "SENT"

(* Mutant: the status is not tested. *)
HandleReplyUnguarded ==
    /\ settle = Idle
    /\ replyPos \in DOMAIN replies
    /\ LET m == replies[replyPos] IN
         /\ items' = [items EXCEPT ![reader][m.inv] = Settled(m.type)]
         /\ settle' = [at |-> "save", inv |-> m.inv, val |-> Settled(m.type)]
    /\ replyPos' = replyPos + 1
    /\ UNCHANGED <<loading, rows, req, edi, issued, published, replies, reader,
                   replyCommitted, missed, crashes, failures>>

(* handleStornoPosted and handleStornoFailed up to the save.                *)
HandleReply ==
    /\ settle = Idle
    /\ replyPos \in DOMAIN replies
    /\ LET m == replies[replyPos] IN
         /\ items[reader][m.inv] = "REVERSING"
         /\ items' = [items EXCEPT ![reader][m.inv] = Settled(m.type)]
         /\ settle' = [at |-> "save", inv |-> m.inv, val |-> Settled(m.type)]
    /\ replyPos' = replyPos + 1
    /\ UNCHANGED <<loading, rows, req, edi, issued, published, replies, reader,
                   replyCommitted, missed, crashes, failures>>

SaveReply ==
    /\ settle # Idle
    /\ rows' = [rows EXCEPT ![settle.inv] = settle.val]
    /\ settle' = Idle
    /\ UNCHANGED <<items, loading, req, edi, issued, published, replies, reader,
                   replyPos, replyCommitted, missed, crashes, failures>>

(* The save throws; the consumer logs it and goes on.                       *)
SaveReplyError ==
    /\ settle # Idle
    /\ Failure
    /\ settle' = Idle
    /\ UNCHANGED <<requestVars, replies, reader, replyPos, replyCommitted, missed, crashes>>

CommitReply ==
    /\ settle = Idle
    /\ replyCommitted # replyPos
    /\ replyCommitted' = replyPos
    /\ UNCHANGED <<requestVars, replies, reader, replyPos, settle, missed, crashes, failures>>

(* The partition is given to another process, or read again by the same.    *)
Rebalance ==
    /\ settle = Idle
    /\ Crashing
    /\ reader' \in Pod
    /\ replyPos' = replyCommitted
    /\ <<reader', replyPos'>> # <<reader, replyPos>>
    /\ UNCHANGED <<requestVars, replies, replyCommitted, settle, missed, failures>>

(* onModuleInit reads the table, and then fills the map in one step.        *)
ReadRows(p) ==
    /\ loading[p] = Finding
    /\ loading' = [loading EXCEPT ![p] = Found(rows)]
    /\ UNCHANGED <<items, rows, req, edi, issued, published, replies, reader,
                   replyPos, replyCommitted, settle, missed, crashes, failures>>

FillItems(p) ==
    /\ loading[p].at = "found"
    /\ items' = [items EXCEPT ![p] = loading[p].rows]
    /\ loading' = [loading EXCEPT ![p] = Idle]
    /\ UNCHANGED <<rows, req, edi, issued, published, replies, reader,
                   replyPos, replyCommitted, settle, missed, crashes, failures>>

(* A process restarts: its requests are lost and its map is empty; if it    *)
(* was the reader, some process reads on from the offset.                   *)
Restarted(p) ==
    /\ Crashing
    /\ items' = [items EXCEPT ![p] = [i \in Invoice |-> "NONE"]]
    /\ loading' = [loading EXCEPT ![p] = Finding]
    /\ req' = [r \in Request |->
                 IF Running(r) /\ req[r].pod = p THEN [req[r] EXCEPT !.at = "lost"]
                 ELSE req[r]]
    /\ UNCHANGED <<rows, edi, issued, published, replies, replyCommitted, missed, failures>>

(* Mutant: the offset is committed as soon as a message is read. *)
CrashSkips(p) ==
    /\ Restarted(p)
    /\ IF reader = p THEN reader' \in Pod /\ replyPos' = replyPos /\ settle' = Idle
                     ELSE UNCHANGED <<reader, replyPos, settle>>

Crash(p) ==
    /\ Restarted(p)
    /\ IF reader = p THEN reader' \in Pod /\ replyPos' = replyCommitted /\ settle' = Idle
                     ELSE UNCHANGED <<reader, replyPos, settle>>

-----------------------------------------------------------------------------
Step(r) ==
    \/ \E i \in Invoice, p \in Pod :
         CreateDraft(r, i, p) \/ Send(r, i, p) \/ Pay(r, i, p) \/ Reverse(r, i, p)
    \/ Deliver(r) \/ Issue(r) \/ Refuse(r) \/ SetSent(r)
    \/ Save(r) \/ Publish(r) \/ Fail(r)

ReplyStep ==
    \/ SkipReply \/ HandleReply \/ SaveReply \/ SaveReplyError
    \/ CommitReply \/ Rebalance

Next ==
    \/ \E r \in Request : Step(r)
    \/ ReplyStep
    \/ \E m \in Reply : Answer(m)
    \/ \E p \in Pod : Crash(p) \/ ReadRows(p) \/ FillItems(p)

Spec == Init /\ [][Next]_vars

-----------------------------------------------------------------------------
Loading ==
    {Idle, Finding} \cup [at : {"found"}, rows : [Invoice -> Status \cup {"NONE"}]]

RequestState ==
    {New} \cup [at : {"check", "issue", "save", "publish", "done", "lost"},
                cmd : Command, inv : Invoice, pod : Pod]

(* Types of the variables, and the bounds on the faults. *)
TypeOK ==
    /\ items \in [Pod -> [Invoice -> Status \cup {"NONE"}]]
    /\ loading \in [Pod -> Loading]
    /\ rows \in [Invoice -> Status \cup {"NONE"}]
    /\ req \in [Request -> RequestState]
    /\ edi \subseteq Request
    /\ issued \in [Request -> Nat]
    /\ published \subseteq Request
    /\ replies \in Seq(Reply)
    /\ reader \in Pod
    /\ replyPos \in 1 .. Len(replies) + 1
    /\ replyCommitted \in 1 .. replyPos
    /\ settle \in {Idle} \cup [at : {"save"}, inv : Invoice, val : Status]
    /\ missed \subseteq Invoice
    /\ crashes \in 0 .. MaxCrashes
    /\ failures \in 0 .. MaxFailures

\* One send of the invoice reached the receiver and issued all of its stock.
Shipped(i) ==
    \E r \in Requests("send", i) :
       (i \in Receiver => r \in edi) /\ issued[r] = Lines[i]

(* Whatever is refused, fails, restarts or runs twice, in any number of     *)
(* processes: an invoice is past DRAFT, in a map or in the table, only if   *)
(* its receiver has it and all of its stock was issued.                     *)
SentWasShipped ==
    \A i \in Invoice :
        (\E s \in {rows[i]} \cup {items[p][i] : p \in Pod} : s \notin {"NONE", "DRAFT"})
            => Shipped(i)

SentOnce(i) == Cardinality(Requests("send", i)) <= 1

\* A status stays or goes one step along the path of an invoice.
StaysOnPath(p, i) ==
    \/ items'[p][i] = items[p][i]
    \/ <<items[p][i], items'[p][i]>> \in
         {<<"NONE", "DRAFT">>, <<"DRAFT", "SENT">>, <<"SENT", "PAID">>,
          <<"SENT", "REVERSING">>, <<"PAID", "REVERSING">>,
          <<"REVERSING", "REVERTED">>, <<"REVERSING", "SENT">>}

StayOnPath ==
    \A p \in Pod, i \in Invoice :
        loading'[p] = loading[p] /\ SentOnce(i) => StaysOnPath(p, i)

(* With one send per invoice no request that is in flight and no reply,     *)
(* late or repeated, moves an invoice off the path of its life, although    *)
(* send sets SENT without a test.  Only a process that stops or fills its   *)
(* map changes a status otherwise.                                          *)
Lifecycle == [][StayOnPath]_vars

\* A request to reverse is on its way, and no answer to it was handled.
AwaitsAnswer(i) ==
    /\ \E r \in Requests("reverse", i) : Running(r) \/ r \in published
    /\ \A k \in 1 .. replyPos - 1 : replies[k].inv # i

(* While no process restarts, an invoice that is sent once and whose        *)
(* reversal is requested and not answered is REVERSING in the process that  *)
(* took the request.                                                        *)
ReversalExcludes ==
    crashes = 0 => \A i \in Invoice : SentOnce(i) /\ AwaitsAnswer(i) =>
        \A r \in Requests("reverse", i) :
            Running(r) \/ r \in published => items[req[r].pod][i] = "REVERSING"

Quiescent ==
    /\ \A r \in Request : ~Running(r)
    /\ settle = Idle
    /\ replyPos = Len(replies) + 1

Settles(i) ==
    SentOnce(i) /\ Answered(i) /\ Cardinality(Requests("reverse", i)) = 1
        => rows[i] # "REVERSING"

(* When nothing is left to be done, an invoice that is sent once and whose  *)
(* one reversal was answered is not REVERSING in the table, also if the     *)
(* process that handled the answer stopped on the way; unless the answer    *)
(* was read by a process that had not filled its map.                       *)
AnsweredIsSettled ==
    Quiescent /\ failures = 0 => \A i \in Invoice \ missed : Settles(i)

=============================================================================
