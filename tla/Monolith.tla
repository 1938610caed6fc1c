------------------------------- MODULE Monolith -------------------------------
(***************************************************************************)
(* The bills of the single-process application (src/src): BillService and  *)
(* its repository, the domain event bus, the ledger integration, the AI    *)
(* snapshot that reads the ledger's events, and the tax rules that the     *)
(* compliance service pushes.                                              *)
(*                                                                         *)
(* Bills are objects in a map and rows in a table; reading a row makes a   *)
(* new object and puts it into the map.  Events are handled in the call of *)
(* publish, or after Google Pub/Sub has taken them.  The journal and the   *)
(* snapshot live in memory: their tables are written without waiting and   *)
(* never read, so they are left out, and so is the activity log.  Amounts  *)
(* are left out: an entry counts as one, a storno as minus one.            *)
(***************************************************************************)
EXTENDS Integers, Sequences, FiniteSets

CONSTANTS Bill,
          Request,      \* numbers of requests, which begin in this order
          Entered,      \* the tax categories that users enter
          Scene,        \* what to look at together: operations and events
          MaxRefreshes, \* bound on refreshes of the rules
          MaxCrashes,   \* bound on restarts
          MaxFailures   \* bound on saves that throw

ASSUME MonolithAssumption == Request \subseteq Nat /\ {MaxRefreshes, MaxCrashes, MaxFailures} \subseteq Nat

VARIABLES hooks,    \* the onModuleInit hooks that have run
          cache,    \* the categories of ComplianceService
          rules,    \* the categories of TaxRuleService
          items,    \* items[b]: the status of the object in the map
          row,      \* the table of bills
          tax,      \* tax[b]: the category of the lines of b
          req,      \* req[r]: a request and where it is
          entries,  \* the journal; an entry's id is its place
          snapshot, \* snapshot[b]: originals minus stornos that the AI has seen
          bus,      \* events that Pub/Sub has not answered for yet
          lastEvent, refreshes, crashes, failures,
          unsure,   \* history: bills whose requests or events got into each
                    \* other's way, or with a failed save or a restart after
                    \* they were posted
          scene

journal == <<entries, snapshot, bus, lastEvent>>
taxes == <<hooks, cache, rules, refreshes>>
bounds == <<crashes, failures, scene>>
vars == <<taxes, items, row, tax, req, journal, bounds, unsure>>

-----------------------------------------------------------------------------
TaxCategories == {"43", "31", "28", "08"}
Hooks == {"compliance", "taxes"}
New == [at |-> "new"]
Done == [at |-> "done"]
Cached == "cached"

Init ==
    /\ hooks = {} /\ cache = {} /\ rules = {} /\ refreshes = 0
    /\ items = [b \in Bill |-> "none"]
    /\ row = [b \in Bill |-> "none"]
    /\ scene \in Scene
    /\ tax \in {t \in [Bill -> Entered] : \A b \in Bill \ scene.bills : t[b] = "43"}
    /\ req = [r \in Request |-> New]
    /\ entries = <<>>
    /\ snapshot = [b \in Bill |-> 0]
    /\ bus = {} /\ lastEvent = 0
    /\ crashes = 0 /\ failures = 0
    /\ unsure = {}

May(event) == event \in scene.events
MayBegin(r, op) ==
    /\ hooks = Hooks /\ May(op)
    /\ r <= scene.requests /\ req[r] = New /\ \A q \in Request : q < r => req[q] # New

-----------------------------------------------------------------------------
(* The rules.  The two hooks run in either order; a refresh loads the same  *)
(* categories again, and pushes them.                                       *)

\* registerSubscriber: the rules there are so far are pushed at once.
RegisterSubscriber ==
    /\ "taxes" \notin hooks
    /\ hooks' = hooks \cup {"taxes"}
    /\ rules' = cache
    /\ UNCHANGED <<cache, refreshes, items, row, tax, req, journal, bounds, unsure>>

RefreshCache ==
    /\ \/ "compliance" \notin hooks /\ UNCHANGED refreshes
       \/ hooks = Hooks /\ May("refresh") /\ refreshes < MaxRefreshes /\ refreshes' = refreshes + 1
    /\ hooks' = hooks \cup {"compliance"}
    /\ cache' = TaxCategories
    /\ rules' = IF "taxes" \in hooks THEN TaxCategories ELSE rules
    /\ UNCHANGED <<items, row, tax, req, journal, bounds, unsure>>

-----------------------------------------------------------------------------
(* Requests and the objects they hold.                                      *)
Running(r) == req[r].at \notin {"new", "done"}
Touches(r) == IF Running(r) THEN req[r].bills ELSE {}
Finish(r) == req' = [req EXCEPT ![r] = Done]

\* Commands of one kind share the object in the map, which one of them
\* changes; not so when a row is being read or the commands differ.
Harmless(q, op, at) ==
    /\ req[q].op = op \/ "get" \in {op, req[q].op}
    /\ {at, req[q].at} \cap {"read", "fill"} = {}

Begin(r, op, at, bills) ==
    /\ MayBegin(r, op) /\ bills \subseteq scene.bills
    /\ req' = [req EXCEPT ![r] = [op |-> op, at |-> at, bills |-> bills, obj |-> Cached,
                                  found |-> [b \in bills |-> "none"]]]
    /\ unsure' = unsure \cup UNION {Touches(q) \cap bills :
                     q \in {q \in Request : Running(q) /\ ~Harmless(q, op, at)}}
    /\ UNCHANGED <<taxes, items, row, tax, journal, bounds>>

BillOf(r) == CHOOSE b \in req[r].bills : TRUE
Held(r) == IF req[r].obj = Cached THEN items[BillOf(r)] ELSE req[r].obj

\* New objects for these bills: who holds an old one keeps it to itself.
Detach(bills) ==
    [q \in Request |->
        IF Running(q) /\ req[q].at \in {"act", "write", "saved"} /\ req[q].obj = Cached
             /\ req[q].bills \subseteq bills
        THEN [req[q] EXCEPT !.obj = items[BillOf(q)]] ELSE req[q]]

\* createBill: the object is in the map before its row is saved.
CreateBill(r, b) ==
    /\ MayBegin(r, "create") /\ b \in scene.bills
    /\ items[b] = "none" /\ row[b] = "none" /\ \A q \in Request : b \notin Touches(q)
    /\ items' = [items EXCEPT ![b] = "DRAFT"]
    /\ req' = [req EXCEPT ![r] = [op |-> "create", at |-> "write", bills |-> {b}, obj |-> Cached,
                                  found |-> [x \in {b} |-> "DRAFT"]]]
    /\ UNCHANGED <<taxes, row, tax, journal, bounds, unsure>>

\* postBill, reverseBill and getBill look in the map, then in the table.  An
\* id is known when createBill has answered, which is after its save.
FindById(r, op, b) ==
    row[b] # "none" /\ Begin(r, op, IF items[b] = "none" THEN "read" ELSE "act", {b})

\* list and listByStatus take every bill from its row.
ListBills(r, bills) ==
    Begin(r, "list", "read", bills)

\* What the query returns, and the objects made from it when it is back.
ReadRows(r) ==
    /\ req[r].at = "read"
    /\ req' = [req EXCEPT ![r].at = "fill", ![r].found = [b \in req[r].bills |-> row[b]]]
    /\ UNCHANGED <<taxes, items, row, tax, journal, bounds, unsure>>

ToDomain(r) ==
    LET there == {b \in req[r].bills : req[r].found[b] # "none"} IN
    /\ req[r].at = "fill"
    /\ items' = [b \in Bill |-> IF b \in there THEN req[r].found[b] ELSE items[b]]
    /\ req' = [Detach(there) EXCEPT ![r] =
                  IF req[r].op = "list" \/ there = {} THEN Done ELSE [req[r] EXCEPT !.at = "act"]]
    /\ UNCHANGED <<taxes, row, tax, journal, bounds, unsure>>

\* Mutant: the status is not checked.
ChangeUnchecked(op, status, category) ==
    CASE op = "post" -> "POSTED"
      [] op = "reverse" -> "REVERTED"
      [] OTHER -> "refused"

\* The command, and save() up to its await: the object goes into the map.
Change(op, status, category) ==
    CASE op = "post" /\ status = "DRAFT" /\ category \in rules -> "POSTED"
      [] op = "reverse" /\ status = "POSTED" -> "REVERTED"
      [] OTHER -> "refused"

Act(r) ==
    LET b == BillOf(r)  to == Change(req[r].op, Held(r), tax[b]) IN
    /\ req[r].at = "act"
    /\ IF to = "refused" THEN Finish(r) /\ UNCHANGED items
       ELSE /\ items' = [items EXCEPT ![b] = to]
            /\ req' = [q \in Request |->
                  CASE q = r -> [req[r] EXCEPT !.at = "write", !.obj = Cached, !.found[b] = to]
                    [] q # r /\ req[r].obj # Cached /\ Running(q) /\ req[q].bills = {b}
                         /\ req[q].at \in {"act", "write", "saved"} /\ req[q].obj = Cached ->
                         [req[q] EXCEPT !.obj = items[b]]
                    [] OTHER -> req[q]]
    /\ UNCHANGED <<taxes, row, tax, journal, bounds, unsure>>

\* The row is written with the status it had when save was called, or not.
WriteRow(r) ==
    /\ req[r].at = "write"
    /\ row' = [row EXCEPT ![BillOf(r)] = req[r].found[BillOf(r)]]
    /\ req' = [req EXCEPT ![r] = IF req[r].op = "create" THEN Done ELSE [@ EXCEPT !.at = "saved"]]
    /\ UNCHANGED <<taxes, items, tax, journal, bounds, unsure>>

SaveFails(r) ==
    /\ req[r].at = "write" /\ May("fail") /\ failures < MaxFailures
    /\ failures' = failures + 1
    /\ unsure' = unsure \cup {BillOf(r)}
    /\ Finish(r)
    /\ UNCHANGED <<taxes, items, row, tax, journal, crashes, scene>>

-----------------------------------------------------------------------------
(* The bus and its handlers.                                                *)
Originals(b) == {k \in DOMAIN entries : entries[k].bill = b /\ entries[k].kind = "ORIGINAL"}
Open(b) == {k \in Originals(b) : entries[k].reversedBy = 0}
Stornos(b) == {k \in DOMAIN entries : entries[k].bill = b /\ entries[k].kind = "STORNO"}
Sum(b) == Cardinality(Originals(b)) - Cardinality(Stornos(b))

\* onBillPosted
Recorded(b) == Append(entries, [bill |-> b, kind |-> "ORIGINAL", reversedBy |-> 0])

\* Mutant: an original is reversed again.
ReversedAgain(b) ==
    LET found == CHOOSE k \in Originals(b) : TRUE IN
    IF Originals(b) = {} THEN entries
    ELSE Append([entries EXCEPT ![found].reversedBy = Len(entries) + 1],
                [bill |-> b, kind |-> "STORNO", reversedBy |-> 0])

\* onBillRevertRequested: the first original that is not reversed, if any.
Reversed(b) ==
    LET found == CHOOSE k \in Open(b) : \A j \in Open(b) : k <= j IN
    IF Open(b) = {} THEN entries
    ELSE Append([entries EXCEPT ![found].reversedBy = Len(entries) + 1],
                [bill |-> b, kind |-> "STORNO", reversedBy |-> 0])

\* ingestJournalEntry
Ingested(b, delta) == [snapshot EXCEPT ![b] = @ + delta]

\* Whether the bus is connected to Pub/Sub: settled before requests begin.
UsePubSub == scene.pubsub

\* Handlers run in the call; the ledger's own event is published by them.
\* inFlight is what is left on the bus.
DispatchLocally(type, b, delta, inFlight) ==
    LET now == IF type = "billPosted" THEN Recorded(b) ELSE Reversed(b)
        gain == IF type = "billPosted" THEN 1 ELSE -1
        told == [id |-> lastEvent + 1, type |-> "journalEntryPosted", bill |-> b, delta |-> gain]
    IN  CASE type = "journalEntryPosted" ->
               /\ snapshot' = Ingested(b, delta)
               /\ bus' = inFlight /\ UNCHANGED <<entries, lastEvent>>
          [] type # "journalEntryPosted" /\ now = entries ->
               bus' = inFlight /\ UNCHANGED <<entries, snapshot, lastEvent>>
          [] type # "journalEntryPosted" /\ now # entries /\ UsePubSub ->
               /\ entries' = now /\ bus' = inFlight \cup {told}
               /\ lastEvent' = lastEvent + 1 /\ UNCHANGED snapshot
          [] OTHER ->
               /\ entries' = now /\ snapshot' = Ingested(b, gain)
               /\ bus' = inFlight /\ UNCHANGED lastEvent

\* publish, which the request does not wait for.
Publish(r) ==
    LET b == BillOf(r)  type == IF req[r].op = "post" THEN "billPosted" ELSE "billRevertRequested" IN
    /\ req[r].at = "saved"
    /\ IF UsePubSub
       THEN /\ bus' = bus \cup {[id |-> lastEvent + 1, type |-> type, bill |-> b, delta |-> 0]}
            /\ unsure' = unsure \cup
                   {x \in {b} : \E e \in bus : e.bill = b /\ e.type # "journalEntryPosted"}
            /\ lastEvent' = lastEvent + 1 /\ UNCHANGED <<entries, snapshot>>
       ELSE DispatchLocally(type, b, 0, bus) /\ UNCHANGED unsure
    /\ Finish(r)
    /\ UNCHANGED <<taxes, items, row, tax, bounds>>

\* Mutant: an event is handled when it is published, and when it is pulled.
AnsweredAndPulled(e) ==
    /\ e \in bus
    /\ DispatchLocally(e.type, e.bill, e.delta, bus)
    /\ UNCHANGED <<taxes, items, row, tax, req, bounds, unsure>>

\* Pub/Sub has answered, or failed: either way the local handlers run.
Answered(e) ==
    /\ e \in bus
    /\ DispatchLocally(e.type, e.bill, e.delta, bus \ {e})
    /\ UNCHANGED <<taxes, items, row, tax, req, bounds, unsure>>

\* The process starts anew: the rows of bills are all that is left.
Restart ==
    /\ May("crash") /\ crashes < MaxCrashes /\ crashes' = crashes + 1
    /\ hooks' = {} /\ cache' = {} /\ rules' = {}
    /\ items' = [b \in Bill |-> "none"]
    /\ req' = [r \in Request |-> IF Running(r) THEN Done ELSE req[r]]
    /\ entries' = <<>> /\ bus' = {} /\ snapshot' = [b \in Bill |-> 0]
    /\ unsure' = unsure \cup {b \in Bill : row[b] \in {"POSTED", "REVERTED"}}
    /\ UNCHANGED <<row, tax, refreshes, lastEvent, failures, scene>>

-----------------------------------------------------------------------------
Rules == RegisterSubscriber \/ RefreshCache

Requests ==
    \E r \in Request :
        \/ \E b \in Bill : CreateBill(r, b)
        \/ \E b \in Bill, op \in {"post", "reverse", "get"} : FindById(r, op, b)
        \/ \E bills \in SUBSET Bill : ListBills(r, bills)
        \/ ReadRows(r) \/ ToDomain(r) \/ Act(r) \/ WriteRow(r) \/ SaveFails(r) \/ Publish(r)

Next == Rules \/ Requests \/ (\E e \in bus : Answered(e)) \/ Restart

Spec == Init /\ [][Next]_vars

-----------------------------------------------------------------------------
(* Properties.                                                              *)
\* Every storno in the journal reverses one original of the same bill, which
\* names it, and no original is reversed by two: also when events are handled
\* twice or out of order, and over restarts.
StornoOfOne ==
    /\ \A k \in DOMAIN entries :
         entries[k].reversedBy # 0 =>
            /\ entries[k].kind = "ORIGINAL"
            /\ entries[k].reversedBy \in DOMAIN entries
            /\ entries[entries[k].reversedBy].kind = "STORNO"
            /\ entries[entries[k].reversedBy].bill = entries[k].bill
    /\ \A s \in DOMAIN entries : entries[s].kind = "STORNO" =>
         \E k \in DOMAIN entries :
            /\ entries[k].reversedBy = s
            /\ \A j \in DOMAIN entries : entries[j].reversedBy = s => j = k

\* The snapshot of the AI is the journal, less the events that are still on
\* the bus: it misses none and counts none twice.
SnapshotIsJournal ==
    \A b \in Bill :
        LET told == {e \in bus : e.bill = b /\ e.type = "journalEntryPosted"} IN
        Sum(b) = snapshot[b] + Cardinality({e \in told : e.delta = 1})
                             - Cardinality({e \in told : e.delta = -1})

\* When nothing is under way, the status of a bill, its row and its entries
\* say the same: a posted bill has one open original, a reversed one an
\* original and its storno, a draft has none; also when several requests to
\* post a bill, or to reverse it, overlap.  Except for bills whose posting
\* and reversal, or whose reads from the table, overlapped another request,
\* whose save failed, and those posted before a restart, which loses the
\* journal.
BooksAgree ==
    (bus = {} /\ \A r \in Request : ~Running(r)) =>
        \A b \in Bill \ unsure :
            /\ items[b] \in {"none", row[b]}
            /\ Cardinality(Open(b)) = IF row[b] = "POSTED" THEN 1 ELSE 0
            /\ Cardinality(Stornos(b)) = IF row[b] = "REVERTED" THEN 1 ELSE 0
=============================================================================
