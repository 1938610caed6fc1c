------------------------------ MODULE Purchasing ------------------------------
(***************************************************************************)
(* How documents become posted bills in the operations service: the EDI    *)
(* inbox (application/edi/edi-inbox.service.ts), createBill and postBill   *)
(* (application/bills/bill.service.ts), the bill repository with its cache *)
(* (infrastructure/bill.repository.ts), and the compliance client that     *)
(* validates them with the service, or by its cached rules.                *)
(*                                                                         *)
(* One process.  Bills and EDI items are objects in maps; a list replaces  *)
(* them by new objects made from rows that were read one await before, and *)
(* so does a lookup of a bill that the map did not have.  A request keeps  *)
(* the object it has found.  A bill has the id of the request that creates *)
(* it; what happens after it is posted is the subject of BillService.      *)
(***************************************************************************)
EXTENDS Compliance, Sequences, FiniteSets

CONSTANTS Request,     \* requests to the service
          Item,        \* EDI items
          Laws,        \* the tax categories of each deployment of compliance
          Documents,   \* the invoices and bills that users enter
          Scene,       \* what to look at together: operations and events, and
                       \* how many requests
          MaxPolls,    \* bound on polls of the bundle
          MaxOutages,  \* bound on times the compliance service goes away
          MaxCrashes,  \* bound on restarts of the process
          MaxFailures  \* bound on saves that throw

None == [none |-> TRUE]

ASSUME PurchasingAssumption ==
    /\ Laws \in Seq(SUBSET STRING) /\ Laws # <<>> /\ Laws[1] = TaxCategories
    /\ \A k \in DOMAIN Laws : "VAT-00-NO" \in Laws[k]
    \* ids of requests (and their bills) and of items are different texts
    /\ Request \cap Item = {} /\ None \notin Request \cup Item
    /\ Documents \subseteq Document(UNION {Laws[k] : k \in DOMAIN Laws}, Mains \X (0 .. 9))
    /\ {MaxPolls, MaxOutages, MaxCrashes, MaxFailures} \subseteq Nat

VARIABLES law,       \* the deployment of compliance that answers
          version,   \* the version of its bundle, which starts at 1
          up,        \* whether it can be reached
          client,    \* [version, law] of the client, law 0 before the first poll
          polls,     \* answers with a bundle that are on their way
          items,     \* items[i]: the object of an EDI item in the map
          itemRow,   \* the table ops_edi_inbox
          bills,     \* bills[b]: the status of the object in the map
          billRow,   \* the table of bills
          doc,       \* doc[b]: the contents of the bill that b creates, the
                     \* item it is made from, the law it was accepted by, and
                     \* whether its stock was received
          req,       \* req[r]: the request and where it is
          published, \* published[b]: how often billPosted was published
          polled, outages, crashes, failures,
          raced,     \* history: a request overlapped another about its object
          refused,   \* history: requests refused what was accepted before
          scene

complianceVars == <<law, version, up, client, polls, polled, outages>>
tables == <<itemRow, billRow>>
history == <<raced, refused>>
vars == <<law, version, up, client, polls, items, itemRow, bills, billRow, doc, req,
          published, polled, outages, crashes, failures, raced, refused, scene>>

-----------------------------------------------------------------------------
Cached == [cached |-> TRUE]
New == [at |-> "new"]
Done == [at |-> "done"]

Init ==
    /\ law = 1 /\ version = 1 /\ up = TRUE
    /\ client = [version |-> 0, law |-> 0]
    /\ polls = {}
    /\ items = [i \in Item |-> None]
    /\ itemRow = [i \in Item |-> None]
    /\ bills = [b \in Request |-> "none"]
    /\ billRow = [b \in Request |-> "none"]
    /\ doc = [b \in Request |-> None]
    /\ req = [r \in Request |-> New]
    /\ published = [b \in Request |-> 0]
    /\ polled = 0 /\ outages = 0 /\ crashes = 0 /\ failures = 0
    /\ raced = {} /\ refused = {}
    /\ scene \in Scene

Running(r) == req[r].at \notin {"new", "done"}
Goto(r, at) == req' = [req EXCEPT ![r].at = at]
Finish(r) == req' = [req EXCEPT ![r] = Done]

\* A post that awaits its lookup in the table.
LooksUp(rec) == rec.at \in {"find", "found"}

\* A request begins.  Two requests about an object race, except that posts
\* may overlap each other once the bill is in the map.
Begin(r, rec) ==
    /\ req[r] = New
    /\ Cardinality({q \in Request : req[q] # New}) < scene.requests
    /\ rec.op \in scene.events
    /\ req' = [req EXCEPT ![r] = rec]
    /\ LET others == {q \in Request : /\ Running(q)
                                      /\ \/ {req[q].op, rec.op} # {"post"}
                                         \/ LooksUp(req[q]) \/ LooksUp(rec)}
       IN  raced' = raced \cup UNION {req[q].touches \cap rec.touches : q \in others}

\* The object that a request holds is the one in the map until a list puts
\* another there; who holds the old one shares it.
Holds(rs, q, i) == "obj" \in DOMAIN rs[q] /\ rs[q].holds = i
Held(map, r) == IF req[r].obj = Cached THEN map[req[r].holds] ELSE req[r].obj.val

Detach(map, ids, r) ==
    [q \in Request |->
        IF \E i \in ids : Holds(req, q, i) /\ req[q].obj = Cached
        THEN [req[q] EXCEPT !.obj = [by |-> r, at |-> req[r].at, val |-> map[req[q].holds]]]
        ELSE req[q]]

\* The object that r holds goes into the map, in place of the one there.
PutBack(map, r) ==
    [q \in Request |->
        CASE Holds(req, q, req[r].holds) /\ req[q].obj = req[r].obj ->
               [req[q] EXCEPT !.obj = Cached]
          [] Holds(req, q, req[r].holds) /\ req[q].obj = Cached /\ req[r].obj # Cached ->
               [req[q] EXCEPT !.obj = [by |-> r, at |-> req[r].at, val |-> map[req[r].holds]]]
          [] OTHER -> req[q]]

ClientTaxes == IF client.law = 0 THEN {} ELSE Laws[client.law]

\* validateOrThrow: by the service when it answers, else by the fallback.
Accepted(context, d) ==
    IF up THEN Violations(context, d, Laws[law]) = {}
          ELSE LocalViolations(context, d, ClientTaxes) = {}

\* The law that the service applies, or 0 when the fallback decides.
AcceptedBy == IF up THEN law ELSE 0

Body(d, i) == [body |-> d, item |-> i, by |-> 0, received |-> FALSE]

-----------------------------------------------------------------------------
(* The compliance service: refreshCache counts the version up; a deployment *)
(* with other categories starts it at 1 again.                              *)
RefreshCache ==
    /\ "law" \in scene.events /\ version < 2
    /\ version' = version + 1
    /\ UNCHANGED <<law, up, client, polls, items, tables, bills, doc, req, published,
                   polled, outages, crashes, failures, history, scene>>

Deploy ==
    /\ "law" \in scene.events
    /\ law < Len(Laws)
    /\ law' = law + 1 /\ version' = 1
    /\ UNCHANGED <<up, client, polls, items, tables, bills, doc, req, published,
                   polled, outages, crashes, failures, history, scene>>

Outage ==
    /\ "outage" \in scene.events
    /\ IF up THEN outages < MaxOutages /\ outages' = outages + 1 ELSE UNCHANGED outages
    /\ up' = ~up
    /\ UNCHANGED <<law, version, client, polls, items, tables, bills, doc, req,
                   published, polled, crashes, failures, history, scene>>

GetBundle == [version |-> version, law |-> law]

(* refreshBundle: the request that the timer sends, and its answer.         *)
Poll ==
    /\ "law" \in scene.events
    /\ up /\ polled < MaxPolls
    /\ polls' = polls \cup {GetBundle}
    /\ polled' = polled + 1
    /\ UNCHANGED <<law, version, up, client, items, tables, bills, doc, req, published,
                   outages, crashes, failures, history, scene>>

RefreshBundle ==
    /\ \E a \in polls :
         /\ polls' = polls \ {a}
         /\ client' = IF a.version = client.version THEN client ELSE a
    /\ UNCHANGED <<law, version, up, items, tables, bills, doc, req, published, polled,
                   outages, crashes, failures, history, scene>>

-----------------------------------------------------------------------------
(* createInboxItem, once send has validated the invoice.                    *)
CreateInboxItem(r, i, d) ==
    /\ items[i] = None /\ itemRow[i] = None
    /\ Accepted("invoice", d)
    /\ Begin(r, [op |-> "deliver", at |-> "saveItem", item |-> i, touches |-> {i},
                 row |-> [status |-> "PENDING", bill |-> None, doc |-> d, by |-> AcceptedBy]])
    /\ items' = [items EXCEPT ![i] = [status |-> "PENDING", bill |-> None, doc |-> d,
                                      by |-> AcceptedBy]]
    /\ UNCHANGED <<complianceVars, tables, bills, doc, published, crashes, failures,
                   refused, scene>>

SaveItem(r) ==
    /\ req[r].at = "saveItem"
    /\ itemRow' = [itemRow EXCEPT ![req[r].item] = req[r].row]
    /\ Finish(r)
    /\ UNCHANGED <<complianceVars, items, bills, billRow, doc, published, crashes,
                   failures, history, scene>>

(* Mutant: an item that is imported already can be imported again. *)
ImportAgain(r, i) ==
    /\ items[i] # None
    /\ Begin(r, [op |-> "import", at |-> "validate", holds |-> i, obj |-> Cached,
                 touches |-> {i, r}])
    /\ doc' = [doc EXCEPT ![r] = Body(Imported(items[i].doc), i)]
    /\ UNCHANGED <<complianceVars, items, tables, bills, published, crashes, failures,
                   refused, scene>>

(* importToBill up to the validation in createBill: an item that is not in  *)
(* the map is read from the table; one that is IMPORTED is refused.         *)
ImportToBill(r, i) ==
    LET object == IF items[i] # None THEN items[i] ELSE itemRow[i] IN
    /\ object # None
    /\ object.status # "IMPORTED"
    /\ Begin(r, [op |-> "import", at |-> "validate", holds |-> i, obj |-> Cached,
                 touches |-> {i, r}])
    /\ items' = [items EXCEPT ![i] = object]
    /\ doc' = [doc EXCEPT ![r] = Body(Imported(object.doc), i)]
    /\ UNCHANGED <<complianceVars, tables, bills, published, crashes, failures,
                   refused, scene>>

(* createBill of a user, for goods that go into stock or not.               *)
CreateBill(r, d) ==
    /\ \E stock \in {FALSE, "stock" \in scene.events} :
          Begin(r, [op |-> "create", at |-> "validate", stock |-> stock, touches |-> {r}])
    /\ doc' = [doc EXCEPT ![r] = Body(d, None)]
    /\ UNCHANGED <<complianceVars, items, tables, bills, published, crashes, failures,
                   refused, scene>>

\* An import should not be refused when the service accepted its invoice.
ImportPromised(r) ==
    req[r].op = "import" /\ Held(items, r).by # 0 /\ Held(items, r).doc.text # "uuid"

(* The validation and the constructors end; save puts the bill into the map.*)
Validate(r) ==
    /\ req[r].at = "validate"
    /\ IF Accepted("bill", doc[r].body) /\ Constructible(doc[r].body)
       THEN /\ bills' = [bills EXCEPT ![r] = "DRAFT"]
            /\ doc' = [doc EXCEPT ![r].by = AcceptedBy]
            /\ Goto(r, "saveBill")
            /\ UNCHANGED refused
       ELSE /\ Finish(r)
            /\ refused' = IF ImportPromised(r) THEN refused \cup {r} ELSE refused
            /\ UNCHANGED <<bills, doc>>
    /\ UNCHANGED <<complianceVars, items, tables, published, crashes, failures, raced, scene>>

(* Mutant: the item is updated before its bill is saved. *)
SaveBillLate(r) ==
    /\ req[r].at = "saveBill" /\ req[r].op = "import"
    /\ items' = [items EXCEPT ![req[r].holds].status = "IMPORTED", ![req[r].holds].bill = r]
    /\ req' = [req EXCEPT ![r] = [op |-> "import", at |-> "updateItem", item |-> @.holds,
                                  touches |-> @.touches]]
    /\ UNCHANGED <<complianceVars, tables, bills, doc, published, crashes, failures,
                   history, scene>>

(* The row of the bill is stored.  Its stock is received next; an import    *)
(* marks the item it holds, which nobody sees when it is not the one in the *)
(* map any more.                                                            *)
SaveBill(r) ==
    /\ req[r].at = "saveBill"
    /\ billRow' = [billRow EXCEPT ![r] = "DRAFT"]
    /\ IF req[r].op = "create"
       THEN (IF req[r].stock THEN Goto(r, "receive") ELSE Finish(r)) /\ UNCHANGED items
       ELSE /\ items' = IF req[r].obj = Cached
                        THEN [items EXCEPT ![req[r].holds].status = "IMPORTED",
                                           ![req[r].holds].bill = r]
                        ELSE items
            /\ req' = [req EXCEPT ![r] = [op |-> "import", at |-> "updateItem",
                                          item |-> @.holds, touches |-> @.touches]]
    /\ UNCHANGED <<complianceVars, itemRow, bills, doc, published, crashes, failures,
                   history, scene>>

(* recordMovement of a RECEIPT (its steps are in Inventory), whose note     *)
(* names the bill.  It is refused when the line has no SKU, and also when   *)
(* the identifier of the bill looks like personal data to the service; the  *)
(* bill stays.                                                              *)
Receive(r) ==
    /\ req[r].at = "receive"
    /\ \/ Accepted("inventory", doc[r].body) /\ doc' = [doc EXCEPT ![r].received = TRUE]
       \/ UNCHANGED doc
    /\ Finish(r)
    /\ UNCHANGED <<complianceVars, items, tables, bills, published, crashes, failures,
                   history, scene>>

(* The row of the item is updated, if it was ever stored.                   *)
UpdateItem(r) ==
    /\ req[r].at = "updateItem"
    /\ itemRow' = [itemRow EXCEPT ![req[r].item] =
                     IF @ = None THEN None ELSE [@ EXCEPT !.status = "IMPORTED", !.bill = r]]
    /\ Finish(r)
    /\ UNCHANGED <<complianceVars, items, bills, billRow, doc, published, crashes,
                   failures, history, scene>>

-----------------------------------------------------------------------------
(* postBill up to its validation, which it awaits with a bill in hand: the  *)
(* object in the map, or one made from the row that its lookup has read,    *)
(* which goes into the map, whatever is there by then.                      *)
PostBill(r, b) ==
    /\ bills[b] # "none"
    /\ Begin(r, [op |-> "post", at |-> "check", holds |-> b, obj |-> Cached, touches |-> {b}])
    /\ UNCHANGED <<complianceVars, items, tables, bills, doc, published, crashes, failures,
                   refused, scene>>

FindBill(r, b) ==
    /\ bills[b] = "none" /\ billRow[b] # "none"
    /\ Begin(r, [op |-> "post", at |-> "find", bill |-> b, touches |-> {b}])
    /\ UNCHANGED <<complianceVars, items, tables, bills, doc, published, crashes, failures,
                   refused, scene>>

ReadBill(r) ==
    /\ req[r].at = "find"
    /\ req' = [req EXCEPT ![r] = [op |-> "post", at |-> "found", bill |-> @.bill,
                                  row |-> billRow[@.bill], touches |-> @.touches]]
    /\ UNCHANGED <<complianceVars, items, tables, bills, doc, published, crashes, failures,
                   history, scene>>

BillFound(r) ==
    /\ req[r].at = "found"
    /\ bills' = [bills EXCEPT ![req[r].bill] = req[r].row]
    /\ req' = [Detach(bills, {req[r].bill}, r) EXCEPT ![r] =
                 [op |-> "post", at |-> "check", holds |-> @.bill, obj |-> Cached,
                  touches |-> @.touches]]
    /\ UNCHANGED <<complianceVars, items, tables, doc, published, crashes, failures,
                   history, scene>>

\* A post should not be refused when the law that accepted the bill is in
\* force, and the client has the categories of that law.
PostPromised(r) ==
    /\ doc[req[r].holds].by = law
    /\ client.law = law \/ (client.law = 0 /\ law = 1)
    /\ Held(bills, r) = "DRAFT"

(* Mutant: the bill in the map is posted, not the one in hand. *)
CheckTheMap(r) ==
    /\ req[r].at = "check"
    /\ LET b == req[r].holds IN
         IF Accepted("bill", doc[b].body) /\ IsValidTaxId(doc[b].body.tax, ClientTaxes)
         THEN /\ bills' = [bills EXCEPT ![b] = "POSTED"]
              /\ req' = [req EXCEPT ![r] = [op |-> "post", at |-> "writeBill", bill |-> b,
                                            touches |-> @.touches]]
         ELSE Finish(r) /\ UNCHANGED bills
    /\ UNCHANGED <<complianceVars, items, tables, doc, published, crashes, failures,
                   history, scene>>

(* The validation ends: post tests the status and the categories the client *)
(* knows, and save puts the bill in hand into the map.                      *)
Check(r) ==
    /\ req[r].at = "check"
    /\ LET b == req[r].holds
           lawful == Accepted("bill", doc[b].body) /\ IsValidTaxId(doc[b].body.tax, ClientTaxes) IN
         IF lawful /\ Held(bills, r) = "DRAFT"
         THEN /\ bills' = [bills EXCEPT ![b] = "POSTED"]
              /\ req' = [PutBack(bills, r) EXCEPT ![r] =
                           [op |-> "post", at |-> "writeBill", bill |-> b, touches |-> @.touches]]
              /\ UNCHANGED refused
         ELSE /\ Finish(r)
              /\ refused' = IF ~lawful /\ PostPromised(r) THEN refused \cup {r} ELSE refused
              /\ UNCHANGED bills
    /\ UNCHANGED <<complianceVars, items, tables, doc, published, crashes, failures,
                   raced, scene>>

WriteBill(r) ==
    /\ req[r].at = "writeBill"
    /\ billRow' = [billRow EXCEPT ![req[r].bill] = "POSTED"]
    /\ Goto(r, "publish")
    /\ UNCHANGED <<complianceVars, items, itemRow, bills, doc, published, crashes,
                   failures, history, scene>>

Publish(r) ==
    /\ req[r].at = "publish"
    /\ published' = [published EXCEPT ![req[r].bill] = @ + 1]
    /\ Finish(r)
    /\ UNCHANGED <<complianceVars, items, tables, bills, doc, crashes, failures,
                   history, scene>>

-----------------------------------------------------------------------------
(* list and listByStatus of the bills, and the inbox with its PENDING rows: *)
(* the rows are read, and objects made from them replace those in the map.  *)
ListBills(r) ==
    /\ LET list == [b \in {b \in Request : billRow[b] # "none"} |-> billRow[b]] IN
         Begin(r, [op |-> "listBills", at |-> "fillBills", list |-> list,
                   touches |-> DOMAIN list])
    /\ UNCHANGED <<complianceVars, items, tables, bills, doc, published, crashes,
                   failures, refused, scene>>

FillBills(r) ==
    /\ req[r].at = "fillBills"
    /\ LET list == req[r].list IN
         /\ bills' = [b \in Request |-> IF b \in DOMAIN list THEN list[b] ELSE bills[b]]
         /\ req' = [Detach(bills, DOMAIN list, r) EXCEPT ![r] = Done]
    /\ UNCHANGED <<complianceVars, items, tables, doc, published, crashes, failures,
                   history, scene>>

ListForTenant(r) ==
    /\ LET pending == {i \in Item : itemRow[i] # None /\ itemRow[i].status = "PENDING"} IN
         Begin(r, [op |-> "listInbox", at |-> "fillInbox",
                   list |-> [i \in pending |-> itemRow[i]], touches |-> pending])
    /\ UNCHANGED <<complianceVars, items, tables, bills, doc, published, crashes,
                   failures, refused, scene>>

FillInbox(r) ==
    /\ req[r].at = "fillInbox"
    /\ LET list == req[r].list IN
         /\ items' = [i \in Item |-> IF i \in DOMAIN list THEN list[i] ELSE items[i]]
         /\ req' = [Detach(items, DOMAIN list, r) EXCEPT ![r] = Done]
    /\ UNCHANGED <<complianceVars, tables, bills, doc, published, crashes, failures,
                   history, scene>>

(* A save throws; the map keeps what it has.                                *)
Fail(r) ==
    /\ req[r].at \in {"saveItem", "saveBill", "receive", "updateItem", "writeBill", "publish"}
    /\ "fault" \in scene.events
    /\ failures < MaxFailures /\ failures' = failures + 1
    /\ Finish(r)
    /\ UNCHANGED <<complianceVars, items, tables, bills, doc, published, crashes,
                   history, scene>>

(* The process restarts: the inbox is read, bills are read when asked for,  *)
(* and the client has no bundle until its first poll is answered.           *)
Restart ==
    /\ "fault" \in scene.events
    /\ crashes < MaxCrashes /\ crashes' = crashes + 1
    /\ items' = itemRow
    /\ bills' = [b \in Request |-> "none"]
    /\ client' = [version |-> 0, law |-> 0]
    /\ polls' = {}
    /\ req' = [r \in Request |-> IF Running(r) THEN Done ELSE req[r]]
    /\ UNCHANGED <<law, version, up, tables, doc, published, polled, outages, failures,
                   history, scene>>

-----------------------------------------------------------------------------
Environment == RefreshCache \/ Deploy \/ Outage \/ Poll \/ RefreshBundle \/ Restart

Step(r) ==
    \/ \E i \in Item : ImportToBill(r, i) \/ \E d \in Documents : CreateInboxItem(r, i, d)
    \/ \E d \in Documents : CreateBill(r, d)
    \/ \E b \in Request : PostBill(r, b) \/ FindBill(r, b)
    \/ ReadBill(r) \/ BillFound(r)
    \/ ListBills(r) \/ ListForTenant(r)
    \/ SaveItem(r) \/ Validate(r) \/ SaveBill(r) \/ Receive(r) \/ UpdateItem(r)
    \/ Check(r) \/ WriteBill(r) \/ Publish(r)
    \/ FillBills(r) \/ FillInbox(r) \/ Fail(r)

Next == Environment \/ \E r \in Request : Step(r)

Spec == Init /\ [][Next]_vars

-----------------------------------------------------------------------------
(* Whatever stops or fails on the way, an item that the table has as        *)
(* IMPORTED names a bill that is stored, made from this item, and stock is  *)
(* received only for a bill that is stored.                                 *)
NothingWithoutBill ==
    /\ \A b \in Request : doc[b] # None /\ doc[b].received => billRow[b] # "none"
    /\ \A i \in Item : itemRow[i] # None /\ itemRow[i].status = "IMPORTED" =>
         /\ itemRow[i].bill # None
         /\ billRow[itemRow[i].bill] # "none"
         /\ doc[itemRow[i].bill].item = i

(* An item becomes at most one stored bill, unless a save failed, the       *)
(* process stopped, or two imports, or an import and a list, overlapped.    *)
OneBillPerItem ==
    crashes = 0 /\ failures = 0 =>
        \A i \in Item \ raced : \A b, c \in Request :
            /\ billRow[b] # "none" /\ doc[b].item = i
            /\ billRow[c] # "none" /\ doc[c].item = i
            => b = c

(* However many posts of a bill in the map overlap, and whatever fails or   *)
(* restarts, its event is published once: they share one object and test it *)
(* after the validation.  Not when two objects are about: a list overlaps a *)
(* post, or a post overlaps one that looks the bill up, as each does that   *)
(* comes before the map has it again after a restart.  And not when the     *)
(* late save of an import that made the bill puts DRAFT over its POSTED,    *)
(* which a process that restarts believes.                                  *)
PublishedOnce == \A b \in Request \ raced : published[b] <= 1

(* What the service has accepted is not refused later: the import of an     *)
(* accepted invoice, nor the post of an accepted bill while its law is in   *)
(* force and the client knows it, whether the service answers or not.       *)
AcceptedStaysAccepted == refused = {}
=============================================================================
