---------------------------- MODULE Purchasing_proofs ----------------------------
(***************************************************************************)
(* Proofs about how documents become posted bills (Purchasing), and about  *)
(* the rules of compliance they rest on (Compliance), for every document,  *)
(* every law, any items and requests, and any bounds.                      *)
(*                                                                         *)
(* The rules: the fallback of the client refuses nothing that the service  *)
(* accepts, and the bill made of an accepted invoice is accepted.          *)
(*                                                                         *)
(* The requests: Inv says what a request has in its hands and what that    *)
(* says of maps and rows; Apart, that requests about an object which has   *)
(* not been raced do not overlap, unless they post.  With them go the life *)
(* of an item (ItemLife) and of a bill (BillLife).                         *)
(***************************************************************************)
EXTENDS Purchasing, TLAPS

LEMMA ChartIsKnown == \A a : ~AccountRefused(a) => a \in ChartOfAccounts
  BY DEF AccountRefused

(* The account of imported bills is an expense account with no accounts     *)
(* below it.                                                                *)
LEMMA ImportAccount == ~AccountRefused(<<665, 9>>)
<1>1. 665 \in Expense /\ 665 \in Mains
  BY DEF Expense, Mains
<1>2. 9 \in SubAccounts(665)
  BY DEF SubAccounts
<1>3. <<665, 9>> \in ChartOfAccounts
  BY <1>1, <1>2 DEF ChartOfAccounts
<1>4. IsLeafAccount(<<665, 9>>)
  BY DEF IsLeafAccount
<1> QED
  BY <1>1, <1>3, <1>4 DEF AccountRefused

(* validateLocallyOrThrow (compliance.client.ts) refuses nothing that       *)
(* validate (compliance.service.ts) accepts, whether the client has the     *)
(* categories of the law in force or none yet and the law is the built-in.  *)
THEOREM FallbackIsWeaker ==
  ASSUME NEW taxes, NEW accounts, NEW d \in Document(taxes, accounts),
         NEW context \in {"bill", "invoice", "inventory"}, NEW rules, NEW cached,
         cached = rules \/ (cached = {} /\ rules \subseteq TaxCategories),
         Violations(context, d, rules) = {}
  PROVE  LocalViolations(context, d, cached) = {}
<1>1. CASE context = "bill"
  <2>1. d.flaws = {} /\ d.tax \in rules /\ ~AccountRefused(d.account)
    BY <1>1 DEF Violations
  <2>2. IsValidTaxId(d.tax, cached)
    BY <2>1 DEF IsValidTaxId
  <2>3. IsValidAccountCode(d.account, cached # {})
    BY <2>1, ChartIsKnown DEF IsValidAccountCode
  <2> QED
    BY <1>1, <2>1, <2>2, <2>3 DEF LocalViolations
<1>2. CASE context = "invoice"
  <2>1. d.flaws = {}
    BY <1>2 DEF Violations
  <2> QED
    BY <1>2, <2>1 DEF LocalViolations
<1>3. CASE context = "inventory"
  <2>1. d.flaws \cap {"quantity", "price"} = {}
    BY <1>3 DEF Violations
  <2> QED
    BY <1>3, <2>1 DEF LocalViolations
<1> QED
  BY <1>1, <1>2, <1>3

(* importToBill (edi-inbox.service.ts): the bill that an accepted invoice   *)
(* becomes is accepted under every law that knows VAT-00-NO, and can be     *)
(* constructed, unless the text of the invoice is an identifier.            *)
THEOREM ImportIsAccepted ==
  ASSUME NEW taxes, NEW accounts, NEW d \in Document(taxes, accounts), NEW rules, NEW then,
         Violations("invoice", d, rules) = {}, d.text # "uuid", "VAT-00-NO" \in then
  PROVE  Violations("bill", Imported(d), then) = {} /\ Constructible(Imported(d))
<1> DEFINE bill == Imported(d)
<1>1. d.flaws = {} /\ d.text # "personal"
  BY DEF Violations
<1>2. /\ bill.tax = "VAT-00-NO" /\ bill.account = <<665, 9>>
      /\ bill.flaws = d.flaws \ {"party"} /\ bill.text = d.text
  BY DEF Imported, Document
<1> HIDE DEF bill
<1>3. Violations("bill", bill, then) = {}
  BY <1>1, <1>2, ImportAccount DEF Violations
<1>4. Constructible(bill)
  BY <1>1, <1>2 DEF Constructible
<1> QED
  BY <1>3, <1>4 DEF bill

-----------------------------------------------------------------------------
(* What objects, rows and requests may be.  An object that says by which    *)
(* law it was accepted was accepted by it.                                  *)
Status == {"none", "DRAFT", "POSTED"}
Lawful == 0 .. Len(Laws)
Object ==
    {o \in [status : {"PENDING", "IMPORTED"}, bill : Request \cup {None},
            doc : Documents, by : Lawful] :
        o.by # 0 => Violations("invoice", o.doc, Laws[o.by]) = {}}
Pending == {o \in Object : o.status = "PENDING"}

Bodies == Documents \cup {Imported(d) : d \in Documents}
BillDoc ==
    {d \in [body : Bodies, item : Item \cup {None}, by : Lawful, received : BOOLEAN] :
        d.by # 0 => Violations("bill", d.body, Laws[d.by]) = {}}

Touched == SUBSET (Item \cup Request)

\* The steps that put another object into a map.
Replacing == {"found", "check", "fillBills", "fillInbox"}

Delivering ==
    {q \in [op : {"deliver"}, at : {"saveItem"}, item : Item, touches : Touched, row : Pending] :
        q.touches = {q.item}}
Importing(r) ==
    {q \in [op : {"import"}, at : {"validate", "saveBill"}, holds : Item,
            obj : {Cached} \cup [by : Request, at : Replacing, val : Object],
            touches : Touched] :
        q.touches = {q.holds, r}}
Updating(r) ==
    {q \in [op : {"import"}, at : {"updateItem"}, item : Item, touches : Touched] :
        q.touches = {q.item, r}}
Creating(r) ==
    {q \in [op : {"create"}, at : {"validate", "saveBill", "receive"}, stock : BOOLEAN,
            touches : Touched] : q.touches = {r}}
Finding ==
    {q \in [op : {"post"}, at : {"find"}, bill : Request, touches : Touched] :
        q.touches = {q.bill}}
Found ==
    {q \in [op : {"post"}, at : {"found"}, bill : Request, row : Status \ {"none"},
            touches : Touched] :
        q.touches = {q.bill}}
Checking ==
    {q \in [op : {"post"}, at : {"check"}, holds : Request,
            obj : {Cached} \cup [by : Request, at : Replacing, val : Status],
            touches : Touched] :
        q.touches = {q.holds}}
Writing ==
    {q \in [op : {"post"}, at : {"writeBill", "publish"}, bill : Request, touches : Touched] :
        q.touches = {q.bill}}
ListingBills ==
    {q \in [op : {"listBills"}, at : {"fillBills"},
            list : UNION {[S -> Status \ {"none"}] : S \in SUBSET Request}, touches : Touched] :
        q.touches = DOMAIN q.list}
ListingInbox ==
    {q \in [op : {"listInbox"}, at : {"fillInbox"},
            list : UNION {[S -> Pending] : S \in SUBSET Item}, touches : Touched] :
        q.touches = DOMAIN q.list}

Requests(r) ==
    {New, Done} \cup Delivering \cup Importing(r) \cup Updating(r) \cup Creating(r)
        \cup Finding \cup Found \cup Checking \cup Writing
        \cup ListingBills \cup ListingInbox

RulesOK ==
    /\ law \in 1 .. Len(Laws) /\ version \in Nat
    /\ client \in [version : Nat, law : Lawful]
    /\ polls \subseteq [version : Nat, law : 1 .. Len(Laws)]

TablesOK ==
    /\ items \in [Item -> Object \cup {None}]
    /\ itemRow \in [Item -> Object \cup {None}]
    /\ bills \in [Request -> Status]
    /\ billRow \in [Request -> Status]
    /\ doc \in [Request -> BillDoc \cup {None}]
    /\ published \in [Request -> Nat]

RequestsOK ==
    /\ req = [r \in Request |-> req[r]]
    /\ \A r \in Request : req[r] \in Requests(r)

Typed == RulesOK /\ TablesOK /\ RequestsOK

\* An item that an import holds in the map is there.
Holding(r) ==
    req[r] \in Importing(r) /\ req[r].obj = Cached => items[req[r].holds] # None

\* The bill of b is past its validation.
Known(b) == req[b] # New /\ req[b].at # "validate" /\ doc[b] # None

HasStatus(b) == bills[b] # "none" \/ billRow[b] # "none" \/ published[b] # 0

\* What is posted and listed is past it, and what is looked up is stored.
UsesKnown(r) ==
    /\ req[r] \in Finding \cup Found =>
         Known(req[r].bill) /\ billRow[req[r].bill] # "none"
    /\ req[r] \in Checking => Known(req[r].holds)
    /\ req[r] \in Writing => Known(req[r].bill)
    /\ req[r] \in ListingBills => \A b \in DOMAIN req[r].list : Known(b)

\* The contents of the bill that r is creating.
OwnDoc(r) ==
    /\ req[r] \in Importing(r) =>
         /\ doc[r] # None /\ doc[r].item = req[r].holds
         /\ req[r].at = "validate" => doc[r].body = Imported(Held(items, r).doc)
    /\ req[r] \in Updating(r) =>
         doc[r] # None /\ doc[r].item = req[r].item /\ billRow[r] # "none"
    /\ req[r] \in Creating(r) =>
         /\ doc[r] # None /\ doc[r].item = None
         /\ req[r].at = "receive" => billRow[r] # "none"

Linked ==
    /\ \A b \in Request : HasStatus(b) => Known(b)
    /\ \A r \in Request : Holding(r) /\ UsesKnown(r) /\ OwnDoc(r)

Inv == Typed /\ Linked /\ NothingWithoutBill

-----------------------------------------------------------------------------
(* Ids are not None, and neither are records of other kinds.                *)
LEMMA SomeRecords ==
  /\ \A o \in Object : o # None
  /\ \A d \in BillDoc : d # None
  /\ None \notin Request \cup Item
  BY PurchasingAssumption DEF Object, BillDoc, None

LEMMA Laws1 == Laws \in Seq(SUBSET STRING) /\ Len(Laws) \in Nat /\ 1 \in DOMAIN Laws
               /\ DOMAIN Laws = 1 .. Len(Laws)
  BY PurchasingAssumption

Taxes == UNION {Laws[k] : k \in DOMAIN Laws}

LEMMA DocumentsOK == Documents \subseteq Document(Taxes, Mains \X (0 .. 9))
  BY PurchasingAssumption DEF Taxes

LEMMA BodiesOK == Bodies \subseteq Document(Taxes, Mains \X (0 .. 9))
<1> DEFINE accounts == Mains \X (0 .. 9)
<1>1. "VAT-00-NO" \in Taxes
  BY Laws1, PurchasingAssumption DEF Taxes
<1>2. <<665, 9>> \in accounts
  BY DEF Mains, Expense
<1>3. Documents \subseteq Document(Taxes, accounts)
  BY DocumentsOK
<1> HIDE DEF accounts
<1>4. ASSUME NEW d \in Documents
      PROVE  Imported(d) \in Document(Taxes, accounts)
  <2> DEFINE imports == <<665, 9>>
  <2>1. imports \in accounts
    BY <1>2
  <2>2. d \in Document(Taxes, accounts)
    BY <1>3
  <2>3. IF d.text = "uuid" THEN "personal" \in Text ELSE d.text \in Text
    BY <2>2 DEF Document, Text
  <2> HIDE DEF imports, Taxes
  <2>4. Imported(d) = [d EXCEPT !.tax = "VAT-00-NO", !.account = imports,
                         !.flaws = d.flaws \ {"party"},
                         !.text = IF d.text = "uuid" THEN "personal" ELSE d.text]
    BY DEF Imported, imports
  <2> QED
    BY <1>1, <2>1, <2>2, <2>3, <2>4 DEF Document
<1>5. Bodies \subseteq Document(Taxes, accounts)
  BY <1>3, <1>4 DEF Bodies
<1> QED
  BY <1>5 DEF accounts

(* What a request is, by where it is.                                       *)
LEMMA ShapeAt ==
  ASSUME NEW r, NEW q \in Requests(r)
  PROVE  /\ q.at = "saveItem" => q \in Delivering
         /\ q.at \in {"validate", "saveBill"} => q \in Importing(r) \cup Creating(r)
         /\ q.at = "receive" => q \in Creating(r)
         /\ q.at = "updateItem" => q \in Updating(r)
         /\ q.at = "find" => q \in Finding
         /\ q.at = "found" => q \in Found
         /\ q.at = "check" => q \in Checking
         /\ q.at \in {"writeBill", "publish"} => q \in Writing
         /\ q.at = "fillBills" => q \in ListingBills
         /\ q.at = "fillInbox" => q \in ListingInbox
         /\ q.at = "new" => q = New
         /\ q.at = "done" => q = Done
<1>1. CASE q \in {New, Done}
  BY <1>1 DEF New, Done
<1>2. CASE q \in Delivering
  BY <1>2 DEF Delivering
<1>3. CASE q \in Importing(r)
  BY <1>3 DEF Importing
<1>4. CASE q \in Updating(r)
  BY <1>4 DEF Updating
<1>5. CASE q \in Creating(r)
  BY <1>5 DEF Creating
<1>6. CASE q \in Checking
  BY <1>6 DEF Checking
<1>7. CASE q \in Writing
  BY <1>7 DEF Writing
<1>8. CASE q \in ListingBills
  BY <1>8 DEF ListingBills
<1>9. CASE q \in ListingInbox
  BY <1>9 DEF ListingInbox
<1>10. CASE q \in Finding
  BY <1>10 DEF Finding
<1>11. CASE q \in Found
  BY <1>11 DEF Found
<1> QED
  BY <1>1, <1>2, <1>3, <1>4, <1>5, <1>6, <1>7, <1>8, <1>9, <1>10, <1>11 DEF Requests

(* ... and the other way round.                                             *)
LEMMA AtShape ==
  ASSUME NEW r, NEW q
  PROVE  /\ q \in Delivering => q.at = "saveItem" /\ q.op = "deliver"
         /\ q \in Importing(r) => q.at \in {"validate", "saveBill"} /\ q.op = "import"
         /\ q \in Updating(r) => q.at = "updateItem" /\ q.op = "import"
         /\ q \in Creating(r) => q.at \in {"validate", "saveBill", "receive"} /\ q.op = "create"
         /\ q \in Finding => q.at = "find" /\ q.op = "post"
         /\ q \in Found => q.at = "found" /\ q.op = "post"
         /\ q \in Checking => q.at = "check" /\ q.op = "post"
         /\ q \in Writing => q.at \in {"writeBill", "publish"} /\ q.op = "post"
         /\ q \in ListingBills => q.at = "fillBills" /\ q.op = "listBills"
         /\ q \in ListingInbox => q.at = "fillInbox" /\ q.op = "listInbox"
         /\ New.at = "new" /\ Done.at = "done"
  BY DEF Delivering, Importing, Updating, Creating, Finding, Found, Checking, Writing,
         ListingBills, ListingInbox, New, Done

(* Who holds an object of a map: an import an item, and a post a bill.      *)
LEMMA ShapeHeld ==
  ASSUME NEW r, NEW q \in Requests(r), "obj" \in DOMAIN q
  PROVE  /\ q \in Importing(r) \cup Checking
         /\ q.holds \in Item => q \in Importing(r)
         /\ q.holds \in Request => q \in Checking
<1>1. q \notin {New, Done}
  BY DEF New, Done
<1>2. q \notin Delivering /\ q \notin Updating(r) /\ q \notin Creating(r)
  BY DEF Delivering, Updating, Creating
<1>3. /\ q \notin Writing /\ q \notin ListingBills /\ q \notin ListingInbox
      /\ q \notin Finding /\ q \notin Found
  BY DEF Writing, ListingBills, ListingInbox, Finding, Found
<1>4. q \in Importing(r) \cup Checking
  BY <1>1, <1>2, <1>3 DEF Requests
<1> QED
  BY <1>4, PurchasingAssumption DEF Importing, Checking

-----------------------------------------------------------------------------
(* What the steps of one request share.                                     *)
Moves(r, q) == req' = [req EXCEPT ![r] = q]

LEMMA MovesOK ==
  ASSUME RequestsOK, NEW r \in Request, NEW q \in Requests(r), Moves(r, q)
  PROVE  RequestsOK' /\ req'[r] = q /\ \A x \in Request \ {r} : req'[x] = req[x]
<1>1. req'[r] = q /\ \A x \in Request \ {r} : req'[x] = req[x]
  BY DEF RequestsOK, Moves
<1>2. req' = [x \in Request |-> req'[x]]
  BY DEF RequestsOK, Moves
<1> QED
  BY <1>1, <1>2 DEF RequestsOK

\* Items stay in the map, with what they were made from.
ItemsStay ==
    \A i \in Item : items[i] # None => items'[i] # None /\ items'[i].doc = items[i].doc

RowsStay == \A b \in Request : billRow[b] # "none" => billRow'[b] # "none"

\* Nothing is known of a bill whose request has not begun.
LEMMA NewIsUnknown ==
  ASSUME NEW r \in Request, req[r] = New PROVE ~Known(r)
  BY DEF Known

LEMMA LinkedStep ==
  ASSUME Linked, RequestsOK, NEW r \in Request, NEW q \in Requests(r), Moves(r, q),
         ItemsStay, RowsStay, \A b \in Request \ {r} : doc'[b] = doc[b],
         Known(r) => Known(r)',
         \A b \in Request : HasStatus(b)' => HasStatus(b) \/ Known(b)',
         Holding(r)', UsesKnown(r)', OwnDoc(r)'
  PROVE  Linked'
<1>1. req'[r] = q /\ \A x \in Request \ {r} : req'[x] = req[x]
  BY MovesOK
<1>2. \A b \in Request : Known(b) => Known(b)'
  BY <1>1 DEF Known
<1>3. ASSUME NEW x \in Request \ {r} PROVE Holding(x)'
  <2>1. req[x] \in Importing(x) => req[x].holds \in Item
    BY DEF Importing
  <2> QED
    BY <1>1, <2>1 DEF Linked, Holding, ItemsStay
<1>4. ASSUME NEW x \in Request \ {r} PROVE UsesKnown(x)'
  <2>1. /\ req[x] \in Finding \cup Found => req[x].bill \in Request
        /\ req[x] \in Checking => req[x].holds \in Request
        /\ req[x] \in Writing => req[x].bill \in Request
        /\ req[x] \in ListingBills => DOMAIN req[x].list \subseteq Request
    BY DEF Finding, Found, Checking, Writing, ListingBills
  <2> QED
    BY <1>1, <1>2, <2>1 DEF Linked, UsesKnown, RowsStay
<1>5. ASSUME NEW x \in Request \ {r} PROVE OwnDoc(x)'
  <2>1. req[x] \in Importing(x) => req[x].holds \in Item
    BY DEF Importing
  <2>2. req[x] \in Importing(x) => Held(items, x)'.doc = Held(items, x).doc
    BY <1>1, <2>1 DEF Linked, Holding, Held, ItemsStay
  <2> QED
    BY <1>1, <2>2 DEF Linked, OwnDoc, RowsStay
<1>6. \A b \in Request : HasStatus(b)' => Known(b)'
  BY <1>2 DEF Linked
<1> QED
  BY <1>3, <1>4, <1>5, <1>6 DEF Linked

\* Steps that save no item and give no bill another one.
LEMMA NothingStep ==
  ASSUME NothingWithoutBill, TablesOK, RowsStay, itemRow' = itemRow,
         \A b \in Request : billRow[b] # "none" => doc'[b].item = doc[b].item,
         \A b \in Request : doc'[b] # None /\ doc'[b].received =>
             billRow'[b] # "none" \/ (doc[b] # None /\ doc[b].received)
  PROVE  NothingWithoutBill'
<1>1. \A i \in Item : itemRow[i] # None => itemRow[i].bill \in Request \cup {None}
  BY DEF TablesOK, Object
<1>2. ASSUME NEW i \in Item, itemRow'[i] # None, itemRow'[i].status = "IMPORTED"
      PROVE  /\ itemRow'[i].bill # None
             /\ billRow'[itemRow'[i].bill] # "none"
             /\ doc'[itemRow'[i].bill].item = i
  BY <1>1, <1>2 DEF NothingWithoutBill, RowsStay
<1>3. ASSUME NEW b \in Request, doc'[b] # None, doc'[b].received
      PROVE  billRow'[b] # "none"
  BY <1>3 DEF NothingWithoutBill, RowsStay
<1> QED
  BY <1>2, <1>3 DEF NothingWithoutBill

-----------------------------------------------------------------------------
(* The steps of the environment.                                            *)
LEMMA InitInv == Init => Inv
<1> SUFFICES ASSUME Init PROVE Inv
  OBVIOUS
<1>1. RulesOK
  BY Laws1 DEF Init, RulesOK, Lawful
<1>2. TablesOK
  BY DEF Init, TablesOK, Status
<1>3. \A r \in Request : req[r] = New
  BY DEF Init
<1>4. RequestsOK
  BY DEF Init, RequestsOK, Requests
<1>5. Linked
  BY <1>3, AtShape DEF Init, Linked, Holding, UsesKnown, OwnDoc, HasStatus
<1>6. NothingWithoutBill
  BY DEF Init, NothingWithoutBill
<1> QED
  BY <1>1, <1>2, <1>4, <1>5, <1>6 DEF Inv, Typed

RulesStep == RefreshCache \/ Deploy \/ Outage \/ Poll \/ RefreshBundle

LEMMA RulesStepFrame ==
  ASSUME RulesStep
  PROVE  UNCHANGED <<items, itemRow, bills, billRow, doc, req, published, crashes, failures,
                     raced, refused, scene>>
  BY DEF RulesStep, RefreshCache, Deploy, Outage, Poll, RefreshBundle, tables, history

LEMMA RulesStepInv ==
  ASSUME Inv, RulesStep
  PROVE  Inv'
<1>1. RulesOK'
  <2>1. RulesOK
    BY DEF Inv, Typed
  <2>2. CASE RefreshCache
    BY <2>1, <2>2 DEF RefreshCache, RulesOK
  <2>3. CASE Deploy
    BY <2>1, <2>3, Laws1 DEF Deploy, RulesOK
  <2>4. CASE Outage
    BY <2>1, <2>4 DEF Outage, RulesOK
  <2>5. CASE Poll
    BY <2>1, <2>5 DEF Poll, GetBundle, RulesOK
  <2>6. CASE RefreshBundle
    BY <2>1, <2>6, Laws1 DEF RefreshBundle, RulesOK, Lawful
  <2> QED
    BY <2>2, <2>3, <2>4, <2>5, <2>6 DEF RulesStep
<1>2. UNCHANGED <<items, itemRow, bills, billRow, doc, req, published>>
  BY RulesStepFrame
<1>3. TablesOK' /\ RequestsOK'
  BY <1>2 DEF Inv, Typed, TablesOK, RequestsOK
<1>4. Linked'
  BY <1>2 DEF Inv, Linked, Holding, UsesKnown, OwnDoc, HasStatus, Known, Held
<1>5. NothingWithoutBill'
  BY <1>2 DEF Inv, NothingWithoutBill
<1> QED
  BY <1>1, <1>3, <1>4, <1>5 DEF Inv, Typed

LEMMA RestartInv ==
  ASSUME Inv, Restart
  PROVE  Inv'
<1>1. RulesOK'
  BY Laws1 DEF Inv, Typed, RulesOK, Restart, Lawful
<1>2. TablesOK'
  BY DEF Inv, Typed, TablesOK, Restart, Status, tables
<1>3. \A r \in Request : req'[r] \in {New, Done} /\ (req[r] # New => req'[r] = Done)
  <2> SUFFICES ASSUME NEW r \in Request
               PROVE  req'[r] \in {New, Done} /\ (req[r] # New => req'[r] = Done)
    OBVIOUS
  <2>1. req'[r] = IF Running(r) THEN Done ELSE req[r]
    BY DEF Restart
  <2>2. ~Running(r) => req[r] \in {New, Done}
    BY ShapeAt DEF Running, Inv, Typed, RequestsOK
  <2>3. Running(r) => req[r] # New
    BY DEF Running, New
  <2> QED
    BY <2>1, <2>2, <2>3
<1>4. RequestsOK'
  BY <1>3 DEF RequestsOK, Restart, Requests
<1>5. \A b \in Request : HasStatus(b)' => Known(b)'
  BY <1>3, AtShape DEF Inv, Linked, HasStatus, Known, Restart, tables, Done, New
<1>6. Linked'
  BY <1>3, <1>5, AtShape DEF Linked, Holding, UsesKnown, OwnDoc
<1>7. NothingWithoutBill'
  BY DEF Inv, NothingWithoutBill, Restart, tables
<1> QED
  BY <1>1, <1>2, <1>4, <1>6, <1>7 DEF Inv, Typed

-----------------------------------------------------------------------------
(* The steps of the requests, the inbox first.                              *)
LEMMA CreateInboxItemInv ==
  ASSUME Inv, NEW r \in Request, NEW i \in Item, NEW d \in Documents, CreateInboxItem(r, i, d)
  PROVE  Inv'
<1> DEFINE o == [status |-> "PENDING", bill |-> None, doc |-> d, by |-> AcceptedBy]
           q == [op |-> "deliver", at |-> "saveItem", item |-> i, touches |-> {i}, row |-> o]
<1>1. o \in Pending
  <2>1. AcceptedBy \in Lawful
    BY Laws1 DEF Inv, Typed, RulesOK, AcceptedBy, Lawful
  <2>2. AcceptedBy # 0 => Violations("invoice", d, Laws[AcceptedBy]) = {}
    BY DEF CreateInboxItem, AcceptedBy, Accepted
  <2> QED
    BY <2>1, <2>2 DEF Pending, Object
<1>2. o \in Object
  BY <1>1 DEF Pending
<1>3. q \in Requests(r)
  <2>1. q \in Delivering
    BY <1>1 DEF Delivering, Touched
  <2> QED
    BY <2>1 DEF Requests
<1>4. req[r] = New /\ Moves(r, q)
  BY DEF CreateInboxItem, Begin, Moves
<1>5. items[i] = None /\ items' = [items EXCEPT ![i] = o]
  BY DEF CreateInboxItem
<1>6. UNCHANGED <<complianceVars, itemRow, bills, billRow, doc, published>>
  BY DEF CreateInboxItem, tables
<1> HIDE DEF o
<1>7. RequestsOK' /\ req'[r] = q
  BY <1>3, <1>4, MovesOK DEF Inv, Typed
<1> HIDE DEF q
<1>8. RulesOK' /\ TablesOK'
  BY <1>2, <1>5, <1>6 DEF Inv, Typed, RulesOK, TablesOK, complianceVars
<1>9. q \in Delivering
  BY <1>1 DEF Delivering, Touched, q
<1>10. Linked'
  <2>1. ItemsStay
    BY <1>5 DEF Inv, Typed, TablesOK, ItemsStay
  <2>2. RowsStay /\ \A b \in Request : HasStatus(b)' => HasStatus(b)
    BY <1>6 DEF RowsStay, HasStatus
  <2>3. ~Known(r)
    BY <1>4, NewIsUnknown
  <2>4. Holding(r)' /\ UsesKnown(r)' /\ OwnDoc(r)'
    BY <1>7, <1>9, AtShape DEF Holding, UsesKnown, OwnDoc
  <2> QED
    BY <1>3, <1>4, <1>6, <2>1, <2>2, <2>3, <2>4, LinkedStep DEF Inv, Typed
<1>11. NothingWithoutBill'
  BY <1>6 DEF Inv, NothingWithoutBill
<1> QED
  BY <1>7, <1>8, <1>10, <1>11 DEF Inv, Typed

\* A request that is done, or that the service has refused, holds nothing.
LEMMA DoneIsFree ==
  ASSUME NEW r \in Request, req'[r] = Done
  PROVE  Holding(r)' /\ UsesKnown(r)' /\ OwnDoc(r)'
  BY AtShape DEF Holding, UsesKnown, OwnDoc

LEMMA FinishOK ==
  ASSUME Inv, NEW r \in Request, Finish(r), req[r].at # "new"
  PROVE  /\ Moves(r, Done) /\ Done \in Requests(r) /\ RequestsOK' /\ req'[r] = Done
         /\ doc'[r] = doc[r] => (Known(r) => Known(r)')
<1>1. Moves(r, Done) /\ Done \in Requests(r)
  BY DEF Finish, Moves, Requests
<1>2. RequestsOK' /\ req'[r] = Done
  BY <1>1, MovesOK DEF Inv, Typed
<1> QED
  BY <1>1, <1>2 DEF Known, Done, New

\* Steps that end a request, and change nothing but rows.
LEMMA FinishLinked ==
  ASSUME Inv, NEW r \in Request, Finish(r), req[r].at # "new",
         ItemsStay, RowsStay, UNCHANGED <<bills, doc, published>>,
         \A b \in Request : billRow'[b] # "none" => billRow[b] # "none" \/ Known(b)'
  PROVE  Linked'
<1>1. /\ Moves(r, Done) /\ Done \in Requests(r) /\ req'[r] = Done
      /\ Known(r) => Known(r)'
  BY FinishOK
<1>2. Holding(r)' /\ UsesKnown(r)' /\ OwnDoc(r)'
  BY <1>1, DoneIsFree
<1>3. \A b \in Request : HasStatus(b)' => HasStatus(b) \/ Known(b)'
  BY DEF HasStatus
<1> QED
  BY <1>1, <1>2, <1>3, LinkedStep DEF Inv, Typed

LEMMA SaveItemInv ==
  ASSUME Inv, NEW r \in Request, SaveItem(r)
  PROVE  Inv'
<1>1. req[r] \in Delivering
  BY ShapeAt DEF SaveItem, Inv, Typed, RequestsOK
<1>2. req[r].item \in Item /\ req[r].row \in Object /\ req[r].row.status = "PENDING"
  BY <1>1 DEF Delivering, Pending
<1>3. /\ itemRow' = [itemRow EXCEPT ![req[r].item] = req[r].row]
      /\ Finish(r) /\ req[r].at # "new"
      /\ UNCHANGED <<complianceVars, items, bills, billRow, doc, published>>
  BY DEF SaveItem
<1>4. RequestsOK'
  BY <1>3, FinishOK
<1>5. RulesOK' /\ TablesOK'
  BY <1>2, <1>3 DEF Inv, Typed, RulesOK, TablesOK, complianceVars
<1>6. Linked'
  <2>1. ItemsStay /\ RowsStay
    BY <1>3 DEF ItemsStay, RowsStay
  <2> QED
    BY <1>3, <2>1, FinishLinked
<1>7. NothingWithoutBill'
  <2>1. \A i \in Item : itemRow'[i] # None /\ itemRow'[i].status = "IMPORTED" =>
           itemRow'[i] = itemRow[i]
    BY <1>2, <1>3 DEF Inv, Typed, TablesOK
  <2> QED
    BY <1>3, <2>1 DEF Inv, NothingWithoutBill
<1> QED
  BY <1>4, <1>5, <1>6, <1>7 DEF Inv, Typed

\* What is imported, from the map or from the table.
LEMMA ImportToBillInv ==
  ASSUME Inv, NEW r \in Request, NEW i \in Item, ImportToBill(r, i)
  PROVE  Inv'
<1> DEFINE object == IF items[i] # None THEN items[i] ELSE itemRow[i]
           q == [op |-> "import", at |-> "validate", holds |-> i, obj |-> Cached,
                 touches |-> {i, r}]
           body == Body(Imported(object.doc), i)
<1>1. object \in Object
  BY DEF ImportToBill, Inv, Typed, TablesOK
<1>2. req[r] = New /\ Moves(r, q)
  BY DEF ImportToBill, Begin, Moves
<1>3. items' = [items EXCEPT ![i] = object] /\ doc' = [doc EXCEPT ![r] = body]
  BY DEF ImportToBill
<1>4. UNCHANGED <<complianceVars, itemRow, bills, billRow, published>>
  BY DEF ImportToBill, tables
<1>5. items[i] # None => object = items[i]
  OBVIOUS
<1> HIDE DEF object
<1>6. object # None /\ object.doc \in Documents
  BY <1>1, SomeRecords DEF Object
<1>7. body \in BillDoc /\ body.item = i /\ body.body = Imported(object.doc) /\ ~body.received
  <2>1. Imported(object.doc) \in Bodies /\ 0 \in Lawful
    BY <1>6, Laws1 DEF Bodies, Lawful
  <2> QED
    BY <2>1 DEF Body, BillDoc
<1>8. q \in Importing(r) /\ q \in Requests(r)
  BY DEF Importing, Touched, Requests
<1> HIDE DEF body
<1>9. RequestsOK' /\ req'[r] = q
  BY <1>2, <1>8, MovesOK DEF Inv, Typed
<1>10. RulesOK' /\ TablesOK'
  BY <1>1, <1>3, <1>4, <1>7 DEF Inv, Typed, RulesOK, TablesOK, complianceVars
<1>11. items'[i] = object /\ doc'[r] = body /\ body # None
  BY <1>3, <1>7, SomeRecords DEF Inv, Typed, TablesOK
<1>12. Linked'
  <2>1. ItemsStay
    BY <1>3, <1>5 DEF Inv, Typed, TablesOK, ItemsStay
  <2>2. RowsStay /\ \A b \in Request : HasStatus(b)' => HasStatus(b)
    BY <1>4 DEF RowsStay, HasStatus
  <2>3. ~Known(r)
    BY <1>2, NewIsUnknown
  <2>4. Holding(r)'
    BY <1>6, <1>9, <1>11 DEF Holding
  <2>5. UsesKnown(r)'
    BY <1>8, <1>9, AtShape DEF UsesKnown
  <2>6. OwnDoc(r)'
    <3>1. Held(items, r)' = object
      BY <1>9, <1>11 DEF Held
    <3> QED
      BY <1>7, <1>8, <1>9, <1>11, <3>1, AtShape DEF OwnDoc
  <2>7. \A b \in Request \ {r} : doc'[b] = doc[b]
    BY <1>3 DEF Inv, Typed, TablesOK
  <2> QED
    BY <1>2, <1>8, <2>1, <2>2, <2>3, <2>4, <2>5, <2>6, <2>7, LinkedStep DEF Inv, Typed
<1>13. NothingWithoutBill'
  <2>1. RowsStay /\ itemRow' = itemRow
    BY <1>4 DEF RowsStay
  <2>2. \A b \in Request : b # r => doc'[b] = doc[b]
    BY <1>3 DEF Inv, Typed, TablesOK
  <2>3. billRow[r] = "none"
    BY <1>2, NewIsUnknown DEF Inv, Linked, HasStatus
  <2>4. \A b \in Request : billRow[b] # "none" => doc'[b].item = doc[b].item
    BY <2>2, <2>3
  <2>5. \A b \in Request : doc'[b] # None /\ doc'[b].received =>
           billRow'[b] # "none" \/ (doc[b] # None /\ doc[b].received)
    BY <1>7, <1>11, <2>2
  <2> QED
    BY <2>1, <2>4, <2>5, NothingStep DEF Inv, Typed
<1> QED
  BY <1>9, <1>10, <1>12, <1>13 DEF Inv, Typed

LEMMA CreateBillInv ==
  ASSUME Inv, NEW r \in Request, NEW d \in Documents, CreateBill(r, d)
  PROVE  Inv'
<1> DEFINE body == Body(d, None)
<1> DEFINE goods == "stock" \in scene.events
<1>a. goods \in BOOLEAN
  OBVIOUS
<1>b. PICK stock \in {FALSE, goods} :
        Begin(r, [op |-> "create", at |-> "validate", stock |-> stock, touches |-> {r}])
  BY DEF CreateBill
<1>c. stock \in BOOLEAN
  BY <1>a
<1>1. Begin(r, [op |-> "create", at |-> "validate", stock |-> stock, touches |-> {r}])
  BY <1>b
<1> DEFINE q == [op |-> "create", at |-> "validate", stock |-> stock, touches |-> {r}]
<1>2. req[r] = New /\ Moves(r, q)
  BY <1>1 DEF Begin, Moves
<1>3. doc' = [doc EXCEPT ![r] = body]
  BY DEF CreateBill
<1>4. UNCHANGED <<complianceVars, items, itemRow, bills, billRow, published>>
  BY DEF CreateBill, tables
<1>5. body \in BillDoc /\ ~body.received /\ body.item = None
  <2>1. d \in Bodies /\ 0 \in Lawful
    BY Laws1 DEF Bodies, Lawful
  <2> QED
    BY <2>1 DEF Body, BillDoc
<1>6. q \in Creating(r) /\ q \in Requests(r)
  BY <1>c DEF Creating, Touched, Requests
<1> HIDE DEF body
<1>7. RequestsOK' /\ req'[r] = q
  BY <1>2, <1>6, MovesOK DEF Inv, Typed
<1>8. RulesOK' /\ TablesOK'
  BY <1>3, <1>4, <1>5 DEF Inv, Typed, RulesOK, TablesOK, complianceVars
<1>9. doc'[r] = body /\ body # None /\ body.item = None
  BY <1>3, <1>5, SomeRecords DEF Inv, Typed, TablesOK
<1>10. Linked'
  <2>1. ItemsStay /\ RowsStay /\ \A b \in Request : HasStatus(b)' => HasStatus(b)
    BY <1>4 DEF ItemsStay, RowsStay, HasStatus
  <2>2. ~Known(r)
    BY <1>2, NewIsUnknown
  <2>3. Holding(r)' /\ UsesKnown(r)' /\ OwnDoc(r)'
    BY <1>6, <1>7, <1>9, AtShape DEF Holding, UsesKnown, OwnDoc
  <2>4. \A b \in Request \ {r} : doc'[b] = doc[b]
    BY <1>3 DEF Inv, Typed, TablesOK
  <2> QED
    BY <1>2, <1>6, <2>1, <2>2, <2>3, <2>4, LinkedStep DEF Inv, Typed
<1>11. NothingWithoutBill'
  <2>1. RowsStay /\ itemRow' = itemRow
    BY <1>4 DEF RowsStay
  <2>2. \A b \in Request : b # r => doc'[b] = doc[b]
    BY <1>3 DEF Inv, Typed, TablesOK
  <2>3. billRow[r] = "none"
    BY <1>2, NewIsUnknown DEF Inv, Linked, HasStatus
  <2>4. \A b \in Request : billRow[b] # "none" => doc'[b].item = doc[b].item
    BY <2>2, <2>3
  <2>5. \A b \in Request : doc'[b] # None /\ doc'[b].received =>
           billRow'[b] # "none" \/ (doc[b] # None /\ doc[b].received)
    BY <1>5, <1>9, <2>2
  <2> QED
    BY <2>1, <2>4, <2>5, NothingStep DEF Inv, Typed
<1> QED
  BY <1>7, <1>8, <1>10, <1>11 DEF Inv, Typed

\* A request that goes on to its next await.
LEMMA GotoOK ==
  ASSUME Inv, NEW r \in Request, NEW at, Goto(r, at), req[r] \in Importing(r) \cup Creating(r)
                \cup Writing,
         [req[r] EXCEPT !.at = at] \in Requests(r)
  PROVE  /\ Moves(r, [req[r] EXCEPT !.at = at]) /\ RequestsOK'
         /\ req'[r] = [req[r] EXCEPT !.at = at]
<1>1. Moves(r, [req[r] EXCEPT !.at = at])
  BY DEF Goto, Moves
<1> QED
  BY <1>1, MovesOK DEF Inv, Typed

LEMMA ValidateInv ==
  ASSUME Inv, NEW r \in Request, Validate(r)
  PROVE  Inv'
<1>1. req[r].at = "validate" /\ req[r] \in Importing(r) \cup Creating(r)
  BY ShapeAt DEF Validate, Inv, Typed, RequestsOK
<1>2. doc[r] \in BillDoc
  BY <1>1 DEF Inv, Linked, OwnDoc, Typed, TablesOK
<1>3. UNCHANGED <<complianceVars, items, itemRow, billRow, published>>
  BY DEF Validate, tables
<1>4. ItemsStay /\ RowsStay
  BY <1>3 DEF ItemsStay, RowsStay
<1>5. ~Known(r)
  BY <1>1 DEF Known
<1>6. CASE Accepted("bill", doc[r].body) /\ Constructible(doc[r].body)
  <2> DEFINE q == [req[r] EXCEPT !.at = "saveBill"]
  <2>1. /\ bills' = [bills EXCEPT ![r] = "DRAFT"]
        /\ doc' = [doc EXCEPT ![r].by = AcceptedBy]
        /\ Goto(r, "saveBill")
    BY <1>6 DEF Validate
  <2>2. /\ req[r] \in Importing(r) => q \in Importing(r) /\ q.holds = req[r].holds
                                      /\ q.obj = req[r].obj
        /\ req[r] \in Creating(r) => q \in Creating(r)
        /\ q.at = "saveBill"
    BY <1>1 DEF Importing, Creating
  <2>3. q \in Requests(r)
    BY <1>1, <2>2 DEF Requests
  <2>4. Moves(r, q) /\ RequestsOK' /\ req'[r] = q
    BY <1>1, <2>1, <2>3, GotoOK
  <2> HIDE DEF q
  <2>5. doc'[r] \in BillDoc /\ doc'[r].item = doc[r].item /\ doc'[r].received = doc[r].received
    <3>1. AcceptedBy \in Lawful
      BY Laws1 DEF Inv, Typed, RulesOK, AcceptedBy, Lawful
    <3>2. AcceptedBy # 0 => Violations("bill", doc[r].body, Laws[AcceptedBy]) = {}
      BY <1>6 DEF AcceptedBy, Accepted
    <3>3. doc'[r] = [doc[r] EXCEPT !.by = AcceptedBy]
      BY <2>1 DEF Inv, Typed, TablesOK
    <3> HIDE DEF AcceptedBy
    <3> QED
      BY <1>2, <3>1, <3>2, <3>3 DEF BillDoc
  <2>6. \A b \in Request : b # r => doc'[b] = doc[b]
    BY <2>1 DEF Inv, Typed, TablesOK
  <2>7. doc' \in [Request -> BillDoc \cup {None}]
    <3>1. doc \in [Request -> BillDoc \cup {None}]
      BY DEF Inv, Typed, TablesOK
    <3>2. doc' = [b \in Request |-> doc'[b]]
      BY <2>1, <3>1
    <3> QED
      BY <2>5, <2>6, <3>1, <3>2
  <2>8. RulesOK' /\ TablesOK'
    BY <1>3, <2>1, <2>7 DEF Inv, Typed, RulesOK, TablesOK, complianceVars, Status
  <2>9. doc'[r] # None
    BY <2>5, SomeRecords
  <2>10. Linked'
    <3>1. Known(r)'
      BY <2>2, <2>4, <2>9, AtShape DEF Known
    <3>2. \A b \in Request : HasStatus(b)' => HasStatus(b) \/ Known(b)'
      BY <1>3, <2>1, <3>1 DEF HasStatus, Inv, Typed, TablesOK
    <3>3. Holding(r)'
      BY <1>1, <1>3, <2>2, <2>4, AtShape DEF Holding, Inv, Linked
    <3>4. UsesKnown(r)'
      BY <1>1, <2>2, <2>4, AtShape DEF UsesKnown
    <3>5. OwnDoc(r)'
      BY <1>1, <1>3, <2>2, <2>4, <2>5, <2>9, AtShape DEF OwnDoc, Inv, Linked
    <3> QED
      BY <1>4, <2>3, <2>4, <2>6, <3>1, <3>2, <3>3, <3>4, <3>5, LinkedStep DEF Inv, Typed
  <2>11. NothingWithoutBill'
    <3>1. \A b \in Request : doc'[b].item = doc[b].item
      BY <2>5, <2>6
    <3>2. \A b \in Request : doc'[b] # None /\ doc'[b].received =>
             billRow'[b] # "none" \/ (doc[b] # None /\ doc[b].received)
      BY <1>2, <2>5, <2>6, SomeRecords
    <3> QED
      BY <1>3, <1>4, <3>1, <3>2, NothingStep DEF Inv, Typed
  <2> QED
    BY <2>4, <2>8, <2>10, <2>11 DEF Inv, Typed
<1>7. CASE ~(Accepted("bill", doc[r].body) /\ Constructible(doc[r].body))
  <2>1. Finish(r) /\ UNCHANGED <<bills, doc>>
    BY <1>7 DEF Validate
  <2>2. RequestsOK' /\ Linked'
    BY <1>1, <1>3, <1>4, <2>1, FinishOK, FinishLinked
  <2>3. RulesOK' /\ TablesOK'
    BY <1>3, <2>1 DEF Inv, Typed, RulesOK, TablesOK, complianceVars
  <2>4. NothingWithoutBill'
    BY <1>3, <2>1 DEF Inv, NothingWithoutBill
  <2> QED
    BY <2>2, <2>3, <2>4 DEF Inv, Typed
<1> QED
  BY <1>6, <1>7

LEMMA SaveBillInv ==
  ASSUME Inv, NEW r \in Request, SaveBill(r)
  PROVE  Inv'
<1>1. req[r].at = "saveBill" /\ req[r] \in Importing(r) \cup Creating(r)
  BY ShapeAt DEF SaveBill, Inv, Typed, RequestsOK
<1>2. /\ billRow' = [billRow EXCEPT ![r] = "DRAFT"]
      /\ UNCHANGED <<complianceVars, itemRow, bills, doc, published>>
  BY DEF SaveBill
<1>3. RowsStay /\ billRow'[r] # "none" /\ \A b \in Request : b # r => billRow'[b] = billRow[b]
  BY <1>2 DEF Inv, Typed, TablesOK, RowsStay
<1>4. RulesOK' /\ billRow' \in [Request -> Status]
  BY <1>2 DEF Inv, Typed, RulesOK, TablesOK, complianceVars, Status
<1>5. doc[r] # None /\ Known(r)
  BY <1>1, AtShape DEF Inv, Linked, OwnDoc, Known
<1>6. NothingWithoutBill'
  BY <1>2, <1>3, NothingStep DEF Inv, Typed
<1>7. ASSUME RequestsOK', Linked', items' \in [Item -> Object \cup {None}]
      PROVE  Inv'
  <2>1. TablesOK'
    BY <1>2, <1>4, <1>7 DEF Inv, Typed, TablesOK
  <2> QED
    BY <1>4, <1>6, <1>7, <2>1 DEF Inv, Typed
<1>8. CASE req[r] \in Creating(r)
  <2>1. items' = items /\ (Goto(r, "receive") \/ Finish(r))
    BY <1>8, AtShape DEF SaveBill
  <2>2. ItemsStay /\ items' \in [Item -> Object \cup {None}]
    BY <2>1 DEF ItemsStay, Inv, Typed, TablesOK
  <2>3. CASE Finish(r)
    <3>1. RequestsOK'
      BY <1>1, <2>3, FinishOK
    <3>2. Known(r)'
      BY <1>1, <1>2, <1>5, <2>3, FinishOK
    <3>3. Linked'
      BY <1>1, <1>2, <1>3, <2>2, <2>3, <3>2, FinishLinked
    <3> QED
      BY <1>7, <2>2, <3>1, <3>3
  <2>4. CASE Goto(r, "receive")
    <3> DEFINE q == [req[r] EXCEPT !.at = "receive"]
    <3>1. q \in Creating(r) /\ q \in Requests(r) /\ q.at = "receive"
      BY <1>8 DEF Creating, Requests
    <3>2. Moves(r, q) /\ RequestsOK' /\ req'[r] = q
      BY <1>8, <2>4, <3>1, GotoOK
    <3> HIDE DEF q
    <3>3. Known(r)'
      BY <1>2, <1>5, <3>1, <3>2, AtShape DEF Known
    <3>4. \A b \in Request : HasStatus(b)' => HasStatus(b) \/ Known(b)'
      BY <1>2, <1>3, <3>3 DEF HasStatus
    <3>5. Holding(r)' /\ UsesKnown(r)' /\ OwnDoc(r)'
      <4>1. doc[r].item = None
        BY <1>8 DEF Inv, Linked, OwnDoc
      <4> QED
        BY <1>2, <1>3, <1>5, <3>1, <3>2, <4>1, AtShape DEF Holding, UsesKnown, OwnDoc
    <3>6. Linked'
      BY <1>2, <1>3, <2>2, <3>1, <3>2, <3>3, <3>4, <3>5, LinkedStep DEF Inv, Typed
    <3> QED
      BY <1>7, <2>2, <3>2, <3>6
  <2> QED
    BY <2>1, <2>3, <2>4
<1>9. CASE req[r] \in Importing(r)
  <2> DEFINE i == req[r].holds
             q == [op |-> "import", at |-> "updateItem", item |-> i, touches |-> req[r].touches]
  <2>1. i \in Item /\ req[r].op = "import" /\ req[r].touches = {i, r} /\ req[r].touches \in Touched
    BY <1>9 DEF Importing
  <2>2. /\ items' = IF req[r].obj = Cached
                    THEN [items EXCEPT ![i].status = "IMPORTED", ![i].bill = r] ELSE items
        /\ Moves(r, q)
    BY <2>1 DEF SaveBill, Moves
  <2>3. q \in Updating(r) /\ q \in Requests(r) /\ q.item = i
    BY <2>1 DEF Updating, Requests
  <2>4. doc[r].item = i
    BY <1>9 DEF Inv, Linked, OwnDoc
  <2>5. req[r].obj = Cached => items[i] \in Object
    BY <1>9, <2>1 DEF Inv, Linked, Holding, Typed, TablesOK
  <2>6. req[r].obj = Cached =>
           /\ [items[i] EXCEPT !.status = "IMPORTED", !.bill = r] \in Object
           /\ items'[i] = [items[i] EXCEPT !.status = "IMPORTED", !.bill = r]
    <3> SUFFICES ASSUME req[r].obj = Cached
                 PROVE  /\ [items[i] EXCEPT !.status = "IMPORTED", !.bill = r] \in Object
                        /\ items'[i] = [items[i] EXCEPT !.status = "IMPORTED", !.bill = r]
      OBVIOUS
    <3> HIDE DEF i
    <3>1. items'[i] = [items[i] EXCEPT !.status = "IMPORTED", !.bill = r]
      BY <2>1, <2>2 DEF Inv, Typed, TablesOK
    <3>2. [items[i] EXCEPT !.status = "IMPORTED", !.bill = r] \in Object
      BY <2>5 DEF Object
    <3> QED
      BY <3>1, <3>2
  <2> HIDE DEF i, q
  <2>7. \A j \in Item : j # i => items'[j] = items[j]
    BY <2>1, <2>2 DEF Inv, Typed, TablesOK
  <2>8. items' \in [Item -> Object \cup {None}]
    <3>1. items \in [Item -> Object \cup {None}]
      BY DEF Inv, Typed, TablesOK
    <3>2. items' = [j \in Item |-> items'[j]]
      BY <2>2, <3>1
    <3>3. items'[i] \in Object \cup {None}
      BY <2>1, <2>2, <2>6, <3>1
    <3> QED
      BY <2>1, <2>7, <3>1, <3>2, <3>3
  <2>9. ItemsStay
    <3>1. items[i] # None => items'[i] # None /\ items'[i].doc = items[i].doc
      BY <2>2, <2>5, <2>6, SomeRecords DEF Object
    <3> QED
      BY <2>7, <3>1 DEF ItemsStay
  <2>10. RequestsOK' /\ req'[r] = q
    BY <2>2, <2>3, MovesOK DEF Inv, Typed
  <2>11. Linked'
    <3>1. Known(r)'
      BY <1>2, <1>5, <2>3, <2>10, AtShape DEF Known
    <3>2. \A b \in Request : HasStatus(b)' => HasStatus(b) \/ Known(b)'
      BY <1>2, <1>3, <3>1 DEF HasStatus
    <3>3. Holding(r)' /\ UsesKnown(r)' /\ OwnDoc(r)'
      BY <1>2, <1>3, <1>5, <2>3, <2>4, <2>10, AtShape DEF Holding, UsesKnown, OwnDoc
    <3> QED
      BY <1>2, <1>3, <2>2, <2>3, <2>9, <3>1, <3>2, <3>3, LinkedStep DEF Inv, Typed
  <2> QED
    BY <1>7, <2>8, <2>10, <2>11
<1> QED
  BY <1>1, <1>8, <1>9

LEMMA ReceiveInv ==
  ASSUME Inv, NEW r \in Request, Receive(r)
  PROVE  Inv'
<1>1. req[r].at = "receive" /\ req[r] \in Creating(r)
  BY ShapeAt DEF Receive, Inv, Typed, RequestsOK
<1>2. doc[r] \in BillDoc /\ billRow[r] # "none"
  BY <1>1 DEF Inv, Linked, OwnDoc, Typed, TablesOK
<1>3. Finish(r) /\ UNCHANGED <<complianceVars, items, itemRow, bills, billRow, published>>
  BY DEF Receive, tables
<1>4. doc' = doc \/ doc' = [doc EXCEPT ![r].received = TRUE]
  BY DEF Receive
<1>5. \A b \in Request : b # r => doc'[b] = doc[b]
  BY <1>4 DEF Inv, Typed, TablesOK
<1>6. doc'[r] \in BillDoc /\ doc'[r].item = doc[r].item
  <2>1. doc'[r] = doc[r] \/ doc'[r] = [doc[r] EXCEPT !.received = TRUE]
    BY <1>4 DEF Inv, Typed, TablesOK
  <2> QED
    BY <1>2, <2>1 DEF BillDoc
<1>7. RulesOK' /\ TablesOK'
  <2>1. doc' = [b \in Request |-> doc'[b]]
    BY <1>4 DEF Inv, Typed, TablesOK
  <2>2. doc' \in [Request -> BillDoc \cup {None}]
    BY <1>5, <1>6, <2>1 DEF Inv, Typed, TablesOK
  <2> QED
    BY <1>3, <2>2 DEF Inv, Typed, RulesOK, TablesOK, complianceVars
<1>8. ItemsStay /\ RowsStay
  BY <1>3 DEF ItemsStay, RowsStay
<1>9. /\ Moves(r, Done) /\ Done \in Requests(r) /\ RequestsOK' /\ req'[r] = Done
  BY <1>1, <1>3, FinishOK
<1>10. Linked'
  <2>1. Known(r)'
    BY <1>6, <1>9, SomeRecords, AtShape DEF Known, Done, New
  <2>2. \A b \in Request : HasStatus(b)' => HasStatus(b)
    BY <1>3 DEF HasStatus
  <2> QED
    BY <1>5, <1>8, <1>9, <2>1, <2>2, DoneIsFree, LinkedStep DEF Inv, Typed
<1>11. NothingWithoutBill'
  <2>1. \A b \in Request : doc'[b].item = doc[b].item
    BY <1>5, <1>6
  <2>2. \A b \in Request : doc'[b] # None /\ doc'[b].received =>
           billRow'[b] # "none" \/ (doc[b] # None /\ doc[b].received)
    BY <1>2, <1>3, <1>5
  <2> QED
    BY <1>3, <1>8, <2>1, <2>2, NothingStep DEF Inv, Typed
<1> QED
  BY <1>7, <1>9, <1>10, <1>11 DEF Inv, Typed

LEMMA UpdateItemInv ==
  ASSUME Inv, NEW r \in Request, UpdateItem(r)
  PROVE  Inv'
<1> DEFINE i == req[r].item
<1>1. req[r] \in Updating(r)
  BY ShapeAt DEF UpdateItem, Inv, Typed, RequestsOK
<1>2. i \in Item /\ doc[r].item = i /\ billRow[r] # "none"
  BY <1>1 DEF Updating, Inv, Linked, OwnDoc
<1>3. /\ itemRow' = [itemRow EXCEPT ![i] =
                       IF @ = None THEN None ELSE [@ EXCEPT !.status = "IMPORTED", !.bill = r]]
      /\ Finish(r) /\ req[r].at # "new"
      /\ UNCHANGED <<complianceVars, items, bills, billRow, doc, published>>
  BY DEF UpdateItem
<1> HIDE DEF i
<1>4. itemRow'[i] = IF itemRow[i] = None THEN None
                    ELSE [itemRow[i] EXCEPT !.status = "IMPORTED", !.bill = r]
  BY <1>2, <1>3 DEF Inv, Typed, TablesOK
<1>5. \A j \in Item : j # i => itemRow'[j] = itemRow[j]
  BY <1>3 DEF Inv, Typed, TablesOK
<1>6. /\ itemRow'[i] \in Object \cup {None}
      /\ itemRow'[i] # None => itemRow'[i].bill = r
  <2>1. itemRow[i] \in Object \cup {None}
    BY <1>2 DEF Inv, Typed, TablesOK
  <2> QED
    BY <1>4, <2>1 DEF Object
<1>7. RulesOK' /\ TablesOK'
  <2>1. itemRow \in [Item -> Object \cup {None}]
    BY DEF Inv, Typed, TablesOK
  <2>2. itemRow' = [j \in Item |-> itemRow'[j]]
    BY <1>3, <2>1
  <2>3. itemRow' \in [Item -> Object \cup {None}]
    BY <1>5, <1>6, <2>1, <2>2
  <2> QED
    BY <1>3, <2>3 DEF Inv, Typed, RulesOK, TablesOK, complianceVars
<1>8. ItemsStay /\ RowsStay
  BY <1>3 DEF ItemsStay, RowsStay
<1>9. RequestsOK' /\ Linked'
  BY <1>3, <1>8, FinishOK, FinishLinked
<1>10. NothingWithoutBill'
  <2>1. \A b \in Request : doc'[b] # None /\ doc'[b].received => billRow'[b] # "none"
    BY <1>3 DEF Inv, NothingWithoutBill
  <2>2. ASSUME NEW j \in Item, itemRow'[j] # None, itemRow'[j].status = "IMPORTED"
        PROVE  /\ itemRow'[j].bill # None
               /\ billRow'[itemRow'[j].bill] # "none"
               /\ doc'[itemRow'[j].bill].item = j
    <3>1. CASE j = i
      BY <1>2, <1>3, <1>6, <2>2, <3>1, SomeRecords
    <3>2. CASE j # i
      BY <1>3, <1>5, <2>2, <3>2 DEF Inv, NothingWithoutBill
    <3> QED
      BY <3>1, <3>2
  <2> QED
    BY <2>1, <2>2 DEF NothingWithoutBill
<1> QED
  BY <1>7, <1>9, <1>10 DEF Inv, Typed

-----------------------------------------------------------------------------
(* Posts.                                                                   *)
LEMMA PostBillInv ==
  ASSUME Inv, NEW r \in Request, NEW b \in Request, PostBill(r, b) \/ FindBill(r, b)
  PROVE  Inv'
<1> DEFINE post == [op |-> "post", at |-> "check", holds |-> b, obj |-> Cached, touches |-> {b}]
           find == [op |-> "post", at |-> "find", bill |-> b, touches |-> {b}]
<1>1. PICK q \in {post, find} : req[r] = New /\ Moves(r, q) /\ (q = find => billRow[b] # "none")
  BY DEF PostBill, FindBill, Begin, Moves
<1>2. /\ HasStatus(b)
      /\ UNCHANGED <<complianceVars, items, itemRow, bills, billRow, doc, published>>
  BY DEF PostBill, FindBill, HasStatus, tables
<1>3. /\ post \in Checking /\ post \in Requests(r) /\ post.holds = b
      /\ find \in Finding /\ find \in Requests(r) /\ find.bill = b
  BY DEF Checking, Finding, Touched, Requests
<1> HIDE DEF post, find
<1>4. RequestsOK' /\ req'[r] = q
  BY <1>1, <1>3, MovesOK DEF Inv, Typed
<1>5. RulesOK' /\ TablesOK'
  BY <1>2 DEF Inv, Typed, RulesOK, TablesOK, complianceVars
<1>6. ItemsStay /\ RowsStay
  BY <1>2 DEF ItemsStay, RowsStay
<1>7. Linked'
  <2>1. ~Known(r)
    BY <1>1, NewIsUnknown
  <2>2. Known(b) /\ b # r
    BY <1>2, <2>1 DEF Inv, Linked
  <2>3. req'[b] = req[b]
    BY <1>1, <1>3, <2>2, MovesOK DEF Inv, Typed
  <2>4. Known(b)'
    BY <1>2, <2>2, <2>3 DEF Known
  <2>5. \A c \in Request : HasStatus(c)' => HasStatus(c)
    BY <1>2 DEF HasStatus
  <2>6. CASE q = post
    <3>1. Holding(r)' /\ UsesKnown(r)' /\ OwnDoc(r)'
      BY <1>3, <1>4, <2>4, <2>6, AtShape DEF Holding, UsesKnown, OwnDoc
    <3> QED
      BY <1>1, <1>2, <1>3, <1>6, <2>1, <2>5, <3>1, LinkedStep DEF Inv, Typed
  <2>7. CASE q = find
    <3>1. billRow'[b] # "none"
      BY <1>1, <1>2, <2>7
    <3>2. Holding(r)' /\ UsesKnown(r)' /\ OwnDoc(r)'
      BY <1>3, <1>4, <2>4, <2>7, <3>1, AtShape DEF Holding, UsesKnown, OwnDoc
    <3> QED
      BY <1>1, <1>2, <1>3, <1>6, <2>1, <2>5, <3>2, LinkedStep DEF Inv, Typed
  <2> QED
    BY <2>6, <2>7
<1>8. NothingWithoutBill'
  BY <1>2 DEF Inv, NothingWithoutBill
<1> QED
  BY <1>4, <1>5, <1>7, <1>8 DEF Inv, Typed

\* The lookup has read the row, and the post goes on with it in its hands.
LEMMA ReadBillInv ==
  ASSUME Inv, NEW r \in Request, ReadBill(r)
  PROVE  Inv'
<1>1. req[r] \in Finding
  BY ShapeAt DEF ReadBill, Inv, Typed, RequestsOK
<1>2. PICK b \in Request : b = req[r].bill
  BY <1>1 DEF Finding
<1>3. Known(b) /\ billRow[b] # "none" /\ req[r].touches = {b} /\ req[r].touches \in Touched
  BY <1>1, <1>2 DEF Inv, Linked, UsesKnown, Finding
<1> DEFINE q == [op |-> "post", at |-> "found", bill |-> b, row |-> billRow[b],
                 touches |-> req[r].touches]
<1>4. Moves(r, q) /\ req[r].at # "new"
  BY <1>2 DEF ReadBill, Moves
<1>5. UNCHANGED <<complianceVars, items, itemRow, bills, billRow, doc, published>>
  BY DEF ReadBill, tables
<1>6. q \in Found /\ q \in Requests(r) /\ q.bill = b
  BY <1>3 DEF Found, Requests, Inv, Typed, TablesOK
<1> HIDE DEF q
<1>7. RequestsOK' /\ req'[r] = q /\ \A x \in Request \ {r} : req'[x] = req[x]
  BY <1>4, <1>6, MovesOK DEF Inv, Typed
<1>8. RulesOK' /\ TablesOK'
  BY <1>5 DEF Inv, Typed, RulesOK, TablesOK, complianceVars
<1>9. Linked'
  <2>1. ItemsStay /\ RowsStay /\ \A c \in Request : HasStatus(c)' => HasStatus(c)
    BY <1>5 DEF ItemsStay, RowsStay, HasStatus
  <2>2. Known(r) => Known(r)'
    BY <1>5, <1>6, <1>7, AtShape DEF Known
  <2>3. Known(b)'
    BY <1>3, <1>5, <1>7, <2>2 DEF Known
  <2>4. Holding(r)' /\ UsesKnown(r)' /\ OwnDoc(r)'
    BY <1>3, <1>5, <1>6, <1>7, <2>3, AtShape DEF Holding, UsesKnown, OwnDoc
  <2> QED
    BY <1>4, <1>5, <1>6, <2>1, <2>2, <2>4, LinkedStep DEF Inv, Typed
<1>10. NothingWithoutBill'
  BY <1>5 DEF Inv, NothingWithoutBill
<1> QED
  BY <1>7, <1>8, <1>9, <1>10 DEF Inv, Typed

LEMMA WriteBillInv ==
  ASSUME Inv, NEW r \in Request, WriteBill(r)
  PROVE  Inv'
<1> DEFINE q == [req[r] EXCEPT !.at = "publish"]
<1>1. req[r] \in Writing
  BY ShapeAt DEF WriteBill, Inv, Typed, RequestsOK
<1>a. PICK b \in Request : b = req[r].bill
  BY <1>1 DEF Writing
<1>2. Known(b)
  BY <1>1, <1>a DEF Inv, Linked, UsesKnown
<1>3. q \in Writing /\ q \in Requests(r) /\ q.bill = b /\ q.at = "publish"
  BY <1>1, <1>a DEF Writing, Requests
<1>4. /\ billRow' = [billRow EXCEPT ![b] = "POSTED"]
      /\ Goto(r, "publish")
      /\ UNCHANGED <<complianceVars, items, itemRow, bills, doc, published>>
  BY <1>a DEF WriteBill
<1>5. Moves(r, q) /\ RequestsOK' /\ req'[r] = q
  BY <1>1, <1>3, <1>4, GotoOK
<1> HIDE DEF q
<1>6. RulesOK' /\ TablesOK'
  BY <1>4 DEF Inv, Typed, RulesOK, TablesOK, complianceVars, Status
<1>7. ItemsStay /\ RowsStay
  BY <1>4 DEF ItemsStay, RowsStay, Inv, Typed, TablesOK
<1>8. Linked'
  <2>1. \A x \in Request \ {r} : req'[x] = req[x]
    BY <1>3, <1>5, MovesOK DEF Inv, Typed
  <2>2. Known(r) => Known(r)'
    BY <1>3, <1>4, <1>5, AtShape DEF Known
  <2>3. Known(b)'
    BY <1>2, <1>4, <2>1, <2>2 DEF Known
  <2>4. \A c \in Request : HasStatus(c)' => HasStatus(c) \/ Known(c)'
    BY <1>4, <2>3 DEF HasStatus, Inv, Typed, TablesOK
  <2>5. Holding(r)' /\ UsesKnown(r)' /\ OwnDoc(r)'
    BY <1>3, <1>5, <2>3, AtShape DEF Holding, UsesKnown, OwnDoc
  <2> QED
    BY <1>3, <1>4, <1>5, <1>7, <2>2, <2>4, <2>5, LinkedStep DEF Inv, Typed
<1>9. NothingWithoutBill'
  BY <1>4, <1>7, NothingStep DEF Inv, Typed
<1> QED
  BY <1>5, <1>6, <1>8, <1>9 DEF Inv, Typed

LEMMA PublishInv ==
  ASSUME Inv, NEW r \in Request, Publish(r)
  PROVE  Inv'
<1>1. req[r] \in Writing
  BY ShapeAt DEF Publish, Inv, Typed, RequestsOK
<1>a. PICK b \in Request : b = req[r].bill
  BY <1>1 DEF Writing
<1>2. Known(b)
  BY <1>1, <1>a DEF Inv, Linked, UsesKnown
<1>3. /\ published' = [published EXCEPT ![b] = @ + 1]
      /\ Finish(r) /\ req[r].at # "new"
      /\ UNCHANGED <<complianceVars, items, itemRow, bills, billRow, doc>>
  BY <1>a DEF Publish, tables
<1>4. /\ Moves(r, Done) /\ Done \in Requests(r) /\ RequestsOK' /\ req'[r] = Done
      /\ Known(r) => Known(r)'
  BY <1>3, FinishOK
<1>5. RulesOK' /\ TablesOK'
  BY <1>3 DEF Inv, Typed, RulesOK, TablesOK, complianceVars
<1>6. ItemsStay /\ RowsStay
  BY <1>3 DEF ItemsStay, RowsStay
<1>7. Linked'
  <2>1. \A x \in Request \ {r} : req'[x] = req[x]
    BY <1>4, MovesOK DEF Inv, Typed
  <2>2. Known(b)'
    BY <1>2, <1>3, <1>4, <2>1 DEF Known
  <2>3. \A c \in Request : HasStatus(c)' => HasStatus(c) \/ Known(c)'
    BY <1>3, <2>2 DEF HasStatus, Inv, Typed, TablesOK
  <2> QED
    BY <1>3, <1>4, <1>6, <2>3, DoneIsFree, LinkedStep DEF Inv, Typed
<1>8. NothingWithoutBill'
  BY <1>3 DEF Inv, NothingWithoutBill
<1> QED
  BY <1>4, <1>5, <1>7, <1>8 DEF Inv, Typed

LEMMA FailInv ==
  ASSUME Inv, NEW r \in Request, Fail(r)
  PROVE  Inv'
<1>1. /\ Finish(r) /\ req[r].at # "new"
      /\ UNCHANGED <<complianceVars, items, itemRow, bills, billRow, doc, published>>
  BY DEF Fail, tables
<1>2. ItemsStay /\ RowsStay
  BY <1>1 DEF ItemsStay, RowsStay
<1>3. RequestsOK' /\ Linked'
  BY <1>1, <1>2, FinishOK, FinishLinked
<1>4. RulesOK' /\ TablesOK'
  BY <1>1 DEF Inv, Typed, RulesOK, TablesOK, complianceVars
<1>5. NothingWithoutBill'
  BY <1>1 DEF Inv, NothingWithoutBill
<1> QED
  BY <1>3, <1>4, <1>5 DEF Inv, Typed

-----------------------------------------------------------------------------
(* Lists, and posts, which put objects into the maps: a request that holds  *)
(* one goes on with it, in the map or not.                                  *)
GoesOn(x) ==
    \/ req'[x] = req[x] /\ req[x] \notin Importing(x)
    \/ /\ req[x] \in Importing(x) /\ req'[x] \in Importing(x)
       /\ req'[x].at = req[x].at /\ req'[x].holds = req[x].holds
       /\ Held(items, x)'.doc = Held(items, x).doc
       /\ Holding(x)'
    \/ req[x] \in Checking /\ req'[x] \in Checking /\ req'[x].holds = req[x].holds

LEMMA GoesOnOK ==
  ASSUME RequestsOK, NEW r \in Request, req'[r] \in Requests(r),
         \A x \in Request \ {r} : GoesOn(x), req' = [x \in Request |-> req'[x]]
  PROVE  RequestsOK'
<1>1. ASSUME NEW x \in Request \ {r} PROVE req'[x] \in Requests(x)
  BY DEF RequestsOK, GoesOn, Requests
<1> QED
  BY <1>1 DEF RequestsOK

LEMMA LinkedFill ==
  ASSUME Linked, RequestsOK, NEW r \in Request, \A x \in Request \ {r} : GoesOn(x),
         UNCHANGED <<doc, billRow>>, Known(r) => Known(r)',
         \A b \in Request : HasStatus(b)' => HasStatus(b) \/ Known(b)',
         Holding(r)', UsesKnown(r)', OwnDoc(r)'
  PROVE  Linked'
<1>1. ASSUME NEW b \in Request, Known(b) PROVE Known(b)'
  <2>1. CASE b = r
    BY <1>1, <2>1
  <2>2. CASE b # r
    <3>1. GoesOn(b)
      BY <2>2
    <3> QED
      BY <1>1, <3>1, AtShape DEF GoesOn, Known, New
  <2> QED
    BY <2>1, <2>2
<1>2. ASSUME NEW x \in Request \ {r} PROVE Holding(x)' /\ UsesKnown(x)' /\ OwnDoc(x)'
  <2>1. CASE req'[x] = req[x] /\ req[x] \notin Importing(x)
    <3>1. /\ req[x] \in Finding \cup Found => req[x].bill \in Request
          /\ req[x] \in Checking => req[x].holds \in Request
          /\ req[x] \in Writing => req[x].bill \in Request
          /\ req[x] \in ListingBills => DOMAIN req[x].list \subseteq Request
      BY DEF Finding, Found, Checking, Writing, ListingBills
    <3>2. UsesKnown(x)'
      BY <1>1, <2>1, <3>1 DEF Linked, UsesKnown
    <3> QED
      BY <2>1, <3>2 DEF Linked, Holding, OwnDoc
  <2>2. CASE /\ req[x] \in Importing(x) /\ req'[x] \in Importing(x)
             /\ req'[x].at = req[x].at /\ req'[x].holds = req[x].holds
             /\ Held(items, x)'.doc = Held(items, x).doc
             /\ Holding(x)'
    BY <2>2, AtShape DEF Linked, UsesKnown, OwnDoc
  <2>3. CASE req[x] \in Checking /\ req'[x] \in Checking /\ req'[x].holds = req[x].holds
    <3>1. req[x].holds \in Request
      BY <2>3 DEF Checking
    <3>2. Known(req[x].holds)
      BY <2>3 DEF Linked, UsesKnown
    <3>3. PICK b \in Request : b = req[x].holds
      BY <3>1
    <3>4. Known(b)'
      BY <1>1, <3>2, <3>3
    <3>5. UsesKnown(x)'
      BY <2>3, <3>3, <3>4, AtShape DEF UsesKnown
    <3> QED
      BY <2>3, <3>5, AtShape DEF Holding, OwnDoc
  <2>4. GoesOn(x)
    OBVIOUS
  <2> QED
    BY <2>1, <2>2, <2>3, <2>4 DEF GoesOn
<1>3. \A b \in Request : HasStatus(b)' => Known(b)'
  BY <1>1 DEF Linked
<1> QED
  BY <1>2, <1>3 DEF Linked

\* Only a post holds a bill, and only an import an item.
LEMMA HoldsBill ==
  ASSUME Inv, NEW x \in Request, NEW b \in Request, Holds(req, x, b)
  PROVE  req[x] \in Checking
  BY ShapeHeld DEF Inv, Typed, RequestsOK, Holds

LEMMA HoldsItem ==
  ASSUME Inv, NEW x \in Request, NEW i \in Item, Holds(req, x, i)
  PROVE  req[x] \in Importing(x)
  BY ShapeHeld DEF Inv, Typed, RequestsOK, Holds

LEMMA CheckInv ==
  ASSUME Inv, NEW r \in Request, Check(r)
  PROVE  Inv'
<1>1. req[r] \in Checking
  BY ShapeAt DEF Check, Inv, Typed, RequestsOK
<1>2. PICK b \in Request : b = req[r].holds
  BY <1>1 DEF Checking
<1>3. Known(b) /\ req[r].touches = {b} /\ req[r].touches \in Touched
  BY <1>1, <1>2 DEF Inv, Linked, UsesKnown, Checking
<1>4. UNCHANGED <<complianceVars, items, itemRow, billRow, doc, published>>
  BY DEF Check, tables
<1>5. req[r].at # "new"
  BY DEF Check
<1>6. CASE Finish(r) /\ UNCHANGED bills
  <2>1. ItemsStay /\ RowsStay
    BY <1>4 DEF ItemsStay, RowsStay
  <2>2. RequestsOK' /\ Linked'
    BY <1>4, <1>5, <1>6, <2>1, FinishOK, FinishLinked
  <2>3. RulesOK' /\ TablesOK'
    BY <1>4, <1>6 DEF Inv, Typed, RulesOK, TablesOK, complianceVars
  <2>4. NothingWithoutBill'
    BY <1>4 DEF Inv, NothingWithoutBill
  <2> QED
    BY <2>2, <2>3, <2>4 DEF Inv, Typed
<1>7. CASE ~(Finish(r) /\ UNCHANGED bills)
  <2> DEFINE q == [op |-> "post", at |-> "writeBill", bill |-> b, touches |-> req[r].touches]
  <2>1. /\ bills' = [bills EXCEPT ![b] = "POSTED"]
        /\ req' = [PutBack(bills, r) EXCEPT ![r] = q]
    BY <1>2, <1>7 DEF Check, PutBack
  <2>2. q \in Writing /\ q \in Requests(r) /\ q.bill = b
    BY <1>3 DEF Writing, Requests
  <2> HIDE DEF q
  <2>3. req'[r] = q /\ req' = [x \in Request |-> req'[x]]
    BY <2>1 DEF PutBack
  <2>4. ASSUME NEW x \in Request \ {r} PROVE GoesOn(x)
    <3> DEFINE other == [by |-> r, at |-> req[r].at, val |-> bills[b]]
    <3>1. \/ req'[x] = req[x]
          \/ Holds(req, x, b) /\ (\/ req'[x] = [req[x] EXCEPT !.obj = Cached]
                                  \/ req'[x] = [req[x] EXCEPT !.obj = other])
      BY <1>2, <2>1 DEF PutBack
    <3>2. other \in [by : Request, at : Replacing, val : Status]
      BY <1>1 DEF Inv, Typed, TablesOK, Checking, Replacing
    <3> HIDE DEF other
    <3>3. CASE Holds(req, x, b) /\ (\/ req'[x] = [req[x] EXCEPT !.obj = Cached]
                                    \/ req'[x] = [req[x] EXCEPT !.obj = other])
      <4>1. req[x] \in Checking
        BY <3>3, HoldsBill
      <4>2. req'[x] \in Checking /\ req'[x].holds = req[x].holds
        BY <3>2, <3>3, <4>1 DEF Checking
      <4> QED
        BY <4>1, <4>2 DEF GoesOn
    <3>4. CASE req'[x] = req[x]
      <4>1. req[x] \in Importing(x) => req[x].holds \in Item
        BY DEF Importing
      <4>2. Holding(x)' /\ Held(items, x)' = Held(items, x)
        BY <1>4, <3>4 DEF Inv, Linked, Holding, Held
      <4> QED
        BY <3>4, <4>2 DEF GoesOn
    <3> QED
      BY <3>1, <3>3, <3>4
  <2>5. RequestsOK'
    BY <2>2, <2>3, <2>4, GoesOnOK DEF Inv, Typed
  <2>6. RulesOK' /\ TablesOK'
    BY <1>4, <2>1 DEF Inv, Typed, RulesOK, TablesOK, complianceVars, Status
  <2>7. Linked'
    <3>1. Known(r) => Known(r)'
      BY <1>4, <2>2, <2>3, AtShape DEF Known
    <3>2. Known(b)'
      <4>1. CASE b = r
        BY <1>3, <3>1, <4>1
      <4>2. CASE b # r
        <5>1. GoesOn(b)
          BY <2>4, <4>2
        <5> QED
          BY <1>3, <1>4, <5>1, AtShape DEF GoesOn, Known, New
      <4> QED
        BY <4>1, <4>2
    <3>3. \A c \in Request : HasStatus(c)' => HasStatus(c) \/ Known(c)'
      BY <1>4, <2>1, <3>2 DEF HasStatus, Inv, Typed, TablesOK
    <3>4. Holding(r)' /\ UsesKnown(r)' /\ OwnDoc(r)'
      BY <2>2, <2>3, <3>2, AtShape DEF Holding, UsesKnown, OwnDoc
    <3> QED
      BY <1>4, <2>4, <3>1, <3>3, <3>4, LinkedFill DEF Inv, Typed
  <2>8. NothingWithoutBill'
    BY <1>4 DEF Inv, NothingWithoutBill
  <2> QED
    BY <2>5, <2>6, <2>7, <2>8 DEF Inv, Typed
<1> QED
  BY <1>6, <1>7

LEMMA ListBillsInv ==
  ASSUME Inv, NEW r \in Request, ListBills(r)
  PROVE  Inv'
<1> DEFINE listed == {b \in Request : billRow[b] # "none"}
           list == [b \in listed |-> billRow[b]]
           q == [op |-> "listBills", at |-> "fillBills", list |-> list, touches |-> DOMAIN list]
<1>1. req[r] = New /\ Moves(r, q)
  BY DEF ListBills, Begin, Moves
<1>2. UNCHANGED <<complianceVars, items, itemRow, bills, billRow, doc, published>>
  BY DEF ListBills, tables
<1>3. list \in [listed -> Status \ {"none"}] /\ listed \in SUBSET Request
  BY DEF Inv, Typed, TablesOK
<1>4. DOMAIN list = listed /\ \A b \in listed : Known(b)
  BY DEF Inv, Linked, HasStatus
<1> HIDE DEF list, listed
<1>5. q \in ListingBills /\ q \in Requests(r)
  <2>1. list \in UNION {[S -> Status \ {"none"}] : S \in SUBSET Request} /\ DOMAIN list \in Touched
    BY <1>3, <1>4 DEF Touched
  <2> QED
    BY <2>1 DEF ListingBills, Requests
<1>6. RequestsOK' /\ req'[r] = q /\ \A x \in Request \ {r} : req'[x] = req[x]
  BY <1>1, <1>5, MovesOK DEF Inv, Typed
<1>7. RulesOK' /\ TablesOK'
  BY <1>2 DEF Inv, Typed, RulesOK, TablesOK, complianceVars
<1>8. ItemsStay /\ RowsStay /\ \A b \in Request : HasStatus(b)' => HasStatus(b)
  BY <1>2 DEF ItemsStay, RowsStay, HasStatus
<1>9. Linked'
  <2>1. ~Known(r)
    BY <1>1, NewIsUnknown
  <2>2. req'[r].list = list
    BY <1>6
  <2>3. \A b \in DOMAIN list : Known(b)'
    BY <1>2, <1>3, <1>4, <1>6, <2>1 DEF Known
  <2> HIDE DEF q
  <2>4. Holding(r)' /\ UsesKnown(r)' /\ OwnDoc(r)'
    BY <1>5, <1>6, <2>2, <2>3, AtShape DEF Holding, UsesKnown, OwnDoc
  <2> QED
    BY <1>1, <1>2, <1>5, <1>8, <2>1, <2>4, LinkedStep DEF Inv, Typed
<1>10. NothingWithoutBill'
  BY <1>2 DEF Inv, NothingWithoutBill
<1> QED
  BY <1>6, <1>7, <1>9, <1>10 DEF Inv, Typed

LEMMA ListForTenantInv ==
  ASSUME Inv, NEW r \in Request, ListForTenant(r)
  PROVE  Inv'
<1> DEFINE pending == {i \in Item : itemRow[i] # None /\ itemRow[i].status = "PENDING"}
           list == [i \in pending |-> itemRow[i]]
           q == [op |-> "listInbox", at |-> "fillInbox", list |-> list, touches |-> pending]
<1>1. req[r] = New /\ Moves(r, q)
  BY DEF ListForTenant, Begin, Moves
<1>2. UNCHANGED <<complianceVars, items, itemRow, bills, billRow, doc, published>>
  BY DEF ListForTenant, tables
<1>3. list \in [pending -> Pending] /\ pending \in SUBSET Item /\ DOMAIN list = pending
  BY DEF Inv, Typed, TablesOK, Pending
<1> HIDE DEF list, pending
<1>4. q \in ListingInbox /\ q \in Requests(r)
  <2>1. list \in UNION {[S -> Pending] : S \in SUBSET Item} /\ pending \in Touched
    BY <1>3 DEF Touched
  <2> QED
    BY <1>3, <2>1 DEF ListingInbox, Requests
<1> HIDE DEF q
<1>5. RequestsOK' /\ req'[r] = q
  BY <1>1, <1>4, MovesOK DEF Inv, Typed
<1>6. RulesOK' /\ TablesOK'
  BY <1>2 DEF Inv, Typed, RulesOK, TablesOK, complianceVars
<1>7. ItemsStay /\ RowsStay /\ \A b \in Request : HasStatus(b)' => HasStatus(b)
  BY <1>2 DEF ItemsStay, RowsStay, HasStatus
<1>8. Linked'
  <2>1. ~Known(r)
    BY <1>1, NewIsUnknown
  <2>2. Holding(r)' /\ UsesKnown(r)' /\ OwnDoc(r)'
    BY <1>4, <1>5, AtShape DEF Holding, UsesKnown, OwnDoc
  <2> QED
    BY <1>1, <1>2, <1>4, <1>7, <2>1, <2>2, LinkedStep DEF Inv, Typed
<1>9. NothingWithoutBill'
  BY <1>2 DEF Inv, NothingWithoutBill
<1> QED
  BY <1>5, <1>6, <1>8, <1>9 DEF Inv, Typed

\* Bills that get other objects leave the old ones to the posts that hold them.
LEMMA DetachGoesOn ==
  ASSUME Inv, NEW r \in Request, req[r].at \in Replacing, NEW S \in SUBSET Request,
         NEW q, req' = [Detach(bills, S, r) EXCEPT ![r] = q], items' = items,
         NEW x \in Request \ {r}
  PROVE  GoesOn(x)
<1> DEFINE other == [by |-> r, at |-> req[r].at, val |-> bills[req[x].holds]]
<1>1. \/ req'[x] = req[x]
      \/ /\ \E b \in S : Holds(req, x, b)
         /\ req'[x] = [req[x] EXCEPT !.obj = other]
  BY DEF Detach
<1>2. CASE req'[x] = req[x]
  <2>1. Holding(x)' /\ Held(items, x)' = Held(items, x)
    BY <1>2 DEF Inv, Linked, Holding, Held
  <2> QED
    BY <1>2, <2>1 DEF GoesOn
<1>3. CASE \E b \in S : Holds(req, x, b) /\ req'[x] = [req[x] EXCEPT !.obj = other]
  <2>1. req[x] \in Checking
    BY <1>3, HoldsBill
  <2>2. other \in [by : Request, at : Replacing, val : Status]
    BY <2>1 DEF Checking, Inv, Typed, TablesOK
  <2> HIDE DEF other
  <2>3. req'[x] \in Checking /\ req'[x].holds = req[x].holds
    BY <1>3, <2>1, <2>2 DEF Checking
  <2> QED
    BY <2>1, <2>3 DEF GoesOn
<1> QED
  BY <1>1, <1>2, <1>3

\* A post that has found its bill goes on to its validation.
LEMMA FoundKeeps ==
  ASSUME NEW r \in Request, req[r] \in Found, BillFound(r), NEW b, b = req[r].bill
  PROVE  req' = [Detach(bills, {b}, r) EXCEPT ![r] =
                   [op |-> "post", at |-> "check", holds |-> b, obj |-> Cached,
                    touches |-> req[r].touches]]
<1>1. req' = [Detach(bills, {b}, r) EXCEPT ![r] = [op |-> "post", at |-> "check",
                holds |-> @.bill, obj |-> Cached, touches |-> @.touches]]
  BY DEF BillFound
<1>2. Detach(bills, {b}, r)[r] = req[r]
  <2>1. ~("obj" \in DOMAIN req[r])
    BY DEF Found
  <2> QED
    BY <2>1 DEF Detach, Holds
<1> QED
  BY <1>1, <1>2 DEF Detach

\* The post puts an object made from the row into the map.
LEMMA BillFoundInv ==
  ASSUME Inv, NEW r \in Request, BillFound(r)
  PROVE  Inv'
<1>1. req[r] \in Found /\ req[r].at = "found"
  BY ShapeAt DEF BillFound, Inv, Typed, RequestsOK
<1>2. PICK b \in Request : b = req[r].bill
  BY <1>1 DEF Found
<1>3. /\ Known(b) /\ req[r].touches = {b} /\ req[r].touches \in Touched
      /\ req[r].row \in Status \ {"none"}
  BY <1>1, <1>2 DEF Inv, Linked, UsesKnown, Found
<1> DEFINE q == [op |-> "post", at |-> "check", holds |-> b, obj |-> Cached,
                 touches |-> req[r].touches]
<1>4. /\ bills' = [bills EXCEPT ![b] = req[r].row]
      /\ UNCHANGED <<complianceVars, items, itemRow, billRow, doc, published>>
  BY <1>2 DEF BillFound, tables
<1>6. req' = [Detach(bills, {b}, r) EXCEPT ![r] = q]
  BY <1>1, <1>2, FoundKeeps
<1>7. q \in Checking /\ q \in Requests(r) /\ q.holds = b
  BY <1>3 DEF Checking, Requests
<1> HIDE DEF q
<1>8. req'[r] = q /\ req' = [x \in Request |-> req'[x]]
  BY <1>6 DEF Detach
<1>9. ASSUME NEW x \in Request \ {r} PROVE GoesOn(x)
  <2>1. req[r].at \in Replacing /\ {b} \in SUBSET Request
    BY <1>1 DEF Replacing
  <2> QED
    BY <1>4, <1>6, <2>1, DetachGoesOn
<1>10. RequestsOK'
  BY <1>7, <1>8, <1>9, GoesOnOK DEF Inv, Typed
<1>11. RulesOK' /\ TablesOK'
  BY <1>3, <1>4 DEF Inv, Typed, RulesOK, TablesOK, complianceVars
<1>12. Linked'
  <2>1. Known(r) => Known(r)'
    BY <1>4, <1>7, <1>8, AtShape DEF Known
  <2>2. Known(b)'
    <3>1. CASE b = r
      BY <1>3, <2>1, <3>1
    <3>2. CASE b # r
      <4>1. GoesOn(b)
        BY <1>9, <3>2
      <4> QED
        BY <1>3, <1>4, <4>1, AtShape DEF GoesOn, Known, New
    <3> QED
      BY <3>1, <3>2
  <2>3. \A c \in Request : HasStatus(c)' => HasStatus(c) \/ Known(c)'
    BY <1>4, <2>2 DEF HasStatus, Inv, Typed, TablesOK
  <2>4. Holding(r)' /\ UsesKnown(r)' /\ OwnDoc(r)'
    BY <1>7, <1>8, <2>2, AtShape DEF Holding, UsesKnown, OwnDoc
  <2> QED
    BY <1>4, <1>9, <2>1, <2>3, <2>4, LinkedFill DEF Inv, Typed
<1>13. NothingWithoutBill'
  BY <1>4 DEF Inv, NothingWithoutBill
<1> QED
  BY <1>10, <1>11, <1>12, <1>13 DEF Inv, Typed

LEMMA FillBillsInv ==
  ASSUME Inv, NEW r \in Request, FillBills(r)
  PROVE  Inv'
<1> DEFINE list == req[r].list
<1>1. req[r] \in ListingBills /\ req[r] # New
  BY ShapeAt DEF FillBills, Inv, Typed, RequestsOK, New
<1>2. PICK S \in SUBSET Request : list \in [S -> Status \ {"none"}]
  BY <1>1 DEF ListingBills
<1>3. \A b \in S : Known(b)
  BY <1>1, <1>2 DEF Inv, Linked, UsesKnown
<1>4. /\ bills' = [b \in Request |-> IF b \in DOMAIN list THEN list[b] ELSE bills[b]]
      /\ req' = [Detach(bills, DOMAIN list, r) EXCEPT ![r] = Done]
      /\ UNCHANGED <<complianceVars, items, itemRow, billRow, doc, published>>
  BY DEF FillBills, tables
<1> HIDE DEF list
<1>5. DOMAIN list = S
  BY <1>2
<1>6. req'[r] = Done /\ req' = [x \in Request |-> req'[x]]
  BY <1>4 DEF Detach
<1>7. ASSUME NEW x \in Request \ {r} PROVE GoesOn(x)
  <2>1. req[r].at \in Replacing
    BY <1>1 DEF ListingBills, Replacing
  <2> QED
    BY <1>4, <1>5, <2>1, DetachGoesOn
<1>8. RequestsOK'
  BY <1>6, <1>7, GoesOnOK DEF Inv, Typed, Requests
<1>9. RulesOK' /\ TablesOK'
  BY <1>2, <1>4, <1>5 DEF Inv, Typed, RulesOK, TablesOK, complianceVars
<1>10. Linked'
  <2>1. Known(r) => Known(r)'
    BY <1>4, <1>6 DEF Known, Done, New
  <2>2. ASSUME NEW b \in Request, HasStatus(b)' PROVE HasStatus(b) \/ Known(b)'
    <3>1. CASE b \in S
      <4>1. Known(b)
        BY <1>3, <3>1
      <4>2. CASE b = r
        BY <2>1, <4>1, <4>2
      <4>3. CASE b # r
        <5>1. GoesOn(b)
          BY <1>7, <4>3
        <5> QED
          BY <1>4, <4>1, <5>1, AtShape DEF GoesOn, Known, New
      <4> QED
        BY <4>2, <4>3
    <3>2. CASE b \notin S
      BY <1>4, <1>5, <2>2, <3>2 DEF HasStatus
    <3> QED
      BY <3>1, <3>2
  <2> QED
    BY <1>4, <1>6, <1>7, <2>1, <2>2, DoneIsFree, LinkedFill DEF Inv, Typed
<1>11. NothingWithoutBill'
  BY <1>4 DEF Inv, NothingWithoutBill
<1> QED
  BY <1>8, <1>9, <1>10, <1>11 DEF Inv, Typed

LEMMA FillInboxInv ==
  ASSUME Inv, NEW r \in Request, FillInbox(r)
  PROVE  Inv'
<1> DEFINE list == req[r].list
<1>1. req[r] \in ListingInbox /\ req[r] # New
  BY ShapeAt DEF FillInbox, Inv, Typed, RequestsOK, New
<1>2. PICK S \in SUBSET Item : list \in [S -> Pending]
  BY <1>1 DEF ListingInbox
<1>3. /\ items' = [i \in Item |-> IF i \in DOMAIN list THEN list[i] ELSE items[i]]
      /\ req' = [Detach(items, DOMAIN list, r) EXCEPT ![r] = Done]
      /\ UNCHANGED <<complianceVars, itemRow, bills, billRow, doc, published>>
  BY DEF FillInbox, tables
<1> HIDE DEF list
<1>4. DOMAIN list = S
  BY <1>2
<1>5. req'[r] = Done /\ req' = [x \in Request |-> req'[x]]
  BY <1>3 DEF Detach
<1>6. \A i \in Item \ S : items'[i] = items[i]
  BY <1>3, <1>4
<1>7. ASSUME NEW x \in Request \ {r} PROVE GoesOn(x)
  <2> DEFINE other == [by |-> r, at |-> req[r].at, val |-> items[req[x].holds]]
             swapped == (\E i \in S : Holds(req, x, i)) /\ req[x].obj = Cached
  <2>1. req'[x] = IF swapped THEN [req[x] EXCEPT !.obj = other] ELSE req[x]
    BY <1>3, <1>4 DEF Detach
  <2>2. CASE swapped
    <3>1. req[x] \in Importing(x)
      BY <2>2, HoldsItem
    <3>2. other \in [by : Request, at : Replacing, val : Object]
      BY <1>1, <2>2, <3>1 DEF Importing, Inv, Linked, Holding, Typed, TablesOK, ListingInbox,
                              Replacing
    <3>3. other # Cached /\ other.val = Held(items, x)
      BY <2>2 DEF Cached, Held
    <3>4. req'[x] = [req[x] EXCEPT !.obj = other]
      BY <2>1, <2>2
    <3> HIDE DEF other
    <3>5. req'[x] \in Importing(x) /\ req'[x].holds = req[x].holds /\ req'[x].at = req[x].at
          /\ req'[x].obj = other
      BY <3>1, <3>2, <3>4 DEF Importing
    <3>6. Held(items, x)' = Held(items, x) /\ Holding(x)'
      BY <3>3, <3>5 DEF Held, Holding
    <3> QED
      BY <3>1, <3>5, <3>6 DEF GoesOn
  <2>3. CASE ~swapped
    <3>1. req'[x] = req[x]
      BY <2>1, <2>3
    <3>2. CASE req[x] \in Importing(x)
      <4>1. "obj" \in DOMAIN req[x] /\ req[x].holds \in Item
        BY <3>2 DEF Importing
      <4>2. req[x].obj = Cached => req[x].holds \notin S
        BY <2>3, <4>1 DEF Holds
      <4>3. Held(items, x)' = Held(items, x)
        BY <1>6, <3>1, <4>1, <4>2 DEF Held
      <4>4. Holding(x)'
        BY <1>6, <3>1, <4>1, <4>2 DEF Inv, Linked, Holding
      <4> QED
        BY <3>1, <3>2, <4>3, <4>4 DEF GoesOn
    <3>3. CASE req[x] \notin Importing(x)
      BY <3>1, <3>3 DEF GoesOn
    <3> QED
      BY <3>2, <3>3
  <2> QED
    BY <2>2, <2>3
<1>8. RequestsOK'
  BY <1>5, <1>7, GoesOnOK DEF Inv, Typed, Requests
<1>9. RulesOK' /\ TablesOK'
  <2>1. items' \in [Item -> Object \cup {None}]
    BY <1>2, <1>3, <1>4 DEF Inv, Typed, TablesOK, Pending
  <2> QED
    BY <1>3, <2>1 DEF Inv, Typed, RulesOK, TablesOK, complianceVars
<1>10. Linked'
  <2>1. Known(r) => Known(r)'
    BY <1>3, <1>5 DEF Known, Done, New
  <2>2. \A b \in Request : HasStatus(b)' => HasStatus(b)
    BY <1>3 DEF HasStatus
  <2> QED
    BY <1>3, <1>5, <1>7, <2>1, <2>2, DoneIsFree, LinkedFill DEF Inv, Typed
<1>11. NothingWithoutBill'
  BY <1>3 DEF Inv, NothingWithoutBill
<1> QED
  BY <1>8, <1>9, <1>10, <1>11 DEF Inv, Typed

-----------------------------------------------------------------------------
LEMMA NextInv == Inv /\ [Next]_vars => Inv'
<1> SUFFICES ASSUME Inv, [Next]_vars PROVE Inv'
  OBVIOUS
<1>1. ASSUME NEW r \in Request, Step(r) PROVE Inv'
  <2>1. ASSUME NEW i \in Item, ImportToBill(r, i) PROVE Inv'
    BY <2>1, ImportToBillInv
  <2>2. ASSUME NEW i \in Item, NEW d \in Documents, CreateInboxItem(r, i, d) PROVE Inv'
    BY <2>2, CreateInboxItemInv
  <2>3. ASSUME NEW d \in Documents, CreateBill(r, d) PROVE Inv'
    BY <2>3, CreateBillInv
  <2>4. ASSUME NEW b \in Request, PostBill(r, b) \/ FindBill(r, b) PROVE Inv'
    BY <2>4, PostBillInv
  <2>5. CASE SaveItem(r) \/ Validate(r) \/ SaveBill(r) \/ Receive(r) \/ UpdateItem(r)
    BY <2>5, SaveItemInv, ValidateInv, SaveBillInv, ReceiveInv, UpdateItemInv
  <2>6. CASE Check(r) \/ WriteBill(r) \/ Publish(r) \/ Fail(r)
    BY <2>6, CheckInv, WriteBillInv, PublishInv, FailInv
  <2>7. CASE ListBills(r) \/ ListForTenant(r) \/ FillBills(r) \/ FillInbox(r)
    BY <2>7, ListBillsInv, ListForTenantInv, FillBillsInv, FillInboxInv
  <2>8. CASE ReadBill(r) \/ BillFound(r)
    BY <2>8, ReadBillInv, BillFoundInv
  <2> QED
    BY <1>1, <2>1, <2>2, <2>3, <2>4, <2>5, <2>6, <2>7, <2>8 DEF Step
<1>2. CASE Environment
  BY <1>2, RulesStepInv, RestartInv DEF Environment, RulesStep
<1>3. CASE UNCHANGED vars
  <2>1. UNCHANGED <<law, version, client, polls>>
        /\ UNCHANGED <<items, itemRow, bills, billRow, doc, req, published>>
    BY <1>3 DEF vars
  <2>2. Typed'
    BY <2>1 DEF Inv, Typed, RulesOK, TablesOK, RequestsOK
  <2>3. Linked'
    BY <2>1 DEF Inv, Linked, Holding, UsesKnown, OwnDoc, HasStatus, Known, Held
  <2>4. NothingWithoutBill'
    BY <2>1 DEF Inv, NothingWithoutBill
  <2> QED
    BY <2>2, <2>3, <2>4 DEF Inv
<1> QED
  BY <1>1, <1>2, <1>3 DEF Next

LEMMA InvAlways == Spec => []Inv
  BY InitInv, NextInv, PTL DEF Spec

(* For any items, requests and overlaps, and whatever fails or stops:       *)
(* nothing is IMPORTED or received into stock without the bill it became    *)
(* (importToBill, createBill).                                              *)
THEOREM NothingIsLost == Spec => []NothingWithoutBill
<1>1. Inv => NothingWithoutBill
  BY DEF Inv
<1> QED
  BY <1>1, InvAlways, PTL

-----------------------------------------------------------------------------
(* What was accepted stays accepted.                                        *)
\* A bill that some law accepts is accepted when the service has that law,
\* and also by the fallback, when the client has it, or none and it is the
\* first.
LEMMA AcceptedByLaw ==
  ASSUME NEW d \in Bodies, NEW k \in DOMAIN Laws, Violations("bill", d, Laws[k]) = {}
  PROVE  /\ up /\ law = k => Accepted("bill", d)
         /\ ~up /\ (client.law = k \/ (client.law = 0 /\ k = 1)) => Accepted("bill", d)
         /\ client.law = k \/ (client.law = 0 /\ k = 1) => IsValidTaxId(d.tax, ClientTaxes)
<1>1. d \in Document(Taxes, Mains \X (0 .. 9))
  BY BodiesOK
<1>2. d.tax \in Laws[k]
  BY DEF Violations
<1>3. ASSUME client.law = k \/ (client.law = 0 /\ k = 1)
      PROVE  IsValidTaxId(d.tax, ClientTaxes) /\ LocalViolations("bill", d, ClientTaxes) = {}
  <2>1. ClientTaxes = Laws[k] \/ (ClientTaxes = {} /\ Laws[k] \subseteq TaxCategories)
    BY <1>3, Laws1, PurchasingAssumption DEF ClientTaxes
  <2>2. IsValidTaxId(d.tax, ClientTaxes)
    BY <1>2, <2>1 DEF IsValidTaxId
  <2>3. LocalViolations("bill", d, ClientTaxes) = {}
    BY <1>1, <2>1, FallbackIsWeaker
  <2> QED
    BY <2>2, <2>3
<1>4. up /\ law = k => Accepted("bill", d)
  BY DEF Accepted
<1>5. ~up /\ (client.law = k \/ (client.law = 0 /\ k = 1)) => Accepted("bill", d)
  BY <1>3 DEF Accepted
<1> QED
  BY <1>3, <1>4, <1>5

\* The import of an accepted invoice passes its validation.
LEMMA ImportPasses ==
  ASSUME Inv, NEW r \in Request, req[r].at = "validate", ImportPromised(r)
  PROVE  Accepted("bill", doc[r].body) /\ Constructible(doc[r].body)
<1> DEFINE o == Held(items, r)
<1>1. req[r] \in Importing(r)
  BY ShapeAt, AtShape DEF ImportPromised, Inv, Typed, RequestsOK
<1>2. o \in Object
  BY <1>1 DEF Importing, Held, Inv, Linked, Holding, Typed, TablesOK
<1>3. o.by # 0 /\ o.doc.text # "uuid"
  BY DEF ImportPromised
<1> HIDE DEF o
<1>4. o.doc \in Documents /\ Violations("invoice", o.doc, Laws[o.by]) = {}
  BY <1>2, <1>3 DEF Object
<1>5. doc[r].body = Imported(o.doc)
  BY <1>1 DEF Inv, Linked, OwnDoc, o
<1>6. ASSUME NEW k \in DOMAIN Laws
      PROVE  Violations("bill", doc[r].body, Laws[k]) = {} /\ Constructible(doc[r].body)
  BY <1>3, <1>4, <1>5, DocumentsOK, ImportIsAccepted, PurchasingAssumption
<1>7. doc[r].body \in Bodies
  BY <1>4, <1>5 DEF Bodies
<1>8. law \in DOMAIN Laws /\ 1 \in DOMAIN Laws /\ (client.law = 0 \/ client.law \in DOMAIN Laws)
  BY Laws1 DEF Inv, Typed, RulesOK, Lawful
<1>9. CASE up
  BY <1>6, <1>7, <1>8, <1>9, AcceptedByLaw
<1>10. CASE ~up /\ client.law = 0
  BY <1>6, <1>7, <1>8, <1>10, AcceptedByLaw
<1>11. CASE ~up /\ client.law \in DOMAIN Laws
  BY <1>6, <1>7, <1>8, <1>11, AcceptedByLaw
<1> QED
  BY <1>8, <1>9, <1>10, <1>11

\* The post of a bill that the law in force accepted is lawful.
LEMMA PostPasses ==
  ASSUME Inv, NEW r \in Request, req[r].at = "check", PostPromised(r)
  PROVE  LET b == req[r].holds IN
         Accepted("bill", doc[b].body) /\ IsValidTaxId(doc[b].body.tax, ClientTaxes)
<1> DEFINE b == req[r].holds
<1>1. req[r] \in Checking
  BY ShapeAt DEF Inv, Typed, RequestsOK
<1>2. b \in Request /\ Known(b)
  BY <1>1 DEF Checking, Inv, Linked, UsesKnown
<1>3. doc[b] \in BillDoc
  BY <1>2 DEF Known, Inv, Typed, TablesOK
<1>4. law \in DOMAIN Laws /\ law # 0
  BY Laws1 DEF Inv, Typed, RulesOK
<1>5. /\ doc[b].by = law
      /\ client.law = law \/ (client.law = 0 /\ law = 1)
  BY DEF PostPromised
<1> HIDE DEF b
<1>6. doc[b].body \in Bodies /\ Violations("bill", doc[b].body, Laws[law]) = {}
  BY <1>3, <1>4, <1>5 DEF BillDoc
<1>7. Accepted("bill", doc[b].body) /\ IsValidTaxId(doc[b].body.tax, ClientTaxes)
  BY <1>4, <1>5, <1>6, AcceptedByLaw
<1> QED
  BY <1>7 DEF b

\* Only the end of a validation refuses.
LEMMA RefusesNothing ==
  ASSUME Inv, refused = {}, [Next]_vars
  PROVE  refused' = {}
<1>1. ASSUME NEW r \in Request, Validate(r) PROVE refused' = refused
  BY <1>1, ImportPasses DEF Validate
<1>2. ASSUME NEW r \in Request, Check(r) PROVE refused' = refused
  BY <1>2, PostPasses DEF Check
<1>3. ASSUME NEW r \in Request, Step(r) PROVE refused' = refused
  <2>1. CASE \E i \in Item : ImportToBill(r, i) \/ \E d \in Documents : CreateInboxItem(r, i, d)
    BY <2>1 DEF ImportToBill, CreateInboxItem
  <2>2. CASE \/ \E d \in Documents : CreateBill(r, d)
             \/ \E b \in Request : PostBill(r, b) \/ FindBill(r, b)
    BY <2>2 DEF CreateBill, PostBill, FindBill
  <2>3. CASE ListBills(r) \/ ListForTenant(r)
    BY <2>3 DEF ListBills, ListForTenant
  <2>4. CASE SaveItem(r) \/ SaveBill(r) \/ Receive(r) \/ UpdateItem(r) \/ WriteBill(r) \/ Publish(r)
    BY <2>4 DEF SaveItem, SaveBill, Receive, UpdateItem, WriteBill, Publish, history
  <2>5. CASE FillBills(r) \/ FillInbox(r) \/ Fail(r) \/ ReadBill(r) \/ BillFound(r)
    BY <2>5 DEF FillBills, FillInbox, Fail, ReadBill, BillFound, history
  <2> QED
    BY <1>1, <1>2, <1>3, <2>1, <2>2, <2>3, <2>4, <2>5 DEF Step
<1>4. CASE Environment
  BY <1>4, RulesStepFrame DEF Environment, RulesStep, Restart, history
<1>5. CASE UNCHANGED vars
  BY <1>5 DEF vars
<1> QED
  BY <1>3, <1>4, <1>5 DEF Next

(* For any documents, deployments of the law, outages and polls: an invoice *)
(* that compliance has accepted is not refused as a bill (importToBill),    *)
(* nor a bill at its post while its law is in force and the client knows    *)
(* it, whether the service answers or the fallback of the client does.      *)
THEOREM AcceptedIsKept == Spec => []AcceptedStaysAccepted
<1>1. Init => AcceptedStaysAccepted
  BY DEF Init, AcceptedStaysAccepted
<1>2. Inv /\ AcceptedStaysAccepted /\ [Next]_vars => AcceptedStaysAccepted'
  BY RefusesNothing DEF AcceptedStaysAccepted
<1> QED
  BY <1>1, <1>2, InvAlways, PTL DEF Spec

-----------------------------------------------------------------------------
(* Requests about an object that has not been raced do not overlap, unless  *)
(* they are posts that have the bill in hand.                               *)
MayOverlap(p, q) == {p.op, q.op} = {"post"} /\ ~LooksUp(p) /\ ~LooksUp(q)

Apart ==
    \A p, q \in Request : p # q /\ Running(p) /\ Running(q) =>
        \A x \in (req[p].touches \cap req[q].touches) \ raced : MayOverlap(req[p], req[q])

\* A request that runs was running, as the same operation on the same objects.
Continues(x) ==
    Running(x)' => /\ Running(x) /\ req'[x].op = req[x].op
                   /\ req'[x].touches = req[x].touches
                   /\ LooksUp(req'[x]) => LooksUp(req[x])

LEMMA ApartGoesOn ==
  ASSUME Apart, raced \subseteq raced', \A x \in Request : Continues(x)
  PROVE  Apart'
<1> SUFFICES ASSUME NEW p \in Request, NEW q \in Request, p # q, Running(p)', Running(q)',
                    NEW x \in (req'[p].touches \cap req'[q].touches) \ raced'
             PROVE  MayOverlap(req'[p], req'[q])
  BY DEF Apart
<1>1. MayOverlap(req[p], req[q])
  BY DEF Apart, Continues
<1> QED
  BY <1>1 DEF Continues, MayOverlap

LEMMA ApartBegins ==
  ASSUME Apart, RequestsOK, NEW r \in Request, NEW rec, Begin(r, rec)
  PROVE  Apart' /\ raced \subseteq raced'
<1>1. req'[r] = rec /\ \A x \in Request : x # r => req'[x] = req[x]
  BY DEF Begin, RequestsOK
<1> DEFINE others == {q \in Request : /\ Running(q)
                                      /\ \/ {req[q].op, rec.op} # {"post"}
                                         \/ LooksUp(req[q]) \/ LooksUp(rec)}
<1>2. raced' = raced \cup UNION {req[q].touches \cap rec.touches : q \in others}
  BY DEF Begin
<1>3. ASSUME NEW q \in Request, q # r, Running(q),
             NEW x \in (req[q].touches \cap rec.touches) \ raced'
      PROVE  MayOverlap(req[q], rec)
  <2>1. q \notin others
    BY <1>2, <1>3
  <2> QED
    BY <1>3, <2>1 DEF MayOverlap
<1> HIDE DEF others
<1>4. \A p, q : MayOverlap(p, q) => MayOverlap(q, p)
  BY DEF MayOverlap
<1>5. ASSUME NEW p \in Request, NEW q \in Request, p # q, Running(p)', Running(q)',
             NEW x \in (req'[p].touches \cap req'[q].touches) \ raced'
      PROVE  MayOverlap(req'[p], req'[q])
  <2>1. CASE p = r
    <3>1. Running(q) /\ req'[q] = req[q] /\ req'[p] = rec
      BY <1>1, <1>5, <2>1 DEF Running
    <3> QED
      BY <1>3, <1>4, <1>5, <2>1, <3>1
  <2>2. CASE q = r
    <3>1. Running(p) /\ req'[p] = req[p] /\ req'[q] = rec
      BY <1>1, <1>5, <2>2 DEF Running
    <3> QED
      BY <1>3, <1>5, <2>2, <3>1
  <2>3. CASE p # r /\ q # r
    BY <1>1, <1>2, <1>5, <2>3 DEF Apart, Running
  <2> QED
    BY <2>1, <2>2, <2>3
<1> QED
  BY <1>2, <1>5 DEF Apart

LEMMA DoneIsNot == ASSUME NEW x, req'[x] = Done PROVE Continues(x)
  BY DEF Continues, Running, Done

LEMMA SameGoesOn == ASSUME NEW x, req'[x] = req[x] PROVE Continues(x)
  BY DEF Continues, Running

\* Requests go on, end, or one of them begins.
LEMMA StepsApart ==
  ASSUME Inv, Apart, [Next]_vars
  PROVE  Apart' /\ raced \subseteq raced'
<1>1. ASSUME NEW r \in Request, NEW rec, Begin(r, rec) PROVE Apart' /\ raced \subseteq raced'
  BY <1>1, ApartBegins DEF Inv, Typed
<1>2. ASSUME raced' = raced, \A x \in Request : Continues(x)
      PROVE  Apart' /\ raced \subseteq raced'
  BY <1>2, ApartGoesOn
<1>3. ASSUME NEW r \in Request, Finish(r) PROVE \A x \in Request : Continues(x)
  <2>1. \A x \in Request \ {r} : req'[x] = req[x]
    BY <1>3 DEF Finish, Inv, Typed, RequestsOK
  <2>2. req'[r] = Done
    BY <1>3 DEF Finish, Inv, Typed, RequestsOK
  <2> QED
    BY <2>1, <2>2, DoneIsNot DEF Continues, Running
<1>4. ASSUME NEW r \in Request, NEW at, Running(r), Goto(r, at), at \notin {"find", "found"},
             "op" \in DOMAIN req[r], "at" \in DOMAIN req[r] PROVE \A x \in Request : Continues(x)
  <2>1. \A x \in Request \ {r} : req'[x] = req[x]
    BY <1>4 DEF Goto, Inv, Typed, RequestsOK
  <2>2. req'[r] = [req[r] EXCEPT !.at = at]
    BY <1>4 DEF Goto, Inv, Typed, RequestsOK
  <2>3. /\ req'[r].op = req[r].op /\ req'[r].touches = req[r].touches
        /\ ~LooksUp(req'[r])
    BY <1>4, <2>2 DEF LooksUp
  <2> QED
    BY <1>4, <2>1, <2>3 DEF Continues, Running
<1>5. ASSUME NEW r \in Request, NEW q, Moves(r, q), Running(r),
             q.op = req[r].op, q.touches = req[r].touches, LooksUp(q) => LooksUp(req[r])
      PROVE  \A x \in Request : Continues(x)
  <2>1. req'[r] = q /\ \A x \in Request \ {r} : req'[x] = req[x]
    BY <1>5 DEF Moves, Inv, Typed, RequestsOK
  <2> QED
    BY <1>5, <2>1 DEF Continues, Running
<1>6. ASSUME NEW r \in Request, Validate(r) \/ WriteBill(r) \/ SaveBill(r)
      PROVE  raced' = raced /\ \A x \in Request : Continues(x)
  <2>1. raced' = raced
    BY <1>6 DEF Validate, WriteBill, SaveBill, history
  <2>2. Running(r) /\ req[r] \in Importing(r) \cup Creating(r) \cup Writing
    BY <1>6, ShapeAt DEF Validate, WriteBill, SaveBill, Running, Inv, Typed, RequestsOK
  <2>3. "op" \in DOMAIN req[r] /\ "at" \in DOMAIN req[r]
    BY <2>2 DEF Importing, Creating, Writing
  <2>4. CASE Finish(r)
    BY <1>3, <2>1, <2>4
  <2>5. CASE \E at \in {"saveBill", "receive", "publish"} : Goto(r, at)
    BY <1>4, <2>1, <2>2, <2>3, <2>5
  <2>6. CASE ~Finish(r) /\ ~\E at \in {"saveBill", "receive", "publish"} : Goto(r, at)
    <3>1. SaveBill(r) /\ req[r].op # "create"
      BY <1>6, <2>6 DEF Validate, WriteBill, SaveBill
    <3>2. req[r] \in Importing(r)
      BY <2>2, <3>1, AtShape DEF SaveBill
    <3> DEFINE q == [op |-> "import", at |-> "updateItem", item |-> req[r].holds,
                     touches |-> req[r].touches]
    <3>3. Moves(r, q)
      BY <3>1 DEF SaveBill, Moves
    <3>4. q.op = req[r].op /\ q.touches = req[r].touches /\ ~LooksUp(q)
      BY <3>2, AtShape DEF LooksUp
    <3> HIDE DEF q
    <3> QED
      BY <1>5, <2>1, <2>2, <3>3, <3>4
  <2> QED
    BY <2>4, <2>5, <2>6
<1>7. ASSUME NEW r \in Request, Check(r)
      PROVE  raced' = raced /\ \A x \in Request : Continues(x)
  <2>1. raced' = raced
    BY <1>7 DEF Check
  <2>2. CASE Finish(r)
    BY <1>3, <2>1, <2>2
  <2>3. CASE ~Finish(r)
    <3>1. req[r] \in Checking /\ Running(r)
      BY <1>7, ShapeAt DEF Check, Running, Inv, Typed, RequestsOK
    <3>2. PICK b \in Request : b = req[r].holds
      BY <3>1 DEF Checking
    <3> DEFINE q == [op |-> "post", at |-> "writeBill", bill |-> b, touches |-> req[r].touches]
    <3>3. req' = [PutBack(bills, r) EXCEPT ![r] = q]
      BY <1>7, <2>3, <3>2 DEF Check, PutBack
    <3>4. q.op = req[r].op /\ q.touches = req[r].touches /\ ~LooksUp(q)
      BY <3>1, AtShape DEF LooksUp
    <3> HIDE DEF q
    <3>5. req'[r] = q
      BY <3>3 DEF PutBack
    <3>6. ASSUME NEW x \in Request \ {r} PROVE Continues(x)
      <4> DEFINE other == [by |-> r, at |-> req[r].at, val |-> bills[b]]
      <4>1. \/ req'[x] = req[x]
            \/ Holds(req, x, b) /\ (\/ req'[x] = [req[x] EXCEPT !.obj = Cached]
                                    \/ req'[x] = [req[x] EXCEPT !.obj = other])
        BY <3>2, <3>3 DEF PutBack
      <4> HIDE DEF other
      <4>2. CASE Holds(req, x, b) /\ (\/ req'[x] = [req[x] EXCEPT !.obj = Cached]
                                      \/ req'[x] = [req[x] EXCEPT !.obj = other])
        <5>1. req[x] \in Checking
          BY <4>2, HoldsBill
        <5>2. req'[x].op = req[x].op /\ req'[x].at = req[x].at /\ req'[x].touches = req[x].touches
          BY <4>2, <5>1 DEF Checking
        <5> QED
          BY <5>2 DEF Continues, Running, LooksUp
      <4> QED
        BY <4>1, <4>2, SameGoesOn
    <3> QED
      BY <2>1, <3>1, <3>4, <3>5, <3>6 DEF Continues
  <2> QED
    BY <2>2, <2>3
<1>8. ASSUME NEW r \in Request, NEW map, NEW ids, NEW q,
             req' = [Detach(map, ids, r) EXCEPT ![r] = q],
             ids \subseteq Request \/ ids \subseteq Item,
             \/ q = Done
             \/ Running(r) /\ q.op = req[r].op /\ q.touches = req[r].touches /\ ~LooksUp(q)
      PROVE  \A x \in Request : Continues(x)
  <2>1. req'[r] = q
    BY <1>8 DEF Detach
  <2>2. ASSUME NEW x \in Request \ {r} PROVE Continues(x)
    <3> DEFINE other == [by |-> r, at |-> req[r].at, val |-> map[req[x].holds]]
    <3>1. \/ req'[x] = req[x]
          \/ (\E i \in ids : Holds(req, x, i)) /\ req'[x] = [req[x] EXCEPT !.obj = other]
      BY <1>8 DEF Detach
    <3> HIDE DEF other
    <3>2. CASE (\E i \in ids : Holds(req, x, i)) /\ req'[x] = [req[x] EXCEPT !.obj = other]
      <4>1. req[x] \in Checking \cup Importing(x)
        BY <1>8, <3>2, HoldsBill, HoldsItem
      <4>2. req'[x].op = req[x].op /\ req'[x].at = req[x].at /\ req'[x].touches = req[x].touches
        BY <3>2, <4>1 DEF Checking, Importing
      <4> QED
        BY <4>2 DEF Continues, Running, LooksUp
    <3> QED
      BY <3>1, <3>2, SameGoesOn
  <2>3. Continues(r)
    BY <1>8, <2>1, DoneIsNot DEF Continues
  <2> QED
    BY <2>2, <2>3
<1>9. ASSUME NEW r \in Request, FillBills(r)
      PROVE  raced' = raced /\ \A x \in Request : Continues(x)
  <2>1. req[r] \in ListingBills
    BY <1>9, ShapeAt DEF FillBills, Inv, Typed, RequestsOK
  <2>2. DOMAIN req[r].list \subseteq Request
    BY <2>1 DEF ListingBills
  <2>3. raced' = raced /\ req' = [Detach(bills, DOMAIN req[r].list, r) EXCEPT ![r] = Done]
    BY <1>9 DEF FillBills, history
  <2> QED
    BY <1>8, <2>2, <2>3
<1>10. ASSUME NEW r \in Request, FillInbox(r)
       PROVE  raced' = raced /\ \A x \in Request : Continues(x)
  <2>1. req[r] \in ListingInbox
    BY <1>10, ShapeAt DEF FillInbox, Inv, Typed, RequestsOK
  <2>2. DOMAIN req[r].list \subseteq Item
    BY <2>1 DEF ListingInbox
  <2>3. raced' = raced /\ req' = [Detach(items, DOMAIN req[r].list, r) EXCEPT ![r] = Done]
    BY <1>10 DEF FillInbox, history
  <2> QED
    BY <1>8, <2>2, <2>3
<1>11. ASSUME NEW r \in Request, SaveItem(r) \/ Receive(r) \/ UpdateItem(r) \/ Publish(r) \/ Fail(r)
       PROVE  raced' = raced /\ \A x \in Request : Continues(x)
  BY <1>3, <1>11 DEF SaveItem, Receive, UpdateItem, Publish, Fail, history
<1>a. ASSUME NEW r \in Request, ReadBill(r)
      PROVE  raced' = raced /\ \A x \in Request : Continues(x)
  <2>1. req[r] \in Finding /\ req[r].at = "find" /\ Running(r)
    BY <1>a, ShapeAt DEF ReadBill, Running, Inv, Typed, RequestsOK
  <2> DEFINE q == [op |-> "post", at |-> "found", bill |-> req[r].bill,
                   row |-> billRow[req[r].bill], touches |-> req[r].touches]
  <2>2. raced' = raced /\ Moves(r, q)
    BY <1>a DEF ReadBill, Moves, history
  <2>3. q.op = req[r].op /\ q.touches = req[r].touches /\ LooksUp(req[r])
    BY <2>1, AtShape DEF LooksUp
  <2> HIDE DEF q
  <2> QED
    BY <1>5, <2>1, <2>2, <2>3
<1>b. ASSUME NEW r \in Request, BillFound(r)
      PROVE  raced' = raced /\ \A x \in Request : Continues(x)
  <2>1. req[r] \in Found /\ Running(r)
    BY <1>b, ShapeAt DEF BillFound, Running, Inv, Typed, RequestsOK
  <2>2. PICK b \in Request : b = req[r].bill
    BY <2>1 DEF Found
  <2> DEFINE q == [op |-> "post", at |-> "check", holds |-> b, obj |-> Cached,
                   touches |-> req[r].touches]
  <2>3. raced' = raced /\ req' = [Detach(bills, {b}, r) EXCEPT ![r] = q]
    BY <1>b, <2>1, <2>2, FoundKeeps DEF history, BillFound
  <2>4. q.op = req[r].op /\ q.touches = req[r].touches /\ ~LooksUp(q)
    BY <2>1, AtShape DEF LooksUp
  <2>5. {b} \subseteq Request
    OBVIOUS
  <2> HIDE DEF q
  <2> QED
    BY <1>8, <2>1, <2>3, <2>4, <2>5
<1>12. ASSUME NEW r \in Request, Step(r) PROVE Apart' /\ raced \subseteq raced'
  <2>1. CASE \E i \in Item : ImportToBill(r, i) \/ \E d \in Documents : CreateInboxItem(r, i, d)
    <3>1. \E rec : Begin(r, rec)
      BY <2>1 DEF ImportToBill, CreateInboxItem
    <3> QED
      BY <1>1, <3>1
  <2>2. CASE \/ \E d \in Documents : CreateBill(r, d)
             \/ \E b \in Request : PostBill(r, b) \/ FindBill(r, b)
    <3>1. \E rec : Begin(r, rec)
      BY <2>2 DEF CreateBill, PostBill, FindBill
    <3> QED
      BY <1>1, <3>1
  <2>3. CASE ListBills(r) \/ ListForTenant(r)
    <3>1. \E rec : Begin(r, rec)
      BY <2>3 DEF ListBills, ListForTenant
    <3> QED
      BY <1>1, <3>1
  <2> QED
    BY <1>2, <1>6, <1>7, <1>9, <1>10, <1>11, <1>12, <1>a, <1>b, <2>1, <2>2, <2>3 DEF Step
<1>13. CASE RulesStep
  BY <1>2, <1>13, RulesStepFrame DEF Continues, Running
<1>14. CASE Restart
  <2>1. raced' = raced /\ \A x \in Request : req'[x] = IF Running(x) THEN Done ELSE req[x]
    BY <1>14 DEF Restart, history
  <2>2. \A x \in Request : ~Running(x)'
    BY <2>1 DEF Running, Done
  <2> QED
    BY <1>2, <2>1, <2>2 DEF Continues
<1>15. CASE UNCHANGED vars
  BY <1>2, <1>15 DEF vars, Continues, Running
<1> QED
  BY <1>12, <1>13, <1>14, <1>15 DEF Next, Environment, RulesStep

-----------------------------------------------------------------------------
(* The life of a bill that has not been raced: it is DRAFT until a post     *)
(* that holds the object in the map finds it so; that post alone writes and *)
(* publishes it, and from then on map and row say POSTED.                   *)
Creates(b) == req[b].at \in {"validate", "saveBill"}
Checks(r, b) == req[r] \in Checking /\ req[r].holds = b
Writes(r, b) == req[r] \in Writing /\ req[r].bill = b
Reads(r, b) == req[r] \in Found /\ req[r].bill = b
Lists(r, b) == req[r] \in ListingBills /\ b \in DOMAIN req[r].list

OneWriter(b) == \A p, q \in Request : Writes(p, b) /\ Writes(q, b) => p = q

BillOK(b) ==
    /\ published[b] <= 1
    /\ published[b] # 0 => bills[b] \in {"POSTED", "none"} /\ billRow[b] = "POSTED"
    /\ Creates(b) => billRow[b] = "none"

RequestOK(r, b) ==
    /\ Writes(r, b) =>
         /\ published[b] = 0 /\ bills[b] = "POSTED"
         /\ req[r].at = "publish" => billRow[b] = "POSTED"
    /\ Checks(r, b) => req[r].obj = Cached
    /\ Reads(r, b) => req[r].row = billRow[b]
    /\ Lists(r, b) => req[r].list[b] = billRow[b]

LifeOf(b) == OneWriter(b) /\ BillOK(b) /\ \A r \in Request : RequestOK(r, b)

BillLife == \A b \in Request \ raced : LifeOf(b)

\* What a request says of b is no more than it said before.
Subsides(x, b) ==
    /\ Writes(x, b)' => Writes(x, b) /\ (req'[x].at = "publish" => req[x].at = "publish")
    /\ Checks(x, b)' => Checks(x, b) /\ req'[x].obj = req[x].obj
    /\ Reads(x, b)' => Reads(x, b) /\ req'[x].row = req[x].row
    /\ Lists(x, b)' => Lists(x, b) /\ req'[x].list = req[x].list
    /\ x = b /\ Creates(b)' => Creates(b)

LEMMA LifeGoesOn ==
  ASSUME NEW b \in Request, LifeOf(b), UNCHANGED <<bills[b], billRow[b], published[b]>>,
         \A x \in Request : Subsides(x, b)
  PROVE  LifeOf(b)'
<1>1. OneWriter(b)'
  BY DEF LifeOf, OneWriter, Subsides
<1>2. BillOK(b)'
  BY DEF LifeOf, BillOK, Subsides
<1>3. ASSUME NEW r \in Request PROVE RequestOK(r, b)'
  <2>1. RequestOK(r, b) /\ Subsides(r, b)
    BY DEF LifeOf
  <2> QED
    BY <2>1 DEF RequestOK, Subsides
<1> QED
  BY <1>1, <1>2, <1>3 DEF LifeOf

LEMMA SameSubsides ==
  ASSUME NEW x, NEW b, req'[x] \in {req[x], Done} PROVE Subsides(x, b)
  BY AtShape DEF Subsides, Writes, Checks, Reads, Lists, Creates

\* A request that takes nothing of b in hand.
LEMMA QuietSubsides ==
  ASSUME NEW x, NEW b, req'[x] \notin Writing, req'[x] \notin Checking,
         req'[x] \notin Found, req'[x] \notin ListingBills, x = b /\ Creates(b)' => Creates(b)
  PROVE  Subsides(x, b)
  BY DEF Subsides, Writes, Checks, Reads, Lists

\* While a request that is no post, or one that looks the bill up, works on
\* a bill, no other request does.
LEMMA AloneOn ==
  ASSUME Inv, Apart, NEW r \in Request, Running(r), req[r].op # "post" \/ LooksUp(req[r]),
         NEW b \in Request \ raced, b \in req[r].touches, NEW x \in Request \ {r}
  PROVE  /\ ~Writes(x, b) /\ ~Checks(x, b) /\ ~Reads(x, b) /\ ~Lists(x, b)
         /\ x = b => ~Creates(b)
<1>1. ASSUME Running(x), b \in req[x].touches PROVE FALSE
  BY <1>1 DEF Apart, MayOverlap
<1>2. Writes(x, b) \/ Checks(x, b) \/ Reads(x, b) \/ Lists(x, b) =>
        Running(x) /\ b \in req[x].touches
  BY AtShape DEF Writes, Checks, Reads, Lists, Writing, Checking, Found, ListingBills, Running
<1>3. ASSUME x = b, Creates(b) PROVE Running(x) /\ b \in req[x].touches
  <2>1. req[x] \in Importing(x) \cup Creating(x)
    BY <1>3, ShapeAt DEF Creates, Inv, Typed, RequestsOK
  <2> QED
    BY <1>3, <2>1 DEF Importing, Creating, Running, Creates
<1> QED
  BY <1>1, <1>2, <1>3

\* While a post works on a bill it is not being created, looked up or listed.
LEMMA PostsOnly ==
  ASSUME Inv, Apart, NEW r \in Request, NEW b \in Request \ raced, Writes(r, b) \/ Checks(r, b),
         NEW x \in Request
  PROVE  ~Reads(x, b) /\ ~Lists(x, b) /\ (x = b => ~Creates(b))
<1>1. Running(r) /\ b \in req[r].touches /\ req[r].op = "post"
  BY AtShape DEF Writes, Checks, Writing, Checking, Running
<1>2. ASSUME Lists(x, b) PROVE FALSE
  <2>1. Running(x) /\ b \in req[x].touches /\ req[x].op = "listBills"
    BY <1>2, AtShape DEF Lists, ListingBills, Running
  <2> QED
    BY <1>1, <2>1 DEF Apart, MayOverlap
<1>3. ASSUME x = b, Creates(b) PROVE FALSE
  <2>1. req[x] \in Importing(x) \cup Creating(x)
    BY <1>3, ShapeAt DEF Creates, Inv, Typed, RequestsOK
  <2>2. Running(x) /\ b \in req[x].touches /\ req[x].op # "post"
    BY <1>3, <2>1, AtShape DEF Importing, Creating, Running, Creates
  <2> QED
    BY <1>1, <2>2 DEF Apart, MayOverlap
<1>4. ASSUME Reads(x, b) PROVE FALSE
  <2>1. Running(x) /\ b \in req[x].touches /\ LooksUp(req[x])
    BY <1>4, AtShape DEF Reads, Found, Running, LooksUp
  <2>2. x # r
    BY <1>4, AtShape DEF Reads, Writes, Checks
  <2> QED
    BY <1>1, <2>1, <2>2 DEF Apart, MayOverlap
<1> QED
  BY <1>2, <1>3, <1>4

\* Steps that leave bills, rows and events alone.
LEMMA LifeUntouched ==
  ASSUME BillLife, raced \subseteq raced', UNCHANGED <<bills, billRow, published>>,
         \A b \in Request \ raced', x \in Request : Subsides(x, b)
  PROVE  BillLife'
<1>1. ASSUME NEW b \in Request \ raced' PROVE LifeOf(b)'
  <2>1. LifeOf(b)
    BY DEF BillLife
  <2> QED
    BY <1>1, <2>1, LifeGoesOn
<1> QED
  BY <1>1 DEF BillLife

LEMMA FinishSubsides ==
  ASSUME Inv, NEW r \in Request, Finish(r)
  PROVE  \A b, x \in Request : Subsides(x, b)
<1>1. \A x \in Request : req'[x] \in {req[x], Done}
  BY DEF Finish, Inv, Typed, RequestsOK
<1> QED
  BY <1>1, SameSubsides

\* The first step of a request: a post takes the object in the map, or looks
\* it up, and a list reads the rows.
LEMMA LifeBegins ==
  ASSUME Inv, BillLife, raced \subseteq raced', NEW r \in Request, req[r] = New,
         NEW q \in Requests(r), Moves(r, q), q \notin Writing, q \notin Found,
         q \in Checking => q.obj = Cached,
         q \in ListingBills => \A b \in DOMAIN q.list : q.list[b] = billRow[b],
         UNCHANGED <<bills, billRow, published>>
  PROVE  BillLife'
<1>1. req'[r] = q /\ \A x \in Request \ {r} : req'[x] = req[x]
  BY MovesOK DEF Inv, Typed
<1>2. billRow[r] = "none"
  BY NewIsUnknown DEF Inv, Linked, HasStatus
<1>3. ASSUME NEW b \in Request \ raced' PROVE LifeOf(b)'
  <2>1. LifeOf(b)
    BY DEF BillLife
  <2>2. OneWriter(b)'
    BY <1>1, <2>1 DEF LifeOf, OneWriter, Writes
  <2>3. BillOK(b)'
    BY <1>1, <1>2, <2>1 DEF LifeOf, BillOK, Creates
  <2>4. ASSUME NEW x \in Request PROVE RequestOK(x, b)'
    <3>1. RequestOK(x, b)
      BY <2>1 DEF LifeOf
    <3>2. CASE x = r
      BY <1>1, <3>2 DEF RequestOK, Writes, Checks, Reads, Lists
    <3>3. CASE x # r
      BY <1>1, <3>1, <3>3 DEF RequestOK, Writes, Checks, Reads, Lists
    <3> QED
      BY <3>2, <3>3
  <2> QED
    BY <2>2, <2>3, <2>4 DEF LifeOf
<1> QED
  BY <1>3 DEF BillLife

LEMMA BeginLife ==
  ASSUME Inv, BillLife, raced \subseteq raced', NEW r \in Request,
         \/ \E i \in Item : ImportToBill(r, i) \/ \E d \in Documents : CreateInboxItem(r, i, d)
         \/ \E d \in Documents : CreateBill(r, d)
         \/ \E b \in Request : PostBill(r, b) \/ FindBill(r, b)
         \/ ListBills(r) \/ ListForTenant(r),
         RequestsOK'
  PROVE  BillLife'
<1> DEFINE list == [b \in {b \in Request : billRow[b] # "none"} |-> billRow[b]]
<1>1. PICK q : /\ req[r] = New /\ Moves(r, q) /\ req'[r] = q
               /\ \/ q.op \in {"import", "deliver", "create", "listInbox"}
                  \/ q.op = "post" /\ q.at \in {"check", "find"}
                     /\ (q.at = "check" => q.obj = Cached)
                  \/ q.op = "listBills" /\ q.list = list
  <2> HIDE DEF list
  <2>1. ASSUME NEW q, Begin(r, q) PROVE req[r] = New /\ Moves(r, q) /\ req'[r] = q
    BY <2>1 DEF Begin, Moves, Inv, Typed, RequestsOK
  <2>2. CASE \E i \in Item : ImportToBill(r, i)
    <3>1. \E q : Begin(r, q) /\ q.op = "import"
      BY <2>2 DEF ImportToBill
    <3> QED
      BY <2>1, <3>1
  <2>3. CASE \E i \in Item, d \in Documents : CreateInboxItem(r, i, d)
    <3>1. \E q : Begin(r, q) /\ q.op = "deliver"
      BY <2>3 DEF CreateInboxItem
    <3> QED
      BY <2>1, <3>1
  <2>4. CASE \E d \in Documents : CreateBill(r, d)
    <3>1. \E q : Begin(r, q) /\ q.op = "create"
      BY <2>4 DEF CreateBill
    <3> QED
      BY <2>1, <3>1
  <2>5. CASE ListForTenant(r)
    <3>1. \E q : Begin(r, q) /\ q.op = "listInbox"
      BY <2>5 DEF ListForTenant
    <3> QED
      BY <2>1, <3>1
  <2>6. CASE ListBills(r)
    <3>1. \E q : Begin(r, q) /\ q.op = "listBills" /\ q.list = list
      BY <2>6 DEF ListBills, list
    <3> QED
      BY <2>1, <3>1
  <2>7. CASE \E b \in Request : PostBill(r, b) \/ FindBill(r, b)
    <3>1. \E q : /\ Begin(r, q) /\ q.op = "post" /\ q.at \in {"check", "find"}
                 /\ q.at = "check" => q.obj = Cached
      BY <2>7 DEF PostBill, FindBill
    <3> QED
      BY <2>1, <3>1
  <2> QED
    BY <2>2, <2>3, <2>4, <2>5, <2>6, <2>7
<1>2. q \in Requests(r)
  BY <1>1 DEF RequestsOK
<1>3. UNCHANGED <<bills, billRow, published>>
  BY DEF ImportToBill, CreateInboxItem, CreateBill, PostBill, FindBill, ListBills,
         ListForTenant, tables
<1>4. q \notin Writing /\ q \notin Found
  BY <1>1, AtShape
<1>5. q \in Checking => q.obj = Cached
  BY <1>1, AtShape
<1>6. q \in ListingBills => \A b \in DOMAIN q.list : q.list[b] = billRow[b]
  BY <1>1, AtShape
<1> HIDE DEF list
<1> QED
  BY <1>1, <1>2, <1>3, <1>4, <1>5, <1>6, LifeBegins

LEMMA QuietLife ==
  ASSUME Inv, BillLife, NEW r \in Request,
         SaveItem(r) \/ Receive(r) \/ UpdateItem(r) \/ Fail(r)
  PROVE  BillLife'
<1>1. Finish(r) /\ UNCHANGED <<bills, billRow, published, raced>>
  BY DEF SaveItem, Receive, UpdateItem, Fail, tables, history
<1> QED
  BY <1>1, FinishSubsides, LifeUntouched

\* The bill of r appears in the map.
LEMMA ValidateLife ==
  ASSUME Inv, BillLife, NEW r \in Request, Validate(r)
  PROVE  BillLife'
<1>1. req[r].at = "validate" /\ req[r] \in Importing(r) \cup Creating(r)
  BY ShapeAt DEF Validate, Inv, Typed, RequestsOK
<1>2. UNCHANGED <<billRow, published, raced>>
  BY DEF Validate, tables
<1>3. CASE Finish(r) /\ bills' = bills
  BY <1>2, <1>3, FinishSubsides, LifeUntouched
<1>4. CASE Goto(r, "saveBill") /\ bills' = [bills EXCEPT ![r] = "DRAFT"]
  <2>1. ~Known(r)
    BY <1>1 DEF Known
  <2>2. published[r] = 0
    BY <2>1 DEF Inv, Linked, HasStatus
  <2>3. \A x \in Request : ~Writes(x, r)
    BY <2>1 DEF Writes, Inv, Linked, UsesKnown
  <2>4. req'[r] = [req[r] EXCEPT !.at = "saveBill"] /\ \A x \in Request \ {r} : req'[x] = req[x]
    BY <1>4 DEF Goto, Inv, Typed, RequestsOK
  <2>5. \A b \in Request, x \in Request : Subsides(x, b)
    <3> SUFFICES ASSUME NEW b \in Request, NEW x \in Request PROVE Subsides(x, b)
      OBVIOUS
    <3>1. CASE x = r
      <4>1. req'[r] \in Importing(r) \cup Creating(r)
        BY <1>1, <2>4 DEF Importing, Creating
      <4>2. /\ req'[r] \notin Writing /\ req'[r] \notin Checking
            /\ req'[r] \notin Found /\ req'[r] \notin ListingBills
        BY <4>1, AtShape
      <4> QED
        BY <1>1, <3>1, <4>2, QuietSubsides DEF Creates
    <3>2. CASE x # r
      BY <2>4, <3>2, SameSubsides
    <3> QED
      BY <3>1, <3>2
  <2>6. ASSUME NEW b \in Request \ raced PROVE LifeOf(b)'
    <3>1. LifeOf(b)
      BY DEF BillLife
    <3>2. CASE b # r
      <4>1. bills'[b] = bills[b]
        BY <1>4, <3>2
      <4> QED
        BY <1>2, <2>5, <3>1, <4>1, LifeGoesOn
    <3>3. CASE b = r
      <4>1. \A x \in Request : Subsides(x, b)
        BY <2>5
      <4>2. OneWriter(b)'
        BY <3>1, <4>1 DEF LifeOf, OneWriter, Subsides
      <4>3. BillOK(b)'
        BY <1>2, <2>2, <3>1, <3>3, <4>1 DEF LifeOf, BillOK, Subsides
      <4>4. ASSUME NEW x \in Request PROVE RequestOK(x, b)'
        <5>1. RequestOK(x, b) /\ Subsides(x, b) /\ ~Writes(x, b)
          BY <2>3, <3>1, <3>3, <4>1 DEF LifeOf
        <5> QED
          BY <1>2, <5>1 DEF RequestOK, Subsides
      <4> QED
        BY <4>2, <4>3, <4>4 DEF LifeOf
    <3> QED
      BY <3>2, <3>3
  <2> QED
    BY <1>2, <2>6 DEF BillLife
<1> QED
  BY <1>3, <1>4 DEF Validate

\* The row of the bill appears, before anything is done with it.
LEMMA SaveBillLife ==
  ASSUME Inv, Apart, BillLife, NEW r \in Request, SaveBill(r)
  PROVE  BillLife'
<1>1. req[r].at = "saveBill" /\ req[r] \in Importing(r) \cup Creating(r)
  BY ShapeAt DEF SaveBill, Inv, Typed, RequestsOK
<1>2. billRow' = [billRow EXCEPT ![r] = "DRAFT"] /\ UNCHANGED <<bills, published, raced>>
  BY DEF SaveBill, history
<1>3. \A x \in Request \ {r} : req'[x] = req[x]
  BY DEF SaveBill, Goto, Finish, Inv, Typed, RequestsOK
<1>4. req'[r].at \in {"done", "receive", "updateItem"}
  <2>1. CASE Finish(r)
    BY <2>1 DEF Finish, Done, Inv, Typed, RequestsOK
  <2>2. CASE Goto(r, "receive")
    <3>1. req'[r] = [req[r] EXCEPT !.at = "receive"]
      BY <2>2 DEF Goto, Inv, Typed, RequestsOK
    <3>2. "at" \in DOMAIN req[r]
      BY <1>1 DEF Importing, Creating
    <3> QED
      BY <3>1, <3>2
  <2>3. CASE ~Finish(r) /\ ~Goto(r, "receive")
    BY <2>3 DEF SaveBill, Inv, Typed, RequestsOK
  <2> QED
    BY <2>1, <2>2, <2>3
<1>5. ASSUME NEW b \in Request, NEW x \in Request PROVE Subsides(x, b)
  <2>1. CASE x = r
    BY <1>4, <2>1, AtShape, QuietSubsides DEF Creates
  <2>2. CASE x # r
    BY <1>3, <2>2, SameSubsides
  <2> QED
    BY <2>1, <2>2
<1>6. ASSUME NEW b \in Request \ raced PROVE LifeOf(b)'
  <2>1. LifeOf(b)
    BY DEF BillLife
  <2>2. CASE b # r
    <3>1. billRow'[b] = billRow[b]
      BY <1>2, <2>2
    <3> QED
      BY <1>2, <1>5, <2>1, <3>1, LifeGoesOn
  <2>3. CASE b = r
    <3>1. published[b] = 0
      BY <1>1, <2>1, <2>3 DEF LifeOf, BillOK, Creates, Inv, Typed, TablesOK
    <3>2. Running(r) /\ req[r].op # "post" /\ b \in req[r].touches
      BY <1>1, <2>3, AtShape DEF Running, Importing, Creating
    <3>3. ~Writes(r, b) /\ ~Reads(r, b) /\ ~Lists(r, b)
      BY <1>1, AtShape DEF Writes, Reads, Lists
    <3>4. \A x \in Request : ~Writes(x, b) /\ ~Reads(x, b) /\ ~Lists(x, b)
      BY <2>3, <3>2, <3>3, AloneOn
    <3>5. \A x \in Request : ~Writes(x, b)' /\ ~Reads(x, b)' /\ ~Lists(x, b)'
      BY <1>5, <3>4 DEF Subsides
    <3>6. ~Creates(b)'
      BY <1>4, <2>3 DEF Creates
    <3>7. BillOK(b)'
      BY <1>2, <3>1, <3>6 DEF BillOK
    <3>8. ASSUME NEW x \in Request PROVE RequestOK(x, b)'
      <4>1. RequestOK(x, b) /\ Subsides(x, b)
        BY <1>5, <2>1 DEF LifeOf
      <4> QED
        BY <3>5, <4>1 DEF RequestOK, Subsides
    <3> QED
      BY <3>5, <3>7, <3>8 DEF LifeOf, OneWriter
  <2> QED
    BY <2>2, <2>3
<1> QED
  BY <1>2, <1>6 DEF BillLife

\* A post that puts its object back into the map changes nothing in the
\* hands of others but who shares it.
LEMMA PutBackOthers ==
  ASSUME Inv, NEW r \in Request, req[r] \in Checking, NEW b \in Request, b = req[r].holds,
         NEW q, req' = [PutBack(bills, r) EXCEPT ![r] = q],
         NEW x \in Request \ {r}
  PROVE  req'[x] = req[x] \/ (Checks(x, b) /\ Checks(x, b)')
<1> DEFINE other == [by |-> r, at |-> req[r].at, val |-> bills[b]]
<1>1. \/ req'[x] = req[x]
      \/ Holds(req, x, b) /\ (\/ req'[x] = [req[x] EXCEPT !.obj = Cached]
                              \/ req'[x] = [req[x] EXCEPT !.obj = other])
  BY DEF PutBack
<1>2. other \in [by : Request, at : Replacing, val : Status]
  BY DEF Inv, Typed, TablesOK, Checking, Replacing
<1> HIDE DEF other
<1>3. CASE Holds(req, x, b) /\ (\/ req'[x] = [req[x] EXCEPT !.obj = Cached]
                                \/ req'[x] = [req[x] EXCEPT !.obj = other])
  <2>1. req[x] \in Checking
    BY <1>3, HoldsBill
  <2>2. req'[x] \in Checking /\ req'[x].holds = req[x].holds
    BY <1>2, <1>3, <2>1 DEF Checking
  <2> QED
    BY <1>3, <2>1, <2>2 DEF Checks, Holds
<1> QED
  BY <1>1, <1>3

LEMMA DetachOthers ==
  ASSUME Inv, NEW r \in Request, req[r].at \in Replacing, NEW S \in SUBSET Request, NEW q,
         req' = [Detach(bills, S, r) EXCEPT ![r] = q], NEW x \in Request \ {r}
  PROVE  req'[x] = req[x] \/ \E b \in S : Checks(x, b) /\ Checks(x, b)'
<1> DEFINE other == [by |-> r, at |-> req[r].at, val |-> bills[req[x].holds]]
<1>1. \/ req'[x] = req[x]
      \/ \E b \in S : Holds(req, x, b) /\ req'[x] = [req[x] EXCEPT !.obj = other]
  BY DEF Detach
<1>2. ASSUME NEW b \in S, Holds(req, x, b), req'[x] = [req[x] EXCEPT !.obj = other]
      PROVE  Checks(x, b) /\ Checks(x, b)'
  <2>1. req[x] \in Checking
    BY <1>2, HoldsBill
  <2>2. other \in [by : Request, at : Replacing, val : Status]
    BY <2>1 DEF Checking, Inv, Typed, TablesOK
  <2> HIDE DEF other
  <2>3. req'[x] \in Checking /\ req'[x].holds = req[x].holds
    BY <1>2, <2>1, <2>2 DEF Checking
  <2> QED
    BY <1>2, <2>1, <2>3 DEF Checks, Holds
<1> QED
  BY <1>1, <1>2

\* A post tests the object in the map, so nobody has written the bill.
LEMMA CheckLife ==
  ASSUME Inv, Apart, BillLife, NEW r \in Request, Check(r)
  PROVE  BillLife'
<1>1. req[r] \in Checking
  BY ShapeAt DEF Check, Inv, Typed, RequestsOK
<1>2. PICK b \in Request : b = req[r].holds
  BY <1>1 DEF Checking
<1>3. UNCHANGED <<billRow, published, raced>> /\ Checks(r, b)
  BY <1>1, <1>2 DEF Check, tables, Checks
<1>4. CASE Finish(r) /\ bills' = bills
  BY <1>3, <1>4, FinishSubsides, LifeUntouched
<1>5. CASE ~(Finish(r) /\ bills' = bills)
  <2> DEFINE q == [op |-> "post", at |-> "writeBill", bill |-> b, touches |-> req[r].touches]
  <2>1. /\ bills' = [bills EXCEPT ![b] = "POSTED"]
        /\ req' = [PutBack(bills, r) EXCEPT ![r] = q]
        /\ Held(bills, r) = "DRAFT"
    BY <1>2, <1>5 DEF Check, PutBack
  <2>2. q \in Writing /\ q.bill = b /\ q.at = "writeBill"
    BY <1>1, <1>2 DEF Writing, Checking
  <2> HIDE DEF q
  <2>3. req'[r] = q
    BY <2>1 DEF PutBack
  <2>4. \A x \in Request \ {r} : req'[x] = req[x] \/ (Checks(x, b) /\ Checks(x, b)')
    BY <1>1, <1>2, <2>1, PutBackOthers
  <2>5. ASSUME NEW c \in Request, c # b, NEW x \in Request PROVE Subsides(x, c)
    <3>1. CASE x = r
      BY <2>2, <2>3, <2>5, <3>1, AtShape DEF Subsides, Writes, Checks, Reads, Lists, Creates
    <3>2. CASE req'[x] = req[x]
      BY <3>2, SameSubsides
    <3>3. CASE Checks(x, b) /\ Checks(x, b)'
      BY <2>5, <3>3, AtShape DEF Subsides, Writes, Checks, Reads, Lists, Creates
    <3> QED
      BY <2>4, <3>1, <3>2, <3>3
  <2>6. ASSUME NEW c \in Request \ raced, c # b PROVE LifeOf(c)'
    <3>1. LifeOf(c) /\ bills'[c] = bills[c]
      BY <2>1, <2>6 DEF BillLife
    <3> QED
      BY <1>3, <2>5, <2>6, <3>1, LifeGoesOn
  <2>7. ASSUME b \notin raced PROVE LifeOf(b)'
    <3>1. LifeOf(b)
      BY <2>7 DEF BillLife
    <3>2. req[r].obj = Cached
      BY <1>3, <3>1 DEF LifeOf, RequestOK
    <3>3. bills[b] = "DRAFT"
      BY <1>2, <2>1, <3>2 DEF Held
    <3>4. published[b] = 0
      BY <3>1, <3>3 DEF LifeOf, BillOK
    <3>5. \A x \in Request : ~Writes(x, b)
      BY <3>1, <3>3 DEF LifeOf, RequestOK
    <3>6. ASSUME NEW x \in Request \ {r} PROVE req'[x] = req[x]
      <4>1. \/ req'[x] = req[x]
            \/ /\ Holds(req, x, b) /\ req[x].obj = Cached
               /\ req'[x] = [req[x] EXCEPT !.obj = Cached]
        BY <1>2, <2>1, <3>2 DEF PutBack
      <4>2. ASSUME Holds(req, x, b), req[x].obj = Cached
            PROVE  [req[x] EXCEPT !.obj = Cached] = req[x]
        <5>1. req[x] \in Checking
          BY <4>2, HoldsBill
        <5> QED
          BY <4>2, <5>1 DEF Checking
      <4> QED
        BY <4>1, <4>2
    <3>7. \A x \in Request : Writes(x, b)' => x = r
      BY <3>5, <3>6 DEF Writes
    <3>8. bills'[b] = "POSTED"
      BY <2>1 DEF Inv, Typed, TablesOK
    <3>9. BillOK(b)'
      BY <1>3, <2>2, <2>3, <3>1, <3>4, <3>6, <3>8, AtShape DEF LifeOf, BillOK, Creates
    <3>10. ASSUME NEW x \in Request PROVE RequestOK(x, b)'
      <4>1. CASE x = r
        BY <1>3, <2>2, <2>3, <3>4, <3>8, <4>1, AtShape DEF RequestOK, Checks, Reads, Lists
      <4>2. CASE x # r
        <5>1. RequestOK(x, b) /\ ~Writes(x, b)'
          BY <3>1, <3>7, <4>2 DEF LifeOf
        <5> QED
          BY <1>3, <3>6, <4>2, <5>1 DEF RequestOK, Checks, Reads, Lists
      <4> QED
        BY <4>1, <4>2
    <3> QED
      BY <3>7, <3>9, <3>10 DEF LifeOf, OneWriter
  <2> QED
    BY <1>3, <2>6, <2>7 DEF BillLife
<1> QED
  BY <1>4, <1>5 DEF Check

LEMMA WriteBillLife ==
  ASSUME Inv, Apart, BillLife, NEW r \in Request, WriteBill(r)
  PROVE  BillLife'
<1> DEFINE q == [req[r] EXCEPT !.at = "publish"]
<1>1. req[r] \in Writing
  BY ShapeAt DEF WriteBill, Inv, Typed, RequestsOK
<1>2. PICK b \in Request : b = req[r].bill
  BY <1>1 DEF Writing
<1>3. billRow' = [billRow EXCEPT ![b] = "POSTED"] /\ UNCHANGED <<bills, published, raced>>
  BY <1>2 DEF WriteBill, history
<1>4. q \in Writing /\ q.bill = b /\ Writes(r, b)
  BY <1>1, <1>2 DEF Writing, Writes
<1>5. req'[r] = q /\ \A x \in Request \ {r} : req'[x] = req[x]
  BY DEF WriteBill, Goto, Inv, Typed, RequestsOK
<1> HIDE DEF q
<1>6. ASSUME NEW c \in Request \ raced, c # b PROVE LifeOf(c)'
  <2>1. LifeOf(c) /\ billRow'[c] = billRow[c]
    BY <1>3, <1>6 DEF BillLife
  <2>2. Subsides(r, c)
    BY <1>4, <1>5, <1>6, AtShape DEF Subsides, Writes, Checks, Reads, Lists, Creates
  <2>3. \A x \in Request : Subsides(x, c)
    BY <1>5, <2>2, SameSubsides
  <2> QED
    BY <1>3, <1>6, <2>1, <2>3, LifeGoesOn
<1>7. ASSUME b \notin raced PROVE LifeOf(b)'
  <2>1. LifeOf(b)
    BY <1>7 DEF BillLife
  <2>2. published[b] = 0 /\ bills[b] = "POSTED"
    BY <1>4, <2>1 DEF LifeOf, RequestOK
  <2>3. \A x \in Request : ~Reads(x, b) /\ ~Lists(x, b) /\ (x = b => ~Creates(b))
    BY <1>4, <1>7, PostsOnly
  <2>4. billRow'[b] = "POSTED"
    BY <1>3 DEF Inv, Typed, TablesOK
  <2>5. OneWriter(b)'
    BY <1>4, <1>5, <2>1 DEF LifeOf, OneWriter, Writes
  <2>6. BillOK(b)'
    BY <1>3, <1>4, <1>5, <2>2, <2>3, <2>4, AtShape DEF BillOK, Creates
  <2>7. ASSUME NEW x \in Request PROVE RequestOK(x, b)'
    <3>1. CASE x = r
      BY <1>3, <1>4, <1>5, <2>2, <2>4, <3>1, AtShape DEF RequestOK, Checks, Reads, Lists
    <3>2. CASE x # r
      <4>1. RequestOK(x, b) /\ ~Reads(x, b) /\ ~Lists(x, b)
        BY <2>1, <2>3 DEF LifeOf
      <4> QED
        BY <1>3, <1>5, <2>4, <3>2, <4>1 DEF RequestOK, Writes, Checks, Reads, Lists
    <3> QED
      BY <3>1, <3>2
  <2> QED
    BY <2>5, <2>6, <2>7 DEF LifeOf
<1> QED
  BY <1>3, <1>6, <1>7 DEF BillLife

LEMMA PublishLife ==
  ASSUME Inv, Apart, BillLife, NEW r \in Request, Publish(r)
  PROVE  BillLife'
<1>1. req[r] \in Writing /\ req[r].at = "publish"
  BY ShapeAt DEF Publish, Inv, Typed, RequestsOK
<1>2. PICK b \in Request : b = req[r].bill
  BY <1>1 DEF Writing
<1>3. /\ published' = [published EXCEPT ![b] = @ + 1] /\ UNCHANGED <<bills, billRow, raced>>
      /\ Finish(r)
  BY <1>2 DEF Publish, tables, history
<1>4. \A c, x \in Request : Subsides(x, c)
  BY <1>3, FinishSubsides
<1>5. Writes(r, b)
  BY <1>1, <1>2 DEF Writes
<1>6. req'[r] = Done
  BY <1>3 DEF Finish, Inv, Typed, RequestsOK
<1>7. ASSUME NEW c \in Request \ raced, c # b PROVE LifeOf(c)'
  <2>1. LifeOf(c) /\ published'[c] = published[c]
    BY <1>3, <1>7 DEF BillLife
  <2> QED
    BY <1>3, <1>4, <1>7, <2>1, LifeGoesOn
<1>8. ASSUME b \notin raced PROVE LifeOf(b)'
  <2>1. LifeOf(b)
    BY <1>8 DEF BillLife
  <2>2. published[b] = 0 /\ bills[b] = "POSTED" /\ billRow[b] = "POSTED"
    BY <1>1, <1>5, <2>1 DEF LifeOf, RequestOK
  <2>3. \A x \in Request : ~Writes(x, b)'
    BY <1>4, <1>5, <1>6, <2>1, AtShape DEF LifeOf, OneWriter, Subsides, Writes
  <2>4. published'[b] = 1
    BY <1>3, <2>2 DEF Inv, Typed, TablesOK
  <2>5. BillOK(b)'
    BY <1>3, <1>4, <2>1, <2>2, <2>4 DEF LifeOf, BillOK, Subsides
  <2>6. ASSUME NEW x \in Request PROVE RequestOK(x, b)'
    <3>1. RequestOK(x, b) /\ Subsides(x, b) /\ ~Writes(x, b)'
      BY <1>4, <2>1, <2>3 DEF LifeOf
    <3> QED
      BY <1>3, <3>1 DEF RequestOK, Subsides
  <2> QED
    BY <2>3, <2>5, <2>6 DEF LifeOf, OneWriter
<1> QED
  BY <1>3, <1>7, <1>8 DEF BillLife

\* A list puts into the map what the row still says, and nobody holds the
\* object that was there.
LEMMA FillBillsLife ==
  ASSUME Inv, Apart, BillLife, NEW r \in Request, FillBills(r)
  PROVE  BillLife'
<1> DEFINE list == req[r].list
<1>1. req[r] \in ListingBills
  BY ShapeAt DEF FillBills, Inv, Typed, RequestsOK
<1>2. PICK S \in SUBSET Request : S = DOMAIN list
  BY <1>1 DEF ListingBills
<1>3. Running(r) /\ req[r].op # "post" /\ req[r].touches = S
  BY <1>1, <1>2, AtShape DEF Running, ListingBills
<1>4. /\ bills' = [b \in Request |-> IF b \in S THEN list[b] ELSE bills[b]]
      /\ req' = [Detach(bills, S, r) EXCEPT ![r] = Done]
      /\ UNCHANGED <<billRow, published, raced>>
  BY <1>2 DEF FillBills, tables, history
<1> HIDE DEF list
<1>5. req'[r] = Done
  BY <1>4 DEF Detach
<1>6. \A x \in Request \ {r} : req'[x] = req[x] \/ \E b \in S : Checks(x, b) /\ Checks(x, b)'
  <2>1. req[r].at \in Replacing
    BY <1>1 DEF ListingBills, Replacing
  <2> QED
    BY <1>4, <2>1, DetachOthers
<1>7. ASSUME NEW c \in Request \ raced PROVE LifeOf(c)'
  <2>1. LifeOf(c)
    BY DEF BillLife
  <2>2. CASE c \notin S
    <3>1. bills'[c] = bills[c]
      BY <1>4, <2>2
    <3>2. ASSUME NEW x \in Request PROVE Subsides(x, c)
      <4>1. CASE req'[x] \in {req[x], Done}
        BY <4>1, SameSubsides
      <4>2. CASE \E b \in S : Checks(x, b) /\ Checks(x, b)'
        BY <2>2, <4>2, AtShape DEF Subsides, Writes, Checks, Reads, Lists, Creates
      <4> QED
        BY <1>5, <1>6, <4>1, <4>2
    <3> QED
      BY <1>4, <2>1, <3>1, <3>2, LifeGoesOn
  <2>3. CASE c \in S
    <3>1. \A x \in Request \ {r} : /\ ~Writes(x, c) /\ ~Checks(x, c) /\ ~Reads(x, c)
                                   /\ x = c => ~Creates(c)
      BY <1>3, <2>3, AloneOn
    <3>2. Lists(r, c)
      BY <1>1, <1>2, <2>3 DEF Lists, list
    <3>3. list[c] = billRow[c]
      BY <2>1, <3>2 DEF LifeOf, RequestOK, list
    <3>4. bills'[c] = billRow[c]
      BY <1>4, <2>3, <3>3
    <3>5. ASSUME NEW x \in Request
          PROVE  /\ ~Writes(x, c)' /\ ~Checks(x, c)' /\ ~Reads(x, c)'
                 /\ ~(x = c /\ Creates(c)')
                 /\ Lists(x, c)' => req'[x] = req[x]
      <4>1. CASE x = r
        BY <1>5, <4>1, AtShape DEF Writes, Checks, Reads, Lists, Creates
      <4>2. CASE x # r /\ req'[x] = req[x]
        BY <3>1, <4>2 DEF Writes, Checks, Reads, Creates
      <4>3. CASE \E b \in S : Checks(x, b) /\ Checks(x, b)'
        <5>1. x # r
          BY <1>5, <4>3, AtShape DEF Checks
        <5>2. ~Checks(x, c)'
          BY <3>1, <4>3, <5>1 DEF Checks
        <5> QED
          BY <4>3, <5>2, AtShape DEF Writes, Checks, Reads, Lists, Creates
      <4> QED
        BY <1>6, <4>1, <4>2, <4>3
    <3>6. OneWriter(c)'
      BY <3>5 DEF OneWriter
    <3>7. BillOK(c)'
      BY <1>4, <2>1, <3>4, <3>5 DEF LifeOf, BillOK
    <3>8. ASSUME NEW x \in Request PROVE RequestOK(x, c)'
      <4>1. RequestOK(x, c)
        BY <2>1 DEF LifeOf
      <4>2. Lists(x, c)' => Lists(x, c) /\ req'[x] = req[x]
        BY <3>5 DEF Lists
      <4> QED
        BY <1>4, <3>5, <4>1, <4>2 DEF RequestOK
    <3> QED
      BY <3>6, <3>7, <3>8 DEF LifeOf
  <2> QED
    BY <2>2, <2>3
<1> QED
  BY <1>4, <1>7 DEF BillLife

\* A post that looks its bill up has the row as it is, and is alone with it.
LEMMA ReadBillLife ==
  ASSUME Inv, Apart, BillLife, NEW r \in Request, ReadBill(r)
  PROVE  BillLife'
<1>1. req[r] \in Finding
  BY ShapeAt DEF ReadBill, Inv, Typed, RequestsOK
<1>2. UNCHANGED <<bills, billRow, published, raced>>
  BY DEF ReadBill, tables, history
<1>3. /\ \A x \in Request \ {r} : req'[x] = req[x]
      /\ req'[r].at = "found" /\ req'[r].row = billRow[req'[r].bill]
  BY DEF ReadBill, Inv, Typed, RequestsOK
<1>4. ASSUME NEW b \in Request \ raced PROVE LifeOf(b)'
  <2>1. LifeOf(b)
    BY DEF BillLife
  <2>2. \A x \in Request : /\ Writes(x, b)' => x # r
                           /\ Checks(x, b)' => x # r
                           /\ Lists(x, b)' => x # r
                           /\ x = b /\ Creates(b)' => x # r
    BY <1>3, AtShape DEF Writes, Checks, Lists, Creates
  <2>3. OneWriter(b)'
    BY <1>3, <2>1, <2>2 DEF LifeOf, OneWriter, Writes
  <2>4. BillOK(b)'
    BY <1>2, <1>3, <2>1, <2>2 DEF LifeOf, BillOK, Creates
  <2>5. ASSUME NEW x \in Request PROVE RequestOK(x, b)'
    <3>1. CASE x = r
      BY <1>2, <1>3, <2>2, <3>1 DEF RequestOK, Reads
    <3>2. CASE x # r
      <4>1. RequestOK(x, b)
        BY <2>1 DEF LifeOf
      <4> QED
        BY <1>2, <1>3, <3>2, <4>1 DEF RequestOK, Writes, Checks, Reads, Lists
    <3> QED
      BY <3>1, <3>2
  <2> QED
    BY <2>3, <2>4, <2>5 DEF LifeOf
<1> QED
  BY <1>2, <1>4 DEF BillLife

LEMMA BillFoundLife ==
  ASSUME Inv, Apart, BillLife, NEW r \in Request, BillFound(r)
  PROVE  BillLife'
<1>1. req[r] \in Found /\ req[r].at = "found"
  BY ShapeAt DEF BillFound, Inv, Typed, RequestsOK
<1>2. PICK b \in Request : b = req[r].bill
  BY <1>1 DEF Found
<1> DEFINE q == [op |-> "post", at |-> "check", holds |-> b, obj |-> Cached,
                 touches |-> req[r].touches]
<1>3. /\ bills' = [bills EXCEPT ![b] = req[r].row]
      /\ UNCHANGED <<billRow, published, raced>>
  BY <1>2 DEF BillFound, tables, history
<1>4. req' = [Detach(bills, {b}, r) EXCEPT ![r] = q]
  BY <1>1, <1>2, FoundKeeps
<1>5. req'[r] = q
  BY <1>4 DEF Detach
<1>6. q.at = "check" /\ q.holds = b /\ q.obj = Cached
  OBVIOUS
<1> HIDE DEF q
<1>7. \A x \in Request \ {r} : req'[x] = req[x] \/ (Checks(x, b) /\ Checks(x, b)')
  <2>1. req[r].at \in Replacing /\ {b} \in SUBSET Request
    BY <1>1 DEF Replacing
  <2> QED
    BY <1>4, <2>1, DetachOthers
<1>8. Running(r) /\ LooksUp(req[r]) /\ b \in req[r].touches /\ Reads(r, b)
  BY <1>1, <1>2 DEF Running, LooksUp, Found, Reads
<1>9. ASSUME NEW c \in Request \ raced PROVE LifeOf(c)'
  <2>1. LifeOf(c)
    BY DEF BillLife
  <2>2. CASE c # b
    <3>1. bills'[c] = bills[c]
      BY <1>3, <2>2
    <3>2. ASSUME NEW x \in Request PROVE Subsides(x, c)
      <4>1. CASE x = r
        BY <1>5, <1>6, <2>2, <4>1, AtShape DEF Subsides, Writes, Checks, Reads, Lists, Creates
      <4>2. CASE req'[x] = req[x]
        BY <4>2, SameSubsides
      <4>3. CASE Checks(x, b) /\ Checks(x, b)'
        BY <2>2, <4>3, AtShape DEF Subsides, Writes, Checks, Reads, Lists, Creates
      <4> QED
        BY <1>7, <4>1, <4>2, <4>3
    <3> QED
      BY <1>3, <2>1, <3>1, <3>2, LifeGoesOn
  <2>3. CASE c = b
    <3>1. \A x \in Request \ {r} : /\ ~Writes(x, c) /\ ~Checks(x, c) /\ ~Reads(x, c)
                                   /\ ~Lists(x, c) /\ (x = c => ~Creates(c))
      BY <1>8, <2>3, AloneOn
    <3>2. \A x \in Request \ {r} : req'[x] = req[x]
      BY <1>7, <2>3, <3>1
    <3>3. req[r].row = billRow[c]
      BY <1>8, <2>1, <2>3 DEF LifeOf, RequestOK
    <3>4. bills'[c] = billRow[c]
      BY <1>3, <2>3, <3>3 DEF Inv, Typed, TablesOK
    <3>5. \A x \in Request : /\ ~Writes(x, c)' /\ ~Reads(x, c)' /\ ~Lists(x, c)'
                             /\ ~(x = c /\ Creates(c)')
                             /\ Checks(x, c)' => x = r
      BY <1>5, <1>6, <3>1, <3>2, AtShape DEF Writes, Checks, Reads, Lists, Creates
    <3>6. OneWriter(c)'
      BY <3>5 DEF OneWriter
    <3>7. BillOK(c)'
      BY <1>3, <2>1, <3>4, <3>5 DEF LifeOf, BillOK
    <3>8. \A x \in Request : RequestOK(x, c)'
      BY <1>5, <1>6, <3>5 DEF RequestOK
    <3> QED
      BY <3>6, <3>7, <3>8 DEF LifeOf
  <2> QED
    BY <2>2, <2>3
<1> QED
  BY <1>3, <1>9 DEF BillLife

LEMMA FillInboxLife ==
  ASSUME Inv, BillLife, NEW r \in Request, FillInbox(r)
  PROVE  BillLife'
<1> DEFINE list == req[r].list
<1>1. req[r] \in ListingInbox
  BY ShapeAt DEF FillInbox, Inv, Typed, RequestsOK
<1>2. PICK S \in SUBSET Item : S = DOMAIN list
  BY <1>1 DEF ListingInbox
<1>3. /\ req' = [Detach(items, S, r) EXCEPT ![r] = Done]
      /\ UNCHANGED <<bills, billRow, published, raced>>
  BY <1>2 DEF FillInbox, tables, history
<1> HIDE DEF list
<1>4. ASSUME NEW x \in Request, NEW b \in Request PROVE Subsides(x, b)
  <2> DEFINE other == [by |-> r, at |-> req[r].at, val |-> items[req[x].holds]]
  <2>1. \/ req'[x] \in {req[x], Done}
        \/ (\E i \in S : Holds(req, x, i)) /\ req'[x] = [req[x] EXCEPT !.obj = other]
    BY <1>3 DEF Detach
  <2> HIDE DEF other
  <2>2. CASE (\E i \in S : Holds(req, x, i)) /\ req'[x] = [req[x] EXCEPT !.obj = other]
    <3>1. req[x] \in Importing(x)
      BY <2>2, HoldsItem
    <3>2. req'[x].op = "import" /\ req'[x].at = req[x].at
      BY <2>2, <3>1 DEF Importing
    <3> QED
      BY <3>2, AtShape, QuietSubsides DEF Creates
  <2> QED
    BY <2>1, <2>2, SameSubsides
<1> QED
  BY <1>3, <1>4, LifeUntouched

LEMMA RestartLife ==
  ASSUME Inv, BillLife, Restart
  PROVE  BillLife'
<1>1. /\ \A b \in Request : bills'[b] = "none"
      /\ UNCHANGED <<billRow, published, raced>>
  BY DEF Restart, tables, history
<1>2. \A x \in Request : ~Running(x)'
  BY DEF Restart, Running, Done
<1>3. ASSUME NEW b \in Request \ raced PROVE LifeOf(b)'
  <2>1. BillOK(b)
    BY DEF BillLife, LifeOf
  <2>2. \A x \in Request : ~Writes(x, b)' /\ ~Checks(x, b)' /\ ~Reads(x, b)' /\ ~Lists(x, b)'
    BY <1>2, AtShape DEF Running, Writes, Checks, Reads, Lists
  <2>3. ~Creates(b)'
    BY <1>2 DEF Running, Creates
  <2>4. BillOK(b)'
    BY <1>1, <2>1, <2>3 DEF BillOK
  <2>5. \A x \in Request : RequestOK(x, b)'
    BY <2>2 DEF RequestOK
  <2> QED
    BY <2>2, <2>4, <2>5 DEF LifeOf, OneWriter
<1> QED
  BY <1>1, <1>3 DEF BillLife

LEMMA StepsLife ==
  ASSUME Inv, Apart, BillLife, [Next]_vars
  PROVE  BillLife'
<1>1. raced \subseteq raced' /\ RequestsOK'
  BY StepsApart, NextInv DEF Inv, Typed
<1>2. ASSUME NEW r \in Request, Step(r) PROVE BillLife'
  <2>1. CASE SaveItem(r) \/ Receive(r) \/ UpdateItem(r) \/ Fail(r)
    BY <2>1, QuietLife
  <2>2. CASE Validate(r) \/ SaveBill(r) \/ Check(r) \/ WriteBill(r) \/ Publish(r)
    BY <2>2, ValidateLife, SaveBillLife, CheckLife, WriteBillLife, PublishLife
  <2>3. CASE FillBills(r) \/ FillInbox(r) \/ ReadBill(r) \/ BillFound(r)
    BY <2>3, FillBillsLife, FillInboxLife, ReadBillLife, BillFoundLife
  <2> QED
    BY <1>1, <1>2, <2>1, <2>2, <2>3, BeginLife DEF Step
<1>3. CASE RulesStep
  BY <1>3, RulesStepFrame, SameSubsides, LifeUntouched
<1>4. CASE Restart
  BY <1>4, RestartLife
<1>5. CASE UNCHANGED vars
  BY <1>5, SameSubsides, LifeUntouched DEF vars
<1> QED
  BY <1>2, <1>3, <1>4, <1>5 DEF Next, Environment, RulesStep

LEMMA LifeAlways == Spec => [](Apart /\ BillLife)
<1>1. Init => Apart /\ BillLife
  <2> SUFFICES ASSUME Init PROVE Apart /\ BillLife
    OBVIOUS
  <2>1. \A r \in Request : req[r].at = "new" /\ ~Running(r)
    BY DEF Init, New, Running
  <2>2. \A b \in Request, r \in Request :
           ~Writes(r, b) /\ ~Checks(r, b) /\ ~Reads(r, b) /\ ~Lists(r, b)
    BY <2>1, AtShape DEF Writes, Checks, Reads, Lists
  <2>3. \A b \in Request : published[b] = 0 /\ ~Creates(b)
    BY <2>1 DEF Init, Creates
  <2> QED
    BY <2>1, <2>2, <2>3 DEF Apart, BillLife, LifeOf, OneWriter, BillOK, RequestOK
<1>2. Inv /\ Apart /\ BillLife /\ [Next]_vars => Apart' /\ BillLife'
  BY StepsApart, StepsLife
<1> QED
  BY <1>1, <1>2, InvAlways, PTL DEF Spec

(* For any requests, and whatever fails or restarts between two of their    *)
(* steps: a bill is published once, however many posts that find it in the  *)
(* map overlap (postBill, bill.repository.ts), unless a list, a post that   *)
(* looks the bill up, or the request that creates it, overlaps a post.      *)
THEOREM BillPublishedOnce == Spec => []PublishedOnce
<1>1. BillLife => PublishedOnce
  BY DEF BillLife, LifeOf, BillOK, PublishedOnce
<1> QED
  BY <1>1, LifeAlways, PTL

-----------------------------------------------------------------------------
(* The life of an item that has not been raced, while nothing fails or      *)
(* restarts: PENDING until the import that has it in hand has stored the    *)
(* bill that it becomes, and IMPORTED ever after.                           *)
Imports(r, i) == req[r] \in Importing(r) /\ req[r].holds = i
Marks(r, i) == req[r] \in Updating(r) /\ req[r].item = i
Delivers(r, i) == req[r] \in Delivering /\ req[r].item = i
ListsItem(r, i) == req[r] \in ListingInbox /\ i \in DOMAIN req[r].list

IsImported(o) == o # None /\ o.status = "IMPORTED"

\* A bill that is past its validation, in the map or the table, or in the
\* hands of a request.
Exists(b) ==
    \/ HasStatus(b) \/ req[b].at = "saveBill"
    \/ \E r \in Request : Checks(r, b) \/ Writes(r, b) \/ Lists(r, b)

MadeOf(b, i) == Exists(b) /\ doc[b].item = i

OneMade(i) == \A b, c \in Request : MadeOf(b, i) /\ MadeOf(c, i) => b = c

ItemOK(i) ==
    /\ \A b \in Request : MadeOf(b, i) =>
         IsImported(items[i]) \/ (Imports(b, i) /\ req[b].at = "saveBill")
    /\ IsImported(items[i]) => IsImported(itemRow[i]) \/ \E r \in Request : Marks(r, i)
    /\ items[i] # None => itemRow[i] # None \/ \E r \in Request : Delivers(r, i)

HandOK(r, i) ==
    /\ Imports(r, i) => req[r].obj = Cached
    /\ Imports(r, i) \/ Delivers(r, i) \/ ListsItem(r, i) => ~IsImported(items[i])
    /\ ListsItem(r, i) => itemRow[i] # None

LifeOfItem(i) == OneMade(i) /\ ItemOK(i) /\ \A r \in Request : HandOK(r, i)

ItemsLife == \A i \in Item \ raced : LifeOfItem(i)

ItemLife ==
    /\ crashes \in Nat /\ failures \in Nat
    /\ crashes = 0 /\ failures = 0 => ItemsLife

\* A request does with i what it did before, or no more.
Keeps(x, i) ==
    /\ Imports(x, i)' => Imports(x, i) /\ req'[x].obj = req[x].obj
    /\ Imports(x, i) /\ req[x].at = "saveBill" => Imports(x, i)' /\ req'[x].at = "saveBill"
    /\ Marks(x, i) => Marks(x, i)'
    /\ Delivers(x, i)' <=> Delivers(x, i)
    /\ ListsItem(x, i)' => ListsItem(x, i)

LEMMA ItemGoesOn ==
  ASSUME NEW i \in Item, LifeOfItem(i), items'[i] = items[i], itemRow'[i] = itemRow[i],
         \A b \in Request : MadeOf(b, i)' => MadeOf(b, i),
         \A x \in Request : Keeps(x, i)
  PROVE  LifeOfItem(i)'
<1>1. OneMade(i)'
  BY DEF LifeOfItem, OneMade
<1>2. ItemOK(i)'
  BY DEF LifeOfItem, ItemOK, Keeps
<1>3. ASSUME NEW x \in Request PROVE HandOK(x, i)'
  <2>1. HandOK(x, i) /\ Keeps(x, i)
    BY DEF LifeOfItem
  <2> QED
    BY <2>1 DEF HandOK, Keeps
<1> QED
  BY <1>1, <1>2, <1>3 DEF LifeOfItem

LEMMA SameKeeps ==
  ASSUME NEW x, NEW i, req'[x] = req[x] PROVE Keeps(x, i)
  BY DEF Keeps, Imports, Marks, Delivers, ListsItem

\* What a request about i is, and that it touches it.
Involves(q, r) ==
    q \in Importing(r) \/ q \in Updating(r) \/ q \in Delivering \/ q \in ListingInbox

LEMMA ElsewhereKeeps ==
  ASSUME NEW x, NEW i, ~Involves(req[x], x), ~Involves(req'[x], x) PROVE Keeps(x, i)
  BY DEF Keeps, Imports, Marks, Delivers, ListsItem, Involves

WorksOn(x, i) == Imports(x, i) \/ Marks(x, i) \/ Delivers(x, i) \/ ListsItem(x, i)

LEMMA WorkTouches ==
  ASSUME NEW x, NEW i, WorksOn(x, i)
  PROVE  Running(x) /\ i \in req[x].touches /\ req[x].op # "post" /\ Involves(req[x], x)
  BY AtShape DEF WorksOn, Imports, Marks, Delivers, ListsItem, Running, Involves,
                 Importing, Updating, Delivering, ListingInbox

LEMMA AloneOnItem ==
  ASSUME Apart, NEW r \in Request, NEW i, i \notin raced, WorksOn(r, i),
         NEW x \in Request \ {r}
  PROVE  ~WorksOn(x, i)
  BY WorkTouches DEF Apart, MayOverlap

LEMMA AtInvolves ==
  ASSUME NEW r, NEW q, q.at \in {"new", "done", "check", "writeBill", "publish", "fillBills",
                                 "receive", "find", "found"}
  PROVE  ~Involves(q, r)
  BY AtShape DEF Involves

LEMMA OpInvolves ==
  ASSUME NEW r, NEW q, q.op \in {"create", "post", "listBills"}
  PROVE  ~Involves(q, r)
  BY AtShape DEF Involves

\* A bill that exists has its contents.
LEMMA ExistsBegun ==
  ASSUME Inv, NEW b \in Request, Exists(b)
  PROVE  req[b] # New /\ req[b].at # "validate" /\ doc[b] # None
<1>1. CASE req[b].at = "saveBill"
  <2>1. req[b] \in Importing(b) \cup Creating(b)
    BY <1>1, ShapeAt DEF Inv, Typed, RequestsOK
  <2> QED
    BY <1>1, <2>1, AtShape DEF Inv, Linked, OwnDoc
<1>2. CASE HasStatus(b)
  BY <1>2 DEF Inv, Linked, Known
<1>3. CASE \E r \in Request : Checks(r, b) \/ Writes(r, b) \/ Lists(r, b)
  BY <1>3 DEF Inv, Linked, UsesKnown, Known, Checks, Writes, Lists
<1> QED
  BY <1>1, <1>2, <1>3 DEF Exists

\* Nobody has made a bill of an item that an import is about to store.
LEMMA NoneMade ==
  ASSUME NEW i \in Item, LifeOfItem(i), Apart, i \notin raced, NEW r \in Request, Imports(r, i),
         NEW b \in Request, MadeOf(b, i)
  PROVE  b = r
<1>1. ~IsImported(items[i])
  BY DEF LifeOfItem, HandOK
<1>2. Imports(b, i)
  BY <1>1 DEF LifeOfItem, ItemOK
<1> QED
  BY <1>2, AloneOnItem DEF WorksOn

\* The same for a list, or the delivery itself.
LEMMA NothingMade ==
  ASSUME NEW i \in Item, LifeOfItem(i), Apart, i \notin raced, NEW r \in Request,
         Delivers(r, i) \/ ListsItem(r, i), NEW b \in Request
  PROVE  ~MadeOf(b, i)
<1>1. ~IsImported(items[i])
  BY DEF LifeOfItem, HandOK
<1>2. MadeOf(b, i) => Imports(b, i)
  BY <1>1 DEF LifeOfItem, ItemOK
<1>3. ~Imports(b, i)
  <2>1. CASE b = r
    BY <2>1, AtShape DEF Imports, Delivers, ListsItem
  <2>2. CASE b # r
    BY <2>2, AloneOnItem DEF WorksOn
  <2> QED
    BY <2>1, <2>2
<1> QED
  BY <1>2, <1>3

\* Steps of one request: which bills are in hands afterwards.
LEMMA OthersExist ==
  ASSUME NEW r \in Request, NEW q, req'[r] = q, \A x \in Request \ {r} : req'[x] = req[x],
         q.at = "saveBill" => Exists(r),
         q \in Checking => Exists(q.holds), q \in Writing => Exists(q.bill),
         q \in ListingBills => \A b \in DOMAIN q.list : Exists(b),
         NEW b \in Request, HasStatus(b)' => Exists(b), Exists(b)'
  PROVE  Exists(b)
<1>1. CASE HasStatus(b)'
  BY <1>1
<1>2. CASE req'[b].at = "saveBill"
  <2>1. CASE b = r
    BY <1>2, <2>1
  <2>2. CASE b # r
    BY <1>2, <2>2 DEF Exists
  <2> QED
    BY <2>1, <2>2
<1>3. ASSUME NEW x \in Request, Checks(x, b)' \/ Writes(x, b)' \/ Lists(x, b)' PROVE Exists(b)
  <2>1. CASE x = r
    BY <1>3, <2>1 DEF Checks, Writes, Lists
  <2>2. CASE x # r
    BY <1>3, <2>2 DEF Exists, Checks, Writes, Lists
  <2> QED
    BY <2>1, <2>2
<1> QED
  BY <1>1, <1>2, <1>3 DEF Exists

\* Steps that leave the items and the documents of bills alone.
LEMMA ItemsGoOn ==
  ASSUME ItemsLife, raced \subseteq raced', UNCHANGED <<items, itemRow>>,
         \A b \in Request, i \in Item : MadeOf(b, i)' => MadeOf(b, i),
         \A x \in Request, i \in Item : Keeps(x, i)
  PROVE  ItemsLife'
<1>1. ASSUME NEW i \in Item \ raced' PROVE LifeOfItem(i)'
  <2>1. LifeOfItem(i)
    BY DEF ItemsLife
  <2> QED
    BY <2>1, ItemGoesOn
<1> QED
  BY <1>1 DEF ItemsLife

\* Bills of users, posts and lists.
LEMMA CreateBillItems ==
  ASSUME Inv, ItemsLife, raced \subseteq raced', RequestsOK', NEW r \in Request,
         NEW d \in Documents, CreateBill(r, d)
  PROVE  ItemsLife'
<1>1. PICK q : req[r] = New /\ Moves(r, q) /\ req'[r] = q /\ q.op = "create" /\ q.at = "validate"
  <2>1. \E q : Begin(r, q) /\ q.op = "create" /\ q.at = "validate"
    BY DEF CreateBill
  <2> QED
    BY <2>1 DEF Begin, Moves, Inv, Typed, RequestsOK
<1>2. q \in Requests(r) /\ req'[r] = q /\ \A x \in Request \ {r} : req'[x] = req[x]
  BY <1>1, MovesOK DEF Inv, Typed, RequestsOK
<1>3. /\ doc' = [doc EXCEPT ![r] = Body(d, None)]
      /\ UNCHANGED <<items, itemRow, bills, billRow, published>>
  BY DEF CreateBill, tables
<1>4. doc'[r].item \notin Item /\ \A b \in Request \ {r} : doc'[b] = doc[b]
  BY <1>3, SomeRecords DEF Body, Inv, Typed, TablesOK
<1>5. ASSUME NEW b \in Request, Exists(b)' PROVE Exists(b)
  <2>1. HasStatus(b)' => Exists(b)
    BY <1>3 DEF HasStatus, Exists
  <2> QED
    BY <1>1, <1>2, <1>5, <2>1, AtShape, OthersExist
<1>6. ASSUME NEW i \in Item, NEW b \in Request, MadeOf(b, i)' PROVE MadeOf(b, i)
  BY <1>4, <1>5, <1>6 DEF MadeOf
<1>7. ASSUME NEW i \in Item, NEW x \in Request PROVE Keeps(x, i)
  <2>1. ~Involves(req[r], r) /\ ~Involves(req'[r], r)
    BY <1>1, AtInvolves, OpInvolves DEF New
  <2> QED
    BY <1>2, <2>1, SameKeeps, ElsewhereKeeps
<1> QED
  BY <1>3, <1>6, <1>7, ItemsGoOn

LEMMA PostBillItems ==
  ASSUME Inv, ItemsLife, raced \subseteq raced', NEW r \in Request, NEW b \in Request,
         PostBill(r, b) \/ FindBill(r, b)
  PROVE  ItemsLife'
<1>1. PICK q : /\ req[r] = New /\ Moves(r, q) /\ q.op = "post"
               /\ (q.at = "check" /\ q.holds = b) \/ q.at = "find"
  BY DEF PostBill, FindBill, Begin, Moves
<1>2. HasStatus(b) /\ UNCHANGED <<items, itemRow, bills, billRow, doc, published>>
  BY DEF PostBill, FindBill, HasStatus, tables
<1>3. req'[r] = q /\ \A x \in Request \ {r} : req'[x] = req[x]
  BY <1>1 DEF Moves, Inv, Typed, RequestsOK
<1>4. ASSUME NEW c \in Request, Exists(c)' PROVE Exists(c)
  <2>1. HasStatus(c)' => Exists(c)
    BY <1>2 DEF HasStatus, Exists
  <2>2. Exists(b)
    BY <1>2 DEF Exists
  <2> QED
    BY <1>1, <1>3, <1>4, <2>1, <2>2, AtShape, OthersExist
<1>5. ASSUME NEW i \in Item, NEW c \in Request, MadeOf(c, i)' PROVE MadeOf(c, i)
  BY <1>2, <1>4, <1>5 DEF MadeOf
<1>6. ASSUME NEW i \in Item, NEW x \in Request PROVE Keeps(x, i)
  <2>1. ~Involves(req[r], r) /\ ~Involves(req'[r], r)
    BY <1>1, <1>3, AtInvolves DEF New
  <2> QED
    BY <1>3, <2>1, SameKeeps, ElsewhereKeeps
<1> QED
  BY <1>2, <1>5, <1>6, ItemsGoOn

LEMMA ListBillsItems ==
  ASSUME Inv, ItemsLife, raced \subseteq raced', NEW r \in Request, ListBills(r)
  PROVE  ItemsLife'
<1> DEFINE listed == {b \in Request : billRow[b] # "none"}
           list == [b \in listed |-> billRow[b]]
           q == [op |-> "listBills", at |-> "fillBills", list |-> list, touches |-> DOMAIN list]
<1>1. req[r] = New /\ Moves(r, q)
  BY DEF ListBills, Begin, Moves
<1>2. UNCHANGED <<items, itemRow, bills, billRow, doc, published>>
  BY DEF ListBills, tables
<1>3. \A b \in listed : Exists(b)
  BY DEF Exists, HasStatus
<1>4. q.at = "fillBills" /\ DOMAIN q.list = listed
  OBVIOUS
<1> HIDE DEF q, listed
<1>5. req'[r] = q /\ \A x \in Request \ {r} : req'[x] = req[x]
  BY <1>1 DEF Moves, Inv, Typed, RequestsOK
<1>6. ASSUME NEW b \in Request, Exists(b)' PROVE Exists(b)
  <2>1. HasStatus(b)' => Exists(b)
    BY <1>2 DEF HasStatus, Exists
  <2> QED
    BY <1>3, <1>4, <1>5, <1>6, <2>1, AtShape, OthersExist
<1>7. ASSUME NEW i \in Item, NEW b \in Request, MadeOf(b, i)' PROVE MadeOf(b, i)
  BY <1>2, <1>6, <1>7 DEF MadeOf
<1>8. ASSUME NEW i \in Item, NEW x \in Request PROVE Keeps(x, i)
  <2>1. ~Involves(req[r], r) /\ ~Involves(req'[r], r)
    BY <1>1, <1>4, <1>5, AtInvolves DEF New
  <2> QED
    BY <1>5, <2>1, SameKeeps, ElsewhereKeeps
<1> QED
  BY <1>2, <1>7, <1>8, ItemsGoOn

LEMMA FinishMoves ==
  ASSUME Inv, NEW r \in Request, Finish(r)
  PROVE  req'[r] = Done /\ \A x \in Request \ {r} : req'[x] = req[x]
  BY DEF Finish, Inv, Typed, RequestsOK

\* The ends of requests about bills.
LEMMA FinishItems ==
  ASSUME Inv, ItemsLife, raced' = raced, NEW r \in Request, Finish(r),
         req[r].at \in {"check", "receive", "publish"},
         UNCHANGED <<items, itemRow, bills, billRow>>,
         \A b \in Request : doc'[b].item = doc[b].item,
         \A b \in Request : published'[b] # 0 => published[b] # 0 \/ Exists(b)
  PROVE  ItemsLife'
<1>1. req'[r] = Done /\ \A x \in Request \ {r} : req'[x] = req[x]
  BY FinishMoves
<1>2. ASSUME NEW b \in Request, Exists(b)' PROVE Exists(b)
  <2>1. HasStatus(b)' => Exists(b)
    BY DEF HasStatus, Exists
  <2> QED
    BY <1>1, <1>2, <2>1, AtShape, OthersExist DEF Done
<1>3. ASSUME NEW i \in Item, NEW b \in Request, MadeOf(b, i)' PROVE MadeOf(b, i)
  BY <1>2, <1>3 DEF MadeOf
<1>4. ASSUME NEW i \in Item, NEW x \in Request PROVE Keeps(x, i)
  <2>1. ~Involves(req[r], r) /\ ~Involves(req'[r], r)
    BY <1>1, AtInvolves DEF Done
  <2> QED
    BY <1>1, <2>1, SameKeeps, ElsewhereKeeps
<1> QED
  BY <1>3, <1>4, ItemsGoOn

LEMMA ReceiveItems ==
  ASSUME Inv, ItemsLife, NEW r \in Request, Receive(r)
  PROVE  ItemsLife'
<1>1. /\ req[r].at = "receive" /\ Finish(r)
      /\ UNCHANGED <<items, itemRow, bills, billRow, published, raced>>
  BY DEF Receive, tables, history
<1>2. doc[r] # None
  BY <1>1, ShapeAt DEF Inv, Linked, OwnDoc, Typed, RequestsOK
<1>3. \A b \in Request : doc'[b].item = doc[b].item
  <2>1. CASE doc' = doc
    BY <2>1
  <2>2. CASE doc' = [doc EXCEPT ![r].received = TRUE]
    <3>1. doc[r] \in BillDoc
      BY <1>2 DEF Inv, Typed, TablesOK
    <3>2. doc'[r] = [doc[r] EXCEPT !.received = TRUE] /\ \A b \in Request \ {r} : doc'[b] = doc[b]
      BY <2>2 DEF Inv, Typed, TablesOK
    <3>3. doc'[r].item = doc[r].item
      BY <3>1, <3>2 DEF BillDoc
    <3> QED
      BY <3>2, <3>3
  <2> QED
    BY <2>1, <2>2 DEF Receive
<1> QED
  BY <1>1, <1>3, FinishItems

LEMMA PublishItems ==
  ASSUME Inv, ItemsLife, NEW r \in Request, Publish(r)
  PROVE  ItemsLife'
<1>1. /\ req[r].at = "publish" /\ Finish(r)
      /\ published' = [published EXCEPT ![req[r].bill] = @ + 1]
      /\ UNCHANGED <<items, itemRow, bills, billRow, doc, raced>>
  BY DEF Publish, tables, history
<1>2. req[r] \in Writing
  BY <1>1, ShapeAt DEF Inv, Typed, RequestsOK
<1>3. PICK b \in Request : b = req[r].bill
  BY <1>2 DEF Writing
<1>4. Exists(b)
  BY <1>2, <1>3 DEF Exists, Writes
<1>5. \A c \in Request : published'[c] # 0 => published[c] # 0 \/ Exists(c)
  BY <1>1, <1>3, <1>4 DEF Inv, Typed, TablesOK
<1> QED
  BY <1>1, <1>5, FinishItems

LEMMA WriteBillItems ==
  ASSUME Inv, ItemsLife, NEW r \in Request, WriteBill(r)
  PROVE  ItemsLife'
<1> DEFINE q == [req[r] EXCEPT !.at = "publish"]
<1>1. req[r] \in Writing /\ req[r].at = "writeBill"
  BY ShapeAt DEF WriteBill, Inv, Typed, RequestsOK
<1>2. PICK b \in Request : b = req[r].bill
  BY <1>1 DEF Writing
<1>3. /\ billRow' = [billRow EXCEPT ![b] = "POSTED"]
      /\ UNCHANGED <<items, itemRow, bills, doc, published, raced>>
  BY <1>2 DEF WriteBill, history
<1>4. q.bill = b /\ q.at = "publish" /\ Exists(b)
  BY <1>1, <1>2 DEF Writing, Exists, Writes
<1>5. req'[r] = q /\ \A x \in Request \ {r} : req'[x] = req[x]
  BY DEF WriteBill, Goto, Inv, Typed, RequestsOK
<1> HIDE DEF q
<1>6. ASSUME NEW c \in Request, Exists(c)' PROVE Exists(c)
  <2>1. HasStatus(c)' => HasStatus(c) \/ c = b
    BY <1>3 DEF HasStatus, Inv, Typed, TablesOK
  <2>2. HasStatus(c)' => Exists(c)
    BY <1>4, <2>1 DEF Exists
  <2> QED
    BY <1>4, <1>5, <1>6, <2>2, AtShape, OthersExist
<1>7. ASSUME NEW i \in Item, NEW c \in Request, MadeOf(c, i)' PROVE MadeOf(c, i)
  BY <1>3, <1>6, <1>7 DEF MadeOf
<1>8. ASSUME NEW i \in Item, NEW x \in Request PROVE Keeps(x, i)
  <2>1. ~Involves(req[r], r) /\ ~Involves(req'[r], r)
    BY <1>1, <1>4, <1>5, AtInvolves
  <2> QED
    BY <1>5, <2>1, SameKeeps, ElsewhereKeeps
<1> QED
  BY <1>3, <1>7, <1>8, ItemsGoOn

\* Steps after which posts hold what they held.
LEMMA SharedItems ==
  ASSUME Inv, ItemsLife, NEW r \in Request, ~Involves(req[r], r), ~Involves(req'[r], r),
         req'[r].at # "saveBill",
         \A b \in Request : Checks(r, b)' \/ Writes(r, b)' \/ Lists(r, b)' => Exists(b),
         \A x \in Request \ {r} :
             req'[x] = req[x] \/ \E b \in Request : Checks(x, b) /\ Checks(x, b)',
         UNCHANGED <<items, itemRow, doc, raced>>,
         \A b \in Request : HasStatus(b)' => Exists(b)
  PROVE  ItemsLife'
<1>1. ASSUME NEW x \in Request \ {r}, NEW b \in Request, Checks(x, b), Checks(x, b)',
             NEW c \in Request, Checks(x, c)' \/ Writes(x, c)' \/ Lists(x, c)'
      PROVE  Checks(x, c)
  BY <1>1, AtShape DEF Checks, Writes, Lists
<1>2. ASSUME NEW c \in Request, Exists(c)' PROVE Exists(c)
  <2>1. CASE HasStatus(c)'
    BY <2>1
  <2>2. CASE req'[c].at = "saveBill"
    <3>1. c # r /\ req'[c] = req[c]
      BY <2>2, AtShape DEF Checks
    <3> QED
      BY <2>2, <3>1 DEF Exists
  <2>3. ASSUME NEW x \in Request, Checks(x, c)' \/ Writes(x, c)' \/ Lists(x, c)' PROVE Exists(c)
    <3>1. CASE x = r
      BY <2>3, <3>1
    <3>2. CASE x # r /\ req'[x] = req[x]
      BY <2>3, <3>2 DEF Exists, Checks, Writes, Lists
    <3>3. CASE x # r /\ \E b \in Request : Checks(x, b) /\ Checks(x, b)'
      BY <1>1, <2>3, <3>3 DEF Exists
    <3> QED
      BY <3>1, <3>2, <3>3
  <2> QED
    BY <1>2, <2>1, <2>2, <2>3 DEF Exists
<1>3. ASSUME NEW i \in Item, NEW x \in Request PROVE Keeps(x, i)
  <2>1. CASE x = r
    BY <2>1, ElsewhereKeeps
  <2>2. CASE req'[x] = req[x]
    BY <2>2, SameKeeps
  <2>3. CASE \E b \in Request : Checks(x, b) /\ Checks(x, b)'
    <3>1. ~Involves(req[x], x) /\ ~Involves(req'[x], x)
      BY <2>3, AtShape, AtInvolves DEF Checks
    <3> QED
      BY <3>1, ElsewhereKeeps
  <2> QED
    BY <2>1, <2>2, <2>3
<1>4. ASSUME NEW i \in Item, NEW c \in Request, MadeOf(c, i)' PROVE MadeOf(c, i)
  BY <1>2, <1>4 DEF MadeOf
<1> QED
  BY <1>3, <1>4, ItemsGoOn

LEMMA CheckItems ==
  ASSUME Inv, ItemsLife, NEW r \in Request, Check(r)
  PROVE  ItemsLife'
<1>1. req[r] \in Checking /\ req[r].at = "check"
  BY ShapeAt DEF Check, Inv, Typed, RequestsOK
<1>2. PICK b \in Request : b = req[r].holds
  BY <1>1 DEF Checking
<1>3. UNCHANGED <<items, itemRow, billRow, doc, published, raced>> /\ Exists(b)
  BY <1>1, <1>2 DEF Check, tables, Exists, Checks
<1>4. CASE Finish(r) /\ bills' = bills
  BY <1>1, <1>3, <1>4, FinishItems
<1>5. CASE ~(Finish(r) /\ bills' = bills)
  <2> DEFINE q == [op |-> "post", at |-> "writeBill", bill |-> b, touches |-> req[r].touches]
  <2>1. bills' = [bills EXCEPT ![b] = "POSTED"] /\ req' = [PutBack(bills, r) EXCEPT ![r] = q]
    BY <1>2, <1>5 DEF Check, PutBack
  <2>2. q.bill = b /\ q.at = "writeBill"
    OBVIOUS
  <2> HIDE DEF q
  <2>3. req'[r] = q
    BY <2>1 DEF PutBack
  <2>4. \A x \in Request \ {r} : req'[x] = req[x] \/ (Checks(x, b) /\ Checks(x, b)')
    BY <1>1, <1>2, <2>1, PutBackOthers
  <2>5. \A c \in Request : Checks(r, c)' \/ Writes(r, c)' \/ Lists(r, c)' => Exists(c)
    BY <1>3, <2>2, <2>3, AtShape DEF Checks, Writes, Lists
  <2>6. \A c \in Request : HasStatus(c)' => Exists(c)
    <3>1. \A c \in Request \ {b} : bills'[c] = bills[c]
      BY <2>1
    <3> QED
      BY <1>3, <3>1 DEF HasStatus, Exists
  <2>7. ~Involves(req[r], r) /\ ~Involves(req'[r], r)
    BY <1>1, <2>2, <2>3, AtInvolves
  <2> QED
    BY <1>3, <2>2, <2>3, <2>4, <2>5, <2>6, <2>7, SharedItems
<1> QED
  BY <1>4, <1>5 DEF Check

LEMMA ReadBillItems ==
  ASSUME Inv, ItemsLife, NEW r \in Request, ReadBill(r)
  PROVE  ItemsLife'
<1>1. req[r].at = "find" /\ UNCHANGED <<items, itemRow, bills, billRow, doc, published, raced>>
  BY DEF ReadBill, tables, history
<1>2. req'[r].at = "found" /\ \A x \in Request \ {r} : req'[x] = req[x]
  BY DEF ReadBill, Inv, Typed, RequestsOK
<1>3. ~Involves(req[r], r) /\ ~Involves(req'[r], r)
  BY <1>1, <1>2, AtInvolves
<1>4. \A c \in Request : ~(Checks(r, c)' \/ Writes(r, c)' \/ Lists(r, c)')
  BY <1>2, AtShape DEF Checks, Writes, Lists
<1>5. \A c \in Request : HasStatus(c)' => Exists(c)
  BY <1>1 DEF HasStatus, Exists
<1> QED
  BY <1>1, <1>2, <1>3, <1>4, <1>5, SharedItems

LEMMA BillFoundItems ==
  ASSUME Inv, ItemsLife, NEW r \in Request, BillFound(r)
  PROVE  ItemsLife'
<1>1. req[r] \in Found /\ req[r].at = "found"
  BY ShapeAt DEF BillFound, Inv, Typed, RequestsOK
<1>2. PICK b \in Request : b = req[r].bill
  BY <1>1 DEF Found
<1> DEFINE q == [op |-> "post", at |-> "check", holds |-> b, obj |-> Cached,
                 touches |-> req[r].touches]
<1>3. /\ bills' = [bills EXCEPT ![b] = req[r].row]
      /\ UNCHANGED <<items, itemRow, billRow, doc, published, raced>>
  BY <1>2 DEF BillFound, tables, history
<1>4. req' = [Detach(bills, {b}, r) EXCEPT ![r] = q]
  BY <1>1, <1>2, FoundKeeps
<1>5. req'[r] = q /\ q.at = "check" /\ q.holds = b
  BY <1>4 DEF Detach
<1> HIDE DEF q
<1>6. Exists(b)
  BY <1>1, <1>2 DEF Exists, HasStatus, Inv, Linked, UsesKnown
<1>7. \A x \in Request \ {r} : req'[x] = req[x] \/ (Checks(x, b) /\ Checks(x, b)')
  <2>1. req[r].at \in Replacing /\ {b} \in SUBSET Request
    BY <1>1 DEF Replacing
  <2> QED
    BY <1>4, <2>1, DetachOthers
<1>8. \A c \in Request : Checks(r, c)' \/ Writes(r, c)' \/ Lists(r, c)' => Exists(c)
  BY <1>5, <1>6, AtShape DEF Checks, Writes, Lists
<1>9. \A c \in Request : HasStatus(c)' => Exists(c)
  <2>1. \A c \in Request \ {b} : bills'[c] = bills[c]
    BY <1>3 DEF Inv, Typed, TablesOK
  <2> QED
    BY <1>3, <1>6, <2>1 DEF HasStatus, Exists
<1>10. ~Involves(req[r], r) /\ ~Involves(req'[r], r)
  BY <1>1, <1>5, AtInvolves
<1> QED
  BY <1>3, <1>5, <1>7, <1>8, <1>9, <1>10, SharedItems

LEMMA FillBillsItems ==
  ASSUME Inv, ItemsLife, NEW r \in Request, FillBills(r)
  PROVE  ItemsLife'
<1> DEFINE list == req[r].list
<1>1. req[r] \in ListingBills /\ req[r].at = "fillBills"
  BY ShapeAt DEF FillBills, Inv, Typed, RequestsOK
<1>2. PICK S \in SUBSET Request : S = DOMAIN list
  BY <1>1 DEF ListingBills
<1>3. /\ bills' = [b \in Request |-> IF b \in S THEN list[b] ELSE bills[b]]
      /\ req' = [Detach(bills, S, r) EXCEPT ![r] = Done]
      /\ UNCHANGED <<items, itemRow, billRow, doc, published, raced>>
  BY <1>2 DEF FillBills, tables, history
<1>4. \A b \in S : Exists(b)
  BY <1>1, <1>2 DEF Exists, Lists
<1> HIDE DEF list
<1>5. req'[r] = Done
  BY <1>3 DEF Detach
<1>6. \A x \in Request \ {r} : req'[x] = req[x] \/ \E b \in S : Checks(x, b) /\ Checks(x, b)'
  <2>1. req[r].at \in Replacing
    BY <1>1 DEF Replacing
  <2> QED
    BY <1>3, <2>1, DetachOthers
<1>7. \A c \in Request : HasStatus(c)' => Exists(c)
  BY <1>3, <1>4 DEF HasStatus, Exists
<1>8. \A c \in Request : ~(Checks(r, c)' \/ Writes(r, c)' \/ Lists(r, c)')
  BY <1>5, AtShape DEF Checks, Writes, Lists
<1>9. ~Involves(req[r], r) /\ ~Involves(req'[r], r)
  BY <1>1, <1>5, AtInvolves DEF Done
<1> QED
  BY <1>3, <1>5, <1>6, <1>7, <1>8, <1>9, AtShape, SharedItems

\* The inbox: an item is PENDING until its bill is stored.
LEMMA CreateInboxItemItems ==
  ASSUME Inv, ItemsLife, raced \subseteq raced', NEW r \in Request, NEW j \in Item,
         NEW d \in Documents, CreateInboxItem(r, j, d)
  PROVE  ItemsLife'
<1> DEFINE o == [status |-> "PENDING", bill |-> None, doc |-> d, by |-> AcceptedBy]
           q == [op |-> "deliver", at |-> "saveItem", item |-> j, touches |-> {j}, row |-> o]
<1>1. req[r] = New /\ Moves(r, q)
  BY DEF CreateInboxItem, Begin, Moves
<1>2. /\ items[j] = None /\ items' = [items EXCEPT ![j] = o]
      /\ UNCHANGED <<itemRow, bills, billRow, doc, published>>
  BY DEF CreateInboxItem, tables
<1>3. o.status = "PENDING"
  OBVIOUS
<1>4. q \in Delivering /\ q.item = j
  <2>1. AcceptedBy \in Lawful
    BY Laws1 DEF Inv, Typed, RulesOK, AcceptedBy, Lawful
  <2>2. AcceptedBy # 0 => Violations("invoice", d, Laws[AcceptedBy]) = {}
    BY DEF CreateInboxItem, AcceptedBy, Accepted
  <2>3. o \in Pending
    BY <2>1, <2>2 DEF Pending, Object
  <2> QED
    BY <2>3 DEF Delivering, Touched
<1> HIDE DEF q, o
<1>5. req'[r] = q /\ \A x \in Request \ {r} : req'[x] = req[x]
  BY <1>1 DEF Moves, Inv, Typed, RequestsOK
<1>6. ASSUME NEW b \in Request, Exists(b)' PROVE Exists(b)
  <2>1. HasStatus(b)' => Exists(b)
    BY <1>2 DEF HasStatus, Exists
  <2> QED
    BY <1>4, <1>5, <1>6, <2>1, AtShape, OthersExist
<1>7. ASSUME NEW i \in Item, NEW b \in Request, MadeOf(b, i)' PROVE MadeOf(b, i)
  BY <1>2, <1>6, <1>7 DEF MadeOf
<1>8. ASSUME NEW i \in Item, i # j, NEW x \in Request PROVE Keeps(x, i)
  <2>1. Keeps(r, i)
    BY <1>1, <1>4, <1>5, <1>8, AtShape DEF Keeps, Imports, Marks, Delivers, ListsItem
  <2> QED
    BY <1>5, <2>1, SameKeeps
<1>9. ASSUME NEW i \in Item \ raced' PROVE LifeOfItem(i)'
  <2>1. LifeOfItem(i)
    BY DEF ItemsLife
  <2>2. CASE i # j
    <3>1. items'[i] = items[i]
      BY <1>2, <2>2
    <3> QED
      BY <1>2, <1>7, <1>8, <2>1, <2>2, <3>1, ItemGoesOn
  <2>3. CASE i = j
    <3>1. items'[i] = o
      BY <1>2, <2>3 DEF Inv, Typed, TablesOK
    <3>2. ~IsImported(items'[i])
      BY <1>3, <3>1 DEF IsImported
    <3>3. ~Imports(r, i)' /\ Delivers(r, i)' /\ ~ListsItem(r, i)'
      BY <1>4, <1>5, <2>3, AtShape DEF Imports, Delivers, ListsItem
    <3>4. \A x \in Request \ {r} : (Imports(x, i)' <=> Imports(x, i)) /\ (ListsItem(x, i)' <=> ListsItem(x, i))
      BY <1>5 DEF Imports, ListsItem
    <3>5. ASSUME NEW b \in Request, MadeOf(b, i)' PROVE Imports(b, i)' /\ req'[b].at = "saveBill"
      <4>1. Imports(b, i) /\ req[b].at = "saveBill"
        BY <1>2, <1>7, <2>1, <2>3, <3>5 DEF LifeOfItem, ItemOK, IsImported
      <4>2. b # r
        BY <1>1, <4>1, AtShape DEF New
      <4> QED
        BY <1>5, <4>1, <4>2 DEF Imports
    <3>6. OneMade(i)'
      BY <1>7, <2>1 DEF LifeOfItem, OneMade
    <3>7. ItemOK(i)'
      BY <3>2, <3>3, <3>5 DEF ItemOK
    <3>8. ASSUME NEW x \in Request PROVE HandOK(x, i)'
      <4>1. HandOK(x, i)
        BY <2>1 DEF LifeOfItem
      <4> QED
        BY <1>2, <1>5, <3>2, <3>3, <3>4, <4>1 DEF HandOK
    <3> QED
      BY <3>6, <3>7, <3>8 DEF LifeOfItem
  <2> QED
    BY <2>2, <2>3
<1> QED
  BY <1>9 DEF ItemsLife

LEMMA SaveItemItems ==
  ASSUME Inv, Apart, ItemsLife, NEW r \in Request, SaveItem(r)
  PROVE  ItemsLife'
<1>1. req[r] \in Delivering
  BY ShapeAt DEF SaveItem, Inv, Typed, RequestsOK
<1>2. PICK j \in Item : j = req[r].item
  BY <1>1 DEF Delivering
<1>3. /\ itemRow' = [itemRow EXCEPT ![j] = req[r].row] /\ Finish(r)
      /\ UNCHANGED <<items, bills, billRow, doc, published, raced>>
  BY <1>2 DEF SaveItem, history
<1>4. req'[r] = Done /\ \A x \in Request \ {r} : req'[x] = req[x]
  BY <1>3, FinishMoves
<1>5. req[r].row # None /\ Delivers(r, j)
  BY <1>1, <1>2, SomeRecords DEF Delivering, Pending, Delivers
<1>6. ASSUME NEW b \in Request, Exists(b)' PROVE Exists(b)
  <2>1. HasStatus(b)' => Exists(b)
    BY <1>3 DEF HasStatus, Exists
  <2> QED
    BY <1>4, <1>6, <2>1, AtShape, OthersExist DEF Done
<1>7. ASSUME NEW i \in Item, NEW b \in Request, MadeOf(b, i)' PROVE MadeOf(b, i)
  BY <1>3, <1>6, <1>7 DEF MadeOf
<1>8. ASSUME NEW i \in Item, i # j, NEW x \in Request PROVE Keeps(x, i)
  <2>1. Keeps(r, i)
    BY <1>1, <1>2, <1>4, <1>8, AtShape DEF Keeps, Imports, Marks, Delivers, ListsItem
  <2> QED
    BY <1>4, <2>1, SameKeeps
<1>9. ASSUME NEW i \in Item \ raced PROVE LifeOfItem(i)'
  <2>1. LifeOfItem(i)
    BY DEF ItemsLife
  <2>2. CASE i # j
    <3>1. itemRow'[i] = itemRow[i]
      BY <1>3, <2>2
    <3> QED
      BY <1>3, <1>7, <1>8, <2>1, <2>2, <3>1, ItemGoesOn
  <2>3. CASE i = j
    <3>1. itemRow'[i] # None
      BY <1>3, <1>5, <2>3 DEF Inv, Typed, TablesOK
    <3>2. ~IsImported(items[i])
      BY <1>5, <2>1, <2>3 DEF LifeOfItem, HandOK
    <3>3. \A b \in Request : ~MadeOf(b, i)
      BY <1>5, <2>1, <2>3, NothingMade
    <3>4. \A x \in Request : /\ Imports(x, i)' => Imports(x, i) /\ req'[x].obj = req[x].obj
                             /\ ListsItem(x, i)' => ListsItem(x, i)
      BY <1>4, AtShape DEF Imports, ListsItem
    <3>5. OneMade(i)' /\ ItemOK(i)'
      BY <1>3, <1>7, <3>1, <3>2, <3>3 DEF OneMade, ItemOK
    <3>6. ASSUME NEW x \in Request PROVE HandOK(x, i)'
      <4>1. HandOK(x, i)
        BY <2>1 DEF LifeOfItem
      <4> QED
        BY <1>3, <3>1, <3>2, <3>4, <4>1 DEF HandOK
    <3> QED
      BY <3>5, <3>6 DEF LifeOfItem
  <2> QED
    BY <2>2, <2>3
<1> QED
  BY <1>3, <1>9 DEF ItemsLife

LEMMA ImportToBillItems ==
  ASSUME Inv, ItemsLife, raced \subseteq raced', NEW r \in Request, NEW j \in Item,
         ImportToBill(r, j)
  PROVE  ItemsLife'
<1> DEFINE object == IF items[j] # None THEN items[j] ELSE itemRow[j]
           q == [op |-> "import", at |-> "validate", holds |-> j, obj |-> Cached,
                 touches |-> {j, r}]
           body == Body(Imported(object.doc), j)
<1>1. req[r] = New /\ Moves(r, q)
  BY DEF ImportToBill, Begin, Moves
<1>2. /\ items' = [items EXCEPT ![j] = object] /\ doc' = [doc EXCEPT ![r] = body]
      /\ UNCHANGED <<itemRow, bills, billRow, published>>
  BY DEF ImportToBill, tables
<1>3. /\ object # None /\ object.status # "IMPORTED"
      /\ items[j] # None => object = items[j]
      /\ items[j] = None => itemRow[j] = object
  BY DEF ImportToBill
<1>4. q \in Importing(r) /\ q.holds = j /\ q.obj = Cached /\ q.at = "validate"
  BY DEF Importing, Touched
<1> HIDE DEF object, q, body
<1>5. req'[r] = q /\ \A x \in Request \ {r} : req'[x] = req[x]
  BY <1>1 DEF Moves, Inv, Typed, RequestsOK
<1>6. ASSUME NEW b \in Request, Exists(b)' PROVE Exists(b)
  <2>1. HasStatus(b)' => Exists(b)
    BY <1>2 DEF HasStatus, Exists
  <2> QED
    BY <1>4, <1>5, <1>6, <2>1, AtShape, OthersExist
<1>7. ASSUME NEW i \in Item, NEW b \in Request, MadeOf(b, i)' PROVE MadeOf(b, i)
  <2>1. Exists(b) /\ b # r
    BY <1>1, <1>6, <1>7, ExistsBegun DEF MadeOf
  <2>2. doc'[b] = doc[b]
    BY <1>2, <2>1
  <2> QED
    BY <1>7, <2>1, <2>2 DEF MadeOf
<1>8. ASSUME NEW i \in Item, i # j, NEW x \in Request PROVE Keeps(x, i)
  <2>1. Keeps(r, i)
    BY <1>1, <1>4, <1>5, <1>8, AtShape DEF Keeps, Imports, Marks, Delivers, ListsItem
  <2> QED
    BY <1>5, <2>1, SameKeeps
<1>9. ASSUME NEW i \in Item \ raced' PROVE LifeOfItem(i)'
  <2>1. LifeOfItem(i)
    BY DEF ItemsLife
  <2>2. CASE i # j
    <3>1. items'[i] = items[i]
      BY <1>2, <2>2
    <3> QED
      BY <1>2, <1>7, <1>8, <2>1, <2>2, <3>1, ItemGoesOn
  <2>3. CASE i = j
    <3>1. items'[i] = object
      BY <1>2, <2>3 DEF Inv, Typed, TablesOK
    <3>2. ~IsImported(items'[i]) /\ ~IsImported(items[i])
      BY <1>3, <2>3, <3>1 DEF IsImported
    <3>3. \A x \in Request \ {r} :
             /\ Imports(x, i)' <=> Imports(x, i)
             /\ ListsItem(x, i)' <=> ListsItem(x, i)
             /\ Delivers(x, i)' <=> Delivers(x, i)
      BY <1>5 DEF Imports, ListsItem, Delivers
    <3>4. /\ req'[r].obj = Cached /\ ~ListsItem(r, i)' /\ ~ListsItem(r, i)
          /\ ~Delivers(r, i)' /\ ~Delivers(r, i) /\ ~Imports(r, i)
      BY <1>1, <1>4, <1>5, AtShape DEF Imports, ListsItem, Delivers
    <3>5. ASSUME NEW b \in Request, MadeOf(b, i)' PROVE Imports(b, i)' /\ req'[b].at = "saveBill"
      <4>1. Imports(b, i) /\ req[b].at = "saveBill"
        BY <1>7, <2>1, <3>2, <3>5 DEF LifeOfItem, ItemOK
      <4> QED
        BY <1>5, <3>3, <3>4, <4>1
    <3>6. OneMade(i)'
      BY <1>7, <2>1 DEF LifeOfItem, OneMade
    <3>7. itemRow'[i] # None \/ \E x \in Request : Delivers(x, i)'
      BY <1>2, <1>3, <2>1, <2>3, <3>3, <3>4 DEF LifeOfItem, ItemOK
    <3>8. ItemOK(i)'
      BY <3>2, <3>5, <3>7 DEF ItemOK
    <3>9. ASSUME NEW x \in Request PROVE HandOK(x, i)'
      <4>1. HandOK(x, i)
        BY <2>1 DEF LifeOfItem
      <4> QED
        BY <1>2, <1>5, <3>2, <3>3, <3>4, <4>1 DEF HandOK
    <3> QED
      BY <3>6, <3>8, <3>9 DEF LifeOfItem
  <2> QED
    BY <2>2, <2>3
<1> QED
  BY <1>9 DEF ItemsLife

\* A bill past its validation is the only one of its item.
LEMMA ValidateItems ==
  ASSUME Inv, Apart, ItemsLife, NEW r \in Request, Validate(r)
  PROVE  ItemsLife'
<1>1. req[r].at = "validate" /\ req[r] \in Importing(r) \cup Creating(r)
  BY ShapeAt DEF Validate, Inv, Typed, RequestsOK
<1>2. UNCHANGED <<items, itemRow, billRow, published, raced>>
  BY DEF Validate, tables
<1>3. doc[r] \in BillDoc
  BY <1>1 DEF Inv, Linked, OwnDoc, Typed, TablesOK
<1>4. CASE Finish(r) /\ UNCHANGED <<bills, doc>>
  <2>1. req'[r] = Done /\ \A x \in Request \ {r} : req'[x] = req[x]
    BY <1>4, FinishMoves
  <2>2. ASSUME NEW b \in Request, Exists(b)' PROVE Exists(b)
    <3>1. HasStatus(b)' => Exists(b)
      BY <1>2, <1>4 DEF HasStatus, Exists
    <3> QED
      BY <2>1, <2>2, <3>1, AtShape, OthersExist DEF Done
  <2>3. ASSUME NEW i \in Item, NEW b \in Request, MadeOf(b, i)' PROVE MadeOf(b, i)
    BY <1>4, <2>2, <2>3 DEF MadeOf
  <2>4. ASSUME NEW i \in Item, NEW x \in Request PROVE Keeps(x, i)
    <3>1. Keeps(r, i)
      BY <1>1, <2>1, AtShape DEF Keeps, Imports, Marks, Delivers, ListsItem
    <3> QED
      BY <2>1, <3>1, SameKeeps
  <2> QED
    BY <1>2, <2>3, <2>4, ItemsGoOn
<1>5. CASE /\ Goto(r, "saveBill") /\ bills' = [bills EXCEPT ![r] = "DRAFT"]
           /\ doc' = [doc EXCEPT ![r].by = AcceptedBy]
  <2>1. req'[r] = [req[r] EXCEPT !.at = "saveBill"] /\ \A x \in Request \ {r} : req'[x] = req[x]
    BY <1>5 DEF Goto, Inv, Typed, RequestsOK
  <2>2. /\ req'[r] \in Importing(r) <=> req[r] \in Importing(r)
        /\ req'[r] \in Creating(r) <=> req[r] \in Creating(r)
        /\ req[r] \in Importing(r) => req'[r].holds = req[r].holds /\ req'[r].obj = req[r].obj
        /\ req'[r].at = "saveBill"
    <3>1. CASE req[r] \in Importing(r)
      <4>1. req'[r] \in Importing(r) /\ req'[r].at = "saveBill"
            /\ req'[r].holds = req[r].holds /\ req'[r].obj = req[r].obj
        BY <2>1, <3>1 DEF Importing
      <4> QED
        BY <3>1, <4>1, AtShape
    <3>2. CASE req[r] \in Creating(r)
      <4>1. req'[r] \in Creating(r) /\ req'[r].at = "saveBill"
        BY <2>1, <3>2 DEF Creating
      <4> QED
        BY <3>2, <4>1, AtShape
    <3> QED
      BY <1>1, <3>1, <3>2
  <2>3. \A b \in Request : doc'[b].item = doc[b].item
    <3>1. doc'[r] = [doc[r] EXCEPT !.by = AcceptedBy] /\ \A b \in Request \ {r} : doc'[b] = doc[b]
      BY <1>5 DEF Inv, Typed, TablesOK
    <3>2. doc'[r].item = doc[r].item
      BY <1>3, <3>1 DEF BillDoc
    <3> QED
      BY <3>1, <3>2
  <2>4. \A x \in Request \ {r} : \A c \in Request :
           /\ Checks(x, c)' <=> Checks(x, c)
           /\ Writes(x, c)' <=> Writes(x, c)
           /\ Lists(x, c)' <=> Lists(x, c)
    BY <2>1 DEF Checks, Writes, Lists
  <2>5. \A c \in Request : ~Checks(r, c)' /\ ~Writes(r, c)' /\ ~Lists(r, c)'
    BY <2>2, AtShape DEF Checks, Writes, Lists
  <2>6. ASSUME NEW b \in Request, b # r, Exists(b)' PROVE Exists(b)
    <3>1. HasStatus(b)' => HasStatus(b)
      BY <1>2, <1>5, <2>6 DEF HasStatus
    <3>2. req'[b] = req[b]
      BY <2>1, <2>6
    <3> QED
      BY <2>4, <2>5, <2>6, <3>1, <3>2 DEF Exists
  <2>7. ASSUME NEW i \in Item, NEW x \in Request PROVE Keeps(x, i)
    <3>1. Keeps(r, i)
      BY <1>1, <2>2, AtShape DEF Keeps, Imports, Marks, Delivers, ListsItem
    <3> QED
      BY <2>1, <3>1, SameKeeps
  <2>8. ASSUME NEW i \in Item \ raced PROVE LifeOfItem(i)'
    <3>1. LifeOfItem(i)
      BY DEF ItemsLife
    <3>2. CASE ~Imports(r, i)
      <4>1. ~MadeOf(r, i)'
        <5>1. doc[r].item # i
          BY <1>1, <3>2, SomeRecords DEF Imports, Inv, Linked, OwnDoc
        <5> QED
          BY <2>3, <5>1 DEF MadeOf
      <4>2. \A b \in Request : MadeOf(b, i)' => MadeOf(b, i)
        BY <2>3, <2>6, <4>1 DEF MadeOf
      <4> QED
        BY <1>2, <2>7, <3>1, <4>2, ItemGoesOn
    <3>3. CASE Imports(r, i)
      <4>1. ASSUME NEW b \in Request, MadeOf(b, i)' PROVE b = r
        <5>1. b # r => MadeOf(b, i)
          BY <2>3, <2>6, <4>1 DEF MadeOf
        <5> QED
          BY <3>1, <3>3, <5>1, NoneMade
      <4>2. Imports(r, i)' /\ req'[r].at = "saveBill"
        BY <2>2, <3>3 DEF Imports
      <4>3. OneMade(i)'
        BY <4>1 DEF OneMade
      <4>4. ItemOK(i)'
        BY <1>2, <2>7, <3>1, <4>1, <4>2 DEF LifeOfItem, ItemOK, Keeps
      <4>5. ASSUME NEW x \in Request PROVE HandOK(x, i)'
        <5>1. HandOK(x, i) /\ Keeps(x, i)
          BY <2>7, <3>1 DEF LifeOfItem
        <5> QED
          BY <1>2, <5>1 DEF HandOK, Keeps
      <4> QED
        BY <4>3, <4>4, <4>5 DEF LifeOfItem
    <3> QED
      BY <3>2, <3>3
  <2> QED
    BY <1>2, <2>8 DEF ItemsLife
<1> QED
  BY <1>4, <1>5 DEF Validate

LEMMA SaveBillItems ==
  ASSUME Inv, Apart, ItemsLife, NEW r \in Request, SaveBill(r)
  PROVE  ItemsLife'
<1>1. req[r].at = "saveBill" /\ req[r] \in Importing(r) \cup Creating(r)
  BY ShapeAt DEF SaveBill, Inv, Typed, RequestsOK
<1>2. /\ billRow' = [billRow EXCEPT ![r] = "DRAFT"]
      /\ UNCHANGED <<itemRow, bills, doc, published, raced>>
  BY DEF SaveBill, history
<1>3. Exists(r)
  BY <1>1 DEF Exists
<1>4. \A b \in Request : HasStatus(b)' => Exists(b)
  <2>1. \A b \in Request \ {r} : billRow'[b] = billRow[b]
    BY <1>2
  <2> QED
    BY <1>2, <1>3, <2>1 DEF HasStatus, Exists
<1>5. CASE req[r] \in Creating(r)
  <2>1. items' = items /\ (Goto(r, "receive") \/ Finish(r))
    BY <1>5, AtShape DEF SaveBill
  <2>2. req'[r].at \in {"receive", "done"} /\ \A x \in Request \ {r} : req'[x] = req[x]
    <3>1. CASE Finish(r)
      BY <3>1, FinishMoves DEF Done
    <3>2. CASE Goto(r, "receive")
      <4>1. req'[r] = [req[r] EXCEPT !.at = "receive"]
        BY <3>2 DEF Goto, Inv, Typed, RequestsOK
      <4>2. req'[r].at = "receive"
        BY <1>5, <4>1 DEF Creating
      <4>3. \A x \in Request \ {r} : req'[x] = req[x]
        BY <3>2 DEF Goto, Inv, Typed, RequestsOK
      <4> QED
        BY <4>2, <4>3
    <3> QED
      BY <2>1, <3>1, <3>2
  <2>3. ASSUME NEW b \in Request, Exists(b)' PROVE Exists(b)
    BY <1>4, <2>2, <2>3, AtShape, OthersExist
  <2>4. ASSUME NEW i \in Item, NEW b \in Request, MadeOf(b, i)' PROVE MadeOf(b, i)
    BY <1>2, <2>3, <2>4 DEF MadeOf
  <2>5. ASSUME NEW i \in Item, NEW x \in Request PROVE Keeps(x, i)
    <3>1. ~Involves(req[r], r)
      BY <1>5, AtShape, OpInvolves
    <3>2. ~Involves(req'[r], r)
      BY <2>2, AtInvolves
    <3> QED
      BY <2>2, <3>1, <3>2, SameKeeps, ElsewhereKeeps
  <2> QED
    BY <1>2, <2>1, <2>4, <2>5, ItemsGoOn
<1>6. CASE req[r] \in Importing(r)
  <2>1. PICK j \in Item : j = req[r].holds
    BY <1>6 DEF Importing
  <2> DEFINE q == [op |-> "import", at |-> "updateItem", item |-> j, touches |-> req[r].touches]
  <2>2. /\ items' = IF req[r].obj = Cached
                    THEN [items EXCEPT ![j].status = "IMPORTED", ![j].bill = r] ELSE items
        /\ Moves(r, q)
    BY <1>6, <2>1, AtShape DEF SaveBill, Moves
  <2>3. q \in Updating(r) /\ q.item = j /\ q.at = "updateItem"
    BY <1>6, <2>1 DEF Importing, Updating
  <2> HIDE DEF q
  <2>4. req'[r] = q /\ \A x \in Request \ {r} : req'[x] = req[x]
    BY <2>2 DEF Moves, Inv, Typed, RequestsOK
  <2>5. ASSUME NEW b \in Request, Exists(b)' PROVE Exists(b)
    BY <1>4, <2>3, <2>4, <2>5, AtShape, OthersExist
  <2>6. ASSUME NEW i \in Item, NEW b \in Request, MadeOf(b, i)' PROVE MadeOf(b, i)
    BY <1>2, <2>5, <2>6 DEF MadeOf
  <2>7. doc[r].item = j /\ Imports(r, j)
    BY <1>6, <2>1 DEF Inv, Linked, OwnDoc, Imports
  <2>8. ASSUME NEW i \in Item \ raced PROVE LifeOfItem(i)'
    <3>1. LifeOfItem(i)
      BY DEF ItemsLife
    <3>2. CASE i # j
      <4>1. items'[i] = items[i]
        BY <2>2, <3>2 DEF Inv, Typed, TablesOK
      <4>2. Keeps(r, i)
        BY <1>6, <2>1, <2>3, <2>4, <3>2, AtShape DEF Keeps, Imports, Marks, Delivers, ListsItem
      <4>3. \A x \in Request : Keeps(x, i)
        BY <2>4, <4>2, SameKeeps
      <4> QED
        BY <1>2, <2>6, <3>1, <4>1, <4>3, ItemGoesOn
    <3>3. CASE i = j
      <4>1. req[r].obj = Cached
        BY <2>7, <3>1, <3>3 DEF LifeOfItem, HandOK
      <4>2. items[j] \in Object
        BY <1>6, <2>1, <4>1 DEF Inv, Linked, Holding, Typed, TablesOK
      <4>3. items'[j] = [items[j] EXCEPT !.status = "IMPORTED", !.bill = r]
        BY <2>2, <4>1 DEF Inv, Typed, TablesOK
      <4>4. IsImported(items'[j])
        BY <4>2, <4>3 DEF Object, IsImported, None
      <4>5. Marks(r, i)'
        BY <2>3, <2>4, <3>3 DEF Marks
      <4>6. \A x \in Request \ {r} : ~WorksOn(x, i)
        BY <2>7, <3>3, AloneOnItem DEF WorksOn
      <4>7. \A x \in Request : ~Imports(x, i)' /\ ~Delivers(x, i)' /\ ~ListsItem(x, i)'
        BY <2>3, <2>4, <4>6, AtShape DEF WorksOn, Imports, Delivers, ListsItem
      <4>8. OneMade(i)'
        BY <2>6, <3>1 DEF LifeOfItem, OneMade
      <4>9. items[j] # None
        BY <4>2, SomeRecords
      <4>10. itemRow[i] # None
        <5>1. ~\E x \in Request : Delivers(x, i)
          BY <2>7, <4>6, AtShape DEF WorksOn, Imports, Delivers
        <5> QED
          BY <3>1, <3>3, <4>9, <5>1 DEF LifeOfItem, ItemOK
      <4>11. ItemOK(i)'
        BY <1>2, <3>3, <4>4, <4>5, <4>10 DEF ItemOK
      <4>12. \A x \in Request : HandOK(x, i)'
        BY <4>7 DEF HandOK
      <4> QED
        BY <4>8, <4>11, <4>12 DEF LifeOfItem
    <3> QED
      BY <3>2, <3>3
  <2> QED
    BY <1>2, <2>8 DEF ItemsLife
<1> QED
  BY <1>1, <1>5, <1>6

LEMMA UpdateItemItems ==
  ASSUME Inv, Apart, ItemsLife, NEW r \in Request, UpdateItem(r)
  PROVE  ItemsLife'
<1>1. req[r] \in Updating(r)
  BY ShapeAt DEF UpdateItem, Inv, Typed, RequestsOK
<1>2. PICK j \in Item : j = req[r].item
  BY <1>1 DEF Updating
<1>3. /\ itemRow' = [itemRow EXCEPT ![j] =
                       IF @ = None THEN None ELSE [@ EXCEPT !.status = "IMPORTED", !.bill = r]]
      /\ Finish(r) /\ UNCHANGED <<items, bills, billRow, doc, published, raced>>
  BY <1>2 DEF UpdateItem, history
<1>4. req'[r] = Done /\ \A x \in Request \ {r} : req'[x] = req[x]
  BY <1>3, FinishMoves
<1>5. Marks(r, j)
  BY <1>1, <1>2 DEF Marks
<1>6. ASSUME NEW b \in Request, Exists(b)' PROVE Exists(b)
  <2>1. HasStatus(b)' => Exists(b)
    BY <1>3 DEF HasStatus, Exists
  <2> QED
    BY <1>4, <1>6, <2>1, AtShape, OthersExist DEF Done
<1>7. ASSUME NEW i \in Item, NEW b \in Request, MadeOf(b, i)' PROVE MadeOf(b, i)
  BY <1>3, <1>6, <1>7 DEF MadeOf
<1>8. ASSUME NEW i \in Item \ raced PROVE LifeOfItem(i)'
  <2>1. LifeOfItem(i)
    BY DEF ItemsLife
  <2>2. CASE i # j
    <3>1. itemRow'[i] = itemRow[i]
      BY <1>3, <2>2
    <3>2. Keeps(r, i)
      BY <1>1, <1>2, <1>4, <2>2, AtShape DEF Keeps, Imports, Marks, Delivers, ListsItem
    <3>3. \A x \in Request : Keeps(x, i)
      BY <1>4, <3>2, SameKeeps
    <3> QED
      BY <1>3, <1>7, <2>1, <3>1, <3>3, ItemGoesOn
  <2>3. CASE i = j
    <3>1. \A x \in Request \ {r} : ~WorksOn(x, i)
      BY <1>5, <2>3, AloneOnItem DEF WorksOn
    <3>2. \A x \in Request : ~Imports(x, i) /\ ~Delivers(x, i) /\ ~ListsItem(x, i)
      BY <1>1, <3>1, AtShape DEF WorksOn, Imports, Delivers, ListsItem
    <3>3. \A x \in Request : ~Imports(x, i)' /\ ~Delivers(x, i)' /\ ~ListsItem(x, i)'
      BY <1>4, <3>2, AtShape DEF Imports, Delivers, ListsItem
    <3>4. itemRow[i] # None => IsImported(itemRow'[i])
      <4>1. itemRow[i] \in Object \cup {None}
        BY DEF Inv, Typed, TablesOK
      <4>2. itemRow[i] # None => itemRow'[i] = [itemRow[i] EXCEPT !.status = "IMPORTED", !.bill = r]
        BY <1>3, <2>3 DEF Inv, Typed, TablesOK
      <4> QED
        BY <4>1, <4>2 DEF Object, IsImported, None
    <3>5. items[i] # None => IsImported(itemRow'[i])
      BY <2>1, <3>2, <3>4 DEF LifeOfItem, ItemOK
    <3>6. \A b \in Request : MadeOf(b, i) => IsImported(items[i])
      BY <2>1, <3>2 DEF LifeOfItem, ItemOK
    <3>7. OneMade(i)'
      BY <1>7, <2>1 DEF LifeOfItem, OneMade
    <3>8. ItemOK(i)'
      BY <1>3, <1>7, <3>5, <3>6 DEF ItemOK, IsImported
    <3>9. \A x \in Request : HandOK(x, i)'
      BY <3>3 DEF HandOK
    <3> QED
      BY <3>7, <3>8, <3>9 DEF LifeOfItem
  <2> QED
    BY <2>2, <2>3
<1> QED
  BY <1>3, <1>8 DEF ItemsLife

\* A row that the list finds PENDING is one whose item no import has marked.
LEMMA ListForTenantItems ==
  ASSUME Inv, Apart', ItemsLife, raced \subseteq raced', NEW r \in Request, ListForTenant(r)
  PROVE  ItemsLife'
<1> DEFINE pending == {i \in Item : itemRow[i] # None /\ itemRow[i].status = "PENDING"}
           list == [i \in pending |-> itemRow[i]]
           q == [op |-> "listInbox", at |-> "fillInbox", list |-> list, touches |-> pending]
<1>1. req[r] = New /\ Moves(r, q)
  BY DEF ListForTenant, Begin, Moves
<1>2. UNCHANGED <<items, itemRow, bills, billRow, doc, published>>
  BY DEF ListForTenant, tables
<1>3. q \in ListingInbox /\ DOMAIN q.list = pending /\ q.at = "fillInbox" /\ q.op = "listInbox"
      /\ q.touches = pending
  <2>1. list \in [pending -> Pending] /\ pending \in SUBSET Item
    BY DEF Inv, Typed, TablesOK, Pending
  <2> HIDE DEF list, pending
  <2> QED
    BY <2>1 DEF ListingInbox, Touched
<1>4. \A i \in pending : itemRow[i] # None /\ ~IsImported(itemRow[i])
  BY DEF IsImported
<1> HIDE DEF q, pending
<1>5. req'[r] = q /\ \A x \in Request \ {r} : req'[x] = req[x]
  BY <1>1 DEF Moves, Inv, Typed, RequestsOK
<1>6. ASSUME NEW b \in Request, Exists(b)' PROVE Exists(b)
  <2>1. HasStatus(b)' => Exists(b)
    BY <1>2 DEF HasStatus, Exists
  <2> QED
    BY <1>3, <1>5, <1>6, <2>1, AtShape, OthersExist
<1>7. ASSUME NEW i \in Item, NEW b \in Request, MadeOf(b, i)' PROVE MadeOf(b, i)
  BY <1>2, <1>6, <1>7 DEF MadeOf
<1>8. ASSUME NEW i \in Item, i \notin pending, NEW x \in Request PROVE Keeps(x, i)
  <2>1. Keeps(r, i)
    BY <1>1, <1>3, <1>5, <1>8, AtShape DEF Keeps, Imports, Marks, Delivers, ListsItem
  <2> QED
    BY <1>5, <2>1, SameKeeps
<1>9. ASSUME NEW i \in Item \ raced' PROVE LifeOfItem(i)'
  <2>1. LifeOfItem(i)
    BY DEF ItemsLife
  <2>2. CASE i \notin pending
    BY <1>2, <1>7, <1>8, <2>1, <2>2, ItemGoesOn
  <2>3. CASE i \in pending
    <3>1. Running(r)' /\ i \in req'[r].touches /\ req'[r].op = "listInbox"
      BY <1>3, <1>5, <2>3 DEF Running
    <3>2. ASSUME NEW x \in Request \ {r} PROVE ~WorksOn(x, i)
      <4>1. ASSUME WorksOn(x, i) PROVE FALSE
        <5>1. Running(x)' /\ i \in req'[x].touches
          BY <1>5, <4>1, WorkTouches DEF Running
        <5> QED
          BY <3>1, <5>1 DEF Apart, MayOverlap
      <4> QED
        BY <4>1
    <3>3. ~WorksOn(r, i)
      BY <1>1, WorkTouches DEF Running, New
    <3>4. ~IsImported(items[i])
      BY <1>4, <2>1, <2>3, <3>2, <3>3 DEF LifeOfItem, ItemOK, WorksOn
    <3>5. \A b \in Request : ~MadeOf(b, i)
      BY <2>1, <3>2, <3>3, <3>4 DEF LifeOfItem, ItemOK, WorksOn
    <3>6. \A x \in Request : ~Imports(x, i)'
      BY <1>3, <1>5, <3>2, AtShape DEF WorksOn, Imports
    <3>7. OneMade(i)' /\ ItemOK(i)'
      BY <1>2, <1>4, <1>7, <2>3, <3>4, <3>5 DEF OneMade, ItemOK
    <3>8. \A x \in Request : HandOK(x, i)'
      BY <1>2, <1>4, <2>3, <3>4, <3>6 DEF HandOK
    <3> QED
      BY <3>7, <3>8 DEF LifeOfItem
  <2> QED
    BY <2>2, <2>3
<1> QED
  BY <1>9 DEF ItemsLife

LEMMA FillInboxItems ==
  ASSUME Inv, Apart, ItemsLife, NEW r \in Request, FillInbox(r)
  PROVE  ItemsLife'
<1> DEFINE list == req[r].list
<1>1. req[r] \in ListingInbox
  BY ShapeAt DEF FillInbox, Inv, Typed, RequestsOK
<1>2. PICK S \in SUBSET Item : list \in [S -> Pending]
  BY <1>1 DEF ListingInbox
<1>3. /\ items' = [i \in Item |-> IF i \in S THEN list[i] ELSE items[i]]
      /\ req' = [Detach(items, S, r) EXCEPT ![r] = Done]
      /\ UNCHANGED <<itemRow, bills, billRow, doc, published, raced>>
  BY <1>2 DEF FillInbox, tables, history
<1>4. \A i \in S : ListsItem(r, i)
  BY <1>1, <1>2 DEF ListsItem
<1>5. \A i \in S : list[i] # None /\ ~IsImported(list[i])
  BY <1>2, SomeRecords DEF Pending, IsImported
<1> HIDE DEF list
<1>6. req'[r] = Done
  BY <1>3 DEF Detach
<1>7. ASSUME NEW x \in Request \ {r}
      PROVE  \/ req'[x] = req[x]
             \/ /\ req[x] \in Importing(x) /\ req'[x] \in Importing(x) /\ req[x].holds \in S
                /\ req'[x].at = req[x].at /\ req'[x].holds = req[x].holds
  <2> DEFINE other == [by |-> r, at |-> req[r].at, val |-> items[req[x].holds]]
  <2>1. \/ req'[x] = req[x]
        \/ /\ \E i \in S : Holds(req, x, i)
           /\ req[x].obj = Cached /\ req'[x] = [req[x] EXCEPT !.obj = other]
    BY <1>3 DEF Detach
  <2>2. ASSUME NEW i \in S, Holds(req, x, i), req[x].obj = Cached,
               req'[x] = [req[x] EXCEPT !.obj = other]
        PROVE  /\ req[x] \in Importing(x) /\ req'[x] \in Importing(x) /\ req[x].holds \in S
               /\ req'[x].at = req[x].at /\ req'[x].holds = req[x].holds
    <3>1. req[x] \in Importing(x) /\ req[x].holds = i
      BY <2>2, HoldsItem DEF Holds
    <3>2. other \in [by : Request, at : Replacing, val : Object]
      BY <1>1, <2>2, <3>1 DEF Inv, Linked, Holding, Typed, TablesOK, ListingInbox, Replacing
    <3> HIDE DEF other
    <3> QED
      BY <2>2, <3>1, <3>2 DEF Importing
  <2> QED
    BY <2>1, <2>2
<1>8. ASSUME NEW b \in Request, Exists(b)' PROVE Exists(b)
  <2>1. CASE HasStatus(b)'
    BY <1>3, <2>1 DEF HasStatus, Exists
  <2>2. CASE req'[b].at = "saveBill"
    <3>1. req[b].at = "saveBill"
      BY <1>6, <1>7, <2>2, AtShape
    <3> QED
      BY <3>1 DEF Exists
  <2>3. ASSUME NEW x \in Request, Checks(x, b)' \/ Writes(x, b)' \/ Lists(x, b)' PROVE Exists(b)
    <3>1. req'[x] = req[x]
      BY <1>6, <1>7, <2>3, AtShape DEF Checks, Writes, Lists
    <3> QED
      BY <2>3, <3>1 DEF Exists, Checks, Writes, Lists
  <2> QED
    BY <1>8, <2>1, <2>2, <2>3 DEF Exists
<1>9. ASSUME NEW i \in Item, NEW b \in Request, MadeOf(b, i)' PROVE MadeOf(b, i)
  BY <1>3, <1>8, <1>9 DEF MadeOf
<1>10. ASSUME NEW i \in Item \ S, NEW x \in Request PROVE Keeps(x, i)
  <2>1. CASE x = r
    <3>1. ~ListsItem(r, i)
      BY <1>1, <1>2 DEF ListsItem, list
    <3> QED
      BY <1>1, <1>6, <2>1, <3>1, AtShape DEF Keeps, Imports, Marks, Delivers, ListsItem
  <2>2. CASE req'[x] = req[x]
    BY <2>2, SameKeeps
  <2>3. CASE /\ req[x] \in Importing(x) /\ req'[x] \in Importing(x) /\ req[x].holds \in S
             /\ req'[x].at = req[x].at /\ req'[x].holds = req[x].holds
    BY <2>3, AtShape DEF Keeps, Imports, Marks, Delivers, ListsItem
  <2> QED
    BY <1>7, <2>1, <2>2, <2>3
<1>11. ASSUME NEW i \in Item \ raced PROVE LifeOfItem(i)'
  <2>1. LifeOfItem(i)
    BY DEF ItemsLife
  <2>2. CASE i \notin S
    <3>1. items'[i] = items[i]
      BY <1>3, <2>2
    <3> QED
      BY <1>3, <1>9, <1>10, <2>1, <2>2, <3>1, ItemGoesOn
  <2>3. CASE i \in S
    <3>1. ListsItem(r, i)
      BY <1>4, <2>3
    <3>2. \A x \in Request \ {r} : ~WorksOn(x, i)
      BY <3>1, AloneOnItem DEF WorksOn
    <3>3. \A b \in Request : ~MadeOf(b, i)
      BY <2>1, <3>1, NothingMade
    <3>4. items'[i] # None /\ ~IsImported(items'[i])
      BY <1>3, <1>5, <2>3
    <3>5. itemRow[i] # None
      BY <2>1, <3>1 DEF LifeOfItem, HandOK
    <3>6. \A x \in Request : ~Imports(x, i)' /\ ~ListsItem(x, i)'
      <4>1. ASSUME NEW x \in Request \ {r} PROVE ~Imports(x, i)' /\ ~ListsItem(x, i)'
        <5>1. CASE req'[x] = req[x]
          BY <3>2, <5>1 DEF WorksOn, Imports, ListsItem
        <5>2. CASE req[x] \in Importing(x) /\ req'[x] \in Importing(x) /\ req'[x].holds = req[x].holds
          BY <3>2, <5>2, AtShape DEF WorksOn, Imports, ListsItem
        <5> QED
          BY <1>7, <5>1, <5>2
      <4>2. ~Imports(r, i)' /\ ~ListsItem(r, i)'
        BY <1>6, AtShape DEF Imports, ListsItem
      <4> QED
        BY <4>1, <4>2
    <3>7. OneMade(i)' /\ ItemOK(i)'
      BY <1>3, <1>9, <3>3, <3>4, <3>5 DEF OneMade, ItemOK
    <3>8. \A x \in Request : HandOK(x, i)'
      BY <1>3, <3>4, <3>5, <3>6 DEF HandOK
    <3> QED
      BY <3>7, <3>8 DEF LifeOfItem
  <2> QED
    BY <2>2, <2>3
<1> QED
  BY <1>3, <1>11 DEF ItemsLife

LEMMA StepsItems ==
  ASSUME Inv, Apart, Apart', ItemLife, raced \subseteq raced', RequestsOK', [Next]_vars
  PROVE  ItemLife'
<1>1. ASSUME NEW r \in Request, Fail(r) PROVE ItemLife'
  BY <1>1 DEF Fail, ItemLife
<1>2. CASE Restart
  BY <1>2 DEF Restart, ItemLife
<1>3. ASSUME UNCHANGED <<crashes, failures>>, ItemsLife => ItemsLife' PROVE ItemLife'
  BY <1>3 DEF ItemLife
<1>4. ASSUME NEW r \in Request, Step(r), ~Fail(r) PROVE UNCHANGED <<crashes, failures>>
  <2>1. CASE \E i \in Item : ImportToBill(r, i) \/ \E d \in Documents : CreateInboxItem(r, i, d)
    BY <2>1 DEF ImportToBill, CreateInboxItem
  <2>2. CASE \/ \E d \in Documents : CreateBill(r, d)
             \/ \E b \in Request : PostBill(r, b) \/ FindBill(r, b)
    BY <2>2 DEF CreateBill, PostBill, FindBill
  <2>3. CASE ListBills(r) \/ ListForTenant(r)
    BY <2>3 DEF ListBills, ListForTenant
  <2>4. CASE SaveItem(r) \/ Validate(r) \/ SaveBill(r) \/ Receive(r) \/ UpdateItem(r)
    BY <2>4 DEF SaveItem, Validate, SaveBill, Receive, UpdateItem
  <2>5. CASE Check(r) \/ WriteBill(r) \/ Publish(r) \/ FillBills(r) \/ FillInbox(r)
    BY <2>5 DEF Check, WriteBill, Publish, FillBills, FillInbox
  <2>6. CASE ReadBill(r) \/ BillFound(r)
    BY <2>6 DEF ReadBill, BillFound
  <2> QED
    BY <1>4, <2>1, <2>2, <2>3, <2>4, <2>5, <2>6 DEF Step
<1>5. ASSUME NEW r \in Request, Step(r), ~Fail(r), ItemsLife PROVE ItemsLife'
  <2>1. ASSUME NEW i \in Item, ImportToBill(r, i) PROVE ItemsLife'
    BY <1>5, <2>1, ImportToBillItems
  <2>2. ASSUME NEW i \in Item, NEW d \in Documents, CreateInboxItem(r, i, d) PROVE ItemsLife'
    BY <1>5, <2>2, CreateInboxItemItems
  <2>3. ASSUME NEW d \in Documents, CreateBill(r, d) PROVE ItemsLife'
    BY <1>5, <2>3, CreateBillItems
  <2>4. ASSUME NEW b \in Request, PostBill(r, b) \/ FindBill(r, b) PROVE ItemsLife'
    BY <1>5, <2>4, PostBillItems
  <2>5. CASE ListBills(r) \/ ListForTenant(r) \/ FillBills(r) \/ FillInbox(r)
    BY <1>5, <2>5, ListBillsItems, ListForTenantItems, FillBillsItems, FillInboxItems
  <2>6. CASE SaveItem(r) \/ Validate(r) \/ SaveBill(r) \/ UpdateItem(r)
    BY <1>5, <2>6, SaveItemItems, ValidateItems, SaveBillItems, UpdateItemItems
  <2>7. CASE Receive(r) \/ Check(r) \/ WriteBill(r) \/ Publish(r)
    BY <1>5, <2>7, ReceiveItems, CheckItems, WriteBillItems, PublishItems
  <2>8. CASE ReadBill(r) \/ BillFound(r)
    BY <1>5, <2>8, ReadBillItems, BillFoundItems
  <2> QED
    BY <1>5, <2>1, <2>2, <2>3, <2>4, <2>5, <2>6, <2>7, <2>8 DEF Step
<1>6. ASSUME UNCHANGED <<items, itemRow, bills, billRow, doc, req, published, crashes, failures, raced>>
      PROVE  ItemLife'
  <2>1. \A i \in Item, b \in Request : MadeOf(b, i)' => MadeOf(b, i)
    BY <1>6 DEF MadeOf, Exists, HasStatus, Checks, Writes, Lists
  <2> QED
    BY <1>3, <1>6, <2>1, SameKeeps, ItemsGoOn
<1>7. CASE RulesStep
  BY <1>6, <1>7, RulesStepFrame
<1>8. CASE UNCHANGED vars
  BY <1>6, <1>8 DEF vars
<1> QED
  BY <1>1, <1>2, <1>3, <1>4, <1>5, <1>7, <1>8 DEF Next, Environment, RulesStep

(* For any items, requests and overlaps: an item becomes at most one stored *)
(* bill (importToBill), unless a save failed, the process stopped, or two   *)
(* imports, or an import and a list of the inbox, overlapped.               *)
THEOREM OneBillOfItem == Spec => []OneBillPerItem
<1>1. Init => ItemLife
  <2> SUFFICES ASSUME Init PROVE ItemLife
    OBVIOUS
  <2>1. \A r \in Request : req[r].at = "new"
    BY DEF Init, New
  <2>2. \A r \in Request, i \in Item : ~WorksOn(r, i)
    BY <2>1, WorkTouches DEF Running
  <2>3. \A b \in Request : ~Exists(b)
    BY <2>1, AtShape DEF Init, Exists, HasStatus, Checks, Writes, Lists
  <2>4. \A i \in Item : LifeOfItem(i)
    BY <2>2, <2>3 DEF Init, LifeOfItem, OneMade, ItemOK, HandOK, MadeOf, WorksOn, IsImported
  <2> QED
    BY <2>4 DEF Init, ItemLife, ItemsLife
<1>2. Inv /\ Apart /\ ItemLife /\ [Next]_vars => ItemLife'
  BY StepsApart, StepsItems, NextInv DEF Inv, Typed
<1>3. ItemLife => OneBillPerItem
  BY DEF ItemLife, ItemsLife, LifeOfItem, OneMade, MadeOf, Exists, HasStatus, OneBillPerItem
<1> QED
  BY <1>1, <1>2, <1>3, InvAlways, LifeAlways, PTL DEF Spec
=============================================================================
