--------------------------- MODULE Monolith_proofs ---------------------------
(***************************************************************************)
(* Proofs about the monolith's journal, for any bills, requests and bus.   *)
(* Every storno reverses one original of its bill: a reversal marks an     *)
(* original that is open with the place of the storno it appends, and no   *)
(* mark can name that place before, since marks name places that exist.    *)
(* The snapshot of the AI and the events that wait for it sum up the       *)
(* journal: Sound says so, and that no two events on the bus are the same. *)
(* The journal agrees with the bills: Life follows a bill from the object  *)
(* in the map to the row, to what the bus was told and into the journal.   *)
(***************************************************************************)
EXTENDS Monolith, SequenceTheorems, FiniteSetTheorems, WellFoundedInduction, TLAPS

Line(bills) == [bill : bills, kind : {"ORIGINAL", "STORNO"}, reversedBy : Nat]
JournalOK == \E bills : entries \in Seq(Line(bills))
JournalInv == JournalOK /\ StornoOfOne

LEMMA FirstExists ==
  ASSUME NEW S \in SUBSET Nat, S # {}
  PROVE  \E f \in S : \A j \in S : f <= j
<1> DEFINE R == OpToRel(<, Nat)
<1>1. IsWellFoundedOn(R, Nat)
  BY NatLessThanWellFounded
<1>2. \A i, j \in Nat : i < j => <<i, j>> \in R
  BY DEF OpToRel
<1> HIDE DEF R
<1>3. PICK f \in S : \A j \in S : ~ (<<j, f>> \in R)
  BY <1>1, WFMin
<1>4. \A j \in S : ~ (j < f)
  BY <1>2, <1>3
<1> QED
  BY <1>4

LEMMA JournalStays == JournalInv /\ entries' = entries => JournalInv'
  BY DEF JournalInv, JournalOK, StornoOfOne

LEMMA RecordedIsSound ==
  ASSUME JournalInv, NEW b, entries' = Recorded(b)
  PROVE  JournalInv'
<1> DEFINE n == Len(entries)
           new == [bill |-> b, kind |-> "ORIGINAL", reversedBy |-> 0]
<1>1. PICK bills : entries \in Seq(Line(bills))
  BY DEF JournalInv, JournalOK
<1>2. n \in Nat /\ DOMAIN entries = 1 .. n
  BY <1>1
<1>3. entries \in Seq(Line(bills \cup {b})) /\ new \in Line(bills \cup {b})
  <2>1. Line(bills) \subseteq Line(bills \cup {b})
    BY DEF Line
  <2>2. entries \in Seq(Line(bills \cup {b}))
    BY <1>1, <2>1, SeqMonotonic
  <2> QED
    BY <2>2 DEF Line
<1>4. entries' \in Seq(Line(bills \cup {b})) /\ Len(entries') = n + 1
  BY <1>3 DEF Recorded
<1>5. DOMAIN entries' = 1 .. n + 1
  BY <1>4
<1>6. entries'[n + 1] = new /\ \A k \in 1 .. n : entries'[k] = entries[k]
  BY <1>1 DEF Recorded
<1>7. \A k \in 1 .. n : entries[k].reversedBy # 0 => entries[k].reversedBy \in 1 .. n
  BY <1>2 DEF JournalInv, StornoOfOne
<1>8. ASSUME NEW k \in 1 .. n + 1, entries'[k].reversedBy # 0
      PROVE  /\ k \in 1 .. n /\ entries'[k].kind = "ORIGINAL"
             /\ entries'[k].reversedBy \in 1 .. n
             /\ entries'[entries'[k].reversedBy].kind = "STORNO"
             /\ entries'[entries'[k].reversedBy].bill = entries'[k].bill
  BY <1>2, <1>6, <1>7, <1>8 DEF JournalInv, StornoOfOne
<1>9. ASSUME NEW s \in 1 .. n + 1, entries'[s].kind = "STORNO"
      PROVE  \E k \in 1 .. n + 1 :
                /\ entries'[k].reversedBy = s
                /\ \A j \in 1 .. n + 1 : entries'[j].reversedBy = s => j = k
  <2>1. s \in 1 .. n /\ entries[s].kind = "STORNO"
    <3>1. s # n + 1
      BY <1>6, <1>9
    <3> QED
      BY <1>2, <1>6, <1>9, <3>1
  <2>2. PICK k \in DOMAIN entries :
               /\ entries[k].reversedBy = s
               /\ \A j \in DOMAIN entries : entries[j].reversedBy = s => j = k
    <3>1. s \in DOMAIN entries
      BY <1>2, <2>1
    <3> QED
      BY <2>1, <3>1 DEF JournalInv, StornoOfOne
  <2>3. k \in 1 .. n /\ entries'[k].reversedBy = s
    BY <1>2, <1>6, <2>2
  <2>4. ASSUME NEW j \in 1 .. n + 1, entries'[j].reversedBy = s PROVE j = k
    <3>1. j # n + 1
      BY <1>6, <2>1, <2>4
    <3>2. j \in DOMAIN entries /\ entries'[j] = entries[j]
      BY <1>2, <1>6, <3>1
    <3> QED
      BY <2>2, <2>4, <3>2
  <2> QED
    BY <1>2, <2>3, <2>4
<1> QED
  BY <1>2, <1>4, <1>5, <1>8, <1>9 DEF JournalInv, JournalOK, StornoOfOne

\* A reversal marks an open original with the place of its storno.
LEMMA ReversedMarks ==
  ASSUME JournalInv, NEW b, entries' = Reversed(b), Open(b) # {}
  PROVE  LET n == Len(entries) IN
         \E f, bills :
            /\ f \in Open(b)
            /\ n \in Nat /\ DOMAIN entries = 1 .. n /\ f \in 1 .. n
            /\ entries[f].bill = b /\ entries[f].kind = "ORIGINAL" /\ entries[f].reversedBy = 0
            /\ entries' \in Seq(Line(bills)) /\ DOMAIN entries' = 1 .. n + 1
            /\ \A k \in 1 .. n : k # f => entries'[k] = entries[k]
            /\ entries'[f].bill = b /\ entries'[f].kind = "ORIGINAL"
            /\ entries'[f].reversedBy = n + 1
            /\ entries'[n + 1].bill = b /\ entries'[n + 1].kind = "STORNO"
            /\ entries'[n + 1].reversedBy = 0
<1> DEFINE n == Len(entries)
<1>1. PICK bills : entries \in Seq(Line(bills))
  BY DEF JournalInv, JournalOK
<1>2. n \in Nat /\ DOMAIN entries = 1 .. n
  BY <1>1
<1> DEFINE f == CHOOSE k \in Open(b) : \A j \in Open(b) : k <= j
           marked == [entries EXCEPT ![f].reversedBy = n + 1]
           storno == [bill |-> b, kind |-> "STORNO", reversedBy |-> 0]
<1>3. f \in Open(b)
  <2>1. Open(b) \in SUBSET Nat
    BY <1>2 DEF Open, Originals
  <2>2. \E k \in Open(b) : \A j \in Open(b) : k <= j
    BY <2>1, FirstExists
  <2> QED
    BY <2>2
<1>4. entries' = Append(marked, storno)
  BY DEF Reversed
<1> HIDE DEF f
<1>5. /\ f \in 1 .. n /\ entries[f].bill = b /\ entries[f].kind = "ORIGINAL"
      /\ entries[f].reversedBy = 0 /\ entries[f] \in Line(bills)
  BY <1>1, <1>2, <1>3 DEF Open, Originals
<1>6. marked = [entries EXCEPT ![f] = [entries[f] EXCEPT !.reversedBy = n + 1]]
  BY <1>1, <1>2, <1>5
<1> DEFINE other == [entries[f] EXCEPT !.reversedBy = n + 1]
<1>7. /\ other \in Line(bills) /\ other.bill = b /\ other.kind = "ORIGINAL"
      /\ other.reversedBy = n + 1
  BY <1>2, <1>5 DEF Line
<1> HIDE DEF other
<1>8. /\ marked \in Seq(Line(bills)) /\ Len(marked) = n
      /\ marked[f] = other /\ \A k \in 1 .. n : k # f => marked[k] = entries[k]
  BY <1>1, <1>2, <1>5, <1>6, <1>7 DEF other
<1> HIDE DEF marked
<1>9. storno \in Line(bills)
  <2>1. b \in bills
    BY <1>5 DEF Line
  <2> QED
    BY <2>1 DEF Line
<1>10. /\ entries' \in Seq(Line(bills)) /\ DOMAIN entries' = 1 .. n + 1
      /\ entries'[n + 1] = storno /\ entries'[f] = other
      /\ \A k \in 1 .. n : k # f => entries'[k] = entries[k]
  BY <1>2, <1>4, <1>5, <1>8, <1>9
<1>11. storno.bill = b /\ storno.kind = "STORNO" /\ storno.reversedBy = 0
  OBVIOUS
<1> HIDE DEF storno
<1> QED
  BY <1>2, <1>3, <1>5, <1>7, <1>10, <1>11

LEMMA ReversedIsSound ==
  ASSUME JournalInv, NEW b, entries' = Reversed(b)
  PROVE  JournalInv'
<1>1. CASE Open(b) = {}
  BY <1>1, JournalStays DEF Reversed
<1>2. CASE Open(b) # {}
  <2> DEFINE n == Len(entries)
  <2>1. PICK f, bills :
            /\ f \in Open(b)
            /\ n \in Nat /\ DOMAIN entries = 1 .. n /\ f \in 1 .. n
            /\ entries[f].bill = b /\ entries[f].kind = "ORIGINAL" /\ entries[f].reversedBy = 0
            /\ entries' \in Seq(Line(bills)) /\ DOMAIN entries' = 1 .. n + 1
            /\ \A k \in 1 .. n : k # f => entries'[k] = entries[k]
            /\ entries'[f].bill = b /\ entries'[f].kind = "ORIGINAL"
            /\ entries'[f].reversedBy = n + 1
            /\ entries'[n + 1].bill = b /\ entries'[n + 1].kind = "STORNO"
            /\ entries'[n + 1].reversedBy = 0
    BY <1>2, ReversedMarks
  <2> HIDE DEF n
  <2>2. \A k \in 1 .. n : entries[k].reversedBy # 0 => entries[k].reversedBy \in 1 .. n
    BY <2>1 DEF JournalInv, StornoOfOne
  <2>3. ASSUME NEW k \in 1 .. n + 1, entries'[k].reversedBy # 0
        PROVE  /\ entries'[k].kind = "ORIGINAL"
               /\ entries'[k].reversedBy \in 1 .. n + 1
               /\ entries'[entries'[k].reversedBy].kind = "STORNO"
               /\ entries'[entries'[k].reversedBy].bill = entries'[k].bill
    <3>1. CASE k = f
      BY <2>1, <3>1
    <3>2. CASE k # f
      <4>1. k \in 1 .. n /\ entries'[k] = entries[k]
        BY <2>1, <2>3, <3>2
      <4> DEFINE s == entries[k].reversedBy
      <4>2. /\ s \in 1 .. n /\ entries[s].kind = "STORNO" /\ entries[s].bill = entries[k].bill
            /\ entries[k].kind = "ORIGINAL"
        BY <2>1, <2>2, <2>3, <4>1 DEF JournalInv, StornoOfOne
      <4>3. s # f
        BY <2>1, <4>2
      <4>4. entries'[s] = entries[s] /\ s \in 1 .. n + 1
        BY <2>1, <4>2, <4>3
      <4> QED
        BY <4>1, <4>2, <4>4
    <3> QED
      BY <3>1, <3>2
  <2>4. ASSUME NEW s \in 1 .. n + 1, entries'[s].kind = "STORNO"
        PROVE  \E k \in 1 .. n + 1 :
                  /\ entries'[k].reversedBy = s
                  /\ \A j \in 1 .. n + 1 : entries'[j].reversedBy = s => j = k
    <3>1. CASE s = n + 1
      <4>1. ASSUME NEW j \in 1 .. n + 1, entries'[j].reversedBy = n + 1
            PROVE  j = f
        <5>1. j # n + 1
          BY <2>1, <4>1
        <5>2. CASE j # f
          <6>1. j \in 1 .. n /\ entries[j].reversedBy = n + 1 /\ n \in Nat
            BY <2>1, <4>1, <5>1, <5>2
          <6> QED
            BY <2>2, <6>1
        <5> QED
          BY <5>2
      <4> QED
        BY <2>1, <3>1, <4>1
    <3>2. CASE s # n + 1
      <4>1. s \in 1 .. n /\ entries[s].kind = "STORNO"
        BY <2>1, <2>4, <3>2
      <4>2. PICK k \in DOMAIN entries :
                   /\ entries[k].reversedBy = s
                   /\ \A j \in DOMAIN entries : entries[j].reversedBy = s => j = k
        <5>1. s \in DOMAIN entries
          BY <2>1, <4>1
        <5> QED
          BY <4>1, <5>1 DEF JournalInv, StornoOfOne
      <4>3. k # f /\ entries'[k].reversedBy = s /\ k \in 1 .. n + 1
        BY <2>1, <4>1, <4>2
      <4>4. \A j \in 1 .. n + 1 : entries'[j].reversedBy = s => j = k
        BY <2>1, <3>2, <4>1, <4>2
      <4> QED
        BY <4>3, <4>4
    <3> QED
      BY <3>1, <3>2
  <2>5. StornoOfOne'
    BY <2>1, <2>3, <2>4 DEF StornoOfOne
  <2>6. JournalOK'
    BY <2>1 DEF JournalOK
  <2> QED
    BY <2>5, <2>6 DEF JournalInv
<1> QED
  BY <1>1, <1>2

LEMMA DispatchIsSound ==
  ASSUME JournalInv, NEW type, NEW b, NEW delta, NEW inFlight,
         DispatchLocally(type, b, delta, inFlight)
  PROVE  JournalInv'
<1>1. entries' = entries \/ entries' = Recorded(b) \/ entries' = Reversed(b)
  BY DEF DispatchLocally
<1> QED
  BY <1>1, JournalStays, RecordedIsSound, ReversedIsSound

(* Wherever events are handled twice or out of order, and over restarts:    *)
(* every storno reverses one original of its bill, and no original is       *)
(* reversed by two.                                                         *)
THEOREM StornosAreOfOne == Spec => []StornoOfOne
<1>1. Init => JournalInv
  <2>1. Init => entries \in Seq(Line({})) /\ DOMAIN entries = {}
    BY DEF Init
  <2> QED
    BY <2>1 DEF JournalInv, JournalOK, StornoOfOne
<1>2. JournalInv /\ [Next]_vars => JournalInv'
  <2> SUFFICES ASSUME JournalInv, [Next]_vars PROVE JournalInv'
    OBVIOUS
  <2>1. CASE Rules
    BY <2>1, JournalStays DEF Rules, RegisterSubscriber, RefreshCache, journal
  <2>2. CASE Requests
    <3>1. PICK r \in Request :
            \/ \E b \in Bill : CreateBill(r, b)
            \/ \E b \in Bill, op \in {"post", "reverse", "get"} : FindById(r, op, b)
            \/ \E bills \in SUBSET Bill : ListBills(r, bills)
            \/ ReadRows(r) \/ ToDomain(r) \/ Act(r) \/ WriteRow(r) \/ SaveFails(r) \/ Publish(r)
      BY <2>2 DEF Requests
    <3>2. CASE Publish(r)
      <4>1. \/ entries' = entries
            \/ \E type \in {"billPosted", "billRevertRequested"} :
                  DispatchLocally(type, BillOf(r), 0, bus)
        BY <3>2 DEF Publish
      <4> QED
        BY <4>1, JournalStays, DispatchIsSound
    <3>3. ~Publish(r) => entries' = entries
      BY <3>1 DEF CreateBill, FindById, ListBills, Begin, ReadRows, ToDomain, Act, WriteRow,
                  SaveFails, journal
    <3> QED
      BY <3>2, <3>3, JournalStays
  <2>3. ASSUME NEW e \in bus, Answered(e) PROVE JournalInv'
    BY <2>3, DispatchIsSound DEF Answered
  <2>4. CASE Restart
    <3>1. entries' = <<>>
      BY <2>4 DEF Restart
    <3>2. entries' \in Seq(Line({})) /\ DOMAIN entries' = {}
      BY <3>1
    <3> QED
      BY <3>2 DEF JournalInv, JournalOK, StornoOfOne
  <2>5. CASE UNCHANGED vars
    BY <2>5, JournalStays DEF vars, journal
  <2> QED
    BY <2>1, <2>2, <2>3, <2>4, <2>5 DEF Next
<1>3. JournalInv => StornoOfOne
  BY DEF JournalInv
<1> QED
  BY <1>1, <1>2, <1>3, PTL DEF Spec

-----------------------------------------------------------------------------
(* What the variables hold.  Of requests: who holds an object is about one  *)
(* bill, and what a request has found is about its bills.                   *)
Statuses == {"none", "DRAFT", "POSTED", "REVERTED"}
Holding == {"act", "write", "saved"}
Commands == {"billPosted", "billRevertRequested"}
Told == "journalEntryPosted"
Founds == UNION {[s -> Statuses] : s \in SUBSET Bill}
Going == [op : {"create", "post", "reverse", "get", "list"}, at : {"read", "fill"} \cup Holding,
          bills : SUBSET Bill, obj : Statuses \cup {Cached}, found : Founds]

RequestOK(q) ==
    \/ q = New \/ q = Done
    \/ /\ q \in Going /\ q.found \in [q.bills -> Statuses]
       /\ q.op # "list" => \E b \in Bill : q.bills = {b}
       /\ q.op = "list" => q.at \in {"read", "fill"}
       /\ q.op = "create" => q.at = "write"
       /\ q.op = "get" => q.at \in {"read", "fill", "act"}

Typed ==
    /\ items \in [Bill -> Statuses] /\ row \in [Bill -> Statuses]
    /\ DOMAIN req = Request /\ \A r \in Request : RequestOK(req[r])
    /\ snapshot \in [Bill -> Int]

BusOK ==
    /\ lastEvent \in Nat /\ IsFiniteSet(bus)
    /\ \A e \in bus : /\ e.id \in Nat /\ e.id <= lastEvent /\ e.bill \in Bill
                      /\ e.type \in Commands \/ (e.type = Told /\ e.delta \in {1, -1})

LEMMA BillOfOne ==
  ASSUME NEW r \in Request, NEW b, req[r].bills = {b}
  PROVE  BillOf(r) = b
  BY DEF BillOf

LEMMA RequestUpdate ==
  ASSUME DOMAIN req = Request, NEW r \in Request, NEW q, req' = [req EXCEPT ![r] = q]
  PROVE  /\ DOMAIN req' = Request /\ req'[r] = q
         /\ \A p \in Request : p # r => req'[p] = req[p]
  OBVIOUS

\* A request that has begun has the fields of one.
LEMMA GoingRequest ==
  ASSUME Typed, NEW r \in Request, Running(r)
  PROVE  /\ req[r] \in Going /\ req[r].found \in [req[r].bills -> Statuses]
         /\ req[r].op # "list" => \E b \in Bill : req[r].bills = {b} /\ BillOf(r) = b
         /\ req[r].op = "list" => req[r].at \in {"read", "fill"}
         /\ req[r].op = "create" => req[r].at = "write"
         /\ req[r].op = "get" => req[r].at \in {"read", "fill", "act"}
<1>1. req[r] # New /\ req[r] # Done
  BY DEF Running, New, Done
<1>2. RequestOK(req[r])
  BY DEF Typed
<1> QED
  BY <1>1, <1>2, BillOfOne DEF RequestOK

LEMMA IdleRequest ==
  ASSUME Typed, NEW r \in Request, ~Running(r)
  PROVE  req[r] \in {New, Done}
  BY DEF Typed, RequestOK, Running, Going, Holding

LEMMA DoneIsOK == RequestOK(Done) /\ RequestOK(New) /\ Done.at = "done" /\ New.at = "new"
  BY DEF RequestOK, Done, New

\* Requests that begin.
LEMMA BeginIsOK ==
  ASSUME NEW op \in {"create", "post", "reverse", "get", "list"}, NEW at, NEW bills \in SUBSET Bill,
         NEW s \in Statuses,
         \/ op = "create" /\ at = "write" /\ \E b \in Bill : bills = {b}
         \/ op = "list" /\ at = "read"
         \/ op \in {"post", "reverse", "get"} /\ at \in {"read", "act"} /\ \E b \in Bill : bills = {b}
  PROVE  RequestOK([op |-> op, at |-> at, bills |-> bills, obj |-> Cached,
                    found |-> [b \in bills |-> s]])
<1>1. [b \in bills |-> s] \in [bills -> Statuses] /\ [b \in bills |-> s] \in Founds
  BY DEF Founds
<1> QED
  BY <1>1 DEF RequestOK, Going, Holding

\* A request goes on, with what it has found of its bills.
LEMMA GoesOn ==
  ASSUME NEW q, q \in Going, q.found \in [q.bills -> Statuses], NEW at \in {"fill"} \cup Holding,
         q.op # "list" => \E b \in Bill : q.bills = {b},
         q.op = "list" => at = "fill", q.op = "create" => at = "write",
         q.op = "get" => at \in {"fill", "act"},
         NEW obj \in Statuses \cup {Cached}, NEW found \in [q.bills -> Statuses]
  PROVE  RequestOK([[[q EXCEPT !.at = at] EXCEPT !.obj = obj] EXCEPT !.found = found])
<1>1. found \in Founds
  BY DEF Founds, Going
<1> QED
  BY <1>1 DEF RequestOK, Going, Holding

\* A request whose object is not in the map any more.
LEMMA ObjectOf ==
  ASSUME NEW q, RequestOK(q), q \in Going, NEW obj \in Statuses \cup {Cached}
  PROVE  RequestOK([q EXCEPT !.obj = obj])
<1>1. q # New /\ q # Done
  BY DEF New, Done, Going, Holding
<1> QED
  BY <1>1 DEF RequestOK, Going

LEMMA DetachIsOK ==
  ASSUME Typed, NEW bills, NEW r \in Request
  PROVE  /\ DOMAIN Detach(bills) = Request /\ RequestOK(Detach(bills)[r])
         /\ Detach(bills)[r] = req[r]
            \/ /\ Running(r) /\ req[r].at \in Holding /\ req[r].bills \subseteq bills
               /\ \E obj \in Statuses : Detach(bills)[r] = [req[r] EXCEPT !.obj = obj]
<1>1. CASE Running(r) /\ req[r].at \in Holding /\ req[r].obj = Cached /\ req[r].bills \subseteq bills
  <2>1. Detach(bills)[r] = [req[r] EXCEPT !.obj = items[BillOf(r)]] /\ DOMAIN Detach(bills) = Request
    BY <1>1 DEF Detach, Holding
  <2>2. RequestOK(req[r]) /\ req[r] \in Going /\ items[BillOf(r)] \in Statuses
    BY <1>1, GoingRequest DEF Typed, Holding
  <2> QED
    BY <1>1, <2>1, <2>2, ObjectOf
<1>2. CASE ~(Running(r) /\ req[r].at \in Holding /\ req[r].obj = Cached /\ req[r].bills \subseteq bills)
  <2>1. Detach(bills)[r] = req[r] /\ DOMAIN Detach(bills) = Request
    BY <1>2 DEF Detach, Holding
  <2> QED
    BY <2>1 DEF Typed
<1> QED
  BY <1>1, <1>2

\* A request finishes, or its rows are as typed: the rest of the requests stay.
LEMMA FinishIsOK ==
  ASSUME Typed, NEW r \in Request, Finish(r)
  PROVE  DOMAIN req' = Request /\ \A p \in Request : RequestOK(req'[p])
<1>1. /\ DOMAIN req' = Request /\ req'[r] = Done
      /\ \A p \in Request : p # r => req'[p] = req[p]
  BY RequestUpdate DEF Finish, Typed
<1> QED
  BY <1>1, DoneIsOK DEF Typed

\* What the action of a request leaves of the requests.
LEMMA ActSays ==
  ASSUME Typed, NEW r \in Request, Act(r)
  PROVE  LET b == BillOf(r)  to == Change(req[r].op, Held(r), tax[b]) IN
         /\ b \in Bill /\ req[r].bills = {b} /\ Running(r) /\ DOMAIN req' = Request
         /\ \/ to = "refused" /\ Finish(r) /\ items' = items
            \/ /\ to \in {"POSTED", "REVERTED"} /\ items' = [items EXCEPT ![b] = to]
               /\ req[r].op \in {"post", "reverse"}
               /\ req'[r].at = "write" /\ req'[r].obj = Cached /\ req'[r].found[b] = to
               /\ req'[r].op = req[r].op /\ req'[r].bills = {b} /\ RequestOK(req'[r])
         /\ \A p \in Request \ {r} :
               \/ req'[p] = req[p]
               \/ /\ Running(p) /\ req[p].at \in Holding /\ req[p].bills = {b} /\ req[r].obj # Cached
                  /\ \E obj \in Statuses : req'[p] = [req[p] EXCEPT !.obj = obj]
<1> DEFINE b == BillOf(r)
           to == Change(req[r].op, Held(r), tax[b])
<1>1. /\ Running(r) /\ req[r].at = "act" /\ req[r] \in Going /\ req[r].bills = {b} /\ b \in Bill
      /\ req[r].found \in [{b} -> Statuses] /\ req[r].op \in {"post", "reverse", "get"}
  <2>1. Running(r) /\ req[r].at = "act"
    BY DEF Act, Running
  <2> QED
    BY <2>1, GoingRequest DEF Going
<1>2. CASE to = "refused"
  <2>1. Finish(r) /\ items' = items
    BY <1>2 DEF Act
  <2>2. /\ DOMAIN req' = Request
        /\ \A p \in Request : p # r => req'[p] = req[p]
    BY <2>1, RequestUpdate DEF Finish, Typed
  <2> QED
    BY <1>1, <1>2, <2>1, <2>2
<1>3. CASE to # "refused"
  <2>1. to \in {"POSTED", "REVERTED"} /\ req[r].op \in {"post", "reverse"}
    BY <1>3 DEF Change
  <2> DEFINE mine == [req[r] EXCEPT !.at = "write", !.obj = Cached, !.found[b] = to]
  <2> HIDE DEF b, to
  <2>2. /\ items' = [items EXCEPT ![b] = to]
        /\ req' = [q \in Request |->
               CASE q = r -> mine
                 [] q # r /\ req[r].obj # Cached /\ Running(q) /\ req[q].bills = {b}
                      /\ req[q].at \in {"act", "write", "saved"} /\ req[q].obj = Cached ->
                      [req[q] EXCEPT !.obj = items[b]]
                 [] OTHER -> req[q]]
    BY <1>3 DEF Act, b, to
  <2>3. /\ mine.at = "write" /\ mine.obj = Cached /\ mine.found = [req[r].found EXCEPT ![b] = to]
        /\ mine.op = req[r].op /\ mine.bills = {b}
    BY <1>1 DEF Going
  <2>4. mine.found \in [{b} -> Statuses] /\ mine.found[b] = to
    BY <1>1, <2>1, <2>3 DEF Statuses
  <2>5. mine \in Going
    <3>1. mine.found \in Founds
      BY <1>1, <2>4 DEF Founds
    <3> DEFINE base == [[req[r] EXCEPT !.at = "write"] EXCEPT !.obj = Cached]
    <3>2. base \in Going /\ base.found = req[r].found
      BY <1>1 DEF Going, Holding
    <3>3. mine = [base EXCEPT !.found = [req[r].found EXCEPT ![b] = to]]
      BY <3>2
    <3>4. mine = [base EXCEPT !.found = mine.found]
      BY <2>3, <3>3
    <3> HIDE DEF base, mine
    <3> QED
      BY <3>1, <3>2, <3>4 DEF Going
  <2>6. RequestOK(mine)
    BY <1>1, <2>1, <2>3, <2>4, <2>5 DEF RequestOK
  <2> HIDE DEF mine
  <2>7. req'[r] = mine /\ DOMAIN req' = Request
    BY <2>2
  <2>8. ASSUME NEW p \in Request \ {r}
        PROVE  \/ req'[p] = req[p]
               \/ /\ Running(p) /\ req[p].at \in Holding /\ req[p].bills = {b} /\ req[r].obj # Cached
                  /\ \E obj \in Statuses : req'[p] = [req[p] EXCEPT !.obj = obj]
    <3>1. items[b] \in Statuses
      BY <1>1 DEF Typed
    <3>2. CASE /\ req[r].obj # Cached /\ Running(p) /\ req[p].bills = {b}
               /\ req[p].at \in Holding /\ req[p].obj = Cached
      BY <2>2, <3>1, <3>2 DEF Holding
    <3>3. CASE ~(/\ req[r].obj # Cached /\ Running(p) /\ req[p].bills = {b}
                 /\ req[p].at \in Holding /\ req[p].obj = Cached)
      BY <2>2, <3>3 DEF Holding
    <3> QED
      BY <3>2, <3>3
  <2> QED
    BY <1>1, <2>1, <2>2, <2>3, <2>4, <2>6, <2>7, <2>8 DEF b, to
<1> QED
  BY <1>2, <1>3

\* Reading finishes: what the request holds, and what it leaves of the others.
LEMMA ToDomainSays ==
  ASSUME Typed, NEW r \in Request, ToDomain(r)
  PROVE  LET there == {b \in req[r].bills : req[r].found[b] # "none"} IN
         /\ Running(r) /\ req[r].at = "fill" /\ DOMAIN req' = Request
         /\ there \subseteq Bill
         /\ items' \in [Bill -> Statuses]
         /\ \A b \in there : items'[b] = req[r].found[b]
         /\ \A b \in Bill \ there : items'[b] = items[b]
         /\ req'[r] = Done \/ /\ req'[r] = [req[r] EXCEPT !.at = "act"] /\ req[r].op # "list"
                              /\ req[r].bills = there
         /\ \A p \in Request : RequestOK(req'[p])
         /\ \A p \in Request \ {r} :
               \/ req'[p] = req[p]
               \/ /\ Running(p) /\ req[p].at \in Holding /\ req[p].bills \subseteq there
                  /\ \E obj \in Statuses : req'[p] = [req[p] EXCEPT !.obj = obj]
<1> DEFINE there == {b \in req[r].bills : req[r].found[b] # "none"}
<1>1. Running(r) /\ req[r].at = "fill"
  BY DEF ToDomain, Running
<1>2. /\ req[r] \in Going /\ req[r].found \in [req[r].bills -> Statuses]
      /\ req[r].op # "list" => \E b \in Bill : req[r].bills = {b}
      /\ req[r].op # "create"
  BY <1>1, GoingRequest
<1>3. there \subseteq Bill
  BY <1>2 DEF Going
<1> DEFINE mine == IF req[r].op = "list" \/ there = {} THEN Done ELSE [req[r] EXCEPT !.at = "act"]
<1>4. /\ items' = [b \in Bill |-> IF b \in there THEN req[r].found[b] ELSE items[b]]
      /\ req' = [Detach(there) EXCEPT ![r] = mine]
  BY DEF ToDomain
<1>5. mine = Done \/ (mine = [req[r] EXCEPT !.at = "act"] /\ req[r].op # "list" /\ req[r].bills = there)
  BY <1>2
<1>6. RequestOK(mine)
  <2>1. CASE mine = Done
    BY <2>1, DoneIsOK
  <2>2. CASE mine = [req[r] EXCEPT !.at = "act"] /\ req[r].op # "list"
    BY <1>2, <2>2 DEF RequestOK, Going, Holding
  <2> QED
    BY <1>5, <2>1, <2>2
<1>7. items' \in [Bill -> Statuses]
  BY <1>2, <1>4 DEF Typed
<1> HIDE DEF mine, there
<1>8. /\ DOMAIN Detach(there) = Request
      /\ \A p \in Request :
           /\ RequestOK(Detach(there)[p])
           /\ Detach(there)[p] = req[p]
              \/ /\ Running(p) /\ req[p].at \in Holding /\ req[p].bills \subseteq there
                 /\ \E obj \in Statuses : Detach(there)[p] = [req[p] EXCEPT !.obj = obj]
  BY DetachIsOK
<1>9. DOMAIN req' = Request /\ req'[r] = mine /\ \A p \in Request \ {r} : req'[p] = Detach(there)[p]
  BY <1>4, <1>8
<1>10. \A b \in Bill : items'[b] = IF b \in there THEN req[r].found[b] ELSE items[b]
  BY <1>4
<1>11. \A p \in Request : RequestOK(req'[p])
  BY <1>6, <1>8, <1>9
<1>12. \A p \in Request \ {r} :
               \/ req'[p] = req[p]
               \/ /\ Running(p) /\ req[p].at \in Holding /\ req[p].bills \subseteq there
                  /\ \E obj \in Statuses : req'[p] = [req[p] EXCEPT !.obj = obj]
  BY <1>8, <1>9
<1>13. /\ req'[r] = Done \/ /\ req'[r] = [req[r] EXCEPT !.at = "act"] /\ req[r].op # "list"
                              /\ req[r].bills = there
       /\ \A b \in there : items'[b] = req[r].found[b]
       /\ \A b \in Bill \ there : items'[b] = items[b]
  BY <1>3, <1>5, <1>9, <1>10
<1> QED
  BY <1>1, <1>3, <1>7, <1>9, <1>11, <1>12, <1>13 DEF there

\* A request begins.
LEMMA BeginSays ==
  ASSUME Typed, NEW r \in Request, NEW op \in {"post", "reverse", "get", "list"}, NEW at,
         NEW bills \in SUBSET Bill, Begin(r, op, at, bills),
         op = "list" => at = "read",
         op # "list" => at \in {"read", "act"} /\ \E b \in Bill : bills = {b}
  PROVE  /\ req[r] = New /\ DOMAIN req' = Request /\ RequestOK(req'[r])
         /\ req'[r].op = op /\ req'[r].at = at /\ req'[r].bills = bills /\ req'[r].obj = Cached
         /\ \A p \in Request \ {r} : req'[p] = req[p]
<1> DEFINE mine == [op |-> op, at |-> at, bills |-> bills, obj |-> Cached,
                    found |-> [b \in bills |-> "none"]]
<1>1. req' = [req EXCEPT ![r] = mine] /\ req[r] = New
  BY DEF Begin, MayBegin
<1>2. RequestOK(mine)
  BY BeginIsOK DEF Statuses
<1> HIDE DEF mine
<1>3. DOMAIN req' = Request /\ req'[r] = mine /\ \A p \in Request : p # r => req'[p] = req[p]
  BY <1>1, RequestUpdate DEF Typed
<1> QED
  BY <1>1, <1>2, <1>3 DEF mine

LEMMA CreateSays ==
  ASSUME Typed, NEW r \in Request, NEW b \in Bill, CreateBill(r, b)
  PROVE  /\ req[r] = New /\ DOMAIN req' = Request /\ RequestOK(req'[r])
         /\ req'[r].op = "create" /\ req'[r].at = "write" /\ req'[r].bills = {b}
         /\ req'[r].obj = Cached /\ req'[r].found[b] = "DRAFT"
         /\ \A p \in Request \ {r} : req'[p] = req[p]
<1> DEFINE mine == [op |-> "create", at |-> "write", bills |-> {b}, obj |-> Cached,
                    found |-> [x \in {b} |-> "DRAFT"]]
<1>1. req' = [req EXCEPT ![r] = mine] /\ req[r] = New
  BY DEF CreateBill, MayBegin
<1>2. RequestOK(mine)
  BY BeginIsOK DEF Statuses
<1> HIDE DEF mine
<1>3. DOMAIN req' = Request /\ req'[r] = mine /\ \A p \in Request : p # r => req'[p] = req[p]
  BY <1>1, RequestUpdate DEF Typed
<1> QED
  BY <1>1, <1>2, <1>3 DEF mine

LEMMA ReadSays ==
  ASSUME Typed, NEW r \in Request, ReadRows(r)
  PROVE  /\ Running(r) /\ req[r].at = "read" /\ DOMAIN req' = Request /\ RequestOK(req'[r])
         /\ req'[r].op = req[r].op /\ req'[r].at = "fill" /\ req'[r].bills = req[r].bills
         /\ \A b \in req[r].bills : req'[r].found[b] = row[b]
         /\ \A p \in Request \ {r} : req'[p] = req[p]
<1> DEFINE found == [b \in req[r].bills |-> row[b]]
           mine == [[[req[r] EXCEPT !.at = "fill"] EXCEPT !.obj = req[r].obj] EXCEPT !.found = found]
<1>1. Running(r) /\ req[r].at = "read"
  BY DEF ReadRows, Running
<1>2. /\ req[r] \in Going /\ req[r].found \in [req[r].bills -> Statuses]
      /\ req[r].op # "list" => \E b \in Bill : req[r].bills = {b}
      /\ req[r].op # "create"
  BY <1>1, GoingRequest
<1>3. req' = [req EXCEPT ![r].at = "fill", ![r].found = found]
  BY DEF ReadRows
<1>4. req'[r] = [[req[r] EXCEPT !.at = "fill"] EXCEPT !.found = found]
  BY <1>3 DEF Typed
<1>5. [req[r] EXCEPT !.at = "fill"] = [[req[r] EXCEPT !.at = "fill"] EXCEPT !.obj = req[r].obj]
  BY <1>2 DEF Going
<1>6. req'[r] = mine
  BY <1>4, <1>5
<1>7. found \in [req[r].bills -> Statuses] /\ req[r].obj \in Statuses \cup {Cached}
  BY <1>2 DEF Typed, Going
<1>8. RequestOK(mine)
  BY <1>2, <1>7, GoesOn
<1>9. mine.op = req[r].op /\ mine.at = "fill" /\ mine.bills = req[r].bills /\ mine.found = found
  BY <1>2 DEF Going
<1>10. DOMAIN req' = Request /\ \A p \in Request \ {r} : req'[p] = req[p]
  BY <1>3 DEF Typed
<1> HIDE DEF mine
<1> QED
  BY <1>1, <1>6, <1>8, <1>9, <1>10

LEMMA WriteSays ==
  ASSUME Typed, NEW r \in Request, WriteRow(r)
  PROVE  LET b == BillOf(r) IN
         /\ Running(r) /\ req[r].at = "write" /\ DOMAIN req' = Request /\ RequestOK(req'[r])
         /\ b \in Bill /\ req[r].bills = {b} /\ row' = [row EXCEPT ![b] = req[r].found[b]]
         /\ req[r].found[b] \in Statuses
         /\ \/ req'[r] = Done /\ req[r].op = "create"
            \/ /\ req[r].op \in {"post", "reverse"} /\ req'[r] = [req[r] EXCEPT !.at = "saved"]
               /\ req'[r].at = "saved" /\ req'[r].op = req[r].op /\ req'[r].bills = {b}
               /\ req'[r].obj = req[r].obj
         /\ \A p \in Request \ {r} : req'[p] = req[p]
<1>1. Running(r) /\ req[r].at = "write"
  BY DEF WriteRow, Running
<1>2. /\ req[r] \in Going /\ req[r].found \in [req[r].bills -> Statuses]
      /\ req[r].op \in {"create", "post", "reverse"}
      /\ BillOf(r) \in Bill /\ req[r].bills = {BillOf(r)}
  <2>1. req[r].op # "list" /\ req[r].op # "get"
    BY <1>1, GoingRequest
  <2> QED
    BY <1>1, <2>1, GoingRequest DEF Going
<1>3. req[r].found[BillOf(r)] \in Statuses
  BY <1>2
<1>4. req' = [req EXCEPT ![r] = IF req[r].op = "create" THEN Done ELSE [req[r] EXCEPT !.at = "saved"]]
  BY DEF WriteRow
<1>5. /\ DOMAIN req' = Request
      /\ req'[r] = IF req[r].op = "create" THEN Done ELSE [req[r] EXCEPT !.at = "saved"]
      /\ \A p \in Request \ {r} : req'[p] = req[p]
  BY <1>4 DEF Typed
<1>6. CASE req[r].op = "create"
  BY <1>1, <1>2, <1>3, <1>5, <1>6, DoneIsOK DEF WriteRow
<1>7. CASE req[r].op # "create"
  <2>1. [req[r] EXCEPT !.at = "saved"] \in Going
    BY <1>2 DEF Going, Holding
  <2>2. RequestOK([req[r] EXCEPT !.at = "saved"])
    BY <1>2, <1>7, <2>1 DEF RequestOK, Going
  <2>3. /\ req'[r].at = "saved" /\ req'[r].op = req[r].op /\ req'[r].bills = req[r].bills
        /\ req'[r].obj = req[r].obj
    BY <1>2, <1>5, <1>7 DEF Going
  <2> QED
    BY <1>1, <1>2, <1>3, <1>5, <1>7, <2>2, <2>3 DEF WriteRow
<1> QED
  BY <1>6, <1>7

-----------------------------------------------------------------------------
(* The lines of the journal that are about a bill, after one is added.      *)
LEMMA LinesAreFinite ==
  ASSUME JournalInv, NEW b
  PROVE  /\ DOMAIN entries = 1 .. Len(entries) /\ Len(entries) \in Nat
         /\ IsFiniteSet(Originals(b)) /\ IsFiniteSet(Open(b)) /\ IsFiniteSet(Stornos(b))
<1>1. DOMAIN entries = 1 .. Len(entries) /\ Len(entries) \in Nat
  BY DEF JournalInv, JournalOK
<1>2. IsFiniteSet(1 .. Len(entries))
  BY <1>1, FS_Interval
<1>3. /\ Originals(b) \subseteq 1 .. Len(entries) /\ Open(b) \subseteq 1 .. Len(entries)
      /\ Stornos(b) \subseteq 1 .. Len(entries)
  BY <1>1 DEF Originals, Open, Stornos
<1> QED
  BY <1>1, <1>2, <1>3, FS_Subset

LEMMA RecordedLines ==
  ASSUME JournalInv, NEW b, entries' = Recorded(b)
  PROVE  LET n == Len(entries) + 1 IN
         /\ n \notin DOMAIN entries
         /\ Originals(b)' = Originals(b) \cup {n} /\ Open(b)' = Open(b) \cup {n}
         /\ Stornos(b)' = Stornos(b)
         /\ \A x : x # b => /\ Originals(x)' = Originals(x) /\ Open(x)' = Open(x)
                            /\ Stornos(x)' = Stornos(x)
<1> DEFINE n == Len(entries) + 1
           new == [bill |-> b, kind |-> "ORIGINAL", reversedBy |-> 0]
<1>1. DOMAIN entries = 1 .. Len(entries) /\ Len(entries) \in Nat
  BY LinesAreFinite
<1>2. PICK bills : entries \in Seq(Line(bills))
  BY DEF JournalInv, JournalOK
<1>3. entries' = Append(entries, new)
  BY DEF Recorded
<1> HIDE DEF new
<1>4. /\ DOMAIN entries' = DOMAIN entries \cup {n} /\ n \notin DOMAIN entries
      /\ entries'[n] = new /\ \A k \in DOMAIN entries : entries'[k] = entries[k]
  BY <1>1, <1>2, <1>3
<1>5. new.bill = b /\ new.kind = "ORIGINAL" /\ new.reversedBy = 0
  BY DEF new
<1> HIDE DEF n
<1>6. /\ Originals(b)' = Originals(b) \cup {n} /\ Stornos(b)' = Stornos(b)
      /\ \A x : x # b => Originals(x)' = Originals(x) /\ Stornos(x)' = Stornos(x)
  BY <1>4, <1>5 DEF Originals, Stornos
<1>7. Open(b)' = Open(b) \cup {n} /\ \A x : x # b => Open(x)' = Open(x)
  BY <1>4, <1>5 DEF Open, Originals
<1> QED
  BY <1>4, <1>6, <1>7 DEF n

LEMMA ReversedLines ==
  ASSUME JournalInv, NEW b, entries' = Reversed(b), Open(b) # {}
  PROVE  LET n == Len(entries) + 1 IN
         /\ n \notin DOMAIN entries
         /\ Originals(b)' = Originals(b) /\ Stornos(b)' = Stornos(b) \cup {n}
         /\ \E f \in Open(b) : Open(b)' = Open(b) \ {f}
         /\ \A x : x # b => /\ Originals(x)' = Originals(x) /\ Open(x)' = Open(x)
                            /\ Stornos(x)' = Stornos(x)
<1> DEFINE m == Len(entries)  n == m + 1
<1>1. PICK f, bills :
            /\ f \in Open(b)
            /\ m \in Nat /\ DOMAIN entries = 1 .. m /\ f \in 1 .. m
            /\ entries[f].bill = b /\ entries[f].kind = "ORIGINAL" /\ entries[f].reversedBy = 0
            /\ entries' \in Seq(Line(bills)) /\ DOMAIN entries' = 1 .. m + 1
            /\ \A k \in 1 .. m : k # f => entries'[k] = entries[k]
            /\ entries'[f].bill = b /\ entries'[f].kind = "ORIGINAL"
            /\ entries'[f].reversedBy = m + 1
            /\ entries'[m + 1].bill = b /\ entries'[m + 1].kind = "STORNO"
            /\ entries'[m + 1].reversedBy = 0
  BY ReversedMarks
<1>2. /\ DOMAIN entries' = DOMAIN entries \cup {n} /\ n \notin DOMAIN entries /\ n # 0
      /\ f \in DOMAIN entries
      /\ \A k \in DOMAIN entries : k # f => entries'[k] = entries[k]
  BY <1>1
<1> HIDE DEF n, m
<1>3. /\ entries'[f].bill = b /\ entries'[f].kind = "ORIGINAL" /\ entries'[f].reversedBy = n
      /\ entries'[n].bill = b /\ entries'[n].kind = "STORNO"
  BY <1>1 DEF n
<1>4. /\ Originals(b)' = Originals(b) /\ Stornos(b)' = Stornos(b) \cup {n}
      /\ \A x : x # b => Originals(x)' = Originals(x) /\ Stornos(x)' = Stornos(x)
  BY <1>1, <1>2, <1>3 DEF Originals, Stornos
<1>5. Open(b)' = Open(b) \ {f}
  BY <1>1, <1>2, <1>3 DEF Open, Originals
<1>6. \A x : x # b => Open(x)' = Open(x)
  BY <1>1, <1>2, <1>3 DEF Open, Originals
<1>7. f \in Open(b)
  BY <1>1
<1> QED
  BY <1>2, <1>4, <1>5, <1>6, <1>7 DEF n, m

\* The sums of bills, after a line is added.
LEMMA RecordedSum ==
  ASSUME JournalInv, NEW b, entries' = Recorded(b)
  PROVE  /\ Sum(b) \in Int /\ Sum(b)' = Sum(b) + 1 /\ entries' # entries
         /\ \A x : x # b => Sum(x)' = Sum(x)
<1> DEFINE n == Len(entries) + 1
<1>1. /\ n \notin DOMAIN entries
      /\ Originals(b)' = Originals(b) \cup {n} /\ Stornos(b)' = Stornos(b)
      /\ \A x : x # b => Originals(x)' = Originals(x) /\ Stornos(x)' = Stornos(x)
  BY RecordedLines
<1> HIDE DEF n
<1>2. IsFiniteSet(Originals(b)) /\ IsFiniteSet(Stornos(b)) /\ n \notin Originals(b)
  BY <1>1, LinesAreFinite DEF Originals
<1>3. /\ Cardinality(Originals(b)) \in Nat /\ Cardinality(Stornos(b)) \in Nat
      /\ Cardinality(Originals(b) \cup {n}) = Cardinality(Originals(b)) + 1
  BY <1>2, FS_AddElement, FS_CardinalityType
<1>4. Cardinality(Originals(b)') = Cardinality(Originals(b)) + 1
  BY <1>1, <1>3
<1>5. Originals(b)' # Originals(b)
  BY <1>1, <1>2
<1>6. entries' # entries
  BY <1>5 DEF Originals
<1> QED
  BY <1>1, <1>3, <1>4, <1>6 DEF Sum

LEMMA ReversedSum ==
  ASSUME JournalInv, NEW b, entries' = Reversed(b), entries' # entries
  PROVE  /\ Sum(b) \in Int /\ Sum(b)' = Sum(b) - 1
         /\ \A x : x # b => Sum(x)' = Sum(x)
<1> DEFINE n == Len(entries) + 1
<1>1. Open(b) # {}
  BY DEF Reversed
<1>2. /\ n \notin DOMAIN entries
      /\ Originals(b)' = Originals(b) /\ Stornos(b)' = Stornos(b) \cup {n}
      /\ \A x : x # b => Originals(x)' = Originals(x) /\ Stornos(x)' = Stornos(x)
  BY <1>1, ReversedLines
<1> HIDE DEF n
<1>3. IsFiniteSet(Originals(b)) /\ IsFiniteSet(Stornos(b)) /\ n \notin Stornos(b)
  BY <1>2, LinesAreFinite DEF Stornos
<1>4. /\ Cardinality(Originals(b)) \in Nat /\ Cardinality(Stornos(b)) \in Nat
      /\ Cardinality(Stornos(b) \cup {n}) = Cardinality(Stornos(b)) + 1
  BY <1>3, FS_AddElement, FS_CardinalityType
<1>5. Cardinality(Stornos(b)') = Cardinality(Stornos(b)) + 1
  BY <1>2, <1>4
<1> QED
  BY <1>2, <1>4, <1>5 DEF Sum

-----------------------------------------------------------------------------
(* The ledger's events that wait, and what they will add to a snapshot.     *)
Waiting(S, b, d) == {e \in S : e.bill = b /\ e.type = Told /\ e.delta = d}
Balance(S, b) == Cardinality(Waiting(S, b, 1)) - Cardinality(Waiting(S, b, -1))

LEMMA WaitingIsFinite ==
  ASSUME NEW S, IsFiniteSet(S), NEW b, NEW d
  PROVE  IsFiniteSet(Waiting(S, b, d)) /\ Cardinality(Waiting(S, b, d)) \in Nat
<1>1. Waiting(S, b, d) \subseteq S
  BY DEF Waiting
<1> QED
  BY <1>1, FS_Subset, FS_CardinalityType

LEMMA BalanceStays ==
  ASSUME NEW S, NEW e, NEW b, ~(e.bill = b /\ e.type = Told)
  PROVE  Balance(S \cup {e}, b) = Balance(S, b)
<1>1. \A d : Waiting(S \cup {e}, b, d) = Waiting(S, b, d)
  BY DEF Waiting
<1> QED
  BY <1>1 DEF Balance

LEMMA BalanceMoves ==
  ASSUME NEW S, IsFiniteSet(S), NEW e, e \notin S, e.type = Told, e.delta \in {1, -1}
  PROVE  Balance(S, e.bill) \in Int /\ Balance(S \cup {e}, e.bill) = Balance(S, e.bill) + e.delta
<1> DEFINE up == Waiting(S, e.bill, 1)  down == Waiting(S, e.bill, -1)
<1>1. /\ IsFiniteSet(up) /\ Cardinality(up) \in Nat
      /\ IsFiniteSet(down) /\ Cardinality(down) \in Nat
  BY WaitingIsFinite
<1>2. e \notin up /\ e \notin down
  BY DEF Waiting
<1>3. CASE e.delta = 1
  <2>1. Waiting(S \cup {e}, e.bill, 1) = up \cup {e} /\ Waiting(S \cup {e}, e.bill, -1) = down
    BY <1>3 DEF Waiting
  <2> HIDE DEF up, down
  <2>2. Cardinality(up \cup {e}) = Cardinality(up) + 1
    BY <1>1, <1>2, FS_AddElement
  <2> QED
    BY <1>1, <1>3, <2>1, <2>2 DEF Balance, up, down
<1>4. CASE e.delta = -1
  <2>1. Waiting(S \cup {e}, e.bill, 1) = up /\ Waiting(S \cup {e}, e.bill, -1) = down \cup {e}
    <3>1. e.delta # 1
      BY <1>4
    <3>2. Waiting(S \cup {e}, e.bill, 1) = up
      BY <3>1, Zenon DEF Waiting
    <3>3. Waiting(S \cup {e}, e.bill, -1) = down \cup {e}
      BY <1>4, Zenon DEF Waiting
    <3> QED
      BY <3>2, <3>3
  <2> HIDE DEF up, down
  <2>2. Cardinality(down \cup {e}) = Cardinality(down) + 1
    BY <1>1, <1>2, FS_AddElement
  <2>3. \A a, d \in Nat : a - (d + 1) = (a - d) + -1 /\ a - d \in Int
    OBVIOUS
  <2>4. Cardinality(up) - Cardinality(down \cup {e}) = (Cardinality(up) - Cardinality(down)) + e.delta
    BY <1>1, <1>4, <2>2, <2>3
  <2> QED
    BY <1>1, <2>1, <2>3, <2>4 DEF Balance, up, down
<1> QED
  BY <1>3, <1>4

LEMMA SnapshotSays ==
  Typed /\ BusOK =>
     (SnapshotIsJournal <=> \A b \in Bill : Sum(b) = snapshot[b] + Balance(bus, b))
<1> SUFFICES ASSUME Typed, BusOK
             PROVE  SnapshotIsJournal <=> \A b \in Bill : Sum(b) = snapshot[b] + Balance(bus, b)
  OBVIOUS
<1>1. ASSUME NEW b \in Bill
      PROVE  LET told == {e \in bus : e.bill = b /\ e.type = "journalEntryPosted"} IN
             /\ {e \in told : e.delta = 1} = Waiting(bus, b, 1)
             /\ {e \in told : e.delta = -1} = Waiting(bus, b, -1)
  BY DEF Waiting, Told
<1>2. ASSUME NEW b \in Bill
      PROVE  snapshot[b] + Cardinality(Waiting(bus, b, 1)) - Cardinality(Waiting(bus, b, -1))
             = snapshot[b] + Balance(bus, b)
  <2>1. snapshot[b] \in Int
    BY DEF Typed
  <2>2. Cardinality(Waiting(bus, b, 1)) \in Nat /\ Cardinality(Waiting(bus, b, -1)) \in Nat
    BY WaitingIsFinite DEF BusOK
  <2> QED
    BY <2>1, <2>2 DEF Balance
<1> QED
  BY <1>1, <1>2 DEF SnapshotIsJournal

Sound == Typed /\ JournalInv /\ BusOK /\ SnapshotIsJournal

\* An event is handled, and what is left on the bus is given.
LEMMA DispatchKeeps ==
  ASSUME Sound, NEW type, NEW b \in Bill, NEW delta, NEW inFlight \in SUBSET bus,
         type \in Commands \/ (type = Told /\ delta \in {1, -1}),
         \A x \in Bill : Balance(bus, x) =
             Balance(inFlight, x) + (IF type = Told /\ x = b THEN delta ELSE 0),
         \A x \in Bill : Balance(inFlight, x) \in Int,
         DispatchLocally(type, b, delta, inFlight)
  PROVE  /\ snapshot' \in [Bill -> Int] /\ BusOK' /\ IsFiniteSet(inFlight)
         /\ \A x \in Bill : Sum(x)' = snapshot'[x] + Balance(bus', x)
<1> DEFINE now == IF type = "billPosted" THEN Recorded(b) ELSE Reversed(b)
           gain == IF type = "billPosted" THEN 1 ELSE -1
           told == [id |-> lastEvent + 1, type |-> "journalEntryPosted", bill |-> b, delta |-> gain]
<1>1. IsFiniteSet(inFlight) /\ snapshot \in [Bill -> Int] /\ lastEvent \in Nat
  BY FS_Subset DEF Sound, BusOK, Typed
<1>2. \A x \in Bill : Sum(x) = snapshot[x] + Balance(bus, x)
  BY SnapshotSays DEF Sound
<1>3. \A e \in inFlight : /\ e.id \in Nat /\ e.id <= lastEvent /\ e.bill \in Bill
                          /\ e.type \in Commands \/ (e.type = Told /\ e.delta \in {1, -1})
  BY DEF Sound, BusOK
<1>4. JournalInv
  BY DEF Sound
<1>5. \A s, t, d \in Int : (s + (t + d)) = (s + d) + t /\ s + d \in Int
  OBVIOUS
<1>6. CASE type = Told
  <2>1. snapshot' = [snapshot EXCEPT ![b] = @ + delta] /\ bus' = inFlight
        /\ entries' = entries /\ lastEvent' = lastEvent
    BY <1>6 DEF DispatchLocally, Ingested, Told
  <2>2. \A x \in Bill : Sum(x)' = Sum(x)
    BY <2>1 DEF Sum, Originals, Stornos
  <2>3. delta \in Int
    BY <1>6 DEF Commands, Told
  <2>4. snapshot' \in [Bill -> Int]
    BY <1>1, <2>1, <2>3
  <2>5. ASSUME NEW x \in Bill PROVE Sum(x)' = snapshot'[x] + Balance(bus', x)
    <3>1. CASE x = b
      BY <1>1, <1>2, <1>5, <1>6, <2>1, <2>2, <2>3, <3>1
    <3>2. CASE x # b
      <4>1. Balance(bus, x) = Balance(bus', x) /\ snapshot'[x] = snapshot[x]
        BY <1>1, <2>1, <3>2
      <4> QED
        BY <1>2, <2>2, <4>1
    <3> QED
      BY <3>1, <3>2
  <2> QED
    BY <1>1, <1>3, <2>1, <2>4, <2>5 DEF BusOK
<1>7. CASE type # Told
  <2>1. \A x \in Bill : Balance(bus, x) = Balance(inFlight, x)
    BY <1>7
  <2> HIDE DEF now, told
  <2>2. \/ /\ entries' = entries /\ bus' = inFlight /\ UNCHANGED <<snapshot, lastEvent>>
        \/ /\ now # entries /\ entries' = now /\ bus' = inFlight \cup {told}
           /\ lastEvent' = lastEvent + 1 /\ snapshot' = snapshot
        \/ /\ now # entries /\ entries' = now /\ snapshot' = [snapshot EXCEPT ![b] = @ + gain]
           /\ bus' = inFlight /\ lastEvent' = lastEvent
    BY <1>7 DEF DispatchLocally, Ingested, Told, now, told
  <2>3. now # entries /\ entries' = now =>
           Sum(b)' = Sum(b) + gain /\ \A x : x # b => Sum(x)' = Sum(x)
    <3>1. CASE type = "billPosted"
      BY <1>4, <3>1, RecordedSum DEF now
    <3>2. CASE type # "billPosted"
      <4>1. ASSUME now # entries, entries' = now
            PROVE  Sum(b) \in Int /\ Sum(b)' = Sum(b) - 1 /\ \A x : x # b => Sum(x)' = Sum(x)
        BY <1>4, <3>2, <4>1, ReversedSum DEF now
      <4> QED
        BY <3>2, <4>1
    <3> QED
      BY <3>1, <3>2
  <2>4. gain \in {1, -1}
    OBVIOUS
  <2> HIDE DEF gain
  <2>5. CASE entries' = entries /\ bus' = inFlight /\ UNCHANGED <<snapshot, lastEvent>>
    <3>1. \A x \in Bill : Sum(x)' = Sum(x)
      BY <2>5 DEF Sum, Originals, Stornos
    <3> QED
      BY <1>1, <1>2, <1>3, <2>1, <2>5, <3>1 DEF BusOK
  <2>6. CASE /\ now # entries /\ entries' = now /\ bus' = inFlight \cup {told}
             /\ lastEvent' = lastEvent + 1 /\ snapshot' = snapshot
    <3>1. /\ told.id = lastEvent + 1 /\ told.type = Told /\ told.bill = b /\ told.delta = gain
      BY DEF told, gain, Told
    <3>2. told \notin inFlight
      BY <1>1, <1>3, <3>1
    <3>3. IsFiniteSet(bus')
      BY <1>1, <2>6, FS_AddElement
    <3>4. BusOK'
      BY <1>1, <1>3, <2>4, <2>6, <3>1, <3>3 DEF BusOK
    <3>5. ASSUME NEW x \in Bill PROVE Sum(x)' = snapshot'[x] + Balance(bus', x)
      <4>1. CASE x = b
        <5>1. Balance(bus', b) = Balance(inFlight, b) + gain
          BY <1>1, <2>4, <2>6, <3>1, <3>2, BalanceMoves
        <5>2. Sum(b)' = (snapshot[b] + Balance(inFlight, b)) + gain
          BY <1>2, <2>1, <2>3, <2>6
        <5>3. gain \in Int /\ snapshot[b] \in Int /\ Balance(inFlight, b) \in Int
          BY <1>1, <2>4
        <5> QED
          BY <2>6, <4>1, <5>1, <5>2, <5>3
      <4>2. CASE x # b
        <5>1. Balance(bus', x) = Balance(inFlight, x)
          BY <2>6, <3>1, <4>2, BalanceStays
        <5> QED
          BY <1>2, <2>1, <2>3, <2>6, <4>2, <5>1
      <4> QED
        BY <4>1, <4>2
    <3> QED
      BY <1>1, <2>6, <3>4, <3>5
  <2>7. CASE /\ now # entries /\ entries' = now /\ snapshot' = [snapshot EXCEPT ![b] = @ + gain]
             /\ bus' = inFlight /\ lastEvent' = lastEvent
    <3>1. snapshot' \in [Bill -> Int] /\ snapshot'[b] = snapshot[b] + gain
      BY <1>1, <2>4, <2>7
    <3>2. BusOK'
      BY <1>1, <1>3, <2>7 DEF BusOK
    <3>3. ASSUME NEW x \in Bill PROVE Sum(x)' = snapshot'[x] + Balance(bus', x)
      <4>1. CASE x = b
        <5>1. Sum(b)' = (snapshot[b] + Balance(inFlight, b)) + gain
          BY <1>2, <2>1, <2>3, <2>7
        <5>2. gain \in Int /\ snapshot[b] \in Int /\ Balance(inFlight, b) \in Int
          BY <1>1, <2>4
        <5> QED
          BY <2>7, <3>1, <4>1, <5>1, <5>2
      <4>2. CASE x # b
        <5>1. snapshot'[x] = snapshot[x]
          BY <1>1, <2>7, <4>2
        <5> QED
          BY <1>2, <2>1, <2>3, <2>7, <4>2, <5>1
      <4> QED
        BY <4>1, <4>2
    <3> QED
      BY <1>1, <3>1, <3>2, <3>3
  <2> QED
    BY <2>2, <2>5, <2>6, <2>7
<1> QED
  BY <1>6, <1>7

LEMMA BalanceIsInt ==
  ASSUME BusOK, NEW b
  PROVE  Balance(bus, b) \in Int
<1>1. Cardinality(Waiting(bus, b, 1)) \in Nat /\ Cardinality(Waiting(bus, b, -1)) \in Nat
  BY WaitingIsFinite DEF BusOK
<1> QED
  BY <1>1 DEF Balance

\* Steps that leave the journal, the snapshot and the bus alone.
LEMMA QuietStep ==
  ASSUME Sound, UNCHANGED journal, items' \in [Bill -> Statuses], row' \in [Bill -> Statuses],
         DOMAIN req' = Request, \A p \in Request : RequestOK(req'[p])
  PROVE  Sound'
<1>1. Typed'
  BY DEF Sound, Typed, journal
<1>2. JournalInv'
  BY JournalStays DEF Sound, journal
<1>3. BusOK'
  BY DEF Sound, BusOK, journal
<1>4. SnapshotIsJournal'
  BY DEF Sound, SnapshotIsJournal, Sum, Originals, Stornos, journal
<1> QED
  BY <1>1, <1>2, <1>3, <1>4 DEF Sound

Summed == \A b \in Bill : Sum(b) = snapshot[b] + Balance(bus, b)

LEMMA SnapshotSaysNext ==
  (Typed /\ BusOK => (SnapshotIsJournal <=> Summed))'
<1>1. Typed /\ BusOK => (SnapshotIsJournal <=> Summed)
  BY SnapshotSays DEF Summed
<1> QED
  BY <1>1, PTL

LEMMA SumsMakeSound ==
  ASSUME Typed', JournalInv', BusOK', \A x \in Bill : Sum(x)' = snapshot'[x] + Balance(bus', x)
  PROVE  Sound'
<1>1. Summed'
  BY DEF Summed
<1>2. SnapshotIsJournal'
  BY <1>1, SnapshotSaysNext
<1> QED
  BY <1>2 DEF Sound

\* What publishing says: the bus takes the command, or it is handled at once.
LEMMA PublishSays ==
  ASSUME Typed, NEW r \in Request, Publish(r)
  PROVE  LET b == BillOf(r)
             type == IF req[r].op = "post" THEN "billPosted" ELSE "billRevertRequested" IN
         /\ Running(r) /\ req[r].at = "saved" /\ req[r].op \in {"post", "reverse"}
         /\ b \in Bill /\ req[r].bills = {b} /\ type \in Commands
         /\ DOMAIN req' = Request /\ req'[r] = Done /\ \A p \in Request \ {r} : req'[p] = req[p]
         /\ \A p \in Request : RequestOK(req'[p])
         /\ UNCHANGED <<taxes, items, row, tax, bounds>>
         /\ \/ /\ UsePubSub /\ lastEvent' = lastEvent + 1 /\ UNCHANGED <<entries, snapshot>>
               /\ bus' = bus \cup {[id |-> lastEvent + 1, type |-> type, bill |-> b, delta |-> 0]}
               /\ unsure' = unsure \cup
                      {x \in {b} : \E e \in bus : e.bill = b /\ e.type # "journalEntryPosted"}
            \/ ~UsePubSub /\ DispatchLocally(type, b, 0, bus) /\ unsure' = unsure
<1>1. Running(r) /\ req[r].at = "saved" /\ Finish(r)
  BY DEF Publish, Running
<1>2. req[r].op # "list" /\ req[r].op # "create" /\ req[r].op # "get" /\ req[r] \in Going
  BY <1>1, GoingRequest
<1>3. BillOf(r) \in Bill /\ req[r].bills = {BillOf(r)} /\ req[r].op \in {"post", "reverse"}
  BY <1>1, <1>2, GoingRequest DEF Going
<1>4. /\ DOMAIN req' = Request /\ req'[r] = Done /\ \A p \in Request : p # r => req'[p] = req[p]
      /\ \A p \in Request : RequestOK(req'[p])
  BY <1>1, RequestUpdate, FinishIsOK DEF Finish, Typed
<1> QED
  BY <1>1, <1>3, <1>4 DEF Publish, Commands

LEMMA PublishIsSound ==
  ASSUME Sound, NEW r \in Request, Publish(r)
  PROVE  Sound'
<1> DEFINE b == BillOf(r)
           type == IF req[r].op = "post" THEN "billPosted" ELSE "billRevertRequested"
           e == [id |-> lastEvent + 1, type |-> type, bill |-> b, delta |-> 0]
<1>1. /\ b \in Bill /\ type \in Commands
      /\ DOMAIN req' = Request /\ \A p \in Request : RequestOK(req'[p])
      /\ UNCHANGED <<items, row>>
      /\ \/ bus' = bus \cup {e} /\ lastEvent' = lastEvent + 1 /\ UNCHANGED <<entries, snapshot>>
         \/ DispatchLocally(type, b, 0, bus)
  BY PublishSays DEF Sound
<1> HIDE DEF b, type
<1>2. type # Told /\ e.type = type /\ e.bill = b /\ e.id = lastEvent + 1
  BY <1>1 DEF Commands, Told
<1> HIDE DEF e
<1>3. CASE bus' = bus \cup {e} /\ lastEvent' = lastEvent + 1 /\ UNCHANGED <<entries, snapshot>>
  <2>1. IsFiniteSet(bus')
    BY <1>3, FS_AddElement DEF Sound, BusOK
  <2>2. BusOK'
    BY <1>1, <1>2, <1>3, <2>1 DEF Sound, BusOK
  <2>3. Typed'
    BY <1>1, <1>3 DEF Sound, Typed
  <2>4. JournalInv'
    BY <1>3, JournalStays DEF Sound
  <2>5. \A x \in Bill : Balance(bus', x) = Balance(bus, x)
    BY <1>2, <1>3, BalanceStays
  <2>6. \A x \in Bill : Sum(x)' = Sum(x)
    BY <1>3 DEF Sum, Originals, Stornos
  <2>7. \A x \in Bill : Sum(x)' = snapshot'[x] + Balance(bus', x)
    BY <1>3, <2>5, <2>6, SnapshotSays DEF Sound
  <2> QED
    BY <2>2, <2>3, <2>4, <2>7, SumsMakeSound
<1>4. CASE DispatchLocally(type, b, 0, bus)
  <2>1. \A x \in Bill : Balance(bus, x) \in Int
    BY BalanceIsInt DEF Sound
  <2>2. \A x \in Bill : Balance(bus, x) = Balance(bus, x) + (IF type = Told /\ x = b THEN 0 ELSE 0)
    BY <2>1
  <2>3. /\ snapshot' \in [Bill -> Int] /\ BusOK'
        /\ \A x \in Bill : Sum(x)' = snapshot'[x] + Balance(bus', x)
    BY <1>1, <1>2, <1>4, <2>1, <2>2, DispatchKeeps
  <2>4. JournalInv'
    BY <1>4, DispatchIsSound DEF Sound
  <2>5. Typed'
    BY <1>1, <2>3 DEF Sound, Typed
  <2> QED
    BY <2>3, <2>4, <2>5, SumsMakeSound
<1> QED
  BY <1>1, <1>3, <1>4

LEMMA AnsweredIsSound ==
  ASSUME Sound, NEW e \in bus, Answered(e)
  PROVE  Sound'
<1> DEFINE rest == bus \ {e}
<1>1. /\ DispatchLocally(e.type, e.bill, e.delta, rest) /\ UNCHANGED <<items, row, req>>
  BY DEF Answered
<1>2. /\ e.bill \in Bill /\ IsFiniteSet(bus)
      /\ e.type \in Commands \/ (e.type = Told /\ e.delta \in {1, -1})
  BY DEF Sound, BusOK
<1>3. rest \subseteq bus /\ e \notin rest /\ bus = rest \cup {e} /\ IsFiniteSet(rest)
  BY <1>2, FS_Subset
<1> HIDE DEF rest
<1>4. \A x : Cardinality(Waiting(rest, x, 1)) \in Nat /\ Cardinality(Waiting(rest, x, -1)) \in Nat
  BY <1>3, WaitingIsFinite
<1>5. \A x \in Bill : Balance(rest, x) \in Int
  BY <1>4 DEF Balance
<1>6. ASSUME NEW x \in Bill
      PROVE  Balance(bus, x) = Balance(rest, x) + (IF e.type = Told /\ x = e.bill THEN e.delta ELSE 0)
  <2>1. CASE e.type = Told /\ x = e.bill
    <3>1. e.delta \in {1, -1}
      BY <1>2, <2>1 DEF Commands, Told
    <3> QED
      BY <1>3, <2>1, <3>1, BalanceMoves
  <2>2. CASE ~(e.type = Told /\ x = e.bill)
    <3>1. Balance(bus, x) = Balance(rest, x)
      BY <1>3, <2>2, BalanceStays
    <3> QED
      BY <1>5, <2>2, <3>1
  <2> QED
    BY <2>1, <2>2
<1>7. /\ snapshot' \in [Bill -> Int] /\ BusOK'
      /\ \A x \in Bill : Sum(x)' = snapshot'[x] + Balance(bus', x)
  <2>1. PICK type, b, delta : type = e.type /\ b = e.bill /\ delta = e.delta
    OBVIOUS
  <2>2. /\ type \in Commands \/ (type = Told /\ delta \in {1, -1})
        /\ DispatchLocally(type, b, delta, rest)
    BY <1>1, <1>2, <2>1
  <2>3. \A x \in Bill : Balance(bus, x) =
             Balance(rest, x) + (IF type = Told /\ x = b THEN delta ELSE 0)
    BY <1>6, <2>1
  <2>4. rest \in SUBSET bus /\ b \in Bill
    BY <1>2, <1>3, <2>1
  <2> QED
    BY <1>5, <2>2, <2>3, <2>4, DispatchKeeps
<1>8. JournalInv'
  BY <1>1, DispatchIsSound DEF Sound
<1>9. Typed'
  BY <1>1, <1>7 DEF Sound, Typed
<1> QED
  BY <1>7, <1>8, <1>9, SumsMakeSound

\* After a restart nothing is in the journal and nothing runs.
LEMMA RestartSays ==
  ASSUME Typed, Restart
  PROVE  /\ entries' = <<>> /\ bus' = {} /\ snapshot' = [b \in Bill |-> 0]
         /\ lastEvent' = lastEvent /\ row' = row /\ items' = [b \in Bill |-> "none"]
         /\ DOMAIN req' = Request /\ \A p \in Request : req'[p] \in {New, Done} /\ RequestOK(req'[p])
         /\ unsure' = unsure \cup {b \in Bill : row[b] \in {"POSTED", "REVERTED"}}
<1>1. ASSUME NEW p \in Request PROVE req'[p] \in {New, Done} /\ RequestOK(req'[p])
  <2>1. req'[p] = IF Running(p) THEN Done ELSE req[p]
    BY DEF Restart
  <2> QED
    BY <2>1, IdleRequest, DoneIsOK
<1> QED
  BY <1>1 DEF Restart

LEMMA RestartIsSound ==
  ASSUME Sound, Restart
  PROVE  Sound'
<1>1. /\ entries' = <<>> /\ bus' = {} /\ snapshot' = [b \in Bill |-> 0]
      /\ lastEvent' = lastEvent /\ row' = row /\ items' = [b \in Bill |-> "none"]
      /\ DOMAIN req' = Request /\ \A p \in Request : RequestOK(req'[p])
  BY RestartSays DEF Sound
<1>2. Typed'
  BY <1>1 DEF Sound, Typed, Statuses
<1>3. BusOK'
  BY <1>1, FS_EmptySet DEF Sound, BusOK
<1>4. entries' \in Seq(Line({})) /\ DOMAIN entries' = {}
  BY <1>1
<1>5. JournalInv'
  BY <1>4 DEF JournalInv, JournalOK, StornoOfOne
<1>6. ASSUME NEW x \in Bill PROVE Sum(x)' = snapshot'[x] + Balance(bus', x)
  <2>1. Originals(x)' = {} /\ Stornos(x)' = {} /\ Waiting(bus', x, 1) = {} /\ Waiting(bus', x, -1) = {}
    BY <1>1, <1>4 DEF Originals, Stornos, Waiting
  <2>2. Cardinality({}) = 0
    BY FS_EmptySet
  <2>3. Sum(x)' = 0 /\ Balance(bus', x) = 0
    BY <2>1, <2>2 DEF Sum, Balance
  <2> QED
    BY <1>1, <2>3
<1> QED
  BY <1>2, <1>3, <1>5, <1>6, SumsMakeSound

-----------------------------------------------------------------------------
(* The life of a bill whose requests and events kept out of each other's    *)
(* way: one that reads has it to itself, those of one kind share the object *)
(* in the map, at most one of them has changed it and is on its way to the  *)
(* row and then to the bus, and what the bus was told is in the journal, or *)
(* in the only event that waits.                                            *)
On(r, b) == Running(r) /\ b \in req[r].bills
Asked(b) == {e \in bus : e.bill = b /\ e.type # Told}

Alone(b) ==
    \A r, q \in Request :
        On(r, b) /\ On(q, b) /\ r # q =>
            /\ req[r].at \in Holding /\ req[q].at \in Holding
            /\ req[r].op = req[q].op \/ req[r].op = "get" \/ req[q].op = "get"

Kept(b) ==
    /\ \A r \in Request : On(r, b) => req[r].obj = Cached
    /\ \A r \in Request : On(r, b) /\ req[r].at = "fill" => req[r].found[b] = row[b]
    /\ \A r \in Request : On(r, b) /\ req[r].at = "write" =>
         /\ req[r].found[b] = items[b]
         /\ \/ req[r].op = "create" /\ items[b] = "DRAFT" /\ row[b] = "none"
            \/ req[r].op = "post" /\ items[b] = "POSTED" /\ row[b] = "DRAFT"
            \/ req[r].op = "reverse" /\ items[b] = "REVERTED" /\ row[b] = "POSTED"
    /\ \A r \in Request : On(r, b) /\ req[r].at = "saved" =>
         \/ req[r].op = "post" /\ row[b] = "POSTED"
         \/ req[r].op = "reverse" /\ row[b] = "REVERTED"
    /\ \A r, q \in Request :
         On(r, b) /\ On(q, b) /\ {req[r].at, req[q].at} \subseteq {"write", "saved"} => r = q
    /\ (\A r \in Request : ~(On(r, b) /\ req[r].at = "write")) => items[b] \in {"none", row[b]}

\* The status that the bus has been told.
Before(status) == IF status = "REVERTED" THEN "POSTED" ELSE "DRAFT"
Published(b) ==
    IF \E r \in Request : On(r, b) /\ req[r].at = "saved" THEN Before(row[b]) ELSE row[b]

Books(b, status) ==
    /\ status = "POSTED" => \E k : Open(b) = {k}
    /\ status # "POSTED" => Open(b) = {}
    /\ status = "REVERTED" => \E k : Stornos(b) = {k}
    /\ status # "REVERTED" => Stornos(b) = {}

Booked(b) ==
    \/ Asked(b) = {} /\ Books(b, Published(b))
    \/ \E e : /\ Asked(b) = {e} /\ Books(b, Before(Published(b)))
              /\ \/ e.type = "billPosted" /\ Published(b) = "POSTED"
                 \/ e.type = "billRevertRequested" /\ Published(b) = "REVERTED"

Life(b) == Alone(b) /\ Kept(b) /\ Booked(b)
Lives == \A b \in Bill \ unsure : Life(b)

Quiet == bus = {} /\ \A r \in Request : ~Running(r)

\* When nothing is under way, a life is what the books say.
LEMMA LivesAgree == Lives => BooksAgree
<1> SUFFICES ASSUME Lives, Quiet, NEW b \in Bill \ unsure
             PROVE  /\ items[b] \in {"none", row[b]}
                    /\ Cardinality(Open(b)) = IF row[b] = "POSTED" THEN 1 ELSE 0
                    /\ Cardinality(Stornos(b)) = IF row[b] = "REVERTED" THEN 1 ELSE 0
  BY DEF BooksAgree, Quiet
<1>1. Alone(b) /\ Kept(b) /\ Booked(b)
  BY DEF Lives, Life
<1>2. \A r \in Request : ~On(r, b)
  BY DEF Quiet, On
<1>3. items[b] \in {"none", row[b]}
  BY <1>1, <1>2 DEF Kept
<1>4. Published(b) = row[b] /\ Asked(b) = {}
  BY <1>2 DEF Published, Asked, Quiet
<1>5. Books(b, row[b])
  BY <1>1, <1>4 DEF Booked
<1>6. Cardinality({}) = 0 /\ \A k : Cardinality({k}) = 1
  BY FS_EmptySet, FS_Singleton
<1>7. Cardinality(Open(b)) = IF row[b] = "POSTED" THEN 1 ELSE 0
  BY <1>5, <1>6 DEF Books
<1>8. Cardinality(Stornos(b)) = IF row[b] = "REVERTED" THEN 1 ELSE 0
  BY <1>5, <1>6 DEF Books
<1> QED
  BY <1>3, <1>7, <1>8

\* Steps that have nothing to do with a bill.
LEMMA LifeStays ==
  ASSUME NEW b \in Bill, Life(b), items'[b] = items[b], row'[b] = row[b],
         Open(b)' = Open(b), Stornos(b)' = Stornos(b), Asked(b)' = Asked(b),
         \A q \in Request : On(q, b) \/ On(q, b)' => req'[q] = req[q]
  PROVE  Life(b)'
<1>1. \A q \in Request : On(q, b)' <=> On(q, b)
  BY DEF On, Running
<1>2. Alone(b)'
  BY <1>1 DEF Life, Alone
<1>3. Kept(b)'
  BY <1>1 DEF Life, Kept
<1>4. Published(b)' = Published(b)
  BY <1>1 DEF Published
<1>5. Booked(b)'
  BY <1>4 DEF Life, Booked, Books
<1> QED
  BY <1>2, <1>3, <1>5 DEF Life

LEMMA SameJournal ==
  ASSUME UNCHANGED journal, NEW b
  PROVE  Open(b)' = Open(b) /\ Stornos(b)' = Stornos(b) /\ Asked(b)' = Asked(b)
  BY DEF journal, Open, Originals, Stornos, Asked

\* Booked says the same while what is published and the journal stay.
LEMMA BookedStays ==
  ASSUME NEW b, Booked(b), Published(b)' = Published(b),
         Open(b)' = Open(b), Stornos(b)' = Stornos(b), Asked(b)' = Asked(b)
  PROVE  Booked(b)'
  BY DEF Booked, Books

\* Creating a bill.
LEMMA CreateLives ==
  ASSUME Typed, Lives, NEW r \in Request, NEW x \in Bill, CreateBill(r, x),
         NEW b \in Bill \ unsure'
  PROVE  Life(b)'
<1>1. /\ req[r] = New /\ req'[r].op = "create" /\ req'[r].at = "write" /\ req'[r].bills = {x}
      /\ req'[r].obj = Cached /\ req'[r].found[x] = "DRAFT"
      /\ \A p \in Request \ {r} : req'[p] = req[p]
  BY CreateSays
<1>2. /\ items[x] = "none" /\ row[x] = "none" /\ \A q \in Request : x \notin Touches(q)
      /\ items' = [items EXCEPT ![x] = "DRAFT"] /\ row' = row /\ unsure' = unsure
      /\ UNCHANGED journal
  BY DEF CreateBill
<1>3. Life(b)
  BY <1>2 DEF Lives
<1>4. Open(b)' = Open(b) /\ Stornos(b)' = Stornos(b) /\ Asked(b)' = Asked(b)
  BY <1>2, SameJournal
<1>5. ~Running(r)
  BY <1>1 DEF Running, New
<1>6. CASE b # x
  <2>1. items'[b] = items[b]
    BY <1>2, <1>6 DEF Typed
  <2>2. \A q \in Request : On(q, b) \/ On(q, b)' => req'[q] = req[q]
    BY <1>1, <1>5, <1>6 DEF On
  <2> QED
    BY <1>2, <1>3, <1>4, <2>1, <2>2, LifeStays
<1>7. CASE b = x
  <2>1. \A q \in Request : ~On(q, b)
    BY <1>2, <1>7 DEF On, Touches
  <2>2. \A q \in Request : On(q, b)' => q = r
    BY <1>1, <2>1 DEF On, Running
  <2>3. Alone(b)'
    BY <2>2 DEF Alone
  <2>4. items'[b] = "DRAFT" /\ row'[b] = "none" /\ On(r, b)'
    BY <1>1, <1>2, <1>7 DEF Typed, On, Running
  <2>5. Kept(b)'
    BY <1>1, <1>7, <2>2, <2>4 DEF Kept
  <2>6. Published(b)' = Published(b)
    BY <1>1, <1>2, <2>1, <2>2 DEF Published
  <2>7. Booked(b)'
    BY <1>3, <1>4, <2>6, BookedStays DEF Life
  <2> QED
    BY <2>3, <2>5, <2>7 DEF Life
<1> QED
  BY <1>6, <1>7

\* A request begins: it gets in nobody's way.
LEMMA BeginLives ==
  ASSUME Typed, Lives, NEW r \in Request, NEW op \in {"post", "reverse", "get", "list"}, NEW at,
         NEW bills \in SUBSET Bill, Begin(r, op, at, bills),
         op = "list" => at = "read",
         op # "list" => at \in {"read", "act"} /\ \E b \in Bill : bills = {b},
         NEW b \in Bill \ unsure'
  PROVE  Life(b)'
<1>1. /\ req[r] = New /\ req'[r].op = op /\ req'[r].at = at /\ req'[r].bills = bills
      /\ req'[r].obj = Cached
      /\ \A p \in Request \ {r} : req'[p] = req[p]
  BY BeginSays
<1>2. /\ unsure' = unsure \cup UNION {Touches(q) \cap bills :
                     q \in {q \in Request : Running(q) /\ ~Harmless(q, op, at)}}
      /\ UNCHANGED <<items, row>> /\ UNCHANGED journal
  BY DEF Begin
<1>3. Life(b)
  BY <1>2 DEF Lives
<1>4. Open(b)' = Open(b) /\ Stornos(b)' = Stornos(b) /\ Asked(b)' = Asked(b)
  BY <1>2, SameJournal
<1>5. ~Running(r)
  BY <1>1 DEF Running, New
<1>6. CASE b \notin bills
  <2>1. \A q \in Request : On(q, b) \/ On(q, b)' => req'[q] = req[q]
    BY <1>1, <1>5, <1>6 DEF On
  <2> QED
    BY <1>2, <1>3, <1>4, <2>1, LifeStays
<1>7. CASE b \in bills
  <2>1. \A q \in Request \ {r} : (On(q, b)' <=> On(q, b)) /\ (On(q, b) => req'[q] = req[q])
    BY <1>1 DEF On, Running
  <2>2. ~On(r, b) /\ On(r, b)'
    BY <1>1, <1>5, <1>7 DEF On, Running
  <2>3. ASSUME NEW q \in Request, On(q, b)
        PROVE  /\ at = "act" /\ req[q].at \in Holding
               /\ req[q].op = op \/ op = "get" \/ req[q].op = "get"
    <3>1. Harmless(q, op, at)
      BY <1>2, <1>7, <2>3 DEF On, Touches
    <3>2. req[q].at \in {"read", "fill"} \cup Holding
      BY <2>3, GoingRequest DEF On, Going
    <3> QED
      BY <3>1, <3>2 DEF Harmless
  <2>4. Alone(b)'
    <3>1. ASSUME NEW p \in Request, NEW q \in Request, On(p, b)', On(q, b)', p # q
          PROVE  /\ req'[p].at \in Holding /\ req'[q].at \in Holding
                 /\ req'[p].op = req'[q].op \/ req'[p].op = "get" \/ req'[q].op = "get"
      <4>1. CASE p = r
        BY <1>1, <2>1, <2>3, <3>1, <4>1 DEF Holding
      <4>2. CASE q = r
        BY <1>1, <2>1, <2>3, <3>1, <4>2 DEF Holding
      <4>3. CASE p # r /\ q # r
        BY <1>3, <2>1, <3>1, <4>3 DEF Life, Alone
      <4> QED
        BY <4>1, <4>2, <4>3
    <3> QED
      BY <3>1 DEF Alone
  <2>5. Kept(b)'
    <3>1. at \in {"read", "act"}
      OBVIOUS
    <3> QED
      BY <1>1, <1>2, <1>3, <2>1, <2>2, <3>1 DEF Life, Kept
  <2>6. Published(b)' = Published(b)
    BY <1>1, <1>2, <2>1, <2>2 DEF Published
  <2>7. Booked(b)'
    BY <1>3, <1>4, <2>6, BookedStays DEF Life
  <2> QED
    BY <2>4, <2>5, <2>7 DEF Life
<1> QED
  BY <1>6, <1>7

\* A request that has not changed the bill leaves it.
LEMMA LeaveLives ==
  ASSUME Typed, NEW b \in Bill, Life(b), NEW r \in Request,
         Running(r), req[r].at \notin {"write", "saved"}, req'[r] = Done,
         \A p \in Request \ {r} : On(p, b) \/ On(p, b)' => req'[p] = req[p],
         row'[b] = row[b], Open(b)' = Open(b), Stornos(b)' = Stornos(b), Asked(b)' = Asked(b),
         items'[b] = items[b] \/ /\ \A p \in Request : ~(On(p, b) /\ req[p].at = "write")
                                 /\ items'[b] = row[b]
  PROVE  Life(b)'
<1>1. ~On(r, b)'
  BY DEF On, Running, Done
<1>2. \A q \in Request : On(q, b)' => q # r /\ On(q, b) /\ req'[q] = req[q]
  BY <1>1 DEF On, Running
<1>3. \A q \in Request \ {r} : On(q, b)' <=> On(q, b)
  BY DEF On, Running
<1>4. Alone(b)'
  BY <1>2 DEF Life, Alone
<1>5. (\A p \in Request : ~(On(p, b)' /\ req'[p].at = "write"))
          <=> (\A p \in Request : ~(On(p, b) /\ req[p].at = "write"))
  BY <1>2, <1>3
<1>6. Kept(b)'
  BY <1>2, <1>5 DEF Life, Kept
<1>7. Published(b)' = Published(b)
  BY <1>2, <1>3 DEF Published
<1>8. Booked(b)'
  BY <1>7, BookedStays DEF Life
<1> QED
  BY <1>4, <1>6, <1>8 DEF Life

\* Reading the table: the bills of the request are its own.
LEMMA ReadLives ==
  ASSUME Typed, Lives, NEW r \in Request, ReadRows(r), NEW b \in Bill \ unsure'
  PROVE  Life(b)'
<1>1. /\ Running(r) /\ req[r].at = "read"
      /\ req'[r].op = req[r].op /\ req'[r].at = "fill" /\ req'[r].bills = req[r].bills
      /\ \A x \in req[r].bills : req'[r].found[x] = row[x]
      /\ \A p \in Request \ {r} : req'[p] = req[p]
  BY ReadSays
<1>2. UNCHANGED <<items, row, unsure>> /\ UNCHANGED journal
  BY DEF ReadRows
<1>3. Life(b)
  BY <1>2 DEF Lives
<1>4. Open(b)' = Open(b) /\ Stornos(b)' = Stornos(b) /\ Asked(b)' = Asked(b)
  BY <1>2, SameJournal
<1>5. CASE b \notin req[r].bills
  <2>1. \A q \in Request : On(q, b) \/ On(q, b)' => req'[q] = req[q]
    BY <1>1, <1>5 DEF On
  <2> QED
    BY <1>2, <1>3, <1>4, <2>1, LifeStays
<1>6. CASE b \in req[r].bills
  <2>1. On(r, b) /\ On(r, b)'
    BY <1>1, <1>6 DEF On, Running
  <2>2. \A q \in Request : On(q, b) => q = r
    BY <1>1, <1>3, <2>1 DEF Life, Alone, Holding
  <2>3. \A q \in Request : On(q, b)' => q = r
    BY <1>1, <2>2 DEF On, Running
  <2>4. Alone(b)'
    BY <2>3 DEF Alone
  <2>5. req'[r].obj = Cached
    <3>1. req[r].obj = Cached
      BY <1>3, <2>1 DEF Life, Kept
    <3>2. req[r] \in Going
      BY <1>1, GoingRequest
    <3>3. req' = [req EXCEPT ![r].at = "fill", ![r].found = [x \in req[r].bills |-> row[x]]]
      BY DEF ReadRows
    <3>4. req'[r] = [[req[r] EXCEPT !.at = "fill"] EXCEPT !.found = [x \in req[r].bills |-> row[x]]]
      BY <3>3 DEF Typed
    <3> QED
      BY <3>1, <3>2, <3>4 DEF Going
  <2>6. items[b] \in {"none", row[b]}
    BY <1>1, <1>3, <2>2 DEF Life, Kept
  <2>7. Kept(b)'
    BY <1>1, <1>2, <1>6, <2>3, <2>5, <2>6 DEF Kept
  <2>8. Published(b)' = Published(b)
    BY <1>1, <1>2, <2>2, <2>3 DEF Published
  <2>9. Booked(b)'
    BY <1>3, <1>4, <2>8, BookedStays DEF Life
  <2> QED
    BY <2>4, <2>7, <2>9 DEF Life
<1> QED
  BY <1>5, <1>6

LEMMA DomainLives ==
  ASSUME Typed, Lives, NEW r \in Request, ToDomain(r), NEW b \in Bill \ unsure'
  PROVE  Life(b)'
<1> DEFINE there == {x \in req[r].bills : req[r].found[x] # "none"}
<1>1. /\ Running(r) /\ req[r].at = "fill" /\ there \subseteq Bill
      /\ \A x \in there : items'[x] = req[r].found[x]
      /\ \A x \in Bill \ there : items'[x] = items[x]
      /\ req'[r] = Done \/ /\ req'[r] = [req[r] EXCEPT !.at = "act"] /\ req[r].op # "list"
                           /\ req[r].bills = there
      /\ \A p \in Request \ {r} :
            \/ req'[p] = req[p]
            \/ /\ Running(p) /\ req[p].at \in Holding /\ req[p].bills \subseteq there
               /\ \E obj \in Statuses : req'[p] = [req[p] EXCEPT !.obj = obj]
  BY ToDomainSays
<1>2. UNCHANGED <<row, unsure>> /\ UNCHANGED journal
  BY DEF ToDomain
<1>3. Life(b) /\ req[r] \in Going
  BY <1>1, <1>2, GoingRequest DEF Lives
<1>4. Open(b)' = Open(b) /\ Stornos(b)' = Stornos(b) /\ Asked(b)' = Asked(b)
  BY <1>2, SameJournal
<1>5. ASSUME NEW p \in Request \ {r}, req'[p] # req[p]
      PROVE  req[p].bills \subseteq there /\ req'[p].bills = req[p].bills
             /\ Running(p) /\ req[p].at \in Holding
  BY <1>1, <1>5, GoingRequest DEF Going
<1>6. CASE b \notin req[r].bills
  <2>1. b \notin there /\ items'[b] = items[b]
    BY <1>1, <1>6
  <2>2. req'[r] = Done \/ req'[r].bills = req[r].bills
    BY <1>1, <1>3 DEF Going
  <2>3. ~On(r, b) /\ ~On(r, b)'
    BY <1>6, <2>2 DEF On, Running, Done
  <2>4. \A q \in Request : On(q, b) \/ On(q, b)' => req'[q] = req[q]
    BY <1>5, <2>1, <2>3 DEF On
  <2> QED
    BY <1>2, <1>3, <1>4, <2>1, <2>4, LifeStays
<1>7. CASE b \in req[r].bills
  <2>1. On(r, b)
    BY <1>1, <1>7 DEF On
  <2>2. \A q \in Request : On(q, b) => q = r
    BY <1>1, <1>3, <2>1 DEF Life, Alone, Holding
  <2>3. \A p \in Request \ {r} : ~On(p, b)'
    <3>1. ASSUME NEW p \in Request \ {r}, On(p, b)' PROVE FALSE
      <4>1. CASE req'[p] = req[p]
        BY <2>2, <3>1, <4>1 DEF On, Running
      <4>2. CASE req'[p] # req[p]
        BY <1>5, <2>2, <3>1, <4>2 DEF On
      <4> QED
        BY <4>1, <4>2
    <3> QED
      BY <3>1
  <2>4. /\ req[r].found[b] = row[b] /\ items[b] \in {"none", row[b]} /\ req[r].obj = Cached
        /\ \A p \in Request : ~(On(p, b) /\ req[p].at = "write")
    BY <1>1, <1>3, <2>1, <2>2 DEF Life, Kept
  <2>5. items'[b] \in {items[b], row[b]}
    BY <1>1, <2>4
  <2>6. CASE req'[r] = Done
    <3>1. items'[b] = items[b] \/ items'[b] = row[b]
      BY <2>5
    <3>2. \A p \in Request \ {r} : On(p, b) \/ On(p, b)' => req'[p] = req[p]
      BY <2>2, <2>3
    <3>3. req[r].at \notin {"write", "saved"}
      BY <1>1
    <3> QED
      BY <1>1, <1>2, <1>3, <1>4, <2>4, <2>6, <3>1, <3>2, <3>3, LeaveLives
  <2>7. CASE req'[r] = [req[r] EXCEPT !.at = "act"]
    <3>1. req'[r].at = "act" /\ req'[r].obj = Cached
      BY <1>3, <2>4, <2>7 DEF Going
    <3>2. \A q \in Request : On(q, b)' => q = r
      BY <2>3
    <3>3. Alone(b)'
      BY <3>2 DEF Alone
    <3>4. Kept(b)'
      BY <1>2, <2>4, <2>5, <3>1, <3>2 DEF Kept
    <3>5. Published(b)' = Published(b)
      BY <1>1, <1>2, <2>2, <3>1, <3>2 DEF Published
    <3>6. Booked(b)'
      BY <1>3, <1>4, <3>5, BookedStays DEF Life
    <3> QED
      BY <3>3, <3>4, <3>6 DEF Life
  <2> QED
    BY <1>1, <2>6, <2>7
<1> QED
  BY <1>6, <1>7

\* A command changes the object in the map: nobody else has.
LEMMA ActLives ==
  ASSUME Typed, Lives, NEW r \in Request, Act(r), NEW b \in Bill \ unsure'
  PROVE  Life(b)'
<1> DEFINE x == BillOf(r)  to == Change(req[r].op, Held(r), tax[x])
<1>1. /\ x \in Bill /\ req[r].bills = {x} /\ Running(r)
      /\ \/ to = "refused" /\ Finish(r) /\ items' = items
         \/ /\ to \in {"POSTED", "REVERTED"} /\ items' = [items EXCEPT ![x] = to]
            /\ req[r].op \in {"post", "reverse"}
            /\ req'[r].at = "write" /\ req'[r].obj = Cached /\ req'[r].found[x] = to
            /\ req'[r].op = req[r].op /\ req'[r].bills = {x}
      /\ \A p \in Request \ {r} :
            \/ req'[p] = req[p]
            \/ /\ Running(p) /\ req[p].at \in Holding /\ req[p].bills = {x} /\ req[r].obj # Cached
               /\ \E obj \in Statuses : req'[p] = [req[p] EXCEPT !.obj = obj]
  BY ActSays
<1>2. req[r].at = "act" /\ UNCHANGED <<row, unsure>> /\ UNCHANGED journal
  BY DEF Act
<1>3. Life(b)
  BY <1>2 DEF Lives
<1>4. Open(b)' = Open(b) /\ Stornos(b)' = Stornos(b) /\ Asked(b)' = Asked(b)
  BY <1>2, SameJournal
<1>5. to # "refused" => \/ req[r].op = "post" /\ Held(r) = "DRAFT" /\ to = "POSTED"
                        \/ req[r].op = "reverse" /\ Held(r) = "POSTED" /\ to = "REVERTED"
  BY DEF Change
<1>6. PICK s : s = to
  OBVIOUS
<1>7. PICK y : y = x
  OBVIOUS
<1>8. CASE b # y
  <2>1. items'[b] = items[b]
    BY <1>1, <1>7, <1>8 DEF Typed
  <2>2. ~On(r, b) /\ ~On(r, b)'
    <3>1. req'[r] = Done \/ req'[r].bills = {x}
      BY <1>1 DEF Finish, Typed
    <3> QED
      BY <1>1, <1>7, <1>8, <3>1 DEF On, Running, Done
  <2>3. \A p \in Request \ {r} : On(p, b) \/ On(p, b)' => req'[p] = req[p]
    <3>1. ASSUME NEW p \in Request \ {r}, req'[p] # req[p] PROVE ~On(p, b) /\ ~On(p, b)'
      <4>1. req[p].bills = {x} /\ req'[p].bills = {x}
        BY <1>1, <3>1, GoingRequest DEF Going
      <4> QED
        BY <1>7, <1>8, <4>1 DEF On
    <3> QED
      BY <3>1
  <2>4. \A q \in Request : On(q, b) \/ On(q, b)' => req'[q] = req[q]
    BY <2>2, <2>3
  <2> QED
    BY <1>2, <1>3, <1>4, <2>1, <2>4, LifeStays
<1>9. CASE b = y
  <2>1. On(r, b) /\ req[r].obj = Cached /\ Held(r) = items[b]
    <3>1. On(r, b)
      BY <1>1, <1>7, <1>9 DEF On
    <3>2. req[r].obj = Cached
      BY <1>3, <3>1 DEF Life, Kept
    <3> QED
      BY <1>7, <1>9, <3>1, <3>2 DEF Held
  <2>2. \A p \in Request \ {r} : req'[p] = req[p]
    BY <1>1, <2>1
  <2>3. CASE to = "refused"
    <3>1. req'[r] = Done /\ items' = items
      BY <1>1, <2>3 DEF Finish, Typed
    <3>2. \A p \in Request \ {r} : On(p, b) \/ On(p, b)' => req'[p] = req[p]
      BY <2>2
    <3>3. req[r].at \notin {"write", "saved"} /\ items'[b] = items[b] /\ row'[b] = row[b]
      BY <1>2, <3>1
    <3> QED
      BY <1>1, <1>3, <1>4, <3>1, <3>2, <3>3, LeaveLives
  <2>4. CASE to # "refused"
    <3>1. /\ items'[b] = s /\ req'[r].at = "write" /\ req'[r].obj = Cached /\ req'[r].found[b] = s
          /\ req'[r].op = req[r].op /\ req'[r].bills = {b}
      BY <1>1, <1>6, <1>7, <1>9, <2>4 DEF Typed
    <3>2. \/ req[r].op = "post" /\ items[b] = "DRAFT" /\ s = "POSTED"
          \/ req[r].op = "reverse" /\ items[b] = "POSTED" /\ s = "REVERTED"
      BY <1>5, <1>6, <2>1, <2>4
    <3>3. On(r, b)' /\ \A p \in Request \ {r} : On(p, b)' <=> On(p, b)
      BY <2>2, <3>1 DEF On, Running
    <3>4. \A p \in Request \ {r} : On(p, b) => req[p].op = req[r].op \/ req[p].op = "get"
      BY <1>3, <2>1, <3>2 DEF Life, Alone
    <3>5. \A p \in Request \ {r} : On(p, b) => req[p].at \notin {"write"}
      BY <1>3, <3>2, <3>4 DEF Life, Kept
    <3>6. items[b] \in {"none", row[b]}
      BY <1>2, <1>3, <3>5 DEF Life, Kept
    <3>7. row[b] = items[b]
      BY <3>2, <3>6
    <3>8. \A p \in Request \ {r} : On(p, b) => req[p].at \notin {"write", "saved"}
      BY <1>3, <3>2, <3>4, <3>5, <3>7 DEF Life, Kept
    <3>9. Alone(b)'
      <4>1. ASSUME NEW p \in Request, NEW q \in Request, On(p, b)', On(q, b)', p # q
            PROVE  /\ req'[p].at \in Holding /\ req'[q].at \in Holding
                   /\ req'[p].op = req'[q].op \/ req'[p].op = "get" \/ req'[q].op = "get"
        <5>1. On(p, b) /\ On(q, b) /\ req'[p].op = req[p].op /\ req'[q].op = req[q].op
          BY <2>1, <2>2, <3>1, <3>3, <4>1
        <5>2. /\ req[p].at \in Holding /\ req[q].at \in Holding
              /\ req[p].op = req[q].op \/ req[p].op = "get" \/ req[q].op = "get"
          BY <1>3, <4>1, <5>1 DEF Life, Alone
        <5>3. req'[p].at \in Holding /\ req'[q].at \in Holding
          BY <2>2, <3>1, <5>2 DEF Holding
        <5> QED
          BY <5>1, <5>2, <5>3
      <4> QED
        BY <4>1 DEF Alone
    <3>10. \A p \in Request : On(p, b)' => req'[p].at # "saved" /\ (req'[p].at = "write" => p = r)
      BY <2>2, <3>1, <3>3, <3>8
    <3>11. row'[b] = row[b]
      BY <1>2
    <3>12. \A p \in Request : On(p, b)' => req'[p].obj = Cached
      BY <1>3, <2>2, <3>1, <3>3 DEF Life, Kept
    <3>13. \A p \in Request : On(p, b)' /\ req'[p].at = "fill" => req'[p].found[b] = row[b]
      BY <1>3, <2>2, <3>1, <3>3 DEF Life, Kept
    <3>14. Kept(b)'
      BY <3>1, <3>2, <3>3, <3>7, <3>10, <3>11, <3>12, <3>13 DEF Kept
    <3>15. Published(b)' = Published(b)
      <4>1. ~ \E p \in Request : On(p, b) /\ req[p].at = "saved"
        BY <1>2, <3>8
      <4>2. ~ \E p \in Request : On(p, b)' /\ req'[p].at = "saved"
        BY <3>10
      <4> QED
        BY <3>11, <4>1, <4>2 DEF Published
    <3>16. Booked(b)'
      BY <1>3, <1>4, <3>15, BookedStays DEF Life
    <3> QED
      BY <3>9, <3>14, <3>16 DEF Life
  <2> QED
    BY <2>3, <2>4
<1> QED
  BY <1>8, <1>9

\* The row gets the status of the object.
LEMMA WriteLives ==
  ASSUME Typed, Lives, NEW r \in Request, WriteRow(r), NEW b \in Bill \ unsure'
  PROVE  Life(b)'
<1>1. PICK x \in Bill :
         /\ Running(r) /\ req[r].at = "write"
         /\ req[r].bills = {x} /\ row' = [row EXCEPT ![x] = req[r].found[x]]
         /\ \/ req'[r] = Done /\ req[r].op = "create"
            \/ /\ req[r].op \in {"post", "reverse"}
               /\ req'[r].at = "saved" /\ req'[r].op = req[r].op /\ req'[r].bills = {x}
               /\ req'[r].obj = req[r].obj
         /\ \A p \in Request \ {r} : req'[p] = req[p]
  BY WriteSays
<1>2. UNCHANGED <<items, unsure>> /\ UNCHANGED journal
  BY DEF WriteRow
<1>3. Life(b)
  BY <1>2 DEF Lives
<1>4. Open(b)' = Open(b) /\ Stornos(b)' = Stornos(b) /\ Asked(b)' = Asked(b)
  BY <1>2, SameJournal
<1>5. CASE b # x
  <2>1. \A q \in Request : On(q, b) \/ On(q, b)' => req'[q] = req[q]
    BY <1>1, <1>5 DEF On, Running, Done
  <2>2. row'[b] = row[b]
    BY <1>1, <1>5 DEF Typed
  <2> QED
    BY <1>2, <1>3, <1>4, <2>1, <2>2, LifeStays
<1>6. CASE b = x
  <2>1. On(r, b)
    BY <1>1, <1>6 DEF On
  <2>2. /\ req[r].found[b] = items[b] /\ row'[b] = items[b] /\ req[r].obj = Cached
        /\ \/ req[r].op = "create" /\ items[b] = "DRAFT" /\ row[b] = "none"
           \/ req[r].op = "post" /\ items[b] = "POSTED" /\ row[b] = "DRAFT"
           \/ req[r].op = "reverse" /\ items[b] = "REVERTED" /\ row[b] = "POSTED"
    BY <1>1, <1>3, <1>6, <2>1 DEF Life, Kept, Typed
  <2>3. \A p \in Request \ {r} : On(p, b)' <=> On(p, b)
    BY <1>1 DEF On, Running
  <2>4. \A p \in Request \ {r} : On(p, b) => req[p].at = "act" /\ req[p].obj = Cached
    <3>1. ASSUME NEW p \in Request \ {r}, On(p, b) PROVE req[p].at = "act" /\ req[p].obj = Cached
      <4>1. req[p].at \in Holding
        BY <1>3, <2>1, <3>1 DEF Life, Alone
      <4>2. req[p].at \notin {"write", "saved"} /\ req[p].obj = Cached
        BY <1>1, <1>3, <2>1, <3>1 DEF Life, Kept
      <4> QED
        BY <4>1, <4>2 DEF Holding
    <3> QED
      BY <3>1
  <2>5. On(r, b)' => req'[r].at = "saved" /\ req'[r].op = req[r].op /\ req'[r].obj = Cached
    BY <1>1, <2>2 DEF On, Running, Done
  <2>6. Alone(b)'
    <3>1. ASSUME NEW p \in Request, NEW q \in Request, On(p, b)', On(q, b)', p # q
          PROVE  /\ req'[p].at \in Holding /\ req'[q].at \in Holding
                 /\ req'[p].op = req'[q].op \/ req'[p].op = "get" \/ req'[q].op = "get"
      <4>1. /\ On(p, b) /\ On(q, b) /\ req'[p].op = req[p].op /\ req'[q].op = req[q].op
            /\ req'[p].at \in Holding /\ req'[q].at \in Holding
        BY <1>1, <2>1, <2>3, <2>4, <2>5, <3>1 DEF Holding
      <4>2. req[p].op = req[q].op \/ req[p].op = "get" \/ req[q].op = "get"
        BY <1>3, <3>1, <4>1 DEF Life, Alone
      <4> QED
        BY <4>1, <4>2
    <3> QED
      BY <3>1 DEF Alone
  <2>7. \A p \in Request : On(p, b)' /\ p # r => req'[p].at = "act" /\ req'[p].obj = Cached
    BY <1>1, <2>3, <2>4
  <2>8. items'[b] = items[b]
    BY <1>2
  <2>9. Kept(b)'
    <3>1. On(r, b)' => \/ req'[r].op = "post" /\ row'[b] = "POSTED"
                       \/ req'[r].op = "reverse" /\ row'[b] = "REVERTED"
      BY <1>1, <2>2, <2>5 DEF On, Running, Done
    <3> QED
      BY <2>2, <2>5, <2>7, <2>8, <3>1 DEF Kept
  <2>10. ~ \E p \in Request : On(p, b) /\ req[p].at = "saved"
    BY <1>1, <2>4
  <2>11. Published(b) = row[b]
    BY <2>10 DEF Published
  <2>12. CASE req[r].op = "create"
    <3>1. ~ \E p \in Request : On(p, b)' /\ req'[p].at = "saved"
      BY <1>1, <2>7, <2>12 DEF On, Running, Done
    <3>2. Published(b)' = "DRAFT" /\ Published(b) = "none"
      BY <2>2, <2>11, <2>12, <3>1 DEF Published
    <3>3. Booked(b)'
      BY <1>3, <1>4, <3>2 DEF Life, Booked, Books
    <3> QED
      BY <2>6, <2>9, <3>3 DEF Life
  <2>13. CASE req[r].op # "create"
    <3>1. On(r, b)' /\ req'[r].at = "saved"
      BY <1>1, <1>6, <2>13 DEF On, Running
    <3>2. Published(b)' = Before(row'[b])
      BY <3>1 DEF Published
    <3>3. Published(b)' = Published(b)
      BY <2>2, <2>11, <2>13, <3>2 DEF Before
    <3>4. Booked(b)'
      BY <1>3, <1>4, <3>3, BookedStays DEF Life
    <3> QED
      BY <2>6, <2>9, <3>4 DEF Life
  <2> QED
    BY <2>12, <2>13
<1> QED
  BY <1>5, <1>6

LEMMA FailLives ==
  ASSUME Typed, Lives, NEW r \in Request, SaveFails(r), NEW b \in Bill \ unsure'
  PROVE  Life(b)'
<1>1. /\ Running(r) /\ req[r].at = "write" /\ unsure' = unsure \cup {BillOf(r)}
      /\ Finish(r) /\ UNCHANGED <<items, row>> /\ UNCHANGED journal
  BY DEF SaveFails, Running
<1>2. req[r].bills = {BillOf(r)}
  <2>1. req[r].op # "list"
    BY <1>1, GoingRequest
  <2> QED
    BY <1>1, <2>1, GoingRequest
<1>3. Life(b) /\ b # BillOf(r)
  BY <1>1 DEF Lives
<1>4. req'[r] = Done /\ \A p \in Request : p # r => req'[p] = req[p]
  BY <1>1, RequestUpdate DEF Finish, Typed
<1>5. \A q \in Request : On(q, b) \/ On(q, b)' => req'[q] = req[q]
  BY <1>2, <1>3, <1>4 DEF On, Running, Done
<1>6. Open(b)' = Open(b) /\ Stornos(b)' = Stornos(b) /\ Asked(b)' = Asked(b)
  BY <1>1, SameJournal
<1> QED
  BY <1>1, <1>3, <1>5, <1>6, LifeStays

\* A command is handled: the books of its bill go on by one, the others stay.
LEMMA DispatchBooks ==
  ASSUME JournalInv, NEW type \in Commands, NEW b, NEW delta, NEW inFlight,
         DispatchLocally(type, b, delta, inFlight)
  PROVE  /\ \A x : Asked(x)' = {e \in inFlight : e.bill = x /\ e.type # Told}
         /\ \A x : x # b => Open(x)' = Open(x) /\ Stornos(x)' = Stornos(x)
         /\ type = "billPosted" /\ Books(b, "DRAFT") => Books(b, "POSTED")'
         /\ type = "billRevertRequested" /\ Books(b, "POSTED") => Books(b, "REVERTED")'
<1>1. type # "journalEntryPosted"
  BY DEF Commands
<1>2. PICK told : /\ told.type = Told
                  /\ bus' = inFlight \/ bus' = inFlight \cup {told}
  <2> DEFINE t == [id |-> lastEvent + 1, type |-> "journalEntryPosted", bill |-> b,
                   delta |-> IF type = "billPosted" THEN 1 ELSE -1]
  <2>1. t.type = Told
    BY DEF Told
  <2>2. bus' = inFlight \/ bus' = inFlight \cup {t}
    BY <1>1 DEF DispatchLocally
  <2> QED
    BY <2>1, <2>2
<1>3. \A x : Asked(x)' = {e \in inFlight : e.bill = x /\ e.type # Told}
  BY <1>2 DEF Asked
<1>4. CASE type = "billPosted"
  <2>1. entries' = Recorded(b)
    BY <1>1, <1>4 DEF DispatchLocally
  <2> DEFINE n == Len(entries) + 1
  <2>2. /\ Open(b)' = Open(b) \cup {n} /\ Stornos(b)' = Stornos(b)
        /\ \A x : x # b => Open(x)' = Open(x) /\ Stornos(x)' = Stornos(x)
    BY <2>1, RecordedLines
  <2> HIDE DEF n
  <2>3. Books(b, "DRAFT") => Books(b, "POSTED")'
    <3>1. Books(b, "DRAFT") => Open(b)' = {n} /\ Stornos(b)' = {}
      BY <2>2 DEF Books
    <3> QED
      BY <3>1 DEF Books
  <2> QED
    BY <1>3, <1>4, <2>2, <2>3
<1>5. CASE type = "billRevertRequested"
  <2>1. entries' = Reversed(b)
    BY <1>1, <1>5 DEF DispatchLocally
  <2>2. CASE Open(b) = {}
    <3>1. entries' = entries
      BY <2>1, <2>2 DEF Reversed
    <3>2. \A x : Open(x)' = Open(x) /\ Stornos(x)' = Stornos(x)
      BY <3>1 DEF Open, Originals, Stornos
    <3>3. ~Books(b, "POSTED")
      BY <2>2 DEF Books
    <3> QED
      BY <1>3, <1>5, <3>2, <3>3
  <2>3. CASE Open(b) # {}
    <3> DEFINE n == Len(entries) + 1
    <3>1. /\ Stornos(b)' = Stornos(b) \cup {n}
          /\ \E f \in Open(b) : Open(b)' = Open(b) \ {f}
          /\ \A x : x # b => Open(x)' = Open(x) /\ Stornos(x)' = Stornos(x)
      BY <2>1, <2>3, ReversedLines
    <3> HIDE DEF n
    <3>2. Books(b, "POSTED") => Books(b, "REVERTED")'
      <4>1. Books(b, "POSTED") => Open(b)' = {} /\ Stornos(b)' = {n}
        BY <3>1 DEF Books
      <4> QED
        BY <4>1 DEF Books
    <3> QED
      BY <1>3, <1>5, <3>1, <3>2
  <2> QED
    BY <2>2, <2>3
<1> QED
  BY <1>4, <1>5 DEF Commands

\* Without Pub/Sub nothing waits on the bus.
BusIsUsed == bus # {} => UsePubSub

LEMMA DispatchUses ==
  ASSUME BusIsUsed, NEW type, NEW b, NEW delta, NEW inFlight \in SUBSET bus,
         DispatchLocally(type, b, delta, inFlight), scene' = scene
  PROVE  BusIsUsed'
<1>1. bus' = inFlight \/ UsePubSub
  BY DEF DispatchLocally
<1> QED
  BY <1>1 DEF BusIsUsed, UsePubSub

\* A command reaches the bus: the bus has been told what is in the row.
LEMMA PublishLives ==
  ASSUME Typed, JournalInv, BusIsUsed, Lives, NEW r \in Request, Publish(r),
         NEW b \in Bill \ unsure'
  PROVE  Life(b)'
<1> DEFINE kind == IF req[r].op = "post" THEN "billPosted" ELSE "billRevertRequested"
<1>1. PICK x \in Bill, type \in Commands :
         /\ type = kind /\ x = BillOf(r)
         /\ Running(r) /\ req[r].at = "saved" /\ req[r].op \in {"post", "reverse"}
         /\ req[r].bills = {x} /\ req'[r] = Done /\ \A p \in Request \ {r} : req'[p] = req[p]
         /\ UNCHANGED <<items, row>>
         /\ \/ /\ UNCHANGED entries
               /\ bus' = bus \cup {[id |-> lastEvent + 1, type |-> type, bill |-> x, delta |-> 0]}
               /\ unsure' = unsure \cup
                      {y \in {x} : \E e \in bus : e.bill = x /\ e.type # "journalEntryPosted"}
            \/ bus = {} /\ DispatchLocally(type, x, 0, bus) /\ unsure' = unsure
  BY PublishSays DEF BusIsUsed
<1>2. Life(b)
  BY <1>1 DEF Lives
<1>3. \A p \in Request \ {r} : (On(p, b)' <=> On(p, b)) /\ req'[p] = req[p]
  BY <1>1 DEF On, Running
<1>4. ~On(r, b)'
  BY <1>1 DEF On, Running, Done
<1>5. CASE b # x
  <2>1. ~On(r, b)
    BY <1>1, <1>5 DEF On
  <2>2. \A q \in Request : On(q, b) \/ On(q, b)' => req'[q] = req[q]
    BY <1>3, <1>4, <2>1
  <2>3. Open(b)' = Open(b) /\ Stornos(b)' = Stornos(b) /\ Asked(b)' = Asked(b)
    <3>1. CASE /\ UNCHANGED entries
               /\ bus' = bus \cup {[id |-> lastEvent + 1, type |-> type, bill |-> x, delta |-> 0]}
      <4>1. Open(b)' = Open(b) /\ Stornos(b)' = Stornos(b)
        BY <3>1 DEF Open, Originals, Stornos
      <4>2. Asked(b)' = Asked(b)
        BY <1>5, <3>1 DEF Asked
      <4> QED
        BY <4>1, <4>2
    <3>2. CASE DispatchLocally(type, x, 0, bus)
      <4>1. /\ \A z : Asked(z)' = {e \in bus : e.bill = z /\ e.type # Told}
            /\ \A z : z # x => Open(z)' = Open(z) /\ Stornos(z)' = Stornos(z)
        BY <3>2, DispatchBooks
      <4> QED
        BY <1>5, <4>1 DEF Asked
    <3> QED
      BY <1>1, <3>1, <3>2
  <2> QED
    BY <1>1, <1>2, <2>2, <2>3, LifeStays
<1>6. CASE b = x
  <2>1. On(r, b)
    BY <1>1, <1>6 DEF On
  <2>2. \/ req[r].op = "post" /\ row[b] = "POSTED" /\ type = "billPosted"
        \/ req[r].op = "reverse" /\ row[b] = "REVERTED" /\ type = "billRevertRequested"
    BY <1>1, <1>2, <2>1 DEF Life, Kept
  <2>3. \A p \in Request : On(p, b)' => p # r /\ On(p, b) /\ req'[p] = req[p]
    BY <1>3, <1>4
  <2>4. Alone(b)'
    BY <1>2, <2>3 DEF Life, Alone
  <2>5. \A p \in Request \ {r} : On(p, b) => req[p].at \notin {"write", "saved"}
    BY <1>1, <1>2, <2>1 DEF Life, Kept
  <2>6. items[b] \in {"none", row[b]}
    BY <1>1, <1>2, <2>5 DEF Life, Kept
  <2>7. Kept(b)'
    BY <1>1, <1>2, <2>3, <2>5, <2>6 DEF Life, Kept
  <2>8. Published(b) = Before(row[b])
    BY <1>1, <2>1 DEF Published
  <2>9. ~ \E p \in Request : On(p, b)' /\ req'[p].at = "saved"
    BY <2>3, <2>5
  <2>10. Published(b)' = row[b]
    BY <1>1, <2>9 DEF Published
  <2>11. CASE /\ UNCHANGED entries
              /\ bus' = bus \cup {[id |-> lastEvent + 1, type |-> type, bill |-> x, delta |-> 0]}
              /\ unsure' = unsure \cup
                     {y \in {x} : \E e \in bus : e.bill = x /\ e.type # "journalEntryPosted"}
    <3> DEFINE event == [id |-> lastEvent + 1, type |-> type, bill |-> x, delta |-> 0]
    <3>1. event.type = type /\ event.bill = b /\ type # Told
      BY <1>6, <2>2 DEF Told
    <3>2. bus' = bus \cup {event}
      BY <2>11
    <3> HIDE DEF event
    <3>3. Asked(b) = {}
      BY <1>6, <2>11 DEF Asked, Told
    <3>4. Asked(b)' = {event}
      BY <3>1, <3>2, <3>3 DEF Asked
    <3>5. Open(b)' = Open(b) /\ Stornos(b)' = Stornos(b)
      BY <2>11 DEF Open, Originals, Stornos
    <3>6. Books(b, Published(b))
      BY <1>2, <3>3 DEF Life, Booked
    <3>7. Books(b, Before(Published(b)))'
      BY <2>2, <2>8, <2>10, <3>5, <3>6 DEF Books, Before
    <3>8. Booked(b)'
      BY <2>2, <2>10, <3>1, <3>4, <3>7 DEF Booked
    <3> QED
      BY <2>4, <2>7, <3>8 DEF Life
  <2>12. CASE bus = {} /\ DispatchLocally(type, x, 0, bus)
    <3>1. /\ \A z : Asked(z)' = {e \in bus : e.bill = z /\ e.type # Told}
          /\ type = "billPosted" /\ Books(x, "DRAFT") => Books(x, "POSTED")'
          /\ type = "billRevertRequested" /\ Books(x, "POSTED") => Books(x, "REVERTED")'
      BY <2>12, DispatchBooks
    <3>2. Asked(b)' = Asked(b)
      BY <3>1 DEF Asked
    <3>3. Published(b) \in {"DRAFT", "POSTED"}
      BY <2>2, <2>8 DEF Before
    <3>4. Asked(b) = {} /\ Books(b, Published(b))
      BY <1>2, <2>12 DEF Life, Booked, Asked
    <3>5. Books(b, row[b])'
      <4>1. CASE row[b] = "POSTED"
        <5>1. Books(b, "POSTED")'
          BY <1>6, <2>2, <2>8, <3>1, <3>4, <4>1 DEF Before
        <5> QED
          BY <1>1, <4>1, <5>1 DEF Books
      <4>2. CASE row[b] = "REVERTED"
        <5>1. Books(b, "REVERTED")'
          BY <1>6, <2>2, <2>8, <3>1, <3>4, <4>2 DEF Before
        <5> QED
          BY <1>1, <4>2, <5>1 DEF Books
      <4> QED
        BY <2>2, <4>1, <4>2
    <3>6. Booked(b)'
      BY <1>1, <2>10, <3>2, <3>4, <3>5 DEF Booked, Books
    <3> QED
      BY <2>4, <2>7, <3>6 DEF Life
  <2> QED
    BY <1>1, <2>11, <2>12
<1> QED
  BY <1>5, <1>6

\* The handlers of an event: the command that waited is in the journal now.
LEMMA AnsweredLives ==
  ASSUME Sound, Lives, NEW e \in bus, Answered(e), NEW b \in Bill \ unsure'
  PROVE  Life(b)'
<1>1. /\ DispatchLocally(e.type, e.bill, e.delta, bus \ {e})
      /\ UNCHANGED <<items, row, req, unsure>>
  BY DEF Answered
<1>2. Life(b)
  BY <1>1 DEF Lives
<1>3. /\ e.type \in Commands \/ e.type = Told
      /\ JournalInv
  BY DEF Sound, BusOK
<1>4. \A q \in Request : On(q, b) \/ On(q, b)' => req'[q] = req[q]
  BY <1>1
<1>5. CASE e.type = Told
  <2>1. entries' = entries /\ bus' = bus \ {e}
    BY <1>1, <1>5 DEF DispatchLocally, Told
  <2>2. Asked(b)' = Asked(b)
    BY <1>5, <2>1 DEF Asked
  <2>3. Open(b)' = Open(b) /\ Stornos(b)' = Stornos(b)
    BY <2>1 DEF Open, Originals, Stornos
  <2> QED
    BY <1>1, <1>2, <1>4, <2>2, <2>3, LifeStays
<1>6. CASE e.type \in Commands
  <2>1. PICK type, x, delta, rest :
          /\ type \in Commands /\ type = e.type /\ x = e.bill /\ rest = bus \ {e}
          /\ DispatchLocally(type, x, delta, rest)
    BY <1>1, <1>6
  <2>2. /\ \A z : Asked(z)' = {f \in rest : f.bill = z /\ f.type # Told}
        /\ \A z : z # x => Open(z)' = Open(z) /\ Stornos(z)' = Stornos(z)
        /\ type = "billPosted" /\ Books(x, "DRAFT") => Books(x, "POSTED")'
        /\ type = "billRevertRequested" /\ Books(x, "POSTED") => Books(x, "REVERTED")'
    BY <1>3, <2>1, DispatchBooks
  <2>3. CASE b # x
    <3>1. Asked(b)' = Asked(b)
      BY <2>1, <2>2, <2>3 DEF Asked
    <3> QED
      BY <1>1, <1>2, <1>4, <2>2, <2>3, <3>1, LifeStays
  <2>4. CASE b = x
    <3>1. e \in Asked(b)
      BY <1>6, <2>1, <2>4 DEF Asked, Commands, Told
    <3>2. /\ Asked(b) = {e} /\ Books(b, Before(Published(b)))
          /\ \/ type = "billPosted" /\ Published(b) = "POSTED"
             \/ type = "billRevertRequested" /\ Published(b) = "REVERTED"
      BY <1>2, <2>1, <3>1 DEF Life, Booked
    <3>3. Asked(b)' = {}
      BY <2>1, <2>2, <3>2 DEF Asked
    <3>4. \A q \in Request : (On(q, b)' <=> On(q, b)) /\ req'[q] = req[q]
      BY <1>1 DEF On, Running
    <3>5. Alone(b)' /\ Kept(b)'
      BY <1>1, <1>2, <3>4 DEF Life, Alone, Kept
    <3>6. Published(b)' = Published(b)
      BY <1>1, <3>4 DEF Published
    <3>7. Books(b, Published(b))'
      <4>1. CASE type = "billPosted" /\ Published(b) = "POSTED"
        <5>1. Books(b, "POSTED")'
          BY <2>2, <2>4, <3>2, <4>1 DEF Before
        <5> QED
          BY <3>6, <4>1, <5>1 DEF Books
      <4>2. CASE type = "billRevertRequested" /\ Published(b) = "REVERTED"
        <5>1. Books(b, "REVERTED")'
          BY <2>2, <2>4, <3>2, <4>2 DEF Before
        <5> QED
          BY <3>6, <4>2, <5>1 DEF Books
      <4> QED
        BY <3>2, <4>1, <4>2
    <3>8. Booked(b)'
      BY <3>3, <3>7 DEF Booked
    <3> QED
      BY <3>5, <3>8 DEF Life
  <2> QED
    BY <2>3, <2>4
<1> QED
  BY <1>3, <1>5, <1>6

LEMMA RestartLives ==
  ASSUME Typed, Lives, Restart, NEW b \in Bill \ unsure'
  PROVE  Life(b)'
<1>1. /\ entries' = <<>> /\ bus' = {} /\ row' = row /\ items' = [x \in Bill |-> "none"]
      /\ \A p \in Request : req'[p] \in {New, Done}
      /\ unsure' = unsure \cup {x \in Bill : row[x] \in {"POSTED", "REVERTED"}}
  BY RestartSays
<1>2. \A p \in Request : ~On(p, b)'
  BY <1>1 DEF On, Running, New, Done
<1>3. row'[b] \notin {"POSTED", "REVERTED"} /\ items'[b] = "none"
  BY <1>1
<1>4. Alone(b)' /\ Kept(b)'
  BY <1>2, <1>3 DEF Alone, Kept
<1>5. Published(b)' = row'[b]
  BY <1>2 DEF Published
<1>6. Asked(b)' = {}
  BY <1>1 DEF Asked
<1>7. DOMAIN entries' = {}
  BY <1>1
<1>8. Open(b)' = {} /\ Stornos(b)' = {}
  BY <1>7 DEF Open, Originals, Stornos
<1>9. Books(b, Published(b))'
  BY <1>3, <1>5, <1>8 DEF Books
<1>10. Booked(b)'
  BY <1>6, <1>9 DEF Booked
<1> QED
  BY <1>4, <1>10 DEF Life

-----------------------------------------------------------------------------
Inv == Sound /\ BusIsUsed /\ Lives

\* A request that begins, or reads, or fails, leaves the journal alone.
LEMMA RequestIsSound ==
  ASSUME Sound, NEW r \in Request,
         \/ \E b \in Bill : CreateBill(r, b)
         \/ \E b \in Bill, op \in {"post", "reverse", "get"} : FindById(r, op, b)
         \/ \E bills \in SUBSET Bill : ListBills(r, bills)
         \/ ReadRows(r) \/ ToDomain(r) \/ Act(r) \/ WriteRow(r) \/ SaveFails(r)
  PROVE  Sound'
<1>1. Typed
  BY DEF Sound
<1>2. \A p \in Request : RequestOK(req[p])
  BY <1>1 DEF Typed
<1>3. ASSUME NEW b \in Bill, CreateBill(r, b) PROVE Sound'
  <2>1. DOMAIN req' = Request /\ RequestOK(req'[r]) /\ \A p \in Request \ {r} : req'[p] = req[p]
    BY <1>1, <1>3, CreateSays
  <2>2. UNCHANGED journal /\ items' = [items EXCEPT ![b] = "DRAFT"] /\ row' = row
    BY <1>3 DEF CreateBill
  <2>3. items' \in [Bill -> Statuses] /\ row' \in [Bill -> Statuses]
    BY <1>1, <2>2 DEF Typed, Statuses
  <2> QED
    BY <1>2, <2>1, <2>2, <2>3, QuietStep
<1>4. ASSUME NEW at, NEW bs \in SUBSET Bill, NEW o \in {"post", "reverse", "get", "list"},
             Begin(r, o, at, bs), o = "list" => at = "read",
             o # "list" => at \in {"read", "act"} /\ \E x \in Bill : bs = {x}
      PROVE  Sound'
  <2>1. DOMAIN req' = Request /\ RequestOK(req'[r]) /\ \A p \in Request \ {r} : req'[p] = req[p]
    BY <1>1, <1>4, BeginSays
  <2>2. UNCHANGED journal /\ items' = items /\ row' = row
    BY <1>4 DEF Begin
  <2> QED
    BY <1>1, <1>2, <2>1, <2>2, QuietStep DEF Typed
<1>5. ASSUME NEW b \in Bill, NEW op \in {"post", "reverse", "get"}, FindById(r, op, b) PROVE Sound'
  <2>1. PICK at \in {"read", "act"} : Begin(r, op, at, {b})
    BY <1>5 DEF FindById
  <2>2. {b} \in SUBSET Bill /\ op # "list"
    OBVIOUS
  <2> QED
    BY <1>4, <2>1, <2>2
<1>6. ASSUME NEW bills \in SUBSET Bill, ListBills(r, bills) PROVE Sound'
  <2>1. Begin(r, "list", "read", bills)
    BY <1>6 DEF ListBills
  <2> QED
    BY <1>4, <2>1
<1>7. CASE ReadRows(r)
  <2>1. DOMAIN req' = Request /\ RequestOK(req'[r]) /\ \A p \in Request \ {r} : req'[p] = req[p]
    BY <1>1, <1>7, ReadSays
  <2>2. UNCHANGED journal /\ items' = items /\ row' = row
    BY <1>7 DEF ReadRows
  <2> QED
    BY <1>1, <1>2, <2>1, <2>2, QuietStep DEF Typed
<1>8. CASE ToDomain(r)
  <2>1. /\ DOMAIN req' = Request /\ \A p \in Request : RequestOK(req'[p])
        /\ items' \in [Bill -> Statuses]
    BY <1>1, <1>8, ToDomainSays
  <2>2. UNCHANGED journal /\ row' = row
    BY <1>8 DEF ToDomain
  <2> QED
    BY <1>1, <2>1, <2>2, QuietStep DEF Typed
<1>9. CASE Act(r)
  <2> DEFINE x == BillOf(r)  to == Change(req[r].op, Held(r), tax[x])
  <2>1. /\ x \in Bill /\ DOMAIN req' = Request
        /\ \/ to = "refused" /\ Finish(r) /\ items' = items
           \/ /\ to \in {"POSTED", "REVERTED"} /\ items' = [items EXCEPT ![x] = to]
              /\ RequestOK(req'[r])
        /\ \A p \in Request \ {r} :
              \/ req'[p] = req[p]
              \/ /\ Running(p) /\ req[p].at \in Holding
                 /\ \E obj \in Statuses : req'[p] = [req[p] EXCEPT !.obj = obj]
    BY <1>1, <1>9, ActSays
  <2> HIDE DEF to, x
  <2>2. ASSUME NEW p \in Request \ {r} PROVE RequestOK(req'[p])
    <3>1. CASE req'[p] = req[p]
      BY <1>2, <3>1
    <3>2. CASE req'[p] # req[p]
      <4>1. PICK obj \in Statuses : req'[p] = [req[p] EXCEPT !.obj = obj] /\ Running(p)
        BY <2>1, <3>2
      <4>2. req[p] \in Going
        BY <1>1, <4>1, GoingRequest
      <4> QED
        BY <1>2, <4>1, <4>2, ObjectOf
    <3> QED
      BY <3>1, <3>2
  <2>3. RequestOK(req'[r])
    BY <1>1, <2>1, FinishIsOK
  <2>4. items' \in [Bill -> Statuses]
    BY <1>1, <2>1 DEF Typed, Statuses
  <2>5. UNCHANGED journal /\ row' = row
    BY <1>9 DEF Act
  <2> QED
    BY <1>1, <2>1, <2>2, <2>3, <2>4, <2>5, QuietStep DEF Typed
<1>10. CASE WriteRow(r)
  <2>1. PICK x \in Bill :
          /\ DOMAIN req' = Request /\ RequestOK(req'[r]) /\ \A p \in Request \ {r} : req'[p] = req[p]
          /\ row' = [row EXCEPT ![x] = req[r].found[x]] /\ req[r].found[x] \in Statuses
    BY <1>1, <1>10, WriteSays
  <2>2. UNCHANGED journal /\ items' = items
    BY <1>10 DEF WriteRow
  <2>3. row' \in [Bill -> Statuses]
    BY <1>1, <2>1 DEF Typed
  <2> QED
    BY <1>1, <1>2, <2>1, <2>2, <2>3, QuietStep DEF Typed
<1>11. CASE SaveFails(r)
  <2>1. Finish(r) /\ UNCHANGED journal /\ items' = items /\ row' = row
    BY <1>11 DEF SaveFails
  <2>2. DOMAIN req' = Request /\ \A p \in Request : RequestOK(req'[p])
    BY <1>1, <2>1, FinishIsOK
  <2> QED
    BY <1>1, <2>1, <2>2, QuietStep DEF Typed
<1> QED
  BY <1>3, <1>5, <1>6, <1>7, <1>8, <1>9, <1>10, <1>11

LEMMA QuietLives ==
  ASSUME Lives, UNCHANGED <<items, row, req, unsure>>, UNCHANGED journal
  PROVE  Lives'
<1> SUFFICES ASSUME NEW b \in Bill \ unsure' PROVE Life(b)'
  BY DEF Lives
<1>1. Life(b)
  BY DEF Lives
<1>2. Open(b)' = Open(b) /\ Stornos(b)' = Stornos(b) /\ Asked(b)' = Asked(b)
  BY SameJournal
<1> QED
  BY <1>1, <1>2, LifeStays

LEMMA StepInv == Inv /\ [Next]_vars => Inv'
<1> SUFFICES ASSUME Inv, [Next]_vars PROVE Inv'
  OBVIOUS
<1>1. Sound /\ BusIsUsed /\ Lives /\ Typed /\ JournalInv
  BY DEF Inv, Sound
<1>2. CASE Rules \/ UNCHANGED vars
  <2>1. UNCHANGED <<items, row, req, unsure, scene>> /\ UNCHANGED journal
    BY <1>2 DEF Rules, RegisterSubscriber, RefreshCache, vars, bounds
  <2>2. Sound'
    BY <1>1, <2>1, QuietStep DEF Typed
  <2>3. Lives'
    BY <1>1, <2>1, QuietLives
  <2>4. BusIsUsed'
    BY <1>1, <2>1 DEF BusIsUsed, UsePubSub, journal
  <2> QED
    BY <2>2, <2>3, <2>4 DEF Inv
<1>3. CASE Requests
  <2>1. PICK r \in Request :
          \/ \E b \in Bill : CreateBill(r, b)
          \/ \E b \in Bill, op \in {"post", "reverse", "get"} : FindById(r, op, b)
          \/ \E bills \in SUBSET Bill : ListBills(r, bills)
          \/ ReadRows(r) \/ ToDomain(r) \/ Act(r) \/ WriteRow(r) \/ SaveFails(r) \/ Publish(r)
    BY <1>3 DEF Requests
  <2>2. CASE Publish(r)
    <3>1. Sound'
      BY <1>1, <2>2, PublishIsSound
    <3>2. Lives'
      BY <1>1, <2>2, PublishLives DEF Lives
    <3>3. BusIsUsed'
      <4>1. scene' = scene
        BY <2>2 DEF Publish, bounds
      <4>2. CASE UsePubSub
        BY <4>1, <4>2 DEF BusIsUsed, UsePubSub
      <4>3. CASE ~UsePubSub
        <5>1. PICK type, b : DispatchLocally(type, b, 0, bus)
          BY <2>2, <4>3 DEF Publish
        <5> QED
          BY <1>1, <4>1, <5>1, DispatchUses
      <4> QED
        BY <4>2, <4>3
    <3> QED
      BY <3>1, <3>2, <3>3 DEF Inv
  <2>3. CASE ~Publish(r)
    <3>1. Sound'
      BY <1>1, <2>1, <2>3, RequestIsSound
    <3>2. Lives'
      <4> SUFFICES ASSUME NEW b \in Bill \ unsure' PROVE Life(b)'
        BY DEF Lives
      <4>1. ASSUME NEW x \in Bill, CreateBill(r, x) PROVE Life(b)'
        BY <1>1, <4>1, CreateLives
      <4>2. ASSUME NEW x \in Bill, NEW op \in {"post", "reverse", "get"}, FindById(r, op, x)
            PROVE  Life(b)'
        <5>1. PICK at \in {"read", "act"} : Begin(r, op, at, {x})
          BY <4>2 DEF FindById
        <5>2. {x} \in SUBSET Bill /\ op # "list" /\ op \in {"post", "reverse", "get", "list"}
          OBVIOUS
        <5> QED
          BY <1>1, <5>1, <5>2, BeginLives
      <4>3. ASSUME NEW bills \in SUBSET Bill, ListBills(r, bills) PROVE Life(b)'
        <5>1. Begin(r, "list", "read", bills)
          BY <4>3 DEF ListBills
        <5> QED
          BY <1>1, <5>1, BeginLives
      <4>4. CASE ReadRows(r)
        BY <1>1, <4>4, ReadLives
      <4>5. CASE ToDomain(r)
        BY <1>1, <4>5, DomainLives
      <4>6. CASE Act(r)
        BY <1>1, <4>6, ActLives
      <4>7. CASE WriteRow(r)
        BY <1>1, <4>7, WriteLives
      <4>8. CASE SaveFails(r)
        BY <1>1, <4>8, FailLives
      <4> QED
        BY <2>1, <2>3, <4>1, <4>2, <4>3, <4>4, <4>5, <4>6, <4>7, <4>8
    <3>3. BusIsUsed'
      <4>1. scene' = scene /\ bus' = bus
        BY <2>1, <2>3 DEF CreateBill, FindById, ListBills, Begin, ReadRows, ToDomain, Act,
                          WriteRow, SaveFails, journal, bounds
      <4> QED
        BY <1>1, <4>1 DEF BusIsUsed, UsePubSub
    <3> QED
      BY <3>1, <3>2, <3>3 DEF Inv
  <2> QED
    BY <2>2, <2>3
<1>4. ASSUME NEW e \in bus, Answered(e) PROVE Inv'
  <2>1. Sound'
    BY <1>1, <1>4, AnsweredIsSound
  <2>2. Lives'
    BY <1>1, <1>4, AnsweredLives DEF Lives
  <2>3. BusIsUsed'
    <3>1. bus # {} /\ scene' = scene
      BY <1>4 DEF Answered, bounds
    <3> QED
      BY <1>1, <3>1 DEF BusIsUsed, UsePubSub
  <2> QED
    BY <2>1, <2>2, <2>3 DEF Inv
<1>5. CASE Restart
  <2>1. Sound'
    BY <1>1, <1>5, RestartIsSound
  <2>2. Lives'
    BY <1>1, <1>5, RestartLives DEF Lives
  <2>3. BusIsUsed'
    BY <1>1, <1>5, RestartSays DEF BusIsUsed
  <2> QED
    BY <2>1, <2>2, <2>3 DEF Inv
<1> QED
  BY <1>2, <1>3, <1>4, <1>5 DEF Next

LEMMA InitInv == Init => Inv
<1> SUFFICES ASSUME Init PROVE Inv
  OBVIOUS
<1>1. /\ items = [b \in Bill |-> "none"] /\ row = [b \in Bill |-> "none"]
      /\ req = [r \in Request |-> New] /\ entries = <<>> /\ snapshot = [b \in Bill |-> 0]
      /\ bus = {} /\ lastEvent = 0
  BY DEF Init
<1>2. Typed
  BY <1>1, DoneIsOK DEF Typed, Statuses
<1>3. entries \in Seq(Line({})) /\ DOMAIN entries = {}
  BY <1>1
<1>4. JournalInv
  BY <1>3 DEF JournalInv, JournalOK, StornoOfOne
<1>5. BusOK
  BY <1>1, FS_EmptySet DEF BusOK
<1>6. ASSUME NEW b \in Bill PROVE Sum(b) = snapshot[b] + Balance(bus, b)
  <2>1. Originals(b) = {} /\ Stornos(b) = {} /\ Waiting(bus, b, 1) = {} /\ Waiting(bus, b, -1) = {}
    BY <1>1, <1>3 DEF Originals, Stornos, Waiting
  <2>2. Cardinality({}) = 0
    BY FS_EmptySet
  <2>3. Sum(b) = 0 /\ Balance(bus, b) = 0
    BY <2>1, <2>2 DEF Sum, Balance
  <2> QED
    BY <1>1, <2>3
<1>7. SnapshotIsJournal
  BY <1>2, <1>5, <1>6, SnapshotSays
<1>8. ASSUME NEW b \in Bill PROVE Life(b)
  <2>1. \A r \in Request : ~On(r, b)
    BY <1>1 DEF On, Running, New
  <2>2. Alone(b) /\ Kept(b)
    BY <1>1, <2>1 DEF Alone, Kept
  <2>3. Published(b) = "none" /\ Asked(b) = {} /\ Open(b) = {} /\ Stornos(b) = {}
    BY <1>1, <1>3, <2>1 DEF Published, Asked, Open, Originals, Stornos
  <2>4. Booked(b)
    BY <2>3 DEF Booked, Books
  <2> QED
    BY <2>2, <2>4 DEF Life
<1> QED
  BY <1>1, <1>2, <1>4, <1>5, <1>7, <1>8 DEF Inv, Sound, BusIsUsed, Lives

LEMMA AlwaysInv == Spec => []Inv
  BY InitInv, StepInv, PTL DEF Spec

(* Whatever overlaps, fails or waits on the bus, and over restarts: the     *)
(* snapshot of the AI and the ledger's events that wait make the journal.   *)
THEOREM SnapshotSumsJournal == Spec => []SnapshotIsJournal
<1>1. Inv => SnapshotIsJournal
  BY DEF Inv, Sound
<1> QED
  BY <1>1, AlwaysInv, PTL

(* Commands of one kind may overlap, the bus may be told before the journal *)
(* is, and the process may start anew before a bill is posted: when nothing *)
(* is under way, the status of a bill, its row and its entries agree.       *)
THEOREM BillsAndBooksAgree == Spec => []BooksAgree
<1>1. Inv => BooksAgree
  BY LivesAgree DEF Inv
<1> QED
  BY <1>1, AlwaysInv, PTL
=============================================================================
