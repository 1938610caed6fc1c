------------------------------ MODULE Inventory ------------------------------
(***************************************************************************)
(* Stock in one process of the operations service                          *)
(* (services/operations/src/application/inventory/inventory.service.ts).   *)
(*                                                                         *)
(* recordMovement awaits the compliance service; then it tests the stock,  *)
(* applies the movement to the item, and enters it into the map, without   *)
(* an await in between; then it awaits the save and the event.             *)
(* reverseMovement tests the mark of the original, awaits recordMovement   *)
(* for the opposite movement, sets the mark, and awaits its save.  Items   *)
(* are not stored: a start applies all rows again, in the order in which   *)
(* they were created.                                                      *)
(*                                                                         *)
(* A movement is the request that made it.  One item is modelled, since no *)
(* step looks at two.  Costs are exact fractions; the table rounds them.   *)
(* The names are such that the module can stand next to InvoiceService,    *)
(* whose invoices issue from this stock.                                   *)
(***************************************************************************)
EXTENDS Integers, Sequences, FiniteSets, Fraction

Seqs == INSTANCE SequencesExt

CONSTANTS Mover,            \* the requests of the users, and their movements
          Quantity,         \* the quantities they ask for
          Price,            \* the unit costs of their receipts
          Scale,            \* costs in the table are multiples of 1 / Scale (10000)
          None,             \* no movement, or no unit cost
          MaxStockCrashes,  \* bound on restarts
          MaxStockFailures  \* bound on awaited calls that throw

ASSUME InventoryAssumption ==
    /\ Quantity \subseteq Nat \ {0}
    /\ Price \subseteq Nat
    /\ Scale \in Nat \ {0}
    /\ None \notin Mover
    /\ MaxStockCrashes \in Nat
    /\ MaxStockFailures \in Nat

VARIABLES item,           \* quantityOnHand and averageUnitCost
          movements,      \* the map: a function on the movements it holds
          stockRows,      \* the table, in the order of createdAt
          stockReq,       \* stockReq[r]: the request and where it is
          stockPublished, \* the movements whose event was stored
          stockCrashes, stockFailures

stockVars == <<item, movements, stockRows, stockReq, stockPublished, stockCrashes, stockFailures>>

-----------------------------------------------------------------------------
Opposite(type) == IF type = "RECEIPT" THEN "ISSUE" ELSE "RECEIPT"

EmptyItem == [qty |-> 0, avg |-> Zero]
EmptyMap == [m \in {} |-> None]
NewRequest == [at |-> "new"]

StockInit ==
    /\ item = EmptyItem
    /\ movements = EmptyMap
    /\ stockRows = <<>>
    /\ stockReq = [r \in Mover |-> NewRequest]
    /\ stockPublished = {}
    /\ stockCrashes = 0
    /\ stockFailures = 0

Moving(r) == stockReq[r].at \notin {"new", "done", "lost"}
MoveTo(r, at) == stockReq' = [stockReq EXCEPT ![r].at = at]
StockFailure == stockFailures < MaxStockFailures /\ stockFailures' = stockFailures + 1

(* applyMovement: a receipt moves the average, an issue does not.           *)
Applied(it, mv) ==
    LET qty == it.qty + mv.qty
        cost == Plus(Times(it.qty, it.avg), Times(mv.qty, mv.cost))
    IN  IF mv.type = "RECEIPT"
        THEN [qty |-> qty, avg |-> IF qty = 0 THEN Zero ELSE Over(cost, qty)]
        ELSE [it EXCEPT !.qty = @ - mv.qty]

(* Mutant: the rows are applied newest first. *)
ReplayNewestFirst(table) == Seqs!FoldLeft(Applied, EmptyItem, Seqs!Reverse(table))

(* What a start makes of the rows. *)
Replay(table) == Seqs!FoldLeft(Applied, EmptyItem, table)

-----------------------------------------------------------------------------
(* The controller calls recordMovement, up to the answer of compliance.     *)
Record(r, type, qty, cost) ==
    /\ stockReq[r] = NewRequest
    /\ stockReq' = [stockReq EXCEPT ![r] = [at |-> "validate", type |-> type, qty |-> qty,
                                  cost |-> cost, of |-> None]]
    /\ UNCHANGED <<item, movements, stockRows, stockPublished, stockCrashes, stockFailures>>

(* reverseMovement, up to the same await.                                   *)
ReverseMovement(r, m) ==
    /\ stockReq[r] = NewRequest
    /\ m \in DOMAIN movements
    /\ movements[m].reversedBy = None
    /\ stockReq' = [stockReq EXCEPT ![r] = [at |-> "validate", type |-> Opposite(movements[m].type),
                                  qty |-> movements[m].qty, cost |-> movements[m].cost,
                                  of |-> m]]
    /\ UNCHANGED <<item, movements, stockRows, stockPublished, stockCrashes, stockFailures>>

(* Compliance refuses, or the stock does not suffice.                       *)
RefuseMovement(r) ==
    /\ stockReq[r].at = "validate"
    /\ MoveTo(r, "done")
    /\ UNCHANGED <<item, movements, stockRows, stockPublished, stockCrashes, stockFailures>>

(* Mutant: an issue has the cost of the request. *)
CostAsAsked(r) == IF stockReq[r].cost = None THEN item.avg ELSE stockReq[r].cost

(* Receipts without a unit cost and all issues have the average cost.       *)
CostOf(r) ==
    IF stockReq[r].type = "ISSUE" \/ stockReq[r].cost = None
    THEN item.avg ELSE stockReq[r].cost

\* The movement of a request, and the step to the next await.
Enter(r, at) ==
    LET mv == [type |-> stockReq[r].type, qty |-> stockReq[r].qty, cost |-> CostOf(r),
               reversedBy |-> None, createdAt |-> Cardinality(DOMAIN movements) + 1]
    IN  /\ item' = Applied(item, mv)
        /\ movements' = [m \in DOMAIN movements \cup {r} |->
                            IF m = r THEN mv ELSE movements[m]]
        /\ MoveTo(r, at)
        /\ UNCHANGED <<stockRows, stockPublished, stockCrashes, stockFailures>>

(* Mutant: the stock is not tested after the await. *)
ApplyUnchecked(r) == stockReq[r].at = "validate" /\ Enter(r, "save")

(* recordMovement after the answer of compliance, up to the save.           *)
Apply(r) ==
    /\ stockReq[r].at = "validate"
    /\ stockReq[r].type = "ISSUE" => item.qty >= stockReq[r].qty
    /\ Enter(r, "save")

\* The row of a movement.
Row(m, mv) == [id |-> m, type |-> mv.type, qty |-> mv.qty,
               cost |-> Round(mv.cost, Scale), reversedBy |-> mv.reversedBy]

Saved == {stockRows[k].id : k \in DOMAIN stockRows}

(* Saving a row that exists replaces it in its place.                       *)
Upsert(row) ==
    IF row.id \in Saved
    THEN [k \in DOMAIN stockRows |-> IF stockRows[k].id = row.id THEN row ELSE stockRows[k]]
    ELSE Append(stockRows, row)

(* persistMovement of a new movement, which has no mark yet.                *)
SaveMovement(r) ==
    /\ stockReq[r].at = "save"
    /\ stockRows' = Upsert(Row(r, [movements[r] EXCEPT !.reversedBy = None]))
    /\ MoveTo(r, "publish")
    /\ UNCHANGED <<item, movements, stockPublished, stockCrashes, stockFailures>>

(* publish returns.  A reversal then marks its original and saves it.       *)
PublishMovement(r) ==
    /\ stockReq[r].at = "publish"
    /\ stockPublished' = stockPublished \cup {r}
    /\ IF stockReq[r].of = None
       THEN MoveTo(r, "done") /\ UNCHANGED movements
       ELSE /\ MoveTo(r, "saveMark")
            /\ movements' = [movements EXCEPT ![stockReq[r].of].reversedBy = r]
    /\ UNCHANGED <<item, stockRows, stockCrashes, stockFailures>>

SaveMark(r) ==
    /\ stockReq[r].at = "saveMark"
    /\ stockRows' = Upsert(Row(stockReq[r].of, [movements[stockReq[r].of] EXCEPT !.reversedBy = r]))
    /\ MoveTo(r, "done")
    /\ UNCHANGED <<item, movements, stockPublished, stockCrashes, stockFailures>>

(* An awaited save or publish throws and the request fails.                 *)
FailMovement(r) ==
    /\ stockReq[r].at \in {"save", "publish", "saveMark"}
    /\ StockFailure
    /\ MoveTo(r, "done")
    /\ UNCHANGED <<item, movements, stockRows, stockPublished, stockCrashes>>

(* The process restarts: the map and the item come from the rows.           *)
RestartStock ==
    /\ stockCrashes < MaxStockCrashes
    /\ stockCrashes' = stockCrashes + 1
    /\ item' = Replay(stockRows)
    /\ movements' = [m \in Saved |->
                       LET k == CHOOSE j \in DOMAIN stockRows : stockRows[j].id = m
                       IN  [type |-> stockRows[k].type, qty |-> stockRows[k].qty,
                            cost |-> stockRows[k].cost, reversedBy |-> stockRows[k].reversedBy,
                            createdAt |-> k]]
    /\ stockReq' = [r \in Mover |->
                 IF Moving(r) THEN [stockReq[r] EXCEPT !.at = "lost"] ELSE stockReq[r]]
    /\ UNCHANGED <<stockRows, stockPublished, stockFailures>>

-----------------------------------------------------------------------------
MovementStep(r) ==
    \/ \E qty \in Quantity :
         \/ \E cost \in {Frac(c, 1) : c \in Price} \cup {None} :
              Record(r, "RECEIPT", qty, cost)
         \/ Record(r, "ISSUE", qty, None)
    \/ \E m \in Mover : ReverseMovement(r, m)
    \/ RefuseMovement(r) \/ Apply(r) \/ SaveMovement(r) \/ PublishMovement(r)
    \/ SaveMark(r) \/ FailMovement(r)

StockNext == RestartStock \/ \E r \in Mover : MovementStep(r)

StockSpec == StockInit /\ [][StockNext]_stockVars

-----------------------------------------------------------------------------
(* "Insufficient stock for issue movement": however requests interleave, as *)
(* long as the process is up stock is never negative and has no negative    *)
(* cost.                                                                    *)
StockIsCovered == stockCrashes = 0 => item.qty >= 0 /\ ~IsNegative(item.avg)

(* The value of a movement, as its event tells the ledger to debit or to    *)
(* credit the inventory account.                                            *)
Value(m) ==
    LET mv == movements[m]
    IN  Times(IF mv.type = "RECEIPT" THEN mv.qty ELSE -mv.qty, mv.cost)

Balance == Seqs!MapThenFoldSet(Plus, Zero, Value, LAMBDA ms : CHOOSE m \in ms : TRUE,
                               DOMAIN movements)

(* As long as the process is up, quantity times average cost is the balance *)
(* of what the movements debit and credit: the valuation and the inventory  *)
(* account of the ledger agree.                                             *)
ValueIsBalance == stockCrashes = 0 => Times(item.qty, item.avg) = Balance

\* Every movement is saved; rows are in the order of application; no cost was
\* rounded.
AllSaved == Saved = DOMAIN movements

InOrder ==
    \A j, k \in DOMAIN stockRows :
        j < k => movements[stockRows[j].id].createdAt < movements[stockRows[k].id].createdAt

Exact == \A k \in DOMAIN stockRows : movements[stockRows[k].id].cost = stockRows[k].cost

(* Once all movements are saved, a restart finds the quantity there is now; *)
(* it also finds the average cost, unless saves overtook each other or a    *)
(* cost had more digits than the column.                                    *)
RestartRestores ==
    AllSaved => /\ Replay(stockRows).qty = item.qty
                /\ InOrder /\ Exact => Replay(stockRows) = item

=============================================================================
