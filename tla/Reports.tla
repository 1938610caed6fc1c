------------------------------- MODULE Reports -------------------------------
(***************************************************************************)
(* The account lines that the handlers of services/ledger/src/             *)
(* ledger.service.ts post, and the reports made from the journal: trial    *)
(* balance, summary, profit and loss of a quarter, and balance sheet.      *)
(*                                                                         *)
(* Amounts are cents, so that the rounding of the reports has nothing to   *)
(* do.  All dates are in one year.  A date is a string: the day alone in   *)
(* an entry read from the table, whose column keeps no more, and the day   *)
(* and the time in one made since the service started.                     *)
(***************************************************************************)
EXTENDS Ledger, Integers, FiniteSetsExt

CONSTANTS Amount,   \* Amount[d]: the cents that events about d carry
          DateOf,   \* DateOf[d]: the dates of its posting, payment, reversal
          Receipt,  \* the movements that are receipts; the others are issues
          Old       \* bills posted before the accounts got their new codes

\* The day 0 of a month is the last one of the month before it; 29 days for
\* February do no harm, as no quarter ends with it.
LastDay(month) == IF month \in {4, 6, 9, 11} THEN 30 ELSE IF month = 2 THEN 29 ELSE 31

ASSUME ReportsAssumption ==
    /\ Amount \in [Doc -> Nat]
    /\ DateOf \in [Doc -> [{"post", "pay", "revert"} ->
                             {d \in (1 .. 12) \X (1 .. 31) : d[2] <= LastDay(d[1])}]]
    /\ Receipt \subseteq Movement /\ Old \subseteq Bill /\ IsFiniteSet(Old) /\ Copy # {}

SKA == [cash |-> 100, receivable |-> 140, inventory |-> 125, payable |-> 220,
        revenue |-> 700, cogs |-> 500, expenses |-> 665]

Legacy == [cash |-> 1000, receivable |-> 1100, inventory |-> 1200, payable |-> 2000,
           revenue |-> 4000, cogs |-> 5000, expenses |-> 5100]

LegacyToSka ==
    [a \in {Legacy[x] : x \in DOMAIN Legacy} |-> SKA[CHOOSE x \in DOMAIN SKA : Legacy[x] = a]]

(* The entries of the old bills are read from the table, with their markers.*)
OldId == CHOOSE f \in [Old -> 1 .. Cardinality(Old)] : \A b, c \in Old : f[b] = f[c] => b = c
OldEntries ==
    {[id |-> OldId[b], doc |-> b, part |-> "document", kind |-> "ORIGINAL", reversedBy |-> 0] : b \in Old}

VARIABLE loaded  \* the last id there was when the service started

ReportsInit ==
    /\ topic = <<>> /\ pos = 1 /\ committed = 1
    /\ ingested = {[type |-> "billPosted", doc |-> b, copy |-> CHOOSE c \in Copy : TRUE] : b \in Old}
    /\ mem = OldEntries /\ db = OldEntries
    /\ lastId = Cardinality(Old)
    /\ handler = Idle /\ ledgerTopic = <<>>
    /\ restarts = 0 /\ errors = 0
    /\ loaded = lastId

(* All steps of the ledger, and its restart, which reads the dates back.    *)
ReportsNext ==
    \/ /\ \/ Progress
          \/ IngestError \/ PersistError \/ UpdateError \/ NotifyError \/ ReplyError
          \/ Rebalance
          \/ \E m \in Message : Produce(m)
       /\ UNCHANGED loaded
    \/ Crash /\ loaded' = lastId

ReportsSpec == ReportsInit /\ [][ReportsNext]_<<vars, loaded>>

-----------------------------------------------------------------------------
\* Accounts[d]: the debit and the credit of an ORIGINAL about d.
Accounts ==
    [d \in Doc |->
        LET code == IF d \in Old THEN Legacy ELSE SKA IN
        CASE d \in Bill ->
               [document |-> [debit |-> code.expenses, credit |-> code.payable],
                payment |-> [debit |-> SKA.payable, credit |-> SKA.cash]]
          [] d \in Invoice ->
               [document |-> [debit |-> SKA.receivable, credit |-> SKA.revenue],
                payment |-> [debit |-> SKA.cash, credit |-> SKA.receivable]]
          [] d \in Receipt -> [document |-> [debit |-> SKA.inventory, credit |-> SKA.payable]]
          [] OTHER -> [document |-> [debit |-> SKA.cogs, credit |-> SKA.inventory]]]

(* Mutant: the storno repeats the lines of its original. *)
SidesUnswapped(e) == Accounts[e.doc][e.part]

\* A storno has the lines of its original with debit and credit swapped.
Sides(e) ==
    LET original == Accounts[e.doc][e.part] IN
    IF e.kind = "ORIGINAL" THEN original
    ELSE [debit |-> original.credit, credit |-> original.debit]

Day(e) ==
    DateOf[e.doc][CASE e.kind = "STORNO" -> "revert"
                    [] e.part = "payment" -> "pay" [] OTHER -> "post"]

(* The string in an entry: with the time it is after the day alone. *)
Date(e) == <<Day(e)[1], Day(e)[2], IF e.id > loaded THEN 1 ELSE 0>>

NormalizeAccountCode(a) == IF a \in DOMAIN LegacyToSka THEN LegacyToSka[a] ELSE a

Codes == {SKA[x] : x \in DOMAIN SKA} \cup {Legacy[x] : x \in DOMAIN Legacy}
StartsWith(digit) == {a \in Codes : digit = IF a < 1000 THEN a \div 100 ELSE a \div 1000}

DebitAccount(e) == NormalizeAccountCode(Sides(e).debit)
CreditAccount(e) == NormalizeAccountCode(Sides(e).credit)

\* What these entries debit less what they credit to the accounts given.
Net(entries, accounts) ==
    MapThenSumSet(LAMBDA e : (IF DebitAccount(e) \in accounts THEN Amount[e.doc] ELSE 0)
                             - (IF CreditAccount(e) \in accounts THEN Amount[e.doc] ELSE 0), entries)
Total(entries) == MapThenSumSet(LAMBDA e : Amount[e.doc], entries)

GetTrialBalance ==
    {[account |-> a, totalDebit |-> Total({e \in mem : DebitAccount(e) = a}),
      totalCredit |-> Total({e \in mem : CreditAccount(e) = a}), balance |-> Net(mem, {a})] :
        a \in {DebitAccount(e) : e \in mem} \cup {CreditAccount(e) : e \in mem}}

\* Every entry debits what it credits.
GetSummary == [totalEntries |-> Cardinality(mem), totalDebits |-> Total(mem), totalCredits |-> Total(mem)]

\* Dates are compared as strings, first by month, day and time.
NotAfter(d, e) ==
    \/ d[1] < e[1]
    \/ d[1] = e[1] /\ (d[2] < e[2] \/ (d[2] = e[2] /\ d[3] <= e[3]))

(* Mutant: a quarter ends with the 30th. *)
QuarterRangeOf30(quarter) == [start |-> <<3 * quarter - 2, 1, 0>>, end |-> <<3 * quarter, 30, 0>>]

QuarterRange(quarter) ==
    [start |-> <<3 * quarter - 2, 1, 0>>, end |-> <<3 * quarter, LastDay(3 * quarter), 0>>]

NetProfit(entries) ==
    -Net(entries, StartsWith(7)) - Net(entries, {SKA.cogs}) - Net(entries, StartsWith(6))

GenerateProfitLoss(quarter) ==
    LET range == QuarterRange(quarter)
        entries == {e \in mem : NotAfter(range.start, Date(e)) /\ NotAfter(Date(e), range.end)}
    IN  [grossProfit |-> -Net(entries, StartsWith(7)) - Net(entries, {SKA.cogs}),
         netProfit |-> NetProfit(entries)]

AtLeast0(n) == IF n < 0 THEN 0 ELSE n

GenerateBalanceSheet(quarter) ==
    LET entries == {e \in mem : NotAfter(Date(e), QuarterRange(quarter).end)}
        class1 == Net(entries, StartsWith(1))
        class2 == -Net(entries, StartsWith(2))
    IN  [assets |-> AtLeast0(class1), liabilities |-> AtLeast0(class2),
         equity |-> AtLeast0(class1) - AtLeast0(class2),
         \* not printed: nothing was cut off at 0
         exact |-> class1 >= 0 /\ class2 >= 0]

-----------------------------------------------------------------------------
\* The entries with the time of the last day of an earlier quarter.
Between(quarter) ==
    {e \in mem : e.id > loaded /\ \E k \in 1 .. quarter - 1 : Day(e) = <<3 * k, LastDay(3 * k)>>}

(* The reports agree with each other, payments, reversals and old codes     *)
(* included: the trial balance adds up to the summary and to 0, and the     *)
(* equity at the end of each quarter is the profit of the quarters so far   *)
(* and of the entries that fall between them.  These are the ones that the  *)
(* last day of an earlier quarter brought since the service started: with   *)
(* its time such a date is after the end of its quarter and before the      *)
(* next.  No other is left out or counted twice, and none once the service  *)
(* has started again.  Except when more was paid than there was, or than    *)
(* was owed: the balance sheet then shows 0.  (Looked at between two        *)
(* messages; a handler changes mem in one step, its first.)                 *)
ReportsAgree ==
    handler.at = "idle" =>
        LET rows == GetTrialBalance
            profit == <<GenerateProfitLoss(1).netProfit, GenerateProfitLoss(2).netProfit,
                        GenerateProfitLoss(3).netProfit, GenerateProfitLoss(4).netProfit>>
        IN  /\ MapThenSumSet(LAMBDA row : row.totalDebit, rows) = GetSummary.totalDebits
            /\ MapThenSumSet(LAMBDA row : row.balance, rows) = 0
            /\ \A q \in 1 .. 4 :
                 LET sheet == GenerateBalanceSheet(q) IN
                 sheet.exact =>
                     sheet.equity = MapThenSumSet(LAMBDA k : profit[k], 1 .. q) + NetProfit(Between(q))

(* Once operations has been told stornoPosted, the document is out of every *)
(* account, and once it has been told stornoFailed it is out of them or     *)
(* still in them with its one posting: unless a database error was          *)
(* swallowed.                                                               *)
AnswerIsInTheBooks ==
    errors = 0 => \A d \in Doc : \A i \in Replies(d) :
        LET own == {e \in mem : e.doc = d /\ e.part = "document"}
            used == {DebitAccount(e) : e \in own} \cup {CreditAccount(e) : e \in own}
            out == \A a \in used : Net(own, {a}) = 0
        IN  out \/ (ledgerTopic[i].type = "stornoFailed" /\ Cardinality(own) = 1)
=============================================================================
