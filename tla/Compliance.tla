----------------------------- MODULE Compliance -----------------------------
(***************************************************************************)
(* The rules of the compliance service                                     *)
(* (services/compliance/src/compliance.service.ts, tax-taxonomy.ts) and    *)
(* the copy of some of them in the client of the operations service        *)
(* (services/operations/src/compliance/compliance.client.ts).              *)
(*                                                                         *)
(* A document has one line.  What is wrong with it, apart from its tax     *)
(* category and its account, is the set of its flaws; a text is plain,     *)
(* holds personal data, or is an identifier in which the patterns for      *)
(* personal data match although it holds none ("uuid").                    *)
(***************************************************************************)
EXTENDS Integers

TaxCategories ==
    {"VAT-00-NO", "VAT-00-BI", "VAT-00-BII", "VAT-00-BJZ", "VAT-00-BIJZ",
     "VAT-IMP-18", "VAT-IMP-08", "VAT-IMPI-18", "VAT-IMPI-08", "43", "08",
     "VAT-BIV-18", "VAT-BIV-08", "VAT-RC-CREDIT-18", "28"}

\* The chart of accounts: <<665, 9>> is the code 665-09, and <<665, 0>> the
\* main account 665.
Expense == {500, 650, 655, 660, 665, 667, 668, 669, 675, 683, 686, 690}
Mains == Expense \cup {100, 125, 130, 132, 135, 140, 150, 155, 156,
                       220, 240, 250, 256, 280, 290, 300, 310, 320, 700}

SubAccounts(main) ==
    CASE main = 665 -> (1 .. 7) \cup {9}
      [] main = 690 -> 1 .. 6
      [] main \in {240, 667, 675, 686} -> 1 .. 4
      [] main \in {290, 660, 668} -> 1 .. 3
      [] main \in {130, 150, 155, 156, 669, 683} -> 1 .. 2
      [] OTHER -> {}

ChartOfAccounts ==
    {a \in Mains \X (0 .. 9) : a[2] = 0 \/ a[2] \in SubAccounts(a[1])}

IsLeafAccount(a) == ~ \E c \in ChartOfAccounts : a[2] = 0 /\ c[1] = a[1] /\ c[2] # 0

\* currency: not EUR; period: issued in the future, or due before it is issued.
Flaw == {"currency", "period", "noLines", "quantity", "price", "party"}
Text == {"plain", "personal", "uuid"}

Document(taxes, accounts) ==
    [tax : taxes, account : accounts, text : Text, flaws : SUBSET Flaw]

-----------------------------------------------------------------------------
\* isLeafAccount, and the type of the account, for a line of a bill.
AccountRefused(a) ==
    \/ a \notin ChartOfAccounts
    \/ ~IsLeafAccount(a)
    \/ a[1] \notin Expense

(* validate: the violations of a document under the tax categories of the   *)
(* law.  Whether there are any is all that counts.                          *)
Violations(context, d, law) ==
    CASE context = "bill" ->
           d.flaws
             \cup {v \in {"tax"} : d.tax \notin law}
             \cup {v \in {"account"} : AccountRefused(d.account)}
             \cup {v \in {"text"} : d.text = "personal"}
      [] context = "invoice" -> d.flaws \cup {v \in {"text"} : d.text = "personal"}
      [] context = "inventory" ->
           (d.flaws \cap {"quantity", "price"}) \cup {v \in {"text"} : d.text = "personal"}

(* isValidTaxId and isValidAccountCode: what an empty cache accepts.        *)
IsValidTaxId(tax, cached) == tax \in (IF cached = {} THEN TaxCategories ELSE cached)
IsValidAccountCode(a, loaded) == loaded => a \in ChartOfAccounts

(* validateLocallyOrThrow: the fallback looks at less.                      *)
LocalViolations(context, d, cached) ==
    CASE context = "bill" ->
           (d.flaws \cap {"noLines", "quantity", "price"})
             \cup {v \in {"tax"} : ~IsValidTaxId(d.tax, cached)}
             \cup {v \in {"account"} : ~IsValidAccountCode(d.account, cached # {})}
      [] context = "invoice" -> d.flaws \cap {"noLines", "quantity", "price"}
      [] context = "inventory" -> d.flaws \cap {"quantity", "price"}

(* Mutant: the account of imported bills is the main account. *)
ImportedOnMain(d) ==
    [d EXCEPT !.tax = "VAT-00-NO", !.account = <<665, 0>>, !.flaws = @ \ {"party"},
              !.text = IF @ = "uuid" THEN "personal" ELSE @]

(* The bill that an accepted invoice becomes: no VAT, the account 665-09,   *)
(* the sender's id for a party, and "[EDI] " before the text, so that an    *)
(* identifier is not one any more.                                          *)
Imported(d) ==
    [d EXCEPT !.tax = "VAT-00-NO", !.account = <<665, 9>>, !.flaws = @ \ {"party"},
              !.text = IF @ = "uuid" THEN "personal" ELSE @]

\* The constructors of a bill and its lines throw for some of the flaws.
Constructible(d) == d.flaws \cap {"noLines", "quantity", "price"} = {}
=============================================================================
