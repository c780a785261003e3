----------------------------- MODULE PaymentBook -----------------------------
(***************************************************************************)
(* What x402-service.ts promises about the file it keeps: the book of      *)
(* invoices on disk only ever moves forward, and it calls an invoice paid  *)
(* only when the XRP Ledger holds a payment for it.  Several invoices may   *)
(* move in one write, because persistUnlocked writes the whole state.      *)
(***************************************************************************)
CONSTANT Invoices

VARIABLES
    book,       \* what the file says of each invoice
    funded      \* the invoices a validated XRPL Payment was made for

vars == <<book, funded>>

Grades == {"none", "quoted", "paid"}

Init ==
    /\ book = [i \in Invoices |-> "none"]
    /\ funded = {}

\* A payment for the invoice is validated on the XRP Ledger.
Fund(i) ==
    /\ funded' = funded \cup {i}
    /\ UNCHANGED book

MayBecome(i, grade) ==
    \/ grade = book[i]
    \/ book[i] = "none" /\ grade = "quoted"
    \/ book[i] # "paid" /\ grade = "paid" /\ i \in funded

\* One write of the state file.
Write ==
    /\ book' \in [Invoices -> Grades]
    /\ \A i \in Invoices : MayBecome(i, book'[i])
    /\ UNCHANGED funded

Next == Write \/ \E i \in Invoices : Fund(i)

Spec == Init /\ [][Next]_vars
=============================================================================
