---------------------------- MODULE X402Service -----------------------------
(***************************************************************************)
(* src/x402-service.ts: quotes, the per-invoice promise lock, verify and   *)
(* settle through the facilitator, the independent check on the XRP        *)
(* Ledger, the state kept in memory and in x402-state.json, the settlement *)
(* log of x402-ledger.ts, and the two marks attest.ts writes when the FDC  *)
(* submission that an authorization paid for has ended.                    *)
(*                                                                         *)
(* A Request is one client connection: it presents a PAYMENT-SIGNATURE (a  *)
(* Payload) for a transaction, waits for its turn on the invoice, and ends *)
(* refused or authorized.  The facilitator and the XRP Ledger are external: *)
(* they answer anything, as late as they like.                             *)
(***************************************************************************)
EXTENDS Naturals, Sequences

CONSTANTS
    Invoices,           \* invoice ids; generateInvoiceId never repeats one
    Txs,                \* XRPL transaction hashes to be attested
    Payloads,           \* distinct PAYMENT-SIGNATURE headers
    Requests,           \* clients, each with at most one call in progress
    Assets, Accepts,    \* currencies; those a quote lists under "accepts"
    ClaimOf,            \* extractInvoiceId of a payload
    AssetOf,            \* the asset a payload names
    Matching,           \* payloads whose signed Payment passes
                        \* assertSettledXrplPayment once it is validated
    NoTx, NoPayload,
    MaxAttested,        \* bound on the history of FDC submissions
    MaxCrashes,         \* bound on process crashes
    MaxDiskErrors       \* bound on writes that throw

ASSUME ConstantsAssumption ==
    /\ ClaimOf \in [Payloads -> Invoices]
    /\ AssetOf \in [Payloads -> Assets]
    /\ Matching \subseteq Payloads
    /\ Accepts \subseteq Assets
    /\ NoTx \notin Txs
    /\ NoPayload \notin Payloads
    /\ MaxAttested \in Nat
    /\ MaxCrashes \in Nat
    /\ MaxDiskErrors \in Nat

VARIABLES
    quotes,         \* keys of the quotes map
    payments,       \* the payments map; the absent record is NoRecord
    used,           \* usedPayloadHashes
    disk,           \* x402-state.json
    lockq,          \* invoiceLocks: the promise chain of each invoice
    req,            \* each request: its stage and its local variables
    age,            \* of each invoice id: "unissued", "fresh", "expired"
    submitted,      \* payloads ever sent to /settle
    applied,        \* payloads whose Payment the XRP Ledger validated
    logged,         \* settled events of x402-ledger.json, per invoice
    lost,           \* invoices whose settlement ended without a record
    attested,       \* FDC submissions accepted on behalf of each invoice
    crashes, diskErrors

stateVars == <<quotes, payments, used, disk, diskErrors>>
worldVars == <<age, submitted, applied>>
histVars  == <<logged, lost, attested, crashes>>
vars == <<stateVars, lockq, req, worldVars, histVars>>

Status     == {"none", "quoted", "settled", "fdc_ok", "fdc_failed"}
PaidStatus == {"settled", "fdc_ok", "fdc_failed"}
Record     == [status : Status, tx : Txs \cup {NoTx}, by : Payloads \cup {NoPayload}]
NoRecord   == [status |-> "none", tx |-> NoTx, by |-> NoPayload]

Stages == {"idle", "waiting", "verifying", "settling", "confirming", "recording",
           "logging", "authorized", "accepted", "rejected"}
Locked == {"verifying", "settling", "confirming", "recording", "logging"}

\* pay and want are arguments of processX402Payment, named the settlement
\* transaction that /settle returned.
Req  == [stage : Stages, pay : Payloads \cup {NoPayload}, want : Txs \cup {NoTx},
         named : Payloads \cup {NoPayload}]
Idle == [stage |-> "idle", pay |-> NoPayload, want |-> NoTx, named |-> NoPayload]

Inv(r)     == ClaimOf[req[r].pay]
Paid(b, i) == b[i].status \in PaidStatus
Expired    == {i \in Invoices : age[i] = "expired"}

Init ==
    /\ quotes = {}
    /\ payments = [i \in Invoices |-> NoRecord]
    /\ used = {}
    /\ disk = [quotes |-> {}, payments |-> payments, used |-> {}]
    /\ lockq = [i \in Invoices |-> <<>>]
    /\ req = [r \in Requests |-> Idle]
    /\ age = [i \in Invoices |-> "unissued"]
    /\ submitted = {}
    /\ applied = {}
    /\ logged = [i \in Invoices |-> 0]
    /\ lost = {}
    /\ attested = [i \in Invoices |-> 0]
    /\ crashes = 0
    /\ diskErrors = 0

Goto(r, stage) == req' = [req EXCEPT ![r].stage = stage]
Finish(r)      == req' = [req EXCEPT ![r] = Idle]

(***************************************************************************)
(* State file: quotes are pruned, then the whole state is written by       *)
(* rename.  A write that throws leaves the old file and the new memory.    *)
(***************************************************************************)
CanWrite(ok) == ok \/ diskErrors < MaxDiskErrors

CountWrite(ok) == diskErrors' = IF ok THEN diskErrors ELSE diskErrors + 1

Save(q, p, u, ok) ==
    /\ CanWrite(ok)
    /\ quotes' = q \ Expired
    /\ payments' = p
    /\ used' = u
    /\ disk' = IF ok THEN [quotes |-> q \ Expired, payments |-> p, used |-> u]
                     ELSE disk
    /\ CountWrite(ok)

\* buildPaymentRequired: a 402 answer issues a fresh invoice for t.
CreateQuote(i, t, ok) ==
    /\ age[i] = "unissued"
    /\ age' = [age EXCEPT ![i] = "fresh"]
    /\ Save(quotes \cup {i},
            [payments EXCEPT ![i] = [status |-> "quoted", tx |-> t, by |-> NoPayload]],
            used, ok)
    /\ UNCHANGED <<lockq, req, submitted, applied, histVars>>

\* The quote's time to live passes.
Expire(i) ==
    /\ age[i] = "fresh"
    /\ age' = [age EXCEPT ![i] = "expired"]
    /\ UNCHANGED <<stateVars, lockq, req, submitted, applied, histVars>>

(***************************************************************************)
(* The invoice lock: a request waits for every earlier one on the invoice  *)
(* and gives way to the next when it leaves.                               *)
(***************************************************************************)
Present(r, p, t) ==
    /\ req[r].stage = "idle"
    /\ req' = [req EXCEPT ![r] = [stage |-> "waiting", pay |-> p, want |-> t,
                                  named |-> NoPayload]]
    /\ lockq' = [lockq EXCEPT ![ClaimOf[p]] = Append(@, r)]
    /\ UNCHANGED <<stateVars, worldVars, histVars>>

\* Mutant: processX402Payment does not take the lock.
HasTurn_NoWait(r) == req[r].stage = "waiting"

HasTurn(r) ==
    /\ req[r].stage = "waiting"
    /\ lockq[Inv(r)] # <<>>
    /\ Head(lockq[Inv(r)]) = r

Release(r) == lockq' = [lockq EXCEPT ![Inv(r)] = Tail(@)]

\* Mutant: an exception skips the finally block.
Refuse_KeepsLock(r) == UNCHANGED lockq /\ Finish(r)

Refuse(r)    == Release(r) /\ Finish(r)
Authorize(r) == Release(r) /\ Goto(r, "authorized")

(***************************************************************************)
(* processX402PaymentLocked up to its first await runs in one turn.        *)
(***************************************************************************)
\* Mutant: the transaction of the quote is not compared.
Bound_Any(r) == TRUE
Bound(r)   == payments[Inv(r)].status = "none" \/ payments[Inv(r)].tx = req[r].want
\* Mutant: an fdc_failed payment is settled once more.
Unpaid_IgnoresFailed(r) ==
    HasTurn(r) /\ Bound(r) /\ payments[Inv(r)].status \notin {"settled", "fdc_ok"}
Unpaid(r)  == HasTurn(r) /\ Bound(r) /\ ~Paid(payments, Inv(r))
Live(r)    == Inv(r) \in quotes \ Expired
Replay(r)  == \/ payments[Inv(r)].status = "fdc_ok"
              \/ ~Paid(payments, Inv(r)) /\ req[r].pay \in used

RejectOtherTx(r) ==
    /\ HasTurn(r)
    /\ ~Bound(r)
    /\ Refuse(r)
    /\ UNCHANGED <<stateVars, worldVars, histVars>>

RejectReplay(r) ==
    /\ HasTurn(r)
    /\ Bound(r)
    /\ Replay(r)
    /\ Refuse(r)
    /\ UNCHANGED <<stateVars, worldVars, histVars>>

\* A paid invoice whose FDC submission did not succeed: no second charge.
RetryFdc(r) ==
    /\ HasTurn(r)
    /\ Bound(r)
    /\ payments[Inv(r)].status \in {"settled", "fdc_failed"}
    /\ Authorize(r)
    /\ UNCHANGED <<stateVars, worldVars, histVars>>

\* getQuote prunes the map whatever it finds.
PruneInMemory ==
    /\ quotes' = quotes \ Expired
    /\ UNCHANGED <<payments, used, disk, diskErrors>>

RejectNoQuote(r) ==
    /\ Unpaid(r)
    /\ ~Replay(r)
    /\ ~Live(r)
    /\ PruneInMemory
    /\ Refuse(r)
    /\ UNCHANGED <<worldVars, histVars>>

RejectAsset(r) ==
    /\ Unpaid(r)
    /\ ~Replay(r)
    /\ Live(r)
    /\ AssetOf[req[r].pay] \notin Accepts
    /\ PruneInMemory
    /\ Refuse(r)
    /\ UNCHANGED <<worldVars, histVars>>

StartVerify(r) ==
    /\ Unpaid(r)
    /\ ~Replay(r)
    /\ Live(r)
    /\ AssetOf[req[r].pay] \in Accepts
    /\ PruneInMemory
    /\ Goto(r, "verifying")
    /\ UNCHANGED <<lockq, worldVars, histVars>>

(***************************************************************************)
(* Facilitator and ledger answers, one await each.                         *)
(***************************************************************************)
VerifyFails(r) ==
    /\ req[r].stage = "verifying"
    /\ Refuse(r)
    /\ UNCHANGED <<stateVars, worldVars, histVars>>

\* A valid verification is followed at once by the call to /settle.
\* (Its mutant uses up the payload before the settlement.)
VerifyPasses_MarksUsed(r) ==
    /\ req[r].stage = "verifying"
    /\ submitted' = submitted \cup {req[r].pay}
    /\ used' = used \cup {req[r].pay}
    /\ Goto(r, "settling")
    /\ UNCHANGED <<quotes, payments, disk, diskErrors, lockq, age, applied, histVars>>

VerifyPasses(r) ==
    /\ req[r].stage = "verifying"
    /\ submitted' = submitted \cup {req[r].pay}
    /\ Goto(r, "settling")
    /\ UNCHANGED <<stateVars, lockq, age, applied, histVars>>

\* A payload sent to /settle may be validated at any later time, or never.
LedgerApply(p) ==
    /\ p \in submitted \ applied
    /\ applied' = applied \cup {p}
    /\ UNCHANGED <<stateVars, lockq, req, age, submitted, histVars>>

GiveUpSettlement(r) ==
    /\ lost' = lost \cup {Inv(r)}
    /\ Refuse(r)
    /\ UNCHANGED <<stateVars, worldVars, logged, attested, crashes>>

\* /settle answers failure, or the connection breaks and fetch throws.
SettleFails(r) == req[r].stage = "settling" /\ GiveUpSettlement(r)

\* /settle answers success and names a transaction, or none at all.
SettleSucceeds(r, q) ==
    /\ req[r].stage = "settling"
    /\ req' = [req EXCEPT ![r].named = q, ![r].stage = "confirming"]
    /\ UNCHANGED <<stateVars, lockq, worldVars, histVars>>

\* No hash, an XRPL lookup that finds nothing, or a transaction that is not
\* validated or does not match the quote.
ConfirmFails(r) == req[r].stage = "confirming" /\ GiveUpSettlement(r)

\* assertSettledXrplPayment against the requirements the payload matched.
\* (Its mutant takes any hash the facilitator names.)
Settles_TrustsFacilitator(q, p) == q \in Payloads

Settles(q, p) ==
    /\ q \in applied \cap Matching
    /\ ClaimOf[q] = ClaimOf[p]
    /\ AssetOf[q] = AssetOf[p]

ConfirmPasses(r) ==
    /\ req[r].stage = "confirming"
    /\ Settles(req[r].named, req[r].pay)
    /\ Goto(r, "recording")
    /\ UNCHANGED <<stateVars, lockq, worldVars, histVars>>

\* A write that throws ends the request; memory keeps the settled record.
\* (Its mutant swallows the error.)
RecordPayment_SwallowsError(r, ok) ==
    /\ req[r].stage = "recording"
    /\ Save(quotes,
            [payments EXCEPT ![Inv(r)] =
                [status |-> "settled", tx |-> req[r].want, by |-> req[r].named]],
            used \cup {req[r].pay}, ok)
    /\ Goto(r, "logging")
    /\ UNCHANGED <<lockq, worldVars, histVars>>

RecordPayment(r, ok) ==
    /\ req[r].stage = "recording"
    /\ Save(quotes,
            [payments EXCEPT ![Inv(r)] =
                [status |-> "settled", tx |-> req[r].want, by |-> req[r].named]],
            used \cup {req[r].pay}, ok)
    /\ IF ok THEN Goto(r, "logging") /\ UNCHANGED lockq ELSE Refuse(r)
    /\ UNCHANGED <<worldVars, histVars>>

\* recordX402Settlement appends to its own file, read and written in one turn.
LogSettlement(r, ok) ==
    /\ req[r].stage = "logging"
    /\ CanWrite(ok)
    /\ CountWrite(ok)
    /\ logged' = IF ok THEN [logged EXCEPT ![Inv(r)] = @ + 1] ELSE logged
    /\ IF ok THEN Authorize(r) ELSE Refuse(r)
    /\ UNCHANGED <<quotes, payments, used, disk, worldVars,
                   lost, attested, crashes>>

(***************************************************************************)
(* submitToFdc with the invoice: outside the invoice lock.                 *)
(***************************************************************************)
\* createAttestation throws before the try block: no mark is written.
AbandonSubmit(r) ==
    /\ req[r].stage = "authorized"
    /\ Finish(r)
    /\ UNCHANGED <<stateVars, lockq, worldVars, histVars>>

FdcAccepts(r) ==
    /\ req[r].stage = "authorized"
    /\ attested[Inv(r)] < MaxAttested
    /\ attested' = [attested EXCEPT ![Inv(r)] = @ + 1]
    /\ Goto(r, "accepted")
    /\ UNCHANGED <<stateVars, lockq, worldVars, logged, lost, crashes>>

FdcRejects(r) ==
    /\ req[r].stage = "authorized"
    /\ Goto(r, "rejected")
    /\ UNCHANGED <<stateVars, lockq, worldVars, histVars>>

Mark(r, status, ok) ==
    Save(quotes,
         IF payments[Inv(r)].status = "none" THEN payments
         ELSE [payments EXCEPT ![Inv(r)].status = status],
         used, ok)

\* A throw here lands in submitToFdc's catch block, which marks fdc_failed.
MarkFdcOk(r, ok) ==
    /\ req[r].stage = "accepted"
    /\ Mark(r, "fdc_ok", ok)
    /\ IF ok THEN Finish(r) ELSE Goto(r, "rejected")
    /\ UNCHANGED <<lockq, worldVars, histVars>>

\* Mutant: the failed submission makes the invoice payable again.
MarkFdcFailed_Requotes(r, ok) ==
    /\ req[r].stage = "rejected"
    /\ Mark(r, "quoted", ok)
    /\ Finish(r)
    /\ UNCHANGED <<lockq, worldVars, histVars>>

MarkFdcFailed(r, ok) ==
    /\ req[r].stage = "rejected"
    /\ Mark(r, "fdc_failed", ok)
    /\ Finish(r)
    /\ UNCHANGED <<lockq, worldVars, histVars>>

(***************************************************************************)
(* The process dies and starts again from the file.  What was sent to      *)
(* /settle stays on its way.                                               *)
(***************************************************************************)
Crash ==
    /\ crashes < MaxCrashes
    /\ crashes' = crashes + 1
    /\ quotes' = disk.quotes \ Expired
    /\ payments' = disk.payments
    /\ used' = disk.used
    /\ lockq' = [i \in Invoices |-> <<>>]
    /\ req' = [r \in Requests |-> Idle]
    /\ lost' = lost \cup {i \in Invoices :
                            /\ ~Paid(disk.payments, i)
                            /\ \E p \in submitted : ClaimOf[p] = i}
    /\ UNCHANGED <<disk, diskErrors, worldVars, logged, attested>>

Serve(r) ==
    \/ RejectOtherTx(r) \/ RejectReplay(r) \/ RetryFdc(r)
    \/ RejectNoQuote(r) \/ RejectAsset(r) \/ StartVerify(r)
    \/ VerifyFails(r) \/ VerifyPasses(r)
    \/ SettleFails(r) \/ \E q \in Payloads \cup {NoPayload} : SettleSucceeds(r, q)
    \/ ConfirmFails(r) \/ ConfirmPasses(r)
    \/ AbandonSubmit(r) \/ FdcAccepts(r) \/ FdcRejects(r)
    \/ \E ok \in BOOLEAN : \/ RecordPayment(r, ok) \/ LogSettlement(r, ok)
                           \/ MarkFdcOk(r, ok) \/ MarkFdcFailed(r, ok)

Environment ==
    \/ \E i \in Invoices, t \in Txs, ok \in BOOLEAN : CreateQuote(i, t, ok)
    \/ \E i \in Invoices : Expire(i)
    \/ \E r \in Requests, p \in Payloads, t \in Txs : Present(r, p, t)
    \/ \E p \in Payloads : LedgerApply(p)
    \/ Crash

Next == Environment \/ \E r \in Requests : Serve(r)

Spec == Init /\ [][Next]_vars

\* The event loop runs every ready continuation, and every external call
\* answers or fails in the end.
Fairness == \A r \in Requests : WF_vars(Serve(r))

FairSpec == Spec /\ Fairness

-----------------------------------------------------------------------------
(***************************************************************************)
(* Properties                                                              *)
(***************************************************************************)
Book == [quotes : SUBSET Invoices, payments : [Invoices -> Record], used : SUBSET Payloads]

StateTypes ==
    /\ quotes \in SUBSET Invoices
    /\ payments \in [Invoices -> Record]
    /\ used \in SUBSET Payloads
    /\ disk \in Book

RequestTypes ==
    /\ lockq \in [Invoices -> Seq(Requests)]
    /\ req \in [Requests -> Req]
    /\ \A r \in Requests :
          req[r].stage # "idle" => req[r].pay \in Payloads /\ req[r].want \in Txs

WorldTypes ==
    /\ age \in [Invoices -> {"unissued", "fresh", "expired"}]
    /\ submitted \in SUBSET Payloads
    /\ applied \in SUBSET submitted

HistoryTypes ==
    /\ logged \in [Invoices -> Nat]
    /\ lost \in SUBSET Invoices
    /\ attested \in [Invoices -> 0..MaxAttested]
    /\ crashes \in 0..MaxCrashes
    /\ diskErrors \in 0..MaxDiskErrors

\* Every variable has its type, and a request that is not idle has a payload
\* and a transaction.
TypeOK ==
    /\ StateTypes /\ RequestTypes /\ WorldTypes /\ HistoryTypes

\* withInvoiceLock: of the requests on one invoice, only the one at the head
\* of its promise chain is between verify and the settlement log.
InvoiceLockExclusive ==
    \A r, s \in Requests :
        req[r].stage \in Locked /\ req[s].stage \in Locked /\ Inv(r) = Inv(s) => r = s

\* "no second charge": whatever other requests and the two marks did since
\* this request read the record, it is still unpaid while the request talks
\* to the facilitator and the ledger.
SettlesOnlyUnpaid ==
    \A r \in Requests :
        req[r].stage \in {"verifying", "settling", "confirming", "recording"}
            => payments[Inv(r)].status = "quoted"

\* A payload is sent to /settle at most once per invoice, and never a second
\* one for it, unless the first settlement got lost: the facilitator or the
\* ledger lookup failed, or the process died before the record was on disk.
OneSettlePerInvoice ==
    \A p, q \in submitted :
        ClaimOf[p] = ClaimOf[q] /\ ClaimOf[p] \notin lost => p = q

\* The server never calls an invoice paid on the facilitator's word alone:
\* in memory and on disk, a paid record names a validated Payment that
\* matches the quote, whatever the facilitator answered.
Backed(b, i) ==
    Paid(b, i) => /\ b[i].by \in applied \cap Matching
                  /\ ClaimOf[b[i].by] = i
                  /\ AssetOf[b[i].by] \in Accepts

PaidIsBacked ==
    \A i \in Invoices : Backed(payments, i) /\ Backed(disk.payments, i)

\* A request that submits to FDC on a payment holds one for the transaction
\* it asked for, still recorded as paid although the lock is long released.
AuthorizedIsPaid ==
    \A r \in Requests :
        req[r].stage \in {"logging", "authorized", "accepted", "rejected"}
            => Paid(payments, Inv(r)) /\ payments[Inv(r)].tx = req[r].want

\* usedPayloadHashes never runs ahead of the payments map, in memory or on
\* disk, so no retry of a paid invoice is refused as a replay.
UsedIsPaid ==
    /\ \A p \in used : Paid(payments, ClaimOf[p])
    /\ \A p \in disk.used : Paid(disk.payments, ClaimOf[p])

\* The margin log counts an invoice's revenue at most once, and only when the
\* payment is on disk, over crashes and failed writes.
LoggedOnce ==
    \A i \in Invoices :
        logged[i] <= 1 /\ (logged[i] = 1 => Paid(disk.payments, i))

\* The file implements PaymentBook: it only moves forward, over crashes.
Grade(i) == CASE disk.payments[i].status = "none" -> "none"
              [] disk.payments[i].status = "quoted" -> "quoted"
              [] OTHER -> "paid"

PB == INSTANCE PaymentBook WITH
        book <- [i \in Invoices |-> Grade(i)],
        funded <- {ClaimOf[p] : p \in applied}

ImplementsPaymentBook == PB!Spec

\* Every presented payment is answered: no request waits for ever behind a
\* lock, whatever the earlier holders ran into.
EveryRequestAnswered ==
    \A r \in Requests : req[r].stage # "idle" ~> req[r].stage = "idle"

-----------------------------------------------------------------------------
(***************************************************************************)
(* What the properties above rest on: together with them these formulas    *)
(* form the inductive invariant of X402ServiceProofs.                      *)
(***************************************************************************)
LockHeld ==
    \A r \in Requests : req[r].stage \in Locked
        => lockq[Inv(r)] # <<>> /\ Head(lockq[Inv(r)]) = r

\* What a request has checked so far.
Checked ==
    \A r \in Requests :
        /\ req[r].stage \in Locked => AssetOf[req[r].pay] \in Accepts
        /\ req[r].stage = "recording" => Settles(req[r].named, req[r].pay)

\* Memory is never behind the file, and a quote always has its record.
MemoryAhead ==
    \A i \in Invoices :
        /\ disk.payments[i].status # "none" => payments[i].status # "none"
        /\ Paid(disk.payments, i) => Paid(payments, i)

QuotesKnown ==
    /\ \A i \in quotes : payments[i].status # "none"
    /\ \A i \in disk.quotes : disk.payments[i].status # "none"

Unissued == \A i \in Invoices : age[i] = "unissued" => payments[i].status = "none"

\* A payload sent to /settle is still with its request, recorded, or lost.
SettlementTracked ==
    \A p \in submitted :
        \/ ClaimOf[p] \in lost
        \/ Paid(payments, ClaimOf[p])
        \/ \E r \in Requests : /\ req[r].stage \in {"settling", "confirming", "recording"}
                               /\ req[r].pay = p

LogPending ==
    \A r \in Requests : req[r].stage = "logging"
        => logged[Inv(r)] = 0 /\ Paid(disk.payments, Inv(r))

IInv ==
    /\ TypeOK /\ LockHeld
    /\ Checked /\ SettlesOnlyUnpaid /\ AuthorizedIsPaid
    /\ PaidIsBacked /\ UsedIsPaid /\ MemoryAhead /\ QuotesKnown /\ Unissued
    /\ SettlementTracked /\ OneSettlePerInvoice
    /\ LogPending /\ LoggedOnce

-----------------------------------------------------------------------------
(***************************************************************************)
(* What the documentation claims and the code does not keep.               *)
(***************************************************************************)
\* "One settled payment authorizes exactly one attestation."
OneAttestationPerPayment == \A i \in Invoices : attested[i] <= 1
=============================================================================
