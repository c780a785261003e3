---------------------------- MODULE AttestService ----------------------------
(***************************************************************************)
(* src/attest.ts: the flow that REST and MCP share, from the cache lookup  *)
(* to the poller that fetches the proof, with the attestations and the     *)
(* quota counters of store.ts and the payment records of x402-service.ts.  *)
(*                                                                         *)
(* A Caller is one connection: it asks for the attestation of a            *)
(* transaction with a subscription key or with a paid invoice.  Every call *)
(* of the store is an action of its own: a link in the promise chain of    *)
(* JsonFileStore's write lock.  A write that throws leaves the new value   *)
(* in memory and the old one in the file.  XRPL, Flare, the facilitator    *)
(* and the DA layer are external and answer anything.  processX402Payment  *)
(* is one step here; X402Service has its parts.                            *)
(***************************************************************************)
EXTENDS Naturals, FiniteSets

CONSTANTS
    Callers, Txs,
    Keys,               \* active subscription keys on mainnet
    Invoices,           \* invoices that can be paid with x402
    QuotedFor,          \* the transaction of each invoice's quote
    Limit,              \* ATTESTATION_LIMITS of each key's tier
    Periods,            \* billing periods: 1, 2, ...
    Pollers,            \* bound on the pollForProof calls in progress
    MaxPollAttempts,    \* config.maxPollAttempts
    OnChain,            \* whether PAYMENT_VERIFIER_ADDRESS is configured
    NoTx, NoPayer,
    MaxCrashes,         \* bound on process crashes
    MaxStoreErrors      \* bound on store calls that throw

ASSUME AttestAssumption ==
    /\ Keys \cap Invoices = {}
    /\ NoPayer \notin Keys \cup Invoices
    /\ NoTx \notin Txs
    /\ QuotedFor \in [Invoices -> Txs]
    /\ Limit \in [Keys -> Nat]
    /\ Periods \subseteq Nat /\ 1 \in Periods
    /\ IsFiniteSet(Callers) /\ IsFiniteSet(Pollers)
    /\ MaxPollAttempts \in Nat \ {0}
    /\ OnChain \in BOOLEAN
    /\ MaxCrashes \in Nat /\ MaxStoreErrors \in Nat

VARIABLES
    att,            \* the attestation record of each transaction: its status
    used,           \* attestationUsage: slots taken, per key and period
    pay,            \* payments: the status of each invoice
    disk,           \* the files: attestations, attestationUsage, payments
    call,           \* each caller's request and its local variables
    poll,           \* each poller: its transaction and where it is
    period,         \* the current billing period
    charged,        \* FDC submissions that succeeded, per key and period
    uncounted,      \* slots given back that were not to be, per key and period
    crashes, storeErrors

storeVars == <<att, used, pay, disk, storeErrors>>
histVars  == <<period, charged, uncounted, crashes>>
vars == <<storeVars, call, poll, histVars>>

Payers    == Keys \cup Invoices
AttStatus == {"none", "pending", "ready", "verified", "failed", "not_found"}
PayStatus == {"unpaid", "settled", "fdc_ok", "fdc_failed"}

CallStages == {"idle", "checking", "noting", "noted", "listing", "reserving", "preflight",
               "paying", "creating", "preparing", "storing", "submitting", "updating",
               "marking", "answering", "failing", "unmarking", "releasing", "rereleasing"}
PollStages == {"none", "polling", "verifying", "erring", "delivering", "failing"}

\* slot is what became of the caller's reservation: not made or cleared,
\* taken, spent on an FDC submission, or given back with reservedKey still
\* set.  period is the billing period of the reservation.
Slots  == {"none", "taken", "spent", "returned"}
Call   == [stage : CallStages, tx : Txs \cup {NoTx}, by : Payers \cup {NoPayer},
           period : Periods, slot : Slots]
Idle   == [stage |-> "idle", tx |-> NoTx, by |-> NoPayer, period |-> 1, slot |-> "none"]
Poller == [stage : PollStages, tx : Txs \cup {NoTx}, attempt : 0..MaxPollAttempts]
NoPoll == [stage |-> "none", tx |-> NoTx, attempt |-> 0]

Free == {p \in Pollers : poll[p].stage = "none"}
Tx(r)    == call[r].tx
Payer(r) == call[r].by
At(r, stage) == call[r].stage = stage
NoUsage == [k \in Keys |-> [n \in Periods |-> 0]]

Init ==
    /\ att = [t \in Txs |-> "none"]
    /\ used = NoUsage
    /\ pay = [i \in Invoices |-> "unpaid"]
    /\ disk = [att |-> att, used |-> used, pay |-> pay]
    /\ call = [r \in Callers |-> Idle]
    /\ poll = [p \in Pollers |-> NoPoll]
    /\ period = 1
    /\ charged = NoUsage
    /\ uncounted = NoUsage
    /\ crashes = 0
    /\ storeErrors = 0

Goto(r, stage) == call' = [call EXCEPT ![r].stage = stage]
Return(r)      == call' = [call EXCEPT ![r] = Idle]

(***************************************************************************)
(* Store calls.  syncPersist writes the attestations, then the usage; one  *)
(* that throws may have written the first of them.                         *)
(***************************************************************************)
CountCall(ok) ==
    /\ ok \/ storeErrors < MaxStoreErrors
    /\ storeErrors' = IF ok THEN storeErrors ELSE storeErrors + 1

Persist(a, u, ok) ==
    /\ CountCall(ok)
    /\ att' = a
    /\ used' = u
    /\ disk' \in IF ok THEN {[disk EXCEPT !.att = a, !.used = u]} ELSE {disk, [disk EXCEPT !.att = a]}
    /\ UNCHANGED pay

CreateAttestation(t, ok) ==
    IF att[t] = "none" THEN Persist([att EXCEPT ![t] = "pending"], used, ok)
                       ELSE ok /\ UNCHANGED storeVars

UpdateAttestation(t, status, ok) == Persist([att EXCEPT ![t] = status], used, ok)

MarkPayment(i, status, ok) ==
    /\ CountCall(ok)
    /\ pay' = [pay EXCEPT ![i] = status]
    /\ disk' = IF ok THEN [disk EXCEPT !.pay = pay'] ELSE disk
    /\ UNCHANGED <<att, used>>

(***************************************************************************)
(* The cache and the chain.                                                *)
(***************************************************************************)
Cached(t) == att[t] \notin {"none", "failed", "not_found"}

\* A cached attestation is answered at once, whoever asks.
AnswerCached(r, t) ==
    /\ At(r, "idle")
    /\ Cached(t)
    /\ UNCHANGED vars

Ask(r, t, a) ==
    /\ At(r, "idle")
    /\ ~Cached(t)
    /\ call' = [call EXCEPT ![r] =
                  [Idle EXCEPT !.stage = IF OnChain THEN "checking" ELSE "reserving",
                               !.tx = t, !.by = a, !.period = period]]
    /\ UNCHANGED <<storeVars, poll, histVars>>

\* isAlreadyVerified: the contract knows the transaction, or it does not, or
\* the call throws.  The period is read before the reservation.
NotOnChain(r) ==
    /\ At(r, "checking")
    /\ call' = [call EXCEPT ![r].stage = "reserving", ![r].period = period]
    /\ UNCHANGED <<storeVars, poll, histVars>>

FoundOnChain(r) ==
    /\ At(r, "checking")
    /\ Goto(r, "noting")
    /\ UNCHANGED <<storeVars, poll, histVars>>

\* An error here is swallowed, and the request goes on as if not verified.
NoteOnChain(r, ok) ==
    \/ /\ At(r, "noting")
       /\ CreateAttestation(Tx(r), ok)
       /\ Goto(r, IF ok THEN "noted" ELSE "reserving")
       /\ UNCHANGED <<poll, histVars>>
    \/ /\ At(r, "noted")
       /\ UpdateAttestation(Tx(r), "verified", ok)
       /\ Goto(r, IF ok THEN "listing" ELSE "reserving")
       /\ UNCHANGED <<poll, histVars>>

\* The transaction joins the owner's receipts in users.json: the last step
\* of the try block above, and of the flow.
AddReceipt(r, ok) ==
    /\ call[r].stage \in {"listing", "answering"}
    /\ CountCall(ok)
    /\ IF ok THEN Return(r)
             ELSE Goto(r, IF At(r, "listing") THEN "reserving" ELSE "rereleasing")
    /\ UNCHANGED <<att, used, pay, disk, poll, histVars>>

(***************************************************************************)
(* Quota reservation.                                                      *)
(***************************************************************************)
Taken(r) == used[Payer(r)][call[r].period]

\* Mutant: the comparison is off by one.
Reserve_OffByOne(r, ok) ==
    /\ At(r, "reserving")
    /\ Payer(r) \in Keys
    /\ Taken(r) <= Limit[Payer(r)]
    /\ Persist(att, [used EXCEPT ![Payer(r)][call[r].period] = @ + 1], ok)
    /\ IF ok THEN call' = [call EXCEPT ![r].stage = "preflight", ![r].slot = "taken"]
             ELSE Return(r)
    /\ UNCHANGED <<poll, histVars>>

\* Mutant: the reservation is not written to the file.
Reserve_Unsaved(r, ok) ==
    /\ At(r, "reserving")
    /\ Payer(r) \in Keys
    /\ Taken(r) < Limit[Payer(r)]
    /\ used' = [used EXCEPT ![Payer(r)][call[r].period] = @ + 1]
    /\ call' = [call EXCEPT ![r].stage = "preflight", ![r].slot = "taken"]
    /\ UNCHANGED <<att, pay, disk, storeErrors, poll, histVars>>

\* reserveAttestationUsage: a compare-and-set under the write lock.  When
\* the write throws, the count stays in memory and the request fails.
Reserve(r, ok) ==
    /\ At(r, "reserving")
    /\ Payer(r) \in Keys
    /\ Taken(r) < Limit[Payer(r)]
    /\ Persist(att, [used EXCEPT ![Payer(r)][call[r].period] = @ + 1], ok)
    /\ IF ok THEN call' = [call EXCEPT ![r].stage = "preflight", ![r].slot = "taken"]
             ELSE Return(r)
    /\ UNCHANGED <<poll, histVars>>

\* Mutant: a caller over the limit waits for a free slot.
OverQuota_Waits(r) ==
    /\ At(r, "reserving")
    /\ Payer(r) \in Keys
    /\ Taken(r) >= Limit[Payer(r)]
    /\ UNCHANGED vars

\* Over the limit: 402, with a quote for a single payment.
OverQuota(r) ==
    /\ At(r, "reserving")
    /\ Payer(r) \in Keys
    /\ Taken(r) >= Limit[Payer(r)]
    /\ Return(r)
    /\ UNCHANGED <<storeVars, poll, histVars>>

SkipQuota(r) ==
    /\ At(r, "reserving")
    /\ Payer(r) \in Invoices
    /\ Goto(r, "preflight")
    /\ UNCHANGED <<storeVars, poll, histVars>>

\* Mutant: the slot is given back in the current period, not in its own.
Release_WrongPeriod(r, ok) ==
    /\ call[r].stage \in {"releasing", "rereleasing"}
    /\ call[r].slot # "none"
    /\ Persist(att, [used EXCEPT ![Payer(r)][period] = IF @ > 0 THEN @ - 1 ELSE 0], ok)
    /\ Return(r)
    /\ UNCHANGED <<poll, histVars>>

\* releaseReservation clears reservedKey after the store call, so a call
\* that throws inside the try block is repeated by the catch block.
Release(r, ok) ==
    /\ call[r].stage \in {"releasing", "rereleasing"}
    /\ call[r].slot # "none"
    /\ IF Taken(r) > 0
       THEN Persist(att, [used EXCEPT ![Payer(r)][call[r].period] = @ - 1], ok)
       ELSE ok /\ UNCHANGED storeVars
    /\ uncounted' = IF call[r].slot # "taken" /\ Taken(r) > 0
                    THEN [uncounted EXCEPT ![Payer(r)][call[r].period] = @ + 1]
                    ELSE uncounted
    /\ IF ok \/ At(r, "rereleasing") THEN Return(r)
       ELSE call' = [call EXCEPT ![r].stage = "rereleasing", ![r].slot = "returned"]
    /\ UNCHANGED <<poll, period, charged, crashes>>

NothingToRelease(r) ==
    /\ call[r].stage \in {"releasing", "rereleasing"}
    /\ call[r].slot = "none"
    /\ Return(r)
    /\ UNCHANGED <<storeVars, poll, histVars>>

(***************************************************************************)
(* Preflight on the XRP Ledger, then the payment of an x402 caller.        *)
(***************************************************************************)
\* Mutant: an early return without the release.
PreflightFails_KeepsSlot(r) ==
    /\ At(r, "preflight")
    /\ Return(r)
    /\ UNCHANGED <<storeVars, poll, histVars>>

PreflightFails(r) ==
    /\ At(r, "preflight")
    /\ Goto(r, "releasing")
    /\ UNCHANGED <<storeVars, poll, histVars>>

PreflightPasses(r) ==
    /\ At(r, "preflight")
    /\ Goto(r, IF Payer(r) \in Invoices THEN "paying" ELSE "creating")
    /\ UNCHANGED <<storeVars, poll, histVars>>

\* Settled and confirmed on the ledger; a failed write ends the request.
PaySettles(r, ok) ==
    /\ At(r, "paying")
    /\ pay[Payer(r)] = "unpaid"
    /\ QuotedFor[Payer(r)] = Tx(r)
    /\ MarkPayment(Payer(r), "settled", ok)
    /\ Goto(r, IF ok THEN "creating" ELSE "rereleasing")
    /\ UNCHANGED <<poll, histVars>>

\* Paid before, and FDC did not accept: no second charge.
PayRetries(r) ==
    /\ At(r, "paying")
    /\ pay[Payer(r)] \in {"settled", "fdc_failed"}
    /\ QuotedFor[Payer(r)] = Tx(r)
    /\ Goto(r, "creating")
    /\ UNCHANGED <<storeVars, poll, histVars>>

\* Replay, another transaction, or a payment that does not settle.
PayRefused(r) ==
    /\ At(r, "paying")
    /\ pay[Payer(r)] \in {"unpaid", "fdc_ok"} \/ QuotedFor[Payer(r)] # Tx(r)
    /\ Goto(r, "releasing")
    /\ UNCHANGED <<storeVars, poll, histVars>>

(***************************************************************************)
(* submitToFdc                                                             *)
(***************************************************************************)
\* An existing record is returned as it is.  An error is outside the try.
Create(r, ok) ==
    /\ At(r, "creating")
    /\ CreateAttestation(Tx(r), ok)
    /\ Goto(r, IF ok THEN "preparing" ELSE "rereleasing")
    /\ UNCHANGED <<poll, histVars>>

PrepareFails(r) ==
    /\ At(r, "preparing")
    /\ Goto(r, "failing")
    /\ UNCHANGED <<storeVars, poll, histVars>>

PreparePasses(r) ==
    /\ At(r, "preparing")
    /\ Goto(r, "storing")
    /\ UNCHANGED <<storeVars, poll, histVars>>

StorePrepared(r, ok) ==
    /\ At(r, "storing")
    /\ UpdateAttestation(Tx(r), att[Tx(r)], ok)
    /\ Goto(r, IF ok THEN "submitting" ELSE "failing")
    /\ UNCHANGED <<poll, histVars>>

SubmitFails(r) ==
    /\ At(r, "submitting")
    /\ Goto(r, "failing")
    /\ UNCHANGED <<storeVars, poll, histVars>>

InFlight == {s \in Callers : call[s].stage \in {"updating", "marking"}}

\* The bound on pollers is a bound on the submissions under way.
SubmitPasses(r) ==
    /\ At(r, "submitting")
    /\ Cardinality(InFlight) < Cardinality(Free)
    /\ IF Payer(r) \in Keys
       THEN /\ call' = [call EXCEPT ![r].stage = "updating", ![r].slot = "spent"]
            /\ charged' = [charged EXCEPT ![Payer(r)][call[r].period] = @ + 1]
       ELSE Goto(r, "updating") /\ UNCHANGED charged
    /\ UNCHANGED <<storeVars, poll, period, uncounted, crashes>>

StorePending(r, ok) ==
    /\ At(r, "updating")
    /\ UpdateAttestation(Tx(r), "pending", ok)
    /\ Goto(r, IF ok THEN "marking" ELSE "failing")
    /\ UNCHANGED <<poll, histVars>>

\* markPaymentFdcOk for an invoice, then the poller starts on its own.
MarkOk(r, p, ok) ==
    /\ At(r, "marking")
    /\ IF Payer(r) \in Invoices THEN MarkPayment(Payer(r), "fdc_ok", ok)
                                ELSE ok /\ UNCHANGED storeVars
    /\ IF ok THEN /\ Goto(r, "answering")
                  /\ poll' = [poll EXCEPT ![p] =
                                [stage |-> "polling", tx |-> Tx(r), attempt |-> 1]]
             ELSE Goto(r, "failing") /\ UNCHANGED poll
    /\ UNCHANGED histVars

\* Mutant: a failed submission leaves the payment settled.
StoreFailed_SkipsMark(r, ok) ==
    /\ At(r, "failing")
    /\ UpdateAttestation(Tx(r), "failed", ok)
    /\ Goto(r, IF ok THEN "releasing" ELSE "rereleasing")
    /\ UNCHANGED <<poll, histVars>>

\* The catch block, whatever other callers and pollers wrote in between.
StoreFailed(r, ok) ==
    /\ At(r, "failing")
    /\ UpdateAttestation(Tx(r), "failed", ok)
    /\ Goto(r, IF ~ok THEN "rereleasing"
               ELSE IF Payer(r) \in Invoices THEN "unmarking" ELSE "releasing")
    /\ UNCHANGED <<poll, histVars>>

MarkFailed(r, ok) ==
    /\ At(r, "unmarking")
    /\ MarkPayment(Payer(r), "fdc_failed", ok)
    /\ Goto(r, IF ok THEN "releasing" ELSE "rereleasing")
    /\ UNCHANGED <<poll, histVars>>

(***************************************************************************)
(* pollForProof: one poller per submission, in memory only.                *)
(***************************************************************************)
PollGoto(p, stage) == poll' = [poll EXCEPT ![p].stage = stage]
PollEnds(p)        == poll' = [poll EXCEPT ![p] = NoPoll]

\* The outer catch block.
PollAgain(p) ==
    poll' = [poll EXCEPT ![p] =
               IF poll[p].attempt < MaxPollAttempts
               THEN [poll[p] EXCEPT !.stage = "polling", !.attempt = @ + 1]
               ELSE [poll[p] EXCEPT !.stage = "failing"]]

\* Mutant: the last attempt ends without a word.
NoProof_Silent(p, ok) ==
    /\ poll[p].stage = "polling"
    /\ ok
    /\ IF poll[p].attempt < MaxPollAttempts THEN PollAgain(p) ELSE PollEnds(p)
    /\ UNCHANGED <<storeVars, call, histVars>>

\* The DA layer has no proof yet.
NoProof(p, ok) ==
    /\ poll[p].stage = "polling"
    /\ IF poll[p].attempt < MaxPollAttempts
       THEN ok /\ UNCHANGED storeVars /\ PollAgain(p)
       ELSE /\ UpdateAttestation(poll[p].tx, "not_found", ok)
            /\ IF ok THEN PollEnds(p) ELSE PollAgain(p)
    /\ UNCHANGED <<call, histVars>>

\* fetchProof throws.
FetchFails(p) ==
    /\ poll[p].stage = "polling"
    /\ PollAgain(p)
    /\ UNCHANGED <<storeVars, call, histVars>>

FindProof(p, ok) ==
    /\ poll[p].stage = "polling"
    /\ UpdateAttestation(poll[p].tx, "ready", ok)
    /\ IF ok THEN PollGoto(p, IF OnChain THEN "verifying" ELSE "delivering")
             ELSE PollAgain(p)
    /\ UNCHANGED <<call, histVars>>

VerifyOnChain(p, ok) ==
    /\ poll[p].stage = "verifying"
    /\ UpdateAttestation(poll[p].tx, "verified", ok)
    /\ PollGoto(p, IF ok THEN "delivering" ELSE "erring")
    /\ UNCHANGED <<call, histVars>>

VerifyFails(p) ==
    /\ poll[p].stage = "verifying"
    /\ PollGoto(p, "erring")
    /\ UNCHANGED <<storeVars, call, histVars>>

\* The error is noted; the status stays.
NoteError(p, ok) ==
    /\ poll[p].stage = "erring"
    /\ UpdateAttestation(poll[p].tx, att[poll[p].tx], ok)
    /\ IF ok THEN PollGoto(p, "delivering") ELSE PollAgain(p)
    /\ UNCHANGED <<call, histVars>>

\* deliverWebhooks reads the store and swallows what the receivers answer.
Deliver(p, ok) ==
    /\ poll[p].stage = "delivering"
    /\ CountCall(ok)
    /\ IF ok THEN PollEnds(p) ELSE PollAgain(p)
    /\ UNCHANGED <<att, used, pay, disk, call, histVars>>

FailPoll(p, ok) ==
    /\ poll[p].stage = "failing"
    /\ UpdateAttestation(poll[p].tx, "failed", ok)
    /\ PollEnds(p)
    /\ UNCHANGED <<call, histVars>>

(***************************************************************************)
(* The environment.                                                        *)
(***************************************************************************)
NextPeriod ==
    /\ period + 1 \in Periods
    /\ period' = period + 1
    /\ UNCHANGED <<storeVars, call, poll, charged, uncounted, crashes>>

\* SIGTERM, SIGINT or a crash: calls and pollers are gone, the files remain.
Crash ==
    /\ crashes < MaxCrashes
    /\ crashes' = crashes + 1
    /\ att' = disk.att
    /\ used' = disk.used
    /\ pay' = disk.pay
    /\ call' = [r \in Callers |-> Idle]
    /\ poll' = [p \in Pollers |-> NoPoll]
    /\ UNCHANGED <<disk, storeErrors, period, charged, uncounted>>

Serve(r) ==
    \/ NotOnChain(r) \/ FoundOnChain(r)
    \/ OverQuota(r) \/ SkipQuota(r) \/ NothingToRelease(r)
    \/ PreflightFails(r) \/ PreflightPasses(r)
    \/ PayRetries(r) \/ PayRefused(r)
    \/ PrepareFails(r) \/ PreparePasses(r) \/ SubmitFails(r) \/ SubmitPasses(r)
    \/ \E ok \in BOOLEAN :
          \/ NoteOnChain(r, ok) \/ AddReceipt(r, ok) \/ Reserve(r, ok) \/ Release(r, ok) \/ PaySettles(r, ok)
          \/ Create(r, ok) \/ StorePrepared(r, ok) \/ StorePending(r, ok)
          \/ StoreFailed(r, ok) \/ MarkFailed(r, ok)
          \/ \E p \in Free : MarkOk(r, p, ok)

Poll(p) ==
    \/ FetchFails(p) \/ VerifyFails(p)
    \/ \E ok \in BOOLEAN :
          \/ NoProof(p, ok) \/ FindProof(p, ok) \/ VerifyOnChain(p, ok)
          \/ NoteError(p, ok) \/ Deliver(p, ok) \/ FailPoll(p, ok)

Environment ==
    \/ \E r \in Callers, t \in Txs : AnswerCached(r, t) \/ \E a \in Payers : Ask(r, t, a)
    \/ NextPeriod
    \/ Crash

Next ==
    \/ Environment
    \/ \E r \in Callers : Serve(r)
    \/ \E p \in Pollers : Poll(p)

Spec == Init /\ [][Next]_vars

\* Every external call answers or fails in the end, and the event loop runs
\* what is ready.
Fairness ==
    /\ \A r \in Callers : WF_vars(Serve(r))
    /\ \A p \in Pollers : WF_vars(Poll(p))

FairSpec == Spec /\ Fairness

-----------------------------------------------------------------------------
(***************************************************************************)
(* Properties                                                              *)
(***************************************************************************)
Usage == [Keys -> [Periods -> Nat]]

StoreTypes ==
    /\ att \in [Txs -> AttStatus]
    /\ used \in Usage
    /\ pay \in [Invoices -> PayStatus]
    /\ disk \in [att : [Txs -> AttStatus], used : Usage, pay : [Invoices -> PayStatus]]

\* Every variable has its type; a call in progress has a transaction and a
\* payer, and only a key has a slot.
TypeOK ==
    /\ StoreTypes
    /\ call \in [Callers -> Call]
    /\ \A r \in Callers :
          /\ ~At(r, "idle") => Tx(r) \in Txs /\ Payer(r) \in Payers
          /\ call[r].slot # "none" => Payer(r) \in Keys
    /\ poll \in [Pollers -> Poller]
    /\ \A p \in Pollers \ Free : poll[p].tx \in Txs
    /\ period \in Periods
    /\ charged \in Usage /\ uncounted \in Usage
    /\ crashes \in 0..MaxCrashes /\ storeErrors \in 0..MaxStoreErrors

Holding(k, n) == {r \in Callers : /\ call[r].slot = "taken"
                                  /\ Payer(r) = k
                                  /\ call[r].period = n}
Held(k, n)    == Cardinality(Holding(k, n))

\* The counter that reserveAttestationUsage compares never misses a slot in
\* use or charged, in memory or in the file, except those given back twice
\* or after the submission, over crashes, failed writes and new periods.
NeverUndercounted ==
    \A k \in Keys, n \in Periods :
        LET due == Held(k, n) + charged[k][n]
        IN  /\ due <= used[k][n] + uncounted[k][n]
            /\ due <= disk.used[k][n] + uncounted[k][n]

\* "Mainnet attestations per billing period": a store call that throws lets
\* a key go over its limit by one at most; crashes and new periods never do.
LimitKept ==
    \A k \in Keys, n \in Periods :
        Held(k, n) + charged[k][n] <= Limit[k] + storeErrors

\* "Failed prepares do not consume quota": as long as nothing crashes and
\* no store call fails, the counter is exact on every path out of the flow.
CountExact ==
    crashes + storeErrors = 0 =>
        \A k \in Keys, n \in Periods : used[k][n] = Held(k, n) + charged[k][n]

\* The flow implements Quota: a slot is only taken, given back or charged.
Promise == INSTANCE Quota WITH
               held <- [k \in Keys |-> [n \in Periods |-> Held(k, n)]],
               extra <- uncounted

ImplementsQuota == Promise!Spec

\* Every request is answered: no path through the stages, with the release
\* and the marks on the way out, loops or stops.
EveryCallAnswered == \A r \in Callers : ~At(r, "idle") ~> At(r, "idle")

\* "the invoice is marked fdc_failed": a settled payment does not stay
\* without a mark, however its submission ended.
PaymentResolved == \A i \in Invoices : pay[i] = "settled" ~> pay[i] # "settled"

\* "pending: Round still in progress": an attestation does not stay pending.
PendingEnds == \A t \in Txs : att[t] = "pending" ~> att[t] # "pending"
=============================================================================
