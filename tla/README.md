# TLA+ models of xrplink

xrplink sells attestations: a client names an XRP Ledger transaction, the
service has the Flare Data Connector (FDC) attest it, and the client gets the
proof. A client pays with a subscription (an API key with a quota per billing
period) or per attestation (x402: an HTTP 402 answer with a quote, a signed
XRPL Payment in the next request, a facilitator that submits it).

These modules model the parts where money, quota and attestations depend on the
order of things: concurrent requests, slow external services, failed writes and
restarts; and the parts where a rule has to be right for every input: the price
of an attestation, the ranges of addresses, the check of the environment. TLC
checks them on small instances; TLAPS proves the results marked below for every
value of the constants.

    tlc -workers 2 -config X402Safety.cfg MCX402.tla
    tlc -workers 2 -config AttestSafety.cfg MCAttest.tla
    tlc -workers 2 -config AccountSafety.cfg MCAccount.tla
    tlc -workers 2 -config PgSafety.cfg MCPgStore.tla
    tlc -workers 2 -config Pricing.cfg MCPricing.tla
    tlc -workers 2 -config Delivery.cfg MCDelivery.tla
    tlc -workers 2 -config Gateway.cfg MCGateway.tla
    tlapm X402ServiceProofs.tla

| module | what it is |
| --- | --- |
| `X402Service` | quotes, invoice lock, verify, settle, ledger check, records, state file, marks |
| `PaymentBook` | abstract: what the state file of `X402Service` promises |
| `X402ServiceProofs` | theorems about `X402Service` |
| `AttestService`, `AttestServiceProofs` | the attestation flow, quota counters, pollers, store files; theorems |
| `Quota` | abstract: what the reservations promise |
| `Account`, `AccountProofs` | one customer: user record, key, rotation, session version, Stripe's webhooks, calls in progress; theorems |
| `PgStore`, `PgStoreProofs` | keys, counters and attestations of `PostgresStore`, query by query; rotation; the migration script; theorems |
| `Pricing`, `PricingProofs` | the price, its two caches and the quotes made of them; theorems |
| `Delivery`, `DeliveryProofs` | preflight, poller, contract and webhooks; theorems |
| `Gateway`, `GatewayProofs` | the check at start, the limits on requests, reset tokens; theorems |
| `Totals`, `TotalsProofs` | the total of a function to the naturals, for usage counters and requests by age; lemmas |
| `MCX402`, `MCAttest`, `MCAccount`, `MCPgStore`, `MCPricing`, `MCDelivery`, `MCGateway` | instances for TLC |

Operators called `..._Something` after an action and marked "Mutant" are versions
of the action with a plausible bug; the property they are listed with in
`PROJECT.json` finds them. They are not part of any specification.

## 1. Inventory

Files are under `src/` of the repository; tests are in `test/`, the contract in
`contracts/`.

### Components

**Pay-per-attestation** (`x402-service.ts`). State: the `quotes` map with a time
to live, the `payments` map (`quoted`, `settled`, `fdc_ok`, `fdc_failed`),
`usedPayloadHashes`, the chain of promises per invoice (`invoiceLocks`), and
`x402-state.json`. Operations: `buildPaymentRequired` issues a quote;
`processX402Payment` takes the invoice lock, checks record, replay, quote and
asset, calls the facilitator's `/verify` and `/settle`, looks the Payment up on
the XRP Ledger itself, records it; `markPaymentFdcOk` and `markPaymentFdcFailed`
write the outcome of the FDC submission. Hard: three awaits between reading and
writing the record; a facilitator whose answers may be late, lost or wrong; a
crash after the payer was charged; a write that throws after memory was
changed. Correct when: no invoice is charged twice, none is called paid without
a validated Payment that matches its quote, a paid payer is never refused a
retry, and the file never goes back.

**Settlement ledger** (`x402-ledger.ts`). State: events in `x402-ledger.json`.
Operations: append a quote or a settlement; summarise the margin. Correct when:
revenue is counted once, and only for payments on record.

**Attestation flow** (`attest.ts`). State: the attestations of the store, and one
`pollForProof` loop per submission, in memory. Operations: `attestXrpPayment`
(cache, on-chain check, reservation, preflight, payment), `submitToFdc`, the
poller. REST and MCP share it. Hard: about ten awaits from the cache lookup to
the record, each one a chance for another request; every early return and
exception has to give the slot back once; pollers do not survive a restart.
Correct when: every request is answered, every slot is charged or given back,
every settled payment ends with a mark, no attestation stays pending.

**Quota** (`attestation-quota.ts`). State: `attestationUsage` per key and billing
period. Operations: reserve, release, report. Correct when: a key is charged at
most its limit, and only for accepted submissions.

**Store** (`store.ts`, `file-lock.ts`). `JsonFileStore` keeps maps in memory and
writes four files under a promise chain; `PostgresStore` runs a transaction per
call. Hard: the four files are not one write; a failed write leaves memory ahead
of the file; insert races in PostgreSQL. Correct when: a restart finds a state
the process was in.

**FDC client** (`fdc-service.ts`), **XRPL lookup** (`xrpl-tx.ts`). No state.
Operations: prepare, submit, fetch a proof, verify on chain; look up a
transaction and check that it is a payment FDC can attest. Hard: a submission
may be mined although the call throws.

**Price service** (`price-service.ts`). State: two caches, of the rates and of
FDC's request fee, each with the time it was asked for. Operations: ask FTSO, then
Kraken, then the cache; ask the contract for the fee, then the cache, then the
setting; compute the amount with markup, floor, cap, step and buffer. Hard: two
calls overtake each other and fill the caches in either order, and an age is
checked before an await and used after it. Correct when: a quote rests on a rate
no older than allowed, but for the time its fee takes, and the amount is in range,
covers the cost and is worth it.

**Billing, users, keys** (`billing.ts`, `user-store.ts`, `api-keys.ts`,
`key-rotation.ts`, `auth.ts`, `session.ts`, `middleware.ts`). State: users with
tier and Stripe ids, API keys, a session version per user. Operations: Stripe
events, sign-up and login with a password, password reset by a mailed token (used
once, within an hour), key rotation (which moves the usage counters to the new key),
revocation of all sessions by logout, reset and rotation. Hard: Stripe delivers late,
twice and out of order; a handler's error is swallowed and answered 200; a rotation
is five writes to two sets of files, and meets calls that hold a slot under the old
key. Correct when: one key works per user, with the tier the subscription is paid
for; rotation neither loses nor adds usage; a revoked session stays revoked.

**Webhooks** (`webhook-service.ts`, `webhook-url.ts`, `routes.ts`). State: hooks per
attestation. Operations: register below a cap, deliver with retries to a host
that is resolved and checked each time. Hard: the cap is a count and an insert
apart; the poller reads the hooks after the contract and the store had their turn;
a host may resolve to something else on each attempt, and between the check and the
connection of one attempt. Correct when: every hook in force is called, with the
proof, and no address is called that was seen to be private.

**Rate limits** (`rate-limit.ts`, `middleware.ts`). State: a fixed window per kind of
request and client, in memory; a counter per key and calendar minute with a timer
to remove it. Hard: the edges of windows, limits of 0, a hit on the address that is
spent when the key or the email refuses, restarts. Correct when: what gets through
in any span is bounded.

**Start** (`env-validation.ts`, `config.ts`, `index.ts`). State: the environment, read
separately by the check and by the modules. Correct when: a process that starts in
production is sound, and what the check does not report works.

**PaymentVerifier** (`contracts/PaymentVerifier.sol`). State: the processed
transactions. Operation: verify a proof once.

**REST** (`routes.ts`, `app.ts`), **MCP** (`mcp/`), **views**, **email**, **scripts**:
wiring, HTML, text and one-off tools around the above. `migrate-to-postgres.ts`
copies the JSON files into the tables, and may be run again.

### How they interact

    REST / MCP ──> attest.ts ──> attestation-quota.ts ──> store.ts ──> files
                      │  │                                   ^
                      │  └──> fdc-service.ts ──> Flare       │
                      │            ^                         │
                      │            └── pollForProof ─────────┤
                      └──> x402-service.ts ──> facilitator   │
                              │   └──> xrpl-tx.ts ──> XRPL   │
                              └──> x402-state.json           │
    Stripe ──> billing.ts ──> user-store.ts, api-keys.ts ────┘

`attest.ts` calls `processX402Payment` under the invoice lock and writes the marks
after it, outside the lock. Callers, pollers, Stripe events and rotations share the
store; each store call is a critical section, a sequence of them is not.

The modules follow these calls. `Delivery` continues `AttestService` from the submission
on, with the requests that read the record before it and may submit too; `AttestService`
takes the payment of `X402Service` as one step; `X402Service` takes the price of
`Pricing` as given; `Account` and `PgStore` are the two stores under a rotation.

`PROJECT.json` lists every component with its status, and under `hazards` the
places that are hard to test, each with its properties or the reason it has none.

## 2. Plan

Done: all modules of the table above.

| step | module | models | properties |
| --- | --- | --- | --- |
| 1 | `Account`, more of it | a second open subscription, the status unpaid | a paid subscription keeps its plan |
| 2 | `JsonStore` | loading: older and unreadable files, the normalising write at start | what a restart finds |
| 3 | `McpSessions` | sessions over HTTP | a session is served by its own server |

Runs keep to two or three actors and one or two failures, and each one asks one
question of a composition, not one of every file.

## 3. X402Service

### State and actions

| variable | code |
| --- | --- |
| `quotes`, `payments`, `used` | the maps `quotes`, `payments` and the set `usedPayloadHashes` |
| `disk` | `x402-state.json` |
| `lockq` | `invoiceLocks`: the queue of an invoice, its head is in the locked section |
| `req` | each client's stage in `processX402Payment` and after it, with its arguments |
| `age` | whether the quote's time to live has passed |
| `submitted`, `applied` | Payments sent to `/settle`, Payments validated on the ledger |
| `logged`, `lost`, `attested` | history: settled events, settlements that ended without a record, accepted FDC submissions |

A code path between two awaits is one action. `processX402PaymentLocked` up to
its first await is one of `RejectOtherTx`, `RejectReplay`, `RetryFdc`,
`RejectNoQuote`, `RejectAsset`, `StartVerify`; `getQuote` prunes expired quotes
whatever it finds, and the actions that reach it do so too. The calls to the
facilitator and to the ledger end in `VerifyFails` / `VerifyPasses`,
`SettleFails` / `SettleSucceeds`, `ConfirmFails` / `ConfirmPasses`. `/settle` may
answer failure although the Payment is on its way, name another transaction or
none, and the ledger may validate the Payment at any time after it was sent
(`LedgerApply`). `RecordPayment` and `LogSettlement` are two writes to two files.
`AbandonSubmit`, `FdcAccepts`, `FdcRejects`, `MarkFdcOk` and `MarkFdcFailed` are
what `attest.ts` does with the authorization.

A write that throws (`ok = FALSE`) leaves the new value in memory and the old one
in the file; the next write that succeeds takes it along. `Crash` stands for a
crash and for the immediate exit on SIGTERM and SIGINT: memory is read back from
the file.

Data: a payload is a model value with its invoice (`ClaimOf`), asset (`AssetOf`)
and whether its Payment passes `assertSettledXrplPayment` (`Matching`). Hashes,
amounts, addresses and the encoding of the header are not modelled. The cache
lookup of `attest.ts` that comes before a presentation is left out, so the model
admits presentations the service would answer from the cache.

### Runs

| run | instance | shows |
| --- | --- | --- |
| `x402_safety` | 1 invoice, 3 payloads (two good, one that pays too little), 2 transactions, 2 clients, 1 crash, 1 failed write | all safety properties below, and that the file implements `PaymentBook` |
| `x402_liveness` | 1 invoice, a good and an unacceptable payload, 3 clients, 1 failed write | `EveryRequestAnswered` |
| `x402_once` | 1 payload, 2 clients | a counterexample to `OneAttestationPerPayment` |

* `SettlesOnlyUnpaid`: the record read before three awaits is still unpaid after
  them, although marks are written outside the lock.
* `OneSettlePerInvoice`: no second payload goes to `/settle` for an invoice, unless
  a settlement got lost. The exception is real: after a failure answer or a
  crash the code cannot know, and lets the payer try again.
* `PaidIsBacked`: memory and file call an invoice paid only on the ledger's word.
* `AuthorizedIsPaid`: who submits to FDC still holds a payment for that transaction.
* `UsedIsPaid`: the replay marks never run ahead of the records.
* `LoggedOnce`: revenue is counted once, over crashes and failed writes.
* `ImplementsPaymentBook`: the file only moves from no record to quoted to paid.
* `EveryRequestAnswered`: every path out of the locked section lets the next one in.

`InvoiceLockExclusive`, one request per invoice between verify and the log, is a theorem
below and not repeated in the run. The same goes for `TypeOK`, here and in the other
modules.

Two clients are enough for every interleaving of two locked sections and of the
marks of one with the section of another; three payloads on one invoice cover a
retry with the same signature, a second signature, and one the ledger refuses.
Invoices share nothing but the file and `quotes`; the proofs cover several. The
third client of the liveness run makes a queue behind a queue.

`x402_once`: the lock ends with `processX402Payment`, before the FDC submission.
A second request with the same signature finds the record `settled` and is
authorized as a retry, so FDC takes two submissions for one payment, where
`docs/x402-integration.md:71` has "One settled payment = one attestation."
It goes on from there: the mark of the request that fails overwrites `fdc_ok` with
`fdc_failed` (`x402-service.ts:387`), and the payment is accepted once more.

### Fairness

Weak fairness of each request's steps: the event loop runs what is ready, and
every external call answers or fails. Requests to the facilitator end by the HTTP
client's own header and body timeouts, the ledger lookup by its abort timer. The
environment (new requests, quotes, the ledger, crashes) is not fair.

### Theorems

`X402ServiceProofs` proves, for every set of invoices, transactions, payloads,
clients and assets and every bound, from `ConstantsAssumption` alone:

| theorem | property |
| --- | --- |
| `TypeCorrect` | `TypeOK` and `LockHeld` |
| `LockIsExclusive` | `InvoiceLockExclusive` |
| `Invariance` | `IInv` |
| `NoSecondCharge`, `SettledAtMostOnce` | `SettlesOnlyUnpaid`, `OneSettlePerInvoice` |
| `PaidMeansPaid`, `AuthorizationIsPaid` | `PaidIsBacked`, `AuthorizedIsPaid` |
| `ReplayMarksArePaid`, `RevenueCountedOnce` | `UsedIsPaid`, `LoggedOnce` |
| `FileImplementsBook` | `ImplementsPaymentBook` |
| `QueueIsSound` | each chain of promises has the calls that wait or work, all of them, each once |
| `LineKeepsMoving` | whoever waits has a call in progress on the invoice at the head, and it can go on |
| `NobodyOvertakes` | no step puts another call in front of one that waits |
| `RequestsComeToAnEnd` | a request's own steps, nine at most, take it to its answer, and no other step takes it back |
| `PaidRequestsAreServed` | a paid invoice without an attestation is refused to who asks for its transaction only by a crash or a failed write |
| `PaymentsAreForGood` | a paid invoice keeps its transaction and its payment: in the file for ever, in memory while the process lives |

The argument. `LockHeld` says that a request in a locked stage is the head of its
invoice's queue; a queue has one head, which gives the lock's exclusion and that no
one else can change the record of the invoice in a locked section, but for the two
marks. The marks touch only records of requests that hold an authorization, and
`AuthorizedIsPaid` says those are paid; so a record seen unpaid stays so
(`SettlesOnlyUnpaid`). `Checked` carries what was verified to the step that
records it, which gives `PaidIsBacked`. `SettlementTracked` says where each
payload sent to `/settle` is: with its request, in a record, or lost; a second
payload could only be sent for an unpaid, unlost invoice whose first one is with
another locked request, and there is none. `MemoryAhead` and `QuotesKnown` relate memory
to the file, so that the properties survive `Crash`; `LogPending` says that a
settlement about to be logged is on disk and not yet logged. None of the safety
properties is inductive without these; `IInv` is their conjunction.

`QueueIsSound` to `RequestsComeToAnEnd` are what `EveryRequestAnswered` needs besides fairness: the
turn of a request is a number of ends of other calls away that no step makes larger, the next
of those calls can always take a step, and is at its end after nine. Every step leaves the lines alone, takes the head off
one, adds a request that was in none, or empties all of them (`NextKinds`), and `QueueOK` is
inductive over these four. `CanGoOn` is `ENABLED Serve` with the guards written out, since the
prover has no `ENABLED`; TLC finds the two equal in every state of the instances of
`x402_safety` and of `x402_liveness` with a crash.

`PaymentsAreForGood` is finer than `ImplementsPaymentBook`, which only says that a paid record stays
paid: it says for which transaction, and by which payment. A write that throws leaves memory
ahead of the file, and a later one writes all of memory, so the invariant to carry is
`FileAgrees`: what the file calls paid, memory does too, in the same words. A settlement
may only overwrite a record that is unpaid (`SettlesOnlyUnpaid`), and the marks keep both fields.

## 4. AttestService

### State and actions

| variable | code |
| --- | --- |
| `att` | status of the attestation record of each transaction |
| `used` | `attestationUsage`, per key and billing period |
| `pay` | status of the payment record of each invoice |
| `disk` | the files of the store and `x402-state.json` |
| `call` | each request: its stage, transaction, payer, billing period and `reservedKey` (`slot`) |
| `poll` | each `pollForProof` loop: its transaction, stage and attempt |
| `period` | the current billing period |
| `charged`, `uncounted` | history: accepted submissions per key and period; slots a failed store call had given back once too often |

The stages follow `attestXrpPayment` and `submitToFdc` from await to await: on-chain
check (`NotOnChain`, `FoundOnChain`, `NoteOnChain`), reservation (`Reserve`,
`OverQuota`, `SkipQuota`), preflight, payment (`PaySettles`, `PayRetries`,
`PayRefused`), record (`Create`), prepare, submission, `StorePending`, `MarkOk`;
the catch block of `submitToFdc` (`StoreFailed`, `MarkFailed`); `Release` and
`NothingToRelease` on the ways out; `AddReceipt` writes the owner's receipts, last. `releaseReservation` sets `reservedKey` to null
after its store call, so a call that throws in the try block is repeated by the
outer catch block: stage `rereleasing`, slot `returned`. Pollers: `NoProof`,
`FetchFails`, `FindProof`, `VerifyOnChain`, `VerifyFails`, `NoteError`, `Deliver`,
`FailPoll`.

Abstractions: `processX402Payment` is one step (its parts are in `X402Service`).
`syncPersist` writes the attestations before the usage; a call that throws may have
written the attestations (`Persist`), and leaves memory ahead of the files. Only mainnet callers have a quota,
so keys are mainnet keys. `NextPeriod` may come between any two steps. Periods are
numbers; the calendar is not modelled.

In `JsonFileStore` the promises of a store call resolve without I/O of their own,
so between two store calls in a row other requests run less often than in the
model, which allows any interleaving there; with PostgreSQL each call is a round
trip. The interleavings that the counterexamples need are at calls to XRPL, Flare
and the facilitator.

### Runs

| run | instance | shows |
| --- | --- | --- |
| `attest_safety` | 2 callers, 1 transaction, 1 key with limit 1, 2 periods, 1 poller, 1 crash, 2 failing store calls | the safety properties below, and the flow implements `Quota` |
| `attest_liveness` | 2 callers, a key and an invoice, 2 pollers, no crash, no store error | `EveryCallAnswered`, `PaymentResolved`, `PendingEnds` |

* `NeverUndercounted`: the counter that the reservation compares covers every slot in
  use or charged, in memory and in the file, but for `uncounted`. A crash or a write that
  fails may leave it too high; only a repeated release, or one after the submission,
  leaves it too low.
* `LimitKept`: so a key is over its limit by one at most for each store call that threw.
* `CountExact`: without crashes and store errors the counter equals the slots in
  use and charged: none of the ten ways out keeps a slot or gives it back twice.
* `ImplementsQuota`: every step of the flow is a step of `Quota` or changes nothing there;
  `uncounted` is the variable `extra` of `Quota`.
* `EveryCallAnswered`, `PaymentResolved`, `PendingEnds`: the flow ends, a settled
  payment is marked, a poller ends with a status.

Two callers on one key are enough to compete for the last slot and to release and
reserve across each other; two periods for a release after the turn of the period;
two store errors for a release that throws and its repetition.

What the model shows and no run claims. Cache lookup and record are separated by the
on-chain check, reservation and preflight, and `createAttestation` returns an existing
record whatever its status, so two callers are charged and submit for one transaction:
`Delivery` takes two rounds from here. Pollers are not started again after a restart, and
the cache answers every later request with the pending record, so `PendingEnds` is
checked without crashes. A release that throws is repeated and takes another caller's
slot from the counter, and a write that throws after the submission gives a charged slot
back: `uncounted` counts them, and `LimitKept` has the term `storeErrors` for them.

### Fairness

Weak fairness of each caller and each poller. Calls to the verifier, the DA layer and the
facilitator end by the HTTP client's timeouts, the webhook and ledger calls by their abort
timers. `tx.wait()` on Flare has no timeout in the code: that it ends is an assumption.

### Theorems (`AttestServiceProofs`)

From `AttestAssumption` alone, so for every number of callers, pollers, transactions, keys,
periods, crashes and failing calls, and every limit: `TypeCorrect`, `CounterIsSafe`, `LimitHolds`, `CounterIsExact`,
and `QuotaImplemented`, that the flow implements `Quota`.

The argument. `Typed` ties the slot of a call to its stage: none up to the reservation,
taken on the way to FDC, spent after FDC accepted. `StepKinds` sorts the steps: four move a slot
(`Reserve`, `Release`, `SubmitPasses`, `Crash`), the others are `Calm` and leave the counters and
slots alone. `QuotaOK` says for each key and period, with *due* for the slots in use and
charged: due is at most the counter plus `uncounted`, in memory and in the file; due is at most
the limit plus `uncounted`; and `uncounted` plus `Trouble` is at most the number of store calls that
threw. `Trouble` counts the calls that may still give back a slot they no longer have, one
already given back or one charged; without this term the bound of `uncounted` is not
inductive, as the error comes steps before the release it leads to. The slots in use are a
cardinality that one caller at a time changes (`OthersStay`, `OneMoves`). For the refinement each of
the four steps maps to one of `Quota` under the table of held slots (`HeldMap`), and a calm one to
a stutter.

What is proved of the three liveness properties, which TLC checks with fairness on an instance without faults:

| of | theorems |
| --- | --- |
| `EveryCallAnswered` | `CallsComeToAnEnd`: each step of a call takes it nearer to its answer, on every path through the catch blocks; `NobodyGetsStuck`: a call in progress can take a step |
| `PaymentResolved` | `PaymentsAreCarried`: a settled payment has a call that has its mark to write; `PaymentsKeepTheirCalls`: it loses the last of them by a crash or a failed store call only |
| `PendingEnds` | `PendingIsCarried`, `PendingKeepsItsPoller`: the same of a pending attestation, with calls and pollers; `PollersComeToAnEnd`: five steps at most for each attempt of a poller |

`NobodyGetsStuck` rests on `RoomForPollers`: there are at least as many free pollers as calls between
`SubmitPasses` and the end of `MarkOk`, so the bound on pollers refuses submissions and never stops a call that FDC
accepted. It is on two cardinalities that one step changes by one. `CanGoOn` is `ENABLED Serve` with the guards written
out, as in `X402ServiceProofs`. The two `Kept` properties hold after a fault as well, for what has a
carrier then; what a crash left behind has none, and stays as it is.

## 5. Account

### State and actions

| variable | code |
| --- | --- |
| `user` | the `StoredUser`; `apiKeyIds` holds one id at most, so it is `key` |
| `keys`, `usage` | `apiKeys` and `attestationUsage` of the store |
| `disk` | `users.json` and the files of the store, written apart |
| `job` | each handler: a sign-up, a rotation, a webhook or an attestation call, its stage and local variables |
| `stripe`, `due` | Stripe's side: the subscriptions, and the events not answered yet, each with the subscription as it was |
| `shown`, `revoked`, `charged`, `uncounted` | history: keys whose secret was handed out; the last session version that was to end; attestations submitted; slots given back although charged, or twice |

`SignUp`, then `CreateKey` and `Link`, is `signup`. `Rotate`, `CreateKey`,
`CopyCountFails`, `MoveUsage`, `DeleteOld`, `Link` is `rotateUserApiKey`, one action
per write. `SubscriptionUpdated`, `SubscriptionDeleted`, `InvoicePaymentFailed`,
`Retrieve` with `CheckoutCompleted`, `InvoicePaid`, `RetrieveFails` and
`ClearPastDue` are the webhook handlers, `SyncKey` the loop over the keys at
their end, `Ignore` their early returns. `Revoke` is a logout or a password reset.
`Ask` to `Release` are a call of the dashboard or of MCP, which have the key's record in
hand before the first await. It follows `attestXrpPayment` write by write, as each may
throw: the reservation (`Reserve`), the record and the prepared request (`Record`), the
round after the submission (`SubmitPasses`), the receipt (`AddReceipt`), `failed` in the
catch block of `submitToFdc` (`NoteFailed`), and the release, which the outer catch block
repeats when it threw, or makes when something else did (stage `unwinding`). `holds` says
whether the call still has the slot it will give back. The rest of the flow is
`AttestService`.

`syncPersist` writes the keys before the usage, and a call that throws may have written
the keys (`WriteStore`). With `JsonFileStore` a store call resolves without I/O, so a
handler in one of the stages `InTurn` runs on before any other does (`Quiet`). What comes between two of its
writes is a crash, or a write that throws. Handlers give the event loop up while
Stripe, the chain or FDC answers.

Stripe: a checkout while no subscription is open, changes of plan, failed and
recovered payments, renewals, a cancellation, each with its events. With `Ordered`
it sends the next event when the last one was answered; without, in any order and
again after the answer was lost. A crash before the answer brings the event again in
either case. Prices resolve from `TIER_PRODUCTS` without a call to Stripe, the
period fields that the code reads are there, and retries that fail end in a
cancellation, as `docs/production-hardening.md:140` says, so `unpaid` does not occur.
Deletion of keys by the operator is not modelled.

### Runs

| run | instance | shows |
| --- | --- | --- |
| `account_safety` | 2 handlers, 2 keys, 2 plans, 1 subscription over 2 periods, limit 1, 1 rotation or revocation, 1 crash, 1 failed write, 1 failed Stripe call, events in order | the properties below |
| `account_late` | 2 handlers, events without an order | a counterexample to `SubscriptionEndsFree` |

* `OneWorkingKey`: of the keys that were handed out one works at most, in memory and
  in the files, wherever a rotation broke off.
* `EntitlementFollowsStripe`: when Stripe's events came in order and are answered, and no
  write or Stripe call failed, user and key have plan, status and period of the
  subscription, although handlers wait for Stripe, a crash cuts them off between user
  and key, and the key is rotated meanwhile. Failed writes are excepted because the
  code answers 200 after them and Stripe does not send again.
* `RevokedStaysRevoked`: a session version that was ended never is the user's again. A
  crash and a failed write together are excepted: the version bumped in memory
  only is handed out by a login, lost in the crash and reached again.
* `UsageKept`: the counters of all the customer's keys together cover every slot in
  use or charged, in memory and in the file, but for `uncounted`: a write that throws
  after the submission has a charged slot given back, and a release that throws is
  repeated. Each such slot takes a write that failed, so without one nothing is lost.

Two handlers are a call that meets a rotation, or a webhook that meets either; two keys
are one rotation; two periods a renewal between reservation and release. The same
instance with a third key, which a rotation that failed can be repeated with, and with a
third session version, was checked as well and takes too long for a routine run. The run has 4.4
million states; its one failed write is one of the call, of the rotation or of a webhook.

`account_late`: the checkout handler waits for Stripe, the deletion is handled meanwhile
and ignored, as the customer is not linked yet, and then the checkout grants the plan
of a subscription that it has just read as canceled. A late
`customer.subscription.updated` does the same after a deletion, which has cleared
`stripeSubscriptionId`.

A rotation that meets a call moves the counters while the call holds a slot under the
old key; its release finds zero there, and the slot stays taken. `UsageKept` says how much
may be lost in the other direction.

### Theorems (`AccountProofs`)

From `AccountAssumption`, with and without `Ordered`: `TypeCorrect`, `RevocationHolds`,
`OneKeyWorks`, `QuotaSurvives` (`UsageKept`) and, with `NoEventAssumption`,
`EntitlementHolds` (`EntitlementFollowsStripe`).

The argument. `Turns` says that one handler at most keeps the event loop, so that
what a rotation read holds to its end: the key it replaces is still the user's, the file of keys
is what memory has once the new key was written, and no key handed out works any more when the
new one is linked. `ShownOK` says that a key that was handed out works only while
the user's record names it, in memory and in `users.json`; one of the two records names one key, so
one works. `VersionOK` says that a revoked version is below the user's, in memory for as long as no
crash, and in both while no write failed, memory and file being equal then.
`FreshOK` is about the time before the sign-up.

`UsageKept` compares totals, which `Totals` counts as tokens, so that the library's facts about
cardinality do for induction. It is inductive with `LinkedOK`: a key that a record links is on
file, so its counters are with it after a crash, and a rotation's two keys differ, so that the move
of the counters from one to the other leaves the total. Its bound on `uncounted` is inductive as
`Blamed`, which adds the handlers that are about to give back a slot they no longer have (`Owers`):
the write that failed comes steps before the release it leads to.

`EntitlementFollowsStripe` speaks of the time when no event is due, and its invariant `Follow` of the
time in between, as long as the order holds and nothing failed. The last event due that sets
the plan, and those after it, have what Stripe has now (`Told`). Each event is about the same
subscription as the one before it, or a checkout after its end (`InOrder`), so that none is ignored when its turn
comes (`HeadOK`). A webhook in progress is about the first event (`Handling`). When no event that sets
the plan is left, but for the first one with its record written, the record is what Stripe has
(`Synced`). `KeyOK` is the same for the key: it has the user's plan unless the first event due
sets it, and the new key of a rotation is made with the user's plan.

## 6. PgStore

### State and actions

| variable | code |
| --- | --- |
| `rows` | `api_keys`: under which forms (plaintext, hash) each key has a row |
| `counters`, `used`, `lock` | the rows of `attestation_usage`, their `usage_count`, the transaction that holds each |
| `att` | the rows of `attestations`, and who wrote them |
| `listed` | `apiKeyIds` of `users.json` |
| `call` | each request's next query and local variables |
| `script` | what a run of `migrate-to-postgres.ts` has still to copy |
| `known`, `charged`, `uncounted`, `revoked`, `gone`, `overlap` | history |

Every query is an action. A call begins with `Request`: `SelectHashed`, then, for a key
issued before keys were hashed, `SelectPlain` and the lazy move of its row (`CopyRow`,
`DropPlain`, `MoveUsage`); `Connect`, `SelectForUpdate`, `InsertCounter` and `Commit` are
`reserveAttestationUsage`, the only transaction; `SelectTx` and `InsertTx` are
`createAttestation`. `Submit` is the submission with what comes before it, `NotePending` the
write of the round and the receipt, `NoteFailed` the catch block of `submitToFdc`, `Release` and
`ReleaseFails` the release, which the catch block of `attestXrpPayment` repeats (stage `unwinding`),
and `QueryFails` any other query that throws, after which `AfterError` says how the call goes on. `Rotate`, `IssueKey`,
`RekeyUsage`, `DeleteOld`, `ListNew` is `rotateUserApiKey`, `AdminDelete` the operator's
`DELETE /api/v1/admin/keys/:key`. `RunScript`, `CopyTx`, `CopyKey` is the script, which
may run at any time and again.

PostgreSQL is modelled by what this code relies on at READ COMMITTED: a query sees what
was committed when it began, `SELECT ... FOR UPDATE` locks only rows there are, an insert
that meets an uncommitted row waits and then fails on the primary key, a renaming waits
for locked rows. A query outside a transaction needs a free connection of the pool. A
`COMMIT` whose answer is lost may have been applied.

The month of a counter is `VARCHAR(7)` (`store.ts:495`), and every period key of the code is a
start in seconds, of ten digits (`getBillingPeriodKey`, for Stripe's periods and for the calendar's
alike): with this column every reservation of the code throws, and its call is answered 500. The comment at
`store.ts:27` says "apiKey:YYYY-MM". The model has a key of that form (`month`) beside one of
ten digits (`epoch`), so that it also says what the reservations do once the column is wide enough.

### Runs

| run | instance | shows |
| --- | --- | --- |
| `pg_safety` | 2 clients, 1 transaction, 2 keys of which the first is stored in plaintext, a period key that fits and one that does not, limit 1, pool of 1, 1 failing query, 1 crash, 1 run of the script | the properties below |
| `pg_rotation` | 1 client, no failures | a counterexample to `RotatedKeyRejected` |

* `NothingUncounted`: over all keys the counters cover every slot in use or charged,
  whatever is renamed, committed without an answer, or cut off, but for `uncounted`: a query
  that fails after the submission has the charged slot given back, and a release that was
  applied although it threw is repeated. Each such slot takes a query that failed.
* `LimitPerCounter`, `OneCounter`: but for those the user goes over the limit only by having
  several counters, and without overlaps there is one.
* `GoneStaysOut`: a key deleted to the last row is not accepted again. Excepted are a
  lookup that was copying it at the time and a run of the script, which copies the
  deleted key of `api-keys.json` back (`docs/production-hardening.md:344` has the script
  run again).
* `ListedKeyWorks`: without overlaps the key the user was given last works.
* `NoStandstill`: requests never all wait for locks and connections. With a pool of one
  this is the hardest case: a transaction keeps its connection until it commits.

Two clients are a reservation against another one, a rotation, a deletion or a lazy
move; a third would only queue. The state space has 3.9 million states.

`pg_rotation`: `users.json` has the hash of a key whose row still has the plaintext;
`deleteApiKey` of the hash finds nothing, and the rotated key keeps working.

With overlaps the code has more to it than these properties say: of two rotations of one
user at a time both keys work and one of them is listed nowhere.

### Theorems (`PgStoreProofs`)

From `PgAssumption` alone: `TypeCorrect`, `GoneKeysStayOut`, `EverySlotCounted`
(`NothingUncounted`), `LimitForEachCounter` (`LimitPerCounter`), `OneCounterBetween`
(`OneCounter`), `ListedKeyAccepted` (`ListedKeyWorks`), `NobodyStandsStill` and `CallsComeToAnEnd`. `GoneStaysOut` is
inductive only with `NobodyCopies`: a key that is gone has no row, and no lookup that saw
its row in plaintext has still to copy it. A lookup that begins later finds no row to copy;
one that began before is the exception in the property.

`NothingUncounted` needs `FreshKeys`: the key a rotation has issued is known to nobody else and has
no counters, so that moving the usage to it overwrites nothing; its bound on `uncounted` is inductive as
`Blamed`, which adds the requests that are about to give back a slot they no longer have. `LimitPerCounter` follows
from it with `WithinLimit`, that no counter is over the limit, and that needs `Locks`: a request about
to commit holds the row it read, so what it read is still there and below the limit. `OneCounter`
and `ListedKeyWorks` share `InTurn`, which holds until things overlap: who works on the
rows, which key is in use, and what the steps of a rotation or lazy move still have to do to its
counters.

`NobodyStandsStill` is `NoStandstill` with guards in place of `ENABLED`, which the prover does
not have: `CanGoOn` says that the request has its connection or can get one, and that nobody holds
the row of its next query. TLC finds it equal to `ENABLED Serve` in every state of the instance
of `pg_safety`. It rests on `Locks`, by which only a request about to commit holds a row, and that
one waits for nothing. `RoomLeft` is about the bound on keys: each rotation begun has a key left to
issue. `CallsComeToAnEnd` excludes what this leaves open, requests that undo each other's
work for ever: a lookup reads the hashed row twice, and the second time it does not start
over, so a request has seventeen queries at most, and a rotation four.

## 7. Pricing

### State and actions

| variable | code |
| --- | --- |
| `conf` | the `X402_...` settings, read at each use and not changed |
| `priceCache`, `feeCache` | the two caches with their `ts`; `read` is when the rates were really read |
| `req` | each call of `getAttestationPrice` or `isPriceFeedAvailable`: the stages of its two parts, which run side by side, and their results |
| `quote` | the quote made last, with the rates and the fee it was made of, and when each of them came |
| `now` | the clock |

`Ask` reads the caches; `Answers`, `FtsoFails`, `KrakenFails` are `refreshPrices`,
`FeeAnswers`, `FeeFails` are `resolveAttestationFeeFlr`, `Finish` is the end of
`buildPaymentRequired`. An entry's `ts` is the time its request began, as in the code, so
whoever answers last fills the cache with whatever age. `Usd` and `Drops` are
`calculateAttestationPrice`: markup, then floor and cap, then up to the next step, then the cap
again, then drops rounded up. USD and rates are in cents and the buffer in percent; the
code's epsilons against floating-point noise have no counterpart, and `toFixed` is not
modelled.

`Tick` lets time pass while an answer is awaited, for as long as the bound on the clock goes: nothing in
the model ends a call. The fetch from Kraken has no abort signal (`price-service.ts:293`), and the calls of
the chain end by the RPC client's own timeout. What is ready runs before time passes.

### Run

`pricing`: 2 requests, rates that are positive or not, two fees one of which is dust, four
settings (a cap on a step and off it, a cap below the floor, entries that stay fresh beyond
their maximum age), 3 ticks; 8.1 million states. Two requests are one that overtakes
another; 3 ticks are an answer that comes late, an entry that grows too old and a quote
that expires.

* `QuoteIsRight` is `QuoteInRange`, `QuoteCoversCost` and `DropsCoverPrice`: the amount against
  its definition from the other side, as inequalities.
* `QuotedRateAge`: when the quote is made, its rates are no older than the maximum age and the
  delay of the fee, that is the time the fee came after the rates; `PayablePriceAge`: and no older
  than that and the quote's time to live while it can be paid.
* `QuotedFeeAge`: the fee of a quote is no older than the maximum age and the time of the request.

Two texts of the repository say more than the code does. "Quotes fail closed if the best price is
older than this" (`docs/x402-integration.md:37`, and the head of `price-service.ts`) is true of the
check in `fetchLivePrices`, which comes before the quote when the fee is slower than the rates: the
quote is then made of rates that were in date when they came. `QuotedRateAge` says by how much. "If that
call fails, `ATTESTATION_FEE_FLR` is used" (`docs/x402-integration.md:40`) leaves out the cache: a fee
of either source that was in date when the request began is used first, and the setting, once it was
used, is cached like a fee of the chain. `QuotedFeeAge` says how old the fee may be then.

### Theorems (`PricingProofs`)

From `PricingAssumption` alone, so for every setting, rate, fee, number of requests and time:
`TypeCorrect`, `RatesNotOld` (`QuotedRateAge`), `PayableNotOld`, `FeesNotOld` (`QuotedFeeAge`),
`AmountsRight` (`QuoteIsRight`). The amounts follow from three facts about division (`CeilDivBounds`,
`RoundUpBounds`, `ClampedBounds`), composed in `UsdBounds` and `DropsBounds`; `QuoteInv` says that the
quote was made by them. `AgeInv` says for the cache, and for the price of each request in
progress, that the rates are not older than the entry says, and that an entry is not newer than
now; the ages follow because each use compares the age once more, of the rates with the clock
and of the fee with the beginning of the request, and a quote is made when the later part is there.

## 8. Delivery

### State and actions

| variable | code |
| --- | --- |
| `ledger` | what the XRP Ledger has: nothing, a payment, one no validated ledger has yet, another type, an issued currency, too old a payment |
| `att`, `hook`, `disk` | status and proof of each record, and the webhooks, in memory and in the files |
| `asked` | requests that read the record and have not written to it yet |
| `poll` | each `pollForProof`: stage, attempt, the record that `deliverWebhooks` read |
| `call` | the calls that `deliverWebhooks` makes |
| `reg` | requests for a webhook in progress |
| `mempool`, `payments` | `processPaymentProof` transactions on their way; what the contract has counted |
| `owed`, `forgot` | history: hooks in force when the poller stored the proof; pollers that ended without calling theirs |
| `reached`, `rounds` | history: reserved addresses called, each with what the check before had resolved; submissions, failed ones too |

`LookupXrplTx` and `Verdict` are `preflightXrplPayment`, for every combination of answers of
the endpoints. An endpoint that has the transaction is believed whether or not it says `validated`
(`xrpl-tx.ts:134`), so a proposed one is found as well, which `CloseLedger` validates or drops later.
`Ask` reads the record; `FoundVerified` is the answer of the contract (`attest.ts:309-324`), `RequestRefused`
any refusal before the submission, `Submitted` an accepted one, which starts a poller, and `SubmissionFails` the catch block
of `submitToFdc`, which writes `failed` over whatever the record says by then. `NoProof`, `FetchFails`, `FindProof`, `Send`,
`SendFails`, `WaitFails`, `NoteVerified`, `NoteError`, `FailPoll` are the poller and
`verifyProofOnChain`; `ProcessPaymentProof` is the contract, which may mine a transaction after its
sender gave up or the process restarted. `ReadAttestation`, `ListWebhooks`, `Post`, `Unsafe`,
`PostFails`, `EndPoll` are `deliverWebhooks`. `Register`, `CountHooks`, `SaveHook`,
`RegisterFails` are `POST /api/v1/webhooks`. A store call that throws starts the poller again
(`Again`), as its outer `catch` does, or ends it.

A write that throws (`ok = FALSE`) may have changed memory already, as `JsonFileStore` does, or not,
as with PostgreSQL; and the files of the attestations and of the webhooks may have been written or
not (`Persist`). Before each attempt of a call the host is resolved and checked (`checked`), and `fetch` resolves it
once more to connect, to `x`, which DNS may choose anew.

An IPv4 address is its first two bytes, which decide every range in the code. The
reserved blocks are written down as registered, by first address and size, and not as the code
compares bytes. IPv6, the spellings of a host and signatures are left out.

### Run

`delivery`: 1 transaction of six kinds, 2 endpoints, 2 submissions and pollers, 2 requests for
a hook with a limit of 1, 2 poll attempts, 2 tries per hook, 1 store error, crash or call of a reserved
address, DNS answers next to a reserved block, inside it as well, and none; 1.6 million states. Two submissions are
those that `AttestService` allows; one fault is enough to start a poller again after any of its
store calls.

* `PreflightSound`: nothing that can be attested is refused for its content, and nothing
  passes but a payment or a transaction no validated ledger has yet; only silence of all
  endpoints lets the verifier decide.
* `VerifiedIsProcessed`: "verified" is only said of a payment that the contract has, by the
  poller and by a later request, over late mining, crashes and failing writes.
* `ProofStays`, `PayloadComplete`: between the proof and the hooks stand a contract, a chain, a store and other receivers.
* `NoHookForgotten`: a poller that gets to its calls makes all it owes, and no more pollers
  end without theirs than store calls threw.
* `HookLimitKept`: the documented limit of hooks per key ("Max 10 active hooks per key") is exceeded by the requests
  that race, by one each, and no more.
* `ReservedOnlyRebound`: a reserved address is only reached if the check before did not see it.

What the code does against its own texts, and how far the properties let it go:

* A transaction that an endpoint has and no ledger has validated passes the preflight, whose comment
  (`xrpl-tx.ts`) says "Reject hashes the hosted FDC XRPPayment verifier cannot prove"; FDC refuses it later.
* When every endpoint answers with some other error, the answer is `TX_NOT_ON_LEDGER`, while
  `lookupXrplTx` is to distinguish "not in ledger" from "every RPC endpoint failed" (`xrpl-tx.ts:107-108`).
* A second request that read the record before there was a proof, and whose submission fails, writes
  `failed` over `ready` or `verified`; one that is accepted writes `pending`, and its poller may find nothing and write
  `not_found`. So `ProofStays` and the status in `PayloadComplete` are stated for one submission, and without
  store calls that throw: a poller that starts again may do the same to its own proof.
* A hook that was in force is not called when reading or listing throws in the last attempt, or a write before them.
* "Re-checked at delivery" (`webhook-url.ts:2-3`) is done on another resolution of the host than
  the one `fetch` connects to (`webhook-service.ts:80` and `:100`): a name that changes in between gets a call to a reserved address.

### Theorems (`DeliveryProofs`)

From `DeliveryAssumption` alone: `TypeCorrect`, `PreflightIsSound`, `VerifiedProcessed`,
`ProofIsKept`, `PayloadIsComplete`, `HooksRemembered`, `HooksAreOwned` (a webhook is of the key
that owns the attestation; only proved), `HookLimitHolds`,
`RoundsComeToAnEnd`, `OnlyRebound` (`ReservedOnlyRebound`), and `PrivateIsReserved`: the byte comparisons of `isPrivateIPv4` are the
reserved blocks, on all addresses.

The arguments. `Processed` follows a transaction from the mempool to the poller that is told
it was mined. `Kept` says of a record with one submission that one poller at most works on it and,
once it has the proof, is past its search for it, so that no one is left who would write another
status while no store call threw; `Carried` takes this to what the poller read. `Remembered` says that what is owed is still
in force until the hooks are listed, as only a crash removes a hook, which ends the pollers too; and
that the pollers that ended without their calls are, with those that started again after they had the proof and may end so
(`Owing`), no more than the store calls that threw. `OnlyRebound` rests on `PrivateIsReserved`: what the check let pass has
no reserved address, so a reserved one that was reached is another. The limit is a sum: hooks and
requests between count and insert. It grows only when a count was below the limit, and then by
the requests that passed their count before (`NextLimit`, with cardinalities).
`HookLimitHolds` needs at least one request. `RoundsComeToAnEnd` (only proved) says that an attempt
goes forward, that what throws in it costs an attempt or ends the poller, and that a webhook is tried
once more or settled; it needs `Attended`, that no poller goes on while calls of it are under way.

## 9. Gateway

### State and actions

| variable | code |
| --- | --- |
| `env`, `proc`, `conf` | `process.env` as far as it is read; the process; what `config.ts` keeps |
| `windows` | the map of `rate-limit.ts`: ticks left and count of each window |
| `calendar`, `timers`, `phase` | `rateLimitWindows` of `middleware.ts`, its timers, the clock's minute |
| `user`, `disk`, `tokens`, `age` | the reset token in memory and in `users.json`, and how old each is |
| `traffic` | the routes a behaviour exercises |
| `recent`, `counted`, `sent`, `spent` | history: requests let through by age, per minute, tokens mailed and used |

`PassCheck` and `RefuseToStart` are `requireValidEnv`, with every error and warning that concerns
the modelled variables (`EnvErrors`, `EnvWarnings`); `Config` is `config.ts`, which reads the
environment on its own. `FLARE_NETWORK` is any string: every value but `flare` has the names of `coston2`, and in
`config.ts` no network at all if it is neither. An address is unset, malformed, well-formed, or the string
"undefined", which the check has a branch for (`isEffectivelyUnset`). `Verify`, `RateLimited`, `SignUpOrLogin`, `Receipt`, `Contact`,
`RequestReset` are the limited routes, in the order in which they spend their windows;
`RequireApiKey`, `KeyRefused`, `FireTimer` the limit per key and minute. `ResetPassword` writes
the user with the token removed, which may fail. `Crash` forgets all windows and timers.
Time is relative, so there is no bound on it.

### Run

`gateway`: all 36864 environments at start, and two of them (production with tight limits and
one limit of 0, development with wide ones) with every kind of traffic, 2 addresses, 2 emails,
1 key, a minute of 2 ticks and an hour of 3, 2 tokens, 1 crash, 1 failing write. The windows of
different kinds share nothing, so each behaviour has one kind; two addresses on one key and one
address on two emails are the ways to spread requests.

* `StartIsSound` is `StartedSound` and `ReportTrue`: the check against what the process then does.
* `SpanBounded`: no span of a window's length lets more through than two windows and one more per
  restart; for fixed windows this is exact.
* `MinuteBounded`: no timer removes the window of a minute that is not over.
* `TokenGoodOnce`: over crashes and failed writes, and only the newest token.

`ReportTrue` excepts the plain names: the check takes `PRIVATE_KEY` and
`PAYMENT_VERIFIER_ADDRESS` for set, and `config.ts` reads the names with the network only. And it says exactly where the
report is false: a verifier address that is the string "undefined" is reported as not set, with on-chain verification
disabled, and passes the check in production, while `config.ts:48-50` keeps it and `attest.ts:463` then sends every
proof to it. `StartedSound` says that a process in production has no malformed address but this string, and that it was
warned of it.

### Theorems (`GatewayProofs`)

From `GatewayAssumption` and `EnvsAssumption`: `TypeCorrect`, `StartSound` (`StartIsSound`),
`TokensGoodOnce`, `MinutesBounded`, `SpansBounded`. `Checked` says that a process past the check has an
environment without errors and the configuration made of it. `TokenInv` orders tokens and
relates memory to the file: a token spent in memory only is not good in the file after the
answer, as the answer comes after the write. `MinuteInv` says that a timer set in this minute
has more ticks left than the minute, so that the one that fires was set in an earlier one.
`SpanBounded` is the last part of `SpanOK`: the requests of the last span, by age, are at most the count of
the window in progress, one cap for the window before it, and one for each restart. It is inductive
with the part before, that those younger than the window are in its count, so that the others go out of the
span before the window ends. `Total` counts tokens, and a tick moves each of them one age on
(`AgedTotals`).

## 10. What is checked only, and what is not modelled

Checked by TLC and not proved: the liveness properties `EveryRequestAnswered`,
`EveryCallAnswered`, `PaymentResolved` and `PendingEnds`, and `NoStandstill` in the form with
`ENABLED`. TLAPS reasons neither about fairness nor about `ENABLED`; what can be said of them without is
proved (sections 3, 4 and 6): who is in progress comes nearer to the end with each step of its own
and can take one, nobody overtakes, and what is owed always has somebody to do it. What is left to TLC is
that steps which can be taken for ever are taken. Every other property of a passing run is
stated by a theorem. The violations are counterexamples, valid for any larger
instance.

Bounds: failures, crashes, rounds, runs of the script, tokens, periods and keys are bounded
in the guards by constants named `Max...` or by finite sets, each declared as a bound. The longest run takes
less than four minutes.

Seen while modelling, and left as it is because no text of the repository says otherwise, or
because the properties say exactly how far it goes: the mark of a failed submission overwrites
`fdc_ok`; two callers of one transaction are both charged; attestations pending over a restart
stay so; a release repeated after an error lets a key one over its limit; a call that meets a rotation may
leave its slot taken, and `ownerKeyId` of earlier records keeps the old key; `FoundOnChain` calls
no webhooks; hooks are never removed; `lookupXrplTx` answers `not_found` when every
endpoint answers with some other error; `failed` is written over another request's `ready`; a webhook may be called at an
address that was not checked; a string "undefined" passes for an unset address; sessions of MCP, windows and `invoiceLocks` of clients
that do not return are never dropped.

Not modelled: the status and note of each component in `PROJECT.json` say what is left out of it.
Nothing is planned for HTML, texts, email, branding, the scripts but for the migration,
and the public pages, which keep no state that the rest depends on; for the encoding of proofs, the parsing of hosts and the hashing of
keys and passwords, which are pure and have tests; and for testnet callers, who have no quota.
A state file that cannot be parsed (the store starts empty and writes that back) is step 2 of the plan,
MCP sessions are step 3.
