------------------------------ MODULE Delivery ------------------------------
(***************************************************************************)
(* The two ends of an attestation: the preflight on the XRP Ledger         *)
(* (xrpl-tx.ts) and, once FDC took the request, the poller (attest.ts,     *)
(* fdc-service.ts), the contract that records the proof                    *)
(* (contracts/PaymentVerifier.sol) and the webhooks of the owner           *)
(* (webhook-service.ts, webhook-url.ts, POST /api/v1/webhooks).            *)
(*                                                                         *)
(* The flow in between is AttestService; here it is the requests that read *)
(* a record before they write to it, of which a transaction may have two.  *)
(* An IPv4 address is given by its first two bytes, which decide every     *)
(* range the code looks at.                                                *)
(***************************************************************************)
EXTENDS Naturals, FiniteSets

CONSTANTS
    Txs,
    Kinds,              \* what the ledger may have of a transaction
    Endpoints,          \* XRP_RPC_ENDPOINTS: 1, 2, ..., in the order asked
    Keys,
    Owner,              \* ownerKeyId of each transaction's record
    Pollers, Hooks, Requests,
    Answers,            \* what DNS may answer for a host: sets of addresses
    HookLimit,          \* MAX_WEBHOOKS_PER_KEY
    MaxPollAttempts,    \* config.maxPollAttempts
    OnChain,            \* whether PAYMENT_VERIFIER_ADDRESS is configured
    MaxRetries,         \* MAX_RETRIES of webhook-service.ts
    NoTx, NoKey,
    MaxRounds,          \* bound on the submissions of one transaction, failing ones too
    MaxFaults           \* bound on store calls that throw and on mishaps

Byte      == 0..255
Addresses == Byte \X Byte

ASSUME DeliveryAssumption ==
    /\ Kinds \subseteq {"absent", "proposed", "payment", "other", "issued", "old"}
    /\ NoTx \notin Txs /\ NoKey \notin Keys
    /\ Owner \in [Txs -> Keys \cup {NoKey}]
    /\ Answers \subseteq SUBSET Addresses
    /\ IsFiniteSet(Requests) /\ IsFiniteSet(Hooks) /\ IsFiniteSet(Pollers)
    /\ Endpoints = 1..Cardinality(Endpoints)
    /\ OnChain \in BOOLEAN /\ HookLimit \in Nat /\ MaxPollAttempts \in Nat \ {0} /\ MaxRetries \in Nat \ {0}
    /\ MaxRounds \in Nat /\ MaxFaults \in Nat

VARIABLES
    ledger,         \* what the XRP Ledger has of each transaction
    att,            \* the status and the proof of each attestation record
    hook,           \* the webhooks of the store
    disk,           \* the records and the webhooks as a restart reads them
    asked,          \* requests past the cache that have not written yet
    poll,           \* the pollers, with the payload they read
    call,           \* the calls of webhooks each poller makes
    reg,            \* requests for a webhook in progress
    mempool,        \* processPaymentProof transactions sent and not mined
    payments,       \* verifiedPayments of the contract, by transaction
    owed,           \* webhooks that were there when the poller stored the proof
    rounds,         \* submissions of each transaction
    forgot,         \* pollers that ended without calling what they owed
    reached,        \* calls of a reserved address, with what was checked before
    errors,         \* store calls that threw
    mishaps         \* crashes, and calls that got to a reserved address

storeVars == <<att, hook, disk, errors>>
asking    == <<asked, rounds>>
chain     == <<mempool, payments>>
polling   == <<poll, call, owed, forgot>>
vars == <<ledger, storeVars, asking, polling, reg, chain, reached, mishaps>>

-----------------------------------------------------------------------------
(***************************************************************************)
(* Preflight: the first endpoint that has the transaction is believed.     *)
(***************************************************************************)
\* An endpoint may lag, throw, or answer with some other error.  It also
\* gives a transaction that no validated ledger has yet ("proposed").
Says(t) == {"notFound", "throws", "busy"} \cup (IF ledger[t] = "absent" THEN {} ELSE {"found"})

\* Whether the ledger that has it is validated is not looked at.
LookupXrplTx(says) ==
    LET heard == {says[e] : e \in Endpoints}
    IN  CASE "found" \in heard    -> "found"
          [] "found" \notin heard /\ "notFound" \in heard -> "not_found"
          [] heard \cap {"found", "notFound"} = {} /\ "throws" \in heard -> "unavailable"
          [] OTHER -> "not_found"

\* Mutant: what the ledger does not have is left to the verifier.
Verdict_LetsAbsentPass(t, lookup) ==
    CASE lookup = "unavailable" -> "blind"
      [] lookup = "not_found"   -> "ok"
      [] lookup = "found" /\ ledger[t] = "other"  -> "TX_NOT_PAYMENT"
      [] lookup = "found" /\ ledger[t] = "issued" -> "TX_NOT_NATIVE_XRP"
      [] lookup = "found" /\ ledger[t] = "old"    -> "TX_TOO_OLD"
      [] OTHER -> "ok"

\* With every endpoint down the verifier is tried without a preflight.
Verdict(t, lookup) ==
    CASE lookup = "unavailable" -> "blind"
      [] lookup = "not_found"   -> "TX_NOT_ON_LEDGER"
      [] lookup = "found" /\ ledger[t] = "other"  -> "TX_NOT_PAYMENT"
      [] lookup = "found" /\ ledger[t] = "issued" -> "TX_NOT_NATIVE_XRP"
      [] lookup = "found" /\ ledger[t] = "old"    -> "TX_TOO_OLD"
      [] OTHER -> "ok"

-----------------------------------------------------------------------------
(***************************************************************************)
(* webhook-url.ts                                                          *)
(***************************************************************************)
\* Mutant: the last block of 172.16.0.0/12 is forgotten.
IsPrivateIPv4_Short(x) ==
    LET a == x[1] b == x[2]
    IN  \/ a \in {0, 10, 127} \/ a >= 224
        \/ a = 169 /\ b = 254
        \/ a = 172 /\ b \in 16..30
        \/ a = 192 /\ b = 168
        \/ a = 100 /\ b \in 64..127
        \/ a = 198 /\ b \in {18, 19}

IsPrivateIPv4(x) ==
    LET a == x[1] b == x[2]
    IN  \/ a \in {0, 10, 127} \/ a >= 224
        \/ a = 169 /\ b = 254
        \/ a = 172 /\ b \in 16..31
        \/ a = 192 /\ b = 168
        \/ a = 100 /\ b \in 64..127
        \/ a = 198 /\ b \in {18, 19}

\* assertSafeWebhookUrl: every address the host resolves to, at least one.
SafeWebhookUrl(answer) == answer # {} /\ \A x \in answer : ~IsPrivateIPv4(x)

\* The ranges as registered: the first address of a block and its size, as
\* often as 2^16 addresses go into it, which is a power of 2.
ReservedBlocks == { <<<<0, 0>>, 256>>, <<<<10, 0>>, 256>>, <<<<127, 0>>, 256>>, <<<<169, 254>>, 1>>,
                    <<<<172, 16>>, 16>>, <<<<192, 168>>, 1>>, <<<<100, 64>>, 64>>,
                    <<<<198, 18>>, 2>>, <<<<224, 0>>, 8192>> }

\* Which block of a size an address is in.
Prefix(x, size) == (256 * x[1] + x[2]) \div size
Reserved(x)     == \E block \in ReservedBlocks : Prefix(x, block[2]) = Prefix(block[1], block[2])

-----------------------------------------------------------------------------
AttStatus == {"none", "pending", "ready", "verified", "failed", "not_found"}
PollStages == {"none", "polling", "verifying", "mining", "mined", "erring", "reading",
               "listing", "calling", "failing"}
CallStages == {"none", "trying", "settled"}
RegStages  == {"idle", "counting", "saving"}

Record  == [status : AttStatus, proof : BOOLEAN]
Poller  == [stage : PollStages, tx : Txs \cup {NoTx}, attempt : 0..MaxPollAttempts,
            payload : AttStatus]
NoPoll  == [stage |-> "none", tx |-> NoTx, attempt |-> 0, payload |-> "none"]
Call    == [stage : CallStages, attempt : 0..MaxRetries]
NoCall  == [stage |-> "none", attempt |-> 0]
Settled == [stage |-> "settled", attempt |-> 0]
Webhook == [tx : Txs \cup {NoTx}, key : Keys \cup {NoKey}]
NoHook  == [tx |-> NoTx, key |-> NoKey]
Asking  == [stage : RegStages, tx : Txs \cup {NoTx}, key : Keys \cup {NoKey}]
Idle    == [stage |-> "idle", tx |-> NoTx, key |-> NoKey]

Init ==
    /\ ledger \in [Txs -> Kinds]
    /\ att = [t \in Txs |-> [status |-> "none", proof |-> FALSE]]
    /\ hook = [h \in Hooks |-> NoHook]
    /\ disk = [att |-> att, hook |-> hook]
    /\ asked = [t \in Txs |-> 0]
    /\ poll = [p \in Pollers |-> NoPoll]
    /\ call = [p \in Pollers |-> [h \in Hooks |-> NoCall]]
    /\ reg = [r \in Requests |-> Idle]
    /\ mempool = {}
    /\ payments = [t \in Txs |-> 0]
    /\ owed = [p \in Pollers |-> {}]
    /\ rounds = [t \in Txs |-> 0]
    /\ forgot = 0
    /\ reached = {}
    /\ errors = 0
    /\ mishaps = 0

PreflightXrplPayment(t, says) == Verdict(t, LookupXrplTx(says))

\* A validated ledger takes a proposed transaction, or none ever does.
CloseLedger(t) ==
    /\ ledger[t] = "proposed"
    /\ \E kind \in Kinds \cap {"payment", "absent"} : ledger' = [ledger EXCEPT ![t] = kind]
    /\ UNCHANGED <<storeVars, asking, polling, reg, chain, reached, mishaps>>

-----------------------------------------------------------------------------
(***************************************************************************)
(* The store: memory and files, or PostgreSQL, where the two are one.      *)
(***************************************************************************)
CountStoreCall(ok) ==
    /\ ok \/ errors + mishaps < MaxFaults
    /\ errors' = IF ok THEN errors ELSE errors + 1

\* The files are written one after the other; a call that throws has
\* written none, the first, or all that matter here.
Persist(ok) ==
    /\ CountStoreCall(ok)
    /\ disk' \in IF ok THEN {[att |-> att', hook |-> hook']}
                 ELSE {disk, [disk EXCEPT !.att = att'], [att |-> att', hook |-> hook']}

\* updateAttestation.  The process keeps what it could not write
\* (JsonFileStore), or the update is not there at all (PostgresStore).
Update(t, record, ok) ==
    /\ att' \in IF ok THEN {[att EXCEPT ![t] = record]} ELSE {att, [att EXCEPT ![t] = record]}
    /\ hook' = hook
    /\ Persist(ok)

UpdateStatus(t, status, ok) == Update(t, [att[t] EXCEPT !.status = status], ok)

-----------------------------------------------------------------------------
(***************************************************************************)
(* attestXrpPayment.  Between the read of the record and what is written   *)
(* to it others write.                                                     *)
(***************************************************************************)
\* The record is read: there is none, or one that failed.
Ask(t) ==
    /\ att[t].status \in {"none", "failed", "not_found"}
    /\ asked[t] + rounds[t] < MaxRounds
    /\ asked' = [asked EXCEPT ![t] = @ + 1]
    /\ UNCHANGED <<ledger, storeVars, rounds, polling, reg, chain, reached, mishaps>>

Answered(t) == asked[t] > 0 /\ asked' = [asked EXCEPT ![t] = @ - 1]

\* By the key, the quota, the payment or the preflight.
RequestRefused(t) ==
    /\ Answered(t)
    /\ UNCHANGED <<ledger, storeVars, rounds, polling, reg, chain, reached, mishaps>>

\* createAttestation gives the record there is, whatever it says.
Created(t) == IF att[t].status = "none" THEN "pending" ELSE att[t].status

\* The contract has it already.  The request goes on if the store throws.
FoundVerified(t, ok) ==
    /\ OnChain /\ payments[t] = 1
    /\ IF ok THEN Answered(t) ELSE asked[t] > 0 /\ UNCHANGED asked
    /\ \E status \in IF ok THEN {"verified"} ELSE {"verified", Created(t)} :
          UpdateStatus(t, status, ok)
    /\ UNCHANGED <<ledger, rounds, polling, reg, chain, reached, mishaps>>

Submit(t) == Answered(t) /\ rounds' = [rounds EXCEPT ![t] = @ + 1]

\* The verifier and FdcHub took the request: it is polled for, and the
\* record is pending, again if another request came that far before.
Submitted(p, t) ==
    /\ ledger[t] = "payment"
    /\ poll[p] = NoPoll /\ \A e \in mempool : e[1] # p
    /\ Submit(t)
    /\ UpdateStatus(t, "pending", TRUE)
    /\ poll' = [poll EXCEPT ![p] = [NoPoll EXCEPT !.stage = "polling", !.tx = t, !.attempt = 1]]
    /\ UNCHANGED <<ledger, call, owed, forgot, reg, chain, reached, mishaps>>

\* One of them did not, or the store threw: "failed" is written over
\* whatever the record says by now.
SubmissionFails(t, ok) ==
    /\ Submit(t)
    /\ \E status \in IF ok THEN {"failed"} ELSE {"failed", Created(t)} : UpdateStatus(t, status, ok)
    /\ UNCHANGED <<ledger, polling, reg, chain, reached, mishaps>>

-----------------------------------------------------------------------------
(***************************************************************************)
(* pollForProof                                                            *)
(***************************************************************************)
Tx(p)        == poll[p].tx
At(p, stage) == poll[p].stage = stage
Goto(p, stage) == poll' = [poll EXCEPT ![p].stage = stage]

\* The outer catch block; what was begun for the webhooks is forgotten.
Again(p) ==
    /\ poll' = [poll EXCEPT ![p] =
                  IF poll[p].attempt < MaxPollAttempts
                  THEN [poll[p] EXCEPT !.stage = "polling", !.attempt = @ + 1, !.payload = "none"]
                  ELSE [poll[p] EXCEPT !.stage = "failing", !.payload = "none"]]
    /\ UNCHANGED <<owed, forgot>>

\* The end of a poller that calls no webhook any more.
GiveUp(p) ==
    /\ poll' = [poll EXCEPT ![p] = NoPoll]
    /\ owed' = [owed EXCEPT ![p] = {}]
    /\ forgot' = IF owed[p] = {} THEN forgot ELSE forgot + 1

FetchFails(p) ==
    /\ At(p, "polling")
    /\ Again(p)
    /\ UNCHANGED <<ledger, storeVars, asking, call, reg, chain, reached, mishaps>>

\* fetchProof returns null.
NoProof(p, ok) ==
    /\ At(p, "polling")
    /\ IF poll[p].attempt < MaxPollAttempts THEN ok /\ Again(p) /\ UNCHANGED storeVars
       ELSE UpdateStatus(Tx(p), "not_found", ok) /\ IF ok THEN GiveUp(p) ELSE Again(p)
    /\ UNCHANGED <<ledger, asking, call, reg, chain, reached, mishaps>>

InForce(t) == {h \in Hooks : hook[h].tx = t /\ hook[h].key = Owner[t]}

\* The proof is stored, or the attempt is over.
StoreProof(p, record, ok) ==
    /\ At(p, "polling")
    /\ Update(Tx(p), record, ok)
    /\ IF ok THEN /\ Goto(p, IF OnChain THEN "verifying" ELSE "reading")
                  /\ owed' = [owed EXCEPT ![p] = InForce(Tx(p))]
                  /\ UNCHANGED forgot
             ELSE Again(p)
    /\ UNCHANGED <<ledger, asking, call, reg, chain, reached, mishaps>>

\* Mutant: the proof is stored without the status.
FindProof_KeepsStatus(p, ok) == StoreProof(p, [att[Tx(p)] EXCEPT !.proof = TRUE], ok)

FindProof(p, ok) == StoreProof(p, [status |-> "ready", proof |-> TRUE], ok)

\* processPaymentProof is sent if the estimate does not revert.
Send(p) ==
    /\ At(p, "verifying")
    /\ payments[Tx(p)] = 0
    /\ mempool' = mempool \cup {<<p, Tx(p)>>}
    /\ Goto(p, "mining")
    /\ UNCHANGED <<ledger, storeVars, asking, call, owed, forgot, reg, payments, reached, mishaps>>

\* No connection, no answer, or "Already processed".
SendFails(p) ==
    /\ At(p, "verifying")
    /\ Goto(p, "erring")
    /\ UNCHANGED <<ledger, storeVars, asking, call, owed, forgot, reg, chain, reached, mishaps>>

\* The chain mines it, even if its sender stopped waiting.
ProcessPaymentProof(e) ==
    /\ e \in mempool
    /\ mempool' = mempool \ {e}
    /\ payments' = [payments EXCEPT ![e[2]] = 1]
    /\ poll' = [poll EXCEPT ![e[1]].stage =
                  IF @ # "mining" THEN @ ELSE IF payments[e[2]] = 0 THEN "mined" ELSE "erring"]
    /\ UNCHANGED <<ledger, storeVars, asking, call, owed, forgot, reg, reached, mishaps>>

\* tx.wait() throws while the transaction is on its way.
WaitFails(p) ==
    /\ At(p, "mining")
    /\ Goto(p, "erring")
    /\ UNCHANGED <<ledger, storeVars, asking, call, owed, forgot, reg, chain, reached, mishaps>>

\* Mutant: the transaction is sent, so the proof counts as verified.
NoteVerified_Early(p, ok) ==
    /\ poll[p].stage \in {"mining", "mined"}
    /\ UpdateStatus(Tx(p), "verified", ok)
    /\ Goto(p, IF ok THEN "reading" ELSE "erring")
    /\ UNCHANGED <<ledger, asking, call, owed, forgot, reg, chain, reached, mishaps>>

NoteVerified(p, ok) ==
    /\ At(p, "mined")
    /\ UpdateStatus(Tx(p), "verified", ok)
    /\ Goto(p, IF ok THEN "reading" ELSE "erring")
    /\ UNCHANGED <<ledger, asking, call, owed, forgot, reg, chain, reached, mishaps>>

Erred(p, status, ok) ==
    /\ At(p, "erring")
    /\ UpdateStatus(Tx(p), status, ok)
    /\ IF ok THEN Goto(p, "reading") /\ UNCHANGED <<owed, forgot>> ELSE Again(p)
    /\ UNCHANGED <<ledger, asking, call, reg, chain, reached, mishaps>>

\* Mutant: an error of the contract call fails the attestation.
NoteError_Fails(p, ok) == Erred(p, "failed", ok)

\* The error is noted; the status stays.
NoteError(p, ok) == Erred(p, att[Tx(p)].status, ok)

\* After the last attempt.  A call that throws here too is logged; what the
\* handler of submitToFdc writes then is the same.
FailPoll(p, ok) ==
    /\ At(p, "failing")
    /\ UpdateStatus(Tx(p), "failed", ok)
    /\ GiveUp(p)
    /\ UNCHANGED <<ledger, asking, call, reg, chain, reached, mishaps>>

-----------------------------------------------------------------------------
(***************************************************************************)
(* deliverWebhooks                                                         *)
(***************************************************************************)
ReadAttestation(p, ok) ==
    /\ At(p, "reading")
    /\ CountStoreCall(ok)
    /\ IF ok THEN /\ poll' = [poll EXCEPT ![p].stage = "listing",
                                          ![p].payload = att[Tx(p)].status]
                  /\ UNCHANGED <<owed, forgot>>
             ELSE Again(p)
    /\ UNCHANGED <<ledger, att, hook, disk, asking, call, reg, chain, reached, mishaps>>

\* getWebhooksForAttestation and callerOwnsAttestation; all of them start.
Listed(p, hooks, ok) ==
    /\ At(p, "listing")
    /\ CountStoreCall(ok)
    /\ IF ok THEN /\ Goto(p, "calling")
                  /\ call' = [call EXCEPT ![p] = [h \in Hooks |->
                         IF h \in hooks THEN [stage |-> "trying", attempt |-> 1] ELSE NoCall]]
                  /\ UNCHANGED <<owed, forgot>>
             ELSE Again(p) /\ UNCHANGED call
    /\ UNCHANGED <<ledger, att, hook, disk, asking, reg, chain, reached, mishaps>>

\* Mutant: only the first of the webhooks is called.
ListWebhooks_First(p, ok) ==
    /\ At(p, "listing")
    /\ \E one \in SUBSET InForce(Tx(p)) : Cardinality(one) <= 1 /\ Listed(p, one, ok)

ListWebhooks(p, ok) == Listed(p, InForce(Tx(p)), ok)

SetCall(p, h, c) == call' = [call EXCEPT ![p][h] = c]

Calling(p, h) == call[p][h].stage = "trying"

\* The host is resolved and checked before every attempt, and fetch resolves
\* it once more to connect: to an address that may be another by then.
Connect(checked, x) ==
    \/ /\ ~Reserved(x)
       /\ UNCHANGED <<reached, mishaps>>
    \/ /\ Reserved(x)
       /\ errors + mishaps < MaxFaults
       /\ mishaps' = mishaps + 1
       /\ reached' = reached \cup {<<checked, x>>}

\* The receiver takes the call, or redirects it, which is not tried again.
Post(p, h, checked, x) ==
    /\ Calling(p, h)
    /\ SafeWebhookUrl(checked)
    /\ SetCall(p, h, Settled)
    /\ Connect(checked, x)
    /\ UNCHANGED <<ledger, storeVars, asking, poll, owed, forgot, reg, chain>>

\* UnsafeWebhookUrlError is given up at once.
Unsafe(p, h, checked) ==
    /\ Calling(p, h)
    /\ ~SafeWebhookUrl(checked)
    /\ SetCall(p, h, Settled)
    /\ UNCHANGED <<ledger, storeVars, asking, poll, owed, forgot, reg, chain, reached, mishaps>>

\* An error or the timeout: the next attempt, after the backoff, or the end.
PostFails(p, h, checked, x) ==
    /\ Calling(p, h)
    /\ SafeWebhookUrl(checked)
    /\ SetCall(p, h, IF call[p][h].attempt < MaxRetries
                     THEN [call[p][h] EXCEPT !.attempt = @ + 1]
                     ELSE Settled)
    /\ Connect(checked, x)
    /\ UNCHANGED <<ledger, storeVars, asking, poll, owed, forgot, reg, chain>>

EndPoll(p) ==
    /\ At(p, "calling")
    /\ \A h \in Hooks : ~Calling(p, h)
    /\ poll' = [poll EXCEPT ![p] = NoPoll]
    /\ call' = [call EXCEPT ![p] = [h \in Hooks |-> NoCall]]
    /\ owed' = [owed EXCEPT ![p] = {}]
    /\ UNCHANGED <<ledger, storeVars, asking, forgot, reg, chain, reached, mishaps>>

-----------------------------------------------------------------------------
(***************************************************************************)
(* POST /api/v1/webhooks: count and insert are two steps.                  *)
(***************************************************************************)
\* The URL is checked, then the owner, which a record keeps: every other
\* request is refused here.
Register(r, k, t) ==
    /\ reg[r] = Idle
    /\ att[t].status # "none" /\ Owner[t] = k
    /\ \E checked \in Answers : SafeWebhookUrl(checked)
    /\ reg' = [reg EXCEPT ![r] = [stage |-> "counting", tx |-> t, key |-> k]]
    /\ UNCHANGED <<ledger, storeVars, asking, polling, chain, reached, mishaps>>

HooksOf(k) == {h \in Hooks : hook[h].key = k}

\* Mutant: the limit is compared the wrong way round by one.
CountHooks_OffByOne(r) ==
    /\ reg[r].stage = "counting"
    /\ reg' = [reg EXCEPT ![r] = IF Cardinality(HooksOf(reg[r].key)) > HookLimit THEN Idle
                                 ELSE [@ EXCEPT !.stage = "saving"]]
    /\ UNCHANGED <<ledger, storeVars, asking, polling, chain, reached, mishaps>>

CountHooks(r) ==
    /\ reg[r].stage = "counting"
    /\ reg' = [reg EXCEPT ![r] = IF Cardinality(HooksOf(reg[r].key)) >= HookLimit THEN Idle
                                 ELSE [@ EXCEPT !.stage = "saving"]]
    /\ UNCHANGED <<ledger, storeVars, asking, polling, chain, reached, mishaps>>

\* registerWebhook, whose webhook may stay though the call throws.
SaveHook(r, h, ok) ==
    /\ reg[r].stage = "saving"
    /\ hook[h] = NoHook
    /\ hook' = [hook EXCEPT ![h] = [tx |-> reg[r].tx, key |-> reg[r].key]]
    /\ att' = att
    /\ Persist(ok)
    /\ reg' = [reg EXCEPT ![r] = Idle]
    /\ UNCHANGED <<ledger, asking, polling, chain, reached, mishaps>>

\* A store call throws, and changes nothing.
RegisterFails(r) ==
    /\ reg[r] # Idle
    /\ CountStoreCall(FALSE)
    /\ reg' = [reg EXCEPT ![r] = Idle]
    /\ UNCHANGED <<ledger, att, hook, disk, asking, polling, chain, reached, mishaps>>

\* The files and the chain remain, with what was sent.
Crash ==
    /\ errors + mishaps < MaxFaults
    /\ mishaps' = mishaps + 1
    /\ att' = disk.att
    /\ hook' = disk.hook
    /\ asked' = [t \in Txs |-> 0]
    /\ poll' = [p \in Pollers |-> NoPoll]
    /\ call' = [p \in Pollers |-> [h \in Hooks |-> NoCall]]
    /\ reg' = [r \in Requests |-> Idle]
    /\ owed' = [p \in Pollers |-> {}]
    /\ UNCHANGED <<ledger, disk, errors, rounds, forgot, chain, reached>>

Poll(p) ==
    \/ FetchFails(p) \/ Send(p) \/ SendFails(p) \/ WaitFails(p) \/ EndPoll(p)
    \/ \E ok \in BOOLEAN : \/ NoProof(p, ok) \/ FindProof(p, ok)
                           \/ NoteVerified(p, ok) \/ NoteError(p, ok) \/ FailPoll(p, ok)
                           \/ ReadAttestation(p, ok) \/ ListWebhooks(p, ok)

CallHook(p, h) ==
    \E checked \in Answers :
        \/ Unsafe(p, h, checked)
        \/ \E x \in UNION Answers : Post(p, h, checked, x) \/ PostFails(p, h, checked, x)

Subscribe(r) ==
    \/ \E k \in Keys, t \in Txs : Register(r, k, t)
    \/ CountHooks(r) \/ RegisterFails(r)
    \/ \E h \in Hooks, ok \in BOOLEAN : SaveHook(r, h, ok)

Request(t) ==
    \/ CloseLedger(t) \/ Ask(t) \/ RequestRefused(t)
    \/ \E ok \in BOOLEAN : FoundVerified(t, ok) \/ SubmissionFails(t, ok)

Next ==
    \/ \E t \in Txs : Request(t) \/ \E p \in Pollers : Submitted(p, t)
    \/ \E p \in Pollers : Poll(p) \/ \E h \in Hooks : CallHook(p, h)
    \/ \E e \in mempool : ProcessPaymentProof(e)
    \/ \E r \in Requests : Subscribe(r)
    \/ Crash

Spec == Init /\ [][Next]_vars

-----------------------------------------------------------------------------
(***************************************************************************)
(* Properties                                                              *)
(***************************************************************************)
\* Every variable has its type.
TypeOK ==
    /\ ledger \in [Txs -> Kinds]
    /\ att \in [Txs -> Record]
    /\ hook \in [Hooks -> Webhook]
    /\ disk \in [att : [Txs -> Record], hook : [Hooks -> Webhook]]
    /\ asked \in [Txs -> Nat]
    /\ poll \in [Pollers -> Poller]
    /\ call \in [Pollers -> [Hooks -> Call]]
    /\ reg \in [Requests -> Asking]
    /\ mempool \subseteq Pollers \X Txs
    /\ payments \in [Txs -> 0..1]
    /\ owed \in [Pollers -> SUBSET Hooks]
    /\ rounds \in [Txs -> Nat]
    /\ forgot \in Nat
    /\ reached \subseteq (SUBSET Addresses) \X Addresses
    /\ errors \in 0..MaxFaults /\ mishaps \in 0..MaxFaults

\* The preflight never refuses for its content what FDC can prove, however
\* the endpoints disagree, and passes nothing else but a payment no validated
\* ledger has yet, which one of them gave.  It goes by nothing only if none
\* of them knows, and says that the ledger does not have a transaction only
\* if none of them gave it and one said so, or all had another error: that
\* last case the comment of lookupXrplTx would have as unavailable.
PreflightSound ==
    \A t \in Txs : \A says \in [Endpoints -> Says(t)] :
        LET verdict == PreflightXrplPayment(t, says)
            heard   == {says[e] : e \in Endpoints}
        IN  /\ verdict = "ok" => ledger[t] \in {"payment", "proposed"} /\ "found" \in heard
            /\ verdict = "blind" => heard \subseteq {"throws", "busy"} /\ "throws" \in heard
            /\ verdict = "TX_NOT_ON_LEDGER" =>
                  "found" \notin heard /\ ("notFound" \in heard \/ heard \subseteq {"busy"})
            /\ verdict \in {"TX_NOT_PAYMENT", "TX_NOT_NATIVE_XRP", "TX_TOO_OLD"} =>
                  ledger[t] \in {"other", "issued", "old"}

\* "verified" is only said of a payment the contract has, whichever poller
\* sent first, gave up waiting or was restarted, and whatever a failing store
\* call left in memory or in the files.
VerifiedIsProcessed ==
    \A t \in Txs : att[t].status = "verified" => payments[t] = 1

\* A proof is not lost to the contract, the chain or the receivers: a record
\* with a proof says "ready" or "verified", unless a second request for the
\* transaction read the record before there was one and submitted too (its
\* failure is written over "ready"), or a store call threw.
ProofStays ==
    \A t \in Txs :
        att[t].proof /\ rounds[t] = 1 /\ errors = 0 => att[t].status \in {"ready", "verified"}

\* "attestation.completed" is sent of a completed attestation, with its
\* proof.  Its status says so too, unless a second submission or a failing
\* store call set it back before it was read.
PayloadComplete ==
    \A p \in Pollers :
        At(p, "listing") \/ At(p, "calling") =>
            /\ att[Tx(p)].proof
            /\ rounds[Tx(p)] = 1 /\ errors = 0 => poll[p].payload \in {"ready", "verified"}

\* A webhook that was in force when the proof was stored is called by the
\* poller that stored it, whatever the contract and the other receivers do:
\* a poller that gets to its calls makes all it owes, and one that ends
\* before them owes that to a store call that threw, each to one of its own.
NoHookForgotten ==
    /\ \A p \in Pollers : At(p, "calling") => \A h \in owed[p] : call[p][h].stage # "none"
    /\ forgot <= errors

\* "Register an HTTPS URL for an attestation this API key owns": every
\* webhook of the store belongs to the owner of its attestation.
HooksOwned ==
    \A h \in Hooks : hook[h] # NoHook => hook[h].key = Owner[hook[h].tx] /\ hook[h].key \in Keys

\* "Max 10 active hooks per key": the count and the insert are two store
\* calls, so the requests that race go over the limit, by one each at most.
HookLimitKept ==
    \A k \in Keys :
        LET saving == {r \in Requests : reg[r].stage = "saving" /\ reg[r].key = k}
        IN  Cardinality(HooksOf(k)) + Cardinality(saving) <= HookLimit + Cardinality(Requests) - 1

\* "Private, loopback, and non-HTTPS URLs are rejected", "re-checked at
\* delivery": a call gets to an address of a reserved block only if the name
\* resolves to another address than the moment before, when none of those it
\* resolved to was in such a block.  fetch does not connect to what was checked.
ReservedOnlyRebound ==
    \A c \in reached : c[2] \notin c[1] /\ \A x \in c[1] : ~Reserved(x)
=============================================================================
