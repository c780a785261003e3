------------------------------- MODULE Account -------------------------------
(***************************************************************************)
(* One customer: the user record of user-store.ts, its API key in store.ts,*)
(* key rotation (key-rotation.ts), Stripe's webhooks (billing.ts), session *)
(* versions (auth.ts), and the attestation calls that hold a quota slot    *)
(* under the key's id while all of these go on.                            *)
(*                                                                         *)
(* The store is JsonFileStore: between two calls of it no other handler    *)
(* runs, because its promises resolve without I/O.  A handler therefore    *)
(* keeps the event loop in the stages InTurn; it gives it up while Stripe, *)
(* XRPL or Flare answer.  users.json and the store's files are written     *)
(* separately; a write that throws leaves memory ahead of the file.        *)
(***************************************************************************)
EXTENDS Naturals, FiniteSets, SequencesExt, Totals

CONSTANTS
    Handlers,           \* requests and webhooks in progress
    Keys, NoKey,        \* API key ids; createApiKey never repeats one
    Subs, NoSub,        \* Stripe subscriptions of the customer
    Plans,              \* the tiers of TIER_PRODUCTS
    Limit,              \* ATTESTATION_LIMITS
    MaxPeriod,          \* bound on Stripe's billing periods
    MaxVersion,         \* bound on session versions
    MaxDue,             \* bound on the events Stripe has not delivered
    Ordered,            \* whether Stripe sends each event after the last one
                        \* was answered, and none again after the answer
    NoEvent,
    MaxCrashes,         \* bound on process crashes
    MaxDiskErrors,      \* bound on writes that throw
    MaxApiErrors        \* bound on Stripe calls that throw

ASSUME AccountAssumption ==
    /\ NoKey \notin Keys /\ NoSub \notin Subs
    /\ IsFiniteSet(Handlers) /\ IsFiniteSet(Keys)
    /\ "free" \notin Plans
    /\ Limit \in [Plans \cup {"free"} -> Nat]
    /\ Ordered \in BOOLEAN
    /\ MaxPeriod \in Nat \ {0} /\ MaxVersion \in Nat \ {0} /\ MaxDue \in Nat
    /\ MaxCrashes \in Nat /\ MaxDiskErrors \in Nat /\ MaxApiErrors \in Nat

VARIABLES
    user,           \* the StoredUser
    keys,           \* apiKeys: whether a key is there, and its tier
    usage,          \* attestationUsage, per key and billing period
    disk,           \* users.json and the files of the store
    job,            \* what each handler does: its stage and local variables
    stripe,         \* Stripe's side of each subscription
    due,            \* Stripe's events that were not answered yet
    shown,          \* keys whose secret was handed to the customer
    revoked,        \* the last session version that was to end
    charged,        \* attestations submitted by the customer, per period
    uncounted,      \* slots given back that were charged, or given back before
    crashes, diskErrors, apiErrors

fileVars   == <<user, keys, usage, disk, diskErrors>>
stripeVars == <<stripe, due>>
tokenVars  == <<shown, revoked>>
vars == <<fileVars, job, stripeVars, tokenVars, charged, uncounted, crashes, apiErrors>>

Tiers   == Plans \cup {"free"}
Periods == 0..MaxPeriod     \* 0 is the fallback period, before any from Stripe
Status  == {"none", "active", "past_due", "canceled"}
Kinds   == {"checkout", "updated", "deleted", "payment_failed", "paid"}

\* apiKeyIds holds at most one id: signup links one, and a rotation puts the
\* new one in its place.
User   == [known : BOOLEAN, tier : Tiers, status : Status, sub : Subs \cup {NoSub},
           customer : BOOLEAN, key : Keys \cup {NoKey}, period : Periods,
           version : 1..MaxVersion]
NoUser == [known |-> FALSE, tier |-> "free", status |-> "none", sub |-> NoSub,
           customer |-> FALSE, key |-> NoKey, period |-> 0, version |-> 1]

\* A deleted record keeps its tier: calls in progress still refer to it.
Key == [state : {"none", "live", "deleted"}, tier : Tiers]

Subscription == [state : Status, plan : Tiers, period : Periods]
Event == [kind : Kinds, sub : Subs, now : Subscription]

ASSUME NoEventAssumption == NoEvent \notin Event

Stages == {"idle", "keying", "moving", "deleting", "linking",
           "retrieving", "clearing", "syncing", "checking", "submitting",
           "listing", "failing", "releasing", "unwinding"}
InTurn == {"keying", "moving", "deleting", "linking", "clearing", "syncing",
           "listing", "failing", "releasing", "unwinding"}

\* old and new are a rotation's keys, old also a call's; event is the event
\* handled, seen what handleInvoicePaid read of the user before its await,
\* period the billing period of a call, holds whether it has a slot in use.
Seen == [status : Status, period : Periods]
Job  == [stage : Stages, rotating : BOOLEAN, old : Keys \cup {NoKey}, new : Keys \cup {NoKey},
         event : Event \cup {NoEvent}, seen : Seen, period : Periods, holds : BOOLEAN]
Idle == [stage |-> "idle", rotating |-> FALSE, old |-> NoKey, new |-> NoKey, event |-> NoEvent,
         seen |-> [status |-> "none", period |-> 0], period |-> 0, holds |-> FALSE]

Init ==
    /\ user = NoUser
    /\ keys = [k \in Keys |-> [state |-> "none", tier |-> "free"]]
    /\ usage = [k \in Keys |-> [n \in Periods |-> 0]]
    /\ disk = [user |-> user, keys |-> keys, usage |-> usage]
    /\ job = [h \in Handlers |-> Idle]
    /\ stripe = [s \in Subs |-> [state |-> "none", plan |-> "free", period |-> 0]]
    /\ due = <<>>
    /\ shown = {} /\ revoked = 0
    /\ charged = [n \in Periods |-> 0] /\ uncounted = [n \in Periods |-> 0]
    /\ crashes = 0 /\ diskErrors = 0 /\ apiErrors = 0

(***************************************************************************)
(* Handlers and files.                                                     *)
(***************************************************************************)
At(h, stage)   == job[h].stage = stage
Quiet          == \A h \in Handlers : job[h].stage \notin InTurn
Goto(h, stage) == job' = [job EXCEPT ![h].stage = stage]
Return(h)      == job' = [job EXCEPT ![h] = Idle]
Live(k)        == k \in Keys /\ keys[k].state = "live"

CountWrite(ok) ==
    /\ ok \/ diskErrors < MaxDiskErrors
    /\ diskErrors' = IF ok THEN diskErrors ELSE diskErrors + 1

\* userStore.update and create.
WriteUser(u, ok) ==
    /\ CountWrite(ok)
    /\ user' = u
    /\ disk' = IF ok THEN [disk EXCEPT !.user = u] ELSE disk
    /\ UNCHANGED <<keys, usage>>

\* A call of the store, with syncPersist, which writes the keys, then the usage.
WriteStore(k, u, ok) ==
    /\ CountWrite(ok)
    /\ keys' = k
    /\ usage' = u
    /\ disk' \in IF ok THEN {[disk EXCEPT !.keys = k, !.usage = u]} ELSE {disk, [disk EXCEPT !.keys = k]}
    /\ UNCHANGED user

(***************************************************************************)
(* Sign-up and rotation.                                                   *)
(***************************************************************************)
\* The bound on keys.
KeyLeft == \E k \in Keys : keys[k].state = "none"

SignUp(h, ok) ==
    /\ Quiet /\ At(h, "idle")
    /\ KeyLeft
    /\ ~user.known
    /\ WriteUser([NoUser EXCEPT !.known = TRUE], ok)
    /\ IF ok THEN Goto(h, "keying") ELSE UNCHANGED job
    /\ UNCHANGED <<stripeVars, tokenVars, charged, uncounted, crashes, apiErrors>>

Rotate(h) ==
    /\ Quiet /\ At(h, "idle")
    /\ user.known
    /\ KeyLeft /\ user.version < MaxVersion
    /\ job' = [job EXCEPT ![h] = [Idle EXCEPT !.stage = "keying", !.rotating = TRUE,
                                              !.old = user.key]]
    /\ UNCHANGED <<fileVars, stripeVars, tokenVars, charged, uncounted, crashes, apiErrors>>

\* createApiKey, and setApiKeyUsageCount, which copies the request count.
CreateKey(h, k, ok) ==
    /\ At(h, "keying")
    /\ keys[k].state = "none"
    /\ WriteStore([keys EXCEPT ![k] = [state |-> "live", tier |-> user.tier]], usage, ok)
    /\ IF ok THEN job' = [job EXCEPT ![h].new = k,
                            ![h].stage = IF job[h].old = NoKey THEN "linking" ELSE "moving"]
             ELSE Return(h)
    /\ UNCHANGED <<stripeVars, tokenVars, charged, uncounted, crashes, apiErrors>>

CopyCountFails(h) ==
    /\ At(h, "moving")
    /\ WriteStore(keys, usage, FALSE)
    /\ Return(h)
    /\ UNCHANGED <<stripeVars, tokenVars, charged, uncounted, crashes, apiErrors>>

\* Mutant: the counters of the old key are dropped.
MoveUsage_Drops(h, ok) ==
    /\ At(h, "moving")
    /\ WriteStore(keys, [usage EXCEPT ![job[h].old] = [n \in Periods |-> 0]], ok)
    /\ IF ok THEN Goto(h, "deleting") ELSE Return(h)
    /\ UNCHANGED <<stripeVars, tokenVars, charged, uncounted, crashes, apiErrors>>

\* rekeyAttestationUsage.
MoveUsage(h, ok) ==
    /\ At(h, "moving")
    /\ WriteStore(keys, [usage EXCEPT
                           ![job[h].new] = [n \in Periods |-> @[n] + usage[job[h].old][n]],
                           ![job[h].old] = [n \in Periods |-> 0]], ok)
    /\ IF ok THEN Goto(h, "deleting") ELSE Return(h)
    /\ UNCHANGED <<stripeVars, tokenVars, charged, uncounted, crashes, apiErrors>>

\* Mutant: the old key is left in place.
DeleteOld_Keeps(h, ok) ==
    /\ At(h, "deleting")
    /\ ok
    /\ Goto(h, "linking")
    /\ UNCHANGED <<fileVars, stripeVars, tokenVars, charged, uncounted, crashes, apiErrors>>

\* deleteApiKey writes only when it finds the key.
DeleteOld(h, ok) ==
    /\ At(h, "deleting")
    /\ IF Live(job[h].old)
       THEN WriteStore([keys EXCEPT ![job[h].old].state = "deleted"], usage, ok)
       ELSE ok /\ UNCHANGED fileVars
    /\ IF ok THEN Goto(h, "linking") ELSE Return(h)
    /\ UNCHANGED <<stripeVars, tokenVars, charged, uncounted, crashes, apiErrors>>

\* The user gets the new key and, after a rotation, a new session version;
\* the answer carries the secret.
Link(h, ok) ==
    /\ At(h, "linking")
    /\ WriteUser([user EXCEPT !.key = job[h].new,
                              !.version = IF job[h].rotating THEN @ + 1 ELSE @], ok)
    /\ IF ok THEN /\ shown' = shown \cup {job[h].new}
                  /\ revoked' = IF job[h].rotating THEN user.version ELSE revoked
             ELSE UNCHANGED tokenVars
    /\ Return(h)
    /\ UNCHANGED <<stripeVars, charged, uncounted, crashes, apiErrors>>

(***************************************************************************)
(* Sessions.                                                               *)
(***************************************************************************)
\* login: the token names the user's version; nothing is stored.
Login ==
    /\ Quiet
    /\ UNCHANGED vars

\* Mutant: the version is bumped in memory only.
Revoke_Unsaved(ok) ==
    /\ Quiet
    /\ user.known
    /\ user.version < MaxVersion
    /\ ok
    /\ user' = [user EXCEPT !.version = @ + 1]
    /\ revoked' = user.version
    /\ UNCHANGED <<keys, usage, disk, diskErrors, job, stripeVars, shown,
                   charged, uncounted, crashes, apiErrors>>

\* Logout, or a password reset: one turn, answered when the file is written.
Revoke(ok) ==
    /\ Quiet
    /\ user.known
    /\ user.version < MaxVersion
    /\ WriteUser([user EXCEPT !.version = @ + 1], ok)
    /\ revoked' = IF ok THEN user.version ELSE revoked
    /\ UNCHANGED <<job, stripeVars, shown, charged, uncounted, crashes, apiErrors>>

(***************************************************************************)
(* Stripe.                                                                 *)
(***************************************************************************)
Open == {s \in Subs : stripe[s].state \in {"active", "past_due"}}

\* Stripe's side of s changes, and an event of each kind tells so.
Happens(s, now, kinds) ==
    /\ Len(due) + Len(kinds) <= MaxDue
    /\ stripe' = [stripe EXCEPT ![s] = now]
    /\ due' = due \o [i \in DOMAIN kinds |-> [kind |-> kinds[i], sub |-> s, now |-> now]]
    /\ UNCHANGED <<fileVars, job, tokenVars, charged, uncounted, crashes, apiErrors>>

\* A paid checkout, one subscription at a time.
Checkout(s, p) ==
    /\ user.known
    /\ stripe[s].state = "none" /\ Open = {}
    /\ Happens(s, [state |-> "active", plan |-> p, period |-> 1], <<"checkout">>)

ChangePlan(s, p) ==
    /\ s \in Open
    /\ stripe[s].plan # p
    /\ Happens(s, [stripe[s] EXCEPT !.plan = p], <<"updated">>)

FailPayment(s) ==
    /\ stripe[s].state = "active"
    /\ Happens(s, [stripe[s] EXCEPT !.state = "past_due"], <<"updated", "payment_failed">>)

Recover(s) ==
    /\ stripe[s].state = "past_due"
    /\ Happens(s, [stripe[s] EXCEPT !.state = "active"], <<"updated", "paid">>)

Renew(s) ==
    /\ stripe[s].state = "active"
    /\ stripe[s].period < MaxPeriod
    /\ Happens(s, [stripe[s] EXCEPT !.period = @ + 1], <<"updated", "paid">>)

Cancel(s) ==
    /\ s \in Open
    /\ Happens(s, [stripe[s] EXCEPT !.state = "canceled"], <<"deleted">>)

(***************************************************************************)
(* handleWebhook.  Whatever the handler does, the answer is 200.           *)
(***************************************************************************)
Delivered(h, e) ==
    /\ Quiet /\ At(h, "idle")
    /\ e \in ToSet(due)
    /\ Ordered => e = Head(due) /\ \A g \in Handlers : job[g].event = NoEvent

\* The answer is lost now and then, and Stripe sends the event again.
Answer(e) ==
    \/ \E i \in DOMAIN due : due[i] = e /\ due' = RemoveAt(due, i) /\ (Ordered => i = 1)
    \/ ~Ordered /\ UNCHANGED due

Handle(h, e, stage) ==
    job' = [job EXCEPT ![h] = [Idle EXCEPT !.stage = stage, !.event = e]]

\* Another subscription's events are ignored while one is linked.
Concerns(e) == user.customer /\ user.sub \in {NoSub, e.sub}

Ignored(e) ==
    CASE e.kind = "checkout" -> ~user.known
      [] e.kind \in {"updated", "deleted"} -> ~Concerns(e)
      [] e.kind = "payment_failed" -> ~user.customer \/ user.status = "past_due"
      [] e.kind = "paid" -> ~user.customer

Ignore(h, e) ==
    /\ Delivered(h, e)
    /\ Ignored(e)
    /\ Answer(e)
    /\ UNCHANGED <<fileVars, job, stripe, tokenVars, charged, uncounted, crashes, apiErrors>>

\* updateUserSubscription: with a tier, the user's key follows in SyncKey.
Update(h, e, u, ok) ==
    /\ WriteUser(u, ok)
    /\ IF ok /\ e.kind \in {"checkout", "updated", "deleted"}
       THEN Handle(h, e, "syncing") /\ UNCHANGED due
       ELSE Return(h) /\ Answer(e)
    /\ UNCHANGED <<stripe, tokenVars, charged, uncounted, crashes, apiErrors>>

SubscriptionUpdated(h, e, ok) ==
    /\ e.kind = "updated"
    /\ Delivered(h, e) /\ ~Ignored(e)
    /\ Update(h, e, [user EXCEPT !.tier = e.now.plan, !.status = e.now.state,
                                 !.sub = e.sub, !.period = e.now.period], ok)

SubscriptionDeleted(h, e, ok) ==
    /\ e.kind = "deleted"
    /\ Delivered(h, e) /\ ~Ignored(e)
    /\ Update(h, e, [user EXCEPT !.tier = "free", !.status = "canceled", !.sub = NoSub], ok)

InvoicePaymentFailed(h, e, ok) ==
    /\ e.kind = "payment_failed"
    /\ Delivered(h, e) /\ ~Ignored(e)
    /\ Update(h, e, [user EXCEPT !.status = "past_due"], ok)

\* handleCheckoutCompleted and handleInvoicePaid ask Stripe first.
Retrieve(h, e) ==
    /\ e.kind \in {"checkout", "paid"}
    /\ Delivered(h, e) /\ ~Ignored(e)
    /\ job' = [job EXCEPT ![h] = [Idle EXCEPT
                  !.stage = "retrieving", !.event = e,
                  !.seen = IF e.kind = "checkout" THEN Idle.seen
                           ELSE [status |-> user.status, period |-> user.period]]]
    /\ UNCHANGED <<fileVars, stripeVars, tokenVars, charged, uncounted, crashes, apiErrors>>

CheckoutCompleted(h, ok) ==
    /\ Quiet /\ At(h, "retrieving")
    /\ job[h].event.kind = "checkout"
    /\ LET e == job[h].event
       IN  Update(h, e, [user EXCEPT !.tier = stripe[e.sub].plan, !.status = "active",
                                    !.customer = TRUE, !.sub = e.sub,
                                    !.period = stripe[e.sub].period], ok)

WasPastDue(h) == job[h].seen.status = "past_due"

\* A write that throws is caught like a retrieve that does.
InvoicePaid(h, ok) ==
    /\ Quiet /\ At(h, "retrieving")
    /\ job[h].event.kind = "paid"
    /\ LET now == stripe[job[h].event.sub].period
       IN  IF now # job[h].seen.period \/ WasPastDue(h)
           THEN WriteUser([user EXCEPT !.status = "active", !.period =
                             IF now # job[h].seen.period THEN now ELSE @], ok)
           ELSE ok /\ UNCHANGED fileVars
    /\ IF ok \/ ~WasPastDue(h) THEN Return(h) /\ Answer(job[h].event)
                               ELSE Goto(h, "clearing") /\ UNCHANGED due
    /\ UNCHANGED <<stripe, tokenVars, charged, uncounted, crashes, apiErrors>>

\* Without the price there is no tier, and the checkout is dropped.
RetrieveFails(h) ==
    /\ Quiet /\ At(h, "retrieving")
    /\ apiErrors < MaxApiErrors
    /\ apiErrors' = apiErrors + 1
    /\ IF job[h].event.kind = "paid" /\ WasPastDue(h)
       THEN Goto(h, "clearing") /\ UNCHANGED due
       ELSE Return(h) /\ Answer(job[h].event)
    /\ UNCHANGED <<fileVars, stripe, tokenVars, charged, uncounted, crashes>>

ClearPastDue(h, ok) ==
    /\ At(h, "clearing")
    /\ Update(h, job[h].event, [user EXCEPT !.status = "active"], ok)

\* Mutant: the keys are left to the next rotation.
SyncKey_Skips(h, ok) ==
    /\ At(h, "syncing")
    /\ ok
    /\ Return(h) /\ Answer(job[h].event)
    /\ UNCHANGED <<fileVars, stripe, tokenVars, charged, uncounted, crashes, apiErrors>>

\* updateApiKeyTier
SyncKey(h, ok) ==
    /\ At(h, "syncing")
    /\ IF Live(user.key) THEN WriteStore([keys EXCEPT ![user.key].tier = user.tier], usage, ok)
                         ELSE ok /\ UNCHANGED fileVars
    /\ Return(h) /\ Answer(job[h].event)
    /\ UNCHANGED <<stripe, tokenVars, charged, uncounted, crashes, apiErrors>>

(***************************************************************************)
(* Attestation calls of the dashboard: attest.ts with the key's record in  *)
(* hand before its first await.  AttestService has the flow itself.        *)
(***************************************************************************)
Ask(h) ==
    /\ Quiet /\ At(h, "idle")
    /\ Live(user.key)
    /\ job' = [job EXCEPT ![h] = [Idle EXCEPT !.stage = "checking", !.old = user.key]]
    /\ UNCHANGED <<fileVars, stripeVars, tokenVars, charged, uncounted, crashes, apiErrors>>

\* resolveBillingPeriod: the owner's period, or one by the calendar.
PeriodOf(k) == IF user.key = k THEN user.period ELSE 0

\* The record is a reference: its tier is today's, even of a deleted key.  A
\* slot whose write throws stays taken, and the call ends without it.
Reserve(h, ok) ==
    /\ Quiet /\ At(h, "checking")
    /\ LET k == job[h].old
           n == PeriodOf(k)
       IN  IF usage[k][n] < Limit[keys[k].tier]
           THEN /\ WriteStore(keys, [usage EXCEPT ![k][n] = @ + 1], ok)
                /\ IF ok THEN job' = [job EXCEPT ![h].stage = "submitting", ![h].holds = TRUE, ![h].period = n]
                         ELSE Return(h)
           ELSE ok /\ UNCHANGED fileVars /\ Return(h)
    /\ UNCHANGED <<stripeVars, tokenVars, charged, uncounted, crashes, apiErrors>>

\* Before the submission two writes of the store: createAttestation, which
\* throws out of submitToFdc, and the prepared request, which fails it.
Record(h, ok) ==
    /\ Quiet /\ At(h, "submitting")
    /\ WriteStore(keys, usage, ok)
    /\ IF ok THEN UNCHANGED job ELSE Goto(h, "unwinding") \/ Goto(h, "failing")
    /\ UNCHANGED <<stripeVars, tokenVars, charged, uncounted, crashes, apiErrors>>

\* The submission is accepted, and its round is written: if that throws, it
\* counts as failed.
SubmitPasses(h, ok) ==
    /\ Quiet /\ At(h, "submitting")
    /\ charged' = [charged EXCEPT ![job[h].period] = @ + 1]
    /\ WriteStore(keys, usage, ok)
    /\ job' = [job EXCEPT ![h].stage = IF ok THEN "listing" ELSE "failing", ![h].holds = FALSE]
    /\ UNCHANGED <<stripeVars, tokenVars, uncounted, crashes, apiErrors>>

\* addReceipt, when the key still has an owner.
AddReceipt(h, ok) ==
    /\ At(h, "listing")
    /\ IF user.key = job[h].old THEN WriteUser(user, ok) ELSE ok /\ UNCHANGED fileVars
    /\ IF ok THEN Return(h) ELSE Goto(h, "unwinding")
    /\ UNCHANGED <<stripeVars, tokenVars, charged, uncounted, crashes, apiErrors>>

\* The preflight says no, or the preparation or the submission throws.
SubmitFails(h) ==
    /\ Quiet /\ At(h, "submitting")
    /\ Goto(h, "releasing") \/ Goto(h, "failing")
    /\ UNCHANGED <<fileVars, stripeVars, tokenVars, charged, uncounted, crashes, apiErrors>>

NoteFailed(h, ok) ==
    /\ At(h, "failing")
    /\ WriteStore(keys, usage, ok)
    /\ Goto(h, IF ok THEN "releasing" ELSE "unwinding")
    /\ UNCHANGED <<stripeVars, tokenVars, charged, uncounted, crashes, apiErrors>>

\* releaseAttestationUsage, under the key the call began with.  The outer
\* catch block repeats the one that threw, and releases after what else did.
Release(h, ok) ==
    /\ job[h].stage \in {"releasing", "unwinding"}
    /\ LET k == job[h].old
           n == job[h].period
       IN  IF usage[k][n] > 0
           THEN /\ WriteStore(keys, [usage EXCEPT ![k][n] = @ - 1], ok)
                /\ uncounted' = IF job[h].holds THEN uncounted ELSE [uncounted EXCEPT ![n] = @ + 1]
           ELSE ok /\ UNCHANGED <<fileVars, uncounted>>
    /\ IF ok \/ At(h, "unwinding") THEN Return(h)
       ELSE job' = [job EXCEPT ![h].stage = "unwinding", ![h].holds = FALSE]
    /\ UNCHANGED <<stripeVars, tokenVars, charged, crashes, apiErrors>>

-----------------------------------------------------------------------------
\* The files are read again; an event that was not answered comes again.
Crash ==
    /\ crashes < MaxCrashes
    /\ crashes' = crashes + 1
    /\ user' = disk.user /\ keys' = disk.keys /\ usage' = disk.usage
    /\ job' = [h \in Handlers |-> Idle]
    /\ UNCHANGED <<disk, diskErrors, stripeVars, tokenVars, charged, uncounted, apiErrors>>

Rotation(h, ok) ==
    \/ \E k \in Keys : CreateKey(h, k, ok)
    \/ ~ok /\ CopyCountFails(h)
    \/ MoveUsage(h, ok) \/ DeleteOld(h, ok) \/ Link(h, ok)

Webhook(h, ok) ==
    \/ \E e \in ToSet(due) :
          \/ SubscriptionUpdated(h, e, ok) \/ SubscriptionDeleted(h, e, ok)
          \/ InvoicePaymentFailed(h, e, ok)
    \/ CheckoutCompleted(h, ok) \/ InvoicePaid(h, ok)
    \/ ClearPastDue(h, ok) \/ SyncKey(h, ok)

Wait(h) ==
    \/ \E e \in ToSet(due) : Ignore(h, e) \/ Retrieve(h, e)
    \/ Rotate(h) \/ RetrieveFails(h)
    \/ Ask(h) \/ SubmitFails(h)

Attest(h, ok) ==
    \/ Reserve(h, ok) \/ Record(h, ok) \/ SubmitPasses(h, ok) \/ AddReceipt(h, ok)
    \/ NoteFailed(h, ok) \/ Release(h, ok)

Subscriber ==
    \/ \E s \in Subs, p \in Plans : Checkout(s, p) \/ ChangePlan(s, p)
    \/ \E s \in Subs : FailPayment(s) \/ Recover(s) \/ Renew(s) \/ Cancel(s)

Next ==
    \/ \E h \in Handlers : Wait(h)
    \/ \E h \in Handlers, ok \in BOOLEAN : SignUp(h, ok) \/ Rotation(h, ok) \/ Webhook(h, ok) \/ Attest(h, ok)
    \/ \E ok \in BOOLEAN : Revoke(ok)
    \/ Login \/ Subscriber \/ Crash

Spec == Init /\ [][Next]_vars

-----------------------------------------------------------------------------
(***************************************************************************)
(* Properties                                                              *)
(***************************************************************************)
Files == [user : User, keys : [Keys -> Key], usage : [Keys -> [Periods -> Nat]]]

\* Every variable has its type.
TypeOK ==
    /\ [user |-> user, keys |-> keys, usage |-> usage] \in Files
    /\ disk \in Files
    /\ job \in [Handlers -> Job]
    /\ stripe \in [Subs -> Subscription]
    /\ due \in Seq(Event) /\ Len(due) <= MaxDue
    /\ shown \subseteq Keys
    /\ revoked \in 0..MaxVersion
    /\ charged \in [Periods -> Nat] /\ uncounted \in [Periods -> Nat]
    /\ crashes \in 0..MaxCrashes /\ diskErrors \in 0..MaxDiskErrors
    /\ apiErrors \in 0..MaxApiErrors

\* "The previous key no longer works": of the keys whose secret was handed
\* out, one works at most, in memory and after a restart, wherever a
\* rotation was cut off.
OneWorkingKey ==
    \A j, k \in shown :
        j # k => /\ keys[j].state # "live" \/ keys[k].state # "live"
                 /\ disk.keys[j].state # "live" \/ disk.keys[k].state # "live"

\* The subscription table of production-hardening.md: when Stripe's events
\* came in order and are all answered, and no write or Stripe call failed,
\* the user has the plan, status and period of the subscription, and so has
\* the key that works, over crashes and rotations.
EntitlementFollowsStripe ==
    /\ Ordered /\ due = <<>> /\ diskErrors + apiErrors = 0
    => /\ \A s \in Open : /\ user.sub = s
                          /\ user.tier = stripe[s].plan
                          /\ user.status = stripe[s].state
                          /\ user.period = stripe[s].period
       /\ Open = {} => user.tier = "free" /\ user.sub = NoSub
       /\ Live(user.key) => keys[user.key].tier = user.tier

\* "so outstanding cookies stop working": the version of a revoked session
\* never comes back, over crashes, or else over failed writes.
RevokedStaysRevoked ==
    crashes = 0 \/ diskErrors = 0 => revoked < user.version

Held(n) == Cardinality({h \in Handlers : job[h].holds /\ job[h].period = n})

Counted(u, n) == Total([k \in Keys |-> u[k][n]])

\* "keeps plan/quota": no interleaving of calls with rotations, crashes and
\* failed writes loses a slot in use or charged from the counters of the
\* customer's keys, but for one that is given back although charged, or
\* twice: each of those takes a write that failed.
UsageKept ==
    \A n \in Periods : /\ Held(n) + charged[n] <= Counted(usage, n) + uncounted[n]
                       /\ Held(n) + charged[n] <= Counted(disk.usage, n) + uncounted[n]
                       /\ uncounted[n] <= diskErrors

\* "If all retries fail, Stripe cancels the subscription and the user is
\* downgraded to free", when every event has been answered.
SubscriptionEndsFree ==
    /\ Open = {} /\ due = <<>> /\ diskErrors + apiErrors = 0
    /\ \A h \in Handlers : job[h].event = NoEvent
    => user.tier = "free"
=============================================================================
