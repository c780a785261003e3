---------------------------- MODULE AccountProofs ----------------------------
(***************************************************************************)
(* What is proved of Account, for all constants that satisfy               *)
(* AccountAssumption and NoEventAssumption: the types, the session         *)
(* versions, the keys that work after a rotation, the usage counters that  *)
(* survive it, and the plan that follows Stripe's subscription.            *)
(***************************************************************************)
EXTENDS Account, TotalsProofs, SequenceTheorems, TLAPS

-----------------------------------------------------------------------------
(***************************************************************************)
(* Types.  What a handler keeps is there once its stage needs it.          *)
(***************************************************************************)
RotStages == {"keying", "moving", "deleting", "linking"}
HookStages == {"retrieving", "clearing", "syncing"}
CallStages == {"checking", "submitting", "listing", "failing", "releasing", "unwinding"}

JobOK(j) ==
    /\ j \in Job
    /\ j.stage = "idle" => j = Idle
    /\ j.stage \in {"moving", "deleting"} \cup CallStages => j.old \in Keys
    /\ j.stage \in {"moving", "deleting", "linking"} => j.new \in Keys
    /\ j.stage \in HookStages => j.event \in Event
    /\ j.holds => j.stage \in {"submitting", "failing", "releasing", "unwinding"}
    /\ j.stage = "submitting" => j.holds

MemOK    == user \in User /\ keys \in [Keys -> Key] /\ usage \in [Keys -> [Periods -> Nat]]
FilesOK  == MemOK /\ disk \in Files /\ diskErrors \in 0..MaxDiskErrors
JobsOK   == job \in [Handlers -> Job] /\ \A h \in Handlers : JobOK(job[h])
StripeOK == stripe \in [Subs -> Subscription] /\ due \in Seq(Event) /\ Len(due) <= MaxDue
TokensOK == shown \subseteq Keys /\ revoked \in 0..MaxVersion
CountsOK ==
    /\ charged \in [Periods -> Nat] /\ uncounted \in [Periods -> Nat]
    /\ crashes \in 0..MaxCrashes /\ apiErrors \in 0..MaxApiErrors

Typed == FilesOK /\ JobsOK /\ StripeOK /\ TokensOK /\ CountsOK

(***************************************************************************)
(* Turns.  One handler at most keeps the event loop; a rotation has it     *)
(* from its first write to its last, so that what it read of the user      *)
(* still holds and the file of keys is what memory has.                    *)
(***************************************************************************)
Live1(k) == keys[k].state = "live" \/ disk.keys[k].state = "live"

OneTurn == \A g, h \in Handlers : job[g].stage \in InTurn /\ job[h].stage \in InTurn => g = h

TurnOK(h) ==
    /\ job[h].stage \in RotStages => /\ user.known /\ job[h].old = user.key
                                     /\ job[h].rotating => user.version < MaxVersion
    /\ job[h].stage \in RotStages \ {"keying"} => /\ disk.keys = keys
                                                  /\ keys[job[h].new].state # "none"
    /\ job[h].stage = "linking" => \A k \in shown : ~Live1(k)

Turns == OneTurn /\ \A h \in Handlers : TurnOK(h)

\* No record of the user, in memory or on disk: no key and no session yet.
Fresh(u)  == ~u.known => u.version = 1 /\ u.key = NoKey
FreshOK   == Fresh(user) /\ Fresh(disk.user)

VersionOK ==
    /\ crashes = 0 => revoked < user.version
    /\ diskErrors = 0 => disk.user = user /\ revoked < user.version

\* A key that was handed out stays on record, and works only while the user
\* record names it, in memory and on disk.
ShownOK ==
    \A k \in shown : /\ keys[k].state # "none" /\ disk.keys[k].state # "none"
                     /\ Live1(k) => user.key = k /\ disk.user.key = k

Inv == Typed /\ Turns /\ FreshOK /\ VersionOK /\ ShownOK

\* The parts of the invariant, as the lemmas below use them.
LEMMA InvParts ==
    ASSUME Inv
    PROVE  /\ FilesOK /\ JobsOK /\ StripeOK /\ TokensOK /\ CountsOK
           /\ user \in User /\ keys \in [Keys -> Key] /\ usage \in [Keys -> [Periods -> Nat]]
           /\ disk \in Files /\ disk.user \in User /\ disk.keys \in [Keys -> Key]
           /\ \A h \in Handlers : JobOK(job[h]) /\ job[h] \in Job /\ TurnOK(h)
           /\ OneTurn /\ FreshOK /\ VersionOK /\ ShownOK
  BY DEF Inv, Typed, FilesOK, MemOK, JobsOK, Turns, Files

\* The invariant has the types.
LEMMA InvIsTypeOK == Inv => TypeOK
  BY DEF Inv, Typed, FilesOK, MemOK, JobsOK, StripeOK, TokensOK, CountsOK, TypeOK, Files

\* A revoked version is below the user's, so it is not the user's.
LEMMA InvIsRevoked == Inv => RevokedStaysRevoked
  BY DEF Inv, VersionOK, RevokedStaysRevoked

\* A key that works is the one that memory or the file links, so one works.
LEMMA InvIsOneKey == Inv => OneWorkingKey
  BY DEF Inv, ShownOK, OneWorkingKey, Live1

\* The record before the sign-up is a user record without a key.
LEMMA NoUserIsUser == NoUser \in User /\ NoUser.version = 1 /\ NoUser.key = NoKey /\ ~NoUser.known
  BY AccountAssumption DEF NoUser, User, Tiers, Status, Periods

\* A handler that is idle has its types.
LEMMA IdleOK == JobOK(Idle) /\ Idle \in Job /\ Idle.stage = "idle"
  <1>1. Idle.seen \in Seen /\ Idle.period \in Periods
    BY AccountAssumption DEF Idle, Seen, Status, Periods
  <1> QED
    BY <1>1 DEF Idle, Job, JobOK, HookStages, CallStages, Stages

\* The invariant holds at the start.
LEMMA InitInv == Init => Inv
  <1> SUFFICES ASSUME Init
               PROVE  Inv
    OBVIOUS
  <1>1. user = NoUser /\ user \in User
    BY NoUserIsUser DEF Init
  <1>2. keys \in [Keys -> Key] /\ usage \in [Keys -> [Periods -> Nat]]
    BY DEF Init, Key, Tiers
  <1>3. disk = [user |-> user, keys |-> keys, usage |-> usage] /\ disk \in Files
    BY <1>1, <1>2 DEF Init, Files
  <1>4. FilesOK
    BY <1>1, <1>2, <1>3, AccountAssumption DEF Init, FilesOK, MemOK
  <1>5. JobsOK /\ Turns
    BY IdleOK DEF Init, JobsOK, Turns, OneTurn, TurnOK, RotStages, InTurn
  <1>6. StripeOK
    BY AccountAssumption DEF Init, StripeOK, Subscription, Status, Tiers, Periods
  <1>7. TokensOK /\ CountsOK
    BY AccountAssumption DEF Init, TokensOK, CountsOK
  <1>8. FreshOK /\ VersionOK /\ ShownOK
    BY <1>1, <1>3, NoUserIsUser DEF Init, FreshOK, Fresh, VersionOK, ShownOK
  <1> QED
    BY <1>4, <1>5, <1>6, <1>7, <1>8 DEF Inv, Typed

-----------------------------------------------------------------------------
(***************************************************************************)
(* Writes.                                                                 *)
(***************************************************************************)
LEMMA CountWriteOK ==
    ASSUME NEW ok \in BOOLEAN, diskErrors \in 0..MaxDiskErrors, CountWrite(ok)
    PROVE  /\ diskErrors' \in 0..MaxDiskErrors
           /\ diskErrors' = 0 => ok /\ diskErrors = 0
  BY AccountAssumption DEF CountWrite

\* persist of users.json: memory has the record, the file has it unless the
\* write throws.
LEMMA WriteUserOK ==
    ASSUME FilesOK, NEW u \in User, NEW ok \in BOOLEAN, WriteUser(u, ok)
    PROVE  /\ FilesOK' /\ user' = u /\ keys' = keys /\ disk'.keys = disk.keys
           /\ disk'.user = IF ok THEN u ELSE disk.user
  <1>1. disk \in Files /\ user \in User /\ disk.user \in User
    BY DEF FilesOK, MemOK, Files
  <1>2. disk' \in Files /\ disk'.keys = disk.keys /\ disk'.user = IF ok THEN u ELSE disk.user
    BY <1>1 DEF WriteUser, Files
  <1>3. diskErrors' \in 0..MaxDiskErrors
    BY CountWriteOK DEF WriteUser, FilesOK
  <1> QED
    BY <1>2, <1>3 DEF WriteUser, FilesOK, MemOK

\* persist of the store: memory has keys and counters, the file has them
\* unless the write throws.
LEMMA WriteStoreOK ==
    ASSUME FilesOK, NEW k \in [Keys -> Key], NEW u \in [Keys -> [Periods -> Nat]],
           NEW ok \in BOOLEAN, WriteStore(k, u, ok)
    PROVE  /\ FilesOK' /\ user' = user /\ keys' = k /\ disk'.user = disk.user
           /\ disk'.keys = k \/ (~ok /\ disk'.keys = disk.keys)
  <1>1. disk \in Files
    BY DEF FilesOK
  <1>2. /\ disk' \in Files /\ disk'.user = disk.user
        /\ disk'.keys = k \/ (~ok /\ disk'.keys = disk.keys)
    BY <1>1 DEF WriteStore, Files
  <1>3. diskErrors' \in 0..MaxDiskErrors
    BY CountWriteOK DEF WriteStore, FilesOK
  <1> QED
    BY <1>2, <1>3 DEF WriteStore, FilesOK, MemOK

\* The session versions over a write of the user record.
LEMMA WriteVersion ==
    ASSUME Inv, NEW u \in User, NEW ok \in BOOLEAN, WriteUser(u, ok), crashes' = crashes,
           u.version >= user.version,
           revoked' = revoked \/ (revoked' = user.version /\ u.version > user.version)
    PROVE  VersionOK'
  <1>1. user.version \in Nat /\ u.version \in Nat /\ revoked \in Nat /\ crashes \in Nat
    BY DEF Inv, Typed, FilesOK, MemOK, User, TokensOK, CountsOK
  <1>2. VersionOK /\ user' = u /\ disk'.user = (IF ok THEN u ELSE disk.user)
    BY WriteUserOK DEF Inv, Typed
  <1>3. diskErrors' = 0 => ok /\ diskErrors = 0
    BY CountWriteOK DEF WriteUser, Inv, Typed, FilesOK
  <1> QED
    BY <1>1, <1>2, <1>3 DEF VersionOK

\* The keys that work, over a write of the user record that names the same
\* key, or another one when no key that was handed out works.
LEMMA WriteShown ==
    ASSUME Inv, NEW u \in User, NEW ok \in BOOLEAN, WriteUser(u, ok), shown' = shown,
           u.key = user.key \/ \A k \in shown : ~Live1(k)
    PROVE  ShownOK'
  <1>1. ShownOK /\ user' = u /\ keys' = keys /\ disk'.keys = disk.keys
        /\ disk'.user = (IF ok THEN u ELSE disk.user)
    BY WriteUserOK DEF Inv, Typed
  <1> QED
    BY <1>1 DEF ShownOK, Live1

\* A user record written before the sign-up is still one without a key.
LEMMA WriteFresh ==
    ASSUME Inv, NEW u \in User, NEW ok \in BOOLEAN, WriteUser(u, ok), Fresh(u)
    PROVE  FreshOK'
  BY WriteUserOK DEF Inv, Typed, FreshOK, Fresh

\* A write of the store that leaves the states of the keys alone, or changes
\* those of keys that were not handed out, or deletes some.
LEMMA StoreKeeps ==
    ASSUME Inv, NEW k \in [Keys -> Key], NEW u \in [Keys -> [Periods -> Nat]],
           NEW ok \in BOOLEAN, WriteStore(k, u, ok), UNCHANGED <<shown, revoked, crashes>>,
           \A x \in shown : k[x].state = keys[x].state \/ k[x].state = "deleted"
    PROVE  FreshOK' /\ VersionOK' /\ ShownOK'
  <1>1. /\ user' = user /\ keys' = k /\ disk'.user = disk.user
        /\ disk'.keys = k \/ disk'.keys = disk.keys
    BY WriteStoreOK DEF Inv, Typed
  <1>2. diskErrors' = 0 => diskErrors = 0
    BY CountWriteOK DEF WriteStore, Inv, Typed, FilesOK
  <1>3. FreshOK' /\ VersionOK'
    BY <1>1, <1>2 DEF Inv, FreshOK, Fresh, VersionOK
  <1>4. ShownOK'
    BY <1>1 DEF Inv, ShownOK, Live1
  <1> QED
    BY <1>3, <1>4

-----------------------------------------------------------------------------
(***************************************************************************)
(* Jobs.                                                                   *)
(***************************************************************************)
LEMMA JobChanges ==
    ASSUME JobsOK, NEW h \in Handlers, NEW c, JobOK(c), job' = [job EXCEPT ![h] = c]
    PROVE  JobsOK' /\ job'[h] = c /\ \A g \in Handlers \ {h} : job'[g] = job[g]
  <1>1. c \in Job
    BY DEF JobOK
  <1> QED
    BY <1>1 DEF JobsOK

\* While no handler keeps the event loop, or h does, no other one does after
\* a step of h.
LEMMA TurnOfOne ==
    ASSUME Inv, NEW h \in Handlers, Quiet \/ job[h].stage \in InTurn,
           \A g \in Handlers \ {h} : job'[g] = job[g],
           TurnOK(h)'
    PROVE  Turns'
  <1>1. \A g \in Handlers \ {h} : job'[g].stage \notin InTurn
    BY DEF Inv, Turns, OneTurn, Quiet
  <1>2. RotStages \subseteq InTurn /\ "linking" \in RotStages
    BY DEF RotStages, InTurn
  <1>3. \A g \in Handlers \ {h} : TurnOK(g)'
    BY <1>1, <1>2 DEF TurnOK
  <1> QED
    BY <1>1, <1>3 DEF Turns, OneTurn

\* So it is when h is at no stage of a rotation after it.
LEMMA TurnEnds ==
    ASSUME Inv, NEW h \in Handlers, Quiet \/ job[h].stage \in InTurn, NEW c, JobOK(c),
           job' = [job EXCEPT ![h] = c], c.stage \notin RotStages
    PROVE  Turns' /\ JobsOK'
  <1>1. JobsOK' /\ job'[h] = c /\ \A g \in Handlers \ {h} : job'[g] = job[g]
    BY JobChanges DEF Inv, Typed
  <1>2. TurnOK(h)'
    BY <1>1 DEF TurnOK, RotStages
  <1> QED
    BY <1>1, <1>2, TurnOfOne

-----------------------------------------------------------------------------
(***************************************************************************)
(* The variables a step leaves alone.                                      *)
(***************************************************************************)
LEMMA SameParts ==
    ASSUME Inv
    PROVE  /\ UNCHANGED fileVars => FilesOK' /\ FreshOK'
           /\ UNCHANGED <<fileVars, tokenVars, crashes>> => VersionOK' /\ ShownOK'
           /\ UNCHANGED stripeVars => StripeOK'
           /\ UNCHANGED tokenVars => TokensOK'
           /\ UNCHANGED <<charged, uncounted, crashes, apiErrors>> => CountsOK'
  <1>0. Typed /\ FreshOK /\ VersionOK /\ ShownOK
    BY DEF Inv
  <1>1. UNCHANGED fileVars => FilesOK' /\ FreshOK'
    BY <1>0 DEF Typed, FilesOK, MemOK, FreshOK, Fresh, fileVars
  <1>2. UNCHANGED <<fileVars, tokenVars, crashes>> => VersionOK' /\ ShownOK'
    BY <1>0 DEF VersionOK, ShownOK, Live1, fileVars, tokenVars
  <1>3. UNCHANGED stripeVars => StripeOK'
    BY <1>0 DEF Typed, StripeOK, stripeVars
  <1>4. (UNCHANGED tokenVars => TokensOK') /\ (UNCHANGED <<charged, uncounted, crashes, apiErrors>> => CountsOK')
    BY <1>0 DEF Typed, TokensOK, CountsOK, tokenVars
  <1> QED
    BY <1>1, <1>2, <1>3, <1>4

\* An answered event leaves the sequence shorter by one.
LEMMA AnswerOK ==
    ASSUME StripeOK, NEW e, Answer(e), stripe' = stripe
    PROVE  StripeOK'
  <1>1. CASE UNCHANGED due
    BY <1>1 DEF StripeOK
  <1>2. ASSUME NEW i \in DOMAIN due, due' = RemoveAt(due, i)
        PROVE  StripeOK'
    <2> DEFINE a == SubSeq(due, 1, i - 1)
               b == SubSeq(due, i + 1, Len(due))
    <2>1. due \in Seq(Event) /\ i \in 1..Len(due) /\ Len(due) \in Nat /\ MaxDue \in Nat
      BY <1>2, AccountAssumption DEF StripeOK
    <2>2. a \in Seq(Event) /\ Len(a) = i - 1
      BY <2>1, SubSeqProperties
    <2>3. b \in Seq(Event) /\ Len(b) = Len(due) - i
      BY <2>1, SubSeqProperties
    <2>4. due' = a \o b
      BY <1>2 DEF RemoveAt
    <2> HIDE DEF a, b
    <2>5. due' \in Seq(Event) /\ Len(due') = Len(due) - 1
      BY <2>1, <2>2, <2>3, <2>4, ConcatProperties
    <2> QED
      BY <2>1, <2>5 DEF StripeOK
  <1> QED
    BY <1>1, <1>2 DEF Answer

-----------------------------------------------------------------------------
(***************************************************************************)
(* Webhooks, calls and the like.  None of them is a rotation.              *)
(***************************************************************************)
\* The user's plan, status or period changes, and nothing else of the record.
SamePerson(u) == u \in User /\ u.known = user.known /\ u.version = user.version /\ u.key = user.key

\* A write of plan, status and period touches neither the key nor the session
\* version.
LEMMA PlanWrite ==
    ASSUME Inv, NEW u, SamePerson(u), NEW ok \in BOOLEAN, WriteUser(u, ok),
           UNCHANGED <<tokenVars, crashes>>
    PROVE  FilesOK' /\ FreshOK' /\ VersionOK' /\ ShownOK'
  <1>1. user.version \in Nat /\ FilesOK /\ FreshOK
    BY DEF Inv, Typed, FilesOK, MemOK, User
  <1>2. FilesOK'
    BY <1>1, WriteUserOK DEF SamePerson
  <1>3. FreshOK'
    BY <1>1, WriteFresh DEF SamePerson, FreshOK, Fresh
  <1>4. VersionOK' /\ ShownOK'
    BY <1>1, WriteVersion, WriteShown DEF SamePerson, tokenVars
  <1> QED
    BY <1>2, <1>3, <1>4

\* A handler that takes up a webhook has its types and is no rotation.
LEMMA NewJobs ==
    ASSUME NEW e \in Event, NEW stage \in HookStages, NEW seen \in Seen
    PROVE  LET c == [Idle EXCEPT !.stage = stage, !.event = e, !.seen = seen]
           IN  JobOK(c) /\ c.stage \notin RotStages
  BY IdleOK DEF Idle, JobOK, Job, HookStages, CallStages, RotStages, Stages

\* updateUser and updateApiKeyPlan of a webhook keep the invariant.
LEMMA UpdateOK ==
    ASSUME Inv, NEW h \in Handlers, NEW e \in Event, NEW u, SamePerson(u), NEW ok \in BOOLEAN,
           Quiet \/ job[h].stage \in InTurn, Update(h, e, u, ok)
    PROVE  Inv'
  <1>1. FilesOK' /\ FreshOK' /\ VersionOK' /\ ShownOK'
    BY PlanWrite DEF Update
  <1>2. TokensOK' /\ CountsOK'
    BY SameParts DEF Update
  <1>3. StripeOK'
    BY AnswerOK DEF Update, Inv, Typed, StripeOK
  <1>4. Turns' /\ JobsOK'
    <2>1. CASE Return(h)
      BY <2>1, IdleOK, TurnEnds DEF Return, RotStages
    <2>2. CASE Handle(h, e, "syncing")
      <3> DEFINE c == [Idle EXCEPT !.stage = "syncing", !.event = e]
      <3>1. Idle.seen \in Seen /\ c = [Idle EXCEPT !.stage = "syncing", !.event = e, !.seen = Idle.seen]
        BY IdleOK DEF Idle, Job
      <3>2. JobOK(c) /\ c.stage \notin RotStages
        BY <3>1, NewJobs DEF HookStages
      <3>3. job' = [job EXCEPT ![h] = c]
        BY <2>2 DEF Handle
      <3> HIDE DEF c
      <3> QED
        BY <3>2, <3>3, TurnEnds
    <2> QED
      BY <2>1, <2>2 DEF Update
  <1> QED
    BY <1>1, <1>2, <1>3, <1>4 DEF Inv, Typed

\* An event Stripe has to deliver.
LEMMA DueEvent ==
    ASSUME Inv, NEW e \in ToSet(due)
    PROVE  e \in Event /\ e.now \in Subscription /\ e.sub \in Subs
  <1>1. due \in Seq(Event)
    BY DEF Inv, Typed, StripeOK
  <1>2. PICK i \in DOMAIN due : e = due[i]
    BY DEF ToSet
  <1>3. e \in Event
    BY <1>1, <1>2, ElementOfSeq
  <1> QED
    BY <1>3 DEF Event

\* A write by updateUserSubscription, but for those of handleInvoicePaid.
Updates(h, ok) ==
    \E e \in Event, u \in User :
        SamePerson(u) /\ Update(h, e, u, ok) /\ (Quiet \/ job[h].stage \in InTurn)

\* What such an update does, as the counters and the queue see it.
LEMMA UpdatesBy ==
    ASSUME NEW h \in Handlers, NEW e \in Event, NEW u, SamePerson(u), NEW ok \in BOOLEAN,
           Quiet \/ job[h].stage \in InTurn, Update(h, e, u, ok)
    PROVE  Updates(h, ok)
  <1>1. u \in User
    BY DEF SamePerson
  <1> QED
    BY <1>1 DEF Updates

\* Every webhook that writes is such an update, or one of the two that end in
\* other ways.
LEMMA WebhookUpdates ==
    ASSUME Inv, NEW h \in Handlers, NEW ok \in BOOLEAN, Webhook(h, ok)
    PROVE  Updates(h, ok) \/ InvoicePaid(h, ok) \/ SyncKey(h, ok)
  <1>0. /\ user \in User /\ stripe \in [Subs -> Subscription] /\ JobOK(job[h]) /\ job[h] \in Job
        /\ FilesOK /\ JobsOK /\ StripeOK
    BY InvParts DEF StripeOK
  <1>1. ASSUME NEW e \in ToSet(due),
               \/ SubscriptionUpdated(h, e, ok) \/ SubscriptionDeleted(h, e, ok)
               \/ InvoicePaymentFailed(h, e, ok)
        PROVE  Updates(h, ok)
    <2>1. e \in Event /\ e.now \in Subscription /\ e.sub \in Subs /\ Quiet
      BY <1>1, DueEvent DEF SubscriptionUpdated, SubscriptionDeleted, InvoicePaymentFailed, Delivered
    <2>2. CASE SubscriptionUpdated(h, e, ok)
      <3> DEFINE u == [user EXCEPT !.tier = e.now.plan, !.status = e.now.state,
                                   !.sub = e.sub, !.period = e.now.period]
      <3>1. SamePerson(u)
        BY <1>0, <2>1 DEF SamePerson, User, Subscription
      <3>2. Update(h, e, u, ok)
        BY <2>2 DEF SubscriptionUpdated
      <3> HIDE DEF u
      <3> QED
        BY <2>1, <3>1, <3>2, UpdatesBy
    <2>3. CASE SubscriptionDeleted(h, e, ok)
      <3> DEFINE u == [user EXCEPT !.tier = "free", !.status = "canceled", !.sub = NoSub]
      <3>1. SamePerson(u)
        BY <1>0 DEF SamePerson, User, Tiers, Status
      <3>2. Update(h, e, u, ok)
        BY <2>3 DEF SubscriptionDeleted
      <3> HIDE DEF u
      <3> QED
        BY <2>1, <3>1, <3>2, UpdatesBy
    <2>4. CASE InvoicePaymentFailed(h, e, ok)
      <3> DEFINE u == [user EXCEPT !.status = "past_due"]
      <3>1. SamePerson(u)
        BY <1>0 DEF SamePerson, User, Status
      <3>2. Update(h, e, u, ok)
        BY <2>4 DEF InvoicePaymentFailed
      <3> HIDE DEF u
      <3> QED
        BY <2>1, <3>1, <3>2, UpdatesBy
    <2> QED
      BY <1>1, <2>2, <2>3, <2>4
  <1>2. CASE CheckoutCompleted(h, ok)
    <2> DEFINE e == job[h].event
               u == [user EXCEPT !.tier = stripe[e.sub].plan, !.status = "active",
                                 !.customer = TRUE, !.sub = e.sub, !.period = stripe[e.sub].period]
    <2>1. e \in Event /\ e.sub \in Subs /\ stripe[e.sub] \in Subscription
      BY <1>0, <1>2 DEF CheckoutCompleted, At, JobOK, HookStages, Event
    <2>2. SamePerson(u)
      BY <1>0, <2>1 DEF SamePerson, User, Subscription, Status
    <2>3. Update(h, e, u, ok) /\ Quiet
      BY <1>2 DEF CheckoutCompleted
    <2> HIDE DEF e, u
    <2> QED
      BY <2>1, <2>2, <2>3, UpdatesBy
  <1>3. CASE ClearPastDue(h, ok)
    <2> DEFINE u == [user EXCEPT !.status = "active"]
    <2>1. job[h].event \in Event /\ job[h].stage \in InTurn
      BY <1>0, <1>3 DEF ClearPastDue, At, JobOK, HookStages, InTurn
    <2>2. SamePerson(u)
      BY <1>0 DEF SamePerson, User, Status
    <2>3. Update(h, job[h].event, u, ok)
      BY <1>3 DEF ClearPastDue
    <2> HIDE DEF u
    <2> QED
      BY <2>1, <2>2, <2>3, UpdatesBy
  <1> QED
    BY <1>1, <1>2, <1>3 DEF Webhook

\* Webhooks keep the invariant.
LEMMA WebhookOK ==
    ASSUME Inv, NEW h \in Handlers, NEW ok \in BOOLEAN, Webhook(h, ok)
    PROVE  Inv'
  <1>0. /\ user \in User /\ stripe \in [Subs -> Subscription] /\ JobOK(job[h]) /\ job[h] \in Job
        /\ FilesOK /\ JobsOK /\ StripeOK
    BY InvParts DEF StripeOK
  <1>1. CASE Updates(h, ok)
    BY <1>1, UpdateOK DEF Updates
  <1>2. CASE InvoicePaid(h, ok)
    <2> DEFINE e   == job[h].event
               now == stripe[e.sub].period
               u   == [user EXCEPT !.status = "active", !.period =
                         IF now # job[h].seen.period THEN now ELSE user.period]
    <2>1. /\ e \in Event /\ e.sub \in Subs /\ stripe[e.sub] \in Subscription /\ Quiet
          /\ job[h].stage = "retrieving"
      BY <1>0, <1>2 DEF InvoicePaid, At, JobOK, HookStages, Event
    <2>2. SamePerson(u)
      BY <1>0, <2>1 DEF SamePerson, User, Subscription, Status
    <2>3. WriteUser(u, ok) \/ UNCHANGED fileVars
      BY <1>2 DEF InvoicePaid
    <2>4. UNCHANGED <<stripe, tokenVars, charged, uncounted, crashes, apiErrors>>
      BY <1>2 DEF InvoicePaid
    <2>5. (Return(h) /\ Answer(e)) \/ (Goto(h, "clearing") /\ UNCHANGED due)
      BY <1>2 DEF InvoicePaid
    <2>a. e = job[h].event
      OBVIOUS
    <2> HIDE DEF e, now, u
    <2>6. FilesOK' /\ FreshOK' /\ VersionOK' /\ ShownOK'
      BY <2>2, <2>3, <2>4, PlanWrite, SameParts
    <2>7. StripeOK' /\ TokensOK' /\ CountsOK'
      BY <1>0, <2>4, <2>5, AnswerOK, SameParts DEF StripeOK
    <2>8. CASE Return(h)
      <3>1. Turns' /\ JobsOK'
        BY <2>1, <2>8, IdleOK, TurnEnds DEF Return, RotStages
      <3> QED
        BY <2>6, <2>7, <3>1 DEF Inv, Typed
    <2>9. CASE Goto(h, "clearing")
      <3> DEFINE c == [job[h] EXCEPT !.stage = "clearing"]
      <3>1. JobOK(c) /\ c.stage \notin RotStages
        BY <1>0, <2>1, <2>a DEF JobOK, Job, HookStages, CallStages, RotStages, Stages
      <3>2. job' = [job EXCEPT ![h] = c]
        BY <1>0, <2>9 DEF Goto, JobsOK
      <3> HIDE DEF c
      <3>3. Turns' /\ JobsOK'
        BY <2>1, <3>1, <3>2, TurnEnds
      <3> QED
        BY <2>6, <2>7, <3>3 DEF Inv, Typed
    <2> QED
      BY <2>5, <2>8, <2>9
  <1>3. CASE SyncKey(h, ok)
    <2>1. job[h].stage \in InTurn /\ Return(h) /\ UNCHANGED <<stripe, tokenVars, charged, uncounted, crashes, apiErrors>>
      BY <1>3 DEF SyncKey, At, InTurn
    <2>2. Turns' /\ JobsOK'
      BY <2>1, IdleOK, TurnEnds DEF Return, RotStages
    <2>3. StripeOK' /\ TokensOK' /\ CountsOK'
      BY <1>0, <1>3, <2>1, AnswerOK, SameParts DEF SyncKey
    <2>4. FilesOK' /\ FreshOK' /\ VersionOK' /\ ShownOK'
      <3>1. CASE UNCHANGED fileVars
        BY <2>1, <3>1, SameParts
      <3>2. CASE Live(user.key) /\ WriteStore([keys EXCEPT ![user.key].tier = user.tier], usage, ok)
        <4> DEFINE k == [keys EXCEPT ![user.key].tier = user.tier]
        <4>1. k \in [Keys -> Key] /\ usage \in [Keys -> [Periods -> Nat]]
          BY <1>0, <3>2 DEF FilesOK, MemOK, Live, Key, User
        <4>2. \A x \in shown : k[x].state = keys[x].state
          BY <1>0, InvParts DEF TokensOK, FilesOK, MemOK, Key
        <4> HIDE DEF k
        <4>3. WriteStore(k, usage, ok) /\ UNCHANGED <<shown, revoked, crashes>>
          BY <2>1, <3>2 DEF k, tokenVars
        <4> QED
          BY <1>0, <4>1, <4>2, <4>3, WriteStoreOK, StoreKeeps
      <3> QED
        BY <1>3, <3>1, <3>2 DEF SyncKey
    <2> QED
      BY <2>2, <2>3, <2>4 DEF Inv, Typed
  <1> QED
    BY <1>1, <1>2, <1>3, WebhookUpdates

-----------------------------------------------------------------------------
(***************************************************************************)
(* Sign-up and rotation.                                                   *)
(***************************************************************************)
\* The parts of the invariant after a step of a rotation.
LEMMA RotationStep ==
    ASSUME Inv, NEW h \in Handlers, Quiet \/ job[h].stage \in InTurn,
           UNCHANGED <<stripeVars, charged, uncounted, crashes, apiErrors>>,
           FilesOK', FreshOK', VersionOK', ShownOK', TokensOK',
           NEW c, JobOK(c), job' = [job EXCEPT ![h] = c],
           c.stage \notin RotStages \/ TurnOK(h)'
    PROVE  Inv'
  <1>1. StripeOK' /\ CountsOK'
    BY SameParts
  <1>2. JobsOK' /\ job'[h] = c /\ \A g \in Handlers \ {h} : job'[g] = job[g]
    BY JobChanges DEF Inv, Typed
  <1>3. c.stage \notin RotStages => TurnOK(h)'
    BY <1>2 DEF TurnOK, RotStages
  <1>4. Turns'
    BY <1>2, <1>3, TurnOfOne
  <1> QED
    BY <1>1, <1>2, <1>4 DEF Inv, Typed

\* The sign-up keeps the invariant.
LEMMA SignUpOK ==
    ASSUME Inv, NEW h \in Handlers, NEW ok \in BOOLEAN, SignUp(h, ok)
    PROVE  Inv'
  <1> DEFINE u == [NoUser EXCEPT !.known = TRUE]
             c == [Idle EXCEPT !.stage = "keying"]
  <1>0. FilesOK /\ JobOK(job[h]) /\ job[h] = Idle /\ job \in [Handlers -> Job] /\ Quiet
    BY InvParts DEF SignUp, At, JobOK, JobsOK
  <1>1. u \in User /\ u.version = 1 /\ u.key = NoKey /\ u.known
    BY NoUserIsUser DEF User, NoUser
  <1>2. user.version = 1 /\ user.key = NoKey /\ user \in User
    BY InvParts DEF SignUp, FreshOK, Fresh
  <1>3. WriteUser(u, ok) /\ UNCHANGED <<stripeVars, tokenVars, charged, uncounted, crashes, apiErrors>>
    BY DEF SignUp
  <1>4. JobOK(c) /\ c.stage = "keying" /\ c.old = NoKey /\ ~c.rotating
    BY IdleOK DEF JobOK, Job, Idle, HookStages, CallStages, Stages
  <1>5. job' = job \/ job' = [job EXCEPT ![h] = c]
    BY <1>0 DEF SignUp, Goto
  <1>6. UNCHANGED <<shown, revoked, crashes>>
    BY <1>3 DEF tokenVars
  <1> HIDE DEF u, c
  <1>7. FilesOK' /\ user' = u
    BY <1>0, <1>1, <1>3, WriteUserOK
  <1>8. FreshOK' /\ VersionOK' /\ ShownOK' /\ TokensOK'
    BY <1>1, <1>2, <1>3, <1>6, WriteFresh, WriteVersion, WriteShown, SameParts DEF Fresh
  <1>9. CASE job' = job
    <2>1. job' = [job EXCEPT ![h] = Idle]
      BY <1>0, <1>9
    <2> QED
      BY <1>0, <1>3, <1>7, <1>8, <2>1, IdleOK, RotationStep DEF RotStages
  <1>10. CASE job' = [job EXCEPT ![h] = c]
    <2>1. job'[h] = c
      BY <1>0, <1>10
    <2>2. TurnOK(h)'
      BY <1>1, <1>4, <1>7, <2>1 DEF TurnOK, RotStages
    <2> QED
      BY <1>0, <1>3, <1>4, <1>7, <1>8, <1>10, <2>2, RotationStep
  <1> QED
    BY <1>5, <1>9, <1>10

\* A rotation that begins keeps the invariant.
LEMMA RotateOK ==
    ASSUME Inv, NEW h \in Handlers, Rotate(h)
    PROVE  Inv'
  <1> DEFINE c == [Idle EXCEPT !.stage = "keying", !.rotating = TRUE, !.old = user.key]
  <1>1. job \in [Handlers -> Job] /\ user \in User /\ Quiet
    BY InvParts DEF Rotate, JobsOK
  <1>2. JobOK(c) /\ c.stage = "keying" /\ c.old = user.key
    BY <1>1, IdleOK DEF JobOK, Job, Idle, HookStages, CallStages, Stages, User
  <1>3. job' = [job EXCEPT ![h] = c] /\ UNCHANGED <<fileVars, stripeVars, tokenVars, charged, uncounted, crashes, apiErrors>>
    BY DEF Rotate
  <1> HIDE DEF c
  <1>4. FilesOK' /\ FreshOK' /\ VersionOK' /\ ShownOK' /\ TokensOK'
    BY <1>3, SameParts
  <1>5. TurnOK(h)'
    BY <1>1, <1>2, <1>3 DEF TurnOK, RotStages, Rotate, fileVars
  <1> QED
    BY <1>1, <1>2, <1>3, <1>4, <1>5, RotationStep

\* What a handler in a rotation knows.
LEMMA InRotation ==
    ASSUME Inv, NEW h \in Handlers, job[h].stage \in RotStages
    PROVE  /\ job[h].stage \in InTurn /\ JobOK(job[h]) /\ job[h] \in Job /\ TurnOK(h)
           /\ user.known /\ job[h].old = user.key
  BY InvParts DEF RotStages, InTurn, TurnOK

\* The new key of a rotation, whether its write throws or not.
LEMMA CreateKeyOK ==
    ASSUME Inv, NEW h \in Handlers, NEW k \in Keys, NEW ok \in BOOLEAN, CreateKey(h, k, ok)
    PROVE  Inv'
  <1> DEFINE ks == [keys EXCEPT ![k] = [state |-> "live", tier |-> user.tier]]
             c  == [job[h] EXCEPT !.new = k,
                                  !.stage = IF job[h].old = NoKey THEN "linking" ELSE "moving"]
  <1>0. /\ FilesOK /\ JobsOK /\ TokensOK /\ ShownOK /\ user \in User /\ keys \in [Keys -> Key]
        /\ usage \in [Keys -> [Periods -> Nat]] /\ job \in [Handlers -> Job]
    BY InvParts DEF JobsOK
  <1>1. job[h].stage = "keying" /\ keys[k].state = "none"
    BY DEF CreateKey, At
  <1>2. /\ job[h].stage \in InTurn /\ JobOK(job[h]) /\ job[h] \in Job /\ TurnOK(h)
        /\ user.known /\ job[h].old = user.key
    BY <1>1, InRotation DEF RotStages
  <1>3. ks \in [Keys -> Key] /\ ks[k].state = "live" /\ \A x \in Keys \ {k} : ks[x] = keys[x]
    BY <1>0 DEF Key, User
  <1>4. k \notin shown
    BY <1>0, <1>1 DEF ShownOK
  <1>5. JobOK(c) /\ c.new = k /\ c.old = job[h].old /\ c.rotating = job[h].rotating
        /\ c.stage = IF job[h].old = NoKey THEN "linking" ELSE "moving"
    BY <1>1, <1>2 DEF JobOK, Job, HookStages, CallStages, Stages
  <1>6. /\ WriteStore(ks, usage, ok)
        /\ UNCHANGED <<stripeVars, tokenVars, charged, uncounted, crashes, apiErrors>>
        /\ IF ok THEN job' = [job EXCEPT ![h] = c] ELSE job' = [job EXCEPT ![h] = Idle]
    BY <1>0 DEF CreateKey, Return
  <1>7. UNCHANGED <<shown, revoked, crashes>>
    BY <1>6 DEF tokenVars
  <1> HIDE DEF ks, c
  <1>8. /\ FilesOK' /\ user' = user /\ keys' = ks /\ disk'.user = disk.user
        /\ ok => disk'.keys = ks
    BY <1>0, <1>3, <1>6, WriteStoreOK
  <1>9. \A x \in shown : ks[x].state = keys[x].state
    BY <1>0, <1>3, <1>4 DEF TokensOK
  <1>10. FreshOK' /\ VersionOK' /\ ShownOK' /\ TokensOK'
    BY <1>0, <1>3, <1>6, <1>7, <1>9, StoreKeeps, SameParts
  <1>11. CASE ~ok
    BY <1>2, <1>6, <1>8, <1>10, <1>11, IdleOK, RotationStep DEF RotStages
  <1>12. CASE ok
    <2>1. job'[h] = c /\ disk'.keys = keys' /\ keys'[c.new].state # "none"
      BY <1>0, <1>3, <1>5, <1>6, <1>8, <1>12
    <2>2. job[h].rotating => user.version < MaxVersion
      BY <1>1, <1>2 DEF TurnOK, RotStages
    <2>3. job[h].old = NoKey => \A x \in shown : ~Live1(x)'
      <3>1. \A x \in shown : x # NoKey
        BY <1>0, AccountAssumption DEF TokensOK
      <3>2. user'.key = user.key /\ shown' = shown
        BY <1>7, <1>8
      <3> QED
        BY <1>2, <1>10, <3>1, <3>2 DEF ShownOK
    <2>4. TurnOK(h)'
      BY <1>2, <1>5, <1>7, <1>8, <2>1, <2>2, <2>3 DEF TurnOK
    <2> QED
      BY <1>2, <1>5, <1>6, <1>8, <1>10, <1>12, <2>4, RotationStep
  <1> QED
    BY <1>11, <1>12

\* A step of the rotation that writes the usage.
LEMMA MoveUsageOK ==
    ASSUME Inv, NEW h \in Handlers, NEW ok \in BOOLEAN,
           MoveUsage(h, ok) \/ (~ok /\ CopyCountFails(h))
    PROVE  Inv'
  <1> DEFINE c == [job[h] EXCEPT !.stage = "deleting"]
  <1>0. /\ FilesOK /\ user \in User /\ keys \in [Keys -> Key]
        /\ usage \in [Keys -> [Periods -> Nat]] /\ job \in [Handlers -> Job]
    BY InvParts DEF JobsOK
  <1>1. job[h].stage = "moving"
    BY DEF MoveUsage, CopyCountFails, At
  <1>2. /\ job[h].stage \in InTurn /\ JobOK(job[h]) /\ job[h] \in Job /\ TurnOK(h)
        /\ user.known /\ job[h].old = user.key
    BY <1>1, InRotation DEF RotStages
  <1>3. job[h].old \in Keys /\ job[h].new \in Keys
    BY <1>1, <1>2 DEF JobOK
  <1>4. PICK u \in [Keys -> [Periods -> Nat]] : WriteStore(keys, u, ok)
    <2> DEFINE z == [n \in Periods |-> 0]
               a == [n \in Periods |-> usage[job[h].new][n] + usage[job[h].old][n]]
               u == [usage EXCEPT ![job[h].new] = a, ![job[h].old] = z]
    <2>1. u \in [Keys -> [Periods -> Nat]]
      <3>1. z \in [Periods -> Nat] /\ a \in [Periods -> Nat]
        BY <1>0, <1>3
      <3> HIDE DEF z, a
      <3> QED
        BY <1>0, <1>3, <3>1
    <2>2. CASE MoveUsage(h, ok)
      BY <2>1, <2>2 DEF MoveUsage
    <2>3. CASE ~ok /\ CopyCountFails(h)
      BY <1>0, <2>3 DEF CopyCountFails
    <2> QED
      BY <2>2, <2>3
  <1>5. /\ UNCHANGED <<stripeVars, tokenVars, charged, uncounted, crashes, apiErrors>>
        /\ IF ok THEN job' = [job EXCEPT ![h] = c] ELSE job' = [job EXCEPT ![h] = Idle]
    BY <1>0 DEF MoveUsage, CopyCountFails, Goto, Return
  <1>6. UNCHANGED <<shown, revoked, crashes>>
    BY <1>5 DEF tokenVars
  <1>7. JobOK(c) /\ c.new = job[h].new /\ c.old = job[h].old /\ c.rotating = job[h].rotating
        /\ c.stage = "deleting"
    BY <1>1, <1>2 DEF JobOK, Job, HookStages, CallStages, Stages
  <1> HIDE DEF c
  <1>8. /\ FilesOK' /\ user' = user /\ keys' = keys /\ disk'.user = disk.user
        /\ ok => disk'.keys = keys
    BY <1>0, <1>4, WriteStoreOK
  <1>9. FreshOK' /\ VersionOK' /\ ShownOK' /\ TokensOK'
    BY <1>0, <1>4, <1>5, <1>6, StoreKeeps, SameParts
  <1>10. CASE ~ok
    BY <1>2, <1>5, <1>8, <1>9, <1>10, IdleOK, RotationStep DEF RotStages
  <1>11. CASE ok
    <2>1. job'[h] = c
      BY <1>0, <1>5, <1>11
    <2>2. TurnOK(h)'
      BY <1>1, <1>2, <1>7, <1>8, <1>11, <2>1 DEF TurnOK, RotStages
    <2> QED
      BY <1>2, <1>5, <1>7, <1>8, <1>9, <1>11, <2>2, RotationStep
  <1> QED
    BY <1>10, <1>11

\* The old key is deleted: from here on no key that was handed out works.
LEMMA DeleteOldOK ==
    ASSUME Inv, NEW h \in Handlers, NEW ok \in BOOLEAN, DeleteOld(h, ok)
    PROVE  Inv'
  <1> DEFINE o  == job[h].old
             ks == [keys EXCEPT ![o].state = "deleted"]
             c  == [job[h] EXCEPT !.stage = "linking"]
  <1>0. /\ FilesOK /\ TokensOK /\ ShownOK /\ user \in User /\ keys \in [Keys -> Key]
        /\ usage \in [Keys -> [Periods -> Nat]] /\ job \in [Handlers -> Job]
    BY InvParts DEF JobsOK
  <1>1. job[h].stage = "deleting"
    BY DEF DeleteOld, At
  <1>2. /\ job[h].stage \in InTurn /\ JobOK(job[h]) /\ job[h] \in Job /\ TurnOK(h)
        /\ user.known /\ o = user.key
    BY <1>1, InRotation DEF RotStages
  <1>3. o \in Keys /\ job[h].new \in Keys /\ disk.keys = keys /\ keys[job[h].new].state # "none"
        /\ (job[h].rotating => user.version < MaxVersion)
    BY <1>1, <1>2 DEF JobOK, TurnOK, RotStages
  <1>4. ks \in [Keys -> Key] /\ ks[o].state = "deleted" /\ \A x \in Keys \ {o} : ks[x] = keys[x]
    BY <1>0, <1>3 DEF Key
  <1>5. /\ UNCHANGED <<stripeVars, tokenVars, charged, uncounted, crashes, apiErrors>>
        /\ IF ok THEN job' = [job EXCEPT ![h] = c] ELSE job' = [job EXCEPT ![h] = Idle]
    BY <1>0 DEF DeleteOld, Goto, Return
  <1>6. UNCHANGED <<shown, revoked, crashes>>
    BY <1>5 DEF tokenVars
  <1>7. JobOK(c) /\ c.new = job[h].new /\ c.old = o /\ c.rotating = job[h].rotating
        /\ c.stage = "linking"
    BY <1>1, <1>2 DEF JobOK, Job, HookStages, CallStages, Stages
  <1>8. \/ Live(o) /\ WriteStore(ks, usage, ok)
        \/ ~Live(o) /\ ok /\ UNCHANGED fileVars
    BY DEF DeleteOld
  <1>a. o = job[h].old
    OBVIOUS
  <1> HIDE DEF o, ks, c
  <1>9. FilesOK' /\ FreshOK' /\ VersionOK' /\ ShownOK' /\ TokensOK'
    <2>1. \A x \in shown : ks[x].state = keys[x].state \/ ks[x].state = "deleted"
      BY <1>0, <1>4 DEF TokensOK
    <2> QED
      BY <1>0, <1>4, <1>5, <1>6, <1>8, <2>1, WriteStoreOK, StoreKeeps, SameParts
  <1>10. ok => /\ keys' \in {keys, ks} /\ user' = user /\ disk'.keys = keys' /\ keys'[o].state # "live"
    <2>1. CASE Live(o) /\ WriteStore(ks, usage, ok)
      BY <1>0, <1>4, <2>1, WriteStoreOK
    <2>2. CASE ~Live(o) /\ UNCHANGED fileVars
      BY <1>3, <2>2 DEF Live, fileVars
    <2> QED
      BY <1>8, <2>1, <2>2
  <1>11. CASE ~ok
    BY <1>2, <1>5, <1>9, <1>11, IdleOK, RotationStep DEF RotStages
  <1>12. CASE ok
    <2>1. job'[h] = c
      BY <1>0, <1>5, <1>12
    <2>2. \A x \in shown' : ~Live1(x)'
      BY <1>2, <1>9, <1>10, <1>12 DEF ShownOK, Live1
    <2>3. keys'[c.new].state # "none"
      BY <1>3, <1>4, <1>7, <1>10, <1>12
    <2>4. TurnOK(h)'
      BY <1>2, <1>3, <1>7, <1>10, <1>12, <2>1, <2>2, <2>3 DEF TurnOK, RotStages
    <2> QED
      BY <1>2, <1>5, <1>7, <1>9, <1>12, <2>4, RotationStep
  <1> QED
    BY <1>11, <1>12

\* The new key is linked to the user and handed out.
LEMMA LinkOK ==
    ASSUME Inv, NEW h \in Handlers, NEW ok \in BOOLEAN, Link(h, ok)
    PROVE  Inv'
  <1> DEFINE n == job[h].new
             v == IF job[h].rotating THEN user.version + 1 ELSE user.version
             u == [user EXCEPT !.key = n, !.version = v]
  <1>0. /\ FilesOK /\ TokensOK /\ ShownOK /\ FreshOK /\ user \in User
        /\ user.version \in Nat /\ MaxVersion \in Nat
    BY InvParts, AccountAssumption DEF User
  <1>1. job[h].stage = "linking"
    BY DEF Link, At
  <1>2. /\ job[h].stage \in InTurn /\ JobOK(job[h]) /\ job[h] \in Job /\ TurnOK(h)
        /\ user.known
    BY <1>1, InRotation DEF RotStages
  <1>3. /\ n \in Keys /\ disk.keys = keys /\ keys[n].state # "none"
        /\ job[h].rotating \in BOOLEAN /\ (job[h].rotating => user.version < MaxVersion)
        /\ \A k \in shown : ~Live1(k)
    BY <1>1, <1>2 DEF JobOK, TurnOK, RotStages, Job
  <1>4. v \in 1..MaxVersion /\ v >= user.version /\ (job[h].rotating => v > user.version)
    BY <1>0, <1>3 DEF User
  <1>5. u \in User /\ u.version = v /\ u.key = n /\ u.known
    BY <1>0, <1>2, <1>3, <1>4 DEF User
  <1>6. WriteUser(u, ok)
    BY DEF Link
  <1>7. /\ UNCHANGED <<stripeVars, charged, uncounted, crashes, apiErrors>>
        /\ job' = [job EXCEPT ![h] = Idle]
    BY DEF Link, Return
  <1>8. /\ shown' = shown \/ (ok /\ shown' = shown \cup {n})
        /\ revoked' = revoked \/ (job[h].rotating /\ revoked' = user.version)
    BY DEF Link, tokenVars
  <1> HIDE DEF n, v, u
  <1>9. /\ FilesOK' /\ user' = u /\ keys' = keys /\ disk'.keys = disk.keys
        /\ disk'.user = IF ok THEN u ELSE disk.user
    BY <1>0, <1>5, <1>6, WriteUserOK
  <1>10. FreshOK' /\ VersionOK'
    BY <1>4, <1>5, <1>6, <1>7, <1>8, WriteFresh, WriteVersion DEF Fresh
  <1>11. ShownOK'
    BY <1>0, <1>3, <1>5, <1>8, <1>9 DEF ShownOK, Live1
  <1>12. TokensOK'
    <2>1. user.version \in 0..MaxVersion
      BY <1>0 DEF User
    <2> QED
      BY <1>0, <1>3, <1>8, <2>1 DEF TokensOK
  <1> QED
    BY <1>2, <1>7, <1>9, <1>10, <1>11, <1>12, IdleOK, RotationStep DEF RotStages

\* The end of all sessions makes the version larger than the one it ends.
LEMMA RevokeOK ==
    ASSUME Inv, NEW ok \in BOOLEAN, Revoke(ok)
    PROVE  Inv'
  <1> DEFINE v == user.version + 1
             u == [user EXCEPT !.version = v]
  <1>0. FilesOK /\ JobsOK /\ TokensOK /\ FreshOK /\ user \in User /\ user.known /\ Turns
    BY InvParts DEF Revoke, Turns
  <1>1. v \in 1..MaxVersion /\ v > user.version /\ user.version \in 0..MaxVersion
    BY <1>0, AccountAssumption DEF Revoke, User
  <1>2. u \in User /\ u.version = v /\ u.key = user.key /\ u.known
    BY <1>0, <1>1 DEF User
  <1>3. WriteUser(u, ok) /\ UNCHANGED <<job, stripeVars, shown, charged, uncounted, crashes, apiErrors>>
    BY DEF Revoke
  <1>4. revoked' = revoked \/ revoked' = user.version
    BY DEF Revoke
  <1>5. v >= user.version
    BY <1>0, <1>1 DEF User
  <1> HIDE DEF v, u
  <1>6. FilesOK'
    BY <1>0, <1>2, <1>3, WriteUserOK
  <1>7. FreshOK' /\ VersionOK' /\ ShownOK'
    BY <1>1, <1>2, <1>3, <1>4, <1>5, WriteFresh, WriteVersion, WriteShown DEF Fresh
  <1>8. JobsOK' /\ StripeOK' /\ CountsOK'
    BY <1>0, <1>3, SameParts DEF JobsOK
  <1>9. TokensOK'
    BY <1>0, <1>1, <1>3, <1>4 DEF TokensOK
  <1>10. Turns'
    <2>1. \A g \in Handlers : job'[g].stage \notin InTurn
      BY <1>3 DEF Revoke, Quiet
    <2> QED
      BY <2>1 DEF Turns, OneTurn, TurnOK, InTurn, RotStages
  <1> QED
    BY <1>6, <1>7, <1>8, <1>9, <1>10 DEF Inv, Typed

-----------------------------------------------------------------------------
(***************************************************************************)
(* Stripe's side, the calls, and crashes.                                  *)
(***************************************************************************)
LEMMA HappensOK ==
    ASSUME Inv, NEW s \in Subs, NEW now \in Subscription, NEW kinds \in Seq(Kinds),
           Happens(s, now, kinds)
    PROVE  Inv'
  <1> DEFINE more == [i \in DOMAIN kinds |-> [kind |-> kinds[i], sub |-> s, now |-> now]]
  <1>1. more \in Seq(Event) /\ Len(more) = Len(kinds)
    <2>1. DOMAIN kinds = 1..Len(kinds) /\ Len(kinds) \in Nat
      BY LenProperties
    <2>2. \A i \in 1..Len(kinds) : kinds[i] \in Kinds
      BY ElementOfSeq
    <2>3. \A i \in 1..Len(kinds) : [kind |-> kinds[i], sub |-> s, now |-> now] \in Event
      BY <2>2 DEF Event
    <2>4. more \in [1..Len(kinds) -> Event]
      BY <2>1, <2>3
    <2> HIDE DEF more
    <2> QED
      BY <2>1, <2>4, SeqDef, LenProperties
  <1>2. StripeOK'
    <2>1. due \in Seq(Event) /\ stripe \in [Subs -> Subscription]
      BY DEF Inv, Typed, StripeOK
    <2>2. due' = due \o more /\ stripe' = [stripe EXCEPT ![s] = now] /\ Len(due) + Len(kinds) <= MaxDue
      BY DEF Happens
    <2> HIDE DEF more
    <2>3. due' \in Seq(Event) /\ Len(due') = Len(due) + Len(kinds)
      BY <1>1, <2>1, <2>2, ConcatProperties
    <2>4. stripe' \in [Subs -> Subscription]
      BY <2>1, <2>2
    <2> QED
      BY <2>2, <2>3, <2>4 DEF StripeOK
  <1>3. UNCHANGED <<fileVars, job, tokenVars, charged, uncounted, crashes, apiErrors>>
    BY DEF Happens
  <1>4. FilesOK' /\ FreshOK' /\ VersionOK' /\ ShownOK' /\ TokensOK' /\ CountsOK'
    BY <1>3, SameParts
  <1>5. JobsOK' /\ Turns'
    BY <1>3 DEF Inv, Typed, JobsOK, Turns, OneTurn, TurnOK, Live1, fileVars, tokenVars
  <1> QED
    BY <1>2, <1>4, <1>5 DEF Inv, Typed

\* What the subscriber does at Stripe changes no file.
LEMMA SubscriberOK ==
    ASSUME Inv, Subscriber
    PROVE  Inv'
  <1>0. /\ stripe \in [Subs -> Subscription] /\ MaxPeriod \in Nat \ {0}
        /\ \A k \in Kinds : <<k>> \in Seq(Kinds)
        /\ \A k, l \in Kinds : <<k, l>> \in Seq(Kinds)
    BY InvParts, AccountAssumption DEF StripeOK
  <1>1. ASSUME NEW s \in Subs, NEW p \in Plans, Checkout(s, p) \/ ChangePlan(s, p)
        PROVE  Inv'
    <2>1. /\ [state |-> "active", plan |-> p, period |-> 1] \in Subscription
          /\ [stripe[s] EXCEPT !.plan = p] \in Subscription
      BY <1>0 DEF Subscription, Status, Tiers, Periods
    <2> QED
      BY <1>0, <1>1, <2>1, HappensOK DEF Checkout, ChangePlan, Kinds
  <1>2. ASSUME NEW s \in Subs, FailPayment(s) \/ Recover(s) \/ Cancel(s)
        PROVE  Inv'
    <2>1. \A x \in Status : [stripe[s] EXCEPT !.state = x] \in Subscription
      BY <1>0 DEF Subscription
    <2> QED
      BY <1>0, <1>2, <2>1, HappensOK DEF FailPayment, Recover, Cancel, Kinds, Status
  <1>3. ASSUME NEW s \in Subs, Renew(s)
        PROVE  Inv'
    <2>1. stripe[s].period + 1 \in Periods
      BY <1>0, <1>3 DEF Renew, Subscription, Periods
    <2>2. [stripe[s] EXCEPT !.period = stripe[s].period + 1] \in Subscription
      BY <1>0, <2>1 DEF Subscription
    <2> QED
      BY <1>0, <1>3, <2>2, HappensOK DEF Renew, Kinds
  <1> QED
    BY <1>1, <1>2, <1>3 DEF Subscriber

\* An event that is answered without effect keeps the invariant.
LEMMA IgnoreOK ==
    ASSUME Inv, NEW h \in Handlers, NEW e \in ToSet(due), Ignore(h, e)
    PROVE  Inv'
  <1>1. UNCHANGED <<fileVars, job, stripe, tokenVars, charged, uncounted, crashes, apiErrors>> /\ Answer(e)
    BY DEF Ignore
  <1>2. FilesOK' /\ FreshOK' /\ VersionOK' /\ ShownOK' /\ TokensOK' /\ CountsOK'
    BY <1>1, SameParts
  <1>3. StripeOK'
    BY <1>1, InvParts, AnswerOK
  <1>4. JobsOK' /\ Turns'
    BY <1>1 DEF Inv, Typed, JobsOK, Turns, OneTurn, TurnOK, Live1, fileVars, tokenVars
  <1> QED
    BY <1>2, <1>3, <1>4 DEF Inv, Typed

\* A step of a handler that is in no rotation and writes no file, or only the
\* usage, or the user as it is.
LEMMA HandlerStep ==
    ASSUME Inv, NEW h \in Handlers, Quiet \/ job[h].stage \in InTurn,
           \/ UNCHANGED fileVars
           \/ \E ok \in BOOLEAN, u \in [Keys -> [Periods -> Nat]] : WriteStore(keys, u, ok)
           \/ \E ok \in BOOLEAN : WriteUser(user, ok),
           UNCHANGED <<tokenVars, crashes>>, StripeOK', CountsOK',
           NEW c, JobOK(c), job' = [job EXCEPT ![h] = c], c.stage \notin RotStages
    PROVE  Inv'
  <1>1. JobsOK' /\ Turns' /\ TokensOK'
    BY TurnEnds, SameParts
  <1>2. FilesOK' /\ FreshOK' /\ VersionOK' /\ ShownOK'
    <2>1. CASE UNCHANGED fileVars
      BY <2>1, SameParts
    <2>2. ASSUME NEW ok \in BOOLEAN, NEW u \in [Keys -> [Periods -> Nat]], WriteStore(keys, u, ok)
          PROVE  FilesOK' /\ FreshOK' /\ VersionOK' /\ ShownOK'
      <3>1. keys \in [Keys -> Key] /\ FilesOK
        BY InvParts
      <3> QED
        BY <2>2, <3>1, WriteStoreOK, StoreKeeps DEF tokenVars
    <2>3. ASSUME NEW ok \in BOOLEAN, WriteUser(user, ok)
          PROVE  FilesOK' /\ FreshOK' /\ VersionOK' /\ ShownOK'
      <3>1. SamePerson(user)
        BY InvParts DEF SamePerson
      <3> QED
        BY <2>3, <3>1, PlanWrite
    <2> QED
      BY <2>1, <2>2, <2>3
  <1> QED
    BY <1>1, <1>2 DEF Inv, Typed

\* A call that goes on to give its slot back.
LEMMA CallGoes ==
    ASSUME Inv, NEW h \in Handlers, job[h].stage \in {"submitting", "failing", "releasing"},
           NEW stage \in {"failing", "releasing", "unwinding"}, Goto(h, stage)
    PROVE  \E c : /\ JobOK(c) /\ c.stage = stage /\ c.event = job[h].event
                  /\ c.holds = job[h].holds /\ c.period = job[h].period
                  /\ job' = [job EXCEPT ![h] = c]
  <1> DEFINE c == [job[h] EXCEPT !.stage = stage]
  <1>1. JobOK(job[h]) /\ job[h] \in Job /\ job \in [Handlers -> Job]
    BY InvParts DEF JobsOK
  <1>2. /\ c.stage = stage /\ c.event = job[h].event /\ c.holds = job[h].holds
        /\ c.period = job[h].period /\ c.old = job[h].old
    BY <1>1 DEF Job
  <1>3. JobOK(c)
    BY <1>1 DEF JobOK, Job, HookStages, CallStages, Stages
  <1>4. job' = [job EXCEPT ![h] = c]
    BY <1>1 DEF Goto
  <1> HIDE DEF c
  <1> QED
    BY <1>2, <1>3, <1>4

\* Steps that wait for Stripe, FDC or the file keep the invariant.
LEMMA WaitOK ==
    ASSUME Inv, NEW h \in Handlers, Wait(h)
    PROVE  Inv'
  <1>0. /\ user \in User /\ keys \in [Keys -> Key] /\ usage \in [Keys -> [Periods -> Nat]]
        /\ JobOK(job[h]) /\ job[h] \in Job /\ StripeOK /\ CountsOK /\ job \in [Handlers -> Job]
    BY InvParts DEF JobsOK
  <1>1. ASSUME NEW e \in ToSet(due), Ignore(h, e)
        PROVE  Inv'
    BY <1>1, IgnoreOK
  <1>2. ASSUME NEW e \in ToSet(due), Retrieve(h, e)
        PROVE  Inv'
    <2> DEFINE seen == IF e.kind = "checkout" THEN Idle.seen
                       ELSE [status |-> user.status, period |-> user.period]
               c    == [Idle EXCEPT !.stage = "retrieving", !.event = e, !.seen = seen]
    <2>1. seen \in Seen
      BY <1>0, IdleOK DEF Seen, Job, User
    <2>2. e \in Event
      BY DueEvent
    <2>3. /\ job' = [job EXCEPT ![h] = c] /\ Quiet
          /\ UNCHANGED <<fileVars, stripeVars, tokenVars, charged, uncounted, crashes, apiErrors>>
      BY <1>2 DEF Retrieve, Delivered
    <2> HIDE DEF seen
    <2>4. JobOK(c) /\ c.stage \notin RotStages
      BY <2>1, <2>2, NewJobs DEF HookStages
    <2> HIDE DEF c
    <2> QED
      BY <2>3, <2>4, SameParts, HandlerStep
  <1>3. CASE Rotate(h)
    BY <1>3, RotateOK
  <1>4. CASE RetrieveFails(h)
    <2>1. /\ Quiet /\ UNCHANGED <<fileVars, stripe, tokenVars, charged, uncounted, crashes>>
          /\ CountsOK'
      BY <1>0, <1>4, AccountAssumption DEF RetrieveFails, CountsOK
    <2>2. CASE Goto(h, "clearing") /\ UNCHANGED due
      <3> DEFINE c == [job[h] EXCEPT !.stage = "clearing"]
      <3>1. JobOK(c) /\ c.stage \notin RotStages
        BY <1>0, <1>4 DEF RetrieveFails, At, JobOK, Job, HookStages, CallStages, RotStages, Stages
      <3>2. job' = [job EXCEPT ![h] = c]
        BY <1>0, <2>2 DEF Goto
      <3>3. StripeOK'
        BY <2>1, <2>2, SameParts DEF stripeVars
      <3> HIDE DEF c
      <3> QED
        BY <2>1, <3>1, <3>2, <3>3, HandlerStep
    <2>3. CASE Return(h) /\ Answer(job[h].event)
      <3>1. StripeOK'
        BY <1>0, <2>1, <2>3, AnswerOK
      <3> QED
        BY <2>1, <2>3, <3>1, IdleOK, HandlerStep DEF Return, RotStages
    <2> QED
      BY <1>4, <2>2, <2>3 DEF RetrieveFails
  <1>5. CASE Ask(h)
    <2> DEFINE c == [Idle EXCEPT !.stage = "checking", !.old = user.key]
    <2>1. JobOK(c) /\ c.stage \notin RotStages
      <3>1. user.key \in Keys
        BY <1>0, <1>5 DEF Ask, Live
      <3>2. Idle \in Job
        BY IdleOK DEF JobOK
      <3>3. c \in Job /\ c.stage = "checking" /\ c.old = user.key /\ ~c.holds
        BY <3>1, <3>2 DEF Job, Idle, Stages
      <3> HIDE DEF c
      <3> QED
        BY <3>1, <3>3 DEF JobOK, HookStages, CallStages, RotStages
    <2>2. /\ job' = [job EXCEPT ![h] = c] /\ Quiet
          /\ UNCHANGED <<fileVars, stripeVars, tokenVars, charged, uncounted, crashes, apiErrors>>
      BY <1>5 DEF Ask
    <2> HIDE DEF c
    <2> QED
      BY <2>1, <2>2, SameParts, HandlerStep
  <1>6. CASE SubmitFails(h)
    <2>1. Quiet /\ UNCHANGED <<fileVars, stripeVars, tokenVars, charged, uncounted, crashes, apiErrors>>
      BY <1>6 DEF SubmitFails
    <2>2. job[h].stage = "submitting"
      BY <1>6 DEF SubmitFails, At
    <2>3. PICK c : JobOK(c) /\ c.stage \notin RotStages /\ job' = [job EXCEPT ![h] = c]
      BY <1>0, <1>6, <2>2, CallGoes DEF SubmitFails, RotStages
    <2> QED
      BY <2>1, <2>3, SameParts, HandlerStep
  <1> QED
    BY <1>1, <1>2, <1>3, <1>4, <1>5, <1>6 DEF Wait

(***************************************************************************)
(* Calls.  What a step of one may do to the files and to its handler.      *)
(***************************************************************************)
CallWrites(ok) ==
    \/ UNCHANGED fileVars
    \/ \E u \in [Keys -> [Periods -> Nat]] : WriteStore(keys, u, ok)
    \/ WriteUser(user, ok)

CallTurn(h) ==
    /\ Quiet \/ job[h].stage \in InTurn
    /\ job[h].stage \in CallStages
    /\ UNCHANGED <<stripeVars, tokenVars, crashes, apiErrors>>
    /\ charged' \in [Periods -> Nat] /\ uncounted' \in [Periods -> Nat]

CallMoves(h) ==
    \E c : /\ JobOK(c) /\ c.event \in {NoEvent, job[h].event}
           /\ c.stage \in CallStages \cup {"idle"}
           /\ job' = [job EXCEPT ![h] = c]

\* A call that ends is idle.
LEMMA CallReturns ==
    ASSUME NEW h \in Handlers, Return(h)
    PROVE  CallMoves(h)
  <1>1. Idle.event = NoEvent
    BY DEF Idle
  <1> QED
    BY <1>1, IdleOK DEF CallMoves, Return

\* One that goes on has its types.
LEMMA CallMovesOn ==
    ASSUME Inv, NEW h \in Handlers, job[h].stage \in {"submitting", "failing", "releasing"},
           NEW stage \in {"failing", "releasing", "unwinding"}, Goto(h, stage)
    PROVE  CallMoves(h)
  <1>1. JobOK(job[h])
    BY InvParts
  <1>2. PICK c : /\ JobOK(c) /\ c.stage = stage /\ c.event = job[h].event
                 /\ job' = [job EXCEPT ![h] = c]
    BY <1>1, CallGoes
  <1> QED
    BY <1>2 DEF CallMoves, CallStages

\* A slot is asked for.
LEMMA ReserveStep ==
    ASSUME Inv, NEW h \in Handlers, NEW ok \in BOOLEAN, Reserve(h, ok)
    PROVE  CallTurn(h) /\ CallWrites(ok) /\ CallMoves(h)
  <1> DEFINE k == job[h].old
             n == PeriodOf(k)
             c == [job[h] EXCEPT !.stage = "submitting", !.holds = TRUE, !.period = n]
             v == usage[k][n] + 1
             u == [usage EXCEPT ![k][n] = v]
  <1>0. /\ user \in User /\ usage \in [Keys -> [Periods -> Nat]] /\ CountsOK
        /\ JobOK(job[h]) /\ job[h] \in Job /\ job \in [Handlers -> Job]
    BY InvParts DEF JobsOK
  <1>1. job[h].stage = "checking" /\ Quiet
    BY DEF Reserve, At
  <1>2. k \in Keys /\ n \in Periods
    BY <1>0, <1>1, AccountAssumption DEF JobOK, CallStages, PeriodOf, User, Periods
  <1>3. CallTurn(h)
    BY <1>0, <1>1 DEF Reserve, CallTurn, CallStages, CountsOK
  <1>4. v \in Nat /\ u \in [Keys -> [Periods -> Nat]]
    BY <1>0, <1>2
  <1>5. JobOK(c) /\ c.stage = "submitting" /\ c.event = job[h].event
    BY <1>0, <1>1, <1>2 DEF JobOK, Job, HookStages, CallStages, Stages
  <1>6. \/ WriteStore(keys, u, ok) /\ (job' = [job EXCEPT ![h] = c] \/ Return(h))
        \/ UNCHANGED fileVars /\ Return(h)
    BY <1>0 DEF Reserve
  <1> HIDE DEF k, n, c, v, u
  <1>7. CallWrites(ok)
    BY <1>4, <1>6 DEF CallWrites
  <1>8. CallMoves(h)
    BY <1>5, <1>6, CallReturns DEF CallMoves, CallStages
  <1> QED
    BY <1>3, <1>7, <1>8

\* The submission passes.
LEMMA PassStep ==
    ASSUME Inv, NEW h \in Handlers, NEW ok \in BOOLEAN, SubmitPasses(h, ok)
    PROVE  CallTurn(h) /\ CallWrites(ok) /\ CallMoves(h)
  <1> DEFINE stage == IF ok THEN "listing" ELSE "failing"
             c == [job[h] EXCEPT !.stage = stage, !.holds = FALSE]
  <1>0. /\ usage \in [Keys -> [Periods -> Nat]] /\ CountsOK
        /\ JobOK(job[h]) /\ job[h] \in Job /\ job \in [Handlers -> Job]
    BY InvParts DEF JobsOK
  <1>1. job[h].stage = "submitting" /\ Quiet /\ job[h].period \in Periods
    BY <1>0 DEF SubmitPasses, At, Job
  <1>2. charged' \in [Periods -> Nat]
    BY <1>0, <1>1 DEF SubmitPasses, CountsOK
  <1>3. CallTurn(h)
    BY <1>0, <1>1, <1>2 DEF SubmitPasses, CallTurn, CallStages, CountsOK
  <1>4. CallWrites(ok)
    BY <1>0 DEF SubmitPasses, CallWrites
  <1>5. stage \in {"listing", "failing"}
    OBVIOUS
  <1>6. job' = [job EXCEPT ![h] = c]
    BY <1>0 DEF SubmitPasses
  <1> HIDE DEF stage
  <1>7. JobOK(c) /\ c.stage = stage /\ c.event = job[h].event
    BY <1>0, <1>1, <1>5 DEF JobOK, Job, HookStages, CallStages, Stages
  <1> HIDE DEF c
  <1>8. CallMoves(h)
    BY <1>5, <1>6, <1>7 DEF CallMoves, CallStages
  <1> QED
    BY <1>3, <1>4, <1>8

\* The receipt is added.
LEMMA ReceiptStep ==
    ASSUME Inv, NEW h \in Handlers, NEW ok \in BOOLEAN, AddReceipt(h, ok)
    PROVE  CallTurn(h) /\ CallWrites(ok) /\ CallMoves(h)
  <1> DEFINE c == [job[h] EXCEPT !.stage = "unwinding"]
  <1>0. CountsOK /\ JobOK(job[h]) /\ job[h] \in Job /\ job \in [Handlers -> Job]
    BY InvParts DEF JobsOK
  <1>1. job[h].stage = "listing"
    BY DEF AddReceipt, At
  <1>2. CallTurn(h)
    BY <1>0, <1>1 DEF AddReceipt, CallTurn, CallStages, InTurn, CountsOK
  <1>3. CallWrites(ok)
    BY DEF AddReceipt, CallWrites
  <1>4. JobOK(c) /\ c.stage = "unwinding" /\ c.event = job[h].event
    BY <1>0, <1>1 DEF JobOK, Job, HookStages, CallStages, Stages
  <1>5. Return(h) \/ job' = [job EXCEPT ![h] = c]
    BY <1>0 DEF AddReceipt, Goto
  <1> HIDE DEF c
  <1>6. CallMoves(h)
    BY <1>4, <1>5, CallReturns DEF CallMoves, CallStages
  <1> QED
    BY <1>2, <1>3, <1>6

\* The records before the submission, and the one of its failure.
LEMMA RecordStep ==
    ASSUME Inv, NEW h \in Handlers, NEW ok \in BOOLEAN, Record(h, ok) \/ NoteFailed(h, ok)
    PROVE  CallTurn(h) /\ CallWrites(ok) /\ CallMoves(h)
  <1>0. /\ usage \in [Keys -> [Periods -> Nat]] /\ CountsOK
        /\ JobOK(job[h]) /\ job[h] \in Job /\ job \in [Handlers -> Job]
    BY InvParts DEF JobsOK
  <1>1. /\ job[h].stage \in {"submitting", "failing"}
        /\ Quiet \/ job[h].stage = "failing"
    BY DEF Record, NoteFailed, At
  <1>2. CallTurn(h)
    BY <1>0, <1>1 DEF Record, NoteFailed, CallTurn, CallStages, InTurn, CountsOK
  <1>3. CallWrites(ok)
    BY <1>0 DEF Record, NoteFailed, CallWrites
  <1>4. CASE UNCHANGED job
    <2>1. job' = [job EXCEPT ![h] = job[h]]
      BY <1>0, <1>4
    <2> QED
      BY <1>0, <1>1, <1>2, <1>3, <2>1 DEF CallMoves, CallStages
  <1>5. CASE \E stage \in {"failing", "releasing", "unwinding"} : Goto(h, stage)
    BY <1>1, <1>2, <1>3, <1>5, CallMovesOn
  <1> QED
    BY <1>4, <1>5 DEF Record, NoteFailed

\* A slot is given back.
LEMMA ReleaseStep ==
    ASSUME Inv, NEW h \in Handlers, NEW ok \in BOOLEAN, Release(h, ok)
    PROVE  CallTurn(h) /\ CallWrites(ok) /\ CallMoves(h)
  <1> DEFINE k == job[h].old
             n == job[h].period
             c == [job[h] EXCEPT !.stage = "unwinding", !.holds = FALSE]
             v == usage[k][n] - 1
             u == [usage EXCEPT ![k][n] = v]
             w == uncounted[n] + 1
  <1>0. /\ usage \in [Keys -> [Periods -> Nat]] /\ CountsOK
        /\ JobOK(job[h]) /\ job[h] \in Job /\ job \in [Handlers -> Job]
    BY InvParts DEF JobsOK
  <1>1. job[h].stage \in {"releasing", "unwinding"}
    BY DEF Release
  <1>2. k \in Keys /\ n \in Periods
    BY <1>0, <1>1 DEF JobOK, CallStages, Job
  <1>3. uncounted' \in [Periods -> Nat]
    <2>1. w \in Nat /\ uncounted \in [Periods -> Nat]
      BY <1>0, <1>2 DEF CountsOK
    <2>2. uncounted' \in {uncounted, [uncounted EXCEPT ![n] = w]}
      BY DEF Release
    <2> HIDE DEF w
    <2> QED
      BY <1>2, <2>1, <2>2
  <1>4. CallTurn(h)
    BY <1>0, <1>1, <1>3 DEF Release, CallTurn, CallStages, InTurn, CountsOK
  <1>5. usage[k][n] > 0 => u \in [Keys -> [Periods -> Nat]]
    <2>1. usage[k][n] \in Nat
      BY <1>0, <1>2
    <2>2. usage[k][n] > 0 => v \in Nat
      BY <2>1
    <2> HIDE DEF v
    <2> QED
      BY <1>0, <1>2, <2>2
  <1>6. (usage[k][n] > 0 /\ WriteStore(keys, u, ok)) \/ UNCHANGED fileVars
    BY DEF Release
  <1>7. JobOK(c) /\ c.stage = "unwinding" /\ c.event = job[h].event
    BY <1>0, <1>1 DEF JobOK, Job, HookStages, CallStages, Stages
  <1>8. Return(h) \/ job' = [job EXCEPT ![h] = c]
    BY <1>0 DEF Release
  <1> HIDE DEF k, n, c, v, u, w
  <1>9. CallWrites(ok)
    BY <1>5, <1>6 DEF CallWrites
  <1>10. CallMoves(h)
    BY <1>7, <1>8, CallReturns DEF CallMoves, CallStages
  <1> QED
    BY <1>4, <1>9, <1>10

\* What calls do, one by one.
LEMMA AttestSteps ==
    ASSUME Inv, NEW h \in Handlers, NEW ok \in BOOLEAN, Attest(h, ok)
    PROVE  CallTurn(h) /\ CallWrites(ok) /\ CallMoves(h)
  BY ReserveStep, RecordStep, PassStep, ReceiptStep, ReleaseStep DEF Attest

\* Handlers that write and take turns as calls do, keep the invariant.
LEMMA AttestOK ==
    ASSUME Inv, NEW h \in Handlers, NEW ok \in BOOLEAN, CallTurn(h), CallWrites(ok), CallMoves(h)
    PROVE  Inv'
  <1>1. StripeOK' /\ CountsOK'
    BY InvParts, SameParts DEF CallTurn, CountsOK
  <1>2. PICK c : /\ JobOK(c) /\ c.stage \in CallStages \cup {"idle"}
                 /\ job' = [job EXCEPT ![h] = c]
    BY DEF CallMoves
  <1>3. c.stage \notin RotStages
    BY <1>2 DEF CallStages, RotStages
  <1> QED
    BY <1>1, <1>2, <1>3, HandlerStep DEF CallTurn, CallWrites

\* After a restart the session versions are those of the file.
LEMMA CrashOK ==
    ASSUME Inv, Crash
    PROVE  Inv'
  <1>1. /\ disk \in Files /\ user' = disk.user /\ keys' = disk.keys /\ usage' = disk.usage
        /\ disk' = disk /\ diskErrors' = diskErrors /\ crashes' = crashes + 1
        /\ UNCHANGED <<stripeVars, tokenVars, charged, uncounted, apiErrors>>
    BY DEF Crash, Inv, Typed, FilesOK
  <1>2. FilesOK'
    BY <1>1 DEF Inv, Typed, FilesOK, MemOK, Files
  <1>3. CountsOK' /\ crashes' # 0
    BY <1>1, AccountAssumption DEF Crash, Inv, Typed, CountsOK
  <1>4. StripeOK' /\ TokensOK' /\ FreshOK'
    BY <1>1, SameParts DEF Inv, FreshOK, Fresh
  <1>5. VersionOK'
    BY <1>1, <1>3 DEF Inv, VersionOK, tokenVars
  <1>6. ShownOK'
    BY <1>1 DEF Inv, ShownOK, Live1, tokenVars
  <1>7. \A h \in Handlers : job'[h] = Idle
    BY DEF Crash
  <1>8. JobsOK' /\ Turns'
    BY <1>7, IdleOK DEF Crash, JobsOK, Turns, OneTurn, TurnOK, RotStages, InTurn
  <1> QED
    BY <1>2, <1>3, <1>4, <1>5, <1>6, <1>8 DEF Inv, Typed

\* Every step keeps the invariant.
LEMMA NextInv == Inv /\ [Next]_vars => Inv'
  <1> SUFFICES ASSUME Inv, [Next]_vars
               PROVE  Inv'
    OBVIOUS
  <1>1. CASE UNCHANGED vars \/ Login
    <2>1. UNCHANGED vars
      BY <1>1 DEF Login
    <2>2. FilesOK' /\ FreshOK' /\ VersionOK' /\ ShownOK' /\ StripeOK' /\ TokensOK' /\ CountsOK'
      BY <2>1, SameParts DEF vars
    <2>3. JobsOK' /\ Turns'
      BY <2>1 DEF Inv, Typed, JobsOK, Turns, OneTurn, TurnOK, Live1, vars, fileVars, tokenVars
    <2> QED
      BY <2>2, <2>3 DEF Inv, Typed
  <1>2. ASSUME NEW h \in Handlers, Wait(h)
        PROVE  Inv'
    BY <1>2, WaitOK
  <1>3. ASSUME NEW h \in Handlers, NEW ok \in BOOLEAN, SignUp(h, ok) \/ Rotation(h, ok) \/ Webhook(h, ok)
        PROVE  Inv'
    BY <1>3, SignUpOK, CreateKeyOK, MoveUsageOK, DeleteOldOK, LinkOK, WebhookOK DEF Rotation
  <1>a. ASSUME NEW h \in Handlers, NEW ok \in BOOLEAN, Attest(h, ok)
        PROVE  Inv'
    BY <1>a, AttestSteps, AttestOK
  <1>4. ASSUME NEW ok \in BOOLEAN, Revoke(ok)
        PROVE  Inv'
    BY <1>4, RevokeOK
  <1>5. CASE Subscriber
    BY <1>5, SubscriberOK
  <1>6. CASE Crash
    BY <1>6, CrashOK
  <1> QED
    BY <1>1, <1>2, <1>3, <1>a, <1>4, <1>5, <1>6 DEF Next

\* The invariant holds in every state.
LEMMA InvHolds == Spec => []Inv
  BY InitInv, NextInv, PTL DEF Spec

-----------------------------------------------------------------------------
(***************************************************************************)
(* Counters.  The total of a period's counters covers the slots in use and *)
(* those charged, in memory and in the file.  A rotation keeps the total   *)
(* as its two keys differ: the old one is on record when the new one is    *)
(* created.                                                                *)
(***************************************************************************)
Kept(u, ks) == u.key \in Keys => ks[u.key].state # "none"

MovingOK == \A h \in Handlers : job[h].stage = "moving" => job[h].new # job[h].old

LinkedOK ==
    /\ \A k \in Keys : disk.keys[k].state # "none" => keys[k].state # "none"
    /\ Kept(user, disk.keys) /\ Kept(disk.user, disk.keys)
    /\ MovingOK

Holders(n) == {h \in Handlers : job[h].holds /\ job[h].period = n}

\* A call that is to give back a slot it does not hold any more: a write of
\* its failed, and will be to blame for one that is not counted.
Owes(j) == j.stage \in {"failing", "releasing", "unwinding"} /\ ~j.holds

Owers(n) == {h \in Handlers : Owes(job[h]) /\ job[h].period = n}

Covered ==
    \A n \in Periods : /\ Held(n) + charged[n] <= Counted(usage, n) + uncounted[n]
                       /\ Held(n) + charged[n] <= Counted(disk.usage, n) + uncounted[n]

Blamed == \A n \in Periods : uncounted[n] + Cardinality(Owers(n)) <= diskErrors

\* Handlers and keys are finite, so that slots and counters have totals.
LEMMA FiniteConstants == IsFiniteSet(Handlers) /\ IsFiniteSet(Keys)
  BY AccountAssumption

\* The slots held in a period can be counted.
LEMMA HoldersType ==
    \A n \in Periods : IsFiniteSet(Holders(n)) /\ Held(n) = Cardinality(Holders(n)) /\ Held(n) \in Nat
  <1> SUFFICES ASSUME NEW n \in Periods
               PROVE  IsFiniteSet(Holders(n)) /\ Held(n) = Cardinality(Holders(n)) /\ Held(n) \in Nat
    OBVIOUS
  <1>1. IsFiniteSet(Holders(n))
    BY FiniteConstants, FS_Subset DEF Holders
  <1>2. Held(n) = Cardinality(Holders(n))
    BY DEF Held, Holders
  <1> QED
    BY <1>1, <1>2, FS_CardinalityType

\* The same after a step.
LEMMA HoldersTypeNext ==
    \A n \in Periods : IsFiniteSet(Holders(n)') /\ Held(n)' = Cardinality(Holders(n)') /\ Held(n)' \in Nat
  <1> SUFFICES ASSUME NEW n \in Periods
               PROVE  IsFiniteSet(Holders(n)') /\ Held(n)' = Cardinality(Holders(n)') /\ Held(n)' \in Nat
    OBVIOUS
  <1>1. IsFiniteSet(Holders(n)')
    BY FiniteConstants, FS_Subset DEF Holders
  <1>2. Held(n)' = Cardinality(Holders(n)')
    BY DEF Held, Holders
  <1> QED
    BY <1>1, <1>2, FS_CardinalityType

\* No handler takes a slot.
NoneHolds == \A g \in Handlers : job'[g].holds => job[g].holds /\ job'[g].period = job[g].period

\* No handler that has none is to give one back.
NoneOwes == \A g \in Handlers : Owes(job'[g]) => Owes(job[g]) /\ job'[g].period = job[g].period

\* So as many slots are in use as before, or fewer.
LEMMA HeldLessOrSame ==
    ASSUME NoneHolds
    PROVE  \A n \in Periods : Held(n)' <= Held(n)
  <1> SUFFICES ASSUME NEW n \in Periods
               PROVE  Held(n)' <= Held(n)
    OBVIOUS
  <1>1. Holders(n)' \subseteq Holders(n)
    BY DEF Holders, NoneHolds
  <1>2. Cardinality(Holders(n)') <= Cardinality(Holders(n))
    BY <1>1, HoldersType, FS_Subset
  <1> QED
    BY <1>2, HoldersType, HoldersTypeNext

\* A call that takes a slot makes one more of its period, and none of another.
LEMMA HeldGains ==
    ASSUME NEW h \in Handlers, NEW n \in Periods, ~job[h].holds,
           job'[h].holds, job'[h].period = n,
           \A g \in Handlers \ {h} : job'[g] = job[g]
    PROVE  Held(n)' = Held(n) + 1 /\ \A m \in Periods \ {n} : Held(m)' = Held(m)
  <1>1. Holders(n)' = Holders(n) \cup {h} /\ h \notin Holders(n)
    BY DEF Holders
  <1>2. Cardinality(Holders(n)') = Cardinality(Holders(n)) + 1
    <2>1. IsFiniteSet(Holders(n))
      BY HoldersType
    <2>2. Cardinality(Holders(n) \cup {h}) = Cardinality(Holders(n)) + 1
      BY <1>1, <2>1, OneElement
    <2> QED
      BY <1>1, <2>2
  <1>3. \A m \in Periods \ {n} : Holders(m)' = Holders(m)
    BY DEF Holders
  <1> QED
    BY <1>2, <1>3, HoldersType, HoldersTypeNext

\* A call that is done with its slot makes one less of its period, and none of
\* another.
LEMMA HeldLoses ==
    ASSUME NEW h \in Handlers, NEW n \in Periods, job[h].holds, job[h].period = n,
           ~job'[h].holds,
           \A g \in Handlers \ {h} : job'[g] = job[g]
    PROVE  Held(n)' + 1 = Held(n) /\ \A m \in Periods \ {n} : Held(m)' = Held(m)
  <1>1. Holders(n) = Holders(n)' \cup {h} /\ h \notin Holders(n)'
    BY DEF Holders
  <1>2. Cardinality(Holders(n)) = Cardinality(Holders(n)') + 1
    <2>1. IsFiniteSet(Holders(n)')
      BY HoldersTypeNext
    <2>2. Cardinality(Holders(n)' \cup {h}) = Cardinality(Holders(n)') + 1
      BY <1>1, <2>1, OneElement
    <2> QED
      BY <1>1, <2>2
  <1>3. \A m \in Periods \ {n} : Holders(m)' = Holders(m)
    BY DEF Holders
  <1> QED
    BY <1>2, <1>3, HoldersType, HoldersTypeNext

\* The calls that owe one can be counted, before a step and after it.
LEMMA OwersType ==
    \A n \in Periods : /\ IsFiniteSet(Owers(n)) /\ Cardinality(Owers(n)) \in Nat
                       /\ IsFiniteSet(Owers(n)') /\ Cardinality(Owers(n)') \in Nat
  <1> SUFFICES ASSUME NEW n \in Periods
               PROVE  /\ IsFiniteSet(Owers(n)) /\ Cardinality(Owers(n)) \in Nat
                      /\ IsFiniteSet(Owers(n)') /\ Cardinality(Owers(n)') \in Nat
    OBVIOUS
  <1>1. IsFiniteSet(Owers(n)) /\ IsFiniteSet(Owers(n)')
    BY FiniteConstants, FS_Subset DEF Owers
  <1> QED
    BY <1>1, FS_CardinalityType

\* Nobody is to blame anew.
LEMMA BlamedStays ==
    ASSUME Inv, Blamed, NoneOwes, uncounted' = uncounted,
           diskErrors' \in Nat, diskErrors' >= diskErrors
    PROVE  Blamed'
  <1> SUFFICES ASSUME NEW n \in Periods
               PROVE  uncounted[n] + Cardinality(Owers(n)') <= diskErrors'
    BY DEF Blamed
  <1>1. Cardinality(Owers(n)') <= Cardinality(Owers(n))
    <2>1. Owers(n)' \subseteq Owers(n)
      BY DEF Owers, NoneOwes
    <2> QED
      BY <2>1, OwersType, FS_Subset
  <1>2. uncounted[n] + Cardinality(Owers(n)) <= diskErrors
    BY DEF Blamed
  <1>3. uncounted[n] \in Nat /\ diskErrors \in Nat
    BY InvParts, AccountAssumption DEF CountsOK, FilesOK
  <1> QED
    BY <1>1, <1>2, <1>3, OwersType

\* A failed write is to blame for what its handler owes.
LEMMA BlamedGains ==
    ASSUME Inv, Blamed, NEW h \in Handlers, \A g \in Handlers \ {h} : job'[g] = job[g],
           uncounted' = uncounted, diskErrors' = diskErrors + 1
    PROVE  Blamed'
  <1> SUFFICES ASSUME NEW n \in Periods
               PROVE  uncounted[n] + Cardinality(Owers(n)') <= diskErrors + 1
    BY DEF Blamed
  <1>1. Cardinality(Owers(n)') <= Cardinality(Owers(n)) + 1
    <2>1. Owers(n)' \subseteq Owers(n) \cup {h}
      BY DEF Owers
    <2>2. /\ IsFiniteSet(Owers(n) \cup {h}) /\ Cardinality(Owers(n) \cup {h}) \in Nat
          /\ Cardinality(Owers(n) \cup {h}) <= Cardinality(Owers(n)) + 1
      BY OwersType, OneElement
    <2>3. Cardinality(Owers(n)') <= Cardinality(Owers(n) \cup {h})
      BY <2>1, <2>2, FS_Subset
    <2> QED
      BY <2>2, <2>3, OwersType
  <1>2. uncounted[n] + Cardinality(Owers(n)) <= diskErrors
    BY DEF Blamed
  <1>3. uncounted[n] \in Nat /\ diskErrors \in Nat
    BY InvParts, AccountAssumption DEF CountsOK, FilesOK
  <1> QED
    BY <1>1, <1>2, <1>3, OwersType

\* A slot that is not counted, for a call that owed it or for a failed write.
LEMMA BlamedMoves ==
    ASSUME Inv, Blamed, NEW h \in Handlers, NEW n \in Periods, job[h].period = n,
           Owes(job[h]), NoneOwes, \A g \in Handlers \ {h} : job'[g] = job[g],
           uncounted' = [uncounted EXCEPT ![n] = @ + 1],
           \/ ~Owes(job'[h]) /\ diskErrors' \in Nat /\ diskErrors' >= diskErrors
           \/ diskErrors' = diskErrors + 1
    PROVE  Blamed'
  <1> SUFFICES ASSUME NEW m \in Periods
               PROVE  uncounted'[m] + Cardinality(Owers(m)') <= diskErrors'
    BY DEF Blamed
  <1>1. Cardinality(Owers(m)') <= Cardinality(Owers(m))
    <2>1. Owers(m)' \subseteq Owers(m)
      BY DEF Owers, NoneOwes
    <2> QED
      BY <2>1, OwersType, FS_Subset
  <1>2. uncounted[m] + Cardinality(Owers(m)) <= diskErrors
    BY DEF Blamed
  <1>3. uncounted \in [Periods -> Nat] /\ uncounted[m] \in Nat /\ diskErrors \in Nat
    BY InvParts, AccountAssumption DEF CountsOK, FilesOK
  <1>4. uncounted'[m] = IF m = n THEN uncounted[m] + 1 ELSE uncounted[m]
    BY <1>3
  <1>5. CASE diskErrors' = diskErrors + 1
    BY <1>1, <1>2, <1>3, <1>4, <1>5, OwersType
  <1>6. CASE ~Owes(job'[h]) /\ diskErrors' \in Nat /\ diskErrors' >= diskErrors
    <2>1. CASE m # n
      BY <1>1, <1>2, <1>3, <1>4, <1>6, <2>1, OwersType
    <2>2. CASE m = n
      <3>1. Owers(m) = Owers(m)' \cup {h} /\ h \notin Owers(m)'
        BY <1>6, <2>2 DEF Owers
      <3>2. Cardinality(Owers(m)' \cup {h}) = Cardinality(Owers(m)') + 1
        BY <3>1, OwersType, OneElement
      <3> QED
        BY <1>2, <1>3, <1>4, <1>6, <2>2, <3>1, <3>2, OwersType
    <2> QED
      BY <2>1, <2>2
  <1> QED
    BY <1>5, <1>6

\* The counters of a period have a total.
LEMMA CountedType ==
    ASSUME NEW u \in [Keys -> [Periods -> Nat]], NEW n \in Periods
    PROVE  Counted(u, n) \in Nat /\ [k \in Keys |-> u[k][n]] \in [Keys -> Nat]
  <1> DEFINE f == [k \in Keys |-> u[k][n]]
  <1>1. f \in [Keys -> Nat]
    OBVIOUS
  <1> HIDE DEF f
  <1>2. Total(f) \in Nat
    BY <1>1, FiniteConstants, TotalType
  <1> QED
    BY <1>1, <1>2 DEF f, Counted

\* A change at one key changes the total by as much; a move between two keys
\* leaves it.
LEMMA KeyTotals ==
    ASSUME NEW f \in [Keys -> Nat], NEW g \in [Keys -> Nat], NEW k \in Keys
    PROVE  /\ (\A j \in Keys \ {k} : g[j] = f[j]) => Total(g) + f[k] = Total(f) + g[k]
           /\ \A l \in Keys \ {k} :
                 /\ \A j \in Keys \ {k, l} : g[j] = f[j]
                 /\ g[k] + g[l] = f[k] + f[l]
                 => Total(g) = Total(f)
  <1>1. ASSUME \A j \in Keys \ {k} : g[j] = f[j]
        PROVE  Total(g) + f[k] = Total(f) + g[k]
    BY <1>1, FiniteConstants, TotalChange
  <1>2. ASSUME NEW l \in Keys \ {k}, \A j \in Keys \ {k, l} : g[j] = f[j], g[k] + g[l] = f[k] + f[l]
        PROVE  Total(g) = Total(f)
    BY <1>2, FiniteConstants, TotalMove
  <1> QED
    BY <1>1, <1>2

\* One counter changes.
LEMMA CountedSame ==
    ASSUME NEW u, NEW v, NEW n, \A j \in Keys : v[j][n] = u[j][n]
    PROVE  Counted(v, n) = Counted(u, n)
  <1>1. [j \in Keys |-> v[j][n]] = [j \in Keys |-> u[j][n]]
    OBVIOUS
  <1> QED
    BY <1>1 DEF Counted

\* The same for the counter of one key in one period.
LEMMA CountedChange ==
    ASSUME NEW u \in [Keys -> [Periods -> Nat]], NEW v \in [Keys -> [Periods -> Nat]],
           NEW k \in Keys, NEW n \in Periods,
           \A j \in Keys \ {k} : v[j] = u[j],
           \A m \in Periods \ {n} : v[k][m] = u[k][m]
    PROVE  Counted(v, n) + u[k][n] = Counted(u, n) + v[k][n]
  <1> DEFINE f == [j \in Keys |-> u[j][n]]
             g == [j \in Keys |-> v[j][n]]
  <1>1. f \in [Keys -> Nat] /\ g \in [Keys -> Nat] /\ f[k] = u[k][n] /\ g[k] = v[k][n]
    OBVIOUS
  <1>2. \A j \in Keys \ {k} : g[j] = f[j]
    OBVIOUS
  <1>3. Counted(u, n) = Total(f) /\ Counted(v, n) = Total(g)
    BY DEF Counted
  <1> HIDE DEF f, g
  <1>4. Total(g) + f[k] = Total(f) + g[k]
    BY <1>1, <1>2, KeyTotals
  <1> QED
    BY <1>1, <1>3, <1>4

\* The counters of one key move to those of another.
LEMMA CountedMove ==
    ASSUME NEW u \in [Keys -> [Periods -> Nat]], NEW v \in [Keys -> [Periods -> Nat]],
           NEW k \in Keys, NEW l \in Keys, k # l,
           \A j \in Keys \ {k, l} : v[j] = u[j],
           \A n \in Periods : v[k][n] + v[l][n] = u[k][n] + u[l][n]
    PROVE  \A n \in Periods : Counted(v, n) = Counted(u, n)
  <1> SUFFICES ASSUME NEW n \in Periods
               PROVE  Counted(v, n) = Counted(u, n)
    OBVIOUS
  <1> DEFINE f == [j \in Keys |-> u[j][n]]
             g == [j \in Keys |-> v[j][n]]
  <1>1. f \in [Keys -> Nat] /\ g \in [Keys -> Nat]
    OBVIOUS
  <1>2. (\A j \in Keys \ {k, l} : g[j] = f[j]) /\ g[k] + g[l] = f[k] + f[l]
    OBVIOUS
  <1>3. Counted(u, n) = Total(f) /\ Counted(v, n) = Total(g)
    BY DEF Counted
  <1> HIDE DEF f, g
  <1>4. l \in Keys \ {k}
    OBVIOUS
  <1>5. Total(g) = Total(f)
    <2>1. \A i \in Keys \ {k} : (/\ \A j \in Keys \ {k, i} : g[j] = f[j]
                                 /\ g[k] + g[i] = f[k] + f[i]) => Total(g) = Total(f)
      BY <1>1, KeyTotals
    <2> QED
      BY <1>2, <1>4, <2>1
  <1> QED
    BY <1>3, <1>5

\* No handler takes a slot, or is to give one back that it has not.
SlotsStay == NoneHolds /\ NoneOwes

\* A handler that goes on to a stage without a slot takes none and moves no
\* counters.
LEMMA JobStep ==
    ASSUME Inv, LinkedOK, NEW h \in Handlers, NEW c, ~c.holds, ~Owes(c), c.stage # "moving",
           job' = job \/ job' = [job EXCEPT ![h] = c]
    PROVE  SlotsStay /\ MovingOK'
  <1>1. job \in [Handlers -> Job]
    BY InvParts DEF JobsOK
  <1>2. \A g \in Handlers : job'[g] = job[g] \/ job'[g] = c
    BY <1>1
  <1> QED
    BY <1>2 DEF SlotsStay, NoneHolds, NoneOwes, MovingOK, LinkedOK

\* The same for one that returns.
LEMMA ReturnStep ==
    ASSUME Inv, LinkedOK, NEW h \in Handlers, Return(h)
    PROVE  SlotsStay /\ MovingOK'
  <1>1. ~Idle.holds /\ Idle.stage = "idle"
    BY DEF Idle
  <1> QED
    BY <1>1, JobStep DEF Return, Owes

\* The same for one that only changes its stage and has no slot.
LEMMA GotoStep ==
    ASSUME Inv, LinkedOK, NEW h \in Handlers, ~job[h].holds,
           NEW stage \in {"keying", "deleting", "linking", "clearing"}, Goto(h, stage)
    PROVE  SlotsStay /\ MovingOK'
  <1> DEFINE c == [job[h] EXCEPT !.stage = stage]
  <1>1. job \in [Handlers -> Job] /\ job[h] \in Job
    BY InvParts DEF JobsOK
  <1>2. c.stage = stage /\ ~c.holds
    BY <1>1 DEF Job
  <1>3. job' = [job EXCEPT ![h] = c]
    BY <1>1 DEF Goto
  <1> HIDE DEF c
  <1>4. ~Owes(c)
    BY <1>2 DEF Owes
  <1> QED
    BY <1>2, <1>3, <1>4, JobStep

\* The same for a call that keeps its slot, or owes one as before.
LEMMA CallStep ==
    ASSUME Inv, LinkedOK, NEW h \in Handlers, job[h].stage \in {"submitting", "failing"},
           NEW stage \in {"failing", "releasing", "unwinding"}, Goto(h, stage)
    PROVE  SlotsStay /\ MovingOK'
  <1>1. PICK c : /\ c.stage = stage /\ c.holds = job[h].holds /\ c.period = job[h].period
                 /\ job' = [job EXCEPT ![h] = c]
    BY CallGoes
  <1>2. job \in [Handlers -> Job] /\ (job[h].stage = "submitting" => job[h].holds)
    BY InvParts DEF JobsOK, JobOK
  <1>3. job'[h] = c /\ \A g \in Handlers \ {h} : job'[g] = job[g]
    BY <1>1, <1>2
  <1> QED
    BY <1>1, <1>2, <1>3 DEF SlotsStay, NoneHolds, NoneOwes, Owes, MovingOK, LinkedOK

\* A handler in a rotation has no slot.
LEMMA NoSlot ==
    ASSUME Inv, NEW h \in Handlers,
           job[h].stage \notin {"submitting", "failing", "releasing", "unwinding"}
    PROVE  ~job[h].holds
  BY InvParts DEF JobOK

\* What a file has is what it had, or what memory had.
LEMMA CoveredStays ==
    ASSUME Inv, Covered, NoneHolds, UNCHANGED <<charged, uncounted>>,
           usage' \in {usage, disk.usage}, disk'.usage \in {usage, disk.usage}
    PROVE  Covered'
  <1>0. usage \in [Keys -> [Periods -> Nat]] /\ disk.usage \in [Keys -> [Periods -> Nat]]
        /\ charged \in [Periods -> Nat] /\ uncounted \in [Periods -> Nat]
    BY InvParts DEF Files, CountsOK
  <1> SUFFICES ASSUME NEW n \in Periods
               PROVE  /\ Held(n)' + charged'[n] <= Counted(usage', n) + uncounted'[n]
                      /\ Held(n)' + charged'[n] <= Counted(disk'.usage, n) + uncounted'[n]
    BY DEF Covered
  <1>1. Held(n)' <= Held(n) /\ Held(n) \in Nat /\ Held(n)' \in Nat
    BY HeldLessOrSame, HoldersType, HoldersTypeNext
  <1>2. Counted(usage, n) \in Nat /\ Counted(disk.usage, n) \in Nat
    BY <1>0, CountedType
  <1>3. /\ Held(n) + charged[n] <= Counted(usage, n) + uncounted[n]
        /\ Held(n) + charged[n] <= Counted(disk.usage, n) + uncounted[n]
    BY DEF Covered
  <1>4. /\ charged[n] \in Nat /\ charged'[n] = charged[n]
        /\ uncounted[n] \in Nat /\ uncounted'[n] = uncounted[n]
    BY <1>0
  <1> QED
    BY <1>1, <1>2, <1>3, <1>4

Counters == LinkedOK /\ Covered /\ Blamed

\* What is covered but for what failed writes are to blame for, is kept.
LEMMA CountersKeepUsage ==
    ASSUME Inv, Counters
    PROVE  UsageKept
  <1> SUFFICES ASSUME NEW n \in Periods
               PROVE  uncounted[n] <= diskErrors
    BY DEF Counters, Covered, UsageKept
  <1>1. uncounted[n] + Cardinality(Owers(n)) <= diskErrors
    BY DEF Counters, Blamed
  <1>2. uncounted[n] \in Nat /\ diskErrors \in Nat
    BY InvParts, AccountAssumption DEF CountsOK, FilesOK
  <1> QED
    BY <1>1, <1>2, OwersType

\* The count of failed writes grows, or stays.
LEMMA ErrorsGrow ==
    ASSUME Inv
    PROVE  /\ diskErrors \in Nat
           /\ UNCHANGED fileVars => diskErrors' \in Nat /\ diskErrors' >= diskErrors
           /\ \A ok \in BOOLEAN : CountWrite(ok) =>
                 /\ diskErrors' \in Nat /\ diskErrors' >= diskErrors
                 /\ ~ok => diskErrors' = diskErrors + 1
  <1>1. diskErrors \in Nat
    BY InvParts, AccountAssumption DEF FilesOK
  <1> QED
    BY <1>1 DEF fileVars, CountWrite

\* A step that writes no file and takes no slot keeps the counters right.
LEMMA NoWrite ==
    ASSUME Inv, Counters, UNCHANGED fileVars, SlotsStay, MovingOK', UNCHANGED <<charged, uncounted>>
    PROVE  Counters'
  <1>1. user' = user /\ keys' = keys /\ usage' = usage /\ disk' = disk
    BY DEF fileVars
  <1>2. LinkedOK'
    BY <1>1 DEF Counters, LinkedOK, Kept
  <1>3. Covered'
    BY <1>1, CoveredStays DEF Counters, SlotsStay
  <1>4. Blamed'
    BY ErrorsGrow, BlamedStays DEF Counters, SlotsStay
  <1> QED
    BY <1>2, <1>3, <1>4 DEF Counters

\* A write of the user record keeps them right when the key it links is in the
\* file.
LEMMA UserWrite ==
    ASSUME Inv, Counters, NEW u \in User, NEW ok \in BOOLEAN, WriteUser(u, ok),
           \/ u.key \in {NoKey, user.key}
           \/ disk.keys[u.key].state # "none",
           SlotsStay, MovingOK', UNCHANGED <<charged, uncounted>>
    PROVE  Counters'
  <1>0. FilesOK /\ disk \in Files /\ NoKey \notin Keys
    BY InvParts, AccountAssumption
  <1>1. /\ user' = u /\ keys' = keys /\ disk'.keys = disk.keys
        /\ disk'.user = IF ok THEN u ELSE disk.user
    BY <1>0, WriteUserOK
  <1>2. usage' = usage /\ disk'.usage = disk.usage
    BY <1>0 DEF WriteUser, Files
  <1>3. Kept(u, disk.keys)
    BY <1>0 DEF Counters, LinkedOK, Kept
  <1>4. LinkedOK'
    BY <1>1, <1>3 DEF Counters, LinkedOK
  <1>5. Covered'
    BY <1>2, CoveredStays DEF Counters, SlotsStay
  <1>6. Blamed'
    BY ErrorsGrow, BlamedStays DEF Counters, SlotsStay, WriteUser
  <1> QED
    BY <1>4, <1>5, <1>6 DEF Counters

\* A write of the keys keeps them right when no key with a counter is lost.
LEMMA StoreWrite ==
    ASSUME Inv, Counters, NEW k \in [Keys -> Key], NEW ok \in BOOLEAN, WriteStore(k, usage, ok),
           \A x \in Keys : keys[x].state # "none" => k[x].state # "none",
           SlotsStay, MovingOK', UNCHANGED <<charged, uncounted>>
    PROVE  Counters'
  <1>0. FilesOK /\ disk \in Files /\ usage \in [Keys -> [Periods -> Nat]] /\ disk.keys \in [Keys -> Key]
    BY InvParts
  <1>1. /\ user' = user /\ keys' = k /\ disk'.user = disk.user
        /\ disk'.keys = k \/ disk'.keys = disk.keys
    BY <1>0, WriteStoreOK
  <1>2. usage' = usage /\ disk'.usage \in {usage, disk.usage}
    BY <1>0 DEF WriteStore, Files
  <1>3. \A x \in Keys : disk.keys[x].state # "none" => k[x].state # "none"
    BY DEF Counters, LinkedOK
  <1>4. LinkedOK'
    <2>1. \A x \in Keys : disk'.keys[x].state # "none" => keys'[x].state # "none"
      BY <1>1, <1>3
    <2>2. Kept(user', disk'.keys) /\ Kept(disk'.user, disk'.keys)
      BY <1>1, <1>3 DEF Counters, LinkedOK, Kept
    <2> QED
      BY <2>1, <2>2 DEF LinkedOK
  <1>5. Covered'
    BY <1>2, CoveredStays DEF Counters, SlotsStay
  <1>6. Blamed'
    BY ErrorsGrow, BlamedStays DEF Counters, SlotsStay, WriteStore
  <1> QED
    BY <1>4, <1>5, <1>6 DEF Counters

\* The writes of the user record by webhooks.
LEMMA WebhookCounters ==
    ASSUME Inv, Counters, NEW h \in Handlers, NEW ok \in BOOLEAN, Webhook(h, ok)
    PROVE  Counters'
  <1>0. LinkedOK /\ user \in User /\ keys \in [Keys -> Key] /\ stripe \in [Subs -> Subscription]
        /\ JobOK(job[h])
    BY InvParts DEF Counters, StripeOK
  <1>1. CASE Updates(h, ok)
    <2>1. PICK e \in Event, u \in User : SamePerson(u) /\ Update(h, e, u, ok)
      BY <1>1 DEF Updates
    <2>2. WriteUser(u, ok) /\ u.key = user.key /\ UNCHANGED <<charged, uncounted>>
      BY <2>1 DEF Update, SamePerson
    <2>3. SlotsStay /\ MovingOK'
      <3>1. CASE Return(h)
        BY <1>0, <3>1, ReturnStep
      <3>2. CASE Handle(h, e, "syncing")
        <4> DEFINE c == [Idle EXCEPT !.stage = "syncing", !.event = e]
        <4>1. c.stage = "syncing" /\ ~c.holds /\ job' = [job EXCEPT ![h] = c]
          BY <3>2 DEF Handle, Idle
        <4> HIDE DEF c
        <4> QED
          BY <1>0, <4>1, JobStep DEF Owes
      <3> QED
        BY <2>1, <3>1, <3>2 DEF Update
    <2> QED
      BY <2>2, <2>3, UserWrite
  <1>2. CASE InvoicePaid(h, ok)
    <2> DEFINE now == stripe[job[h].event.sub].period
               u   == [user EXCEPT !.status = "active", !.period =
                         IF now # job[h].seen.period THEN now ELSE user.period]
    <2>1. stripe[job[h].event.sub] \in Subscription
      BY <1>0, <1>2 DEF InvoicePaid, At, JobOK, HookStages, Event
    <2>2. u \in User /\ u.key = user.key
      BY <1>0, <2>1 DEF User, Subscription, Status
    <2>3. (WriteUser(u, ok) \/ UNCHANGED fileVars) /\ UNCHANGED <<charged, uncounted>>
      BY <1>2 DEF InvoicePaid
    <2> HIDE DEF now, u
    <2>4. SlotsStay /\ MovingOK'
      <3>1. ~job[h].holds
        BY <1>2, NoSlot DEF InvoicePaid, At
      <3> QED
        BY <1>0, <1>2, <3>1, ReturnStep, GotoStep DEF InvoicePaid
    <2> QED
      BY <2>2, <2>3, <2>4, UserWrite, NoWrite
  <1>3. CASE SyncKey(h, ok)
    <2>1. Return(h) /\ UNCHANGED <<charged, uncounted>>
      BY <1>3 DEF SyncKey
    <2>2. SlotsStay /\ MovingOK'
      BY <1>0, <2>1, ReturnStep
    <2>3. CASE UNCHANGED fileVars
      BY <2>1, <2>2, <2>3, NoWrite
    <2>4. CASE Live(user.key) /\ WriteStore([keys EXCEPT ![user.key].tier = user.tier], usage, ok)
      <3> DEFINE k == [keys EXCEPT ![user.key].tier = user.tier]
      <3>1. k \in [Keys -> Key] /\ \A x \in Keys : k[x].state = keys[x].state
        BY <1>0, <2>4 DEF Live, Key, User
      <3>2. WriteStore(k, usage, ok)
        BY <2>4
      <3> HIDE DEF k
      <3> QED
        BY <2>1, <2>2, <3>1, <3>2, StoreWrite
    <2> QED
      BY <1>3, <2>3, <2>4 DEF SyncKey
  <1> QED
    BY <1>1, <1>2, <1>3, WebhookUpdates

\* rekeyAttestationUsage: the two keys differ, and their counters add up to
\* what they did.
LEMMA MoveCounters ==
    ASSUME Inv, Counters, NEW h \in Handlers, NEW ok \in BOOLEAN, MoveUsage(h, ok)
    PROVE  Counters'
  <1> DEFINE k == job[h].new
             l == job[h].old
             a == [n \in Periods |-> usage[k][n] + usage[l][n]]
             z == [n \in Periods |-> 0]
             v == [usage EXCEPT ![k] = a, ![l] = z]
  <1>0. /\ FilesOK /\ usage \in [Keys -> [Periods -> Nat]] /\ keys \in [Keys -> Key] /\ disk \in Files
        /\ disk.usage \in [Keys -> [Periods -> Nat]] /\ charged \in [Periods -> Nat]
        /\ LinkedOK /\ MovingOK /\ Covered /\ Blamed /\ job \in [Handlers -> Job]
        /\ uncounted \in [Periods -> Nat]
    BY InvParts DEF Counters, LinkedOK, Files, CountsOK, JobsOK
  <1>1. job[h].stage = "moving" /\ JobOK(job[h])
    BY InvParts DEF MoveUsage, At
  <1>2. k \in Keys /\ l \in Keys /\ k # l
    BY <1>0, <1>1 DEF JobOK, MovingOK
  <1>3. a \in [Periods -> Nat] /\ z \in [Periods -> Nat]
    BY <1>0, <1>2
  <1>4. WriteStore(keys, v, ok) /\ UNCHANGED <<charged, uncounted>>
    BY DEF MoveUsage
  <1>5. SlotsStay /\ MovingOK'
    BY <1>0, <1>1, NoSlot, ReturnStep, GotoStep DEF MoveUsage
  <1>6. /\ v \in [Keys -> [Periods -> Nat]] /\ v[k] = a /\ v[l] = z
        /\ \A j \in Keys \ {k, l} : v[j] = usage[j]
    <2> HIDE DEF a, z
    <2> QED
      BY <1>0, <1>2, <1>3
  <1>7. \A n \in Periods : v[k][n] + v[l][n] = usage[k][n] + usage[l][n]
    <2> SUFFICES ASSUME NEW n \in Periods
                 PROVE  v[k][n] + v[l][n] = usage[k][n] + usage[l][n]
      OBVIOUS
    <2>1. a[n] = usage[k][n] + usage[l][n] /\ z[n] = 0
      OBVIOUS
    <2>2. usage[k][n] \in Nat /\ usage[l][n] \in Nat
      BY <1>0, <1>2
    <2> HIDE DEF a, z, v
    <2> QED
      BY <1>6, <2>1, <2>2
  <1> HIDE DEF k, l, a, z, v
  <1>8. \A n \in Periods : Counted(v, n) = Counted(usage, n)
    <2>1. usage \in [Keys -> [Periods -> Nat]] /\ v \in [Keys -> [Periods -> Nat]]
      BY <1>0, <1>6
    <2>2. \A j \in Keys \ {k, l} : v[j] = usage[j]
      BY <1>6
    <2> QED
      BY <1>2, <1>7, <2>1, <2>2, CountedMove
  <1>9. LinkedOK'
    <2>1. user' = user /\ keys' = keys /\ disk'.user = disk.user /\ disk'.keys \in {keys, disk.keys}
      BY <1>0, <1>4, <1>6, WriteStoreOK
    <2> QED
      BY <1>0, <1>5, <2>1 DEF LinkedOK, Kept
  <1>10. usage' = v /\ disk'.usage \in {v, disk.usage}
    BY <1>0, <1>4 DEF WriteStore, Files
  <1>11. Covered'
    <2> SUFFICES ASSUME NEW n \in Periods
                 PROVE  /\ Held(n)' + charged'[n] <= Counted(usage', n) + uncounted'[n]
                        /\ Held(n)' + charged'[n] <= Counted(disk'.usage, n) + uncounted'[n]
      BY DEF Covered
    <2>1. Held(n)' <= Held(n) /\ Held(n) \in Nat /\ Held(n)' \in Nat
      BY <1>5, HeldLessOrSame, HoldersType, HoldersTypeNext DEF SlotsStay
    <2>2. Counted(usage', n) = Counted(usage, n)
      BY <1>8, <1>10
    <2>3. Counted(disk'.usage, n) \in {Counted(usage, n), Counted(disk.usage, n)}
      BY <1>8, <1>10
    <2>4. Counted(usage, n) \in Nat /\ Counted(disk.usage, n) \in Nat
      BY <1>0, CountedType
    <2>5. /\ Held(n) + charged[n] <= Counted(usage, n) + uncounted[n]
          /\ Held(n) + charged[n] <= Counted(disk.usage, n) + uncounted[n]
      BY <1>0 DEF Covered
    <2>6. /\ charged[n] \in Nat /\ charged'[n] = charged[n]
          /\ uncounted[n] \in Nat /\ uncounted'[n] = uncounted[n]
      BY <1>0, <1>4
    <2> QED
      BY <2>1, <2>2, <2>3, <2>4, <2>5, <2>6
  <1>12. Blamed'
    BY <1>0, <1>4, <1>5, ErrorsGrow, BlamedStays DEF SlotsStay, WriteStore
  <1> QED
    BY <1>9, <1>11, <1>12 DEF Counters

\* Sign-ups, and the other steps of a rotation.
LEMMA SignUpCounters ==
    ASSUME Inv, Counters, NEW h \in Handlers, NEW ok \in BOOLEAN, SignUp(h, ok)
    PROVE  Counters'
  <1> DEFINE u == [NoUser EXCEPT !.known = TRUE]
  <1>0. LinkedOK /\ job \in [Handlers -> Job]
    BY InvParts DEF Counters, JobsOK
  <1>1. u \in User /\ u.key = NoKey /\ WriteUser(u, ok) /\ UNCHANGED <<charged, uncounted>>
    BY NoUserIsUser DEF SignUp, User, NoUser
  <1> HIDE DEF u
  <1>2. SlotsStay /\ MovingOK'
    <2>1. ~job[h].holds
      BY NoSlot DEF SignUp, At
    <2> QED
      BY <1>0, <2>1, GotoStep, JobStep, IdleOK, ReturnStep DEF SignUp, SlotsStay, NoneHolds, NoneOwes, LinkedOK, MovingOK
  <1> QED
    BY <1>1, <1>2, UserWrite

\* A new key has no counters yet; the user's are with the old one.
LEMMA CreateCounters ==
    ASSUME Inv, Counters, NEW h \in Handlers, NEW k \in Keys, NEW ok \in BOOLEAN,
           CreateKey(h, k, ok)
    PROVE  Counters'
  <1> DEFINE ks == [keys EXCEPT ![k] = [state |-> "live", tier |-> user.tier]]
             c  == [job[h] EXCEPT !.new = k,
                                  !.stage = IF job[h].old = NoKey THEN "linking" ELSE "moving"]
  <1>0. /\ LinkedOK /\ MovingOK /\ job \in [Handlers -> Job] /\ job[h] \in Job
        /\ user \in User /\ keys \in [Keys -> Key] /\ NoKey \notin Keys
    BY InvParts, AccountAssumption DEF Counters, LinkedOK, JobsOK
  <1>1. job[h].stage = "keying" /\ keys[k].state = "none"
    BY DEF CreateKey, At
  <1>2. job[h].old = user.key
    BY <1>1, InRotation DEF RotStages
  <1>3. user.key # k
    BY <1>0, <1>1 DEF LinkedOK, Kept
  <1>4. ks \in [Keys -> Key] /\ \A x \in Keys : keys[x].state # "none" => ks[x].state # "none"
    BY <1>0, <1>1 DEF Key, User
  <1>5. c.new = k /\ c.old = user.key /\ c.stage \in {"linking", "moving"} /\ ~c.holds
    BY <1>0, <1>1, <1>2, NoSlot DEF Job
  <1>6. /\ WriteStore(ks, usage, ok) /\ UNCHANGED <<charged, uncounted>>
        /\ job' = [job EXCEPT ![h] = c] \/ Return(h)
    BY <1>0 DEF CreateKey
  <1> HIDE DEF ks, c
  <1>7. SlotsStay /\ MovingOK'
    <2>1. CASE Return(h)
      BY <1>0, <2>1, ReturnStep
    <2>2. CASE job' = [job EXCEPT ![h] = c]
      <3>1. job'[h] = c /\ \A g \in Handlers \ {h} : job'[g] = job[g]
        BY <1>0, <2>2
      <3> QED
        BY <1>0, <1>3, <1>5, <3>1 DEF SlotsStay, NoneHolds, NoneOwes, Owes, MovingOK
    <2> QED
      BY <1>6, <2>1, <2>2
  <1> QED
    BY <1>4, <1>6, <1>7, StoreWrite

\* The old key is deleted, or the copy of its counters throws: the counters
\* stay as they are.
LEMMA DeleteCounters ==
    ASSUME Inv, Counters, NEW h \in Handlers, NEW ok \in BOOLEAN,
           DeleteOld(h, ok) \/ (~ok /\ CopyCountFails(h))
    PROVE  Counters'
  <1> DEFINE ks == [keys EXCEPT ![job[h].old].state = "deleted"]
  <1>0. LinkedOK /\ keys \in [Keys -> Key]
    BY InvParts DEF Counters
  <1>1. SlotsStay /\ MovingOK'
    <2>1. ~job[h].holds
      BY NoSlot DEF DeleteOld, CopyCountFails, At
    <2> QED
      BY <1>0, <2>1, ReturnStep, GotoStep DEF DeleteOld, CopyCountFails
  <1>2. UNCHANGED <<charged, uncounted>>
    BY DEF DeleteOld, CopyCountFails
  <1>3. CASE UNCHANGED fileVars
    BY <1>1, <1>2, <1>3, NoWrite
  <1>4. CASE WriteStore(keys, usage, ok)
    BY <1>0, <1>1, <1>2, <1>4, StoreWrite
  <1>5. CASE Live(job[h].old) /\ WriteStore(ks, usage, ok)
    <2>1. ks \in [Keys -> Key] /\ \A x \in Keys : keys[x].state # "none" => ks[x].state # "none"
      BY <1>0, <1>5 DEF Key, Live
    <2> HIDE DEF ks
    <2> QED
      BY <1>1, <1>2, <1>5, <2>1, StoreWrite
  <1> QED
    BY <1>3, <1>4, <1>5 DEF DeleteOld, CopyCountFails

\* The key that is linked has the counters already.
LEMMA LinkCounters ==
    ASSUME Inv, Counters, NEW h \in Handlers, NEW ok \in BOOLEAN, Link(h, ok)
    PROVE  Counters'
  <1> DEFINE v == IF job[h].rotating THEN user.version + 1 ELSE user.version
             u == [user EXCEPT !.key = job[h].new, !.version = v]
  <1>0. LinkedOK /\ user \in User /\ MaxVersion \in Nat /\ job[h].stage = "linking"
    BY InvParts, AccountAssumption DEF Counters, Link, At
  <1>1. /\ job[h].new \in Keys /\ disk.keys[job[h].new].state # "none"
        /\ job[h].rotating => user.version < MaxVersion
    BY <1>0, InvParts DEF JobOK, TurnOK, RotStages
  <1>2. v \in 1..MaxVersion
    BY <1>0, <1>1 DEF User
  <1>3. u \in User /\ u.key = job[h].new
    BY <1>0, <1>1, <1>2 DEF User
  <1>4. WriteUser(u, ok) /\ UNCHANGED <<charged, uncounted>>
    BY DEF Link
  <1>5. SlotsStay /\ MovingOK'
    BY <1>0, ReturnStep DEF Link
  <1> HIDE DEF u, v
  <1> QED
    BY <1>1, <1>3, <1>4, <1>5, UserWrite

\* The end of all sessions touches no counter.
LEMMA RevokeCounters ==
    ASSUME Inv, Counters, NEW ok \in BOOLEAN, Revoke(ok)
    PROVE  Counters'
  <1> DEFINE v == user.version + 1
             u == [user EXCEPT !.version = v]
  <1>0. user \in User /\ MaxVersion \in Nat /\ MovingOK
    BY InvParts, AccountAssumption DEF Counters, LinkedOK
  <1>1. v \in 1..MaxVersion
    BY <1>0 DEF Revoke, User
  <1>2. u \in User /\ u.key = user.key
    BY <1>0, <1>1 DEF User
  <1>3. WriteUser(u, ok) /\ UNCHANGED <<charged, uncounted>> /\ job' = job
    BY DEF Revoke
  <1>4. SlotsStay /\ MovingOK'
    BY <1>0, <1>3 DEF SlotsStay, NoneHolds, NoneOwes, MovingOK
  <1> HIDE DEF u, v
  <1> QED
    BY <1>2, <1>3, <1>4, UserWrite

\* One counter of one key changes, and the period's total by as much.
LEMMA OneCounter ==
    ASSUME Inv, NEW k \in Keys, NEW n \in Periods, NEW v \in [Keys -> [Periods -> Nat]],
           \A j \in Keys \ {k} : v[j] = usage[j],
           \A m \in Periods \ {n} : v[k][m] = usage[k][m]
    PROVE  /\ Counted(v, n) + usage[k][n] = Counted(usage, n) + v[k][n]
           /\ \A m \in Periods \ {n} : Counted(v, m) = Counted(usage, m)
           /\ \A m \in Periods : Counted(v, m) \in Nat /\ Counted(usage, m) \in Nat
           /\ usage[k][n] \in Nat
  <1>1. usage \in [Keys -> [Periods -> Nat]]
    BY InvParts
  <1>2. Counted(v, n) + usage[k][n] = Counted(usage, n) + v[k][n]
    BY <1>1, CountedChange
  <1>3. ASSUME NEW m \in Periods \ {n}
        PROVE  Counted(v, m) = Counted(usage, m)
    <2>1. \A j \in Keys : v[j][m] = usage[j][m]
      OBVIOUS
    <2> QED
      BY <2>1, CountedSame
  <1>4. \A m \in Periods : Counted(v, m) \in Nat /\ Counted(usage, m) \in Nat
    BY <1>1, CountedType
  <1>5. usage[k][n] \in Nat
    BY <1>1
  <1> QED
    BY <1>2, <1>3, <1>4, <1>5

\* What a write of the counters alone leaves of keys and user.
LEMMA CountersWrite ==
    ASSUME Inv, LinkedOK, MovingOK', NEW v \in [Keys -> [Periods -> Nat]], NEW ok \in BOOLEAN,
           WriteStore(keys, v, ok)
    PROVE  /\ LinkedOK' /\ usage' = v /\ disk'.usage = IF ok THEN v ELSE disk.usage
           /\ diskErrors' \in Nat /\ diskErrors' >= diskErrors
           /\ ~ok => diskErrors' = diskErrors + 1
  <1>1. FilesOK /\ keys \in [Keys -> Key] /\ disk \in Files
    BY InvParts
  <1>2. user' = user /\ keys' = keys /\ disk'.user = disk.user /\ disk'.keys \in {keys, disk.keys}
    BY <1>1, WriteStoreOK
  <1>3. LinkedOK'
    BY <1>2 DEF LinkedOK, Kept
  <1>4. usage' = v /\ disk'.usage = IF ok THEN v ELSE disk.usage
    BY <1>1 DEF WriteStore, Files
  <1> QED
    BY <1>3, <1>4, ErrorsGrow DEF WriteStore

\* A slot is taken, or counted and not taken when the write throws.
LEMMA ReserveCounters ==
    ASSUME Inv, Counters, NEW h \in Handlers, NEW ok \in BOOLEAN, Reserve(h, ok)
    PROVE  Counters'
  <1>0. /\ LinkedOK /\ MovingOK /\ Covered /\ Blamed /\ user \in User
        /\ usage \in [Keys -> [Periods -> Nat]] /\ disk.usage \in [Keys -> [Periods -> Nat]]
        /\ charged \in [Periods -> Nat] /\ uncounted \in [Periods -> Nat]
        /\ job \in [Handlers -> Job] /\ job[h] \in Job
    BY InvParts DEF Counters, LinkedOK, CountsOK, JobsOK, Files
  <1>1. job[h].stage = "checking" /\ JobOK(job[h]) /\ ~job[h].holds
    BY InvParts, NoSlot DEF Reserve, At
  <1>k. PICK k \in Keys : k = job[h].old
    BY <1>1 DEF JobOK, CallStages
  <1>n. PICK n \in Periods : n = PeriodOf(k)
    BY <1>0, AccountAssumption DEF PeriodOf, User, Periods
  <1>w. PICK w \in Nat : w = usage[k][n] + 1
    <2>1. usage[k][n] \in Nat
      BY <1>0
    <2> QED
      BY <2>1
  <1>v. PICK v : v = [usage EXCEPT ![k][n] = w]
    OBVIOUS
  <1>c. PICK c : c = [job[h] EXCEPT !.stage = "submitting", !.holds = TRUE, !.period = n]
    OBVIOUS
  <1>2. UNCHANGED <<charged, uncounted>>
    BY DEF Reserve
  <1>3. CASE UNCHANGED fileVars /\ Return(h)
    BY <1>0, <1>2, <1>3, ReturnStep, NoWrite
  <1>4. /\ v \in [Keys -> [Periods -> Nat]]
        /\ Counted(v, n) = Counted(usage, n) + 1
        /\ \A m \in Periods \ {n} : Counted(v, m) = Counted(usage, m)
        /\ \A m \in Periods : Counted(v, m) \in Nat /\ Counted(usage, m) \in Nat
    <2>1. /\ v \in [Keys -> [Periods -> Nat]] /\ v[k][n] = w
          /\ \A j \in Keys \ {k} : v[j] = usage[j]
          /\ \A m \in Periods \ {n} : v[k][m] = usage[k][m]
      BY <1>0, <1>v
    <2>2. /\ Counted(v, n) + usage[k][n] = Counted(usage, n) + v[k][n]
          /\ \A m \in Periods \ {n} : Counted(v, m) = Counted(usage, m)
          /\ \A m \in Periods : Counted(v, m) \in Nat /\ Counted(usage, m) \in Nat
          /\ usage[k][n] \in Nat
      BY <2>1, OneCounter
    <2> QED
      BY <1>w, <2>1, <2>2
  <1>5. CASE WriteStore(keys, v, ok) /\ ok /\ job' = [job EXCEPT ![h] = c]
    <2>1. c.stage = "submitting" /\ c.period = n /\ c.holds
      BY <1>0, <1>c DEF Job
    <2>2. job'[h] = c /\ \A g \in Handlers \ {h} : job'[g] = job[g]
      BY <1>0, <1>5
    <2>3. MovingOK' /\ NoneOwes
      BY <1>0, <2>1, <2>2 DEF MovingOK, NoneOwes, Owes
    <2>4. /\ LinkedOK' /\ usage' = v /\ disk'.usage = v
          /\ diskErrors' \in Nat /\ diskErrors' >= diskErrors
      BY <1>0, <1>4, <1>5, <2>3, CountersWrite
    <2>5. Held(n)' = Held(n) + 1 /\ \A m \in Periods \ {n} : Held(m)' = Held(m)
      BY <1>1, <2>1, <2>2, HeldGains
    <2>6. Covered'
      <3> SUFFICES ASSUME NEW m \in Periods
                   PROVE  Held(m)' + charged[m] <= Counted(v, m) + uncounted[m]
        BY <1>2, <2>4 DEF Covered
      <3>1. Held(m) \in Nat /\ Held(m)' \in Nat /\ charged[m] \in Nat /\ uncounted[m] \in Nat
        BY <1>0, HoldersType, HoldersTypeNext
      <3>2. Held(m) + charged[m] <= Counted(usage, m) + uncounted[m]
        BY <1>0 DEF Covered
      <3>3. CASE m = n
        <4>1. Held(m)' = Held(m) + 1 /\ Counted(v, m) = Counted(usage, m) + 1
          BY <1>4, <2>5, <3>3
        <4> QED
          BY <1>4, <3>1, <3>2, <4>1
      <3>4. CASE m # n
        BY <1>4, <2>5, <3>2, <3>4
      <3> QED
        BY <3>3, <3>4
    <2>7. Blamed'
      BY <1>0, <1>2, <2>3, <2>4, BlamedStays
    <2> QED
      BY <2>4, <2>6, <2>7 DEF Counters
  <1>6. CASE WriteStore(keys, v, ok) /\ ~ok /\ Return(h)
    <2>1. SlotsStay /\ MovingOK'
      BY <1>0, <1>6, ReturnStep
    <2>2. /\ LinkedOK' /\ usage' = v /\ disk'.usage = disk.usage
          /\ diskErrors' \in Nat /\ diskErrors' >= diskErrors
      BY <1>0, <1>4, <1>6, <2>1, CountersWrite
    <2>3. Covered'
      <3> SUFFICES ASSUME NEW m \in Periods
                   PROVE  /\ Held(m)' + charged[m] <= Counted(v, m) + uncounted[m]
                          /\ Held(m)' + charged[m] <= Counted(disk.usage, m) + uncounted[m]
        BY <1>2, <2>2 DEF Covered
      <3>1. /\ Held(m) \in Nat /\ Held(m)' \in Nat /\ charged[m] \in Nat /\ uncounted[m] \in Nat
            /\ Held(m)' <= Held(m) /\ Counted(disk.usage, m) \in Nat
        BY <1>0, <2>1, HoldersType, HoldersTypeNext, HeldLessOrSame, CountedType DEF SlotsStay
      <3>2. /\ Held(m) + charged[m] <= Counted(usage, m) + uncounted[m]
            /\ Held(m) + charged[m] <= Counted(disk.usage, m) + uncounted[m]
        BY <1>0 DEF Covered
      <3>3. Counted(usage, m) <= Counted(v, m)
        <4>1. CASE m = n
          BY <1>4, <4>1
        <4>2. CASE m # n
          BY <1>4, <4>2
        <4> QED
          BY <4>1, <4>2
      <3> QED
        BY <1>4, <3>1, <3>2, <3>3
    <2>4. Blamed'
      BY <1>0, <1>2, <2>1, <2>2, BlamedStays DEF SlotsStay
    <2> QED
      BY <2>2, <2>3, <2>4 DEF Counters
  <1>7. \/ /\ WriteStore(keys, [usage EXCEPT ![k][n] = @ + 1], ok)
           /\ IF ok THEN job' = [job EXCEPT ![h].stage = "submitting", ![h].holds = TRUE, ![h].period = n]
                    ELSE Return(h)
        \/ UNCHANGED fileVars /\ Return(h)
    BY <1>k, <1>n DEF Reserve
  <1>8. [usage EXCEPT ![k][n] = @ + 1] = v
    BY <1>w, <1>v
  <1>9. [job EXCEPT ![h].stage = "submitting", ![h].holds = TRUE, ![h].period = n] = [job EXCEPT ![h] = c]
    BY <1>0, <1>c
  <1> QED
    BY <1>3, <1>5, <1>6, <1>7, <1>8, <1>9

\* The records before the submission, and the one of its failure.
LEMMA RecordCounters ==
    ASSUME Inv, Counters, NEW h \in Handlers, NEW ok \in BOOLEAN, Record(h, ok) \/ NoteFailed(h, ok)
    PROVE  Counters'
  <1>0. LinkedOK /\ MovingOK /\ keys \in [Keys -> Key]
    BY InvParts DEF Counters, LinkedOK
  <1>1. WriteStore(keys, usage, ok) /\ UNCHANGED <<charged, uncounted>>
    BY DEF Record, NoteFailed
  <1>2. job[h].stage \in {"submitting", "failing"}
    BY DEF Record, NoteFailed, At
  <1>3. SlotsStay /\ MovingOK'
    <2>1. CASE UNCHANGED job
      BY <1>0, <2>1 DEF SlotsStay, NoneHolds, NoneOwes, MovingOK
    <2>2. ASSUME NEW stage \in {"failing", "releasing", "unwinding"}, Goto(h, stage)
          PROVE  SlotsStay /\ MovingOK'
      BY <1>0, <1>2, <2>2, CallStep
    <2>3. UNCHANGED job \/ \E stage \in {"failing", "releasing", "unwinding"} : Goto(h, stage)
      BY DEF Record, NoteFailed
    <2> QED
      BY <2>1, <2>2, <2>3
  <1> QED
    BY <1>0, <1>1, <1>3, StoreWrite

\* A submission that passes turns the slot into a charge.
LEMMA PassCounters ==
    ASSUME Inv, Counters, NEW h \in Handlers, NEW ok \in BOOLEAN, SubmitPasses(h, ok)
    PROVE  Counters'
  <1>0. /\ LinkedOK /\ MovingOK /\ Covered /\ Blamed
        /\ job \in [Handlers -> Job] /\ job[h] \in Job
        /\ charged \in [Periods -> Nat] /\ uncounted \in [Periods -> Nat]
        /\ usage \in [Keys -> [Periods -> Nat]] /\ disk.usage \in [Keys -> [Periods -> Nat]]
    BY InvParts DEF Counters, LinkedOK, CountsOK, JobsOK, Files
  <1>n. PICK n \in Periods : n = job[h].period
    BY InvParts DEF Job
  <1>1. job[h].stage = "submitting" /\ job[h].holds
    BY InvParts DEF SubmitPasses, At, JobOK
  <1>2. /\ charged' = [charged EXCEPT ![n] = charged[n] + 1] /\ uncounted' = uncounted
        /\ WriteStore(keys, usage, ok)
    BY <1>n DEF SubmitPasses
  <1> DEFINE stage == IF ok THEN "listing" ELSE "failing"
             c == [job[h] EXCEPT !.stage = stage, !.holds = FALSE]
  <1>3. job' = [job EXCEPT ![h] = c]
    BY <1>0 DEF SubmitPasses
  <1>4. stage \in {"listing", "failing"} /\ (ok => stage = "listing")
    OBVIOUS
  <1> HIDE DEF stage
  <1>5. c.stage = stage /\ ~c.holds
    BY <1>0 DEF Job
  <1> HIDE DEF c
  <1>6. job'[h] = c /\ \A g \in Handlers \ {h} : job'[g] = job[g]
    BY <1>0, <1>3
  <1>7. MovingOK'
    BY <1>0, <1>4, <1>5, <1>6 DEF MovingOK
  <1>8. /\ LinkedOK' /\ usage' = usage /\ disk'.usage \in {usage, disk.usage}
        /\ diskErrors' \in Nat /\ diskErrors' >= diskErrors
        /\ ~ok => diskErrors' = diskErrors + 1
    BY <1>0, <1>2, <1>7, CountersWrite
  <1>9. Held(n)' + 1 = Held(n) /\ \A m \in Periods \ {n} : Held(m)' = Held(m)
    BY <1>1, <1>n, <1>5, <1>6, HeldLoses
  <1>10. Covered'
    <2> SUFFICES ASSUME NEW m \in Periods
                 PROVE  /\ Held(m)' + charged'[m] <= Counted(usage, m) + uncounted[m]
                        /\ Held(m)' + charged'[m] <= Counted(disk.usage, m) + uncounted[m]
      BY <1>2, <1>8 DEF Covered
    <2>1. Held(m)' + charged'[m] = Held(m) + charged[m]
      <3>1. Held(m) \in Nat /\ Held(m)' \in Nat /\ charged[m] \in Nat
        BY <1>0, HoldersType, HoldersTypeNext
      <3>2. charged'[m] = IF m = n THEN charged[m] + 1 ELSE charged[m]
        BY <1>0, <1>2
      <3>3. CASE m = n
        <4>1. Held(m)' + 1 = Held(m) /\ charged'[m] = charged[m] + 1
          BY <1>9, <3>2, <3>3
        <4> QED
          BY <3>1, <4>1
      <3>4. CASE m # n
        BY <1>9, <3>2, <3>4
      <3> QED
        BY <3>3, <3>4
    <2> QED
      BY <1>0, <2>1 DEF Covered
  <1>11. Blamed'
    <2>1. CASE ok
      <3>1. NoneOwes
        BY <1>4, <1>5, <1>6, <2>1 DEF NoneOwes, Owes
      <3> QED
        BY <1>0, <1>2, <1>8, <3>1, BlamedStays
    <2>2. CASE ~ok
      BY <1>0, <1>2, <1>6, <1>8, <2>2, BlamedGains
    <2> QED
      BY <2>1, <2>2
  <1> QED
    BY <1>8, <1>10, <1>11 DEF Counters

\* The receipt: if its write throws, the call owes a slot it has not.
LEMMA ReceiptCounters ==
    ASSUME Inv, Counters, NEW h \in Handlers, NEW ok \in BOOLEAN, AddReceipt(h, ok)
    PROVE  Counters'
  <1>0. /\ LinkedOK /\ MovingOK /\ Covered /\ Blamed /\ user \in User
        /\ job \in [Handlers -> Job] /\ job[h] \in Job /\ FilesOK /\ disk \in Files
    BY InvParts DEF Counters, LinkedOK, JobsOK
  <1>1. job[h].stage = "listing" /\ ~job[h].holds
    BY NoSlot DEF AddReceipt, At
  <1>2. UNCHANGED <<charged, uncounted>>
    BY DEF AddReceipt
  <1>3. CASE ok
    <2>1. SlotsStay /\ MovingOK'
      BY <1>0, <1>3, ReturnStep DEF AddReceipt
    <2>2. WriteUser(user, ok) \/ UNCHANGED fileVars
      BY DEF AddReceipt
    <2> QED
      BY <1>0, <1>2, <2>1, <2>2, UserWrite, NoWrite
  <1>4. CASE ~ok
    <2> DEFINE c == [job[h] EXCEPT !.stage = "unwinding"]
    <2>1. c.stage = "unwinding" /\ ~c.holds
      BY <1>0, <1>1 DEF Job
    <2>2. job' = [job EXCEPT ![h] = c] /\ WriteUser(user, ok)
      BY <1>0, <1>4 DEF AddReceipt, Goto
    <2> HIDE DEF c
    <2>3. job'[h] = c /\ \A g \in Handlers \ {h} : job'[g] = job[g]
      BY <1>0, <2>2
    <2>4. MovingOK' /\ NoneHolds
      BY <1>0, <2>1, <2>3 DEF MovingOK, NoneHolds
    <2>5. /\ user' = user /\ keys' = keys /\ disk'.keys = disk.keys
          /\ disk'.user = disk.user /\ usage' = usage /\ disk'.usage = disk.usage
      BY <1>0, <1>4, <2>2, WriteUserOK DEF WriteUser
    <2>6. LinkedOK'
      BY <1>0, <2>4, <2>5 DEF LinkedOK, Kept
    <2>7. Covered'
      BY <1>0, <1>2, <2>4, <2>5, CoveredStays
    <2>8. Blamed'
      BY <1>0, <1>2, <1>4, <2>2, <2>3, ErrorsGrow, BlamedGains DEF WriteUser
    <2> QED
      BY <2>6, <2>7, <2>8 DEF Counters
  <1> QED
    BY <1>3, <1>4

\* A slot is given back: the one the call holds, or one more than it holds,
\* which a failed write is to blame for.
LEMMA ReleaseCounters ==
    ASSUME Inv, Counters, NEW h \in Handlers, NEW ok \in BOOLEAN, Release(h, ok)
    PROVE  Counters'
  <1>0. /\ LinkedOK /\ MovingOK /\ Covered /\ Blamed
        /\ usage \in [Keys -> [Periods -> Nat]] /\ disk.usage \in [Keys -> [Periods -> Nat]]
        /\ charged \in [Periods -> Nat] /\ uncounted \in [Periods -> Nat]
        /\ job \in [Handlers -> Job] /\ job[h] \in Job
    BY InvParts DEF Counters, LinkedOK, CountsOK, JobsOK, Files
  <1>1. job[h].stage \in {"releasing", "unwinding"} /\ JobOK(job[h])
    BY InvParts DEF Release
  <1>k. PICK k \in Keys : k = job[h].old
    BY <1>1 DEF JobOK, CallStages
  <1>n. PICK n \in Periods : n = job[h].period
    BY <1>0 DEF Job
  <1>w. PICK w : w = usage[k][n] - 1
    OBVIOUS
  <1>v. PICK v : v = [usage EXCEPT ![k][n] = w]
    OBVIOUS
  <1>c. PICK c : c = [job[h] EXCEPT !.stage = "unwinding", !.holds = FALSE]
    OBVIOUS
  <1>2. c.stage = "unwinding" /\ ~c.holds /\ c.period = n
    BY <1>0, <1>n, <1>c DEF Job
  <1>3. /\ charged' = charged
        /\ \/ /\ usage[k][n] > 0 /\ WriteStore(keys, v, ok)
              /\ uncounted' = IF job[h].holds THEN uncounted ELSE [uncounted EXCEPT ![n] = @ + 1]
           \/ ok /\ UNCHANGED <<fileVars, uncounted>>
        /\ IF ok \/ job[h].stage = "unwinding" THEN Return(h) ELSE job' = [job EXCEPT ![h] = c]
    <2>1. [usage EXCEPT ![k][n] = @ - 1] = v
      BY <1>w, <1>v
    <2>2. [job EXCEPT ![h].stage = "unwinding", ![h].holds = FALSE] = [job EXCEPT ![h] = c]
      BY <1>0, <1>c
    <2> QED
      BY <1>k, <1>n, <2>1, <2>2 DEF Release, At
  <1>4. CASE ok /\ UNCHANGED <<fileVars, uncounted>>
    BY <1>0, <1>3, <1>4, ReturnStep, NoWrite
  <1>5. CASE /\ usage[k][n] > 0 /\ WriteStore(keys, v, ok)
             /\ uncounted' = IF job[h].holds THEN uncounted ELSE [uncounted EXCEPT ![n] = @ + 1]
    <2>1. w \in Nat
      <3>1. usage[k][n] \in Nat
        BY <1>0
      <3> QED
        BY <1>5, <1>w, <3>1
    <2>2. /\ v \in [Keys -> [Periods -> Nat]]
          /\ Counted(v, n) + 1 = Counted(usage, n)
          /\ \A m \in Periods \ {n} : Counted(v, m) = Counted(usage, m)
          /\ \A m \in Periods : Counted(v, m) \in Nat /\ Counted(usage, m) \in Nat
      <3>1. /\ v \in [Keys -> [Periods -> Nat]] /\ v[k][n] = w
            /\ \A j \in Keys \ {k} : v[j] = usage[j]
            /\ \A m \in Periods \ {n} : v[k][m] = usage[k][m]
        BY <1>0, <1>v, <2>1
      <3>2. /\ Counted(v, n) + usage[k][n] = Counted(usage, n) + v[k][n]
            /\ \A m \in Periods \ {n} : Counted(v, m) = Counted(usage, m)
            /\ \A m \in Periods : Counted(v, m) \in Nat /\ Counted(usage, m) \in Nat
            /\ usage[k][n] \in Nat
        BY <3>1, OneCounter
      <3> QED
        BY <1>w, <3>1, <3>2
    <2>3. /\ \A g \in Handlers \ {h} : job'[g] = job[g]
          /\ job'[h] = Idle \/ (~ok /\ job[h].stage # "unwinding" /\ job'[h] = c)
      BY <1>0, <1>3 DEF Return
    <2>4. ~Idle.holds /\ Idle.stage = "idle"
      BY DEF Idle
    <2>5. MovingOK' /\ NoneHolds /\ ~job'[h].holds
      BY <1>0, <1>2, <2>3, <2>4 DEF MovingOK, NoneHolds
    <2>6. /\ LinkedOK' /\ usage' = v /\ disk'.usage \in {v, disk.usage}
          /\ diskErrors' \in Nat /\ diskErrors' >= diskErrors
          /\ ~ok => diskErrors' = diskErrors + 1
      BY <1>0, <1>5, <2>2, <2>5, CountersWrite
    <2>7. /\ uncounted'[n] \in Nat
          /\ \A m \in Periods \ {n} : uncounted'[m] = uncounted[m] /\ Held(m)' = Held(m)
          /\ Held(n)' + uncounted[n] + 1 = Held(n) + uncounted'[n]
          /\ Held(n)' <= Held(n) /\ uncounted[n] <= uncounted'[n]
      <3>1. Held(n) \in Nat /\ Held(n)' \in Nat /\ uncounted[n] \in Nat
        BY <1>0, HoldersType, HoldersTypeNext
      <3>2. CASE job[h].holds
        <4>1. Held(n)' + 1 = Held(n) /\ \A m \in Periods \ {n} : Held(m)' = Held(m)
          BY <1>n, <2>3, <2>5, <3>2, HeldLoses
        <4>2. uncounted' = uncounted
          BY <1>5, <3>2
        <4> QED
          BY <3>1, <4>1, <4>2
      <3>3. CASE ~job[h].holds
        <4>1. \A m \in Periods : Holders(m)' = Holders(m)
          BY <2>3, <2>5, <3>3 DEF Holders
        <4>2. \A m \in Periods : Held(m)' = Held(m)
          BY <4>1, HoldersType, HoldersTypeNext
        <4>3. uncounted' = [uncounted EXCEPT ![n] = @ + 1]
          BY <1>5, <3>3
        <4>4. uncounted'[n] = uncounted[n] + 1 /\ \A m \in Periods \ {n} : uncounted'[m] = uncounted[m]
          BY <1>0, <4>3
        <4> QED
          BY <3>1, <4>2, <4>4
      <3> QED
        BY <3>2, <3>3
    <2>8. Covered'
      <3> SUFFICES ASSUME NEW m \in Periods
                   PROVE  /\ Held(m)' + charged[m] <= Counted(v, m) + uncounted'[m]
                          /\ Held(m)' + charged[m] <= Counted(disk.usage, m) + uncounted'[m]
        BY <1>3, <2>6 DEF Covered
      <3>1. /\ Held(m) \in Nat /\ Held(m)' \in Nat /\ charged[m] \in Nat /\ uncounted[m] \in Nat
            /\ Counted(disk.usage, m) \in Nat /\ Counted(v, m) \in Nat /\ Counted(usage, m) \in Nat
        BY <1>0, <2>2, HoldersType, HoldersTypeNext, CountedType
      <3>2. /\ Held(m) + charged[m] <= Counted(usage, m) + uncounted[m]
            /\ Held(m) + charged[m] <= Counted(disk.usage, m) + uncounted[m]
        BY <1>0 DEF Covered
      <3>3. CASE m = n
        <4>1. /\ Counted(v, m) + 1 = Counted(usage, m) /\ uncounted'[m] \in Nat
              /\ Held(m)' + uncounted[m] + 1 = Held(m) + uncounted'[m]
              /\ Held(m)' <= Held(m) /\ uncounted[m] <= uncounted'[m]
          BY <2>2, <2>7, <3>3
        <4> QED
          BY <3>1, <3>2, <4>1
      <3>4. CASE m # n
        BY <2>2, <2>7, <3>2, <3>4
      <3> QED
        BY <3>3, <3>4
    <2>9. Blamed'
      <3>1. CASE job[h].holds /\ job'[h] = Idle
        <4>1. NoneOwes
          BY <2>3, <2>4, <3>1 DEF NoneOwes, Owes
        <4> QED
          BY <1>0, <1>5, <2>6, <3>1, <4>1, BlamedStays
      <3>2. CASE job[h].holds /\ ~ok
        BY <1>0, <1>5, <2>3, <2>6, <3>2, BlamedGains
      <3>3. CASE ~job[h].holds
        <4>1. Owes(job[h]) /\ uncounted' = [uncounted EXCEPT ![n] = @ + 1]
          BY <1>1, <1>5, <3>3 DEF Owes
        <4>2. NoneOwes
          BY <1>n, <1>2, <2>3, <2>4, <4>1 DEF NoneOwes, Owes
        <4>3. ~Owes(job'[h]) \/ diskErrors' = diskErrors + 1
          BY <2>3, <2>4, <2>6 DEF Owes
        <4> QED
          BY <1>0, <1>n, <2>3, <2>6, <4>1, <4>2, <4>3, BlamedMoves
      <3> QED
        BY <2>3, <3>1, <3>2, <3>3
    <2> QED
      BY <2>6, <2>8, <2>9 DEF Counters
  <1> QED
    BY <1>3, <1>4, <1>5

\* Calls and handlers that wait keep the counters right.
LEMMA WaitCounters ==
    ASSUME Inv, Counters, NEW h \in Handlers, Wait(h)
    PROVE  Counters'
  <1>0. LinkedOK /\ MovingOK
    BY DEF Counters, LinkedOK
  <1>1. ASSUME NEW e \in ToSet(due), Ignore(h, e)
        PROVE  Counters'
    BY <1>0, <1>1, NoWrite DEF Ignore, SlotsStay, NoneHolds, NoneOwes, MovingOK
  <1>2. ASSUME NEW e \in ToSet(due), Retrieve(h, e)
        PROVE  Counters'
    <2>1. PICK x : job' = [job EXCEPT ![h] = [Idle EXCEPT !.stage = "retrieving", !.event = e,
                                                          !.seen = x]]
      BY <1>2 DEF Retrieve
    <2> DEFINE c == [Idle EXCEPT !.stage = "retrieving", !.event = e, !.seen = x]
    <2>2. c.stage = "retrieving" /\ ~c.holds /\ job' = [job EXCEPT ![h] = c]
      BY <2>1 DEF Idle
    <2> HIDE DEF c
    <2>3. SlotsStay /\ MovingOK'
      BY <1>0, <2>2, JobStep DEF Owes
    <2> QED
      BY <1>2, <2>3, NoWrite DEF Retrieve
  <1>3. CASE Rotate(h)
    <2> DEFINE c == [Idle EXCEPT !.stage = "keying", !.rotating = TRUE, !.old = user.key]
    <2>1. c.stage = "keying" /\ ~c.holds /\ job' = [job EXCEPT ![h] = c]
      BY <1>3 DEF Rotate, Idle
    <2> HIDE DEF c
    <2>2. SlotsStay /\ MovingOK'
      BY <1>0, <2>1, JobStep DEF Owes
    <2> QED
      BY <1>3, <2>2, NoWrite DEF Rotate
  <1>4. CASE RetrieveFails(h)
    <2>1. SlotsStay /\ MovingOK'
      <3>1. ~job[h].holds
        BY <1>4, NoSlot DEF RetrieveFails, At
      <3> QED
        BY <1>0, <1>4, <3>1, ReturnStep, GotoStep DEF RetrieveFails
    <2> QED
      BY <1>4, <2>1, NoWrite DEF RetrieveFails
  <1>5. CASE Ask(h)
    <2> DEFINE c == [Idle EXCEPT !.stage = "checking", !.old = user.key]
    <2>1. c.stage = "checking" /\ ~c.holds /\ job' = [job EXCEPT ![h] = c]
      BY <1>5 DEF Ask, Idle
    <2> HIDE DEF c
    <2>2. SlotsStay /\ MovingOK'
      BY <1>0, <2>1, JobStep DEF Owes
    <2> QED
      BY <1>5, <2>2, NoWrite DEF Ask
  <1>6. CASE SubmitFails(h)
    <2>1. SlotsStay /\ MovingOK'
      BY <1>0, <1>6, CallStep DEF SubmitFails, At
    <2> QED
      BY <1>6, <2>1, NoWrite DEF SubmitFails
  <1> QED
    BY <1>1, <1>2, <1>3, <1>4, <1>5, <1>6 DEF Wait

\* After a crash the file's counters cover what was charged, and no slot is
\* held.
LEMMA CrashCounters ==
    ASSUME Inv, Counters, Crash
    PROVE  Counters'
  <1>1. user' = disk.user /\ keys' = disk.keys /\ usage' = disk.usage /\ disk' = disk
        /\ UNCHANGED <<charged, uncounted, diskErrors>>
    BY DEF Crash
  <1>2. \A g \in Handlers : job'[g].stage = "idle" /\ ~job'[g].holds
    BY DEF Crash, Idle
  <1>3. SlotsStay /\ MovingOK'
    BY <1>2 DEF SlotsStay, NoneHolds, NoneOwes, Owes, MovingOK
  <1>4. LinkedOK'
    BY <1>1, <1>3 DEF Counters, LinkedOK
  <1>5. Covered'
    BY <1>1, <1>3, CoveredStays DEF Counters, SlotsStay
  <1>6. Blamed'
    BY <1>1, <1>3, ErrorsGrow, BlamedStays DEF Counters, SlotsStay
  <1> QED
    BY <1>4, <1>5, <1>6 DEF Counters

\* At the start nothing is charged or held.
LEMMA InitCounters == Init => Counters
  <1> SUFFICES ASSUME Init
               PROVE  Counters
    OBVIOUS
  <1>1. LinkedOK
    BY AccountAssumption, NoUserIsUser, IdleOK DEF Init, LinkedOK, Kept, MovingOK
  <1>2. \A n \in Periods : charged[n] = 0 /\ uncounted[n] = 0 /\ diskErrors = 0
    BY DEF Init
  <1>3. Covered
    <2> SUFFICES ASSUME NEW n \in Periods
                 PROVE  Held(n) + charged[n] <= Counted(usage, n) + uncounted[n]
      BY DEF Init, Covered
    <2>1. Held(n) = 0
      <3>1. Holders(n) = {}
        BY DEF Init, Holders, Idle
      <3> QED
        BY <3>1, HoldersType, FS_EmptySet
    <2>2. Counted(usage, n) \in Nat
      BY CountedType DEF Init
    <2> QED
      BY <1>2, <2>1, <2>2
  <1>4. Blamed
    <2> SUFFICES ASSUME NEW n \in Periods
                 PROVE  uncounted[n] + Cardinality(Owers(n)) <= diskErrors
      BY DEF Blamed
    <2>1. Owers(n) = {}
      BY DEF Init, Owers, Owes, Idle
    <2> QED
      BY <1>2, <2>1, FS_EmptySet
  <1> QED
    BY <1>1, <1>3, <1>4 DEF Counters

\* Every step keeps the counters right.
LEMMA NextCounters == Inv /\ Counters /\ [Next]_vars => Counters'
  <1> SUFFICES ASSUME Inv, Counters, [Next]_vars
               PROVE  Counters'
    OBVIOUS
  <1>0. LinkedOK /\ MovingOK
    BY DEF Counters, LinkedOK
  <1>1. CASE UNCHANGED <<fileVars, job, charged, uncounted>>
    BY <1>0, <1>1, NoWrite DEF SlotsStay, NoneHolds, NoneOwes, MovingOK
  <1>2. UNCHANGED vars \/ Login \/ Subscriber => UNCHANGED <<fileVars, job, charged, uncounted>>
    BY DEF vars, Login, Subscriber, Checkout, ChangePlan, FailPayment, Recover, Renew, Cancel, Happens
  <1>3. ASSUME NEW h \in Handlers, NEW ok \in BOOLEAN, SignUp(h, ok) \/ Rotation(h, ok) \/ Webhook(h, ok)
        PROVE  Counters'
    BY <1>3, SignUpCounters, CreateCounters, MoveCounters, DeleteCounters, LinkCounters,
       WebhookCounters DEF Rotation
  <1>4. ASSUME NEW h \in Handlers, NEW ok \in BOOLEAN, Attest(h, ok)
        PROVE  Counters'
    BY <1>4, ReserveCounters, RecordCounters, PassCounters, ReceiptCounters, ReleaseCounters DEF Attest
  <1> QED
    BY <1>1, <1>2, <1>3, <1>4, WaitCounters, RevokeCounters, CrashCounters DEF Next

-----------------------------------------------------------------------------
(***************************************************************************)
(* Entitlement.  As long as Stripe sends its events in order, one at a     *)
(* time, and nothing fails, the events that are due tell the user record   *)
(* what it lacks: the last one that sets the plan sets it to what Stripe   *)
(* has, every one concerns the subscription that is linked when its turn   *)
(* comes, and when none is left the record is what Stripe has.             *)
(***************************************************************************)
Smooth == Ordered /\ diskErrors = 0 /\ apiErrors = 0

\* Events that set the plan.
Telling(e) == e.kind \in {"checkout", "updated", "deleted"}

\* None of them is due after the i-th event, which then has it right.
LastWord(i) == \A j \in DOMAIN due : j > i => ~Telling(due[j])

Tells(e) ==
    /\ e.kind = "deleted" => Open = {}
    /\ e.kind # "deleted" => Open = {e.sub}
    /\ e.kind \in {"checkout", "paid"} => stripe[e.sub].state = "active"
    /\ e.kind = "payment_failed" => stripe[e.sub].state = "past_due"
    /\ e.kind = "updated" => e.now = stripe[e.sub]

Told == \A i \in DOMAIN due : LastWord(i) => Tells(due[i])

\* f is the next event after e.
Follows(e, f) ==
    IF f.kind = "checkout" THEN e.kind = "deleted" ELSE e.kind # "deleted" /\ f.sub = e.sub

InOrder == \A i \in DOMAIN due : i + 1 \in DOMAIN due => Follows(due[i], due[i + 1])

\* The next event will not be ignored.
Linked(e) == user.customer /\ user.sub \in {NoSub, e.sub}

HeadOK == due # <<>> => due[1].kind = "checkout" \/ Linked(due[1])

\* One webhook at a time, for the first event that is due.
Handling ==
    \A h \in Handlers : job[h].event # NoEvent =>
        /\ due # <<>> /\ job[h].event = due[1]
        /\ job[h].stage \in {"retrieving", "syncing"}
        /\ job[h].stage = "retrieving" => due[1].kind \in {"checkout", "paid"}
        /\ job[h].stage = "syncing" => Telling(due[1]) /\ Linked(due[1])
        /\ \A g \in Handlers : job[g].event # NoEvent => g = h

Applied == \E h \in Handlers : At(h, "syncing")

Matches ==
    /\ \A s \in Open : /\ user.customer
                       /\ user.sub = s
                       /\ user.tier = stripe[s].plan
                       /\ user.status = stripe[s].state
                       /\ user.period = stripe[s].period
    /\ Open = {} => user.tier = "free" /\ user.sub = NoSub

Synced == (\A i \in DOMAIN due : Telling(due[i]) => i = 1 /\ Applied) => Matches

Known == user.known \/ (Open = {} /\ due = <<>>)

Queue == Told /\ InOrder /\ HeadOK /\ Handling /\ Synced /\ Known

\* The key has the user's tier, or gets it with the first event that is due.
KeyFollows == Live(user.key) => keys[user.key].tier = user.tier \/ (due # <<>> /\ Telling(due[1]))
NewFollows ==
    \A h \in Handlers : job[h].stage \in {"moving", "deleting", "linking"} =>
        keys[job[h].new].tier = user.tier
KeyOK == KeyFollows /\ NewFollows /\ disk.keys = keys

Follow == Smooth => Queue /\ KeyOK

\* At the start there is no subscription and no event.
LEMMA InitFollow == Init => Follow
  <1> SUFFICES ASSUME Init
               PROVE  Queue /\ KeyOK
    BY DEF Follow
  <1>1. /\ due = <<>> /\ user = NoUser /\ disk.keys = keys
        /\ \A h \in Handlers : job[h] = Idle
        /\ \A s \in Subs : stripe[s].state = "none"
    BY DEF Init
  <1>2. DOMAIN due = {} /\ Open = {} /\ ~Live(user.key)
    BY <1>1, NoUserIsUser, AccountAssumption DEF Open, Live
  <1>3. Told /\ InOrder /\ HeadOK /\ Synced /\ Known
    BY <1>1, <1>2 DEF Told, InOrder, HeadOK, Synced, Matches, Known, NoUser
  <1>4. Handling /\ NewFollows
    BY <1>1 DEF Handling, NewFollows, Idle
  <1> QED
    BY <1>1, <1>2, <1>3, <1>4 DEF Queue, KeyOK, KeyFollows

\* The queue of events is a sequence of events, with its head first.
LEMMA DueType ==
    ASSUME Inv
    PROVE  /\ due \in Seq(Event) /\ Len(due) \in Nat /\ DOMAIN due = 1..Len(due)
           /\ \A i \in DOMAIN due : due[i] \in Event /\ due[i].kind \in Kinds /\ due[i].sub \in Subs
           /\ due # <<>> <=> 1 \in DOMAIN due
           /\ due # <<>> => Head(due) = due[1]
  <1>1. due \in Seq(Event)
    BY InvParts DEF StripeOK
  <1>2. Len(due) \in Nat /\ DOMAIN due = 1..Len(due) /\ (due # <<>> <=> Len(due) # 0)
    BY <1>1, LenProperties, EmptySeq
  <1>3. \A i \in DOMAIN due : due[i] \in Event
    BY <1>1, <1>2, ElementOfSeq
  <1>4. \A e \in Event : e.kind \in Kinds /\ e.sub \in Subs
    BY DEF Event
  <1>5. due # <<>> => Head(due) = due[1]
    BY <1>1
  <1> QED
    BY <1>1, <1>2, <1>3, <1>4, <1>5

\* The handler of an event keeps it, and no other one has any.
LEMMA EventKept ==
    ASSUME Inv, Handling, NEW h \in Handlers
    PROVE  /\ job[h].stage \in HookStages => job[h].event \in Event /\ job[h].event # NoEvent
           /\ job[h].stage \notin {"retrieving", "syncing"} => job[h].event = NoEvent
           /\ job[h].stage # "clearing"
  <1>1. job[h].stage \in HookStages => job[h].event \in Event /\ job[h].event # NoEvent
    BY InvParts, NoEventAssumption DEF JobOK
  <1>2. job[h].event # NoEvent => job[h].stage \in {"retrieving", "syncing"}
    BY DEF Handling
  <1> QED
    BY <1>1, <1>2 DEF HookStages

-----------------------------------------------------------------------------
\* The plan of the user and Stripe's events are left alone; no webhook moves.
SamePlan ==
    /\ user'.known = user.known /\ user'.customer = user.customer /\ user'.sub = user.sub
    /\ user'.tier = user.tier /\ user'.status = user.status /\ user'.period = user.period

SameHooks ==
    \A h \in Handlers : /\ job'[h].event = job[h].event
                        /\ job'[h].event # NoEvent => job'[h].stage = job[h].stage
                        /\ job'[h].stage = "syncing" <=> job[h].stage = "syncing"

\* A step that changes neither Stripe nor the plan nor the webhooks in
\* progress leaves the queue true.
LEMMA QueueStays ==
    ASSUME Inv, Queue, UNCHANGED stripeVars, SamePlan, SameHooks
    PROVE  Queue'
  <1>1. due' = due /\ stripe' = stripe /\ Open' = Open
    BY DEF stripeVars, Open
  <1>2. Told' /\ InOrder'
    BY <1>1 DEF Queue, Told, InOrder, LastWord, Tells, Open
  <1>3. HeadOK'
    BY <1>1 DEF Queue, HeadOK, Linked, SamePlan
  <1>4. Handling'
    BY <1>1 DEF Queue, Handling, Linked, SamePlan, SameHooks
  <1>5. Synced'
    <2>1. Applied' <=> Applied
      BY DEF Applied, At, SameHooks
    <2>2. Matches => Matches'
      BY <1>1 DEF Matches, SamePlan
    <2> QED
      BY <1>1, <2>1, <2>2 DEF Queue, Synced
  <1>6. Known'
    BY <1>1 DEF Queue, Known, SamePlan
  <1> QED
    BY <1>2, <1>3, <1>4, <1>5, <1>6 DEF Queue

\* No webhook is in progress.
NoHook == \A h \in Handlers : job'[h].event = NoEvent /\ job'[h].stage # "syncing"

\* The first event is answered.
LEMMA AnswerHead ==
    ASSUME Inv, Ordered, NEW e, Answer(e)
    PROVE  /\ due # <<>> /\ e = due[1]
           /\ DOMAIN due' = 1..(Len(due) - 1)
           /\ \A i \in DOMAIN due' : i + 1 \in DOMAIN due /\ due'[i] = due[i + 1]
           /\ due' # <<>> => 1 \in DOMAIN due'
  <1>1. 1 \in DOMAIN due /\ due[1] = e /\ due' = RemoveAt(due, 1)
    BY DEF Answer
  <1>2. due \in Seq(Event) /\ Len(due) \in Nat \ {0} /\ DOMAIN due = 1..Len(due) /\ due # <<>>
    BY <1>1, DueType
  <1> DEFINE b == SubSeq(due, 2, Len(due))
  <1>3. due' = SubSeq(due, 1, 0) \o b
    BY <1>1 DEF RemoveAt
  <1>4. SubSeq(due, 1, 0) = <<>>
    BY <1>2, SubSeqProperties
  <1>5. b \in Seq(Event) /\ Len(b) = Len(due) - 1 /\ \A i \in 1..Len(b) : b[i] = due[i + 1]
    BY <1>2, SubSeqProperties
  <1> HIDE DEF b
  <1>6. due' = b
    BY <1>3, <1>4, <1>5, ConcatEmptySeq
  <1>7. DOMAIN b = 1..Len(b) /\ (b # <<>> => Len(b) # 0)
    BY <1>5, LenProperties, EmptySeq
  <1> QED
    BY <1>1, <1>2, <1>5, <1>6, <1>7

\* An answered event may go when the record has what it told, or a later one
\* will tell it.
LEMMA Dequeue ==
    ASSUME Inv, Queue, Ordered, NEW e, Answer(e), UNCHANGED stripe,
           user'.known = user.known, user'.customer = user.customer, user'.sub = user.sub,
           Linked(due[1]), NoHook, LastWord(1) => Matches'
    PROVE  Queue'
  <1>1. /\ due # <<>> /\ DOMAIN due' = 1..(Len(due) - 1) /\ Len(due) \in Nat
        /\ DOMAIN due = 1..Len(due)
        /\ \A i \in DOMAIN due' : i + 1 \in DOMAIN due /\ due'[i] = due[i + 1]
        /\ due' # <<>> => 1 \in DOMAIN due'
    BY AnswerHead, DueType
  <1>2. Told'
    <2> SUFFICES ASSUME NEW i \in DOMAIN due', LastWord(i)'
                 PROVE  Tells(due[i])'
      BY DEF Told
    <2>1. ASSUME NEW j \in DOMAIN due, j > i + 1
          PROVE  ~Telling(due[j])
      <3>1. j - 1 \in DOMAIN due' /\ j - 1 > i /\ (j - 1) + 1 = j
        BY <1>1, <2>1
      <3> QED
        BY <1>1, <3>1 DEF LastWord
    <2>2. Tells(due[i + 1])
      BY <1>1, <2>1 DEF Queue, Told, LastWord
    <2>3. due'[i] = due[i + 1] /\ stripe' = stripe
      BY <1>1
    <2> QED
      BY <2>2, <2>3 DEF Tells, Open
  <1>3. InOrder'
    BY <1>1 DEF Queue, InOrder
  <1>4. HeadOK'
    <2> SUFFICES ASSUME due' # <<>>
                 PROVE  due'[1].kind = "checkout" \/ Linked(due[1])'
      BY DEF HeadOK
    <2>0. 1 \in DOMAIN due'
      BY <1>1
    <2>1. due'[1] = due[1 + 1] /\ 1 \in DOMAIN due /\ 1 + 1 \in DOMAIN due
      BY <1>1, <2>0
    <2>2. Follows(due[1], due[1 + 1])
      BY <2>1 DEF Queue, InOrder
    <2> QED
      BY <2>1, <2>2 DEF Follows, Linked
  <1>5. Handling'
    BY DEF Handling, NoHook
  <1>6. Synced'
    <2> SUFFICES ASSUME \A i \in DOMAIN due' : Telling(due'[i]) => i = 1 /\ Applied'
                 PROVE  Matches'
      BY DEF Synced
    <2>1. \A i \in DOMAIN due' : ~Telling(due'[i])
      BY DEF Applied, At, NoHook
    <2>2. ASSUME NEW j \in DOMAIN due, j > 1
          PROVE  ~Telling(due[j])
      <3>1. j - 1 \in DOMAIN due' /\ (j - 1) + 1 = j
        BY <1>1, <2>2
      <3> QED
        BY <1>1, <2>1, <3>1
    <2> QED
      BY <2>2 DEF LastWord
  <1>7. Known'
    BY <1>1 DEF Queue, Known
  <1> QED
    BY <1>2, <1>3, <1>4, <1>5, <1>6, <1>7 DEF Queue

\* The first event sets the plan; the key is still to follow.
LEMMA Apply ==
    ASSUME Inv, Queue, NEW h \in Handlers, due # <<>>, Telling(due[1]), UNCHANGED stripeVars,
           job'[h].event = due[1], job'[h].stage = "syncing",
           \A g \in Handlers \ {h} : job'[g].event = NoEvent /\ job'[g].stage # "syncing",
           user'.known = user.known, Linked(due[1])', LastWord(1) => Matches'
    PROVE  Queue'
  <1>1. due' = due /\ stripe' = stripe
    BY DEF stripeVars
  <1>2. Told' /\ InOrder'
    BY <1>1 DEF Queue, Told, InOrder, LastWord, Tells, Open
  <1>3. HeadOK'
    BY <1>1 DEF HeadOK
  <1>4. Handling'
    BY <1>1 DEF Handling
  <1>5. Synced'
    <2>1. (\A i \in DOMAIN due : Telling(due[i]) => i = 1) => LastWord(1)
      BY DueType DEF LastWord
    <2> QED
      BY <1>1, <2>1 DEF Synced
  <1>6. Known'
    BY <1>1 DEF Queue, Known, Open
  <1> QED
    BY <1>2, <1>3, <1>4, <1>5, <1>6 DEF Queue

-----------------------------------------------------------------------------
\* Stripe keeps one subscription open at most, and the last event that is
\* due tells which.
LEMMA LastEvent ==
    ASSUME Inv, Queue
    PROVE  /\ \A s, t \in Open : s = t
           /\ due # <<>> => /\ Len(due) \in DOMAIN due
                            /\ due[Len(due)].kind = "deleted" <=> Open = {}
                            /\ \A s \in Open : due[Len(due)].sub = s
           /\ due = <<>> => Matches
  <1>1. CASE due = <<>>
    <2>1. DOMAIN due = {}
      BY <1>1, DueType
    <2>2. Matches
      BY <2>1 DEF Queue, Synced
    <2> QED
      BY <1>1, <2>2 DEF Matches
  <1>2. CASE due # <<>>
    <2>1. Len(due) \in DOMAIN due /\ \A j \in DOMAIN due : ~(j > Len(due))
      BY <1>2, DueType
    <2>2. Tells(due[Len(due)])
      BY <2>1 DEF Queue, Told, LastWord
    <2> QED
      BY <1>2, <2>1, <2>2 DEF Tells
  <1> QED
    BY <1>1, <1>2

\* The state of Stripe and the kinds of events that tell it.
TellKinds(s, now, kinds) ==
    /\ kinds \in {<<"checkout">>, <<"updated">>, <<"deleted">>,
                  <<"updated", "payment_failed">>, <<"updated", "paid">>}
    /\ IF kinds = <<"checkout">> THEN user.known /\ Open = {} ELSE s \in Open
    /\ IF kinds = <<"deleted">> THEN now.state \notin {"active", "past_due"}
                                ELSE now.state \in {"active", "past_due"}
    /\ kinds \in {<<"checkout">>, <<"updated", "paid">>} => now.state = "active"
    /\ kinds = <<"updated", "payment_failed">> => now.state = "past_due"

\* What happens at Stripe appends its events to the queue.
LEMMA Enqueued ==
    ASSUME Inv, NEW s \in Subs, NEW now, NEW kinds \in Seq(Kinds), Happens(s, now, kinds)
    PROVE  /\ DOMAIN due' = 1..(Len(due) + Len(kinds)) /\ Len(due) \in Nat /\ Len(kinds) \in Nat
           /\ DOMAIN due = 1..Len(due) /\ DOMAIN kinds = 1..Len(kinds)
           /\ \A i \in DOMAIN due : i \in DOMAIN due' /\ due'[i] = due[i]
           /\ \A i \in DOMAIN kinds : /\ Len(due) + i \in DOMAIN due'
                                      /\ due'[Len(due) + i].kind = kinds[i]
                                      /\ due'[Len(due) + i].sub = s
                                      /\ due'[Len(due) + i].now = now
  <1> DEFINE more == [i \in DOMAIN kinds |-> [kind |-> kinds[i], sub |-> s, now |-> now]]
             F == [kind : Kinds, sub : Subs, now : Subscription \cup {now}]
  <1>1. DOMAIN kinds = 1..Len(kinds) /\ Len(kinds) \in Nat /\ \A i \in 1..Len(kinds) : kinds[i] \in Kinds
    BY LenProperties, ElementOfSeq
  <1>2. more \in Seq(F) /\ Len(more) = Len(kinds)
    <2>1. more \in [1..Len(kinds) -> F]
      BY <1>1
    <2> HIDE DEF more, F
    <2> QED
      BY <1>1, <2>1, SeqDef, LenProperties
  <1>3. \A i \in 1..Len(kinds) : more[i].kind = kinds[i] /\ more[i].sub = s /\ more[i].now = now
    BY <1>1
  <1>4. due \in Seq(F) /\ Len(due) \in Nat /\ DOMAIN due = 1..Len(due)
    <2>1. due \in Seq(Event) /\ Len(due) \in Nat /\ DOMAIN due = 1..Len(due)
      BY DueType
    <2>2. due \in [1..Len(due) -> F]
      <3>1. \A i \in 1..Len(due) : due[i] \in Event
        BY <2>1, ElementOfSeq
      <3>2. Event \subseteq F
        BY DEF Event
      <3>3. due \in [1..Len(due) -> Event]
        BY <2>1, LenProperties
      <3> HIDE DEF F
      <3> QED
        BY <3>2, <3>3
    <2> HIDE DEF F
    <2> QED
      BY <2>1, <2>2, SeqDef
  <1>5. due' = due \o more
    BY DEF Happens
  <1> HIDE DEF more, F
  <1>6. due' \in Seq(F) /\ Len(due') = Len(due) + Len(kinds)
    <2>1. due \in Seq(F) /\ more \in Seq(F)
      BY <1>2, <1>4
    <2>2. due \o more \in Seq(F) /\ Len(due \o more) = Len(due) + Len(more)
      BY <2>1, ConcatProperties
    <2> QED
      BY <1>2, <1>5, <2>2
  <1>7. \A i \in 1..(Len(due) + Len(kinds)) :
            due'[i] = IF i <= Len(due) THEN due[i] ELSE more[i - Len(due)]
    BY <1>2, <1>4, <1>5, ConcatProperties
  <1>8. DOMAIN due' = 1..(Len(due) + Len(kinds))
    BY <1>6, LenProperties
  <1>9. \A i \in DOMAIN due : i \in DOMAIN due' /\ due'[i] = due[i]
    BY <1>1, <1>4, <1>7, <1>8
  <1>10. ASSUME NEW i \in DOMAIN kinds
         PROVE  Len(due) + i \in DOMAIN due' /\ due'[Len(due) + i] = more[i]
    <2>1. /\ Len(due) + i \in 1..(Len(due) + Len(kinds)) /\ ~(Len(due) + i <= Len(due))
          /\ (Len(due) + i) - Len(due) = i
      BY <1>1, <1>4
    <2> QED
      BY <1>7, <1>8, <2>1
  <1> QED
    BY <1>1, <1>3, <1>4, <1>8, <1>9, <1>10

\* The new events tell what happened, so the queue is true of the new state of
\* Stripe.
LEMMA Enqueue ==
    ASSUME Inv, Queue, NEW s \in Subs, NEW now \in Subscription, NEW kinds \in Seq(Kinds),
           TellKinds(s, now, kinds), Happens(s, now, kinds)
    PROVE  Queue'
  <1>0. kinds \in Seq(Kinds) /\ Len(kinds) \in 1..2 /\ Telling([kind |-> kinds[1]])
    <2>1. Len(kinds) \in 1..2 /\ kinds[1] \in {"checkout", "updated", "deleted"}
      BY DEF TellKinds
    <2> QED
      BY <2>1 DEF Telling
  <1> DEFINE L == Len(due)
  <1>1. /\ DOMAIN due' = 1..(L + Len(kinds)) /\ L \in Nat
        /\ DOMAIN due = 1..L /\ DOMAIN kinds = 1..Len(kinds)
        /\ \A i \in DOMAIN due : i \in DOMAIN due' /\ due'[i] = due[i]
    BY <1>0, Enqueued
  <1>2. \A i \in DOMAIN kinds : /\ L + i \in DOMAIN due' /\ due'[L + i].kind = kinds[i]
                                /\ due'[L + i].sub = s /\ due'[L + i].now = now
    BY <1>0, Enqueued
  <1>3. /\ stripe \in [Subs -> Subscription] /\ stripe' = [stripe EXCEPT ![s] = now]
        /\ UNCHANGED <<fileVars, job, tokenVars, charged, uncounted, crashes, apiErrors>>
    BY InvParts DEF Happens, StripeOK
  <1>4. user' = user /\ job' = job
    BY <1>3 DEF fileVars
  <1>5. Open' = IF kinds = <<"deleted">> THEN {} ELSE {s}
    <2>1. \A t \in Open : t = s
      BY LastEvent DEF TellKinds
    <2>2. \A t \in Subs : stripe'[t] = IF t = s THEN now ELSE stripe[t]
      BY <1>3
    <2> QED
      BY <2>1, <2>2 DEF Open, TellKinds
  <1>6. 1 \in DOMAIN kinds /\ Telling(due'[L + 1])
    BY <1>0, <1>1, <1>2 DEF Telling
  <1>7. stripe'[s] = now
    BY <1>3
  <1> HIDE DEF L
  <1>8. Told'
    <2> SUFFICES ASSUME NEW i \in DOMAIN due', LastWord(i)'
                 PROVE  Tells(due[i])'
      BY DEF Told
    <2>1. ~(L + 1 > i)
      BY <1>2, <1>6 DEF LastWord
    <2>2. PICK n \in DOMAIN kinds : i = L + n
      <3>1. i - L \in DOMAIN kinds /\ i = L + (i - L)
        BY <1>0, <1>1, <2>1
      <3> QED
        BY <3>1
    <2>3. due'[i].kind = kinds[n] /\ due'[i].sub = s /\ due'[i].now = now
      BY <1>2, <2>2
    <2>4. /\ kinds[n] = "deleted" <=> kinds = <<"deleted">>
          /\ kinds[n] \in {"checkout", "paid"} => now.state = "active"
          /\ kinds[n] = "payment_failed" => now.state = "past_due"
      BY <1>0, <1>1 DEF TellKinds
    <2> QED
      BY <1>5, <1>7, <2>3, <2>4 DEF Tells
  <1>9. InOrder'
    <2> SUFFICES ASSUME NEW i \in DOMAIN due', i + 1 \in DOMAIN due'
                 PROVE  Follows(due[i], due[i + 1])'
      BY DEF InOrder
    <2>1. CASE i + 1 <= L
      <3>1. i \in DOMAIN due /\ i + 1 \in DOMAIN due
        BY <1>1, <2>1
      <3> QED
        BY <1>1, <3>1 DEF Queue, InOrder, Follows
    <2>2. CASE i = L
      <3>1. due # <<>> /\ i \in DOMAIN due /\ due'[i] = due[L]
        BY <1>1, <2>2, DueType
      <3>2. due[L].kind = "deleted" <=> Open = {}
        BY <3>1, LastEvent DEF L
      <3>3. \A t \in Open : due[L].sub = t
        BY <3>1, LastEvent DEF L
      <3>4. due'[i + 1].kind = kinds[1] /\ due'[i + 1].sub = s
        BY <1>2, <1>6, <2>2
      <3>5. IF kinds[1] = "checkout" THEN Open = {} ELSE s \in Open
        BY DEF TellKinds
      <3> QED
        BY <3>1, <3>2, <3>3, <3>4, <3>5 DEF Follows
    <2>3. CASE i > L
      <3>1. i = L + 1 /\ i + 1 = L + 2 /\ 2 \in DOMAIN kinds
        BY <1>0, <1>1, <2>3
      <3>2. /\ due'[i].kind = kinds[1] /\ due'[i].sub = s
            /\ due'[i + 1].kind = kinds[2] /\ due'[i + 1].sub = s
        BY <1>2, <1>6, <3>1
      <3>3. kinds[1] # "deleted" /\ kinds[2] # "checkout"
        BY <1>1, <3>1 DEF TellKinds
      <3> QED
        BY <3>2, <3>3 DEF Follows
    <2> QED
      BY <1>1, <2>1, <2>2, <2>3
  <1>10. due' # <<>>
    BY <1>2, <1>6
  <1>11. due # <<>> => due'[1] = due[1]
    BY <1>1, DueType
  <1>12. HeadOK'
    <2>1. CASE due # <<>>
      BY <1>4, <1>11, <2>1 DEF Queue, HeadOK, Linked
    <2>2. CASE due = <<>>
      <3>1. L = 0 /\ Matches
        BY <2>2, LastEvent, DueType DEF L
      <3>2. due'[1].kind = kinds[1] /\ due'[1].sub = s
        BY <1>2, <1>6, <3>1
      <3>3. kinds[1] = "checkout" \/ s \in Open
        BY DEF TellKinds
      <3> QED
        BY <1>4, <3>1, <3>2, <3>3 DEF HeadOK, Linked, Matches
    <2> QED
      BY <2>1, <2>2
  <1>13. Handling'
    BY <1>4, <1>10, <1>11 DEF Queue, Handling, Linked
  <1>14. Synced'
    <2> SUFFICES ASSUME \A i \in DOMAIN due' : Telling(due'[i]) => i = 1 /\ Applied'
                 PROVE  FALSE
      BY DEF Synced
    <2>1. L + 1 = 1 /\ Applied
      BY <1>2, <1>4, <1>6 DEF Applied, At
    <2>2. due = <<>>
      BY <1>1, <2>1, DueType
    <2>3. PICK h \in Handlers : job[h].stage = "syncing"
      BY <2>1 DEF Applied, At
    <2>4. job[h].event # NoEvent
      BY <2>3, EventKept DEF Queue, HookStages
    <2> QED
      BY <2>2, <2>4 DEF Queue, Handling
  <1>15. Known'
    BY <1>4 DEF Queue, Known, TellKinds
  <1> QED
    BY <1>8, <1>9, <1>12, <1>13, <1>14, <1>15 DEF Queue

\* Whatever the subscriber does, the events that are due tell what the record
\* lacks.
LEMMA SubscriberFollows ==
    ASSUME Inv, Queue, KeyOK, Subscriber
    PROVE  Queue' /\ KeyOK'
  <1>0. \A s \in Subs : stripe[s] \in Subscription
    BY InvParts DEF StripeOK
  <1>1. PICK s \in Subs, now \in Subscription, kinds \in Seq(Kinds) :
            TellKinds(s, now, kinds) /\ Happens(s, now, kinds)
    <2>0. /\ \A k \in Kinds : <<k>> \in Seq(Kinds)
          /\ \A k, l \in Kinds : <<k, l>> \in Seq(Kinds)
      OBVIOUS
    <2>1. ASSUME NEW s \in Subs, NEW p \in Plans, Checkout(s, p) \/ ChangePlan(s, p)
          PROVE  \E now \in Subscription, kinds \in Seq(Kinds) :
                     TellKinds(s, now, kinds) /\ Happens(s, now, kinds)
      <3>1. CASE Checkout(s, p)
        <4> DEFINE now == [state |-> "active", plan |-> p, period |-> 1]
        <4>1. now \in Subscription /\ now.state = "active"
          BY AccountAssumption DEF Subscription, Status, Tiers, Periods
        <4>2. Happens(s, now, <<"checkout">>) /\ user.known /\ Open = {}
          BY <3>1 DEF Checkout
        <4> HIDE DEF now
        <4>3. TellKinds(s, now, <<"checkout">>)
          BY <4>1, <4>2 DEF TellKinds
        <4> QED
          BY <2>0, <4>1, <4>2, <4>3 DEF Kinds
      <3>2. CASE ChangePlan(s, p)
        <4> DEFINE now == [stripe[s] EXCEPT !.plan = p]
        <4>1. now \in Subscription /\ now.state = stripe[s].state
          BY <1>0 DEF Subscription, Tiers
        <4>2. Happens(s, now, <<"updated">>) /\ s \in Open
          BY <3>2 DEF ChangePlan
        <4> HIDE DEF now
        <4>3. TellKinds(s, now, <<"updated">>)
          BY <4>1, <4>2 DEF TellKinds, Open
        <4> QED
          BY <2>0, <4>1, <4>2, <4>3 DEF Kinds
      <3> QED
        BY <2>1, <3>1, <3>2
    <2>2. ASSUME NEW s \in Subs, FailPayment(s) \/ Recover(s) \/ Cancel(s)
          PROVE  \E now \in Subscription, kinds \in Seq(Kinds) :
                     TellKinds(s, now, kinds) /\ Happens(s, now, kinds)
      <3> DEFINE to(x) == [stripe[s] EXCEPT !.state = x]
      <3>1. \A x \in Status : to(x) \in Subscription /\ to(x).state = x
        BY <1>0 DEF Subscription
      <3> HIDE DEF to
      <3>2. CASE FailPayment(s)
        <4>1. Happens(s, to("past_due"), <<"updated", "payment_failed">>) /\ s \in Open
          BY <2>2, <3>2 DEF FailPayment, Open, to
        <4>2. TellKinds(s, to("past_due"), <<"updated", "payment_failed">>)
          BY <3>1, <4>1 DEF TellKinds, Status
        <4> QED
          BY <2>0, <3>1, <4>1, <4>2 DEF Kinds, Status
      <3>3. CASE Recover(s)
        <4>1. Happens(s, to("active"), <<"updated", "paid">>) /\ s \in Open
          BY <2>2, <3>3 DEF Recover, Open, to
        <4>2. TellKinds(s, to("active"), <<"updated", "paid">>)
          BY <3>1, <4>1 DEF TellKinds, Status
        <4> QED
          BY <2>0, <3>1, <4>1, <4>2 DEF Kinds, Status
      <3>4. CASE Cancel(s)
        <4>1. Happens(s, to("canceled"), <<"deleted">>) /\ s \in Open
          BY <2>2, <3>4 DEF Cancel, Open, to
        <4>2. TellKinds(s, to("canceled"), <<"deleted">>)
          BY <3>1, <4>1 DEF TellKinds, Status
        <4> QED
          BY <2>0, <3>1, <4>1, <4>2 DEF Kinds, Status
      <3> QED
        BY <2>2, <3>2, <3>3, <3>4
    <2>3. ASSUME NEW s \in Subs, Renew(s)
          PROVE  \E now \in Subscription, kinds \in Seq(Kinds) :
                     TellKinds(s, now, kinds) /\ Happens(s, now, kinds)
      <3> DEFINE now == [stripe[s] EXCEPT !.period = stripe[s].period + 1]
      <3>1. stripe[s].period + 1 \in Periods
        BY <1>0, <2>3, AccountAssumption DEF Renew, Subscription, Periods
      <3>2. now \in Subscription /\ now.state = "active"
        BY <1>0, <2>3, <3>1 DEF Subscription, Renew
      <3>3. Happens(s, now, <<"updated", "paid">>) /\ s \in Open
        BY <2>3 DEF Renew, Open
      <3> HIDE DEF now
      <3>4. TellKinds(s, now, <<"updated", "paid">>)
        BY <3>2, <3>3 DEF TellKinds
      <3> QED
        BY <2>0, <3>2, <3>3, <3>4 DEF Kinds
    <2> QED
      BY <2>1, <2>2, <2>3 DEF Subscriber
  <1>2. Queue'
    BY <1>1, Enqueue
  <1>3. user' = user /\ keys' = keys /\ disk' = disk /\ job' = job
    BY <1>1 DEF Happens, fileVars
  <1>4. due # <<>> => due' # <<>> /\ due'[1] = due[1]
    <2>1. \A i \in DOMAIN due : i \in DOMAIN due' /\ due'[i] = due[i]
      BY <1>1, Enqueued
    <2> QED
      BY <2>1, DueType
  <1>5. KeyOK'
    BY <1>3, <1>4 DEF KeyOK, KeyFollows, NewFollows, Live, Telling
  <1> QED
    BY <1>2, <1>5

-----------------------------------------------------------------------------
\* A webhook that is delivered is for the first event, and finds no other.
LEMMA DeliveredFirst ==
    ASSUME Inv, Queue, Ordered, NEW h \in Handlers, NEW e \in ToSet(due), Delivered(h, e)
    PROVE  /\ due # <<>> /\ e = due[1] /\ Quiet /\ job[h] = Idle
           /\ \A g \in Handlers : job[g].event = NoEvent /\ job[g].stage # "syncing"
  <1>1. PICK i \in DOMAIN due : e = due[i]
    BY DEF ToSet
  <1>2. due # <<>>
    BY <1>1, DueType
  <1>3. e = due[1] /\ Quiet /\ job[h].stage = "idle" /\ \A g \in Handlers : job[g].event = NoEvent
    BY <1>2, DueType DEF Delivered, At
  <1>4. job[h] = Idle
    BY <1>3, InvParts DEF JobOK
  <1>5. \A g \in Handlers : job[g].stage # "syncing"
    BY <1>3, EventKept DEF Queue, HookStages
  <1> QED
    BY <1>2, <1>3, <1>4, <1>5

\* One in progress is for the first event too, and is alone.
LEMMA InProgress ==
    ASSUME Inv, Queue, NEW h \in Handlers, job[h].stage \in {"retrieving", "syncing"}
    PROVE  /\ due # <<>> /\ job[h].event = due[1] /\ job[h].event \in Event
           /\ job[h].stage = "retrieving" => due[1].kind \in {"checkout", "paid"}
           /\ job[h].stage = "syncing" => Telling(due[1]) /\ Linked(due[1])
           /\ \A g \in Handlers \ {h} : job[g].event = NoEvent /\ job[g].stage # "syncing"
  <1>1. job[h].event \in Event /\ job[h].event # NoEvent
    BY EventKept DEF Queue, HookStages
  <1>2. /\ due # <<>> /\ job[h].event = due[1]
        /\ job[h].stage = "retrieving" => due[1].kind \in {"checkout", "paid"}
        /\ job[h].stage = "syncing" => Telling(due[1]) /\ Linked(due[1])
        /\ \A g \in Handlers : job[g].event # NoEvent => g = h
    BY <1>1 DEF Queue, Handling
  <1>3. \A g \in Handlers \ {h} : job[g].event = NoEvent /\ job[g].stage # "syncing"
    BY <1>2, EventKept DEF Queue, HookStages
  <1> QED
    BY <1>1, <1>2, <1>3

\* No event is left behind when the last word was said.
LEMMA MatchesNow ==
    ASSUME Inv, Queue, due # <<>>, ~Telling(due[1]), LastWord(1)
    PROVE  Matches /\ Tells(due[1])
  <1>1. \A i \in DOMAIN due : ~Telling(due[i])
    BY DueType DEF LastWord
  <1>2. 1 \in DOMAIN due
    BY DueType
  <1> QED
    BY <1>1, <1>2 DEF Queue, Synced, Told

\* A write that did not throw.
LEMMA FineWrite ==
    ASSUME Inv, NEW ok \in BOOLEAN, CountWrite(ok), diskErrors' = 0
    PROVE  ok = TRUE
  <1>1. diskErrors \in Nat
    BY InvParts, AccountAssumption DEF FilesOK
  <1> QED
    BY <1>1 DEF CountWrite

\* With no failed write so far, this one is in memory and in the file.
LEMMA FineUser ==
    ASSUME Inv, NEW u \in User, NEW ok \in BOOLEAN, WriteUser(u, ok), diskErrors' = 0
    PROVE  ok = TRUE /\ user' = u /\ keys' = keys /\ disk'.keys = disk.keys
  BY FineWrite, WriteUserOK, InvParts DEF WriteUser

\* The same for a write of the store.
LEMMA FineStore ==
    ASSUME Inv, NEW k \in [Keys -> Key], NEW u \in [Keys -> [Periods -> Nat]],
           NEW ok \in BOOLEAN, WriteStore(k, u, ok), diskErrors' = 0
    PROVE  ok = TRUE /\ user' = user /\ keys' = k /\ disk'.keys = k
  BY FineWrite, WriteStoreOK, InvParts DEF WriteStore

\* No rotation is at work while another handler writes.
NewStages == {"moving", "deleting", "linking"}

\* While no rotation has a new key in hand, none can be behind the user's
\* plan.
LEMMA NoneNew ==
    ASSUME Inv, NEW h \in Handlers, Quiet \/ job[h].stage \in InTurn,
           \A g \in Handlers \ {h} : job'[g] = job[g], job'[h].stage \notin NewStages
    PROVE  NewFollows'
  <1>1. \A g \in Handlers \ {h} : job'[g].stage \notin InTurn
    BY InvParts DEF OneTurn, Quiet
  <1> QED
    BY <1>1 DEF NewFollows, NewStages, InTurn

\* The plan changes with an event that sets it, and the rest with another.
LEMMA PlanKeys ==
    ASSUME Inv, KeyOK, NEW h \in Handlers, Quiet \/ job[h].stage \in InTurn,
           \A g \in Handlers \ {h} : job'[g] = job[g], job'[h].stage \notin NewStages,
           user'.key = user.key, keys' = keys, disk'.keys = disk.keys,
           \/ user'.tier = user.tier /\ ~Telling(due[1])
           \/ due' # <<>> /\ Telling(due'[1])
    PROVE  KeyOK'
  <1>1. NewFollows'
    BY NoneNew
  <1>2. KeyFollows'
    BY DEF KeyOK, KeyFollows, Live
  <1> QED
    BY <1>1, <1>2 DEF KeyOK

\* An event that sets the plan, for a user record that then has it.
LEMMA ApplyStep ==
    ASSUME Inv, Queue, KeyOK, NEW h \in Handlers, Quiet, due # <<>>, Telling(due[1]),
           \A g \in Handlers \ {h} : job[g].event = NoEvent /\ job[g].stage # "syncing",
           NEW u, SamePerson(u), NEW ok \in BOOLEAN, Update(h, due[1], u, ok), diskErrors' = 0,
           u.customer, u.sub \in {NoSub, due[1].sub},
           LastWord(1) => Matches'
    PROVE  Queue' /\ KeyOK'
  <1>0. /\ u \in User /\ u.known = user.known /\ u.key = user.key /\ job \in [Handlers -> Job]
        /\ WriteUser(u, ok)
    BY InvParts DEF SamePerson, JobsOK, Update
  <1>1. ok = TRUE /\ user' = u /\ keys' = keys /\ disk'.keys = disk.keys
    BY <1>0, FineUser
  <1> DEFINE e == due[1]
             c == [Idle EXCEPT !.stage = "syncing", !.event = e]
  <1>2. job' = [job EXCEPT ![h] = c] /\ due' = due /\ stripe' = stripe
    BY <1>1 DEF Update, Telling, Handle
  <1>3. c.stage = "syncing" /\ c.event = e
    BY DEF Idle
  <1> HIDE DEF c
  <1>4. job'[h] = c /\ \A g \in Handlers \ {h} : job'[g] = job[g]
    BY <1>0, <1>2
  <1>5. Linked(due[1])'
    BY <1>1, <1>2 DEF Linked
  <1>6. Queue'
    BY <1>0, <1>1, <1>2, <1>3, <1>4, <1>5, Apply DEF stripeVars
  <1>7. KeyOK'
    BY <1>0, <1>1, <1>2, <1>3, <1>4, PlanKeys DEF NewStages
  <1> QED
    BY <1>6, <1>7

\* An event that does not set the plan; it is answered at once.
LEMMA AnswerStep ==
    ASSUME Inv, Queue, KeyOK, Ordered, NEW h \in Handlers, Quiet, due # <<>>, ~Telling(due[1]),
           Linked(due[1]),
           \A g \in Handlers \ {h} : job[g].event = NoEvent /\ job[g].stage # "syncing",
           Return(h), Answer(due[1]), UNCHANGED stripe,
           user'.known = user.known, user'.customer = user.customer, user'.sub = user.sub,
           user'.key = user.key, user'.tier = user.tier, keys' = keys, disk'.keys = disk.keys,
           LastWord(1) => Matches'
    PROVE  Queue' /\ KeyOK'
  <1>1. job'[h] = Idle /\ \A g \in Handlers \ {h} : job'[g] = job[g]
    BY InvParts DEF Return, JobsOK
  <1>2. NoHook
    BY <1>1 DEF NoHook, Idle
  <1>3. Queue'
    BY <1>2, Dequeue
  <1>4. KeyOK'
    BY <1>1, PlanKeys DEF NewStages, Idle
  <1> QED
    BY <1>3, <1>4

\* The record of a user over handleInvoicePaymentFailed and handleInvoicePaid.
LEMMA InvoiceMatches ==
    ASSUME Inv, Queue, due # <<>>, due[1].kind \in {"payment_failed", "paid"}, LastWord(1),
           UNCHANGED stripe, user'.customer = user.customer, user'.sub = user.sub,
           user'.tier = user.tier,
           user'.status \in {user.status, stripe[due[1].sub].state},
           user'.period \in {user.period, stripe[due[1].sub].period}
    PROVE  Matches'
  <1>1. Matches /\ Tells(due[1])
    BY MatchesNow DEF Telling
  <1>2. Open = {due[1].sub} /\ Open' = Open
    BY <1>1 DEF Tells, Open
  <1> QED
    BY <1>1, <1>2 DEF Matches

\* A webhook that writes puts into the record what its event told, and into
\* the key if it gets that far.
LEMMA WebhookFollows ==
    ASSUME Inv, Queue, KeyOK, Ordered, NEW h \in Handlers, NEW ok \in BOOLEAN, Webhook(h, ok),
           diskErrors' = 0
    PROVE  Queue' /\ KeyOK'
  <1>0. /\ user \in User /\ stripe \in [Subs -> Subscription] /\ job \in [Handlers -> Job]
        /\ JobOK(job[h]) /\ job[h] \in Job
        /\ keys \in [Keys -> Key] /\ usage \in [Keys -> [Periods -> Nat]] /\ disk.keys = keys
    BY InvParts DEF StripeOK, JobsOK, KeyOK
  <1>1. ASSUME NEW e \in ToSet(due), SubscriptionUpdated(h, e, ok)
        PROVE  Queue' /\ KeyOK'
    <2> DEFINE u == [user EXCEPT !.tier = e.now.plan, !.status = e.now.state,
                                 !.sub = e.sub, !.period = e.now.period]
    <2>1. /\ due # <<>> /\ e = due[1] /\ Quiet
          /\ \A g \in Handlers : job[g].event = NoEvent /\ job[g].stage # "syncing"
      BY <1>1, DeliveredFirst DEF SubscriptionUpdated
    <2>2. e.now \in Subscription /\ e.sub \in Subs /\ e.kind = "updated" /\ Update(h, e, u, ok)
      BY <1>1, DueEvent DEF SubscriptionUpdated
    <2>3. /\ SamePerson(u) /\ u.customer = user.customer /\ u.sub = e.sub /\ u.tier = e.now.plan
          /\ u.status = e.now.state /\ u.period = e.now.period
      BY <1>0, <2>2 DEF SamePerson, User, Subscription
    <2>4. user.customer
      BY <2>1, <2>2 DEF Queue, HeadOK, Linked
    <2> HIDE DEF u
    <2>5. user' = u /\ stripe' = stripe
      BY <2>2 DEF Update, WriteUser
    <2>6. LastWord(1) => Matches'
      <3> SUFFICES ASSUME LastWord(1)
                   PROVE  Matches'
        OBVIOUS
      <3>1. Tells(e)
        BY <2>1, DueType DEF Queue, Told
      <3>2. Open' = {e.sub} /\ e.now = stripe[e.sub]
        BY <2>2, <2>5, <3>1 DEF Tells, Open
      <3> QED
        BY <2>3, <2>4, <2>5, <3>2 DEF Matches
    <2> QED
      BY <2>1, <2>2, <2>3, <2>4, <2>6, ApplyStep DEF Telling
  <1>2. ASSUME NEW e \in ToSet(due), SubscriptionDeleted(h, e, ok)
        PROVE  Queue' /\ KeyOK'
    <2> DEFINE u == [user EXCEPT !.tier = "free", !.status = "canceled", !.sub = NoSub]
    <2>1. /\ due # <<>> /\ e = due[1] /\ Quiet
          /\ \A g \in Handlers : job[g].event = NoEvent /\ job[g].stage # "syncing"
      BY <1>2, DeliveredFirst DEF SubscriptionDeleted
    <2>2. e.kind = "deleted" /\ Update(h, e, u, ok)
      BY <1>2 DEF SubscriptionDeleted
    <2>3. SamePerson(u) /\ u.customer = user.customer /\ u.sub = NoSub /\ u.tier = "free"
      BY <1>0 DEF SamePerson, User, Tiers, Status
    <2>4. user.customer
      BY <2>1, <2>2 DEF Queue, HeadOK, Linked
    <2> HIDE DEF u
    <2>5. user' = u /\ stripe' = stripe
      BY <2>2 DEF Update, WriteUser
    <2>6. LastWord(1) => Matches'
      <3> SUFFICES ASSUME LastWord(1)
                   PROVE  Matches'
        OBVIOUS
      <3>1. Tells(e)
        BY <2>1, DueType DEF Queue, Told
      <3>2. Open' = {}
        BY <2>2, <2>5, <3>1 DEF Tells, Open
      <3> QED
        BY <2>3, <2>5, <3>2 DEF Matches
    <2> QED
      BY <2>1, <2>2, <2>3, <2>4, <2>6, ApplyStep DEF Telling
  <1>3. ASSUME NEW e \in ToSet(due), InvoicePaymentFailed(h, e, ok)
        PROVE  Queue' /\ KeyOK'
    <2> DEFINE u == [user EXCEPT !.status = "past_due"]
    <2>1. /\ due # <<>> /\ e = due[1] /\ Quiet
          /\ \A g \in Handlers : job[g].event = NoEvent /\ job[g].stage # "syncing"
      BY <1>3, DeliveredFirst DEF InvoicePaymentFailed
    <2>2. e.kind = "payment_failed" /\ Update(h, e, u, ok)
      BY <1>3 DEF InvoicePaymentFailed
    <2>3. /\ u \in User /\ u.known = user.known /\ u.customer = user.customer /\ u.sub = user.sub
          /\ u.key = user.key /\ u.tier = user.tier /\ u.status = "past_due" /\ u.period = user.period
      BY <1>0 DEF User, Status
    <2> HIDE DEF u
    <2>4. ok = TRUE /\ user' = u /\ keys' = keys /\ disk'.keys = disk.keys
      BY <2>2, <2>3, FineUser DEF Update
    <2>5. Return(h) /\ Answer(e) /\ stripe' = stripe
      BY <2>2 DEF Update
    <2>6. Linked(e) /\ ~Telling(e)
      BY <2>1, <2>2 DEF Queue, HeadOK, Telling
    <2>7. LastWord(1) => Matches'
      <3> SUFFICES ASSUME LastWord(1)
                   PROVE  Matches'
        OBVIOUS
      <3>1. stripe[e.sub].state = "past_due"
        BY <2>1, <2>2, <2>6, MatchesNow DEF Tells
      <3> QED
        BY <2>1, <2>2, <2>3, <2>4, <2>5, <3>1, InvoiceMatches
    <2> QED
      BY <2>1, <2>3, <2>4, <2>5, <2>6, <2>7, AnswerStep
  <1>4. CASE CheckoutCompleted(h, ok)
    <2> DEFINE e == job[h].event
               u == [user EXCEPT !.tier = stripe[e.sub].plan, !.status = "active",
                                 !.customer = TRUE, !.sub = e.sub, !.period = stripe[e.sub].period]
    <2>1. job[h].stage = "retrieving" /\ Quiet /\ e.kind = "checkout" /\ Update(h, e, u, ok)
      BY <1>4 DEF CheckoutCompleted, At
    <2>2. /\ due # <<>> /\ e = due[1] /\ e \in Event
          /\ \A g \in Handlers \ {h} : job[g].event = NoEvent /\ job[g].stage # "syncing"
      BY <2>1, InProgress
    <2>3. e.sub \in Subs /\ stripe[e.sub] \in Subscription
      BY <1>0, <2>2 DEF Event
    <2> HIDE DEF e
    <2>4. /\ SamePerson(u) /\ u.customer = TRUE /\ u.sub = e.sub /\ u.tier = stripe[e.sub].plan
          /\ u.status = "active" /\ u.period = stripe[e.sub].period
      BY <1>0, <2>3 DEF SamePerson, User, Subscription, Status
    <2> HIDE DEF u
    <2>5. user' = u /\ stripe' = stripe
      BY <2>1 DEF Update, WriteUser
    <2>6. LastWord(1) => Matches'
      <3> SUFFICES ASSUME LastWord(1)
                   PROVE  Matches'
        OBVIOUS
      <3>1. Tells(e)
        BY <2>2, DueType DEF Queue, Told
      <3>2. Open' = {e.sub} /\ stripe[e.sub].state = "active"
        BY <2>1, <2>5, <3>1 DEF Tells, Open
      <3> QED
        BY <2>4, <2>5, <3>2 DEF Matches
    <2> QED
      BY <2>1, <2>2, <2>4, <2>6, ApplyStep DEF Telling
  <1>5. CASE InvoicePaid(h, ok)
    <2> DEFINE e   == job[h].event
               now == stripe[e.sub].period
               u   == [user EXCEPT !.status = "active", !.period =
                         IF now # job[h].seen.period THEN now ELSE user.period]
    <2>1. job[h].stage = "retrieving" /\ Quiet /\ e.kind = "paid" /\ stripe' = stripe
      BY <1>5 DEF InvoicePaid, At
    <2>2. /\ due # <<>> /\ e = due[1] /\ e \in Event
          /\ \A g \in Handlers \ {h} : job[g].event = NoEvent /\ job[g].stage # "syncing"
      BY <2>1, InProgress
    <2>3. e.sub \in Subs /\ stripe[e.sub] \in Subscription
      BY <1>0, <2>2 DEF Event
    <2>4. WriteUser(u, ok) \/ (ok /\ UNCHANGED fileVars)
      BY <1>5 DEF InvoicePaid
    <2>5. ok => Return(h) /\ Answer(e)
      BY <1>5 DEF InvoicePaid
    <2> HIDE DEF e
    <2>6. /\ u \in User /\ u.known = user.known /\ u.customer = user.customer /\ u.sub = user.sub
          /\ u.key = user.key /\ u.tier = user.tier /\ u.status = "active"
          /\ u.period \in {user.period, now}
      BY <1>0, <2>3 DEF User, Subscription, Status
    <2> HIDE DEF u
    <2>7. /\ ok = TRUE /\ user' \in {user, u} /\ keys' = keys /\ disk'.keys = disk.keys
      <3>1. CASE WriteUser(u, ok)
        BY <2>6, <3>1, FineUser
      <3>2. CASE ok /\ UNCHANGED fileVars
        BY <3>2 DEF fileVars
      <3> QED
        BY <2>4, <3>1, <3>2
    <2>8. Linked(e) /\ ~Telling(e)
      BY <2>1, <2>2 DEF Queue, HeadOK, Telling
    <2>9. LastWord(1) => Matches'
      <3> SUFFICES ASSUME LastWord(1)
                   PROVE  Matches'
        OBVIOUS
      <3>1. stripe[e.sub].state = "active"
        BY <2>1, <2>2, <2>8, MatchesNow DEF Tells
      <3> QED
        BY <2>1, <2>2, <2>6, <2>7, <3>1, InvoiceMatches
    <2>10. /\ user'.known = user.known /\ user'.customer = user.customer /\ user'.sub = user.sub
           /\ user'.key = user.key /\ user'.tier = user.tier
      BY <2>6, <2>7
    <2> QED
      BY <2>1, <2>2, <2>5, <2>7, <2>8, <2>9, <2>10, AnswerStep
  <1>6. ~ClearPastDue(h, ok)
    BY EventKept DEF Queue, ClearPastDue, At
  <1>7. CASE SyncKey(h, ok)
    <2>1. job[h].stage = "syncing" /\ Return(h) /\ Answer(job[h].event) /\ stripe' = stripe
      BY <1>7 DEF SyncKey, At
    <2>2. /\ due # <<>> /\ job[h].event = due[1] /\ Telling(due[1]) /\ Linked(due[1])
          /\ \A g \in Handlers \ {h} : job[g].event = NoEvent /\ job[g].stage # "syncing"
      BY <2>1, InProgress
    <2>3. job'[h] = Idle /\ \A g \in Handlers \ {h} : job'[g] = job[g]
      BY <1>0, <2>1 DEF Return
    <2>4. /\ user' = user /\ disk'.keys = keys'
          /\ Live(user.key)' => keys'[user.key].tier = user.tier
      <3>1. CASE Live(user.key) /\ WriteStore([keys EXCEPT ![user.key].tier = user.tier], usage, ok)
        <4> DEFINE k == [keys EXCEPT ![user.key].tier = user.tier]
        <4>1. k \in [Keys -> Key] /\ k[user.key].tier = user.tier
          BY <1>0, <3>1 DEF Live, Key, User
        <4>2. WriteStore(k, usage, ok)
          BY <3>1
        <4> HIDE DEF k
        <4>3. user' = user /\ keys' = k /\ disk'.keys = k
          BY <1>0, <4>1, <4>2, FineStore
        <4> QED
          BY <4>1, <4>3
      <3>2. CASE ~Live(user.key) /\ UNCHANGED fileVars
        BY <1>0, <3>2 DEF fileVars, Live
      <3> QED
        BY <1>7, <3>1, <3>2 DEF SyncKey
    <2>5. LastWord(1) => Matches'
      <3> SUFFICES ASSUME LastWord(1)
                   PROVE  Matches'
        OBVIOUS
      <3>1. Applied
        BY <2>1 DEF Applied, At
      <3>2. \A i \in DOMAIN due : Telling(due[i]) => i = 1
        BY DueType DEF LastWord
      <3>3. Matches
        BY <3>1, <3>2 DEF Queue, Synced
      <3> QED
        BY <2>1, <2>4, <3>3 DEF Matches, Open
    <2>6. Queue'
      <3>1. NoHook
        BY <2>2, <2>3 DEF NoHook, Idle
      <3> QED
        BY <2>1, <2>2, <2>4, <2>5, <3>1, Dequeue
    <2>7. NewFollows'
      BY <2>1, <2>3, NoneNew DEF Idle, NewStages, InTurn
    <2> QED
      BY <2>4, <2>6, <2>7 DEF KeyOK, KeyFollows
  <1> QED
    BY <1>1, <1>2, <1>3, <1>4, <1>5, <1>6, <1>7 DEF Webhook
-----------------------------------------------------------------------------
\* A handler that has no webhook goes on without one; the webhooks stay.
LEMMA HooksStay ==
    ASSUME Inv, Queue, NEW h \in Handlers, job[h].stage \notin {"retrieving", "syncing"},
           NEW c, c.event = NoEvent, c.stage # "syncing",
           job' = job \/ job' = [job EXCEPT ![h] = c]
    PROVE  SameHooks
  <1>1. job \in [Handlers -> Job] /\ job[h].event = NoEvent
    BY InvParts, EventKept DEF JobsOK, Queue
  <1>2. \A g \in Handlers : job'[g] = job[g] \/ (g = h /\ job'[g] = c)
    BY <1>1
  <1> QED
    BY <1>1, <1>2 DEF SameHooks

\* A step that changes no user, key or event.
LEMMA OtherStep ==
    ASSUME Inv, Queue, KeyOK, NEW h \in Handlers, Quiet \/ job[h].stage \in InTurn,
           job[h].stage \notin {"retrieving", "syncing"},
           NEW c, c.event = NoEvent, c.stage # "syncing", c.stage \notin NewStages,
           job' = [job EXCEPT ![h] = c],
           UNCHANGED <<user, keys, stripeVars>>, disk'.keys = keys'
    PROVE  Queue' /\ KeyOK'
  <1>1. /\ job \in [Handlers -> Job] /\ user' = user /\ keys' = keys
        /\ due' = due /\ UNCHANGED stripeVars
    BY InvParts DEF JobsOK, stripeVars
  <1>2. job'[h] = c /\ \A g \in Handlers \ {h} : job'[g] = job[g]
    BY <1>1
  <1>3. Queue'
    BY <1>1, HooksStay, QueueStays DEF SamePlan
  <1>4. NewFollows'
    BY <1>2, NoneNew
  <1>5. KeyFollows'
    BY <1>1 DEF KeyOK, KeyFollows, Live
  <1> QED
    BY <1>3, <1>4, <1>5 DEF KeyOK

\* A sign-up starts on the plan that no subscription changes.
LEMMA SignUpFollows ==
    ASSUME Inv, Queue, KeyOK, NEW h \in Handlers, NEW ok \in BOOLEAN, SignUp(h, ok),
           diskErrors' = 0
    PROVE  Queue' /\ KeyOK'
  <1> DEFINE u == [NoUser EXCEPT !.known = TRUE]
  <1>0. job \in [Handlers -> Job] /\ Quiet /\ ~user.known /\ UNCHANGED stripeVars /\ WriteUser(u, ok)
    BY InvParts DEF SignUp, JobsOK
  <1>1. u \in User /\ u.known /\ u.key = NoKey /\ u.tier = "free" /\ u.sub = NoSub
    BY NoUserIsUser DEF User, NoUser
  <1> HIDE DEF u
  <1>2. ok = TRUE /\ user' = u /\ keys' = keys /\ disk'.keys = disk.keys
    BY <1>0, <1>1, FineUser
  <1>3. job' = [job EXCEPT ![h].stage = "keying"]
    BY <1>2 DEF SignUp, Goto
  <1>4. job'[h].stage = "keying" /\ \A g \in Handlers \ {h} : job'[g] = job[g]
    BY <1>0, <1>3, InvParts DEF Job
  <1>5. Open = {} /\ due = <<>>
    BY <1>0 DEF Queue, Known
  <1>6. Open' = {} /\ due' = <<>> /\ DOMAIN due' = {}
    BY <1>0, <1>5 DEF stripeVars, Open
  <1>7. Told' /\ InOrder' /\ HeadOK'
    BY <1>6 DEF Told, InOrder, HeadOK
  <1>8. Handling'
    <2>1. \A g \in Handlers : job[g].event = NoEvent
      BY <1>5 DEF Queue, Handling
    <2>2. \A g \in Handlers : job'[g].event = job[g].event
      BY <1>0, <1>3, InvParts DEF Job
    <2> QED
      BY <2>1, <2>2 DEF Handling
  <1>9. Synced' /\ Known'
    BY <1>1, <1>2, <1>6 DEF Synced, Matches, Known
  <1>10. NewFollows'
    BY <1>0, <1>4, NoneNew DEF NewStages
  <1>11. KeyFollows'
    BY <1>1, <1>2, AccountAssumption DEF KeyFollows, Live
  <1> QED
    BY <1>2, <1>7, <1>8, <1>9, <1>10, <1>11 DEF Queue, KeyOK

\* A rotation gives the new key the plan of the record.
LEMMA RotationFollows ==
    ASSUME Inv, Queue, KeyOK, NEW h \in Handlers, NEW ok \in BOOLEAN, Rotation(h, ok),
           diskErrors' = 0
    PROVE  Queue' /\ KeyOK'
  <1>0. /\ user \in User /\ job \in [Handlers -> Job] /\ job[h] \in Job /\ JobOK(job[h])
        /\ keys \in [Keys -> Key] /\ usage \in [Keys -> [Periods -> Nat]] /\ disk.keys = keys
    BY InvParts DEF JobsOK, KeyOK
  <1>1. /\ UNCHANGED stripeVars
        /\ job[h].stage \in {"keying", "moving", "deleting", "linking"}
    BY DEF Rotation, CreateKey, CopyCountFails, MoveUsage, DeleteOld, Link, At
  <1>2. job[h].event = NoEvent /\ job[h].stage \in InTurn /\ (job[h].stage # "keying" => job[h].new \in Keys)
    BY <1>0, <1>1, EventKept DEF Queue, InTurn, JobOK
  <1>3. \A g \in Handlers \ {h} : job[g].stage \notin NewStages
    BY <1>2, InvParts DEF OneTurn, NewStages, InTurn
  <1>4. ~CopyCountFails(h)
    BY FineWrite DEF CopyCountFails, WriteStore
  <1>5. ASSUME NEW k \in Keys, CreateKey(h, k, ok)
        PROVE  Queue' /\ KeyOK'
    <2> DEFINE ks == [keys EXCEPT ![k] = [state |-> "live", tier |-> user.tier]]
               c  == [job[h] EXCEPT !.new = k,
                                    !.stage = IF job[h].old = NoKey THEN "linking" ELSE "moving"]
    <2>1. /\ ks \in [Keys -> Key] /\ ks[k].tier = user.tier
          /\ \A x \in Keys \ {k} : ks[x] = keys[x]
      BY <1>0 DEF Key, User
    <2>2. c.event = NoEvent /\ c.stage \in {"linking", "moving"} /\ c.new = k
      BY <1>0, <1>2 DEF Job
    <2>3. WriteStore(ks, usage, ok)
      BY <1>5 DEF CreateKey
    <2> HIDE DEF ks
    <2>4. ok = TRUE /\ user' = user /\ keys' = ks /\ disk'.keys = ks
      BY <1>0, <2>1, <2>3, FineStore
    <2>5. job' = [job EXCEPT ![h] = c]
      BY <1>0, <1>5, <2>4 DEF CreateKey
    <2> HIDE DEF c
    <2>6. job'[h] = c /\ \A g \in Handlers \ {h} : job'[g] = job[g]
      BY <1>0, <2>5
    <2>7. Queue'
      BY <1>1, <2>2, <2>4, <2>5, HooksStay, QueueStays DEF SamePlan
    <2>8. KeyFollows'
      BY <1>1, <2>1, <2>4 DEF KeyOK, KeyFollows, Live, stripeVars
    <2>9. NewFollows'
      <3> SUFFICES ASSUME NEW g \in Handlers, job'[g].stage \in NewStages
                   PROVE  keys'[job'[g].new].tier = user'.tier
        BY DEF NewFollows, NewStages
      <3>1. g = h
        BY <1>3, <2>6
      <3> QED
        BY <2>1, <2>2, <2>4, <2>6, <3>1
    <2> QED
      BY <2>4, <2>7, <2>8, <2>9 DEF KeyOK
  <1>6. ASSUME NEW stage \in Stages, stage \in {"deleting", "linking"}, job[h].stage # "keying",
               Goto(h, stage), user' = user, disk'.keys = keys',
               \A x \in Keys : /\ keys'[x].tier = keys[x].tier
                               /\ keys'[x].state = "live" => keys[x].state = "live"
        PROVE  Queue' /\ KeyOK'
    <2> DEFINE c == [job[h] EXCEPT !.stage = stage]
    <2>1. c.event = NoEvent /\ c.stage = stage /\ c.new = job[h].new
      BY <1>0, <1>2 DEF Job
    <2>2. job' = [job EXCEPT ![h] = c]
      BY <1>0, <1>6 DEF Goto
    <2> HIDE DEF c
    <2>3. job'[h] = c /\ \A g \in Handlers \ {h} : job'[g] = job[g]
      BY <1>0, <2>2
    <2>4. Queue'
      BY <1>1, <1>6, <2>1, <2>2, HooksStay, QueueStays DEF SamePlan
    <2>5. KeyFollows'
      BY <1>1, <1>6 DEF KeyOK, KeyFollows, Live, stripeVars
    <2>6. NewFollows'
      <3> SUFFICES ASSUME NEW g \in Handlers, job'[g].stage \in NewStages
                   PROVE  keys'[job'[g].new].tier = user'.tier
        BY DEF NewFollows, NewStages
      <3>1. g = h
        BY <1>3, <2>3
      <3>2. keys[job[h].new].tier = user.tier /\ job[h].new \in Keys
        BY <1>1, <1>2, <1>6 DEF KeyOK, NewFollows
      <3> QED
        BY <1>6, <2>1, <2>3, <3>1, <3>2
    <2> QED
      BY <1>6, <2>4, <2>5, <2>6 DEF KeyOK
  <1>7. CASE MoveUsage(h, ok)
    <2>1. PICK u \in [Keys -> [Periods -> Nat]] : WriteStore(keys, u, ok)
      <3> DEFINE o == job[h].old
                 w == job[h].new
                 z == [n \in Periods |-> 0]
                 a == [n \in Periods |-> usage[w][n] + usage[o][n]]
                 u == [usage EXCEPT ![w] = a, ![o] = z]
      <3>1. o \in Keys /\ w \in Keys
        BY <1>0, <1>7 DEF JobOK, MoveUsage, At
      <3>2. z \in [Periods -> Nat] /\ a \in [Periods -> Nat]
        BY <1>0, <3>1
      <3>3. WriteStore(keys, u, ok)
        BY <1>7 DEF MoveUsage
      <3> HIDE DEF z, a, o, w
      <3>4. u \in [Keys -> [Periods -> Nat]]
        BY <1>0, <3>1, <3>2
      <3> QED
        BY <3>3, <3>4
    <2>2. ok = TRUE /\ user' = user /\ keys' = keys /\ disk'.keys = keys
      BY <1>0, <2>1, FineStore
    <2> QED
      BY <1>6, <1>7, <2>2 DEF MoveUsage, At, Stages
  <1>8. CASE DeleteOld(h, ok)
    <2> DEFINE ks == [keys EXCEPT ![job[h].old].state = "deleted"]
    <2>1. CASE Live(job[h].old) /\ WriteStore(ks, usage, ok)
      <3>1. /\ ks \in [Keys -> Key]
            /\ \A x \in Keys : /\ ks[x].tier = keys[x].tier
                               /\ ks[x].state = "live" => keys[x].state = "live"
        BY <1>0, <2>1 DEF Key, Live
      <3> HIDE DEF ks
      <3>2. ok = TRUE /\ user' = user /\ keys' = ks /\ disk'.keys = ks
        BY <1>0, <2>1, <3>1, FineStore
      <3> QED
        BY <1>6, <1>8, <3>1, <3>2 DEF DeleteOld, At, Stages
    <2>2. CASE ok /\ UNCHANGED fileVars
      <3>1. user' = user /\ keys' = keys /\ disk'.keys = keys'
        BY <1>0, <2>2 DEF fileVars
      <3> QED
        BY <1>6, <1>8, <2>2, <3>1 DEF DeleteOld, At, Stages
    <2> QED
      BY <1>8, <2>1, <2>2 DEF DeleteOld
  <1>9. CASE Link(h, ok)
    <2> DEFINE v == IF job[h].rotating THEN user.version + 1 ELSE user.version
               u == [user EXCEPT !.key = job[h].new, !.version = v]
    <2>1. MaxVersion \in Nat /\ job[h].stage = "linking" /\ (job[h].rotating => user.version < MaxVersion)
      BY <1>9, InvParts, AccountAssumption DEF Link, At, TurnOK, RotStages
    <2>2. v \in 1..MaxVersion
      BY <1>0, <2>1 DEF User
    <2>3. WriteUser(u, ok) /\ Return(h)
      BY <1>9 DEF Link
    <2> HIDE DEF v
    <2>4. /\ u \in User /\ u.key = job[h].new /\ u.known = user.known /\ u.customer = user.customer
          /\ u.sub = user.sub /\ u.tier = user.tier /\ u.status = user.status /\ u.period = user.period
      BY <1>0, <1>2, <2>1, <2>2 DEF User
    <2> HIDE DEF u
    <2>5. ok = TRUE /\ user' = u /\ keys' = keys /\ disk'.keys = disk.keys
      BY <2>3, <2>4, FineUser
    <2>6. Idle.event = NoEvent /\ Idle.stage = "idle" /\ job' = [job EXCEPT ![h] = Idle]
      BY <2>3 DEF Idle, Return
    <2>7. Queue'
      BY <1>1, <2>4, <2>5, <2>6, HooksStay, QueueStays DEF SamePlan
    <2>8. keys[job[h].new].tier = user.tier
      BY <2>1 DEF KeyOK, NewFollows
    <2>9. KeyFollows'
      BY <2>4, <2>5, <2>8 DEF KeyFollows
    <2>10. job'[h] = Idle /\ \A g \in Handlers \ {h} : job'[g] = job[g]
      BY <1>0, <2>6
    <2>11. NewFollows'
      BY <1>2, <2>6, <2>10, NoneNew DEF NewStages
    <2> QED
      BY <1>0, <2>5, <2>7, <2>9, <2>11 DEF KeyOK
  <1> QED
    BY <1>4, <1>5, <1>7, <1>8, <1>9 DEF Rotation

\* What is ignored does not set the plan.
LEMMA IgnoreFollows ==
    ASSUME Inv, Queue, KeyOK, Ordered, NEW h \in Handlers, NEW e \in ToSet(due), Ignore(h, e)
    PROVE  Queue' /\ KeyOK'
  <1>1. /\ due # <<>> /\ e = due[1] /\ Quiet
        /\ \A g \in Handlers : job[g].event = NoEvent /\ job[g].stage # "syncing"
    BY DeliveredFirst DEF Ignore
  <1>2. /\ Ignored(e) /\ Answer(e)
        /\ user' = user /\ keys' = keys /\ disk' = disk /\ job' = job /\ stripe' = stripe
    BY DEF Ignore, fileVars
  <1>3. e.kind \in Kinds
    BY <1>1, DueType
  <1>4. e.kind # "checkout"
    BY <1>1, <1>2 DEF Queue, Known, Ignored
  <1>5. Linked(e)
    BY <1>1, <1>4 DEF Queue, HeadOK
  <1>6. ~Telling(e)
    BY <1>2, <1>4, <1>5 DEF Linked, Ignored, Concerns, Telling
  <1>7. LastWord(1) => Matches'
    <2>1. LastWord(1) => Matches
      BY <1>1, <1>6, MatchesNow
    <2> QED
      BY <1>2, <2>1 DEF Matches, Open
  <1>8. Queue'
    BY <1>1, <1>2, <1>5, <1>7, Dequeue DEF NoHook
  <1>9. KeyOK'
    BY <1>1, <1>2, <1>6 DEF KeyOK, KeyFollows, NewFollows, Live
  <1> QED
    BY <1>8, <1>9

\* A webhook that asks Stripe gets what Stripe has now, and its event stays
\* due.
LEMMA RetrieveFollows ==
    ASSUME Inv, Queue, KeyOK, Ordered, NEW h \in Handlers, NEW e \in ToSet(due), Retrieve(h, e)
    PROVE  Queue' /\ KeyOK'
  <1> DEFINE seen == IF e.kind = "checkout" THEN Idle.seen
                     ELSE [status |-> user.status, period |-> user.period]
             c    == [Idle EXCEPT !.stage = "retrieving", !.event = e, !.seen = seen]
  <1>1. /\ due # <<>> /\ e = due[1] /\ Quiet
        /\ \A g \in Handlers : job[g].event = NoEvent /\ job[g].stage # "syncing"
    BY DeliveredFirst DEF Retrieve
  <1>2. /\ e.kind \in {"checkout", "paid"} /\ job' = [job EXCEPT ![h] = c]
        /\ user' = user /\ keys' = keys /\ disk' = disk /\ stripe' = stripe /\ due' = due
    BY DEF Retrieve, fileVars, stripeVars
  <1>3. c.stage = "retrieving" /\ c.event = e
    BY DEF Idle
  <1> HIDE DEF c
  <1>4. job'[h] = c /\ \A g \in Handlers \ {h} : job'[g] = job[g]
    BY <1>2, InvParts DEF JobsOK
  <1>5. Told' /\ InOrder' /\ HeadOK' /\ Known'
    BY <1>2 DEF Queue, Told, InOrder, HeadOK, Known, LastWord, Tells, Linked, Open
  <1>6. Handling'
    BY <1>1, <1>2, <1>3, <1>4 DEF Handling
  <1>7. Synced'
    <2>1. ~Applied /\ ~Applied'
      BY <1>1, <1>3, <1>4 DEF Applied, At
    <2>2. Matches => Matches'
      BY <1>2 DEF Matches, Open
    <2> QED
      BY <1>2, <2>1, <2>2 DEF Queue, Synced
  <1>8. NewFollows'
    BY <1>1, <1>3, <1>4, NoneNew DEF NewStages
  <1>9. KeyFollows'
    BY <1>2 DEF KeyOK, KeyFollows, Live
  <1> QED
    BY <1>2, <1>5, <1>6, <1>7, <1>8, <1>9 DEF Queue, KeyOK

\* Steps that wait for Stripe keep record and queue as they are.
LEMMA WaitFollows ==
    ASSUME Inv, Queue, KeyOK, Ordered, NEW h \in Handlers, Wait(h), apiErrors' = 0
    PROVE  Queue' /\ KeyOK'
  <1>0. /\ keys \in [Keys -> Key] /\ usage \in [Keys -> [Periods -> Nat]] /\ disk.keys = keys
        /\ FilesOK /\ job \in [Handlers -> Job] /\ job[h] \in Job /\ JobOK(job[h])
        /\ Idle.event = NoEvent /\ Idle.stage = "idle"
    BY InvParts DEF JobsOK, KeyOK, Idle
  <1>1. ~RetrieveFails(h)
    BY InvParts, AccountAssumption DEF RetrieveFails, CountsOK
  <1>2. CASE Rotate(h)
    <2> DEFINE c == [Idle EXCEPT !.stage = "keying", !.rotating = TRUE, !.old = user.key]
    <2>1. c.event = NoEvent /\ c.stage = "keying"
      BY DEF Idle
    <2>2. job' = [job EXCEPT ![h] = c] /\ Quiet /\ job[h].stage = "idle"
      BY <1>2 DEF Rotate, At
    <2>3. UNCHANGED <<user, keys, disk, stripeVars>>
      BY <1>2 DEF Rotate, fileVars
    <2> HIDE DEF c
    <2> QED
      BY <1>0, <2>1, <2>2, <2>3, OtherStep DEF NewStages
  <1>3. CASE Ask(h)
    <2> DEFINE c == [Idle EXCEPT !.stage = "checking", !.old = user.key]
    <2>1. c.event = NoEvent /\ c.stage = "checking"
      BY DEF Idle
    <2>2. job' = [job EXCEPT ![h] = c] /\ Quiet /\ job[h].stage = "idle"
      BY <1>3 DEF Ask, At
    <2>3. UNCHANGED <<user, keys, disk, stripeVars>>
      BY <1>3 DEF Ask, fileVars
    <2> HIDE DEF c
    <2> QED
      BY <1>0, <2>1, <2>2, <2>3, OtherStep DEF NewStages
  <1>4. CASE SubmitFails(h)
    <2>1. /\ UNCHANGED <<user, keys, disk, stripeVars>> /\ Quiet /\ job[h].stage = "submitting"
      BY <1>4 DEF SubmitFails, fileVars, At
    <2>2. job[h].event = NoEvent
      BY <2>1, EventKept DEF Queue
    <2>3. PICK c : /\ c.stage \in {"failing", "releasing"} /\ c.event = NoEvent
                   /\ job' = [job EXCEPT ![h] = c]
      BY <1>4, <2>1, <2>2, CallGoes DEF SubmitFails
    <2> QED
      BY <1>0, <2>1, <2>3, OtherStep DEF NewStages
  <1> QED
    BY <1>1, <1>2, <1>3, <1>4, IgnoreFollows, RetrieveFollows DEF Wait

\* Calls keep record and queue as they are: what they write of keys and user
\* is what was there.
LEMMA AttestFollows ==
    ASSUME Inv, Queue, KeyOK, NEW h \in Handlers, NEW ok \in BOOLEAN, Attest(h, ok),
           diskErrors' = 0
    PROVE  Queue' /\ KeyOK'
  <1>0. /\ keys \in [Keys -> Key] /\ disk.keys = keys /\ FilesOK /\ user \in User
        /\ CallTurn(h) /\ CallWrites(ok) /\ CallMoves(h)
    BY InvParts, AttestSteps DEF KeyOK
  <1>1. job[h].stage \notin {"retrieving", "syncing"} /\ (Quiet \/ job[h].stage \in InTurn)
        /\ UNCHANGED stripeVars
    BY <1>0 DEF CallTurn, CallStages
  <1>2. job[h].event = NoEvent
    BY <1>1, EventKept DEF Queue
  <1>3. PICK c : /\ c.event = NoEvent /\ c.stage \in CallStages \cup {"idle"}
                 /\ job' = [job EXCEPT ![h] = c]
    BY <1>0, <1>2 DEF CallMoves
  <1>4. user' = user /\ keys' = keys /\ disk'.keys = keys
    <2>1. CASE UNCHANGED fileVars
      BY <1>0, <2>1 DEF fileVars
    <2>2. ASSUME NEW u \in [Keys -> [Periods -> Nat]], WriteStore(keys, u, ok)
          PROVE  user' = user /\ keys' = keys /\ disk'.keys = keys
      BY <1>0, <2>2, FineStore
    <2>3. CASE WriteUser(user, ok)
      BY <1>0, <2>3, FineUser
    <2> QED
      BY <1>0, <2>1, <2>2, <2>3 DEF CallWrites
  <1>5. c.stage # "syncing" /\ c.stage \notin NewStages
    BY <1>3 DEF CallStages, NewStages
  <1> QED
    BY <1>0, <1>1, <1>3, <1>4, <1>5, OtherStep

\* The end of all sessions touches no plan.
LEMMA RevokeFollows ==
    ASSUME Inv, Queue, KeyOK, NEW ok \in BOOLEAN, Revoke(ok), diskErrors' = 0
    PROVE  Queue' /\ KeyOK'
  <1> DEFINE v == user.version + 1
             u == [user EXCEPT !.version = v]
  <1>0. user \in User /\ MaxVersion \in Nat /\ user.version < MaxVersion /\ WriteUser(u, ok)
    BY InvParts, AccountAssumption DEF Revoke
  <1>1. v \in 1..MaxVersion
    BY <1>0 DEF User
  <1> HIDE DEF v
  <1>2. /\ u \in User /\ u.key = user.key /\ u.known = user.known /\ u.customer = user.customer
        /\ u.sub = user.sub /\ u.tier = user.tier /\ u.status = user.status /\ u.period = user.period
    BY <1>0, <1>1 DEF User
  <1> HIDE DEF u
  <1>3. user' = u /\ keys' = keys /\ disk'.keys = disk.keys
    BY <1>0, <1>2, FineUser
  <1>4. job' = job /\ UNCHANGED stripeVars
    BY DEF Revoke
  <1>5. Queue'
    BY <1>2, <1>3, <1>4, QueueStays DEF SamePlan, SameHooks
  <1>6. KeyOK'
    BY <1>2, <1>3, <1>4 DEF KeyOK, KeyFollows, NewFollows, Live, stripeVars
  <1> QED
    BY <1>5, <1>6

\* The files have what memory had, and the event in progress comes again.
LEMMA CrashFollows ==
    ASSUME Inv, Queue, KeyOK, Crash, diskErrors = 0
    PROVE  Queue' /\ KeyOK'
  <1>1. /\ user' = user /\ keys' = keys /\ disk' = disk
        /\ stripe' = stripe /\ due' = due /\ \A h \in Handlers : job'[h] = Idle
    BY InvParts DEF Crash, VersionOK, KeyOK, stripeVars
  <1>2. Told' /\ InOrder' /\ HeadOK' /\ Known'
    BY <1>1 DEF Queue, Told, InOrder, HeadOK, Known, LastWord, Tells, Linked, Open
  <1>3. Handling' /\ NewFollows'
    BY <1>1 DEF Handling, NewFollows, Idle
  <1>4. Synced'
    <2>1. ~Applied'
      BY <1>1 DEF Applied, At, Idle
    <2>2. Matches => Matches'
      BY <1>1 DEF Matches, Open
    <2> QED
      BY <1>1, <2>1, <2>2 DEF Queue, Synced
  <1> QED
    BY <1>1, <1>2, <1>3, <1>4 DEF Queue, KeyOK, KeyFollows, Live

\* What failed once is on record for good.
LEMMA FaultsStay ==
    ASSUME Inv, [Next]_vars
    PROVE  /\ diskErrors' = 0 => diskErrors = 0
           /\ apiErrors' = 0 => apiErrors = 0
  <1>0. diskErrors \in Nat /\ apiErrors \in Nat
    BY InvParts, AccountAssumption DEF FilesOK, CountsOK
  <1>1. ASSUME NEW ok \in BOOLEAN, CountWrite(ok)
        PROVE  diskErrors' = 0 => diskErrors = 0
    BY <1>0, <1>1 DEF CountWrite
  <1>2. ASSUME NEW k, NEW u, NEW ok \in BOOLEAN, WriteStore(k, u, ok)
        PROVE  diskErrors' = 0 => diskErrors = 0
    BY <1>1, <1>2 DEF WriteStore
  <1>3. ASSUME NEW u, NEW ok \in BOOLEAN, WriteUser(u, ok)
        PROVE  diskErrors' = 0 => diskErrors = 0
    BY <1>1, <1>3 DEF WriteUser
  <1>4. CASE UNCHANGED vars \/ Login \/ Subscriber \/ Crash
    BY <1>4 DEF vars, fileVars, Login, Subscriber, Checkout, ChangePlan, FailPayment, Recover,
                Renew, Cancel, Happens, Crash
  <1>5. ASSUME NEW h \in Handlers, Wait(h)
        PROVE  /\ diskErrors' = 0 => diskErrors = 0
               /\ apiErrors' = 0 => apiErrors = 0
    <2>1. CASE RetrieveFails(h)
      BY <1>0, <2>1 DEF RetrieveFails, fileVars
    <2>2. CASE Rotate(h) \/ Ask(h) \/ SubmitFails(h)
      BY <2>2 DEF Rotate, Ask, SubmitFails, fileVars
    <2>3. ASSUME NEW e \in ToSet(due), Ignore(h, e) \/ Retrieve(h, e)
          PROVE  diskErrors' = diskErrors /\ apiErrors' = apiErrors
      BY <2>3 DEF Ignore, Retrieve, fileVars
    <2> QED
      BY <1>5, <2>1, <2>2, <2>3 DEF Wait
  <1>6. ASSUME NEW h \in Handlers, NEW ok \in BOOLEAN, SignUp(h, ok) \/ Rotation(h, ok)
        PROVE  /\ diskErrors' = 0 => diskErrors = 0
               /\ apiErrors' = 0 => apiErrors = 0
    <2>1. apiErrors' = apiErrors
      BY <1>6 DEF SignUp, Rotation, CreateKey, CopyCountFails, MoveUsage, DeleteOld, Link
    <2>2. diskErrors' = 0 => diskErrors = 0
      BY <1>2, <1>3, <1>6 DEF SignUp, Rotation, CreateKey, CopyCountFails, MoveUsage, DeleteOld,
                              Link, fileVars
    <2> QED
      BY <2>1, <2>2
  <1>7. ASSUME NEW h \in Handlers, NEW ok \in BOOLEAN, Webhook(h, ok)
        PROVE  /\ diskErrors' = 0 => diskErrors = 0
               /\ apiErrors' = 0 => apiErrors = 0
    <2>1. ASSUME NEW e, NEW u, Update(h, e, u, ok)
          PROVE  /\ diskErrors' = 0 => diskErrors = 0
                 /\ apiErrors' = apiErrors
      BY <1>3, <2>1 DEF Update
    <2>2. CASE InvoicePaid(h, ok)
      BY <1>3, <2>2 DEF InvoicePaid, fileVars
    <2>3. CASE SyncKey(h, ok)
      BY <1>2, <2>3 DEF SyncKey, fileVars
    <2> QED
      BY <1>7, <2>1, <2>2, <2>3 DEF Webhook, SubscriptionUpdated, SubscriptionDeleted,
                                    InvoicePaymentFailed, CheckoutCompleted, ClearPastDue
  <1>8. ASSUME NEW ok \in BOOLEAN, Revoke(ok)
        PROVE  /\ diskErrors' = 0 => diskErrors = 0
               /\ apiErrors' = 0 => apiErrors = 0
    BY <1>3, <1>8 DEF Revoke
  <1>9. ASSUME NEW h \in Handlers, NEW ok \in BOOLEAN, Attest(h, ok)
        PROVE  /\ diskErrors' = 0 => diskErrors = 0
               /\ apiErrors' = 0 => apiErrors = 0
    <2>1. CallTurn(h) /\ CallWrites(ok)
      BY <1>9, AttestSteps
    <2>2. apiErrors' = apiErrors
      BY <2>1 DEF CallTurn
    <2>3. diskErrors' = 0 => diskErrors = 0
      BY <1>2, <1>3, <2>1 DEF CallWrites, fileVars
    <2> QED
      BY <2>2, <2>3
  <1> QED
    BY <1>4, <1>5, <1>6, <1>7, <1>8, <1>9 DEF Next

\* Every step keeps the record with the queue, while nothing failed.
LEMMA NextFollow == Inv /\ Follow /\ [Next]_vars => Follow'
  <1> SUFFICES ASSUME Inv, Follow, [Next]_vars, Smooth'
               PROVE  (Queue /\ KeyOK)'
    BY DEF Follow
  <1>1. Ordered /\ diskErrors' = 0 /\ apiErrors' = 0 /\ diskErrors = 0
    BY FaultsStay DEF Smooth
  <1>2. Queue /\ KeyOK
    BY <1>1, FaultsStay DEF Smooth, Follow
  <1>3. CASE UNCHANGED vars \/ Login
    <2>1. UNCHANGED <<user, keys, disk, job, stripeVars>>
      BY <1>3 DEF vars, fileVars, Login
    <2>2. Queue'
      BY <1>2, <2>1, QueueStays DEF SamePlan, SameHooks
    <2>3. KeyOK'
      BY <1>2, <2>1 DEF KeyOK, KeyFollows, NewFollows, Live, stripeVars
    <2> QED
      BY <2>2, <2>3
  <1> QED
    BY <1>1, <1>2, <1>3, WaitFollows, AttestFollows, SignUpFollows, RotationFollows, WebhookFollows,
       RevokeFollows, SubscriberFollows, CrashFollows DEF Next

\* Nothing is due any more: the record is what Stripe has, and so is the key.
LEMMA FollowIsEntitlement == Inv /\ Follow => EntitlementFollowsStripe
  <1> SUFFICES ASSUME Inv, Follow, Ordered, due = <<>>, diskErrors + apiErrors = 0
               PROVE  /\ \A s \in Open : /\ user.sub = s
                                         /\ user.tier = stripe[s].plan
                                         /\ user.status = stripe[s].state
                                         /\ user.period = stripe[s].period
                      /\ Open = {} => user.tier = "free" /\ user.sub = NoSub
                      /\ Live(user.key) => keys[user.key].tier = user.tier
    BY DEF EntitlementFollowsStripe
  <1>1. diskErrors \in Nat /\ apiErrors \in Nat
    BY InvParts, AccountAssumption DEF FilesOK, CountsOK
  <1>2. diskErrors = 0 /\ apiErrors = 0
    BY <1>1
  <1>3. Queue /\ KeyOK
    BY <1>2 DEF Follow, Smooth
  <1>4. Matches
    BY <1>3, LastEvent
  <1> QED
    BY <1>3, <1>4 DEF Matches, KeyOK, KeyFollows

-----------------------------------------------------------------------------
\* The user record, the store, their files and what the handlers keep have
\* their types.
THEOREM TypeCorrect == Spec => []TypeOK
  BY InvHolds, InvIsTypeOK, PTL

\* A session that logout, a password reset or a rotation ended stays ended,
\* over crashes, or else over writes of users.json that throw.
THEOREM RevocationHolds == Spec => []RevokedStaysRevoked
  BY InvHolds, InvIsRevoked, PTL

\* Of the keys whose secret the customer was given, one works at most, in
\* memory and in the files, wherever rotateUserApiKey was cut off.
THEOREM OneKeyWorks == Spec => []OneWorkingKey
  BY InvHolds, InvIsOneKey, PTL

\* A rotation or a crash never loses a slot that a call holds or that was
\* charged, and each slot that one given back leaves uncounted takes a write
\* that failed: rekeyAttestationUsage moves the counters before the old key
\* goes, and only an updateAttestation, addReceipt or release that throws makes
\* attestXrpPayment give back what was charged, or was given back before.
THEOREM QuotaSurvives == Spec => []UsageKept
  <1>1. Init => Inv /\ Counters
    BY InitInv, InitCounters
  <1>2. (Inv /\ Counters) /\ [Next]_vars => (Inv /\ Counters)'
    BY NextInv, NextCounters
  <1>3. Inv /\ Counters => UsageKept
    BY CountersKeepUsage
  <1> QED
    BY <1>1, <1>2, <1>3, PTL DEF Spec

\* When Stripe's events came in order and are all answered, and nothing
\* failed, the user and the key have what the subscription says: a webhook
\* that retrieves, writes and syncs in turn leaves no gap that a rotation, a
\* crash or the next change of the plan could fall into.
THEOREM EntitlementHolds == Spec => []EntitlementFollowsStripe
  <1>1. Init => Inv /\ Follow
    BY InitInv, InitFollow
  <1>2. (Inv /\ Follow) /\ [Next]_vars => (Inv /\ Follow)'
    BY NextInv, NextFollow
  <1>3. Inv /\ Follow => EntitlementFollowsStripe
    BY FollowIsEntitlement
  <1> QED
    BY <1>1, <1>2, <1>3, PTL DEF Spec
=============================================================================
