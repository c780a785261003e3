------------------------ MODULE AttestServiceProofs -------------------------
(***************************************************************************)
(* What is proved of AttestService, for all constants that satisfy         *)
(* AttestAssumption.                                                       *)
(***************************************************************************)
EXTENDS AttestService, FiniteSetTheorems, TLAPS

-----------------------------------------------------------------------------
(***************************************************************************)
(* Types.  A call before the reservation has no slot, one on its way to    *)
(* FDC has a key's slot, and one that FDC took has spent it.               *)
(***************************************************************************)
Early  == {"idle", "checking", "noting", "noted", "listing", "reserving"}
Before == {"preflight", "paying", "creating", "preparing", "storing", "submitting"}
After  == {"updating", "marking", "answering"}

CallOK(c) ==
    /\ c \in Call
    /\ c.stage # "idle" => c.tx \in Txs /\ c.by \in Payers
    /\ c.slot # "none" => c.by \in Keys
    /\ c.stage \in Early => c.slot = "none"
    /\ c.stage \in Before => c.slot = IF c.by \in Keys THEN "taken" ELSE "none"
    /\ c.stage \in After => c.slot = IF c.by \in Keys THEN "spent" ELSE "none"

Calls == call \in [Callers -> Call] /\ \A r \in Callers : CallOK(call[r])
Polls == poll \in [Pollers -> Poller] /\ \A p \in Pollers \ Free : poll[p].tx \in Txs
Hist  == /\ period \in Periods /\ charged \in Usage /\ uncounted \in Usage
         /\ crashes \in 0..MaxCrashes
Errs  == storeErrors \in 0..MaxStoreErrors

Typed == StoreTypes /\ Errs /\ Calls /\ Polls /\ Hist

\* The invariant of types says what the type invariant of the model says.
LEMMA TypedIsTypeOK == Typed => TypeOK
  BY DEF Typed, TypeOK, Errs, Calls, Polls, Hist, CallOK, At, Tx, Payer

\* The types hold at the start.
LEMMA InitTyped == Init => Typed
  <1> SUFFICES ASSUME Init
               PROVE  Typed
    OBVIOUS
  <1>1. NoUsage \in Usage
    BY DEF NoUsage, Usage
  <1>2. StoreTypes
    BY <1>1 DEF Init, StoreTypes, AttStatus, PayStatus
  <1>3. CallOK(Idle)
    BY AttestAssumption DEF CallOK, Idle, Call, CallStages, Slots, Early, Before, After
  <1>4. Calls
    BY <1>3 DEF Init, Calls, CallOK
  <1>5. Polls
    BY AttestAssumption DEF Init, Polls, NoPoll, Poller, PollStages, Free
  <1>6. Hist /\ Errs
    BY <1>1, AttestAssumption DEF Init, Hist, Errs
  <1> QED
    BY <1>2, <1>4, <1>5, <1>6 DEF Typed

Files == [att : [Txs -> AttStatus], used : Usage, pay : [Invoices -> PayStatus]]

\* A store call keeps the types of the store; the file has the counters of
\* before or the new ones.
LEMMA PersistTypes ==
    ASSUME StoreTypes, Errs, NEW ok \in BOOLEAN,
           NEW a \in [Txs -> AttStatus], NEW u \in Usage, Persist(a, u, ok)
    PROVE  StoreTypes' /\ Errs' /\ disk'.used = IF ok THEN u ELSE disk.used
  <1>1. disk \in Files
    BY DEF StoreTypes, Files
  <1>2. [disk EXCEPT !.att = a] \in Files /\ [disk EXCEPT !.att = a].used = disk.used
    BY <1>1 DEF Files
  <1>3. [disk EXCEPT !.att = a, !.used = u] \in Files /\ [disk EXCEPT !.att = a, !.used = u].used = u
    BY <1>1 DEF Files
  <1>4. disk' \in Files /\ disk'.used = IF ok THEN u ELSE disk.used
    BY <1>1, <1>2, <1>3 DEF Persist
  <1>5. StoreTypes'
    BY <1>4 DEF StoreTypes, Files, Persist, Usage
  <1>6. Errs'
    BY AttestAssumption DEF Errs, Persist, CountCall
  <1> QED
    BY <1>4, <1>5, <1>6

\* updateAttestation keeps the types of the store.
LEMMA UpdateTypes ==
    ASSUME StoreTypes, Errs, NEW ok \in BOOLEAN, NEW t, NEW status \in AttStatus,
           UpdateAttestation(t, status, ok)
    PROVE  StoreTypes' /\ Errs'
  <1>1. [att EXCEPT ![t] = status] \in [Txs -> AttStatus] /\ used \in Usage
    BY DEF StoreTypes
  <1> QED
    BY <1>1, PersistTypes DEF UpdateAttestation

\* createAttestation keeps the types of the store.
LEMMA CreateTypes ==
    ASSUME StoreTypes, Errs, NEW ok \in BOOLEAN, NEW t, CreateAttestation(t, ok)
    PROVE  StoreTypes' /\ Errs'
  <1>1. CASE Persist([att EXCEPT ![t] = "pending"], used, ok)
    <2>1. [att EXCEPT ![t] = "pending"] \in [Txs -> AttStatus] /\ used \in Usage
      BY DEF StoreTypes, AttStatus
    <2> QED
      BY <1>1, <2>1, PersistTypes
  <1>2. CASE UNCHANGED storeVars
    BY <1>2 DEF storeVars, StoreTypes, Errs
  <1> QED
    BY <1>1, <1>2 DEF CreateAttestation

\* The mark of a payment keeps the types of the store and no counter changes.
LEMMA MarkTypes ==
    ASSUME StoreTypes, Errs, NEW ok \in BOOLEAN, NEW i, NEW status \in PayStatus,
           MarkPayment(i, status, ok)
    PROVE  StoreTypes' /\ Errs' /\ disk'.used = disk.used
  <1> DEFINE p == [pay EXCEPT ![i] = status]
  <1>1. disk \in Files /\ p \in [Invoices -> PayStatus]
    BY DEF StoreTypes, Files
  <1>2. pay' = p /\ UNCHANGED <<att, used>> /\ disk' = IF ok THEN [disk EXCEPT !.pay = p] ELSE disk
    BY DEF MarkPayment
  <1> HIDE DEF p
  <1>3. disk' \in Files /\ disk'.used = disk.used
    BY <1>1, <1>2 DEF Files
  <1>4. StoreTypes'
    BY <1>1, <1>2, <1>3 DEF StoreTypes, Files, Usage
  <1>5. Errs'
    BY AttestAssumption DEF Errs, MarkPayment, CountCall
  <1> QED
    BY <1>3, <1>4, <1>5

\* A step of a caller changes its own call only, to another one that is right.
LEMMA GotoCall ==
    ASSUME Calls, NEW r \in Callers, NEW stage \in CallStages, Goto(r, stage),
           call[r].stage # "idle",
           stage \in Early => call[r].slot = "none",
           stage \in Before => call[r].slot = IF call[r].by \in Keys THEN "taken" ELSE "none",
           stage \in After => call[r].slot = IF call[r].by \in Keys THEN "spent" ELSE "none"
    PROVE  Calls'
  <1> DEFINE c == [call[r] EXCEPT !.stage = stage]
  <1>1. CallOK(call[r]) /\ call[r] \in Call
    BY DEF Calls
  <1>2. CallOK(c)
    BY <1>1 DEF CallOK, Call
  <1>3. call' = [call EXCEPT ![r] = c]
    BY DEF Goto, Calls
  <1>4. c \in Call
    BY <1>2 DEF CallOK
  <1> QED
    BY <1>2, <1>3, <1>4 DEF Calls

\* A call that returns leaves every call with its types.
LEMMA ReturnCall ==
    ASSUME Calls, NEW r \in Callers, Return(r)
    PROVE  Calls'
  <1>1. CallOK(Idle)
    BY AttestAssumption DEF CallOK, Idle, Call, CallStages, Slots, Early, Before, After
  <1> QED
    BY <1>1 DEF Return, Calls, CallOK

\* The rest of the state, when a step leaves it alone.
LEMMA SameTypes ==
    /\ StoreTypes /\ Errs /\ UNCHANGED storeVars => StoreTypes' /\ Errs' /\ disk'.used = disk.used
    /\ Calls /\ UNCHANGED call => Calls'
    /\ Polls /\ UNCHANGED poll => Polls'
    /\ Hist /\ UNCHANGED histVars => Hist'
  <1>1. StoreTypes /\ Errs /\ UNCHANGED storeVars => StoreTypes' /\ Errs' /\ disk'.used = disk.used
    BY DEF StoreTypes, Errs, storeVars, Usage
  <1>2. Calls /\ UNCHANGED call => Calls'
    BY DEF Calls
  <1>3. Polls /\ UNCHANGED poll => Polls'
    BY DEF Polls, Free
  <1>4. Hist /\ UNCHANGED histVars => Hist'
    BY DEF Hist, histVars, Usage
  <1> QED
    BY <1>1, <1>2, <1>3, <1>4

\* A busy call's transaction and payer, and its slot by stage.
LEMMA BusyCall ==
    ASSUME Typed, NEW r \in Callers, call[r].stage # "idle"
    PROVE  /\ call[r] \in Call /\ Tx(r) \in Txs /\ Payer(r) \in Payers
           /\ call[r].slot # "none" => Payer(r) \in Keys
           /\ call[r].stage \in Early => call[r].slot = "none"
           /\ call[r].stage \in Before => call[r].slot = IF Payer(r) \in Keys THEN "taken" ELSE "none"
           /\ call[r].stage \in After => call[r].slot = IF Payer(r) \in Keys THEN "spent" ELSE "none"
  BY DEF Typed, Calls, CallOK, Tx, Payer

\* The steps of a caller that change nothing in the store.
LEMMA QuietServeTyped ==
    ASSUME Typed, NEW r \in Callers,
           \/ NotOnChain(r) \/ FoundOnChain(r)
           \/ OverQuota(r) \/ SkipQuota(r) \/ NothingToRelease(r)
           \/ PreflightFails(r) \/ PreflightPasses(r)
           \/ PayRetries(r) \/ PayRefused(r)
           \/ PrepareFails(r) \/ PreparePasses(r) \/ SubmitFails(r)
    PROVE  Typed'
  <1>1. /\ call[r].stage # "idle" /\ UNCHANGED <<storeVars, poll, histVars>>
    BY DEF NotOnChain, FoundOnChain, OverQuota, SkipQuota, NothingToRelease, PreflightFails,
           PreflightPasses, PayRetries, PayRefused, PrepareFails, PreparePasses, SubmitFails, At
  <1>2. StoreTypes' /\ Errs' /\ Polls' /\ Hist'
    BY <1>1, SameTypes DEF Typed
  <1>3. Calls
    BY DEF Typed
  <1>4. CASE NotOnChain(r)
    <2> DEFINE c == [call[r] EXCEPT !.stage = "reserving", !.period = period]
    <2>1. call' = [call EXCEPT ![r] = c]
      BY <1>3, <1>4 DEF NotOnChain, Calls
    <2>2. CallOK(call[r]) /\ call[r].stage = "checking" /\ period \in Periods
      BY <1>3, <1>4 DEF NotOnChain, At, Calls, Typed, Hist
    <2>3. CallOK(c)
      BY <2>2 DEF CallOK, Call, CallStages, Early, Before, After
    <2>4. c \in Call
      BY <2>3 DEF CallOK
    <2>5. Calls'
      BY <1>3, <2>1, <2>3, <2>4 DEF Calls
    <2> QED
      BY <1>2, <2>5 DEF Typed
  <1>5. CASE OverQuota(r) \/ NothingToRelease(r)
    BY <1>2, <1>3, <1>5, ReturnCall DEF OverQuota, NothingToRelease, Typed
  <1>6. CASE \/ FoundOnChain(r) \/ SkipQuota(r) \/ PreflightFails(r) \/ PreflightPasses(r)
             \/ PayRetries(r) \/ PayRefused(r) \/ PrepareFails(r) \/ PreparePasses(r) \/ SubmitFails(r)
    <2>1. /\ call[r].stage \in Early => call[r].slot = "none"
          /\ call[r].stage \in Before => call[r].slot = IF Payer(r) \in Keys THEN "taken" ELSE "none"
      BY <1>1, BusyCall
    <2>2. CASE FoundOnChain(r)
      BY <1>1, <1>2, <1>3, <2>1, <2>2, GotoCall DEF Typed, FoundOnChain, At, Early, Before, After, CallStages
    <2>3. CASE SkipQuota(r)
      <3>1. call[r].by \notin Keys
        BY <2>3, AttestAssumption DEF SkipQuota, Payer
      <3> QED
        BY <1>1, <1>2, <1>3, <2>1, <2>3, <3>1, GotoCall DEF Typed, Payer, SkipQuota, At, Early, Before, After, CallStages
    <2>4. CASE PreflightFails(r) \/ PayRefused(r) \/ PrepareFails(r) \/ SubmitFails(r)
      <3>1. PICK stage \in {"releasing", "failing"} : Goto(r, stage)
        BY <2>4 DEF PreflightFails, PayRefused, PrepareFails, SubmitFails
      <3> QED
        BY <1>1, <1>2, <1>3, <3>1, GotoCall DEF Typed, Early, Before, After, CallStages
    <2>5. CASE PreflightPasses(r) \/ PayRetries(r) \/ PreparePasses(r)
      <3>1. call[r].stage \in Before /\ \E stage \in Before : Goto(r, stage)
        BY <2>5 DEF PreflightPasses, PayRetries, PreparePasses, At, Before
      <3>2. PICK stage \in Before : Goto(r, stage)
        BY <3>1
      <3>3. stage \in CallStages /\ stage \notin Early /\ stage \notin After
        BY <3>2 DEF Before, Early, After, CallStages
      <3>4. call[r].slot = IF call[r].by \in Keys THEN "taken" ELSE "none"
        BY <2>1, <3>1 DEF Payer
      <3> QED
        BY <1>1, <1>2, <1>3, <3>2, <3>3, <3>4, GotoCall DEF Typed
    <2> QED
      BY <1>6, <2>2, <2>3, <2>4, <2>5
  <1> QED
    BY <1>4, <1>5, <1>6

\* Any status may be written of any transaction.
LEMMA StatusKept ==
    ASSUME StoreTypes, NEW t \in Txs
    PROVE  att[t] \in AttStatus
  BY DEF StoreTypes

\* The store after the steps that call it.
LEMMA StoreServeTypes ==
    ASSUME Typed, NEW r \in Callers, NEW ok \in BOOLEAN,
           \/ NoteOnChain(r, ok) \/ AddReceipt(r, ok) \/ PaySettles(r, ok)
           \/ Create(r, ok) \/ StorePrepared(r, ok) \/ StorePending(r, ok)
           \/ StoreFailed(r, ok) \/ MarkFailed(r, ok)
           \/ \E p \in Free : MarkOk(r, p, ok)
    PROVE  /\ StoreTypes' /\ Errs' /\ UNCHANGED histVars
           /\ used' = used /\ disk'.used \in {used, disk.used}
           /\ ~ok => storeErrors' = storeErrors + 1
           /\ storeErrors' \in {storeErrors, storeErrors + 1}
  <1>0. StoreTypes /\ Errs /\ storeErrors \in Nat
    BY AttestAssumption DEF Typed, Errs
  <1>1. UNCHANGED histVars
    BY DEF NoteOnChain, AddReceipt, PaySettles, Create, StorePrepared, StorePending, StoreFailed,
           MarkFailed, MarkOk, histVars
  <1>2. ASSUME NEW t, NEW status \in AttStatus, UpdateAttestation(t, status, ok)
        PROVE  /\ StoreTypes' /\ Errs'
               /\ used' = used /\ disk'.used \in {used, disk.used}
               /\ ~ok => storeErrors' = storeErrors + 1
               /\ storeErrors' \in {storeErrors, storeErrors + 1}
    <2>1. [att EXCEPT ![t] = status] \in [Txs -> AttStatus] /\ used \in Usage
      BY <1>0 DEF StoreTypes
    <2>2. StoreTypes' /\ Errs' /\ disk'.used = IF ok THEN used ELSE disk.used
      BY <1>0, <1>2, <2>1, PersistTypes DEF UpdateAttestation
    <2>3. used' = used /\ storeErrors' = IF ok THEN storeErrors ELSE storeErrors + 1
      BY <1>2 DEF UpdateAttestation, Persist, CountCall
    <2> QED
      BY <2>2, <2>3
  <1>3. ASSUME NEW t, CreateAttestation(t, ok)
        PROVE  /\ StoreTypes' /\ Errs'
               /\ used' = used /\ disk'.used \in {used, disk.used}
               /\ ~ok => storeErrors' = storeErrors + 1
               /\ storeErrors' \in {storeErrors, storeErrors + 1}
    <2>1. CASE UpdateAttestation(t, "pending", ok)
      BY <1>2, <2>1 DEF AttStatus
    <2>2. CASE ok /\ UNCHANGED storeVars
      BY <1>0, <2>2, SameTypes DEF storeVars
    <2> QED
      BY <1>3, <2>1, <2>2 DEF CreateAttestation, UpdateAttestation
  <1>4. ASSUME NEW i, NEW status \in PayStatus, MarkPayment(i, status, ok)
        PROVE  /\ StoreTypes' /\ Errs'
               /\ used' = used /\ disk'.used \in {used, disk.used}
               /\ ~ok => storeErrors' = storeErrors + 1
               /\ storeErrors' \in {storeErrors, storeErrors + 1}
    <2>1. StoreTypes' /\ Errs' /\ disk'.used = disk.used
      BY <1>0, <1>4, MarkTypes
    <2>2. used' = used /\ storeErrors' = IF ok THEN storeErrors ELSE storeErrors + 1
      BY <1>4 DEF MarkPayment, CountCall
    <2> QED
      BY <2>1, <2>2
  <1>5. CASE NoteOnChain(r, ok)
    BY <1>1, <1>2, <1>3, <1>5 DEF NoteOnChain, AttStatus
  <1>6. CASE Create(r, ok)
    BY <1>1, <1>3, <1>6 DEF Create
  <1>7. CASE StorePrepared(r, ok) \/ StorePending(r, ok) \/ StoreFailed(r, ok)
    <2>1. Tx(r) \in Txs
      BY <1>7, BusyCall DEF StorePrepared, StorePending, StoreFailed, At
    <2>2. att[Tx(r)] \in AttStatus
      BY <1>0, <2>1, StatusKept
    <2>3. \E status \in AttStatus : UpdateAttestation(Tx(r), status, ok)
      BY <1>7, <2>2 DEF StorePrepared, StorePending, StoreFailed, AttStatus
    <2> QED
      BY <1>1, <1>2, <2>3
  <1>8. CASE AddReceipt(r, ok)
    <2>1. UNCHANGED <<att, used, pay, disk>> /\ CountCall(ok)
      BY <1>8 DEF AddReceipt
    <2>2. Errs' /\ storeErrors' = IF ok THEN storeErrors ELSE storeErrors + 1
      BY <1>0, <2>1, AttestAssumption DEF CountCall, Errs
    <2>3. StoreTypes'
      BY <1>0, <2>1 DEF StoreTypes, Usage
    <2> QED
      BY <1>1, <2>1, <2>2, <2>3
  <1>9. CASE PaySettles(r, ok) \/ MarkFailed(r, ok) \/ \E p \in Free : MarkOk(r, p, ok)
    <2>1. CASE \E i : \E status \in PayStatus : MarkPayment(i, status, ok)
      BY <1>1, <1>4, <2>1
    <2>2. CASE ok /\ UNCHANGED storeVars
      BY <1>0, <1>1, <2>2, SameTypes DEF storeVars
    <2>3. {"settled", "fdc_failed", "fdc_ok"} \subseteq PayStatus
      BY DEF PayStatus
    <2> QED
      BY <1>9, <2>1, <2>2, <2>3 DEF PaySettles, MarkFailed, MarkOk
  <1> QED
    BY <1>5, <1>6, <1>7, <1>8, <1>9

\* The calls and pollers after the same steps.
LEMMA StoreServeCalls ==
    ASSUME Typed, NEW r \in Callers, NEW ok \in BOOLEAN,
           \/ NoteOnChain(r, ok) \/ AddReceipt(r, ok) \/ PaySettles(r, ok)
           \/ Create(r, ok) \/ StorePrepared(r, ok) \/ StorePending(r, ok)
           \/ StoreFailed(r, ok) \/ MarkFailed(r, ok)
           \/ \E p \in Free : MarkOk(r, p, ok)
    PROVE  Calls'
  <1>1. Calls /\ call[r].stage # "idle"
    BY DEF Typed, NoteOnChain, AddReceipt, PaySettles, Create, StorePrepared, StorePending, StoreFailed,
           MarkFailed, MarkOk, At
  <1>2. /\ call[r].stage \in Early => call[r].slot = "none"
        /\ call[r].stage \in Before => call[r].slot = IF call[r].by \in Keys THEN "taken" ELSE "none"
        /\ call[r].stage \in After => call[r].slot = IF call[r].by \in Keys THEN "spent" ELSE "none"
    BY <1>1, BusyCall DEF Payer
  <1>3. ASSUME NEW stage \in {"rereleasing", "releasing", "failing", "unmarking"}, Goto(r, stage)
        PROVE  Calls'
    BY <1>1, <1>3, GotoCall DEF Early, Before, After, CallStages
  <1>4. ASSUME call[r].stage \in Early, NEW stage \in Early, Goto(r, stage)
        PROVE  Calls'
    <2>1. stage \in CallStages /\ stage \notin Before /\ stage \notin After
      BY <1>4 DEF Early, Before, After, CallStages
    <2> QED
      BY <1>1, <1>2, <1>4, <2>1, GotoCall
  <1>5. ASSUME call[r].stage \in Before, NEW stage \in Before, Goto(r, stage)
        PROVE  Calls'
    <2>1. stage \in CallStages /\ stage \notin Early /\ stage \notin After
      BY <1>5 DEF Early, Before, After, CallStages
    <2> QED
      BY <1>1, <1>2, <1>5, <2>1, GotoCall
  <1>6. ASSUME call[r].stage \in After, NEW stage \in After, Goto(r, stage)
        PROVE  Calls'
    <2>1. stage \in CallStages /\ stage \notin Early /\ stage \notin Before
      BY <1>6 DEF Early, Before, After, CallStages
    <2> QED
      BY <1>1, <1>2, <1>6, <2>1, GotoCall
  <1>7. CASE NoteOnChain(r, ok) \/ AddReceipt(r, ok)
    BY <1>1, <1>3, <1>4, <1>7, ReturnCall DEF NoteOnChain, AddReceipt, At, Early
  <1>8. CASE PaySettles(r, ok) \/ Create(r, ok) \/ StorePrepared(r, ok)
    BY <1>3, <1>5, <1>8 DEF PaySettles, Create, StorePrepared, At, Before
  <1>9. CASE StorePending(r, ok) \/ \E p \in Free : MarkOk(r, p, ok)
    BY <1>3, <1>6, <1>9 DEF StorePending, MarkOk, At, After
  <1>10. CASE StoreFailed(r, ok) \/ MarkFailed(r, ok)
    BY <1>3, <1>10 DEF StoreFailed, MarkFailed
  <1> QED
    BY <1>7, <1>8, <1>9, <1>10

\* The steps of a call that write the store leave the pollers with their
\* types.
LEMMA StoreServePolls ==
    ASSUME Typed, NEW r \in Callers, NEW ok \in BOOLEAN,
           \/ NoteOnChain(r, ok) \/ AddReceipt(r, ok) \/ PaySettles(r, ok)
           \/ Create(r, ok) \/ StorePrepared(r, ok) \/ StorePending(r, ok)
           \/ StoreFailed(r, ok) \/ MarkFailed(r, ok)
           \/ \E p \in Free : MarkOk(r, p, ok)
    PROVE  Polls'
  <1>1. CASE UNCHANGED poll
    BY <1>1, SameTypes DEF Typed
  <1>2. CASE \E p \in Free : poll' = [poll EXCEPT ![p] = [stage |-> "polling", tx |-> Tx(r), attempt |-> 1]]
    <2>1. PICK p \in Free : poll' = [poll EXCEPT ![p] = [stage |-> "polling", tx |-> Tx(r), attempt |-> 1]]
      BY <1>2
    <2>2. Tx(r) \in Txs
      BY BusyCall DEF NoteOnChain, AddReceipt, PaySettles, Create, StorePrepared, StorePending, StoreFailed,
                      MarkFailed, MarkOk, At
    <2>3. [stage |-> "polling", tx |-> Tx(r), attempt |-> 1] \in Poller
      BY <2>2, AttestAssumption DEF Poller, PollStages
    <2> QED
      BY <2>1, <2>2, <2>3 DEF Typed, Polls, Free
  <1> QED
    BY <1>1, <1>2 DEF NoteOnChain, AddReceipt, PaySettles, Create, StorePrepared, StorePending, StoreFailed,
                      MarkFailed, MarkOk

\* The two counters of a key, when one slot more or less is counted.
LEMMA UsageTypes ==
    ASSUME NEW u \in Usage, NEW k \in Keys, NEW n \in Periods
    PROVE  /\ u[k][n] \in Nat
           /\ [u EXCEPT ![k][n] = @ + 1] \in Usage
           /\ u[k][n] > 0 => [u EXCEPT ![k][n] = @ - 1] \in Usage
  BY DEF Usage

\* A caller's own counter: a reserving key, or a key with a slot.
LEMMA Counter ==
    ASSUME Typed, NEW r \in Callers, call[r].stage # "idle"
    PROVE  /\ call[r].period \in Periods /\ call[r] \in Call
           /\ call[r].slot # "none" => Payer(r) \in Keys
           /\ StoreTypes /\ Errs /\ used \in Usage /\ uncounted \in Usage /\ charged \in Usage
           /\ Calls /\ Polls /\ Hist
  BY BusyCall DEF Typed, Calls, Call, StoreTypes, Hist

\* A reservation keeps the types, whether its write throws or not.
LEMMA ReserveTyped ==
    ASSUME Typed, NEW r \in Callers, NEW ok \in BOOLEAN, Reserve(r, ok)
    PROVE  Typed'
  <1>1. Payer(r) \in Keys /\ call[r].stage = "reserving"
    BY DEF Reserve, At
  <1>2. call[r].period \in Periods /\ call[r] \in Call /\ call[r].slot = "none" /\ Calls /\ att \in [Txs -> AttStatus]
    BY <1>1, Counter, BusyCall DEF Early, StoreTypes
  <1>3. [used EXCEPT ![Payer(r)][call[r].period] = @ + 1] \in Usage
    BY <1>1, <1>2, Counter, UsageTypes
  <1>4. StoreTypes' /\ Errs'
    BY <1>1, <1>2, <1>3, Counter, PersistTypes DEF Reserve
  <1>5. Polls' /\ Hist'
    BY <1>1, Counter, SameTypes DEF Reserve
  <1>6. Calls'
    <2>1. CASE ok
      <3> DEFINE c == [call[r] EXCEPT !.stage = "preflight", !.slot = "taken"]
      <3>1. call' = [call EXCEPT ![r] = c]
        BY <1>2, <2>1 DEF Reserve, Calls
      <3>2. CallOK(call[r])
        BY <1>2 DEF Calls
      <3>3. CallOK(c) /\ c \in Call
        BY <1>1, <3>2 DEF CallOK, Call, CallStages, Slots, Early, Before, After, Payer
      <3> QED
        BY <1>2, <3>1, <3>3 DEF Calls
    <2>2. CASE ~ok
      BY <1>2, <2>2, ReturnCall DEF Reserve
    <2> QED
      BY <2>1, <2>2
  <1> QED
    BY <1>4, <1>5, <1>6 DEF Typed

\* A release keeps the types, whether its write throws or not.
LEMMA ReleaseTyped ==
    ASSUME Typed, NEW r \in Callers, NEW ok \in BOOLEAN, Release(r, ok)
    PROVE  Typed'
  <1>1. call[r].stage \in {"releasing", "rereleasing"} /\ call[r].slot # "none"
    BY DEF Release
  <1>2. /\ Payer(r) \in Keys /\ call[r].period \in Periods /\ call[r] \in Call
        /\ Calls /\ Polls /\ Hist /\ StoreTypes /\ Errs /\ att \in [Txs -> AttStatus]
        /\ used \in Usage /\ uncounted \in Usage
    BY <1>1, Counter DEF StoreTypes
  <1>3. StoreTypes' /\ Errs'
    <2>1. CASE Taken(r) > 0
      <3>1. [used EXCEPT ![Payer(r)][call[r].period] = @ - 1] \in Usage
        BY <1>2, <2>1, UsageTypes DEF Taken
      <3> QED
        BY <1>2, <2>1, <3>1, PersistTypes DEF Release
    <2>2. CASE ~(Taken(r) > 0)
      BY <1>2, <2>2, SameTypes DEF Release
    <2> QED
      BY <2>1, <2>2
  <1>4. Polls' /\ Hist'
    <2>1. UNCHANGED poll /\ UNCHANGED <<period, charged, crashes>>
      BY DEF Release
    <2>2. uncounted' \in Usage
      BY <1>2, UsageTypes DEF Release
    <2> QED
      BY <1>2, <2>1, <2>2, SameTypes DEF Hist, Usage
  <1>5. Calls'
    <2>1. CASE ok \/ At(r, "rereleasing")
      BY <1>2, <2>1, ReturnCall DEF Release
    <2>2. CASE ~(ok \/ At(r, "rereleasing"))
      <3> DEFINE c == [call[r] EXCEPT !.stage = "rereleasing", !.slot = "returned"]
      <3>1. call' = [call EXCEPT ![r] = c]
        BY <1>2, <2>2 DEF Release, Calls
      <3>2. CallOK(call[r])
        BY <1>2 DEF Calls
      <3>3. CallOK(c) /\ c \in Call
        BY <1>1, <1>2, <3>2 DEF CallOK, Call, CallStages, Slots, Early, Before, After, Payer
      <3> QED
        BY <1>2, <3>1, <3>3 DEF Calls
    <2> QED
      BY <2>1, <2>2
  <1> QED
    BY <1>3, <1>4, <1>5 DEF Typed

\* An accepted submission keeps the types.
LEMMA SubmitTyped ==
    ASSUME Typed, NEW r \in Callers, SubmitPasses(r)
    PROVE  Typed'
  <1>1. call[r].stage = "submitting"
    BY DEF SubmitPasses, At
  <1>2. /\ call[r].period \in Periods /\ call[r] \in Call
        /\ Calls /\ Polls /\ Hist /\ StoreTypes /\ Errs /\ charged \in Usage
    BY <1>1, Counter
  <1>3. StoreTypes' /\ Errs' /\ Polls'
    BY <1>2, SameTypes DEF SubmitPasses
  <1>4. Hist'
    <2>1. charged' \in Usage
      <3>1. CASE Payer(r) \in Keys
        <4>1. [charged EXCEPT ![Payer(r)][call[r].period] = @ + 1] \in Usage
          BY <1>2, <3>1, UsageTypes
        <4> QED
          BY <3>1, <4>1 DEF SubmitPasses
      <3>2. CASE Payer(r) \notin Keys
        BY <1>2, <3>2 DEF SubmitPasses
      <3> QED
        BY <3>1, <3>2
    <2> QED
      BY <1>2, <2>1 DEF Hist, SubmitPasses, Usage
  <1>5. Calls'
    <2>1. CallOK(call[r])
      BY <1>2 DEF Calls
    <2>2. CASE Payer(r) \in Keys
      <3> DEFINE c == [call[r] EXCEPT !.stage = "updating", !.slot = "spent"]
      <3>1. call' = [call EXCEPT ![r] = c]
        BY <1>2, <2>2 DEF SubmitPasses, Calls
      <3>2. CallOK(c) /\ c \in Call
        BY <1>1, <1>2, <2>1, <2>2 DEF CallOK, Call, CallStages, Slots, Early, Before, After, Payer
      <3> QED
        BY <1>2, <3>1, <3>2 DEF Calls
    <2>3. CASE Payer(r) \notin Keys
      <3>1. Goto(r, "updating") /\ call[r].slot = "none"
        BY <1>1, <2>3, BusyCall DEF SubmitPasses, Before
      <3> QED
        BY <1>1, <1>2, <2>3, <3>1, GotoCall DEF Payer, Early, Before, After, CallStages
    <2> QED
      BY <2>2, <2>3
  <1> QED
    BY <1>3, <1>4, <1>5 DEF Typed

\* A request that arrives keeps the types.
LEMMA AskTyped ==
    ASSUME Typed, NEW r \in Callers, NEW t \in Txs, NEW a \in Payers, Ask(r, t, a)
    PROVE  Typed'
  <1> DEFINE c == [Idle EXCEPT !.stage = IF OnChain THEN "checking" ELSE "reserving",
                               !.tx = t, !.by = a, !.period = period]
  <1>1. CallOK(c) /\ c \in Call
    BY DEF Typed, Hist, CallOK, Call, Idle, CallStages, Slots, Early, Before, After
  <1>2. call' = [call EXCEPT ![r] = c]
    BY DEF Ask
  <1> HIDE DEF c
  <1>3. Calls'
    BY <1>1, <1>2 DEF Typed, Calls
  <1>4. StoreTypes' /\ Errs' /\ Polls' /\ Hist'
    BY SameTypes DEF Ask, Typed
  <1> QED
    BY <1>3, <1>4 DEF Typed

(***************************************************************************)
(* The pollers.                                                            *)
(***************************************************************************)
\* A poller moves on, tries again, fails or ends with the transaction it has.
LEMMA PollerMoves ==
    ASSUME Polls, NEW p \in Pollers, poll[p].stage # "none",
           \/ PollAgain(p) \/ PollEnds(p) \/ \E stage \in PollStages : PollGoto(p, stage)
    PROVE  Polls'
  <1>1. poll[p] \in Poller /\ poll[p].tx \in Txs
    BY DEF Polls, Free
  <1>2. PICK q \in Poller : poll' = [poll EXCEPT ![p] = q] /\ (q.stage # "none" => q.tx \in Txs)
    <2>1. CASE PollAgain(p)
      <3>1. CASE poll[p].attempt < MaxPollAttempts
        <4> DEFINE q == [poll[p] EXCEPT !.stage = "polling", !.attempt = @ + 1]
        <4>0. poll[p].attempt + 1 \in 0..MaxPollAttempts
          BY <1>1, <3>1, AttestAssumption DEF Poller
        <4>1. q \in Poller /\ q.tx \in Txs
          BY <1>1, <4>0 DEF Poller, PollStages
        <4>2. poll' = [poll EXCEPT ![p] = q]
          BY <2>1, <3>1 DEF PollAgain
        <4> QED
          BY <4>1, <4>2
      <3>2. CASE ~(poll[p].attempt < MaxPollAttempts)
        <4> DEFINE q == [poll[p] EXCEPT !.stage = "failing"]
        <4>1. q \in Poller /\ q.tx \in Txs
          BY <1>1 DEF Poller, PollStages
        <4>2. poll' = [poll EXCEPT ![p] = q]
          BY <2>1, <3>2 DEF PollAgain
        <4> QED
          BY <4>1, <4>2
      <3> QED
        BY <3>1, <3>2
    <2>2. CASE PollEnds(p)
      <3>1. NoPoll \in Poller /\ NoPoll.stage = "none"
        BY AttestAssumption DEF NoPoll, Poller, PollStages
      <3> QED
        BY <2>2, <3>1 DEF PollEnds
    <2>3. CASE \E stage \in PollStages : PollGoto(p, stage)
      <3>1. PICK stage \in PollStages : PollGoto(p, stage)
        BY <2>3
      <3> DEFINE q == [poll[p] EXCEPT !.stage = stage]
      <3>2. q \in Poller /\ q.tx \in Txs
        BY <1>1 DEF Poller
      <3>3. poll' = [poll EXCEPT ![p] = q]
        BY <3>1 DEF PollGoto, Polls
      <3> QED
        BY <3>2, <3>3
    <2> QED
      BY <2>1, <2>2, <2>3
  <1> QED
    BY <1>2 DEF Polls, Free

\* A poller keeps the types and touches neither calls nor counters.
LEMMA PollTyped ==
    ASSUME Typed, NEW p \in Pollers, Poll(p)
    PROVE  /\ Typed' /\ UNCHANGED call /\ UNCHANGED histVars
           /\ used' = used /\ disk'.used \in {used, disk.used}
           /\ storeErrors' \in {storeErrors, storeErrors + 1}
  <1>1. Polls /\ StoreTypes /\ Errs /\ Calls /\ Hist
    BY DEF Typed
  <1>2. poll[p].stage # "none" /\ UNCHANGED call /\ UNCHANGED histVars
    BY DEF Poll, FetchFails, VerifyFails, NoProof, FindProof, VerifyOnChain, NoteError, Deliver, FailPoll
  <1>3. Polls'
    <2>1. PollAgain(p) \/ PollEnds(p) \/ \E stage \in PollStages : PollGoto(p, stage)
      BY DEF Poll, FetchFails, VerifyFails, NoProof, FindProof, VerifyOnChain, NoteError, Deliver, FailPoll,
             PollStages
    <2> QED
      BY <1>1, <1>2, <2>1, PollerMoves
  <1>4. att[poll[p].tx] \in AttStatus
    BY <1>1, <1>2 DEF Polls, Free, StoreTypes
  <1>5. /\ StoreTypes' /\ Errs' /\ used' = used /\ disk'.used \in {used, disk.used}
        /\ storeErrors' \in {storeErrors, storeErrors + 1}
    <2>1. ASSUME NEW ok \in BOOLEAN, NEW status \in AttStatus, UpdateAttestation(poll[p].tx, status, ok)
          PROVE  <1>5!:
      <3>1. [att EXCEPT ![poll[p].tx] = status] \in [Txs -> AttStatus] /\ used \in Usage
        BY <1>1 DEF StoreTypes
      <3>2. StoreTypes' /\ Errs' /\ disk'.used = IF ok THEN used ELSE disk.used
        BY <1>1, <2>1, <3>1, PersistTypes DEF UpdateAttestation
      <3>3. used' = used /\ storeErrors' \in {storeErrors, storeErrors + 1}
        BY <2>1 DEF UpdateAttestation, Persist, CountCall
      <3> QED
        BY <3>2, <3>3
    <2>2. CASE UNCHANGED storeVars
      BY <1>1, <2>2, SameTypes DEF storeVars
    <2>3. CASE \E ok \in BOOLEAN : Deliver(p, ok)
      <3>1. PICK ok \in BOOLEAN : CountCall(ok) /\ UNCHANGED <<att, used, pay, disk>>
        BY <2>3 DEF Deliver
      <3>2. Errs' /\ storeErrors' \in {storeErrors, storeErrors + 1}
        BY <1>1, <3>1, AttestAssumption DEF CountCall, Errs
      <3>3. StoreTypes'
        BY <1>1, <3>1 DEF StoreTypes, Usage
      <3> QED
        BY <3>1, <3>2, <3>3
    <2>4. \/ UNCHANGED storeVars \/ \E ok \in BOOLEAN : Deliver(p, ok)
          \/ \E ok \in BOOLEAN, status \in AttStatus : UpdateAttestation(poll[p].tx, status, ok)
      BY <1>4 DEF Poll, FetchFails, VerifyFails, NoProof, FindProof, VerifyOnChain, NoteError, FailPoll, AttStatus
    <2> QED
      BY <2>1, <2>2, <2>3, <2>4
  <1>6. Calls' /\ Hist'
    BY <1>1, <1>2, SameTypes
  <1> QED
    BY <1>2, <1>3, <1>5, <1>6 DEF Typed

-----------------------------------------------------------------------------
(***************************************************************************)
(* What a step does to the reservations.  All but five kinds of step leave *)
(* the slots and the counters as they are; the file has the counters it    *)
(* had or those in memory.                                                 *)
(***************************************************************************)
Quiet ==
    /\ UNCHANGED <<used, charged, uncounted, crashes>>
    /\ disk'.used \in {used, disk.used}
    /\ storeErrors' \in {storeErrors, storeErrors + 1}

\* The caller's slot stays; one that is spent is in trouble only after an error.
SlotStays(r) ==
    /\ \E c \in Call : /\ call' = [call EXCEPT ![r] = c]
                       /\ c.slot = call[r].slot
                       /\ c.slot # "none" => c.by = call[r].by /\ c.period = call[r].period
                       /\ c.slot = "spent" /\ c.stage \notin After =>
                             call[r].stage \notin After \/ storeErrors' = storeErrors + 1

\* The caller returns with nothing taken.
SlotGone(r) ==
    /\ call' = [call EXCEPT ![r] = Idle]
    /\ call[r].slot # "taken"

\* The steps of a call that write nothing leave the counters alone, and its
\* slot or the call ends without one.
LEMMA QuietServeKind ==
    ASSUME Typed, NEW r \in Callers,
           \/ NotOnChain(r) \/ FoundOnChain(r)
           \/ OverQuota(r) \/ SkipQuota(r) \/ NothingToRelease(r)
           \/ PreflightFails(r) \/ PreflightPasses(r)
           \/ PayRetries(r) \/ PayRefused(r)
           \/ PrepareFails(r) \/ PreparePasses(r) \/ SubmitFails(r)
    PROVE  Quiet /\ (SlotStays(r) \/ SlotGone(r))
  <1>1. /\ call[r].stage # "idle" /\ UNCHANGED <<storeVars, poll, histVars>>
        /\ call[r].stage \notin After
    BY DEF NotOnChain, FoundOnChain, OverQuota, SkipQuota, NothingToRelease, PreflightFails,
           PreflightPasses, PayRetries, PayRefused, PrepareFails, PreparePasses, SubmitFails, At, After
  <1>2. Quiet
    BY <1>1 DEF Quiet, storeVars, histVars
  <1>3. Typed'
    BY QuietServeTyped
  <1>4. call[r] \in Call /\ call \in [Callers -> Call] /\ call'[r] \in Call
    BY <1>3 DEF Typed, Calls
  <1>5. CASE OverQuota(r) \/ NothingToRelease(r)
    <2>1. call[r].slot # "taken"
      BY <1>1, <1>5, BusyCall DEF OverQuota, NothingToRelease, Early, At
    <2> QED
      BY <1>2, <1>5, <2>1 DEF OverQuota, NothingToRelease, Return, SlotGone
  <1>6. CASE NotOnChain(r)
    <2> DEFINE c == [call[r] EXCEPT !.stage = "reserving", !.period = period]
    <2>1. call' = [call EXCEPT ![r] = c]
      BY <1>4, <1>6 DEF NotOnChain
    <2>2. c \in Call /\ c.slot = call[r].slot /\ c.slot = "none"
      BY <1>1, <1>4, <1>6, <2>1, BusyCall DEF NotOnChain, At, Early, Call
    <2> QED
      BY <1>2, <2>1, <2>2 DEF SlotStays
  <1>7. CASE \E stage : Goto(r, stage)
    <2>1. PICK stage : Goto(r, stage)
      BY <1>7
    <2> DEFINE c == [call[r] EXCEPT !.stage = stage]
    <2>2. call' = [call EXCEPT ![r] = c]
      BY <1>4, <2>1 DEF Goto
    <2>3. c \in Call
      BY <1>4, <2>2
    <2>4. c.slot = call[r].slot /\ c.by = call[r].by /\ c.period = call[r].period
      BY <1>4 DEF Call
    <2> HIDE DEF c
    <2> QED
      BY <1>1, <1>2, <2>2, <2>3, <2>4 DEF SlotStays
  <1> QED
    BY <1>5, <1>6, <1>7 DEF NotOnChain, FoundOnChain, OverQuota, SkipQuota, NothingToRelease, PreflightFails,
           PreflightPasses, PayRetries, PayRefused, PrepareFails, PreparePasses, SubmitFails

\* The same for the steps that write the attestation or the payment.
LEMMA StoreServeKind ==
    ASSUME Typed, NEW r \in Callers, NEW ok \in BOOLEAN,
           \/ NoteOnChain(r, ok) \/ AddReceipt(r, ok) \/ PaySettles(r, ok)
           \/ Create(r, ok) \/ StorePrepared(r, ok) \/ StorePending(r, ok)
           \/ StoreFailed(r, ok) \/ MarkFailed(r, ok)
           \/ \E p \in Free : MarkOk(r, p, ok)
    PROVE  Quiet /\ (SlotStays(r) \/ SlotGone(r))
  <1>1. Quiet /\ (~ok => storeErrors' = storeErrors + 1)
    BY StoreServeTypes DEF Quiet, histVars
  <1>2. call \in [Callers -> Call] /\ call[r] \in Call /\ call[r].stage # "idle" /\ call'[r] \in Call
    <2>1. Calls'
      BY StoreServeCalls
    <2> QED
      BY <2>1 DEF Typed, Calls, NoteOnChain, AddReceipt, PaySettles, Create, StorePrepared, StorePending,
             StoreFailed, MarkFailed, MarkOk, At
  <1>3. ASSUME NEW stage, Goto(r, stage), ok => call[r].stage \notin After \/ stage \in After
        PROVE  SlotStays(r)
    <2> DEFINE c == [call[r] EXCEPT !.stage = stage]
    <2>1. call' = [call EXCEPT ![r] = c]
      BY <1>2, <1>3 DEF Goto
    <2>2. c \in Call
      BY <1>2, <2>1
    <2>3. c.slot = call[r].slot /\ c.by = call[r].by /\ c.period = call[r].period /\ c.stage = stage
      BY <1>2 DEF Call
    <2> HIDE DEF c
    <2> QED
      BY <1>1, <1>3, <2>1, <2>2, <2>3 DEF SlotStays
  <1>4. ASSUME Return(r), call[r].stage \in {"listing", "answering"}
        PROVE  SlotGone(r)
    <2>1. call[r].slot # "taken"
      BY <1>2, <1>4, BusyCall DEF Early, After
    <2> QED
      BY <1>4, <2>1 DEF Return, SlotGone
  <1>5. CASE NoteOnChain(r, ok) \/ PaySettles(r, ok) \/ Create(r, ok) \/ StorePrepared(r, ok)
             \/ StoreFailed(r, ok) \/ MarkFailed(r, ok)
    <2>1. call[r].stage \notin After /\ \E stage : Goto(r, stage)
      BY <1>5 DEF NoteOnChain, PaySettles, Create, StorePrepared, StoreFailed, MarkFailed, At, After
    <2> QED
      BY <1>1, <1>3, <2>1
  <1>6. CASE StorePending(r, ok) \/ \E p \in Free : MarkOk(r, p, ok)
    <2>1. \E stage : Goto(r, stage) /\ (ok => stage \in After)
      BY <1>6 DEF StorePending, MarkOk, After
    <2> QED
      BY <1>1, <1>3, <2>1
  <1>7. CASE AddReceipt(r, ok)
    <2>1. CASE ok
      BY <1>1, <1>4, <1>7, <2>1 DEF AddReceipt
    <2>2. CASE ~ok
      <3>1. \E stage : Goto(r, stage)
        BY <1>7, <2>2 DEF AddReceipt
      <3> QED
        BY <1>1, <1>3, <2>2, <3>1
    <2> QED
      BY <2>1, <2>2
  <1> QED
    BY <1>5, <1>6, <1>7

Calm == Quiet /\ (UNCHANGED call \/ \E r \in Callers : SlotStays(r) \/ SlotGone(r))

\* A step is calm, or it is one that moves a slot.
LEMMA StepKinds ==
    ASSUME Typed, [Next]_vars
    PROVE  /\ Typed'
           /\ \/ Calm
              \/ Crash
              \/ \E r \in Callers : \/ SubmitPasses(r)
                                    \/ \E ok \in BOOLEAN : Reserve(r, ok) \/ Release(r, ok)
  <1>1. CASE UNCHANGED vars
    <2>1. UNCHANGED storeVars /\ UNCHANGED call /\ UNCHANGED poll /\ UNCHANGED histVars
      BY <1>1 DEF vars
    <2>2. Typed' /\ UNCHANGED call
      BY <2>1, SameTypes DEF Typed
    <2>3. Quiet
      BY <2>1 DEF Quiet, storeVars, histVars
    <2> QED
      BY <2>2, <2>3 DEF Calm
  <1>2. CASE \E r \in Callers, t \in Txs : AnswerCached(r, t)
    BY <1>1, <1>2 DEF AnswerCached
  <1>3. CASE \E r \in Callers, t \in Txs, a \in Payers : Ask(r, t, a)
    <2>1. PICK r \in Callers, t \in Txs, a \in Payers : Ask(r, t, a)
      BY <1>3
    <2>2. Typed'
      BY <2>1, AskTyped
    <2>3. Quiet
      BY <2>1 DEF Ask, Quiet, storeVars, histVars
    <2> DEFINE c == [Idle EXCEPT !.stage = IF OnChain THEN "checking" ELSE "reserving",
                                 !.tx = t, !.by = a, !.period = period]
    <2>4. call' = [call EXCEPT ![r] = c] /\ c.slot = "none" /\ call[r].stage = "idle"
      BY <2>1 DEF Ask, Idle, At
    <2>5. c \in Call /\ call[r].slot = "none"
      <3>1. Calls /\ Calls'
        BY <2>2 DEF Typed
      <3>2. c = call'[r]
        BY <2>4, <3>1 DEF Calls
      <3> HIDE DEF c
      <3>3. c \in Call
        BY <3>1, <3>2 DEF Calls
      <3>4. call[r].slot = "none"
        BY <2>4, <3>1 DEF Calls, CallOK, Early
      <3> QED
        BY <3>3, <3>4
    <2> HIDE DEF c
    <2>6. SlotStays(r)
      BY <2>4, <2>5 DEF SlotStays, After
    <2> QED
      BY <2>2, <2>3, <2>6 DEF Calm
  <1>4. CASE NextPeriod
    <2>1. StoreTypes' /\ Errs' /\ Calls' /\ Polls'
      BY <1>4, SameTypes DEF NextPeriod, Typed
    <2>2. Hist'
      BY <1>4 DEF NextPeriod, Typed, Hist, Usage
    <2>3. Calm
      BY <1>4 DEF NextPeriod, Calm, Quiet, storeVars
    <2> QED
      BY <2>1, <2>2, <2>3 DEF Typed
  <1>5. CASE Crash
    <2>1. StoreTypes' /\ Errs'
      BY <1>5 DEF Crash, Typed, StoreTypes, Errs, Usage
    <2>2. CallOK(Idle)
      BY AttestAssumption DEF CallOK, Idle, Call, CallStages, Slots, Early, Before, After
    <2>3. Calls'
      BY <1>5, <2>2 DEF Crash, Calls, CallOK
    <2>4. Polls'
      BY <1>5, AttestAssumption DEF Crash, Polls, NoPoll, Poller, PollStages, Free
    <2>5. Hist'
      BY <1>5, AttestAssumption DEF Crash, Typed, Hist, Usage
    <2> QED
      BY <1>5, <2>1, <2>3, <2>4, <2>5 DEF Typed
  <1>6. ASSUME NEW r \in Callers, Serve(r)
        PROVE  /\ Typed'
               /\ Calm \/ SubmitPasses(r) \/ \E ok \in BOOLEAN : Reserve(r, ok) \/ Release(r, ok)
    <2>1. CASE SubmitPasses(r)
      BY <2>1, SubmitTyped
    <2>2. CASE \E ok \in BOOLEAN : Reserve(r, ok) \/ Release(r, ok)
      BY <2>2, ReserveTyped, ReleaseTyped
    <2>3. CASE \/ NotOnChain(r) \/ FoundOnChain(r)
               \/ OverQuota(r) \/ SkipQuota(r) \/ NothingToRelease(r)
               \/ PreflightFails(r) \/ PreflightPasses(r)
               \/ PayRetries(r) \/ PayRefused(r)
               \/ PrepareFails(r) \/ PreparePasses(r) \/ SubmitFails(r)
      BY <2>3, QuietServeTyped, QuietServeKind DEF Calm
    <2>4. ASSUME NEW ok \in BOOLEAN,
                 \/ NoteOnChain(r, ok) \/ AddReceipt(r, ok) \/ PaySettles(r, ok)
                 \/ Create(r, ok) \/ StorePrepared(r, ok) \/ StorePending(r, ok)
                 \/ StoreFailed(r, ok) \/ MarkFailed(r, ok)
                 \/ \E p \in Free : MarkOk(r, p, ok)
          PROVE  Typed' /\ Calm
      <3>1. StoreTypes' /\ Errs' /\ Calls' /\ Polls' /\ UNCHANGED histVars
        BY <2>4, StoreServeTypes, StoreServeCalls, StoreServePolls
      <3>2. Hist'
        BY <3>1, SameTypes DEF Typed
      <3> QED
        BY <2>4, <3>1, <3>2, StoreServeKind DEF Typed, Calm
    <2>5. CASE \E ok \in BOOLEAN :
                 \/ NoteOnChain(r, ok) \/ AddReceipt(r, ok) \/ PaySettles(r, ok)
                 \/ Create(r, ok) \/ StorePrepared(r, ok) \/ StorePending(r, ok)
                 \/ StoreFailed(r, ok) \/ MarkFailed(r, ok)
                 \/ \E p \in Free : MarkOk(r, p, ok)
      BY <2>4, <2>5
    <2> QED
      BY <1>6, <2>1, <2>2, <2>3, <2>5 DEF Serve
  <1>7. ASSUME NEW p \in Pollers, Poll(p)
        PROVE  Typed' /\ Calm
    BY <1>7, PollTyped DEF Calm, Quiet, histVars
  <1> QED
    BY <1>1, <1>2, <1>3, <1>4, <1>5, <1>6, <1>7 DEF Next, Environment

\* Every variable of attest.ts, of the store and of its files keeps its
\* type; only a call that a key pays has a slot.
THEOREM TypeCorrect == Spec => []TypeOK
  <1>1. Typed /\ [Next]_vars => Typed'
    BY StepKinds
  <1> QED
    BY <1>1, InitTyped, TypedIsTypeOK, PTL DEF Spec

-----------------------------------------------------------------------------
(***************************************************************************)
(* The slots of one key in one period, step by step.                       *)
(***************************************************************************)
\* The calls f that hold a slot of k in period n, and those whose slot is in
\* trouble: it may be given back although it is charged or was given back
\* before.
HoldIn(f, k, n) == {r \in Callers : f[r].slot = "taken" /\ f[r].by = k /\ f[r].period = n}

Troubled(c) == c.slot = "returned" \/ (c.slot = "spent" /\ c.stage \notin After)
TroubledIn(f, k, n) == {r \in Callers : Troubled(f[r]) /\ f[r].by = k /\ f[r].period = n}

Trouble(k, n) == Cardinality(TroubledIn(call, k, n))

\* The calls with a slot, and those that may give one back twice, can be
\* counted.
LEMMA CountsAreNatural ==
    ASSUME NEW f, NEW k, NEW n
    PROVE  /\ IsFiniteSet(HoldIn(f, k, n)) /\ Cardinality(HoldIn(f, k, n)) \in Nat
           /\ IsFiniteSet(TroubledIn(f, k, n)) /\ Cardinality(TroubledIn(f, k, n)) \in Nat
  <1>1. HoldIn(f, k, n) \in SUBSET Callers /\ TroubledIn(f, k, n) \in SUBSET Callers
    BY DEF HoldIn, TroubledIn
  <1>2. IsFiniteSet(HoldIn(f, k, n)) /\ IsFiniteSet(TroubledIn(f, k, n))
    BY <1>1, AttestAssumption, FS_Subset
  <1> QED
    BY <1>2, FS_CardinalityType

\* The two counts, before and after a step.
LEMMA HeldIs ==
    ASSUME NEW k, NEW n
    PROVE  /\ Held(k, n) = Cardinality(HoldIn(call, k, n))
           /\ Held(k, n)' = Cardinality(HoldIn(call', k, n))
           /\ Trouble(k, n)' = Cardinality(TroubledIn(call', k, n))
           /\ {Held(k, n), Held(k, n)', Trouble(k, n), Trouble(k, n)'} \subseteq Nat
  <1>1. Held(k, n) = Cardinality(HoldIn(call, k, n))
    BY DEF Held, Holding, HoldIn, Payer
  <1>2. Held(k, n)' = Cardinality(HoldIn(call', k, n))
    BY DEF Held, Holding, HoldIn, Payer
  <1>3. Trouble(k, n)' = Cardinality(TroubledIn(call', k, n))
    BY DEF Trouble, TroubledIn, Troubled, After
  <1> QED
    BY <1>1, <1>2, <1>3, CountsAreNatural DEF Trouble

\* When the call of one caller changes, only that caller moves.
LEMMA OthersStay ==
    ASSUME NEW f, NEW g, NEW r \in Callers, NEW k, NEW n,
           \A s \in Callers \ {r} : g[s] = f[s]
    PROVE  /\ HoldIn(g, k, n) = IF g[r].slot = "taken" /\ g[r].by = k /\ g[r].period = n
                                THEN HoldIn(f, k, n) \cup {r} ELSE HoldIn(f, k, n) \ {r}
           /\ TroubledIn(g, k, n) = IF Troubled(g[r]) /\ g[r].by = k /\ g[r].period = n
                                    THEN TroubledIn(f, k, n) \cup {r} ELSE TroubledIn(f, k, n) \ {r}
  <1>1. HoldIn(g, k, n) = IF g[r].slot = "taken" /\ g[r].by = k /\ g[r].period = n
                          THEN HoldIn(f, k, n) \cup {r} ELSE HoldIn(f, k, n) \ {r}
    BY DEF HoldIn
  <1>2. TroubledIn(g, k, n) = IF Troubled(g[r]) /\ g[r].by = k /\ g[r].period = n
                              THEN TroubledIn(f, k, n) \cup {r} ELSE TroubledIn(f, k, n) \ {r}
    BY DEF TroubledIn
  <1> QED
    BY <1>1, <1>2

\* An idle call has no slot and nothing to give back.
LEMMA IdleCall == Idle \in Call /\ Idle.slot = "none" /\ ~Troubled(Idle)
  BY AttestAssumption DEF Idle, Troubled, Call, CallStages, Slots

\* A calm step moves no slot, and troubles at most one call for each write
\* that throws.
LEMMA CalmCounts ==
    ASSUME Typed, Calm, NEW k, NEW n
    PROVE  /\ Held(k, n)' = Held(k, n)
           /\ Trouble(k, n)' <= Trouble(k, n) + (storeErrors' - storeErrors)
  <1> DEFINE H == HoldIn(call, k, n)
             T == TroubledIn(call, k, n)
             H1 == HoldIn(call', k, n)
             T1 == TroubledIn(call', k, n)
  <1>0. storeErrors \in Nat /\ storeErrors' \in {storeErrors, storeErrors + 1} /\ call \in [Callers -> Call]
    BY AttestAssumption DEF Calm, Quiet, Typed, Errs, Calls
  <1>1. CASE UNCHANGED call
    <2>1. H1 = H /\ T1 = T
      BY <1>1
    <2> QED
      BY <1>0, <2>1, HeldIs DEF Trouble
  <1>2. ASSUME NEW r \in Callers, SlotGone(r)
        PROVE  H1 = H /\ T1 \in SUBSET T
    <2>1. call' = [call EXCEPT ![r] = Idle] /\ r \notin H
      BY <1>2 DEF SlotGone, HoldIn
    <2>2. H1 = H \ {r} /\ T1 = T \ {r}
      <3>1. call'[r] = Idle /\ \A s \in Callers \ {r} : call'[s] = call[s]
        BY <1>0, <2>1
      <3> QED
        BY <3>1, IdleCall, OthersStay
    <2> QED
      BY <2>1, <2>2
  <1>3. ASSUME NEW r \in Callers, SlotStays(r)
        PROVE  /\ H1 = H
               /\ T1 \in SUBSET (T \cup {r})
               /\ storeErrors' = storeErrors => T1 \in SUBSET T
    <2>1. PICK c \in Call : /\ call' = [call EXCEPT ![r] = c]
                            /\ c.slot = call[r].slot
                            /\ c.slot # "none" => c.by = call[r].by /\ c.period = call[r].period
                            /\ c.slot = "spent" /\ c.stage \notin After =>
                                  call[r].stage \notin After \/ storeErrors' = storeErrors + 1
      BY <1>3 DEF SlotStays
    <2>2. r \in H <=> c.slot = "taken" /\ c.by = k /\ c.period = n
      BY <2>1 DEF HoldIn
    <2>3. storeErrors' = storeErrors /\ Troubled(c) /\ c.by = k /\ c.period = n => r \in T
      BY <1>0, <2>1 DEF TroubledIn, Troubled
    <2>4. /\ H1 = IF c.slot = "taken" /\ c.by = k /\ c.period = n THEN H \cup {r} ELSE H \ {r}
          /\ T1 = IF Troubled(c) /\ c.by = k /\ c.period = n THEN T \cup {r} ELSE T \ {r}
      <3>1. call'[r] = c /\ \A s \in Callers \ {r} : call'[s] = call[s]
        BY <1>0, <2>1
      <3> QED
        BY <3>1, OthersStay
    <2> HIDE DEF H, T, H1, T1
    <2> QED
      BY <2>2, <2>3, <2>4
  <1>4. CASE \E r \in Callers : SlotStays(r) \/ SlotGone(r)
    <2>1. PICK r \in Callers : /\ H1 = H /\ T1 \in SUBSET (T \cup {r})
                               /\ storeErrors' = storeErrors => T1 \in SUBSET T
      BY <1>2, <1>3, <1>4
    <2>2. IsFiniteSet(T) /\ Cardinality(T) \in Nat /\ Cardinality(T1) \in Nat
      BY CountsAreNatural
    <2> HIDE DEF H, T, H1, T1
    <2>3. IsFiniteSet(T \cup {r}) /\ Cardinality(T \cup {r}) \in {Cardinality(T), Cardinality(T) + 1}
      BY <2>2, FS_AddElement
    <2>4. storeErrors' = storeErrors => Cardinality(T1) <= Cardinality(T)
      BY <2>1, <2>2, FS_Subset
    <2>5. Cardinality(T1) <= Cardinality(T \cup {r})
      BY <2>1, <2>3, FS_Subset
    <2>6. Cardinality(T1) <= Cardinality(T) + (storeErrors' - storeErrors)
      BY <1>0, <2>2, <2>3, <2>4, <2>5
    <2> QED
      BY <2>1, <2>6, HeldIs DEF Trouble, H, T, H1, T1
  <1> QED
    BY <1>1, <1>4 DEF Calm

\* A truth value counted.
One(b) == IF b THEN 1 ELSE 0

\* A set with one element more or less.
LEMMA OneMoves ==
    ASSUME NEW S, IsFiniteSet(S), NEW x, NEW T \in {S \cup {x}, S \ {x}}
    PROVE  /\ Cardinality(T) = Cardinality(S) - One(x \in S) + One(x \in T)
           /\ x \in S => Cardinality(S) > 0
           /\ Cardinality(S) \in Nat /\ Cardinality(T) \in Nat
  <1>1. /\ Cardinality(S \cup {x}) = IF x \in S THEN Cardinality(S) ELSE Cardinality(S) + 1
        /\ Cardinality(S \ {x}) = IF x \in S THEN Cardinality(S) - 1 ELSE Cardinality(S)
        /\ Cardinality(S) \in Nat /\ Cardinality(S \ {x}) \in Nat
    BY FS_AddElement, FS_RemoveElement, FS_CardinalityType
  <1>2. CASE T = S \cup {x}
    BY <1>1, <1>2 DEF One
  <1>3. CASE T = S \ {x}
    BY <1>1, <1>3 DEF One
  <1> QED
    BY <1>2, <1>3

\* The caller's own slot, with a key k and a period n.
Mine(r, k, n) == Payer(r) = k /\ call[r].period = n

\* A step of one call changes the two counts by what that call had and has.
LEMMA MoveCounts ==
    ASSUME NEW r \in Callers, NEW c, call'[r] = c, \A s \in Callers \ {r} : call'[s] = call[s],
           c.slot # "none" => c.by = Payer(r) /\ c.period = call[r].period, NEW k, NEW n
    PROVE  /\ Held(k, n)' = Held(k, n) - One(Mine(r, k, n) /\ call[r].slot = "taken")
                                       + One(Mine(r, k, n) /\ c.slot = "taken")
           /\ Trouble(k, n)' = Trouble(k, n) - One(Mine(r, k, n) /\ Troubled(call[r]))
                                             + One(Mine(r, k, n) /\ Troubled(c))
           /\ Mine(r, k, n) /\ call[r].slot = "taken" => Held(k, n) > 0
           /\ Mine(r, k, n) /\ Troubled(call[r]) => Trouble(k, n) > 0
           /\ {Held(k, n), Held(k, n)', Trouble(k, n), Trouble(k, n)'} \subseteq Nat
  <1> DEFINE H == HoldIn(call, k, n)
             T == TroubledIn(call, k, n)
             H1 == HoldIn(call', k, n)
             T1 == TroubledIn(call', k, n)
             h == Mine(r, k, n) /\ call[r].slot = "taken"
             t == Mine(r, k, n) /\ Troubled(call[r])
             h1 == Mine(r, k, n) /\ c.slot = "taken"
             t1 == Mine(r, k, n) /\ Troubled(c)
  <1>1. (r \in H <=> h) /\ (r \in T <=> t)
    BY DEF HoldIn, TroubledIn, Mine, Payer
  <1>2. (r \in H1 <=> h1) /\ (r \in T1 <=> t1)
    BY DEF HoldIn, TroubledIn, Mine, Troubled
  <1>3. H1 \in {H \cup {r}, H \ {r}} /\ T1 \in {T \cup {r}, T \ {r}}
    <2>1. /\ H1 = IF call'[r].slot = "taken" /\ call'[r].by = k /\ call'[r].period = n
                  THEN H \cup {r} ELSE H \ {r}
          /\ T1 = IF Troubled(call'[r]) /\ call'[r].by = k /\ call'[r].period = n
                  THEN T \cup {r} ELSE T \ {r}
      BY OthersStay
    <2> HIDE DEF H, T, H1, T1
    <2> QED
      BY <2>1
  <1>4. IsFiniteSet(H) /\ IsFiniteSet(T)
    BY CountsAreNatural
  <1>5. /\ Held(k, n) = Cardinality(H) /\ Held(k, n)' = Cardinality(H1)
        /\ Trouble(k, n) = Cardinality(T) /\ Trouble(k, n)' = Cardinality(T1)
    BY HeldIs DEF Trouble
  <1> HIDE DEF H, T, H1, T1, h, t, h1, t1
  <1>6. /\ Cardinality(H1) = Cardinality(H) - One(r \in H) + One(r \in H1)
        /\ r \in H => Cardinality(H) > 0
        /\ Cardinality(H) \in Nat /\ Cardinality(H1) \in Nat
    BY <1>3, <1>4, OneMoves
  <1>7. /\ Cardinality(T1) = Cardinality(T) - One(r \in T) + One(r \in T1)
        /\ r \in T => Cardinality(T) > 0
        /\ Cardinality(T) \in Nat /\ Cardinality(T1) \in Nat
    BY <1>3, <1>4, OneMoves
  <1>8. One(r \in H) = One(h) /\ One(r \in H1) = One(h1) /\ One(r \in T) = One(t) /\ One(r \in T1) = One(t1)
    BY <1>1, <1>2 DEF One
  <1>9. Held(k, n)' = Held(k, n) - One(h) + One(h1)
    BY <1>5, <1>6, <1>8
  <1>10. Trouble(k, n)' = Trouble(k, n) - One(t) + One(t1)
    BY <1>5, <1>7, <1>8
  <1>11. /\ h => Held(k, n) > 0
         /\ t => Trouble(k, n) > 0
         /\ {Held(k, n), Held(k, n)', Trouble(k, n), Trouble(k, n)'} \subseteq Nat
    BY <1>1, <1>5, <1>6, <1>7
  <1> QED
    BY <1>9, <1>10, <1>11 DEF h, h1, t, t1

\* What a reservation does to the numbers of a key and period.
LEMMA ReserveEffect ==
    ASSUME Typed, NEW r \in Callers, NEW ok \in BOOLEAN, Reserve(r, ok),
           NEW k \in Keys, NEW n \in Periods
    PROVE  /\ used'[k][n] = used[k][n] + One(Mine(r, k, n))
           /\ disk'.used = IF ok THEN used' ELSE disk.used
           /\ UNCHANGED <<charged, uncounted, crashes>>
           /\ storeErrors' = IF ok THEN storeErrors ELSE storeErrors + 1
           /\ Held(k, n)' = Held(k, n) + One(Mine(r, k, n) /\ ok)
           /\ Trouble(k, n)' = Trouble(k, n)
           /\ Mine(r, k, n) => used[k][n] < Limit[k]
  <1>1. /\ Payer(r) \in Keys /\ call[r].period \in Periods /\ call[r] \in Call /\ call[r].slot = "none"
        /\ used \in Usage /\ StoreTypes /\ Errs /\ Calls
    BY BusyCall, Counter DEF Reserve, At, Early
  <1>2. [used EXCEPT ![Payer(r)][call[r].period] = @ + 1] \in Usage /\ att \in [Txs -> AttStatus]
    BY <1>1, UsageTypes DEF StoreTypes
  <1>3. /\ used' = [used EXCEPT ![Payer(r)][call[r].period] = @ + 1]
        /\ storeErrors' = IF ok THEN storeErrors ELSE storeErrors + 1
        /\ UNCHANGED histVars
    BY DEF Reserve, Persist, CountCall
  <1>4. disk'.used = IF ok THEN used' ELSE disk.used
    BY <1>1, <1>2, <1>3, PersistTypes DEF Reserve
  <1>5. used'[k][n] = used[k][n] + One(Mine(r, k, n))
    BY <1>1, <1>3 DEF Usage, Mine, One
  <1>6. PICK c \in Call : /\ call' = [call EXCEPT ![r] = c] /\ ~Troubled(c)
                          /\ c.slot # "none" => c.by = Payer(r) /\ c.period = call[r].period
                          /\ c.slot = IF ok THEN "taken" ELSE "none"
    <2>1. CASE ok
      <3> DEFINE c == [call[r] EXCEPT !.stage = "preflight", !.slot = "taken"]
      <3>1. call' = [call EXCEPT ![r] = c]
        BY <1>1, <2>1 DEF Reserve, Calls
      <3>2. c \in Call /\ c.slot = "taken" /\ c.by = Payer(r) /\ c.period = call[r].period
        BY <1>1 DEF Call, CallStages, Slots, Payer
      <3> HIDE DEF c
      <3> QED
        BY <2>1, <3>1, <3>2 DEF Troubled
    <2>2. CASE ~ok
      BY <2>2, IdleCall DEF Reserve, Return
    <2> QED
      BY <2>1, <2>2
  <1>7. ~Troubled(call[r])
    BY <1>1 DEF Troubled
  <1>8. /\ Held(k, n)' = Held(k, n) + One(Mine(r, k, n) /\ ok)
        /\ Trouble(k, n)' = Trouble(k, n)
    <2>1. /\ Held(k, n)' = Held(k, n) - One(Mine(r, k, n) /\ call[r].slot = "taken")
                                    + One(Mine(r, k, n) /\ c.slot = "taken")
          /\ Trouble(k, n)' = Trouble(k, n) - One(Mine(r, k, n) /\ Troubled(call[r]))
                                          + One(Mine(r, k, n) /\ Troubled(c))
          /\ {Held(k, n), Held(k, n)', Trouble(k, n), Trouble(k, n)'} \subseteq Nat
      <3>1. call'[r] = c /\ \A s \in Callers \ {r} : call'[s] = call[s]
        BY <1>1, <1>6 DEF Calls
      <3> QED
        BY <1>6, <3>1, MoveCounts
    <2> QED
      BY <1>1, <1>6, <1>7, <2>1 DEF One
  <1>9. Mine(r, k, n) => used[k][n] < Limit[k]
    BY DEF Mine, Reserve, Taken
  <1> QED
    BY <1>3, <1>4, <1>5, <1>8, <1>9 DEF histVars

\* What a release does to them: the slot goes, or another caller's does and is
\* uncounted.
LEMMA ReleaseEffect ==
    ASSUME Typed, NEW r \in Callers, NEW ok \in BOOLEAN, Release(r, ok),
           NEW k \in Keys, NEW n \in Periods
    PROVE  /\ used'[k][n] = used[k][n] - One(Mine(r, k, n) /\ used[k][n] > 0)
           /\ disk'.used \in {used', disk.used}
           /\ uncounted'[k][n] = uncounted[k][n]
                                 + One(Mine(r, k, n) /\ call[r].slot # "taken" /\ used[k][n] > 0)
           /\ UNCHANGED <<charged, crashes>>
           /\ storeErrors' = IF ok THEN storeErrors ELSE storeErrors + 1
           /\ Held(k, n)' = Held(k, n) - One(Mine(r, k, n) /\ call[r].slot = "taken")
           /\ Mine(r, k, n) /\ call[r].slot = "taken" => Held(k, n) > 0
           /\ Mine(r, k, n) /\ call[r].slot # "taken" => Trouble(k, n) > 0
           /\ ok => Trouble(k, n)' = Trouble(k, n) - One(Mine(r, k, n) /\ call[r].slot # "taken")
           /\ ~ok => Trouble(k, n)' <= Trouble(k, n) + 1 - One(Mine(r, k, n) /\ call[r].slot # "taken")
  <1>1. /\ Payer(r) \in Keys /\ call[r].period \in Periods /\ call[r] \in Call /\ call[r].slot # "none"
        /\ used \in Usage /\ uncounted \in Usage /\ StoreTypes /\ Errs /\ Calls /\ att \in [Txs -> AttStatus]
        /\ call[r].stage \in {"releasing", "rereleasing"}
    BY BusyCall, Counter DEF Release, StoreTypes
  <1>2. /\ used' = IF Taken(r) > 0 THEN [used EXCEPT ![Payer(r)][call[r].period] = @ - 1] ELSE used
        /\ storeErrors' = IF ok THEN storeErrors ELSE storeErrors + 1
        /\ disk'.used \in {used', disk.used}
    <2>1. CASE Taken(r) > 0
      <3>1. [used EXCEPT ![Payer(r)][call[r].period] = @ - 1] \in Usage
        BY <1>1, <2>1, UsageTypes DEF Taken
      <3>2. /\ used' = [used EXCEPT ![Payer(r)][call[r].period] = @ - 1]
            /\ storeErrors' = IF ok THEN storeErrors ELSE storeErrors + 1
        BY <2>1 DEF Release, Persist, CountCall
      <3>3. disk'.used = IF ok THEN used' ELSE disk.used
        BY <1>1, <2>1, <3>1, <3>2, PersistTypes DEF Release
      <3> QED
        BY <2>1, <3>2, <3>3
    <2>2. CASE ~(Taken(r) > 0)
      BY <2>2 DEF Release, storeVars
    <2> QED
      BY <2>1, <2>2
  <1>3. used'[k][n] = used[k][n] - One(Mine(r, k, n) /\ used[k][n] > 0)
    BY <1>1, <1>2 DEF Taken, Usage, Mine, One
  <1>4. uncounted'[k][n] = uncounted[k][n]
                           + One(Mine(r, k, n) /\ call[r].slot # "taken" /\ used[k][n] > 0)
    BY <1>1 DEF Release, Taken, Usage, Mine, One
  <1>5. UNCHANGED <<charged, crashes>>
    BY DEF Release
  <1>6. Troubled(call[r]) <=> call[r].slot # "taken"
    BY <1>1 DEF Troubled, After, Call, Slots
  <1>7. PICK c \in Call : /\ call'[r] = c /\ \A s \in Callers \ {r} : call'[s] = call[s]
                          /\ c.slot # "none" => c.by = Payer(r) /\ c.period = call[r].period
                          /\ c.slot # "taken"
                          /\ ok => ~Troubled(c)
    <2>1. CASE ok \/ At(r, "rereleasing")
      <3>1. call'[r] = Idle /\ \A s \in Callers \ {r} : call'[s] = call[s]
        BY <1>1, <2>1 DEF Release, Return, Calls
      <3> QED
        BY <3>1, IdleCall
    <2>2. CASE ~(ok \/ At(r, "rereleasing"))
      <3> DEFINE c == [call[r] EXCEPT !.stage = "rereleasing", !.slot = "returned"]
      <3>1. call'[r] = c /\ \A s \in Callers \ {r} : call'[s] = call[s]
        BY <1>1, <2>2 DEF Release, Calls
      <3>2. c \in Call /\ c.slot = "returned" /\ c.by = Payer(r) /\ c.period = call[r].period
        BY <1>1 DEF Call, CallStages, Slots, Payer
      <3> HIDE DEF c
      <3> QED
        BY <2>2, <3>1, <3>2
    <2> QED
      BY <2>1, <2>2
  <1>8. /\ Held(k, n)' = Held(k, n) - One(Mine(r, k, n) /\ call[r].slot = "taken")
                                    + One(Mine(r, k, n) /\ c.slot = "taken")
        /\ Trouble(k, n)' = Trouble(k, n) - One(Mine(r, k, n) /\ Troubled(call[r]))
                                          + One(Mine(r, k, n) /\ Troubled(c))
        /\ Mine(r, k, n) /\ call[r].slot = "taken" => Held(k, n) > 0
        /\ Mine(r, k, n) /\ Troubled(call[r]) => Trouble(k, n) > 0
        /\ {Held(k, n), Held(k, n)', Trouble(k, n), Trouble(k, n)'} \subseteq Nat
    BY <1>7, MoveCounts
  <1>9. /\ Held(k, n)' = Held(k, n) - One(Mine(r, k, n) /\ call[r].slot = "taken")
        /\ Mine(r, k, n) /\ call[r].slot = "taken" => Held(k, n) > 0
    BY <1>7, <1>8 DEF One
  <1>10. /\ Mine(r, k, n) /\ call[r].slot # "taken" => Trouble(k, n) > 0
         /\ ok => Trouble(k, n)' = Trouble(k, n) - One(Mine(r, k, n) /\ call[r].slot # "taken")
         /\ ~ok => Trouble(k, n)' <= Trouble(k, n) + 1 - One(Mine(r, k, n) /\ call[r].slot # "taken")
    BY <1>6, <1>7, <1>8 DEF One
  <1> QED
    BY <1>2, <1>3, <1>4, <1>5, <1>9, <1>10

\* What an accepted submission does to them: the slot becomes a charge.
LEMMA SubmitEffect ==
    ASSUME Typed, NEW r \in Callers, SubmitPasses(r), NEW k \in Keys, NEW n \in Periods
    PROVE  /\ UNCHANGED <<used, disk, storeErrors, uncounted, crashes>>
           /\ charged'[k][n] = charged[k][n] + One(Mine(r, k, n))
           /\ Held(k, n)' = Held(k, n) - One(Mine(r, k, n))
           /\ Mine(r, k, n) => Held(k, n) > 0
           /\ Trouble(k, n)' = Trouble(k, n)
  <1>1. /\ call[r].stage = "submitting" /\ call[r].period \in Periods /\ call[r] \in Call
        /\ charged \in Usage /\ Calls
        /\ call[r].slot = IF Payer(r) \in Keys THEN "taken" ELSE "none"
    BY BusyCall, Counter DEF SubmitPasses, At, Before
  <1>2. UNCHANGED <<used, disk, storeErrors, uncounted, crashes>>
    BY DEF SubmitPasses, storeVars
  <1>3. charged'[k][n] = charged[k][n] + One(Mine(r, k, n))
    <2>1. CASE Payer(r) \in Keys
      BY <1>1, <2>1 DEF SubmitPasses, Usage, Mine, One
    <2>2. CASE Payer(r) \notin Keys
      BY <1>1, <2>2 DEF SubmitPasses, Usage, Mine, One
    <2> QED
      BY <2>1, <2>2
  <1>4. PICK c \in Call : /\ call'[r] = c /\ \A s \in Callers \ {r} : call'[s] = call[s]
                          /\ c.slot # "none" => c.by = Payer(r) /\ c.period = call[r].period
                          /\ c.slot # "taken" /\ ~Troubled(c)
    <2>1. CASE Payer(r) \in Keys
      <3> DEFINE c == [call[r] EXCEPT !.stage = "updating", !.slot = "spent"]
      <3>1. call'[r] = c /\ \A s \in Callers \ {r} : call'[s] = call[s]
        BY <1>1, <2>1 DEF SubmitPasses, Calls
      <3>2. /\ c \in Call /\ c.slot = "spent" /\ c.stage = "updating"
            /\ c.by = Payer(r) /\ c.period = call[r].period
        BY <1>1 DEF Call, CallStages, Slots, Payer
      <3> HIDE DEF c
      <3> QED
        BY <3>1, <3>2 DEF Troubled, After
    <2>2. CASE Payer(r) \notin Keys
      <3> DEFINE c == [call[r] EXCEPT !.stage = "updating"]
      <3>1. call'[r] = c /\ \A s \in Callers \ {r} : call'[s] = call[s]
        BY <1>1, <2>2 DEF SubmitPasses, Goto, Calls
      <3>2. c \in Call /\ c.slot = "none"
        BY <1>1, <2>2 DEF Call, CallStages
      <3> HIDE DEF c
      <3> QED
        BY <3>1, <3>2 DEF Troubled
    <2> QED
      BY <2>1, <2>2
  <1>5. /\ Held(k, n)' = Held(k, n) - One(Mine(r, k, n) /\ call[r].slot = "taken")
                                    + One(Mine(r, k, n) /\ c.slot = "taken")
        /\ Trouble(k, n)' = Trouble(k, n) - One(Mine(r, k, n) /\ Troubled(call[r]))
                                          + One(Mine(r, k, n) /\ Troubled(c))
        /\ Mine(r, k, n) /\ call[r].slot = "taken" => Held(k, n) > 0
        /\ {Held(k, n), Held(k, n)', Trouble(k, n), Trouble(k, n)'} \subseteq Nat
    BY <1>4, MoveCounts
  <1>6. ~Troubled(call[r]) /\ (Mine(r, k, n) => call[r].slot = "taken")
    BY <1>1 DEF Troubled, Mine
  <1>7. /\ Held(k, n)' = Held(k, n) - One(Mine(r, k, n))
        /\ Mine(r, k, n) => Held(k, n) > 0
        /\ Trouble(k, n)' = Trouble(k, n)
    BY <1>4, <1>5, <1>6 DEF One
  <1> QED
    BY <1>2, <1>3, <1>7

\* After a crash no call has a slot.
LEMMA CrashEffect ==
    ASSUME Crash, NEW k, NEW n
    PROVE  Held(k, n)' = 0 /\ Trouble(k, n)' = 0
  <1>1. \A r \in Callers : call'[r] = Idle
    BY DEF Crash
  <1>2. HoldIn(call', k, n) = {} /\ TroubledIn(call', k, n) = {}
    BY <1>1, IdleCall DEF HoldIn, TroubledIn
  <1> QED
    BY <1>2, HeldIs, FS_EmptySet

-----------------------------------------------------------------------------
(***************************************************************************)
(* The quota.  What is due never exceeds the limit but for the slots given *)
(* back wrongly, and each of those, done or to come, has its store error.  *)
(***************************************************************************)
Due(k, n) == Held(k, n) + charged[k][n]

PointOK(k, n) ==
    /\ Due(k, n) <= used[k][n] + uncounted[k][n]
    /\ Due(k, n) <= disk.used[k][n] + uncounted[k][n]
    /\ Due(k, n) <= Limit[k] + uncounted[k][n]
    /\ uncounted[k][n] + Trouble(k, n) <= storeErrors
    /\ crashes + storeErrors = 0 => used[k][n] = Due(k, n)

QuotaOK == \A k \in Keys, n \in Periods : PointOK(k, n)

\* The numbers of a key and a period.
LEMMA Numbers ==
    ASSUME Typed, NEW k \in Keys, NEW n \in Periods
    PROVE  /\ used[k][n] \in Nat /\ disk.used[k][n] \in Nat
           /\ charged[k][n] \in Nat /\ uncounted[k][n] \in Nat
           /\ crashes \in Nat /\ storeErrors \in Nat /\ Limit[k] \in Nat
           /\ Held(k, n) \in Nat /\ Trouble(k, n) \in Nat
  <1>1. used \in Usage /\ disk.used \in Usage /\ charged \in Usage /\ uncounted \in Usage
    BY DEF Typed, StoreTypes, Hist
  <1>2. crashes \in Nat /\ storeErrors \in Nat /\ Limit[k] \in Nat
    BY AttestAssumption DEF Typed, Hist, Errs
  <1>3. Held(k, n) \in Nat /\ Trouble(k, n) \in Nat
    BY HeldIs
  <1> QED
    BY <1>1, <1>2, <1>3 DEF Usage

\* The numbers are naturals after a step.
LEMMA NumbersNext ==
    ASSUME Typed', NEW k \in Keys, NEW n \in Periods
    PROVE  /\ used'[k][n] \in Nat /\ disk'.used[k][n] \in Nat
           /\ charged'[k][n] \in Nat /\ uncounted'[k][n] \in Nat
           /\ crashes' \in Nat /\ storeErrors' \in Nat
           /\ Held(k, n)' \in Nat /\ Trouble(k, n)' \in Nat
  <1>1. used' \in Usage /\ disk'.used \in Usage /\ charged' \in Usage /\ uncounted' \in Usage
    BY DEF Typed, StoreTypes, Hist, Usage
  <1>2. crashes' \in Nat /\ storeErrors' \in Nat
    BY AttestAssumption DEF Typed, Hist, Errs
  <1>3. Held(k, n)' \in Nat /\ Trouble(k, n)' \in Nat
    BY HeldIs
  <1> QED
    BY <1>1, <1>2, <1>3 DEF Usage

\* Every step keeps the relations between the numbers.
LEMMA QuotaKept ==
    ASSUME Typed, QuotaOK, [Next]_vars
    PROVE  QuotaOK'
  <1>1. Typed'
    BY StepKinds
  <1> SUFFICES ASSUME NEW k \in Keys, NEW n \in Periods
               PROVE  PointOK(k, n)'
    BY DEF QuotaOK
  <1>2. /\ used[k][n] \in Nat /\ disk.used[k][n] \in Nat
        /\ charged[k][n] \in Nat /\ uncounted[k][n] \in Nat
        /\ crashes \in Nat /\ storeErrors \in Nat /\ Limit[k] \in Nat
        /\ Held(k, n) \in Nat /\ Trouble(k, n) \in Nat
    BY Numbers
  <1>3. /\ used'[k][n] \in Nat /\ disk'.used[k][n] \in Nat
        /\ charged'[k][n] \in Nat /\ uncounted'[k][n] \in Nat
        /\ crashes' \in Nat /\ storeErrors' \in Nat
        /\ Held(k, n)' \in Nat /\ Trouble(k, n)' \in Nat
    BY <1>1, NumbersNext
  <1>4. PointOK(k, n)
    BY DEF QuotaOK
  <1>5. CASE Calm
    <2>1. /\ Held(k, n)' = Held(k, n)
          /\ Trouble(k, n)' <= Trouble(k, n) + (storeErrors' - storeErrors)
      BY <1>5, CalmCounts
    <2>2. /\ used' = used /\ charged' = charged /\ uncounted' = uncounted /\ crashes' = crashes
          /\ disk'.used \in {used, disk.used}
          /\ storeErrors' \in {storeErrors, storeErrors + 1}
      BY <1>5 DEF Calm, Quiet
    <2>3. disk'.used[k][n] \in {used[k][n], disk.used[k][n]}
      BY <2>2
    <2>4. /\ Due(k, n)' = Due(k, n)
          /\ used'[k][n] = used[k][n] /\ uncounted'[k][n] = uncounted[k][n]
      BY <2>1, <2>2 DEF Due
    <2>5. /\ Due(k, n)' <= used'[k][n] + uncounted'[k][n]
          /\ Due(k, n)' <= disk'.used[k][n] + uncounted'[k][n]
          /\ Due(k, n)' <= Limit[k] + uncounted'[k][n]
      BY <1>4, <2>3, <2>4 DEF PointOK
    <2>6. uncounted'[k][n] + Trouble(k, n)' <= storeErrors'
      BY <1>2, <1>3, <1>4, <2>1, <2>2 DEF PointOK
    <2>7. crashes' + storeErrors' = 0 => used'[k][n] = Due(k, n)'
      <3>1. crashes' = crashes /\ (storeErrors' = storeErrors \/ storeErrors' = storeErrors + 1)
        BY <2>2
      <3>2. crashes' + storeErrors' = 0 => crashes + storeErrors = 0
        BY <1>2, <3>1
      <3>3. crashes + storeErrors = 0 => used[k][n] = Due(k, n)
        BY <1>4 DEF PointOK
      <3> QED
        BY <2>4, <3>2, <3>3
    <2> QED
      BY <2>5, <2>6, <2>7 DEF PointOK
  <1>6. CASE Crash
    <2>1. Held(k, n)' = 0 /\ Trouble(k, n)' = 0
      BY <1>6, CrashEffect
    <2>2. /\ used' = disk.used /\ disk' = disk /\ storeErrors' = storeErrors
          /\ charged' = charged /\ uncounted' = uncounted /\ crashes' = crashes + 1
      BY <1>6 DEF Crash
    <2> QED
      BY <1>2, <1>3, <1>4, <2>1, <2>2 DEF PointOK, Due
  <1>7. ASSUME NEW r \in Callers, SubmitPasses(r)
        PROVE  PointOK(k, n)'
    <2>1. /\ UNCHANGED <<used, disk, storeErrors, uncounted, crashes>>
          /\ charged'[k][n] = charged[k][n] + One(Mine(r, k, n))
          /\ Held(k, n)' = Held(k, n) - One(Mine(r, k, n))
          /\ Trouble(k, n)' = Trouble(k, n)
      BY <1>7, SubmitEffect
    <2> QED
      BY <1>2, <1>3, <1>4, <2>1 DEF PointOK, Due, One
  <1>8. ASSUME NEW r \in Callers, NEW ok \in BOOLEAN, Reserve(r, ok)
        PROVE  PointOK(k, n)'
    <2>1. /\ used'[k][n] = used[k][n] + One(Mine(r, k, n))
          /\ disk'.used = IF ok THEN used' ELSE disk.used
          /\ UNCHANGED <<charged, uncounted, crashes>>
          /\ storeErrors' = IF ok THEN storeErrors ELSE storeErrors + 1
          /\ Held(k, n)' = Held(k, n) + One(Mine(r, k, n) /\ ok)
          /\ Trouble(k, n)' = Trouble(k, n)
          /\ Mine(r, k, n) => used[k][n] < Limit[k]
      BY <1>8, ReserveEffect
    <2>2. CASE ok
      <3>1. /\ disk'.used[k][n] = used'[k][n] /\ charged'[k][n] = charged[k][n]
            /\ uncounted'[k][n] = uncounted[k][n]
            /\ crashes' = crashes /\ storeErrors' = storeErrors
        BY <2>1, <2>2
      <3>2. CASE Mine(r, k, n)
        <4>1. used'[k][n] = used[k][n] + 1 /\ Held(k, n)' = Held(k, n) + 1 /\ used[k][n] < Limit[k]
          BY <2>1, <2>2, <3>2 DEF One
        <4>2. Trouble(k, n)' = Trouble(k, n)
          BY <2>1
        <4>3. Due(k, n)' = Due(k, n) + 1 /\ Due(k, n) \in Nat
          BY <1>2, <3>1, <4>1 DEF Due
        <4>4. crashes' + storeErrors' = 0 => used'[k][n] = Due(k, n)'
          BY <1>4, <3>1, <4>1, <4>3 DEF PointOK
        <4>5. used[k][n] + 1 <= Limit[k] /\ Due(k, n) <= used[k][n] + uncounted[k][n]
          BY <1>2, <1>4, <4>1 DEF PointOK
        <4> QED
          BY <1>2, <1>4, <3>1, <4>1, <4>2, <4>3, <4>4, <4>5 DEF PointOK
      <3>3. CASE ~Mine(r, k, n)
        <4>1. used'[k][n] = used[k][n] /\ Held(k, n)' = Held(k, n)
          BY <1>2, <2>1, <2>2, <3>3 DEF One
        <4> QED
          BY <1>2, <1>4, <2>1, <3>1, <4>1 DEF PointOK, Due
      <3> QED
        BY <3>2, <3>3
    <2>3. CASE ~ok
      BY <1>2, <1>3, <1>4, <2>1, <2>3 DEF PointOK, Due, One
    <2> QED
      BY <2>2, <2>3
  <1>9. ASSUME NEW r \in Callers, NEW ok \in BOOLEAN, Release(r, ok)
        PROVE  PointOK(k, n)'
    <2>1. /\ used'[k][n] = used[k][n] - One(Mine(r, k, n) /\ used[k][n] > 0)
          /\ disk'.used \in {used', disk.used}
          /\ uncounted'[k][n] = uncounted[k][n]
                                + One(Mine(r, k, n) /\ call[r].slot # "taken" /\ used[k][n] > 0)
          /\ UNCHANGED <<charged, crashes>>
          /\ storeErrors' = IF ok THEN storeErrors ELSE storeErrors + 1
          /\ Held(k, n)' = Held(k, n) - One(Mine(r, k, n) /\ call[r].slot = "taken")
          /\ Mine(r, k, n) /\ call[r].slot = "taken" => Held(k, n) > 0
          /\ Mine(r, k, n) /\ call[r].slot # "taken" => Trouble(k, n) > 0
          /\ ok => Trouble(k, n)' = Trouble(k, n) - One(Mine(r, k, n) /\ call[r].slot # "taken")
          /\ ~ok => Trouble(k, n)' <= Trouble(k, n) + 1 - One(Mine(r, k, n) /\ call[r].slot # "taken")
      BY <1>9, ReleaseEffect
    <2>2. CASE ~Mine(r, k, n)
      BY <1>2, <1>3, <1>4, <2>1, <2>2 DEF PointOK, Due, One
    <2>3. CASE Mine(r, k, n) /\ call[r].slot = "taken"
      BY <1>2, <1>3, <1>4, <2>1, <2>3 DEF PointOK, Due, One
    <2>4. CASE Mine(r, k, n) /\ call[r].slot # "taken"
      BY <1>2, <1>3, <1>4, <2>1, <2>4 DEF PointOK, Due, One
    <2> QED
      BY <2>2, <2>3, <2>4
  <1> QED
    BY <1>5, <1>6, <1>7, <1>8, <1>9, StepKinds

\* At the start all numbers are zero.
LEMMA InitQuota == Init => QuotaOK
  <1> SUFFICES ASSUME Init, NEW k \in Keys, NEW n \in Periods
               PROVE  PointOK(k, n)
    BY DEF QuotaOK
  <1>1. \A r \in Callers : call[r] = Idle
    BY DEF Init
  <1>2. HoldIn(call, k, n) = {} /\ TroubledIn(call, k, n) = {}
    BY <1>1, IdleCall DEF HoldIn, TroubledIn
  <1>3. Held(k, n) = 0 /\ Trouble(k, n) = 0
    BY <1>2, HeldIs, FS_EmptySet DEF Trouble
  <1>4. /\ used[k][n] = 0 /\ disk.used[k][n] = 0 /\ charged[k][n] = 0 /\ uncounted[k][n] = 0
        /\ crashes = 0 /\ storeErrors = 0
    BY DEF Init, NoUsage
  <1>5. Limit[k] \in Nat
    BY AttestAssumption
  <1> QED
    BY <1>3, <1>4, <1>5 DEF PointOK, Due

\* The counters and what is held against them agree at every point of the
\* flow of attest.ts.
THEOREM QuotaInvariant == Spec => [](Typed /\ QuotaOK)
  <1>1. Typed /\ QuotaOK /\ [Next]_vars => (Typed /\ QuotaOK)'
    BY StepKinds, QuotaKept
  <1> QED
    BY <1>1, InitTyped, InitQuota, PTL DEF Spec

\* reserveAttestationUsage compares a counter that misses no slot in use or
\* charged, in memory or in the file, over crashes and failed writes.
THEOREM CounterIsSafe == Spec => []NeverUndercounted
  <1>1. QuotaOK => NeverUndercounted
    BY DEF QuotaOK, PointOK, Due, NeverUndercounted
  <1> QED
    BY <1>1, QuotaInvariant, PTL

\* A key goes over its limit in a billing period by at most one attestation
\* for each store call that threw.
THEOREM LimitHolds == Spec => []LimitKept
  <1>1. Typed /\ QuotaOK => LimitKept
    <2> SUFFICES ASSUME Typed, QuotaOK, NEW k \in Keys, NEW n \in Periods
                 PROVE  Held(k, n) + charged[k][n] <= Limit[k] + storeErrors
      BY DEF LimitKept
    <2>1. PointOK(k, n)
      BY DEF QuotaOK
    <2> QED
      BY <2>1, Numbers DEF PointOK, Due
  <1> QED
    BY <1>1, QuotaInvariant, PTL

\* Failed prepares do not consume quota: without crashes and store errors
\* the counter is exact.
THEOREM CounterIsExact == Spec => []CountExact
  <1>1. QuotaOK => CountExact
    BY DEF QuotaOK, PointOK, Due, CountExact
  <1> QED
    BY <1>1, QuotaInvariant, PTL

-----------------------------------------------------------------------------
(***************************************************************************)
(* The flow implements Quota.                                              *)
(***************************************************************************)
HeldMap == [k \in Keys |-> [n \in Periods |-> Held(k, n)]]

\* A table of counters is fixed by its entries.
LEMMA SameTable ==
    ASSUME NEW f \in Usage, NEW g \in Usage, \A k \in Keys, n \in Periods : g[k][n] = f[k][n]
    PROVE  g = f
  BY DEF Usage

\* A table that differs by one more in one place is that update of it.
LEMMA MoreTable ==
    ASSUME NEW f \in Usage, NEW g \in Usage, NEW k \in Keys, NEW n \in Periods, g[k][n] > 0,
           \A l \in Keys, m \in Periods : g[l][m] = f[l][m] + One(k = l /\ n = m)
    PROVE  g = [f EXCEPT ![k][n] = @ + 1]
  <1> DEFINE e == [f EXCEPT ![k][n] = @ + 1]
  <1>1. e \in Usage
    BY UsageTypes
  <1>2. \A l \in Keys, m \in Periods : e[l][m] = f[l][m] + One(k = l /\ n = m)
    BY DEF Usage, One
  <1> HIDE DEF e
  <1>3. \A l \in Keys, m \in Periods : g[l][m] = e[l][m]
    BY <1>2
  <1>4. g = e
    BY <1>1, <1>3, SameTable
  <1> QED
    BY <1>4 DEF e

\* A table that differs by one less in one place is that update of it.
LEMMA LessTable ==
    ASSUME NEW f \in Usage, NEW g \in Usage, NEW k \in Keys, NEW n \in Periods, f[k][n] > 0,
           \A l \in Keys, m \in Periods : g[l][m] = f[l][m] - One(k = l /\ n = m)
    PROVE  g = [f EXCEPT ![k][n] = @ - 1]
  <1> DEFINE e == [f EXCEPT ![k][n] = @ - 1]
  <1>1. e \in Usage
    BY UsageTypes
  <1>2. \A l \in Keys, m \in Periods : e[l][m] = f[l][m] - One(k = l /\ n = m)
    BY DEF Usage, One
  <1> HIDE DEF e
  <1>3. \A l \in Keys, m \in Periods : g[l][m] = e[l][m]
    BY <1>2
  <1>4. g = e
    BY <1>1, <1>3, SameTable
  <1> QED
    BY <1>4 DEF e

\* The slots held, as the table that Quota keeps of them.
LEMMA HeldMapIs ==
    /\ HeldMap \in Usage /\ HeldMap' \in Usage
    /\ \A k \in Keys, n \in Periods : HeldMap[k][n] = Held(k, n)
    /\ \A k \in Keys, n \in Periods : HeldMap'[k][n] = Held(k, n)'
  <1>1. \A k \in Keys, n \in Periods : Held(k, n) \in Nat /\ Held(k, n)' \in Nat
    BY HeldIs
  <1> QED
    BY <1>1 DEF HeldMap, Usage

\* Every step reserves, gives back, charges, loses a count or the calls, or
\* leaves the slots alone.
LEMMA StepImplements ==
    ASSUME Typed, QuotaOK, [Next]_vars
    PROVE  [Promise!Next]_<<HeldMap, charged, uncounted>>
  <1>0. Typed' /\ charged \in Usage /\ uncounted \in Usage /\ charged' \in Usage /\ uncounted' \in Usage
    <2>1. Typed'
      BY StepKinds
    <2> QED
      BY <2>1 DEF Typed, Hist, Usage
  <1>1. CASE Calm
    <2>1. \A k \in Keys, n \in Periods : HeldMap'[k][n] = HeldMap[k][n]
      BY <1>1, CalmCounts, HeldMapIs
    <2>2. HeldMap' = HeldMap
      BY <2>1, HeldMapIs, SameTable
    <2> QED
      BY <1>1, <2>2 DEF Calm, Quiet
  <1>2. CASE Crash
    <2>1. \A k \in Keys, n \in Periods : Held(k, n)' = 0
      BY <1>2, CrashEffect
    <2>2. HeldMap' = [k \in Keys |-> [n \in Periods |-> 0]]
      BY <2>1 DEF HeldMap
    <2>3. Promise!LoseCalls
      BY <1>2, <2>2 DEF Promise!LoseCalls, Crash, HeldMap
    <2> QED
      BY <2>3 DEF Promise!Next
  <1>3. ASSUME NEW r \in Callers, SubmitPasses(r)
        PROVE  [Promise!Next]_<<HeldMap, charged, uncounted>>
    <2> DEFINE k == Payer(r)
               n == call[r].period
    <2>1. \A l \in Keys, m \in Periods :
             /\ charged'[l][m] = charged[l][m] + One(Mine(r, l, m))
             /\ HeldMap'[l][m] = HeldMap[l][m] - One(Mine(r, l, m))
             /\ Mine(r, l, m) => HeldMap[l][m] > 0
             /\ UNCHANGED uncounted
      BY <1>3, SubmitEffect, HeldMapIs
    <2>2. call[r].period \in Periods
      BY <1>3, Counter DEF SubmitPasses, At
    <2>3. CASE Payer(r) \in Keys
      <3>1. \A l \in Keys, m \in Periods : One(Mine(r, l, m)) = One(k = l /\ n = m)
        BY DEF Mine
      <3>2. HeldMap[k][n] > 0
        BY <2>1, <2>2, <2>3 DEF Mine
      <3>3. HeldMap' = [HeldMap EXCEPT ![k][n] = @ - 1]
        <4> HIDE DEF k, n
        <4>1. \A l \in Keys, m \in Periods : HeldMap'[l][m] = HeldMap[l][m] - One(k = l /\ n = m)
          BY <2>1, <3>1
        <4>2. k \in Keys /\ n \in Periods
          BY <2>2, <2>3 DEF k, n
        <4> QED
          BY <3>2, <4>1, <4>2, HeldMapIs, LessTable
      <3>4. charged' = [charged EXCEPT ![k][n] = @ + 1]
        BY <1>3, <2>3 DEF SubmitPasses
      <3>5. Promise!Charge(k, n)
        BY <1>3, <3>2, <3>3, <3>4 DEF Promise!Charge, HeldMap, SubmitPasses
      <3> QED
        BY <2>2, <2>3, <3>5 DEF Promise!Next
    <2>4. CASE Payer(r) \notin Keys
      <3>1. \A l \in Keys, m \in Periods : HeldMap'[l][m] = HeldMap[l][m]
        BY <2>1, <2>4, HeldMapIs DEF Mine, One, Usage
      <3>2. HeldMap' = HeldMap
        BY <3>1, HeldMapIs, SameTable
      <3> QED
        BY <1>3, <2>4, <3>2 DEF SubmitPasses
    <2> QED
      BY <2>3, <2>4
  <1>4. ASSUME NEW r \in Callers, NEW ok \in BOOLEAN, Reserve(r, ok)
        PROVE  [Promise!Next]_<<HeldMap, charged, uncounted>>
    <2> DEFINE k == Payer(r)
               n == call[r].period
    <2>1. UNCHANGED <<charged, uncounted>>
      BY <1>4 DEF Reserve, histVars
    <2>2. k \in Keys /\ n \in Periods
      BY <1>4, Counter DEF Reserve, At
    <2>3. \A l \in Keys, m \in Periods :
             /\ HeldMap'[l][m] = HeldMap[l][m] + One(Mine(r, l, m) /\ ok)
             /\ Mine(r, l, m) => used[l][m] < Limit[l]
      BY <1>4, ReserveEffect, HeldMapIs
    <2>4. CASE ok
      <3>1. \A l \in Keys, m \in Periods : One(Mine(r, l, m) /\ ok) = One(k = l /\ n = m)
        BY <2>4 DEF Mine, One
      <3>2. HeldMap' = [HeldMap EXCEPT ![k][n] = @ + 1]
        <4> HIDE DEF k, n
        <4>1. \A l \in Keys, m \in Periods : HeldMap'[l][m] = HeldMap[l][m] + One(k = l /\ n = m)
          BY <2>3, <3>1
        <4>2. HeldMap'[k][n] > 0
          BY <2>2, <4>1, HeldMapIs DEF Usage, One
        <4> QED
          BY <2>2, <4>1, <4>2, HeldMapIs, MoreTable
      <3>3. HeldMap[k][n] + charged[k][n] < Limit[k] + uncounted[k][n]
        <4>1. used[k][n] < Limit[k]
          BY <2>2, <2>3 DEF Mine
        <4> HIDE DEF k, n
        <4>2. PointOK(k, n) /\ HeldMap[k][n] = Held(k, n)
          BY <2>2, HeldMapIs DEF QuotaOK
        <4>3. /\ used[k][n] \in Nat /\ charged[k][n] \in Nat /\ uncounted[k][n] \in Nat
              /\ Held(k, n) \in Nat /\ Limit[k] \in Nat
          BY <2>2, Numbers
        <4> QED
          BY <4>1, <4>2, <4>3 DEF PointOK, Due
      <3>4. Promise!Reserve(k, n)
        BY <2>1, <3>2, <3>3 DEF Promise!Reserve, HeldMap
      <3> QED
        BY <2>2, <3>4 DEF Promise!Next
    <2>5. CASE ~ok
      <3>1. \A l \in Keys, m \in Periods : HeldMap'[l][m] = HeldMap[l][m]
        BY <2>3, <2>5, HeldMapIs DEF One, Usage
      <3>2. HeldMap' = HeldMap
        BY <3>1, HeldMapIs, SameTable
      <3> QED
        BY <2>1, <3>2
    <2> QED
      BY <2>4, <2>5
  <1>5. ASSUME NEW r \in Callers, NEW ok \in BOOLEAN, Release(r, ok)
        PROVE  [Promise!Next]_<<HeldMap, charged, uncounted>>
    <2> DEFINE k == Payer(r)
               n == call[r].period
    <2>1. charged' = charged
      BY <1>5 DEF Release
    <2>2. k \in Keys /\ n \in Periods
      BY <1>5, Counter DEF Release
    <2>3. \A l \in Keys, m \in Periods :
             /\ HeldMap'[l][m] = HeldMap[l][m] - One(Mine(r, l, m) /\ call[r].slot = "taken")
             /\ Mine(r, l, m) /\ call[r].slot = "taken" => HeldMap[l][m] > 0
      BY <1>5, ReleaseEffect, HeldMapIs
    <2>4. CASE call[r].slot = "taken"
      <3>1. \A l \in Keys, m \in Periods : One(Mine(r, l, m) /\ call[r].slot = "taken") = One(k = l /\ n = m)
        BY <2>4 DEF Mine, One
      <3>2. HeldMap[k][n] > 0
        BY <2>2, <2>3, <2>4 DEF Mine
      <3>3. HeldMap' = [HeldMap EXCEPT ![k][n] = @ - 1]
        <4> HIDE DEF k, n
        <4>1. \A l \in Keys, m \in Periods : HeldMap'[l][m] = HeldMap[l][m] - One(k = l /\ n = m)
          BY <2>3, <3>1
        <4> QED
          BY <2>2, <3>2, <4>1, HeldMapIs, LessTable
      <3>4. uncounted' = uncounted
        BY <1>5, <2>4 DEF Release
      <3>5. Promise!GiveBack(k, n)
        BY <2>1, <3>2, <3>3, <3>4 DEF Promise!GiveBack, HeldMap
      <3> QED
        BY <2>2, <3>5 DEF Promise!Next
    <2>5. CASE call[r].slot # "taken"
      <3>1. \A l \in Keys, m \in Periods : HeldMap'[l][m] = HeldMap[l][m]
        BY <2>3, <2>5, HeldMapIs DEF One, Usage
      <3>2. HeldMap' = HeldMap
        BY <3>1, HeldMapIs, SameTable
      <3>3. uncounted' \in {uncounted, [uncounted EXCEPT ![k][n] = @ + 1]}
        BY <1>5 DEF Release
      <3>4. CASE uncounted' = uncounted
        BY <2>1, <3>2, <3>4
      <3>5. CASE uncounted' = [uncounted EXCEPT ![k][n] = @ + 1]
        <4>1. Promise!LoseCount(k, n)
          BY <2>1, <3>2, <3>5 DEF Promise!LoseCount, HeldMap
        <4> QED
          BY <2>2, <4>1 DEF Promise!Next
      <3> QED
        BY <3>3, <3>4, <3>5
    <2> QED
      BY <2>4, <2>5
  <1> QED
    BY <1>1, <1>2, <1>3, <1>4, <1>5, StepKinds

\* An initial state of the flow is one of Quota.
LEMMA InitImplements == Init => Promise!Init
  <1> SUFFICES ASSUME Init
               PROVE  Promise!Init
    OBVIOUS
  <1>1. \A r \in Callers : call[r] = Idle
    BY DEF Init
  <1>2. \A k \in Keys, n \in Periods : Held(k, n) = 0
    <2>1. \A k, n : HoldIn(call, k, n) = {}
      BY <1>1, IdleCall DEF HoldIn
    <2> QED
      BY <2>1, HeldIs, FS_EmptySet
  <1> QED
    BY <1>2 DEF Promise!Init, Init, NoUsage

\* attest.ts implements what the reservations promise: nothing is charged
\* but through a slot taken under the limit.
THEOREM QuotaImplemented == Spec => ImplementsQuota
  <1>1. Init => Promise!Init
    BY InitImplements
  <1>2. Typed /\ QuotaOK /\ [Next]_vars => [Promise!Next]_(Promise!vars)
    BY StepImplements DEF Promise!vars, HeldMap
  <1> QED
    BY <1>1, <1>2, QuotaInvariant, PTL DEF Spec, ImplementsQuota, Promise!Spec

-----------------------------------------------------------------------------
(***************************************************************************)
(* The way to an answer.  The liveness properties of the model need        *)
(* fairness, and are checked; what they need of the steps is proved here:  *)
(* every step of a call takes it further along, a call in progress is      *)
(* never without a step, and what is owed at the end of a submission is    *)
(* always the business of somebody who is still in progress.               *)
(***************************************************************************)
\* How far a call is from its answer, and a poller from its end.
StagesLeft(stage) ==
    CASE stage = "checking" -> 18 [] stage = "noting" -> 17 [] stage = "noted" -> 16
      [] stage = "listing" -> 15 [] stage = "reserving" -> 14 [] stage = "preflight" -> 13
      [] stage = "paying" -> 12 [] stage = "creating" -> 11 [] stage = "preparing" -> 10
      [] stage = "storing" -> 9 [] stage = "submitting" -> 8 [] stage = "updating" -> 7
      [] stage = "marking" -> 6 [] stage = "answering" -> 5 [] stage = "failing" -> 4
      [] stage = "unmarking" -> 3 [] stage = "releasing" -> 2 [] stage = "rereleasing" -> 1
      [] stage = "idle" -> 0

\* No step of a call goes back: a call is left alone, or it is nearer to its
\* answer than before, whatever its steps found or ran into.
CallsAdvance ==
    [][\A r \in Callers : ~At(r, "idle") =>
          \/ call'[r] = call[r]
          \/ StagesLeft(call'[r].stage) < StagesLeft(call[r].stage)]_vars

\* A step of a call changes that call only, and takes it further; the call
\* keeps its transaction and its payer to the end.
Advances(r) ==
    \E c \in Call : /\ call' = [call EXCEPT ![r] = c]
                    /\ StagesLeft(c.stage) < StagesLeft(call[r].stage)
                    /\ c.stage # "idle" => c.tx = call[r].tx /\ c.by = call[r].by

\* The stages as numbers.
LEMMA StageNumbers ==
    /\ StagesLeft("checking") = 18 /\ StagesLeft("noting") = 17 /\ StagesLeft("noted") = 16
    /\ StagesLeft("listing") = 15 /\ StagesLeft("reserving") = 14 /\ StagesLeft("preflight") = 13
    /\ StagesLeft("paying") = 12 /\ StagesLeft("creating") = 11 /\ StagesLeft("preparing") = 10
    /\ StagesLeft("storing") = 9 /\ StagesLeft("submitting") = 8 /\ StagesLeft("updating") = 7
    /\ StagesLeft("marking") = 6 /\ StagesLeft("answering") = 5 /\ StagesLeft("failing") = 4
    /\ StagesLeft("unmarking") = 3 /\ StagesLeft("releasing") = 2 /\ StagesLeft("rereleasing") = 1
    /\ StagesLeft("idle") = 0
  BY DEF StagesLeft

\* A call that goes to a later stage, and one that returns.
LEMMA GotoAdvances ==
    ASSUME Typed, Typed', NEW r \in Callers, NEW stage \in CallStages, Goto(r, stage),
           StagesLeft(stage) < StagesLeft(call[r].stage)
    PROVE  Advances(r)
  <1> DEFINE c == [call[r] EXCEPT !.stage = stage]
  <1>1. call \in [Callers -> Call] /\ call[r] \in Call
    BY DEF Typed, Calls
  <1>2. call' = [call EXCEPT ![r] = c]
    BY <1>1 DEF Goto
  <1>3. c \in Call /\ c.stage = stage /\ c.tx = call[r].tx /\ c.by = call[r].by
    BY <1>1 DEF Call
  <1> HIDE DEF c
  <1> QED
    BY <1>2, <1>3 DEF Advances

\* A call that returns has nothing left to do.
LEMMA ReturnAdvances ==
    ASSUME Typed, NEW r \in Callers, Return(r), call[r].stage \in CallStages \ {"idle"}
    PROVE  Advances(r)
  <1>1. StagesLeft("idle") < StagesLeft(call[r].stage)
    BY StageNumbers DEF CallStages
  <1>2. Idle \in Call /\ Idle.stage = "idle"
    BY IdleCall DEF Idle
  <1>3. call' = [call EXCEPT ![r] = Idle]
    BY DEF Return
  <1> QED
    BY <1>1, <1>2, <1>3 DEF Advances

\* Every step of a call takes it further.
LEMMA ServeAdvances ==
    ASSUME Typed, NEW r \in Callers, Serve(r)
    PROVE  Typed' /\ Advances(r)
  <1>1. Typed'
    BY StepKinds DEF Next
  <1>2. call[r] \in Call /\ call[r].stage \in CallStages /\ call \in [Callers -> Call]
    BY DEF Typed, Calls, Call
  <1>3. CASE \/ OverQuota(r) \/ NothingToRelease(r)
             \/ \E ok \in BOOLEAN : /\ AddReceipt(r, ok) \/ Reserve(r, ok) \/ Release(r, ok)
                                    /\ Return(r)
    <2>1. Return(r) /\ call[r].stage # "idle"
      BY <1>3 DEF OverQuota, NothingToRelease, AddReceipt, Reserve, Release, At
    <2> QED
      BY <1>1, <1>2, <2>1, ReturnAdvances
  <1>4. CASE NotOnChain(r)
    <2> DEFINE c == [call[r] EXCEPT !.stage = "reserving", !.period = period]
    <2>1. call' = [call EXCEPT ![r] = c] /\ call[r].stage = "checking"
      BY <1>2, <1>4 DEF NotOnChain, At
    <2>2. c \in Call /\ c.stage = "reserving" /\ c.tx = call[r].tx /\ c.by = call[r].by
      BY <1>2 DEF Call, CallStages, Typed, Hist
    <2> HIDE DEF c
    <2>3. StagesLeft(c.stage) < StagesLeft(call[r].stage)
      BY <2>1, <2>2, StageNumbers
    <2> QED
      BY <1>1, <2>1, <2>2, <2>3 DEF Advances
  <1>5. CASE \E ok \in BOOLEAN : Reserve(r, ok) /\ ~Return(r)
    <2> DEFINE c == [call[r] EXCEPT !.stage = "preflight", !.slot = "taken"]
    <2>1. call' = [call EXCEPT ![r] = c] /\ call[r].stage = "reserving"
      BY <1>2, <1>5 DEF Reserve, At
    <2>2. c \in Call /\ c.stage = "preflight" /\ c.tx = call[r].tx /\ c.by = call[r].by
      BY <1>2 DEF Call, CallStages, Slots
    <2> HIDE DEF c
    <2>3. StagesLeft(c.stage) < StagesLeft(call[r].stage)
      BY <2>1, <2>2, StageNumbers
    <2> QED
      BY <1>1, <2>1, <2>2, <2>3 DEF Advances
  <1>6. CASE \E ok \in BOOLEAN : Release(r, ok) /\ ~Return(r)
    <2> DEFINE c == [call[r] EXCEPT !.stage = "rereleasing", !.slot = "returned"]
    <2>1. call' = [call EXCEPT ![r] = c] /\ call[r].stage = "releasing"
      BY <1>2, <1>6 DEF Release, At
    <2>2. c \in Call /\ c.stage = "rereleasing" /\ c.tx = call[r].tx /\ c.by = call[r].by
      BY <1>2 DEF Call, CallStages, Slots
    <2> HIDE DEF c
    <2>3. StagesLeft(c.stage) < StagesLeft(call[r].stage)
      BY <2>1, <2>2, StageNumbers
    <2> QED
      BY <1>1, <2>1, <2>2, <2>3 DEF Advances
  <1>7. CASE SubmitPasses(r) /\ Payer(r) \in Keys
    <2> DEFINE c == [call[r] EXCEPT !.stage = "updating", !.slot = "spent"]
    <2>1. call' = [call EXCEPT ![r] = c] /\ call[r].stage = "submitting"
      BY <1>2, <1>7 DEF SubmitPasses, At
    <2>2. c \in Call /\ c.stage = "updating" /\ c.tx = call[r].tx /\ c.by = call[r].by
      BY <1>2 DEF Call, CallStages, Slots
    <2> HIDE DEF c
    <2>3. StagesLeft(c.stage) < StagesLeft(call[r].stage)
      BY <2>1, <2>2, StageNumbers
    <2> QED
      BY <1>1, <2>1, <2>2, <2>3 DEF Advances
  <1>8. CASE \E stage \in CallStages : Goto(r, stage) /\ StagesLeft(stage) < StagesLeft(call[r].stage)
    BY <1>1, <1>8, GotoAdvances
  <1>9. ASSUME \/ FoundOnChain(r) \/ SkipQuota(r) \/ PreflightFails(r) \/ PreflightPasses(r)
               \/ PayRetries(r) \/ PayRefused(r) \/ PrepareFails(r) \/ PreparePasses(r) \/ SubmitFails(r)
               \/ (SubmitPasses(r) /\ Payer(r) \notin Keys)
        PROVE  \E stage \in CallStages : Goto(r, stage) /\ StagesLeft(stage) < StagesLeft(call[r].stage)
    BY <1>9, StageNumbers DEF FoundOnChain, SkipQuota, PreflightFails, PreflightPasses, PayRetries, PayRefused,
                PrepareFails, PreparePasses, SubmitFails, SubmitPasses, At, CallStages
  <1>10. ASSUME NEW ok \in BOOLEAN,
                \/ NoteOnChain(r, ok) \/ (AddReceipt(r, ok) /\ ~Return(r)) \/ PaySettles(r, ok) \/ Create(r, ok)
                \/ StorePrepared(r, ok) \/ StorePending(r, ok) \/ StoreFailed(r, ok) \/ MarkFailed(r, ok)
                \/ \E p \in Free : MarkOk(r, p, ok)
         PROVE  \E stage \in CallStages : Goto(r, stage) /\ StagesLeft(stage) < StagesLeft(call[r].stage)
    BY <1>10, StageNumbers DEF NoteOnChain, AddReceipt, PaySettles, Create, StorePrepared, StorePending, StoreFailed,
                 MarkFailed, MarkOk, At, CallStages
  <1> QED
    BY <1>1, <1>3, <1>4, <1>5, <1>6, <1>7, <1>8, <1>9, <1>10 DEF Serve

\* What the steps of others do to a call: nothing, unless the process dies
\* and the call with it.
LEMMA CallsStay ==
    ASSUME Typed, [Next]_vars, NEW r \in Callers, ~At(r, "idle")
    PROVE  call'[r] = call[r] \/ Serve(r) \/ (Crash /\ call'[r] = Idle)
  <1>1. call \in [Callers -> Call]
    BY DEF Typed, Calls
  <1>2. CASE UNCHANGED call
    BY <1>2
  <1>3. ASSUME NEW s \in Callers, NEW t \in Txs, NEW a \in Payers, Ask(s, t, a)
        PROVE  call'[r] = call[r]
    BY <1>1, <1>3 DEF Ask, At
  <1>4. ASSUME NEW s \in Callers, Serve(s), s # r
        PROVE  call'[r] = call[r]
    BY <1>1, <1>4, ServeAdvances DEF Advances
  <1>5. CASE Crash
    BY <1>5 DEF Crash
  <1>6. ASSUME NEW p \in Pollers, Poll(p)
        PROVE  UNCHANGED call
    BY <1>6, PollTyped
  <1> QED
    BY <1>2, <1>3, <1>4, <1>5, <1>6 DEF Next, Environment, AnswerCached, NextPeriod, vars

\* The stages of attest.ts have no loop: a call takes at most eighteen steps
\* of its own, and ends by being answered.
THEOREM CallsComeToAnEnd == Spec => CallsAdvance
  <1> DEFINE Further(r) == ~At(r, "idle") =>
                 \/ call'[r] = call[r]
                 \/ StagesLeft(call'[r].stage) < StagesLeft(call[r].stage)
  <1>1. ASSUME Typed, [Next]_vars, NEW r \in Callers, ~At(r, "idle")
        PROVE  \/ call'[r] = call[r]
               \/ StagesLeft(call'[r].stage) < StagesLeft(call[r].stage)
    <2>1. call \in [Callers -> Call] /\ call[r].stage \in CallStages \ {"idle"}
      BY <1>1 DEF Typed, Calls, Call, At
    <2>2. CASE Serve(r)
      BY <1>1, <2>1, <2>2, ServeAdvances DEF Advances
    <2>3. CASE call'[r] = Idle
      BY <2>1, <2>3, StageNumbers DEF Idle, CallStages
    <2> QED
      BY <1>1, <2>2, <2>3, CallsStay
  <1>2. Typed /\ [Next]_vars => [\A r \in Callers : Further(r)]_vars
    BY <1>1
  <1>3. Typed /\ [Next]_vars => Typed'
    BY StepKinds
  <1> QED
    BY <1>2, <1>3, InitTyped, PTL DEF Spec, CallsAdvance

-----------------------------------------------------------------------------
(***************************************************************************)
(* The pollers.                                                            *)
(***************************************************************************)
PollerSteps(stage) ==
    CASE stage = "polling" -> 5 [] stage = "verifying" -> 4 [] stage = "erring" -> 3
      [] stage = "delivering" -> 2 [] stage = "failing" -> 1 [] stage = "none" -> 0

\* How far a poller is from its end: what is left of its attempts, then of
\* the one it is in.
PollLeft(q) == IF q.stage = "none" THEN 0
               ELSE (MaxPollAttempts - q.attempt) * 5 + PollerSteps(q.stage)

\* A poller is left alone, or it is nearer to its end: the outer catch block
\* of pollForProof starts an attempt again, never one more than configured.
PollsAdvance ==
    [][\A p \in Pollers : poll[p].stage # "none" =>
          \/ poll'[p] = poll[p]
          \/ PollLeft(poll'[p]) < PollLeft(poll[p])]_vars

\* The stages of a poller as numbers.
LEMMA PollerNumbers ==
    /\ PollerSteps("polling") = 5 /\ PollerSteps("verifying") = 4 /\ PollerSteps("erring") = 3
    /\ PollerSteps("delivering") = 2 /\ PollerSteps("failing") = 1 /\ PollerSteps("none") = 0
  BY DEF PollerSteps

\* A step of a poller changes that poller only.  While it goes on it keeps
\* its transaction, and its attempts stay within those configured.
LEMMA PollAdvances ==
    ASSUME Typed, NEW p \in Pollers, Poll(p)
    PROVE  \E q \in Poller : /\ poll' = [poll EXCEPT ![p] = q]
                             /\ q.stage # "none" => q.tx = poll[p].tx
                             /\ PollLeft(q) < PollLeft(poll[p])
  <1> DEFINE o == poll[p]
             Fine(q) == /\ q \in Poller
                        /\ poll' = [poll EXCEPT ![p] = q]
                        /\ q.stage # "none" => q.tx = poll[p].tx
                        /\ PollLeft(q) < PollLeft(poll[p])
  <1>1. /\ o \in Poller /\ poll \in [Pollers -> Poller] /\ MaxPollAttempts \in Nat \ {0}
        /\ o.attempt \in 0..MaxPollAttempts
    BY AttestAssumption DEF Typed, Polls, Poller
  <1>2. o.stage \in PollStages \ {"none"}
    BY <1>1 DEF Poll, FetchFails, VerifyFails, NoProof, FindProof, VerifyOnChain, NoteError, Deliver, FailPoll,
                Poller
  <1>3. PollLeft(o) = (MaxPollAttempts - o.attempt) * 5 + PollerSteps(o.stage)
    BY <1>2 DEF PollLeft
  <1>4. PollerSteps(o.stage) \in 1..5 /\ (o.stage # "failing" => PollerSteps(o.stage) \in 2..5)
    BY <1>2, PollerNumbers DEF PollStages
  <1>5. CASE PollEnds(p)
    <2>1. NoPoll \in Poller /\ NoPoll.stage = "none"
      BY AttestAssumption DEF NoPoll, Poller, PollStages
    <2>2. PollLeft(NoPoll) = 0
      BY <2>1 DEF PollLeft
    <2>3. PollLeft(NoPoll) < PollLeft(o)
      BY <1>1, <1>3, <1>4, <2>2
    <2> QED
      BY <1>5, <2>1, <2>3 DEF PollEnds
  <1>6. ASSUME o.stage # "failing", PollAgain(p)
        PROVE  \E q : Fine(q)
    <2>1. CASE o.attempt < MaxPollAttempts
      <3> DEFINE q == [o EXCEPT !.stage = "polling", !.attempt = @ + 1]
      <3>1. poll' = [poll EXCEPT ![p] = q]
        BY <1>6, <2>1 DEF PollAgain
      <3>0. o.attempt + 1 \in 0..MaxPollAttempts
        BY <1>1, <2>1
      <3>2. q \in Poller /\ q.stage = "polling" /\ q.tx = o.tx /\ q.attempt = o.attempt + 1
        BY <1>1, <3>0 DEF Poller, PollStages
      <3> HIDE DEF q
      <3>3. PollLeft(q) = (MaxPollAttempts - q.attempt) * 5 + 5
        BY <3>2, PollerNumbers DEF PollLeft
      <3>4. PollLeft(q) < PollLeft(o)
        BY <1>1, <1>3, <1>4, <1>6, <3>2, <3>3
      <3> QED
        BY <3>1, <3>2, <3>4
    <2>2. CASE ~(o.attempt < MaxPollAttempts)
      <3> DEFINE q == [o EXCEPT !.stage = "failing"]
      <3>1. poll' = [poll EXCEPT ![p] = q]
        BY <1>6, <2>2 DEF PollAgain
      <3>2. q \in Poller /\ q.stage = "failing" /\ q.tx = o.tx /\ q.attempt = o.attempt
        BY <1>1 DEF Poller, PollStages
      <3> HIDE DEF q
      <3>3. PollLeft(q) = (MaxPollAttempts - q.attempt) * 5 + 1
        BY <3>2, PollerNumbers DEF PollLeft
      <3>4. PollLeft(q) < PollLeft(o)
        BY <1>1, <1>3, <1>4, <1>6, <3>2, <3>3
      <3> QED
        BY <3>1, <3>2, <3>4
    <2> QED
      BY <2>1, <2>2
  <1>7. ASSUME NEW stage \in PollStages, PollGoto(p, stage), PollerSteps(stage) < PollerSteps(o.stage),
               stage # "none"
        PROVE  \E q : Fine(q)
    <2> DEFINE q == [o EXCEPT !.stage = stage]
    <2>1. poll' = [poll EXCEPT ![p] = q]
      BY <1>1, <1>7 DEF PollGoto
    <2>2. q \in Poller /\ q.stage = stage /\ q.tx = o.tx /\ q.attempt = o.attempt
      BY <1>1 DEF Poller
    <2> HIDE DEF q
    <2>3. PollLeft(q) = (MaxPollAttempts - o.attempt) * 5 + PollerSteps(stage)
      BY <1>7, <2>2 DEF PollLeft
    <2>4. PollerSteps(stage) \in 0..5
      BY PollerNumbers DEF PollStages
    <2>5. PollLeft(q) < PollLeft(o)
      BY <1>1, <1>3, <1>4, <1>7, <2>3, <2>4
    <2> QED
      BY <2>1, <2>2, <2>5
  <1>8. \/ PollEnds(p)
        \/ o.stage # "failing" /\ PollAgain(p)
        \/ \E stage \in PollStages \ {"none"} : PollGoto(p, stage) /\ PollerSteps(stage) < PollerSteps(o.stage)
    BY PollerNumbers DEF Poll, FetchFails, VerifyFails, NoProof, FindProof, VerifyOnChain, NoteError, Deliver,
                         FailPoll, PollStages
  <1> QED
    BY <1>5, <1>6, <1>7, <1>8

\* A poller starts in a free place only, and the others of a call's steps
\* leave the pollers alone.
LEMMA ServePolls ==
    ASSUME Typed, NEW r \in Callers, Serve(r)
    PROVE  \/ UNCHANGED poll
           \/ \E p \in Free, ok \in BOOLEAN :
                 /\ MarkOk(r, p, ok)
                 /\ ok
                 /\ poll' = [poll EXCEPT ![p] = [stage |-> "polling", tx |-> Tx(r), attempt |-> 1]]
  BY DEF Serve, NotOnChain, FoundOnChain, OverQuota, SkipQuota, NothingToRelease, PreflightFails, PreflightPasses,
         PayRetries, PayRefused, PrepareFails, PreparePasses, SubmitFails, SubmitPasses, NoteOnChain, AddReceipt,
         Reserve, Release, PaySettles, Create, StorePrepared, StorePending, StoreFailed, MarkFailed, MarkOk

\* What the steps of others do to a poller: nothing, unless the process dies.
LEMMA PollersStay ==
    ASSUME Typed, [Next]_vars, NEW p \in Pollers, poll[p].stage # "none"
    PROVE  poll'[p] = poll[p] \/ Poll(p) \/ (Crash /\ poll'[p] = NoPoll)
  <1>1. poll \in [Pollers -> Poller]
    BY DEF Typed, Polls
  <1>2. ASSUME NEW r \in Callers, Serve(r)
        PROVE  poll'[p] = poll[p]
    BY <1>1, <1>2, ServePolls DEF Free
  <1>3. ASSUME NEW q \in Pollers, Poll(q), q # p
        PROVE  poll'[p] = poll[p]
    BY <1>1, <1>3, PollAdvances
  <1>4. CASE Crash
    BY <1>4 DEF Crash
  <1>5. \/ UNCHANGED poll \/ Crash
        \/ (\E r \in Callers : Serve(r)) \/ (\E q \in Pollers : Poll(q))
    <2>1. UNCHANGED vars => UNCHANGED poll
      BY DEF vars
    <2>2. Environment => UNCHANGED poll \/ Crash
      <3>1. ASSUME NEW s \in Callers, NEW t \in Txs, AnswerCached(s, t)
            PROVE  UNCHANGED poll
        BY <2>1, <3>1 DEF AnswerCached
      <3>2. ASSUME NEW s \in Callers, NEW t \in Txs, NEW a \in Payers, Ask(s, t, a)
            PROVE  UNCHANGED poll
        BY <3>2 DEF Ask
      <3>3. NextPeriod => UNCHANGED poll
        BY DEF NextPeriod
      <3> QED
        BY <3>1, <3>2, <3>3 DEF Environment
    <2> QED
      BY <2>1, <2>2 DEF Next
  <1> QED
    BY <1>2, <1>3, <1>4, <1>5

\* A poller takes at most five steps for each of its attempts, and ends.
THEOREM PollersComeToAnEnd == Spec => PollsAdvance
  <1> DEFINE Further(p) == poll[p].stage # "none" =>
                 \/ poll'[p] = poll[p]
                 \/ PollLeft(poll'[p]) < PollLeft(poll[p])
  <1>1. ASSUME Typed, [Next]_vars, NEW p \in Pollers, poll[p].stage # "none"
        PROVE  poll'[p] = poll[p] \/ PollLeft(poll'[p]) < PollLeft(poll[p])
    <2>1. poll[p] \in Poller /\ poll \in [Pollers -> Poller]
      BY <1>1 DEF Typed, Polls
    <2>2. CASE Poll(p)
      BY <1>1, <2>1, <2>2, PollAdvances
    <2>3. CASE poll'[p] = NoPoll
      <3>1. PollLeft(NoPoll) = 0
        BY DEF PollLeft, NoPoll
      <3>2. /\ PollerSteps(poll[p].stage) \in 1..5 /\ poll[p].attempt \in 0..MaxPollAttempts
            /\ MaxPollAttempts \in Nat
        BY <1>1, <2>1, PollerNumbers, AttestAssumption DEF Poller, PollStages
      <3>3. PollLeft(poll[p]) > 0
        BY <1>1, <3>2 DEF PollLeft
      <3> QED
        BY <2>3, <3>1, <3>3
    <2> QED
      BY <1>1, <2>2, <2>3, PollersStay
  <1>2. Typed /\ [Next]_vars => [\A p \in Pollers : Further(p)]_vars
    BY <1>1
  <1>3. Typed /\ [Next]_vars => Typed'
    BY StepKinds
  <1> QED
    BY <1>2, <1>3, InitTyped, PTL DEF Spec, PollsAdvance

-----------------------------------------------------------------------------
(***************************************************************************)
(* What is owed at the end of a submission: the mark of its payment, and   *)
(* the end of "pending".                                                   *)
(***************************************************************************)
\* A crash, or a store call that throws.
Fault == crashes' # crashes \/ storeErrors' # storeErrors

\* The stages of a call between its payment and the mark on it.
Owing == {"creating", "preparing", "storing", "submitting", "updating", "marking",
          "failing", "unmarking"}

\* Somebody in progress will mark the payment of i.
Answerable(i) ==
    pay[i] = "settled" => \E r \in Callers : Payer(r) = i /\ call[r].stage \in Owing

\* As long as nothing crashes and no store call fails, a settled payment is
\* never left without a call that has its mark still to write: calls that
\* share an invoice do not each leave the mark to the other.
PaymentCarried == crashes + storeErrors = 0 => \A i \in Invoices : Answerable(i)

\* More closely: the last such call is lost by a crash or a failed store call
\* only, whatever happened before.
PaymentKept == [][\A i \in Invoices : Answerable(i) => Answerable(i)' \/ Fault]_vars

\* What is left of a step without a fault.
LEMMA FaultlessSteps ==
    ASSUME [Next]_vars, ~Fault, Typed
    PROVE  \/ UNCHANGED <<att, pay, call, poll>>
           \/ \E r \in Callers, t \in Txs, a \in Payers : Ask(r, t, a)
           \/ \E r \in Callers : Serve(r)
           \/ \E p \in Pollers : Poll(p)
  <1>1. UNCHANGED vars => UNCHANGED <<att, pay, call, poll>>
    BY DEF vars, storeVars
  <1>2. ASSUME NEW s \in Callers, NEW t \in Txs, AnswerCached(s, t)
        PROVE  UNCHANGED <<att, pay, call, poll>>
    BY <1>1, <1>2 DEF AnswerCached
  <1>3. NextPeriod => UNCHANGED <<att, pay, call, poll>>
    BY DEF NextPeriod, storeVars
  <1>4. ~Crash
    <2>1. crashes \in Nat
      BY AttestAssumption DEF Typed, Hist
    <2> QED
      BY <2>1 DEF Crash, Fault
  <1> QED
    BY <1>1, <1>2, <1>3, <1>4 DEF Next, Environment

\* A store call that does not fail did not throw.
LEMMA NoThrow ==
    ASSUME Typed, ~Fault, NEW ok \in BOOLEAN, CountCall(ok)
    PROVE  ok
  <1>1. storeErrors \in Nat
    BY AttestAssumption DEF Typed, Errs
  <1> QED
    BY <1>1 DEF CountCall, Fault

\* The store calls of a step that runs without a fault, and what they write.
LEMMA FaultlessWrites ==
    ASSUME Typed, ~Fault, NEW ok \in BOOLEAN
    PROVE  /\ \A a, u : Persist(a, u, ok) => ok /\ att' = a /\ pay' = pay
           /\ \A t : CreateAttestation(t, ok) =>
                 /\ ok /\ pay' = pay
                 /\ att' = IF att[t] = "none" THEN [att EXCEPT ![t] = "pending"] ELSE att
           /\ \A t, status : UpdateAttestation(t, status, ok) =>
                 ok /\ pay' = pay /\ att' = [att EXCEPT ![t] = status]
           /\ \A i, status : MarkPayment(i, status, ok) =>
                 ok /\ att' = att /\ pay' = [pay EXCEPT ![i] = status]
  <1>1. \A a, u : Persist(a, u, ok) => ok /\ att' = a /\ pay' = pay
    BY NoThrow DEF Persist
  <1>2. \A i, status : MarkPayment(i, status, ok) => ok /\ att' = att /\ pay' = [pay EXCEPT ![i] = status]
    BY NoThrow DEF MarkPayment
  <1> QED
    BY <1>1, <1>2 DEF CreateAttestation, UpdateAttestation, storeVars

\* A call that has a payment to mark still has it after its step, or the
\* payment is marked.
LEMMA OwingKept ==
    ASSUME Typed, ~Fault, NEW r \in Callers, Serve(r), NEW i \in Invoices,
           Payer(r) = i, call[r].stage \in Owing
    PROVE  pay'[i] # "settled" \/ (call'[r].by = i /\ call'[r].stage \in Owing)
  <1>1. call \in [Callers -> Call] /\ call[r] \in Call /\ call[r].by = i /\ i \notin Keys
        /\ pay \in [Invoices -> PayStatus]
    BY AttestAssumption DEF Typed, Calls, Payer, StoreTypes
  <1>2. ASSUME NEW stage \in Owing, Goto(r, stage)
        PROVE  call'[r].by = i /\ call'[r].stage \in Owing
    BY <1>1, <1>2 DEF Goto, Call
  <1>3. CASE PrepareFails(r) \/ PreparePasses(r) \/ SubmitFails(r) \/ SubmitPasses(r)
    BY <1>1, <1>2, <1>3 DEF PrepareFails, PreparePasses, SubmitFails, SubmitPasses, Owing, Payer
  <1>4. ASSUME NEW ok \in BOOLEAN,
               Create(r, ok) \/ StorePrepared(r, ok) \/ StorePending(r, ok) \/ StoreFailed(r, ok)
        PROVE  call'[r].by = i /\ call'[r].stage \in Owing
    <2>1. ok
      BY <1>4, FaultlessWrites DEF Create, StorePrepared, StorePending, StoreFailed
    <2>2. \E stage \in Owing : Goto(r, stage)
      BY <1>4, <2>1 DEF Create, StorePrepared, StorePending, StoreFailed, Owing, Payer
    <2> QED
      BY <1>2, <2>2
  <1>5. ASSUME NEW ok \in BOOLEAN, MarkFailed(r, ok) \/ \E p \in Free : MarkOk(r, p, ok)
        PROVE  pay'[i] # "settled"
    <2>1. \E status \in {"fdc_ok", "fdc_failed"} : MarkPayment(i, status, ok)
      BY <1>5 DEF MarkFailed, MarkOk, Payer
    <2>2. pay' = [pay EXCEPT ![i] = "fdc_ok"] \/ pay' = [pay EXCEPT ![i] = "fdc_failed"]
      BY <2>1, FaultlessWrites
    <2> QED
      BY <1>1, <2>2
  <1>6. \/ PrepareFails(r) \/ PreparePasses(r) \/ SubmitFails(r) \/ SubmitPasses(r)
        \/ \E ok \in BOOLEAN : \/ Create(r, ok) \/ StorePrepared(r, ok) \/ StorePending(r, ok)
                               \/ StoreFailed(r, ok) \/ MarkFailed(r, ok)
                               \/ \E p \in Free : MarkOk(r, p, ok)
    BY DEF Serve, NotOnChain, FoundOnChain, OverQuota, SkipQuota, NothingToRelease, PreflightFails,
           PreflightPasses, PayRetries, PayRefused, NoteOnChain, AddReceipt, Reserve, Release, PaySettles,
           At, Owing
  <1> QED
    BY <1>3, <1>4, <1>5, <1>6

\* A payment is settled by a call that then has its mark to write, and by
\* nothing else.
LEMMA WhoSettles ==
    ASSUME Typed, ~Fault, NEW r \in Callers, Serve(r), NEW i \in Invoices,
           pay'[i] = "settled", pay[i] # "settled"
    PROVE  call'[r].by = i /\ call'[r].stage \in Owing
  <1>1. call \in [Callers -> Call] /\ call[r] \in Call /\ pay \in [Invoices -> PayStatus]
    BY DEF Typed, Calls, StoreTypes
  <1>2. \E ok \in BOOLEAN : PaySettles(r, ok)
    <2>1. ASSUME NEW ok \in BOOLEAN, MarkFailed(r, ok) \/ \E p \in Free : MarkOk(r, p, ok)
          PROVE  FALSE
      <3>1. CASE \E j : \E status \in {"fdc_ok", "fdc_failed"} : MarkPayment(j, status, ok)
        <4>0. PICK j : \E status \in {"fdc_ok", "fdc_failed"} : MarkPayment(j, status, ok)
          BY <3>1
        <4>1. PICK status \in {"fdc_ok", "fdc_failed"} : MarkPayment(j, status, ok)
          BY <4>0
        <4>2. pay' = [pay EXCEPT ![j] = status] /\ status # "settled"
          BY <4>1, FaultlessWrites
        <4> QED
          BY <1>1, <4>2
      <3>2. CASE UNCHANGED storeVars
        BY <3>2 DEF storeVars
      <3> QED
        BY <2>1, <3>1, <3>2 DEF MarkFailed, MarkOk
    <2>2. ASSUME NEW ok \in BOOLEAN,
                 \/ NoteOnChain(r, ok) \/ Create(r, ok) \/ StorePrepared(r, ok) \/ StorePending(r, ok)
                 \/ StoreFailed(r, ok) \/ Reserve(r, ok) \/ Release(r, ok) \/ AddReceipt(r, ok)
          PROVE  pay' = pay
      BY <2>2, FaultlessWrites DEF NoteOnChain, Create, StorePrepared, StorePending, StoreFailed, Reserve,
                                   Release, AddReceipt, storeVars
    <2>3. ASSUME \/ NotOnChain(r) \/ FoundOnChain(r) \/ OverQuota(r) \/ SkipQuota(r) \/ NothingToRelease(r)
                 \/ PreflightFails(r) \/ PreflightPasses(r) \/ PayRetries(r) \/ PayRefused(r)
                 \/ PrepareFails(r) \/ PreparePasses(r) \/ SubmitFails(r) \/ SubmitPasses(r)
          PROVE  pay' = pay
      BY <2>3 DEF NotOnChain, FoundOnChain, OverQuota, SkipQuota, NothingToRelease, PreflightFails,
                  PreflightPasses, PayRetries, PayRefused, PrepareFails, PreparePasses, SubmitFails,
                  SubmitPasses, storeVars
    <2> QED
      BY <2>1, <2>2, <2>3 DEF Serve
  <1>3. PICK ok \in BOOLEAN : PaySettles(r, ok)
    BY <1>2
  <1>4. ok /\ pay' = [pay EXCEPT ![Payer(r)] = "settled"]
    BY <1>3, FaultlessWrites DEF PaySettles
  <1>5. Payer(r) = i
    BY <1>1, <1>4
  <1>6. Goto(r, "creating")
    BY <1>3, <1>4 DEF PaySettles
  <1> QED
    BY <1>1, <1>5, <1>6 DEF Goto, Call, Owing, Payer

\* A step without a fault leaves a settled payment with a call to mark it.
LEMMA AnswerableKept ==
    ASSUME Typed, [Next]_vars, ~Fault, NEW i \in Invoices, Answerable(i)
    PROVE  Answerable(i)'
  <1> SUFFICES ASSUME pay'[i] = "settled"
               PROVE  \E r \in Callers : call'[r].by = i /\ call'[r].stage \in Owing
    BY DEF Answerable, Payer
  <1>0. call \in [Callers -> Call]
    BY DEF Typed, Calls
  <1>1. CASE UNCHANGED <<att, pay, call, poll>>
    BY <1>1 DEF Answerable, Payer
  <1>2. ASSUME NEW s \in Callers, NEW t \in Txs, NEW a \in Payers, Ask(s, t, a)
        PROVE  \E r \in Callers : call'[r].by = i /\ call'[r].stage \in Owing
    <2>1. pay' = pay
      BY <1>2 DEF Ask, storeVars
    <2>2. PICK r \in Callers : Payer(r) = i /\ call[r].stage \in Owing
      BY <2>1 DEF Answerable
    <2>3. call'[r] = call[r]
      BY <1>0, <1>2, <2>2 DEF Ask, At, Owing
    <2> QED
      BY <2>2, <2>3 DEF Payer
  <1>3. ASSUME NEW s \in Callers, Serve(s)
        PROVE  \E r \in Callers : call'[r].by = i /\ call'[r].stage \in Owing
    <2>1. CASE pay[i] # "settled"
      BY <1>3, <2>1, WhoSettles
    <2>2. CASE pay[i] = "settled"
      <3>1. PICK r \in Callers : Payer(r) = i /\ call[r].stage \in Owing
        BY <2>2 DEF Answerable
      <3>2. CASE r = s
        BY <1>3, <3>1, <3>2, OwingKept
      <3>3. CASE r # s
        <4>1. call'[r] = call[r]
          BY <1>0, <1>3, <3>3, ServeAdvances DEF Advances
        <4> QED
          BY <3>1, <4>1 DEF Payer
      <3> QED
        BY <3>2, <3>3
    <2> QED
      BY <2>1, <2>2
  <1>4. ASSUME NEW p \in Pollers, Poll(p)
        PROVE  \E r \in Callers : call'[r].by = i /\ call'[r].stage \in Owing
    <2>1. call' = call
      BY <1>4, PollTyped
    <2>2. pay' = pay
      BY <1>4 DEF Poll, FetchFails, VerifyFails, NoProof, FindProof, VerifyOnChain, NoteError, Deliver,
                  FailPoll, UpdateAttestation, Persist, storeVars
    <2> QED
      BY <2>1, <2>2 DEF Answerable, Payer
  <1> QED
    BY <1>1, <1>2, <1>3, <1>4, FaultlessSteps

\* A settled payment loses the last call that has its mark to write by a
\* crash or a failed store call only.
THEOREM PaymentsKeepTheirCalls == Spec => PaymentKept
  <1> DEFINE Kept(i) == Answerable(i) => Answerable(i)' \/ Fault
  <1>1. Typed /\ [Next]_vars => [\A i \in Invoices : Kept(i)]_vars
    BY AnswerableKept
  <1>2. Typed /\ [Next]_vars => Typed'
    BY StepKinds
  <1> QED
    BY <1>1, <1>2, InitTyped, PTL DEF Spec, PaymentKept

\* The counts of faults only grow: none so far means none in the last step.
LEMMA NoFaultSoFar ==
    ASSUME Typed, [Next]_vars, (crashes + storeErrors = 0)'
    PROVE  crashes + storeErrors = 0 /\ ~Fault
  <1>1. crashes \in Nat /\ storeErrors \in Nat
    BY AttestAssumption DEF Typed, Hist, Errs
  <1>2. Typed'
    BY StepKinds
  <1>3. crashes' \in Nat /\ storeErrors' \in Nat
    BY <1>2, AttestAssumption DEF Typed, Hist, Errs
  <1>4. crashes' = 0 /\ storeErrors' = 0
    <2>1. crashes' + storeErrors' = 0
      OBVIOUS
    <2>2. \A m, n \in Nat : m + n = 0 => m = 0 /\ n = 0
      OBVIOUS
    <2> QED
      BY <1>3, <2>1, <2>2
  <1>5. crashes' \in {crashes, crashes + 1} /\ storeErrors' \in {storeErrors, storeErrors + 1}
    <2>1. CASE Calm
      BY <2>1 DEF Calm, Quiet
    <2>2. CASE Crash
      BY <2>2 DEF Crash
    <2>3. ASSUME NEW r \in Callers, SubmitPasses(r)
          PROVE  crashes' = crashes /\ storeErrors' = storeErrors
      BY <2>3 DEF SubmitPasses, storeVars
    <2>4. ASSUME NEW r \in Callers, NEW ok \in BOOLEAN, Reserve(r, ok) \/ Release(r, ok)
          PROVE  crashes' = crashes /\ storeErrors' \in {storeErrors, storeErrors + 1}
      BY <2>4 DEF Reserve, Release, Persist, CountCall, storeVars, histVars
    <2> QED
      BY <2>1, <2>2, <2>3, <2>4, StepKinds
  <1> QED
    BY <1>1, <1>4, <1>5 DEF Fault

\* The safety half of PaymentResolved: as long as nothing crashes and no
\* store call fails, somebody has the mark of each settled payment to write.
THEOREM PaymentsAreCarried == Spec => []PaymentCarried
  <1>1. Init => PaymentCarried
    BY DEF Init, PaymentCarried, Answerable
  <1>2. Typed /\ PaymentCarried /\ [Next]_vars => PaymentCarried'
    <2> SUFFICES ASSUME Typed, PaymentCarried, [Next]_vars, (crashes + storeErrors = 0)', NEW i \in Invoices
                 PROVE  Answerable(i)'
      BY DEF PaymentCarried
    <2>1. Answerable(i) /\ ~Fault
      BY NoFaultSoFar DEF PaymentCarried
    <2> QED
      BY <2>1, AnswerableKept
  <1>3. Typed /\ [Next]_vars => Typed'
    BY StepKinds
  <1> QED
    BY <1>1, <1>2, <1>3, InitTyped, PTL DEF Spec

\* The stages of a call from the record it made to the status it leaves.
Working == {"noted", "preparing", "storing", "submitting", "updating", "marking", "failing"}

\* Somebody in progress will write the next status of t: a call, or a poller
\* that still asks for the proof or is about to give up.
Watched(t) ==
    att[t] = "pending" =>
        \/ \E r \in Callers : Tx(r) = t /\ call[r].stage \in Working
        \/ \E p \in Pollers : poll[p].tx = t /\ poll[p].stage \in {"polling", "failing"}

\* As long as nothing crashes and no store call fails, a pending attestation
\* always has a call or a poller that will write what became of it.
PendingCarried == crashes + storeErrors = 0 => \A t \in Txs : Watched(t)

\* More closely: the last of them is lost by a crash or a failed store call
\* only.
PendingKept == [][\A t \in Txs : Watched(t) => Watched(t)' \/ Fault]_vars

\* A call that has a status to write still has it after its step, or writes
\* another status, or a poller takes over.
LEMMA WorkingKept ==
    ASSUME Typed, ~Fault, NEW r \in Callers, Serve(r), NEW t \in Txs,
           Tx(r) = t, call[r].stage \in Working
    PROVE  \/ att'[t] # "pending"
           \/ call'[r].tx = t /\ call'[r].stage \in Working
           \/ \E p \in Pollers : poll'[p].tx = t /\ poll'[p].stage = "polling"
  <1>1. call \in [Callers -> Call] /\ call[r] \in Call /\ call[r].tx = t /\ att \in [Txs -> AttStatus]
        /\ poll \in [Pollers -> Poller]
    BY DEF Typed, Calls, Tx, StoreTypes, Polls
  <1>2. ASSUME NEW stage \in Working, Goto(r, stage)
        PROVE  call'[r].tx = t /\ call'[r].stage \in Working
    BY <1>1, <1>2 DEF Goto, Call
  <1>3. CASE PrepareFails(r) \/ PreparePasses(r) \/ SubmitFails(r)
    BY <1>2, <1>3 DEF PrepareFails, PreparePasses, SubmitFails, Working
  <1>4. CASE SubmitPasses(r)
    <2>1. call'[r].stage = "updating" /\ call'[r].tx = t
      BY <1>1, <1>4 DEF SubmitPasses, Goto, Call
    <2> QED
      BY <2>1 DEF Working
  <1>5. ASSUME NEW ok \in BOOLEAN, StorePrepared(r, ok) \/ StorePending(r, ok)
        PROVE  call'[r].tx = t /\ call'[r].stage \in Working
    <2>1. ok
      BY <1>5, FaultlessWrites DEF StorePrepared, StorePending
    <2>2. \E stage \in Working : Goto(r, stage)
      BY <1>5, <2>1 DEF StorePrepared, StorePending, Working
    <2> QED
      BY <1>2, <2>2
  <1>6. ASSUME NEW ok \in BOOLEAN, call[r].stage = "noted", NoteOnChain(r, ok)
        PROVE  att'[t] # "pending"
    <2>1. UpdateAttestation(t, "verified", ok)
      BY <1>6 DEF NoteOnChain, At, Tx
    <2> QED
      BY <1>1, <2>1, FaultlessWrites
  <1>7. ASSUME NEW ok \in BOOLEAN, StoreFailed(r, ok)
        PROVE  att'[t] # "pending"
    <2>1. UpdateAttestation(t, "failed", ok)
      BY <1>7 DEF StoreFailed, Tx
    <2> QED
      BY <1>1, <2>1, FaultlessWrites
  <1>8. ASSUME NEW ok \in BOOLEAN, NEW p \in Free, MarkOk(r, p, ok)
        PROVE  poll'[p].tx = t /\ poll'[p].stage = "polling"
    <2>1. ok
      BY <1>8, FaultlessWrites DEF MarkOk
    <2> QED
      BY <1>1, <1>8, <2>1 DEF MarkOk, Free, Tx
  <1>9. \/ PrepareFails(r) \/ PreparePasses(r) \/ SubmitFails(r) \/ SubmitPasses(r)
        \/ \E ok \in BOOLEAN : \/ StorePrepared(r, ok) \/ StorePending(r, ok) \/ StoreFailed(r, ok)
                               \/ call[r].stage = "noted" /\ NoteOnChain(r, ok)
                               \/ \E p \in Free : MarkOk(r, p, ok)
    BY DEF Serve, NotOnChain, FoundOnChain, OverQuota, SkipQuota, NothingToRelease, PreflightFails,
           PreflightPasses, PayRetries, PayRefused, NoteOnChain, AddReceipt, Reserve, Release, PaySettles,
           Create, MarkFailed, At, Working
  <1> QED
    BY <1>3, <1>4, <1>5, <1>6, <1>7, <1>8, <1>9 DEF Free

\* A status becomes pending by a call that then has the next one to write.
LEMMA WhoMakesPending ==
    ASSUME Typed, ~Fault, NEW r \in Callers, Serve(r), NEW t \in Txs,
           att'[t] = "pending", att[t] # "pending"
    PROVE  call'[r].tx = t /\ call'[r].stage \in Working
  <1>1. call \in [Callers -> Call] /\ call[r] \in Call /\ att \in [Txs -> AttStatus]
    BY DEF Typed, Calls, StoreTypes
  <1>2. ASSUME NEW ok \in BOOLEAN, StorePrepared(r, ok) \/ StoreFailed(r, ok)
        PROVE  FALSE
    <2>1. CASE StorePrepared(r, ok)
      BY <1>1, <2>1, FaultlessWrites DEF StorePrepared
    <2>2. CASE StoreFailed(r, ok)
      BY <1>1, <2>2, FaultlessWrites DEF StoreFailed
    <2> QED
      BY <1>2, <2>1, <2>2
  <1>3. ASSUME NEW ok \in BOOLEAN,
               \/ Reserve(r, ok) \/ Release(r, ok) \/ AddReceipt(r, ok) \/ PaySettles(r, ok)
               \/ MarkFailed(r, ok) \/ \E p \in Free : MarkOk(r, p, ok)
        PROVE  att' = att
    <2>1. (\E p \in Free : MarkOk(r, p, ok)) => att' = att
      BY FaultlessWrites DEF MarkOk, storeVars
    <2>2. PaySettles(r, ok) \/ MarkFailed(r, ok) => att' = att
      BY FaultlessWrites DEF PaySettles, MarkFailed
    <2> QED
      BY <1>3, <2>1, <2>2, FaultlessWrites DEF Reserve, Release, AddReceipt, storeVars
  <1>4. CASE \/ NotOnChain(r) \/ FoundOnChain(r) \/ OverQuota(r) \/ SkipQuota(r) \/ NothingToRelease(r)
             \/ PreflightFails(r) \/ PreflightPasses(r) \/ PayRetries(r) \/ PayRefused(r)
             \/ PrepareFails(r) \/ PreparePasses(r) \/ SubmitFails(r) \/ SubmitPasses(r)
    BY <1>4 DEF NotOnChain, FoundOnChain, OverQuota, SkipQuota, NothingToRelease, PreflightFails,
                PreflightPasses, PayRetries, PayRefused, PrepareFails, PreparePasses, SubmitFails,
                SubmitPasses, storeVars
  <1>5. ASSUME NEW ok \in BOOLEAN, NoteOnChain(r, ok)
        PROVE  call'[r].tx = t /\ call'[r].stage \in Working
    <2>1. CASE UpdateAttestation(Tx(r), "verified", ok)
      BY <1>1, <2>1, FaultlessWrites
    <2>2. CASE CreateAttestation(Tx(r), ok) /\ Goto(r, IF ok THEN "noted" ELSE "reserving")
      <3>1. ok /\ Tx(r) = t
        BY <1>1, <2>2, FaultlessWrites
      <3> QED
        BY <1>1, <2>2, <3>1 DEF Goto, Call, Tx, Working
    <2> QED
      BY <1>5, <2>1, <2>2 DEF NoteOnChain
  <1>6. ASSUME NEW ok \in BOOLEAN, Create(r, ok)
        PROVE  call'[r].tx = t /\ call'[r].stage \in Working
    <2>1. ok /\ Tx(r) = t
      BY <1>1, <1>6, FaultlessWrites DEF Create
    <2> QED
      BY <1>1, <1>6, <2>1 DEF Create, Goto, Call, Tx, Working
  <1>7. ASSUME NEW ok \in BOOLEAN, StorePending(r, ok)
        PROVE  call'[r].tx = t /\ call'[r].stage \in Working
    <2>1. ok /\ Tx(r) = t
      BY <1>1, <1>7, FaultlessWrites DEF StorePending
    <2> QED
      BY <1>1, <1>7, <2>1 DEF StorePending, Goto, Call, Tx, Working
  <1> QED
    BY <1>2, <1>3, <1>4, <1>5, <1>6, <1>7 DEF Serve

\* A step of a poller makes nothing pending, and one that was to write the
\* next status of t still is, or has written it.
LEMMA PollWatches ==
    ASSUME Typed, ~Fault, NEW p \in Pollers, Poll(p), NEW t \in Txs, att'[t] = "pending"
    PROVE  /\ att[t] = "pending"
           /\ poll[p].tx = t /\ poll[p].stage \in {"polling", "failing"}
                 => poll'[p].tx = t /\ poll'[p].stage \in {"polling", "failing"}
  <1>1. att \in [Txs -> AttStatus] /\ poll \in [Pollers -> Poller] /\ poll[p] \in Poller
    BY DEF Typed, StoreTypes, Polls
  <1> DEFINE Writes(s) == \E ok \in BOOLEAN : UpdateAttestation(poll[p].tx, s, ok)
  <1>2. ASSUME NEW s, Writes(s)
        PROVE  att' = [att EXCEPT ![poll[p].tx] = s]
    BY <1>2, FaultlessWrites
  <1>3. CASE Writes("ready") \/ Writes("verified") \/ Writes("failed") \/ Writes("not_found")
    <2>1. PICK s \in {"ready", "verified", "failed", "not_found"} : Writes(s)
      BY <1>3
    <2>2. att' = [att EXCEPT ![poll[p].tx] = s] /\ s # "pending"
      BY <1>2, <2>1
    <2> QED
      BY <1>1, <2>2
  <1>4. CASE Writes(att[poll[p].tx]) /\ poll[p].stage = "erring"
    <2>1. att' = [att EXCEPT ![poll[p].tx] = att[poll[p].tx]]
      BY <1>2, <1>4
    <2> QED
      BY <1>1, <1>4, <2>1
  <1>5. CASE att' = att /\ PollAgain(p)
    <2>1. /\ poll'[p].tx = poll[p].tx
          /\ poll'[p].stage \in {"polling", "failing"}
      BY <1>1, <1>5 DEF PollAgain, Poller
    <2> QED
      BY <1>5, <2>1
  <1>6. CASE att' = att /\ poll[p].stage \notin {"polling", "failing"}
    BY <1>6
  <1>7. CASE FetchFails(p) \/ VerifyFails(p)
    BY <1>5, <1>6, <1>7 DEF FetchFails, VerifyFails, storeVars
  <1>8. ASSUME NEW ok \in BOOLEAN, NoProof(p, ok)
        PROVE  Writes("not_found") \/ (att' = att /\ PollAgain(p))
    BY <1>8 DEF NoProof, storeVars
  <1>9. ASSUME NEW ok \in BOOLEAN, FindProof(p, ok) \/ VerifyOnChain(p, ok) \/ FailPoll(p, ok)
        PROVE  Writes("ready") \/ Writes("verified") \/ Writes("failed")
    BY <1>9 DEF FindProof, VerifyOnChain, FailPoll
  <1>10. ASSUME NEW ok \in BOOLEAN, NoteError(p, ok)
         PROVE  Writes(att[poll[p].tx]) /\ poll[p].stage = "erring"
    BY <1>10 DEF NoteError
  <1>11. ASSUME NEW ok \in BOOLEAN, Deliver(p, ok)
         PROVE  att' = att /\ poll[p].stage \notin {"polling", "failing"}
    BY <1>11 DEF Deliver
  <1> HIDE DEF Writes
  <1> QED
    BY <1>3, <1>4, <1>5, <1>6, <1>7, <1>8, <1>9, <1>10, <1>11 DEF Poll

\* A step without a fault leaves a pending attestation with somebody to
\* write what becomes of it.
LEMMA WatchedKept ==
    ASSUME Typed, [Next]_vars, ~Fault, NEW t \in Txs, Watched(t)
    PROVE  Watched(t)'
  <1> DEFINE Call1 == \E r \in Callers : call'[r].tx = t /\ call'[r].stage \in Working
             Poll1 == \E p \in Pollers : poll'[p].tx = t /\ poll'[p].stage \in {"polling", "failing"}
  <1> SUFFICES ASSUME att'[t] = "pending"
               PROVE  Call1 \/ Poll1
    BY DEF Watched, Tx
  <1>0. call \in [Callers -> Call] /\ poll \in [Pollers -> Poller]
    BY DEF Typed, Calls, Polls
  <1>1. CASE UNCHANGED <<att, pay, call, poll>>
    BY <1>1 DEF Watched, Tx
  <1>2. ASSUME NEW s \in Callers, NEW u \in Txs, NEW a \in Payers, Ask(s, u, a)
        PROVE  Call1 \/ Poll1
    <2>1. att' = att /\ poll' = poll
      BY <1>2 DEF Ask, storeVars
    <2>2. \A r \in Callers : call[r].stage \in Working => call'[r] = call[r]
      BY <1>0, <1>2 DEF Ask, At, Working
    <2> QED
      BY <2>1, <2>2 DEF Watched, Tx
  <1>3. ASSUME NEW s \in Callers, Serve(s)
        PROVE  Call1 \/ Poll1
    <2>1. CASE att[t] # "pending"
      BY <1>3, <2>1, WhoMakesPending
    <2>2. ASSUME NEW r \in Callers, Tx(r) = t, call[r].stage \in Working
          PROVE  Call1 \/ Poll1
      <3>1. CASE r = s
        BY <1>3, <2>2, <3>1, WorkingKept
      <3>2. CASE r # s
        <4>1. call'[r] = call[r]
          BY <1>0, <1>3, <3>2, ServeAdvances DEF Advances
        <4> QED
          BY <2>2, <4>1 DEF Tx
      <3> QED
        BY <3>1, <3>2
    <2>3. ASSUME NEW p \in Pollers, poll[p].tx = t, poll[p].stage \in {"polling", "failing"}
          PROVE  Poll1
      <3>1. poll'[p] = poll[p]
        BY <1>0, <1>3, <2>3, ServePolls DEF Free
      <3> QED
        BY <2>3, <3>1
    <2> QED
      BY <2>1, <2>2, <2>3 DEF Watched
  <1>4. ASSUME NEW q \in Pollers, Poll(q)
        PROVE  Call1 \/ Poll1
    <2>1. call' = call /\ att[t] = "pending"
      BY <1>4, PollTyped, PollWatches
    <2>2. ASSUME NEW p \in Pollers, poll[p].tx = t, poll[p].stage \in {"polling", "failing"}
          PROVE  Poll1
      <3>1. CASE p = q
        BY <1>4, <2>2, <3>1, PollWatches
      <3>2. CASE p # q
        <4>1. poll'[p] = poll[p]
          BY <1>0, <1>4, <3>2, PollAdvances
        <4> QED
          BY <2>2, <4>1
      <3> QED
        BY <3>1, <3>2
    <2> QED
      BY <2>1, <2>2 DEF Watched, Tx
  <1> HIDE DEF Call1, Poll1
  <1> QED
    BY <1>1, <1>2, <1>3, <1>4, FaultlessSteps

\* A pending attestation loses the last call or poller that will write what
\* became of it by a crash or a failed store call only.
THEOREM PendingKeepsItsPoller == Spec => PendingKept
  <1> DEFINE Kept(t) == Watched(t) => Watched(t)' \/ Fault
  <1>1. Typed /\ [Next]_vars => [\A t \in Txs : Kept(t)]_vars
    BY WatchedKept
  <1>2. Typed /\ [Next]_vars => Typed'
    BY StepKinds
  <1> QED
    BY <1>1, <1>2, InitTyped, PTL DEF Spec, PendingKept

\* The safety half of PendingEnds: as long as nothing crashes and no store
\* call fails, nothing is pending that nobody works on.
THEOREM PendingIsCarried == Spec => []PendingCarried
  <1>1. Init => PendingCarried
    BY DEF Init, PendingCarried, Watched
  <1>2. Typed /\ PendingCarried /\ [Next]_vars => PendingCarried'
    <2> SUFFICES ASSUME Typed, PendingCarried, [Next]_vars, (crashes + storeErrors = 0)', NEW t \in Txs
                 PROVE  Watched(t)'
      BY DEF PendingCarried
    <2>1. Watched(t) /\ ~Fault
      BY NoFaultSoFar DEF PendingCarried
    <2> QED
      BY <2>1, WatchedKept
  <1>3. Typed /\ [Next]_vars => Typed'
    BY StepKinds
  <1> QED
    BY <1>1, <1>2, <1>3, InitTyped, PTL DEF Spec

-----------------------------------------------------------------------------
(***************************************************************************)
(* A call in progress is never without a step.                             *)
(***************************************************************************)
\* The guards of Serve(r) by stage, where they ask for more than the stage:
\* the conditions of reserveAttestationUsage and of processX402Payment, and a
\* place for the poller.
CanGoOn(r) ==
    /\ At(r, "reserving") =>
          \/ Payer(r) \in Keys /\ Taken(r) < Limit[Payer(r)]
          \/ Payer(r) \in Keys /\ Taken(r) >= Limit[Payer(r)]
          \/ Payer(r) \in Invoices
    /\ At(r, "paying") =>
          \/ pay[Payer(r)] = "unpaid" /\ QuotedFor[Payer(r)] = Tx(r)
          \/ pay[Payer(r)] \in {"settled", "fdc_failed"} /\ QuotedFor[Payer(r)] = Tx(r)
          \/ pay[Payer(r)] \in {"unpaid", "fdc_ok"}
          \/ QuotedFor[Payer(r)] # Tx(r)
    /\ At(r, "marking") => Free # {}

\* The conditions of attest.ts leave no case out, and the bound on pollers
\* refuses submissions only: one that FDC accepted always finds a place for
\* its poller, however many are under way at once.
NobodyStuck == \A r \in Callers : ~At(r, "idle") => CanGoOn(r)

\* What makes the places for pollers enough.
RoomForPollers == Cardinality(InFlight) <= Cardinality(Free)

\* Only a call with an invoice comes to processX402Payment.
KeysDoNotPay == \A r \in Callers : At(r, "paying") => Payer(r) \in Invoices

\* It stays so: the payment follows the preflight of a call with an invoice.
LEMMA KeysDoNotPayKept ==
    ASSUME Typed, KeysDoNotPay, [Next]_vars
    PROVE  KeysDoNotPay'
  <1> SUFFICES ASSUME NEW r \in Callers, call'[r].stage = "paying"
               PROVE  call'[r].by \in Invoices
    BY DEF KeysDoNotPay, At, Payer
  <1>0. call \in [Callers -> Call] /\ call[r] \in Call
    BY DEF Typed, Calls
  <1>1. CASE call'[r] = call[r]
    BY <1>1 DEF KeysDoNotPay, At, Payer
  <1>2. CASE At(r, "idle")
    <2>1. ASSUME NEW s \in Callers, Serve(s)
          PROVE  call'[r] = call[r]
      <3>1. s # r
        BY <1>2, <2>1 DEF Serve, NotOnChain, FoundOnChain, OverQuota, SkipQuota, NothingToRelease,
               PreflightFails, PreflightPasses, PayRetries, PayRefused, PrepareFails, PreparePasses,
               SubmitFails, SubmitPasses, NoteOnChain, AddReceipt, Reserve, Release, PaySettles, Create,
               StorePrepared, StorePending, StoreFailed, MarkFailed, MarkOk, At
      <3> QED
        BY <1>0, <2>1, <3>1, ServeAdvances DEF Advances
    <2>2. ASSUME NEW s \in Callers, NEW t \in Txs, NEW a \in Payers, Ask(s, t, a)
          PROVE  call'[r].stage # "paying"
      <3>1. CASE r = s
        BY <1>0, <2>2, <3>1 DEF Ask, Idle
      <3>2. CASE r # s
        BY <1>0, <1>2, <2>2, <3>2 DEF Ask, At
      <3> QED
        BY <3>1, <3>2
    <2>3. ~Crash
      BY DEF Crash, Idle
    <2>4. UNCHANGED vars \/ NextPeriod => call'[r] = call[r]
      BY DEF vars, NextPeriod
    <2>5. ASSUME NEW s \in Callers, NEW t \in Txs, AnswerCached(s, t)
          PROVE  call'[r] = call[r]
      BY <2>4, <2>5 DEF AnswerCached
    <2>6. ASSUME NEW p \in Pollers, Poll(p)
          PROVE  call'[r] = call[r]
      BY <2>6, PollTyped
    <2> QED
      BY <1>1, <2>1, <2>2, <2>3, <2>4, <2>5, <2>6 DEF Next, Environment
  <1>3. CASE Serve(r)
    <2>1. PreflightPasses(r)
      <3>1. ~Return(r) /\ \A stage : Goto(r, stage) => stage = "paying"
        BY <1>0 DEF Return, Goto, Idle, Call
      <3>2. call'[r].stage \notin {"reserving", "preflight", "rereleasing", "updating"}
        OBVIOUS
      <3>3. ~NotOnChain(r) /\ ~SubmitPasses(r)
        BY <1>0, <3>1, <3>2 DEF NotOnChain, SubmitPasses, Call
      <3>4. ASSUME NEW ok \in BOOLEAN, Reserve(r, ok) \/ Release(r, ok)
            PROVE  FALSE
        BY <1>0, <3>1, <3>2, <3>4 DEF Reserve, Release, Call
      <3>5. ASSUME \/ FoundOnChain(r) \/ OverQuota(r) \/ SkipQuota(r) \/ NothingToRelease(r)
                   \/ PreflightFails(r) \/ PayRetries(r) \/ PayRefused(r)
                   \/ PrepareFails(r) \/ PreparePasses(r) \/ SubmitFails(r)
            PROVE  FALSE
        BY <3>1, <3>5 DEF FoundOnChain, OverQuota, SkipQuota, NothingToRelease, PreflightFails, PayRetries,
               PayRefused, PrepareFails, PreparePasses, SubmitFails
      <3>6. ASSUME NEW ok \in BOOLEAN,
                   \/ NoteOnChain(r, ok) \/ AddReceipt(r, ok) \/ PaySettles(r, ok) \/ Create(r, ok)
                   \/ StorePrepared(r, ok) \/ StorePending(r, ok) \/ StoreFailed(r, ok) \/ MarkFailed(r, ok)
                   \/ \E p \in Free : MarkOk(r, p, ok)
            PROVE  FALSE
        BY <3>1, <3>6 DEF NoteOnChain, AddReceipt, PaySettles, Create, StorePrepared, StorePending, StoreFailed,
               MarkFailed, MarkOk
      <3> QED
        BY <1>3, <3>3, <3>4, <3>5, <3>6 DEF Serve
    <2>2. Payer(r) \in Invoices /\ call'[r].by = call[r].by
      BY <1>0, <2>1 DEF PreflightPasses, Goto, Call
    <2> QED
      BY <2>2 DEF Payer
  <1>4. CASE call'[r] = Idle
    BY <1>4 DEF Idle
  <1> QED
    BY <1>1, <1>2, <1>3, <1>4, CallsStay

\* The submissions under way and the free places can be counted.
LEMMA PlacesAreFinite ==
    /\ IsFiniteSet(InFlight) /\ Cardinality(InFlight) \in Nat
    /\ IsFiniteSet(Free) /\ Cardinality(Free) \in Nat
    /\ IsFiniteSet(InFlight') /\ Cardinality(InFlight') \in Nat
    /\ IsFiniteSet(Free') /\ Cardinality(Free') \in Nat
  <1>1. /\ InFlight \in SUBSET Callers /\ InFlight' \in SUBSET Callers
        /\ Free \in SUBSET Pollers /\ Free' \in SUBSET Pollers
    BY DEF InFlight, Free
  <1>2. /\ IsFiniteSet(InFlight) /\ IsFiniteSet(InFlight')
        /\ IsFiniteSet(Free) /\ IsFiniteSet(Free')
    BY <1>1, AttestAssumption, FS_Subset
  <1> QED
    BY <1>2, FS_CardinalityType

\* Fewer submissions under way and no place less: there is still room.
LEMMA RoomGrows ==
    ASSUME RoomForPollers, InFlight' \subseteq InFlight, Free \subseteq Free'
    PROVE  RoomForPollers'
  <1>1. InFlight' \in SUBSET InFlight /\ Free \in SUBSET Free'
    OBVIOUS
  <1>2. Cardinality(InFlight') <= Cardinality(InFlight) /\ Cardinality(Free) <= Cardinality(Free')
    BY <1>1, PlacesAreFinite, FS_Subset
  <1>3. Cardinality(InFlight)' = Cardinality(InFlight') /\ Cardinality(Free)' = Cardinality(Free')
    OBVIOUS
  <1> QED
    BY <1>2, <1>3, PlacesAreFinite DEF RoomForPollers

\* A step that is neither the start of a submission nor that of a poller
\* leaves a call outside the two stages between them, or where it was.
LEMMA InFlightShrinks ==
    ASSUME Typed, NEW r \in Callers, Serve(r), ~SubmitPasses(r)
    PROVE  InFlight' \subseteq InFlight
  <1>1. call \in [Callers -> Call] /\ call[r] \in Call
    BY DEF Typed, Calls
  <1>2. \A s \in Callers \ {r} : call'[s] = call[s]
    BY <1>1, ServeAdvances DEF Advances
  <1>3. CASE call[r].stage \in {"updating", "marking"}
    BY <1>2, <1>3 DEF InFlight
  <1>4. CASE call[r].stage \notin {"updating", "marking"}
    <2>1. call'[r].stage \notin {"updating", "marking"}
      <3>1. CASE Return(r)
        BY <1>1, <3>1 DEF Return, Idle
      <3>2. CASE \E stage \in CallStages \ {"updating", "marking"} : Goto(r, stage)
        BY <1>1, <3>2 DEF Goto, Call
      <3>3. CASE NotOnChain(r)
        BY <1>1, <3>3 DEF NotOnChain, Call
      <3>4. CASE \E ok \in BOOLEAN : (Reserve(r, ok) \/ Release(r, ok)) /\ ~Return(r)
        BY <1>1, <3>4 DEF Reserve, Release, Call
      <3>5. ASSUME \/ FoundOnChain(r) \/ OverQuota(r) \/ SkipQuota(r) \/ NothingToRelease(r)
                   \/ PreflightFails(r) \/ PreflightPasses(r) \/ PayRetries(r) \/ PayRefused(r)
                   \/ PrepareFails(r) \/ PreparePasses(r) \/ SubmitFails(r)
            PROVE  Return(r) \/ \E stage \in CallStages \ {"updating", "marking"} : Goto(r, stage)
        BY <3>5 DEF FoundOnChain, OverQuota, SkipQuota, NothingToRelease, PreflightFails, PreflightPasses,
                    PayRetries, PayRefused, PrepareFails, PreparePasses, SubmitFails, CallStages
      <3>6. ASSUME NEW ok \in BOOLEAN,
                   \/ NoteOnChain(r, ok) \/ AddReceipt(r, ok) \/ PaySettles(r, ok) \/ Create(r, ok)
                   \/ StorePrepared(r, ok) \/ StorePending(r, ok) \/ StoreFailed(r, ok) \/ MarkFailed(r, ok)
                   \/ \E p \in Free : MarkOk(r, p, ok)
            PROVE  Return(r) \/ \E stage \in CallStages \ {"updating", "marking"} : Goto(r, stage)
        BY <1>4, <3>6 DEF NoteOnChain, AddReceipt, PaySettles, Create, StorePrepared, StorePending, StoreFailed,
                          MarkFailed, MarkOk, At, CallStages
      <3> QED
        BY <3>1, <3>2, <3>3, <3>4, <3>5, <3>6 DEF Serve
    <2> QED
      BY <1>2, <2>1 DEF InFlight
  <1> QED
    BY <1>3, <1>4

\* There is a place for the poller of each submission under way.
LEMMA RoomKept ==
    ASSUME Typed, RoomForPollers, [Next]_vars
    PROVE  RoomForPollers'
  <1>0. call \in [Callers -> Call] /\ poll \in [Pollers -> Poller]
    BY DEF Typed, Calls, Polls
  <1>1. CASE UNCHANGED <<call, poll>>
    BY <1>1, RoomGrows DEF InFlight, Free
  <1>2. ASSUME NEW s \in Callers, NEW t \in Txs, NEW a \in Payers, Ask(s, t, a)
        PROVE  RoomForPollers'
    <2>1. poll' = poll /\ \A r \in Callers \ {s} : call'[r] = call[r]
      BY <1>0, <1>2 DEF Ask
    <2>2. call'[s].stage \in {"checking", "reserving"}
      BY <1>0, <1>2 DEF Ask, Idle
    <2>3. InFlight' \subseteq InFlight /\ Free \subseteq Free'
      BY <2>1, <2>2 DEF InFlight, Free
    <2> QED
      BY <2>3, RoomGrows
  <1>3. CASE Crash
    <2>1. InFlight' = {} /\ Free' = Pollers
      BY <1>3 DEF Crash, InFlight, Free, Idle, NoPoll
    <2>2. InFlight' \subseteq InFlight /\ Free \subseteq Free'
      BY <2>1 DEF Free
    <2> QED
      BY <2>2, RoomGrows
  <1>4. ASSUME NEW p \in Pollers, Poll(p)
        PROVE  RoomForPollers'
    <2>1. call' = call /\ poll[p].stage # "none"
      BY <1>4, PollTyped DEF Poll, FetchFails, VerifyFails, NoProof, FindProof, VerifyOnChain, NoteError,
                             Deliver, FailPoll
    <2>2. \A q \in Pollers \ {p} : poll'[q] = poll[q]
      BY <1>0, <1>4, PollAdvances
    <2>3. InFlight' \subseteq InFlight /\ Free \subseteq Free'
      BY <2>1, <2>2 DEF InFlight, Free
    <2> QED
      BY <2>3, RoomGrows
  <1>5. ASSUME NEW r \in Callers, SubmitPasses(r)
        PROVE  RoomForPollers'
    <2>1. Free' = Free
      BY <1>5 DEF SubmitPasses, Free
    <2>2. \A s \in Callers \ {r} : call'[s] = call[s]
      BY <1>0, <1>5 DEF SubmitPasses, Goto
    <2>3. InFlight' \in SUBSET (InFlight \cup {r})
      BY <2>2 DEF InFlight
    <2>4. /\ IsFiniteSet(InFlight \cup {r})
          /\ Cardinality(InFlight \cup {r}) <= Cardinality(InFlight) + 1
          /\ Cardinality(InFlight \cup {r}) \in Nat
      <3>1. /\ IsFiniteSet(InFlight \cup {r})
            /\ Cardinality(InFlight \cup {r}) =
                  IF r \in InFlight THEN Cardinality(InFlight) ELSE Cardinality(InFlight) + 1
        BY PlacesAreFinite, FS_AddElement
      <3> QED
        BY <3>1, PlacesAreFinite
    <2>5. Cardinality(InFlight') <= Cardinality(InFlight \cup {r})
      BY <2>3, <2>4, FS_Subset
    <2>6. Cardinality(InFlight) < Cardinality(Free)
      BY <1>5 DEF SubmitPasses
    <2>7. Cardinality(InFlight') <= Cardinality(Free')
      BY <2>1, <2>4, <2>5, <2>6, PlacesAreFinite
    <2>8. Cardinality(InFlight)' = Cardinality(InFlight') /\ Cardinality(Free)' = Cardinality(Free')
      OBVIOUS
    <2> QED
      BY <2>7, <2>8 DEF RoomForPollers
  <1>6. ASSUME NEW r \in Callers, Serve(r), UNCHANGED poll, ~SubmitPasses(r)
        PROVE  RoomForPollers'
    <2>1. InFlight' \subseteq InFlight /\ Free \subseteq Free'
      BY <1>6, InFlightShrinks DEF Free
    <2> QED
      BY <2>1, RoomGrows
  <1>7. ASSUME NEW r \in Callers, NEW p \in Free, NEW ok \in BOOLEAN, MarkOk(r, p, ok), ok,
               poll' = [poll EXCEPT ![p] = [stage |-> "polling", tx |-> Tx(r), attempt |-> 1]]
        PROVE  RoomForPollers'
    <2>1. Free' = Free \ {p}
      BY <1>0, <1>7 DEF Free
    <2>2. call[r].stage = "marking" /\ call' = [call EXCEPT ![r].stage = "answering"]
      BY <1>7 DEF MarkOk, Goto, At
    <2>3. r \in InFlight /\ InFlight' = InFlight \ {r}
      BY <1>0, <2>2 DEF InFlight, Call
    <2>4. /\ Cardinality(Free') = Cardinality(Free) - 1
          /\ Cardinality(InFlight') = Cardinality(InFlight) - 1
      BY <1>7, <2>1, <2>3, PlacesAreFinite, FS_RemoveElement
    <2>5. Cardinality(InFlight)' = Cardinality(InFlight') /\ Cardinality(Free)' = Cardinality(Free')
      OBVIOUS
    <2> QED
      BY <2>4, <2>5, PlacesAreFinite DEF RoomForPollers
  <1>8. ASSUME NEW r \in Callers, Serve(r)
        PROVE  RoomForPollers'
    BY <1>5, <1>6, <1>7, <1>8, ServePolls
  <1>9. \/ UNCHANGED <<call, poll>> \/ Crash
        \/ \E s \in Callers, t \in Txs, a \in Payers : Ask(s, t, a)
        \/ (\E r \in Callers : Serve(r)) \/ (\E p \in Pollers : Poll(p))
    <2>1. UNCHANGED vars => UNCHANGED <<call, poll>>
      BY DEF vars
    <2>2. NextPeriod => UNCHANGED <<call, poll>>
      BY DEF NextPeriod
    <2>3. ASSUME NEW s \in Callers, NEW t \in Txs, AnswerCached(s, t)
          PROVE  UNCHANGED <<call, poll>>
      BY <2>1, <2>3 DEF AnswerCached
    <2> QED
      BY <2>1, <2>2, <2>3 DEF Next, Environment
  <1> QED
    BY <1>1, <1>2, <1>3, <1>4, <1>8, <1>9

\* A call in progress can always take a step: with CallsAdvance, whoever is
\* scheduled fairly is answered.
THEOREM NobodyGetsStuck == Spec => []NobodyStuck
  <1>1. Init => RoomForPollers
    <2> SUFFICES ASSUME Init
                 PROVE  RoomForPollers
      OBVIOUS
    <2>1. InFlight = {}
      BY DEF Init, InFlight, Idle
    <2> QED
      BY <2>1, PlacesAreFinite, FS_EmptySet DEF RoomForPollers
  <1>2. Typed /\ KeysDoNotPay /\ RoomForPollers => NobodyStuck
    <2> SUFFICES ASSUME Typed, KeysDoNotPay, RoomForPollers, NEW r \in Callers, ~At(r, "idle")
                 PROVE  CanGoOn(r)
      BY DEF NobodyStuck
    <2>1. call[r] \in Call /\ Payer(r) \in Payers /\ call[r].period \in Periods /\ used \in Usage
          /\ pay \in [Invoices -> PayStatus]
      BY BusyCall DEF At, Call, Typed, StoreTypes
    <2>2. At(r, "reserving") =>
             \/ Payer(r) \in Keys /\ Taken(r) < Limit[Payer(r)]
             \/ Payer(r) \in Keys /\ Taken(r) >= Limit[Payer(r)]
             \/ Payer(r) \in Invoices
      <3>1. Payer(r) \in Keys => Taken(r) \in Nat
        BY <2>1, UsageTypes DEF Taken
      <3>2. Payer(r) \in Keys => Limit[Payer(r)] \in Nat
        BY AttestAssumption
      <3> QED
        BY <2>1, <3>1, <3>2 DEF Payers
    <2>3. At(r, "paying") => Payer(r) \in Invoices
      BY DEF KeysDoNotPay
    <2>4. At(r, "marking") => Free # {}
      <3> SUFFICES ASSUME At(r, "marking"), Free = {}
                   PROVE  FALSE
        OBVIOUS
      <3>1. Cardinality(Free) = 0 /\ r \in InFlight
        BY FS_EmptySet DEF At, InFlight
      <3>2. Cardinality(InFlight) = 0
        BY <3>1, PlacesAreFinite DEF RoomForPollers
      <3> QED
        BY <3>1, <3>2, PlacesAreFinite, FS_EmptySet
    <2> QED
      BY <2>1, <2>2, <2>3, <2>4 DEF CanGoOn, PayStatus
  <1>3. Init => KeysDoNotPay
    BY DEF Init, KeysDoNotPay, At, Idle
  <1>4. Typed /\ KeysDoNotPay /\ RoomForPollers /\ [Next]_vars
           => Typed' /\ KeysDoNotPay' /\ RoomForPollers'
    BY StepKinds, RoomKept, KeysDoNotPayKept
  <1> QED
    BY <1>1, <1>2, <1>3, <1>4, InitTyped, PTL DEF Spec
=============================================================================
