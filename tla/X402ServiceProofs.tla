------------------------- MODULE X402ServiceProofs --------------------------
(***************************************************************************)
(* Theorems about X402Service, for every set of invoices, payloads and     *)
(* clients and every number of crashes and failed writes.  First the types *)
(* and the invoice lock, then the inductive invariant IInv and what follows *)
(* from it, then the refinement of PaymentBook, then the line of those who *)
(* wait for an invoice.                                                    *)
(***************************************************************************)
EXTENDS X402Service, SequenceTheorems, TLAPS

\* What the lock, the stage changes and the file writes do to their variables.
LEMMA GotoTypes ==
    ASSUME RequestTypes, NEW r \in Requests, NEW stage \in Stages,
           req[r].stage # "idle", Goto(r, stage)
    PROVE  /\ req' \in [Requests -> Req]
           /\ \A s \in Requests : req'[s].stage # "idle"
                => req'[s].pay \in Payloads /\ req'[s].want \in Txs
  BY DEF RequestTypes, Goto, Req

\* A request that ends is idle.
LEMMA FinishTypes ==
    ASSUME RequestTypes, NEW r \in Requests, Finish(r)
    PROVE  /\ req' \in [Requests -> Req]
           /\ \A s \in Requests : req'[s].stage # "idle"
                => req'[s].pay \in Payloads /\ req'[s].want \in Txs
  BY DEF RequestTypes, Finish, Req, Idle, Stages

\* withInvoiceLock: the rest of the promise chain is a promise chain.
LEMMA ReleaseTypes ==
    ASSUME RequestTypes, NEW r \in Requests, Inv(r) \in Invoices,
           lockq[Inv(r)] # <<>>, Release(r)
    PROVE  lockq' \in [Invoices -> Seq(Requests)]
  <1>1. Tail(lockq[Inv(r)]) \in Seq(Requests)
    BY HeadTailProperties DEF RequestTypes
  <1>2. QED
    BY <1>1 DEF RequestTypes, Release

\* A request in progress is about one invoice.
LEMMA InvType ==
    ASSUME RequestTypes, NEW r \in Requests, req[r].stage # "idle"
    PROVE  Inv(r) \in Invoices
  BY ConstantsAssumption DEF RequestTypes, Inv

\* persistUnlocked keeps the maps and the file within their types.
LEMMA SaveTypes ==
    ASSUME StateTypes, HistoryTypes, NEW q \in SUBSET Invoices, NEW p \in [Invoices -> Record],
           NEW u \in SUBSET Payloads, NEW ok \in BOOLEAN, Save(q, p, u, ok)
    PROVE  StateTypes' /\ diskErrors' \in 0..MaxDiskErrors
  <1>1. quotes' \in SUBSET Invoices /\ payments' \in [Invoices -> Record] /\ used' \in SUBSET Payloads
    BY DEF Save
  <1>2. disk' \in Book
    BY <1>1 DEF Save, StateTypes, Book
  <1>3. diskErrors' \in 0..MaxDiskErrors
    BY ConstantsAssumption DEF Save, CanWrite, CountWrite, HistoryTypes
  <1>4. QED
    BY <1>1, <1>2, <1>3 DEF StateTypes

\* How a request's move preserves the request types and the lock.
LEMMA StayStep ==
    ASSUME RequestTypes, LockHeld, NEW r \in Requests, NEW stage \in Stages,
           req[r].stage # "idle", Goto(r, stage), UNCHANGED lockq,
           stage \in Locked => lockq[Inv(r)] # <<>> /\ Head(lockq[Inv(r)]) = r
    PROVE  RequestTypes' /\ LockHeld'
  <1>1. RequestTypes'
    BY GotoTypes DEF RequestTypes
  <1>2. req' = [req EXCEPT ![r].stage = stage] /\ req \in [Requests -> Req]
    BY DEF Goto, RequestTypes
  <1>3. ASSUME NEW s \in Requests, req'[s].stage \in Locked
        PROVE  lockq'[Inv(s)'] # <<>> /\ Head(lockq'[Inv(s)']) = s
    <2>1. Inv(s)' = Inv(s)
      BY <1>2 DEF Inv, Req
    <2>2. CASE s = r
      BY <1>2, <1>3, <2>1, <2>2 DEF Req
    <2>3. CASE s # r
      BY <1>2, <1>3, <2>1, <2>3 DEF LockHeld
    <2>4. QED
      BY <2>2, <2>3
  <1>4. QED
    BY <1>1, <1>3 DEF LockHeld

\* A request past the lock ends without touching the queues.
LEMMA EndStep ==
    ASSUME RequestTypes, LockHeld, NEW r \in Requests, Finish(r), UNCHANGED lockq
    PROVE  RequestTypes' /\ LockHeld'
  <1>1. RequestTypes'
    BY FinishTypes DEF RequestTypes
  <1>2. ASSUME NEW s \in Requests, req'[s].stage \in Locked
        PROVE  s # r /\ req'[s] = req[s]
    BY <1>2 DEF Finish, RequestTypes, Idle, Locked
  <1>3. QED
    BY <1>1, <1>2 DEF LockHeld, Inv

\* The request that leaves was the head of its queue, so no other request is
\* in a locked stage on the same invoice.
LEMMA LeaveStep ==
    ASSUME RequestTypes, LockHeld, NEW r \in Requests, req[r].stage # "idle",
           lockq[Inv(r)] # <<>>, Head(lockq[Inv(r)]) = r,
           Refuse(r) \/ Authorize(r)
    PROVE  RequestTypes' /\ LockHeld'
  <1>1. Inv(r) \in Invoices
    BY InvType
  <1>2. Release(r) /\ (Finish(r) \/ Goto(r, "authorized"))
    BY DEF Refuse, Authorize
  <1>3. RequestTypes'
    <2>1. lockq' \in [Invoices -> Seq(Requests)]
      BY <1>1, <1>2, ReleaseTypes
    <2>2. CASE Finish(r)
      BY <2>1, <2>2, FinishTypes DEF RequestTypes
    <2>3. CASE Goto(r, "authorized")
      BY <2>1, <2>3, GotoTypes DEF RequestTypes, Stages
    <2>4. QED
      BY <1>2, <2>2, <2>3
  <1>4. ASSUME NEW s \in Requests, req'[s].stage \in Locked
        PROVE  lockq'[Inv(s)'] # <<>> /\ Head(lockq'[Inv(s)']) = s
    <2>1. s # r /\ req'[s] = req[s]
      BY <1>2, <1>4 DEF Finish, Goto, RequestTypes, Req, Idle, Locked
    <2>2. lockq[Inv(s)] # <<>> /\ Head(lockq[Inv(s)]) = s
      BY <1>4, <2>1 DEF LockHeld
    <2>3. Inv(s) # Inv(r) /\ Inv(s)' = Inv(s)
      BY <2>1, <2>2 DEF Inv
    <2>4. lockq'[Inv(s)] = lockq[Inv(s)]
      BY <1>2, <2>3 DEF Release, RequestTypes
    <2>5. QED
      BY <2>2, <2>3, <2>4
  <1>5. QED
    BY <1>3, <1>4 DEF LockHeld

\* A request that arrives joins the end of the queue: who held the lock holds it.
LEMMA PresentStep ==
    ASSUME RequestTypes, LockHeld, NEW r \in Requests, NEW p \in Payloads, NEW t \in Txs,
           Present(r, p, t)
    PROVE  RequestTypes' /\ LockHeld'
  <1> DEFINE i == ClaimOf[p]
  <1>1. i \in Invoices /\ lockq[i] \in Seq(Requests)
    BY ConstantsAssumption DEF RequestTypes
  <1>2. /\ Append(lockq[i], r) \in Seq(Requests)
        /\ Append(lockq[i], r) # <<>>
        /\ lockq[i] # <<>> => Head(Append(lockq[i], r)) = Head(lockq[i])
    BY <1>1, HeadTailAppend, AppendProperties
  <1>3. lockq' = [lockq EXCEPT ![i] = Append(lockq[i], r)]
    BY DEF Present
  <1>4. RequestTypes'
    <2>1. lockq' \in [Invoices -> Seq(Requests)]
      BY <1>2, <1>3 DEF RequestTypes
    <2>2. /\ req' \in [Requests -> Req]
          /\ \A s \in Requests : req'[s].stage # "idle"
                => req'[s].pay \in Payloads /\ req'[s].want \in Txs
      BY DEF Present, RequestTypes, Req, Stages
    <2>3. QED
      BY <2>1, <2>2 DEF RequestTypes
  <1>5. ASSUME NEW s \in Requests, req'[s].stage \in Locked
        PROVE  lockq'[Inv(s)'] # <<>> /\ Head(lockq'[Inv(s)']) = s
    <2>1. s # r /\ req'[s] = req[s]
      BY <1>5 DEF Present, RequestTypes, Locked
    <2>2. lockq[Inv(s)] # <<>> /\ Head(lockq[Inv(s)]) = s /\ Inv(s)' = Inv(s)
      BY <1>5, <2>1 DEF LockHeld, Inv
    <2>3. CASE Inv(s) = i
      BY <1>1, <1>2, <1>3, <2>2, <2>3 DEF RequestTypes
    <2>4. CASE Inv(s) # i
      BY <1>3, <2>2, <2>4 DEF RequestTypes
    <2>5. QED
      BY <2>3, <2>4
  <1>6. QED
    BY <1>4, <1>5 DEF LockHeld

\* markPaymentFdcOk and markPaymentFdcFailed keep the types.
LEMMA MarkTypes ==
    ASSUME StateTypes, HistoryTypes, RequestTypes, NEW r \in Requests, NEW status \in Status,
           NEW ok \in BOOLEAN, Mark(r, status, ok)
    PROVE  StateTypes' /\ diskErrors' \in 0..MaxDiskErrors
  <1> DEFINE p == IF payments[Inv(r)].status = "none" THEN payments
                  ELSE [payments EXCEPT ![Inv(r)].status = status]
  <1>1. p \in [Invoices -> Record] /\ used \in SUBSET Payloads /\ quotes \in SUBSET Invoices
    BY DEF StateTypes, Record
  <1>2. QED
    BY <1>1, SaveTypes DEF Mark

-----------------------------------------------------------------------------
(***************************************************************************)
(* Types and the invoice lock.                                             *)
(***************************************************************************)
\* The types and the lock at the start.
LEMMA InitTypesAndLock == Init => TypeOK /\ LockHeld
  <1> SUFFICES ASSUME Init PROVE TypeOK /\ LockHeld
    OBVIOUS
  <1>1. StateTypes
    BY DEF Init, StateTypes, Book, Record, NoRecord, Status
  <1>2. RequestTypes
    BY DEF Init, RequestTypes, Req, Idle, Stages
  <1>3. WorldTypes
    BY DEF Init, WorldTypes
  <1>4. HistoryTypes
    BY ConstantsAssumption DEF Init, HistoryTypes
  <1>5. LockHeld
    BY DEF Init, LockHeld, Idle, Locked
  <1>6. QED
    BY <1>1, <1>2, <1>3, <1>4, <1>5 DEF TypeOK

\* Every step keeps the types and the lock.
LEMMA NextTypesAndLock ==
    ASSUME TypeOK, LockHeld, [Next]_vars
    PROVE  TypeOK' /\ LockHeld'
  <1> USE DEF TypeOK
  <1>1. ASSUME NEW i \in Invoices, NEW t \in Txs, NEW ok \in BOOLEAN, CreateQuote(i, t, ok)
        PROVE  TypeOK' /\ LockHeld'
    <2> DEFINE q == quotes \cup {i}
               p == [payments EXCEPT ![i] = [status |-> "quoted", tx |-> t, by |-> NoPayload]]
    <2>1. q \in SUBSET Invoices /\ p \in [Invoices -> Record] /\ used \in SUBSET Payloads
      BY DEF StateTypes, Record, Status
    <2>a. Save(q, p, used, ok)
      BY <1>1 DEF CreateQuote
    <2> HIDE DEF q, p
    <2>2. StateTypes' /\ diskErrors' \in 0..MaxDiskErrors
      BY <2>a, <2>1, SaveTypes
    <2>3. WorldTypes'
      BY <1>1 DEF CreateQuote, WorldTypes
    <2>4. HistoryTypes'
      BY <1>1, <2>2 DEF CreateQuote, HistoryTypes, histVars
    <2>5. RequestTypes' /\ LockHeld'
      BY <1>1 DEF CreateQuote, RequestTypes, LockHeld, Inv
    <2>6. QED
      BY <2>2, <2>3, <2>4, <2>5
  <1>2. ASSUME NEW i \in Invoices, Expire(i)
        PROVE  TypeOK' /\ LockHeld'
    <2>1. WorldTypes'
      BY <1>2 DEF Expire, WorldTypes
    <2>2. StateTypes' /\ HistoryTypes'
      BY <1>2 DEF Expire, StateTypes, HistoryTypes, stateVars, histVars
    <2>3. RequestTypes' /\ LockHeld'
      BY <1>2 DEF Expire, RequestTypes, LockHeld, Inv
    <2>4. QED
      BY <2>1, <2>2, <2>3
  <1>3. ASSUME NEW r \in Requests, NEW p \in Payloads, NEW t \in Txs, Present(r, p, t)
        PROVE  TypeOK' /\ LockHeld'
    <2>1. RequestTypes' /\ LockHeld'
      BY <1>3, PresentStep
    <2>2. StateTypes' /\ WorldTypes' /\ HistoryTypes'
      BY <1>3 DEF Present, StateTypes, WorldTypes, HistoryTypes, stateVars, worldVars, histVars
    <2>3. QED
      BY <2>1, <2>2
  <1>4. ASSUME NEW p \in Payloads, LedgerApply(p)
        PROVE  TypeOK' /\ LockHeld'
    <2>1. WorldTypes'
      BY <1>4 DEF LedgerApply, WorldTypes
    <2>2. StateTypes' /\ HistoryTypes'
      BY <1>4 DEF LedgerApply, StateTypes, HistoryTypes, stateVars, histVars
    <2>3. RequestTypes' /\ LockHeld'
      BY <1>4 DEF LedgerApply, RequestTypes, LockHeld, Inv
    <2>4. QED
      BY <2>1, <2>2, <2>3
  <1>5. ASSUME Crash
        PROVE  TypeOK' /\ LockHeld'
    <2>1. StateTypes'
      BY <1>5 DEF Crash, StateTypes, Book
    <2>2. RequestTypes' /\ LockHeld'
      BY <1>5 DEF Crash, RequestTypes, LockHeld, Req, Idle, Stages, Locked
    <2>3. WorldTypes' /\ HistoryTypes'
      BY <1>5, ConstantsAssumption DEF Crash, WorldTypes, HistoryTypes, worldVars
    <2>4. QED
      BY <2>1, <2>2, <2>3
  <1>6. ASSUME NEW r \in Requests, RejectOtherTx(r)
        PROVE  TypeOK' /\ LockHeld'
    <2>1. RequestTypes' /\ LockHeld'
      BY <1>6, LeaveStep DEF RejectOtherTx, HasTurn
    <2>2. StateTypes' /\ WorldTypes' /\ HistoryTypes'
      BY <1>6 DEF RejectOtherTx, StateTypes, WorldTypes, HistoryTypes, stateVars, worldVars, histVars
    <2>3. QED
      BY <2>1, <2>2
  <1>7. ASSUME NEW r \in Requests, RejectReplay(r)
        PROVE  TypeOK' /\ LockHeld'
    <2>1. RequestTypes' /\ LockHeld'
      BY <1>7, LeaveStep DEF RejectReplay, HasTurn
    <2>2. StateTypes' /\ WorldTypes' /\ HistoryTypes'
      BY <1>7 DEF RejectReplay, StateTypes, WorldTypes, HistoryTypes, stateVars, worldVars, histVars
    <2>3. QED
      BY <2>1, <2>2
  <1>8. ASSUME NEW r \in Requests, RetryFdc(r)
        PROVE  TypeOK' /\ LockHeld'
    <2>1. RequestTypes' /\ LockHeld'
      BY <1>8, LeaveStep DEF RetryFdc, HasTurn
    <2>2. StateTypes' /\ WorldTypes' /\ HistoryTypes'
      BY <1>8 DEF RetryFdc, StateTypes, WorldTypes, HistoryTypes, stateVars, worldVars, histVars
    <2>3. QED
      BY <2>1, <2>2
  <1>9. ASSUME NEW r \in Requests, RejectNoQuote(r)
        PROVE  TypeOK' /\ LockHeld'
    <2>1. RequestTypes' /\ LockHeld'
      BY <1>9, LeaveStep DEF RejectNoQuote, HasTurn, Unpaid
    <2>2. StateTypes' /\ WorldTypes' /\ HistoryTypes'
      BY <1>9 DEF RejectNoQuote, StateTypes, WorldTypes, HistoryTypes, stateVars, worldVars, histVars, PruneInMemory
    <2>3. QED
      BY <2>1, <2>2
  <1>10. ASSUME NEW r \in Requests, RejectAsset(r)
        PROVE  TypeOK' /\ LockHeld'
    <2>1. RequestTypes' /\ LockHeld'
      BY <1>10, LeaveStep DEF RejectAsset, HasTurn, Unpaid
    <2>2. StateTypes' /\ WorldTypes' /\ HistoryTypes'
      BY <1>10 DEF RejectAsset, StateTypes, WorldTypes, HistoryTypes, stateVars, worldVars, histVars, PruneInMemory
    <2>3. QED
      BY <2>1, <2>2
  <1>11. ASSUME NEW r \in Requests, StartVerify(r)
        PROVE  TypeOK' /\ LockHeld'
    <2>1. RequestTypes' /\ LockHeld'
      BY <1>11, StayStep DEF StartVerify, Unpaid, HasTurn, Stages
    <2>2. StateTypes' /\ WorldTypes' /\ HistoryTypes'
      BY <1>11 DEF StartVerify, StateTypes, WorldTypes, HistoryTypes, stateVars, worldVars, histVars, PruneInMemory
    <2>3. QED
      BY <2>1, <2>2
  <1>12. ASSUME NEW r \in Requests, VerifyFails(r)
        PROVE  TypeOK' /\ LockHeld'
    <2>1. RequestTypes' /\ LockHeld'
      BY <1>12, LeaveStep DEF VerifyFails, LockHeld, Locked
    <2>2. StateTypes' /\ WorldTypes' /\ HistoryTypes'
      BY <1>12 DEF VerifyFails, StateTypes, WorldTypes, HistoryTypes, stateVars, worldVars, histVars
    <2>3. QED
      BY <2>1, <2>2
  <1>13. ASSUME NEW r \in Requests, SettleFails(r)
        PROVE  TypeOK' /\ LockHeld'
    <2>1. RequestTypes' /\ LockHeld'
      BY <1>13, LeaveStep DEF SettleFails, GiveUpSettlement, LockHeld, Locked
    <2>2. StateTypes' /\ WorldTypes' /\ HistoryTypes'
      BY <1>13, InvType DEF SettleFails, GiveUpSettlement, StateTypes, WorldTypes, HistoryTypes, stateVars, worldVars
    <2>3. QED
      BY <2>1, <2>2
  <1>14. ASSUME NEW r \in Requests, ConfirmFails(r)
        PROVE  TypeOK' /\ LockHeld'
    <2>1. RequestTypes' /\ LockHeld'
      BY <1>14, LeaveStep DEF ConfirmFails, GiveUpSettlement, LockHeld, Locked
    <2>2. StateTypes' /\ WorldTypes' /\ HistoryTypes'
      BY <1>14, InvType DEF ConfirmFails, GiveUpSettlement, StateTypes, WorldTypes, HistoryTypes, stateVars, worldVars
    <2>3. QED
      BY <2>1, <2>2
  <1>15. ASSUME NEW r \in Requests, VerifyPasses(r)
        PROVE  TypeOK' /\ LockHeld'
    <2>1. RequestTypes' /\ LockHeld'
      BY <1>15, StayStep DEF VerifyPasses, Stages, LockHeld, Locked
    <2>2. WorldTypes'
      BY <1>15 DEF VerifyPasses, WorldTypes, RequestTypes
    <2>3. StateTypes' /\ HistoryTypes'
      BY <1>15 DEF VerifyPasses, StateTypes, HistoryTypes, stateVars, histVars
    <2>4. QED
      BY <2>1, <2>2, <2>3
  <1>16. ASSUME NEW r \in Requests, NEW q \in Payloads \cup {NoPayload}, SettleSucceeds(r, q)
        PROVE  TypeOK' /\ LockHeld'
    <2>1. req' = [req EXCEPT ![r].named = q, ![r].stage = "confirming"] /\ lockq' = lockq
      BY <1>16 DEF SettleSucceeds
    <2>2. RequestTypes'
      BY <1>16, <2>1 DEF SettleSucceeds, RequestTypes, Req, Stages
    <2>3. ASSUME NEW s \in Requests
          PROVE  Inv(s)' = Inv(s) /\ (req'[s].stage \in Locked => req[s].stage \in Locked)
      BY <1>16, <2>1 DEF SettleSucceeds, RequestTypes, Req, Inv, Locked
    <2>4. LockHeld'
      BY <2>1, <2>3 DEF LockHeld
    <2>5. StateTypes' /\ WorldTypes' /\ HistoryTypes'
      BY <1>16 DEF SettleSucceeds, StateTypes, WorldTypes, HistoryTypes, stateVars, worldVars, histVars
    <2>6. QED
      BY <2>2, <2>4, <2>5
  <1>17. ASSUME NEW r \in Requests, ConfirmPasses(r)
        PROVE  TypeOK' /\ LockHeld'
    <2>1. RequestTypes' /\ LockHeld'
      BY <1>17, StayStep DEF ConfirmPasses, Stages, LockHeld, Locked
    <2>2. StateTypes' /\ WorldTypes' /\ HistoryTypes'
      BY <1>17 DEF ConfirmPasses, StateTypes, WorldTypes, HistoryTypes, stateVars, worldVars, histVars
    <2>3. QED
      BY <2>1, <2>2
  <1>18. ASSUME NEW r \in Requests, NEW ok \in BOOLEAN, RecordPayment(r, ok)
        PROVE  TypeOK' /\ LockHeld'
    <2> DEFINE p == [payments EXCEPT ![Inv(r)] =
                       [status |-> "settled", tx |-> req[r].want, by |-> req[r].named]]
               u == used \cup {req[r].pay}
    <2>1. req[r].stage = "recording" /\ Save(quotes, p, u, ok)
      BY <1>18 DEF RecordPayment
    <2>2. p \in [Invoices -> Record] /\ u \in SUBSET Payloads /\ quotes \in SUBSET Invoices
      BY <2>1 DEF StateTypes, RequestTypes, Req, Record, Status
    <2> HIDE DEF p, u
    <2>3. StateTypes' /\ diskErrors' \in 0..MaxDiskErrors
      BY <2>1, <2>2, SaveTypes
    <2>4. lockq[Inv(r)] # <<>> /\ Head(lockq[Inv(r)]) = r
      BY <2>1 DEF LockHeld, Locked
    <2>5. RequestTypes' /\ LockHeld'
      <3>1. CASE ok
        BY <1>18, <2>1, <2>4, <3>1, StayStep DEF RecordPayment, Stages
      <3>2. CASE ~ok
        BY <1>18, <2>1, <2>4, <3>2, LeaveStep DEF RecordPayment
      <3>3. QED
        BY <3>1, <3>2
    <2>6. WorldTypes' /\ HistoryTypes'
      BY <1>18, <2>3 DEF RecordPayment, WorldTypes, HistoryTypes, worldVars, histVars
    <2>7. QED
      BY <2>3, <2>5, <2>6
  <1>19. ASSUME NEW r \in Requests, NEW ok \in BOOLEAN, LogSettlement(r, ok)
        PROVE  TypeOK' /\ LockHeld'
    <2>1. RequestTypes' /\ LockHeld'
      BY <1>19, LeaveStep DEF LogSettlement, LockHeld, Locked
    <2>2. StateTypes' /\ WorldTypes'
      BY <1>19 DEF LogSettlement, StateTypes, WorldTypes, worldVars
    <2>3. HistoryTypes'
      <3>1. logged' \in [Invoices -> Nat]
        <4>1. /\ logged' = IF ok THEN [logged EXCEPT ![Inv(r)] = logged[Inv(r)] + 1] ELSE logged
              /\ logged \in [Invoices -> Nat]
              /\ Inv(r) \in Invoices
          BY <1>19, InvType DEF LogSettlement, HistoryTypes
        <4>2. CASE ok
          BY <4>1, <4>2
        <4>3. CASE ~ok
          BY <4>1, <4>3
        <4>4. QED
          BY <4>2, <4>3
      <3>2. diskErrors' \in 0..MaxDiskErrors
        BY <1>19, ConstantsAssumption DEF LogSettlement, CanWrite, CountWrite, HistoryTypes
      <3>3. QED
        BY <1>19, <3>1, <3>2 DEF LogSettlement, HistoryTypes
    <2>4. QED
      BY <2>1, <2>2, <2>3
  <1>20. ASSUME NEW r \in Requests, AbandonSubmit(r)
        PROVE  TypeOK' /\ LockHeld'
    <2>1. RequestTypes' /\ LockHeld'
      BY <1>20, EndStep DEF AbandonSubmit
    <2>2. StateTypes' /\ WorldTypes' /\ HistoryTypes'
      BY <1>20 DEF AbandonSubmit, StateTypes, WorldTypes, HistoryTypes, stateVars, worldVars, histVars
    <2>3. QED
      BY <2>1, <2>2
  <1>21. ASSUME NEW r \in Requests, FdcAccepts(r)
        PROVE  TypeOK' /\ LockHeld'
    <2>1. RequestTypes' /\ LockHeld'
      BY <1>21, StayStep DEF FdcAccepts, Stages, Locked
    <2>2. StateTypes' /\ WorldTypes'
      BY <1>21 DEF FdcAccepts, StateTypes, WorldTypes, stateVars, worldVars
    <2>3. HistoryTypes'
      <3>1. Inv(r) \in Invoices
        BY <1>21, InvType DEF FdcAccepts
      <3>2. attested[Inv(r)] + 1 \in 0..MaxAttested
        BY <1>21, <3>1, ConstantsAssumption DEF FdcAccepts, HistoryTypes
      <3>3. attested' \in [Invoices -> 0..MaxAttested]
        BY <1>21, <3>2 DEF FdcAccepts, HistoryTypes
      <3>4. QED
        BY <1>21, <3>3 DEF FdcAccepts, HistoryTypes, stateVars
    <2>4. QED
      BY <2>1, <2>2, <2>3
  <1>22. ASSUME NEW r \in Requests, FdcRejects(r)
        PROVE  TypeOK' /\ LockHeld'
    <2>1. RequestTypes' /\ LockHeld'
      BY <1>22, StayStep DEF FdcRejects, Stages, Locked
    <2>2. StateTypes' /\ WorldTypes' /\ HistoryTypes'
      BY <1>22 DEF FdcRejects, StateTypes, WorldTypes, HistoryTypes, stateVars, worldVars, histVars
    <2>3. QED
      BY <2>1, <2>2
  <1>23. ASSUME NEW r \in Requests, NEW ok \in BOOLEAN, MarkFdcOk(r, ok)
        PROVE  TypeOK' /\ LockHeld'
    <2>1. StateTypes' /\ diskErrors' \in 0..MaxDiskErrors
      BY <1>23, MarkTypes DEF MarkFdcOk, Status
    <2>2. RequestTypes' /\ LockHeld'
      BY <1>23, StayStep, EndStep DEF MarkFdcOk, Stages, Locked
    <2>3. WorldTypes' /\ HistoryTypes'
      BY <1>23, <2>1 DEF MarkFdcOk, WorldTypes, HistoryTypes, worldVars, histVars
    <2>4. QED
      BY <2>1, <2>2, <2>3
  <1>24. ASSUME NEW r \in Requests, NEW ok \in BOOLEAN, MarkFdcFailed(r, ok)
        PROVE  TypeOK' /\ LockHeld'
    <2>1. StateTypes' /\ diskErrors' \in 0..MaxDiskErrors
      BY <1>24, MarkTypes DEF MarkFdcFailed, Status
    <2>2. RequestTypes' /\ LockHeld'
      BY <1>24, EndStep DEF MarkFdcFailed
    <2>3. WorldTypes' /\ HistoryTypes'
      BY <1>24, <2>1 DEF MarkFdcFailed, WorldTypes, HistoryTypes, worldVars, histVars
    <2>4. QED
      BY <2>1, <2>2, <2>3
  <1>25. CASE UNCHANGED vars
    <2>1. StateTypes' /\ WorldTypes' /\ HistoryTypes'
      BY <1>25 DEF vars, StateTypes, WorldTypes, HistoryTypes, stateVars, worldVars, histVars
    <2>2. RequestTypes' /\ LockHeld'
      BY <1>25 DEF vars, RequestTypes, LockHeld, Inv
    <2>3. QED
      BY <2>1, <2>2
  <1>26. QED
    BY <1>1, <1>2, <1>3, <1>4, <1>5, <1>6, <1>7, <1>8, <1>9, <1>10, <1>11, <1>12, <1>13, <1>14, <1>15, <1>16, <1>17, <1>18, <1>19, <1>20, <1>21, <1>22, <1>23, <1>24, <1>25
       DEF Next, Environment, Serve

\* Every variable keeps its type, and a request between verify and the
\* settlement log is the head of its invoice's queue.
THEOREM TypeCorrect == Spec => [](TypeOK /\ LockHeld)
  BY InitTypesAndLock, NextTypesAndLock, PTL DEF Spec

\* The invoice lock excludes.
THEOREM LockIsExclusive == Spec => []InvoiceLockExclusive
  <1>1. LockHeld => InvoiceLockExclusive
    BY DEF LockHeld, InvoiceLockExclusive
  <1>2. QED
    BY <1>1, TypeCorrect, PTL

-----------------------------------------------------------------------------
(***************************************************************************)
(* Payments.  The invariant is grouped by the variables it reads: the maps *)
(* and the file, the requests, and the settlements on their way.           *)
(***************************************************************************)
BookInv    == PaidIsBacked /\ UsedIsPaid /\ MemoryAhead /\ QuotesKnown /\ LoggedOnce
SettleInv  == SettlementTracked /\ OneSettlePerInvoice

InFlight == {"settling", "confirming", "recording"}

\* What one request may rely on, by its stage.
Knows(s) ==
    /\ req[s].stage \in Locked => AssetOf[req[s].pay] \in Accepts
    /\ req[s].stage = "recording" => Settles(req[s].named, req[s].pay)
    /\ req[s].stage \in {"verifying", "settling", "confirming", "recording"}
          => payments[Inv(s)].status = "quoted"
    /\ req[s].stage \in {"logging", "authorized", "accepted", "rejected"}
          => Paid(payments, Inv(s)) /\ payments[Inv(s)].tx = req[s].want
    /\ req[s].stage = "logging" => logged[Inv(s)] = 0 /\ Paid(disk.payments, Inv(s))

RequestInv == \A s \in Requests : Knows(s)

\* What each request knows, put together again as the named properties.
LEMMA RequestInvParts ==
    RequestInv <=> Checked /\ SettlesOnlyUnpaid /\ AuthorizedIsPaid /\ LogPending
  BY DEF RequestInv, Knows, Checked, SettlesOnlyUnpaid, AuthorizedIsPaid, LogPending

\* A step that leaves the maps and the file alone keeps the book right.
LEMMA BookKept ==
    ASSUME StateTypes, BookInv, quotes' \subseteq quotes, UNCHANGED <<payments, used, disk, logged>>,
           applied \subseteq applied'
    PROVE  BookInv'
  <1>1. PaidIsBacked'
    BY DEF BookInv, PaidIsBacked, Backed, Paid
  <1>2. UsedIsPaid'
    BY DEF BookInv, UsedIsPaid, Paid
  <1>3. MemoryAhead'
    BY DEF BookInv, MemoryAhead, Paid
  <1>4. QuotesKnown'
    BY DEF BookInv, QuotesKnown
  <1>5. LoggedOnce'
    BY DEF BookInv, LoggedOnce, Paid
  <1>6. QED
    BY <1>1, <1>2, <1>3, <1>4, <1>5 DEF BookInv

\* A write keeps the book right when the new records are no less than the old.
LEMMA SaveBook ==
    ASSUME StateTypes, BookInv,
           NEW q \in SUBSET Invoices, NEW p \in [Invoices -> Record],
           NEW u \in SUBSET Payloads, NEW ok \in BOOLEAN, Save(q, p, u, ok),
           UNCHANGED <<applied, logged>>,
           \A i \in Invoices : payments[i].status # "none" => p[i].status # "none",
           \A i \in Invoices : Paid(payments, i) => Paid(p, i),
           \A i \in Invoices : Backed(p, i),
           \A x \in u : Paid(p, ClaimOf[x]),
           \A i \in q : p[i].status # "none"
    PROVE  BookInv'
  <1>1. /\ quotes' = q \ Expired /\ payments' = p /\ used' = u
        /\ \/ disk' = [quotes |-> q \ Expired, payments |-> p, used |-> u]
           \/ disk' = disk
    BY DEF Save
  <1>2. /\ disk'.payments \in {p, disk.payments}
        /\ disk'.payments = p => disk'.used = u \/ disk'.used = disk.used
        /\ \/ disk'.payments = p /\ disk'.used = u /\ disk'.quotes = q \ Expired
           \/ disk' = disk
    BY <1>1
  <1>3. PaidIsBacked'
    BY <1>1, <1>2 DEF BookInv, PaidIsBacked, Backed, Paid
  <1>4. UsedIsPaid'
    BY <1>1, <1>2 DEF BookInv, UsedIsPaid, Paid
  <1>5. MemoryAhead'
    BY <1>1, <1>2 DEF BookInv, MemoryAhead, Paid
  <1>6. QuotesKnown'
    BY <1>1, <1>2 DEF BookInv, QuotesKnown
  <1>7. LoggedOnce'
    <2>1. \A i \in Invoices : Paid(disk.payments, i) => Paid(p, i)
      BY DEF BookInv, MemoryAhead
    <2>2. CASE disk'.payments = p
      BY <2>1, <2>2 DEF BookInv, LoggedOnce, Paid
    <2>3. CASE disk' = disk
      BY <2>3 DEF BookInv, LoggedOnce, Paid
    <2>4. QED
      BY <1>2, <2>2, <2>3
  <1>8. QED
    BY <1>3, <1>4, <1>5, <1>6, <1>7 DEF BookInv

\* The other requests keep what they know as long as the maps do.
LEMMA KnowsKept ==
    ASSUME NEW s \in Requests, Knows(s), req'[s] = req[s],
           UNCHANGED <<payments, disk, logged>>, applied \subseteq applied'
    PROVE  Knows(s)'
  <1>1. Inv(s)' = Inv(s)
    BY DEF Inv
  <1>2. req[s].stage = "recording" => Settles(req[s].named, req[s].pay)'
    BY DEF Knows, Settles
  <1>3. QED
    BY <1>1, <1>2 DEF Knows, Paid

\* A waiting request, or none at all, has checked nothing yet.
LEMMA KnowsNothing ==
    ASSUME NEW s \in Requests, req'[s].stage \in {"idle", "waiting"}
    PROVE  Knows(s)'
  BY DEF Knows, Locked

\* One request moved, the maps did not: the others know what they knew.
LEMMA RequestsKept ==
    ASSUME RequestInv, \A s \in Requests : req'[s] = req[s] \/ Knows(s)',
           UNCHANGED <<payments, disk, logged>>, applied \subseteq applied'
    PROVE  RequestInv'
  BY KnowsKept DEF RequestInv

\* A settlement is tracked as long as the request that made it goes on, or
\* its invoice is counted as lost.
LEMMA SettlesKept ==
    ASSUME SettleInv, WorldTypes, RequestTypes,
           \A s \in Requests : req[s].stage \in InFlight =>
                \/ req'[s].stage \in InFlight /\ req'[s].pay = req[s].pay
                \/ Inv(s) \in lost'
                \/ Paid(payments', Inv(s)),
           \A i \in Invoices : Paid(payments, i) =>
                \/ Paid(payments', i)
                \/ i \in lost'
                \/ \A x \in submitted : ClaimOf[x] # i,
           UNCHANGED submitted, lost \subseteq lost'
    PROVE  SettleInv'
  <1>1. SettlementTracked'
    <2> SUFFICES ASSUME NEW x \in submitted, ClaimOf[x] \notin lost', ~Paid(payments', ClaimOf[x])
                 PROVE  \E s \in Requests : /\ req'[s].stage \in {"settling", "confirming", "recording"}
                                            /\ req'[s].pay = x
      BY DEF SettlementTracked, Paid
    <2>1. ClaimOf[x] \in Invoices
      BY ConstantsAssumption DEF WorldTypes
    <2>2. ~Paid(payments, ClaimOf[x]) /\ ClaimOf[x] \notin lost
      BY <2>1
    <2>3. PICK s \in Requests : req[s].stage \in InFlight /\ req[s].pay = x
      BY <2>2 DEF SettleInv, SettlementTracked, InFlight
    <2>4. Inv(s) = ClaimOf[x]
      BY <2>3 DEF Inv
    <2>5. QED
      BY <2>3, <2>4 DEF InFlight
  <1>2. OneSettlePerInvoice'
    BY DEF SettleInv, OneSettlePerInvoice
  <1>3. QED
    BY <1>1, <1>2 DEF SettleInv

\* A request ends without touching the maps; if it was settling, its invoice
\* is now among the lost ones.
LEMMA EndKeeps ==
    ASSUME TypeOK, BookInv, RequestInv, SettleInv, Unissued,
           NEW r \in Requests, Finish(r),
           req[r].stage \in InFlight => Inv(r) \in lost',
           quotes' \subseteq quotes, lost \subseteq lost',
           UNCHANGED <<payments, used, disk, logged, applied, submitted, age>>
    PROVE  BookInv' /\ RequestInv' /\ SettleInv' /\ Unissued'
  <1>1. /\ req'[r].stage = "idle"
        /\ \A s \in Requests : s # r => req'[s] = req[s]
    BY DEF Finish, TypeOK, RequestTypes, Idle
  <1>2. BookInv'
    BY BookKept DEF TypeOK
  <1>3. RequestInv'
    BY <1>1, KnowsNothing, RequestsKept
  <1>4. SettleInv'
    BY <1>1, SettlesKept DEF TypeOK
  <1>5. Unissued'
    BY DEF Unissued
  <1>6. QED
    BY <1>2, <1>3, <1>4, <1>5

\* A request moves on without touching the maps.
LEMMA MoveKeeps ==
    ASSUME TypeOK, BookInv, RequestInv, SettleInv, Unissued,
           NEW r \in Requests, NEW new, req' = [req EXCEPT ![r] = new], Knows(r)',
           req[r].stage \in InFlight => new.stage \in InFlight /\ new.pay = req[r].pay,
           quotes' \subseteq quotes,
           UNCHANGED <<payments, used, disk, logged, applied, submitted, age, lost>>
    PROVE  BookInv' /\ RequestInv' /\ SettleInv' /\ Unissued'
  <1>1. /\ req'[r] = new
        /\ \A s \in Requests : s # r => req'[s] = req[s]
    BY DEF TypeOK, RequestTypes
  <1>2. BookInv'
    BY BookKept DEF TypeOK
  <1>3. RequestInv'
    BY <1>1, RequestsKept
  <1>4. SettleInv'
    BY <1>1, SettlesKept DEF TypeOK
  <1>5. Unissued'
    BY DEF Unissued
  <1>6. QED
    BY <1>2, <1>3, <1>4, <1>5

\* A change of stage leaves the rest of a request, and the others, alone.
LEMMA GotoFacts ==
    ASSUME RequestTypes, NEW r \in Requests, NEW stage, Goto(r, stage)
    PROVE  /\ req' = [req EXCEPT ![r] = [req[r] EXCEPT !.stage = stage]]
           /\ req'[r].stage = stage
           /\ req'[r].pay = req[r].pay /\ req'[r].want = req[r].want
           /\ req'[r].named = req[r].named
           /\ Inv(r)' = Inv(r)
           /\ \A s \in Requests : s # r => req'[s] = req[s]
  BY DEF RequestTypes, Goto, Req, Inv

\* A mark on a paid record keeps it paid: what the others know stays true.
LEMMA MarkKeeps ==
    ASSUME TypeOK, BookInv, RequestInv, SettleInv, Unissued,
           NEW r \in Requests, req[r].stage \in {"accepted", "rejected"},
           NEW status \in PaidStatus, NEW ok \in BOOLEAN, Mark(r, status, ok),
           Finish(r) \/ Goto(r, "rejected"),
           UNCHANGED <<logged, applied, submitted, age, lost>>
    PROVE  BookInv' /\ RequestInv' /\ SettleInv' /\ Unissued'
  <1> DEFINE i == Inv(r)
             p == [payments EXCEPT ![i].status = status]
  <1>1. i \in Invoices /\ Paid(payments, i) /\ payments[i].tx = req[r].want
    BY InvType DEF TypeOK, RequestInv, Knows
  <1>2. Save(quotes, p, used, ok)
    BY <1>1 DEF Mark, Paid, PaidStatus
  <1>3. /\ p \in [Invoices -> Record] /\ quotes \in SUBSET Invoices
        /\ used \in SUBSET Payloads
    BY DEF TypeOK, StateTypes, Record, PaidStatus, Status
  <1>4. /\ Paid(p, i) /\ p[i].tx = payments[i].tx /\ p[i].by = payments[i].by
        /\ \A j \in Invoices : j # i => p[j] = payments[j]
    BY <1>1 DEF TypeOK, StateTypes, Record, Paid
  <1> HIDE DEF p
  <1>5. /\ \A j \in Invoices : payments[j].status # "none" => p[j].status # "none"
        /\ \A j \in Invoices : Paid(payments, j) => Paid(p, j)
    BY <1>4 DEF Paid, PaidStatus
  <1>6. \A j \in Invoices : Backed(p, j)
    BY <1>1, <1>4 DEF BookInv, PaidIsBacked, Backed, Paid
  <1>7. \A x \in used : ClaimOf[x] \in Invoices
    BY <1>3, ConstantsAssumption
  <1>8. BookInv'
    <2>1. \A x \in used : Paid(p, ClaimOf[x])
      BY <1>5, <1>7 DEF BookInv, UsedIsPaid
    <2>2. \A j \in quotes : p[j].status # "none"
      BY <1>3, <1>5 DEF BookInv, QuotesKnown
    <2>3. QED
      BY <1>2, <1>3, <1>5, <1>6, <2>1, <2>2, SaveBook DEF TypeOK
  <1>9. payments' = p /\ (disk'.payments = p \/ disk' = disk)
    BY <1>2 DEF Save
  <1>10. RequestInv'
    <2>1. ASSUME NEW s \in Requests, s # r
          PROVE  Knows(s)'
      <3>1. req'[s] = req[s] /\ Inv(s)' = Inv(s) /\ Knows(s)
        BY <2>1, GotoFacts DEF Finish, TypeOK, RequestTypes, Inv, RequestInv
      <3>2. req[s].stage # "idle" => Inv(s) \in Invoices
        BY InvType DEF TypeOK
      <3>3. CASE Inv(s) = i
        <4>1. req[s].stage \notin {"verifying", "settling", "confirming", "recording"}
          BY <1>1, <3>1, <3>3 DEF Knows, Paid, PaidStatus
        <4>2. Paid(disk.payments, i) => Paid(disk'.payments, i)
          BY <1>4, <1>9
        <4>3. QED
          BY <1>4, <1>9, <3>1, <3>3, <4>1, <4>2 DEF Knows, Paid, Locked
      <3>4. CASE Inv(s) # i /\ req[s].stage # "idle"
        <4>1. p[Inv(s)] = payments[Inv(s)]
          BY <1>4, <3>2, <3>4
        <4>2. Paid(disk.payments, Inv(s)) => Paid(disk'.payments, Inv(s))
          BY <1>5, <1>9, <3>2, <3>4 DEF BookInv, MemoryAhead
        <4>3. Settles(req[s].named, req[s].pay)' = Settles(req[s].named, req[s].pay)
          BY <3>1 DEF Settles
        <4>4. QED
          BY <1>9, <3>1, <4>1, <4>2, <4>3 DEF Knows, Paid
      <3>5. CASE req[s].stage = "idle"
        BY <3>1, <3>5, KnowsNothing
      <3>6. QED
        BY <3>3, <3>4, <3>5
    <2>2. Knows(r)'
      <3>1. CASE Finish(r)
        BY <3>1, KnowsNothing DEF Finish, TypeOK, RequestTypes, Idle
      <3>2. CASE Goto(r, "rejected")
        BY <1>1, <1>4, <1>9, <3>2, GotoFacts DEF Knows, Paid, Locked, TypeOK
      <3>3. QED
        BY <3>1, <3>2
    <2>3. QED
      BY <2>1, <2>2 DEF RequestInv
  <1>11. SettleInv'
    <2>1. \A s \in Requests : req[s].stage \in InFlight => req'[s] = req[s]
      BY GotoFacts DEF Finish, TypeOK, RequestTypes, InFlight
    <2>2. QED
      BY <1>5, <1>9, <2>1, SettlesKept DEF TypeOK
  <1>12. Unissued'
    BY <1>1, <1>4, <1>9 DEF Unissued, Paid, PaidStatus
  <1>13. QED
    BY <1>8, <1>10, <1>11, <1>12

-----------------------------------------------------------------------------
(***************************************************************************)
(* The steps that write the maps or the file.                              *)
(***************************************************************************)
\* buildPaymentRequired records a quote under an invoice id nobody has seen.
LEMMA CreateQuoteKeeps ==
    ASSUME TypeOK, LockHeld, BookInv, RequestInv, SettleInv, Unissued,
           NEW i \in Invoices, NEW t \in Txs, NEW ok \in BOOLEAN, CreateQuote(i, t, ok)
    PROVE  BookInv' /\ RequestInv' /\ SettleInv' /\ Unissued'
  <1> DEFINE q == quotes \cup {i}
             p == [payments EXCEPT ![i] = [status |-> "quoted", tx |-> t, by |-> NoPayload]]
  <1>1. /\ Save(q, p, used, ok) /\ age' = [age EXCEPT ![i] = "fresh"] /\ age[i] = "unissued"
        /\ UNCHANGED <<req, submitted, applied, logged, lost>>
    BY DEF CreateQuote, histVars
  <1>2. /\ p \in [Invoices -> Record] /\ q \in SUBSET Invoices
        /\ used \in SUBSET Payloads
    BY DEF TypeOK, StateTypes, Record, Status
  <1>3. /\ p[i].status = "quoted"
        /\ \A j \in Invoices : j # i => p[j] = payments[j]
    BY DEF TypeOK, StateTypes
  <1> HIDE DEF p, q
  <1>4. payments[i].status = "none" /\ ~Paid(payments, i) /\ ~Paid(disk.payments, i)
    BY <1>1 DEF Unissued, BookInv, MemoryAhead, Paid, PaidStatus
  <1>5. /\ \A j \in Invoices : payments[j].status # "none" => p[j].status # "none"
        /\ \A j \in Invoices : Paid(payments, j) => Paid(p, j)
    BY <1>3, <1>4 DEF Paid
  <1>6. \A j \in Invoices : Backed(p, j)
    BY <1>3 DEF BookInv, PaidIsBacked, Backed, Paid, PaidStatus
  <1>7. BookInv'
    <2>1. \A x \in used : Paid(p, ClaimOf[x])
      BY <1>2, <1>5, ConstantsAssumption DEF BookInv, UsedIsPaid
    <2>2. \A j \in q : p[j].status # "none"
      BY <1>3, <1>5 DEF BookInv, QuotesKnown, q, TypeOK, StateTypes
    <2>3. QED
      BY <1>1, <1>2, <1>5, <1>6, <2>1, <2>2, SaveBook DEF TypeOK
  <1>8. payments' = p /\ (disk'.payments = p \/ disk' = disk)
    BY <1>1 DEF Save
  <1>9. RequestInv'
    <2> SUFFICES ASSUME NEW s \in Requests PROVE Knows(s)'
      BY DEF RequestInv
    <2>1. Knows(s) /\ Inv(s)' = Inv(s) /\ req'[s] = req[s]
      BY <1>1 DEF RequestInv, Inv
    <2>2. CASE req[s].stage \in {"idle", "waiting"}
      BY <2>1, <2>2, KnowsNothing
    <2>3. CASE req[s].stage \notin {"idle", "waiting"}
      <3>1. Inv(s) \in Invoices
        BY <2>3, InvType DEF TypeOK
      <3>2. payments[Inv(s)].status # "none"
        BY <2>1, <2>3, <3>1 DEF Knows, Paid, PaidStatus, TypeOK, RequestTypes, Req, Stages
      <3>3. p[Inv(s)] = payments[Inv(s)]
        BY <1>3, <1>4, <3>1, <3>2
      <3>4. Paid(disk.payments, Inv(s)) => Paid(disk'.payments, Inv(s))
        BY <1>5, <1>8, <3>1 DEF BookInv, MemoryAhead
      <3>5. Settles(req[s].named, req[s].pay)' = Settles(req[s].named, req[s].pay)
        BY <1>1 DEF Settles
      <3>6. QED
        BY <1>1, <1>8, <2>1, <3>3, <3>4, <3>5 DEF Knows, Paid
    <2>4. QED
      BY <2>2, <2>3
  <1>10. SettleInv'
    BY <1>1, <1>5, <1>8, SettlesKept DEF TypeOK
  <1>11. Unissued'
    BY <1>1, <1>3, <1>8 DEF Unissued, TypeOK, WorldTypes
  <1>12. QED
    BY <1>7, <1>9, <1>10, <1>11

\* The record is written under the lock, over an unpaid one: no other request
\* on the invoice is past its first check with the old record in mind.
LEMMA RecordPaymentKeeps ==
    ASSUME TypeOK, LockHeld, BookInv, RequestInv, SettleInv, Unissued,
           NEW r \in Requests, NEW ok \in BOOLEAN, RecordPayment(r, ok)
    PROVE  BookInv' /\ RequestInv' /\ SettleInv' /\ Unissued'
  <1> DEFINE i == Inv(r)
             p == [payments EXCEPT ![i] =
                     [status |-> "settled", tx |-> req[r].want, by |-> req[r].named]]
             u == used \cup {req[r].pay}
  <1>1. /\ Save(quotes, p, u, ok) /\ req[r].stage = "recording"
        /\ IF ok THEN Goto(r, "logging") ELSE Finish(r)
        /\ UNCHANGED <<age, submitted, applied, logged, lost>>
    BY DEF RecordPayment, Refuse, worldVars, histVars
  <1>2. i \in Invoices /\ payments[i].status = "quoted"
    BY <1>1, InvType DEF TypeOK, RequestInv, Knows
  <1>3. /\ p \in [Invoices -> Record] /\ quotes \in SUBSET Invoices
        /\ u \in SUBSET Payloads
    BY <1>1 DEF TypeOK, StateTypes, RequestTypes, Req, Record, Status
  <1>4. /\ p[i] = [status |-> "settled", tx |-> req[r].want, by |-> req[r].named]
        /\ \A j \in Invoices : j # i => p[j] = payments[j]
    BY <1>2 DEF TypeOK, StateTypes
  <1> HIDE DEF p
  <1>5. /\ Paid(p, i)
        /\ \A j \in Invoices : payments[j].status # "none" => p[j].status # "none"
        /\ \A j \in Invoices : Paid(payments, j) => Paid(p, j)
    BY <1>4 DEF Paid, PaidStatus
  <1>6. \A j \in Invoices : Backed(p, j)
    <2>1. Settles(req[r].named, req[r].pay) /\ AssetOf[req[r].pay] \in Accepts
      BY <1>1 DEF RequestInv, Knows, Locked
    <2>2. Backed(p, i)
      BY <1>4, <2>1 DEF Backed, Settles, Inv
    <2>3. QED
      BY <1>4, <2>2 DEF BookInv, PaidIsBacked, Backed, Paid
  <1>7. \A x \in u : Paid(p, ClaimOf[x])
    BY <1>3, <1>5, ConstantsAssumption DEF BookInv, UsedIsPaid, Inv
  <1>8. \A j \in quotes : p[j].status # "none"
    BY <1>3, <1>5 DEF BookInv, QuotesKnown
  <1> HIDE DEF u
  <1>9. BookInv'
    BY <1>1, <1>3, <1>5, <1>6, <1>7, <1>8, SaveBook DEF TypeOK
  <1>10. /\ payments' = p
         /\ disk'.payments = p \/ disk' = disk
         /\ ok => disk'.payments = p
    BY <1>1 DEF Save
  <1>11. RequestInv'
    <2>1. ASSUME NEW s \in Requests, s # r
          PROVE  Knows(s)'
      <3>1. req'[s] = req[s] /\ Inv(s)' = Inv(s) /\ Knows(s)
        BY <1>1, <2>1, GotoFacts DEF Finish, TypeOK, RequestTypes, Inv, RequestInv
      <3>2. CASE req[s].stage \in {"idle", "waiting"}
        BY <3>1, <3>2, KnowsNothing
      <3>3. CASE req[s].stage \notin {"idle", "waiting"}
        <4>1. Inv(s) \in Invoices
          BY <3>3, InvType DEF TypeOK
        <4>2. Inv(s) # i
          <5>1. req[s].stage \in Locked => Inv(s) # i
            BY <1>1, <2>1 DEF LockHeld, Locked
          <5>2. req[s].stage \notin Locked => Paid(payments, Inv(s))
            BY <3>1, <3>3 DEF Knows, Locked, TypeOK, RequestTypes, Req, Stages
          <5>3. QED
            BY <1>2, <5>1, <5>2 DEF Paid, PaidStatus
        <4>3. p[Inv(s)] = payments[Inv(s)]
          BY <1>4, <4>1, <4>2
        <4>4. Paid(disk.payments, Inv(s)) => Paid(disk'.payments, Inv(s))
          BY <1>5, <1>10, <4>1 DEF BookInv, MemoryAhead
        <4>5. Settles(req[s].named, req[s].pay)' = Settles(req[s].named, req[s].pay)
          BY <1>1, <3>1 DEF Settles
        <4>6. QED
          BY <1>1, <1>10, <3>1, <4>3, <4>4, <4>5 DEF Knows, Paid
      <3>4. QED
        BY <3>2, <3>3
    <2>2. CASE ~ok
      <3>1. Knows(r)'
        BY <1>1, <2>2, KnowsNothing DEF Finish, TypeOK, RequestTypes, Idle
      <3>2. QED
        BY <2>1, <3>1 DEF RequestInv
    <2>3. CASE ok
      <3>1. /\ req'[r].stage = "logging" /\ Inv(r)' = i
            /\ req'[r].want = req[r].want /\ req'[r].pay = req[r].pay
        BY <1>1, <2>3, GotoFacts DEF TypeOK
      <3>2. logged[i] = 0
        <4>1. ~Paid(disk.payments, i)
          BY <1>2 DEF BookInv, MemoryAhead, Paid, PaidStatus
        <4>2. logged[i] \in Nat /\ logged[i] <= 1 /\ logged[i] # 1
          BY <1>2, <4>1 DEF BookInv, LoggedOnce, TypeOK, HistoryTypes
        <4>3. QED
          BY <4>2
      <3>3. AssetOf[req[r].pay] \in Accepts
        BY <1>1 DEF RequestInv, Knows, Locked
      <3>4. Knows(r)'
        BY <1>1, <1>4, <1>5, <1>10, <2>3, <3>1, <3>2, <3>3 DEF Knows, Paid
      <3>5. QED
        BY <2>1, <3>4 DEF RequestInv
    <2>4. QED
      BY <2>2, <2>3
  <1>12. SettleInv'
    <2>1. \A s \in Requests : s # r => req'[s] = req[s]
      BY <1>1, GotoFacts DEF Finish, TypeOK, RequestTypes
    <2>2. QED
      BY <1>1, <1>5, <1>10, <2>1, SettlesKept DEF TypeOK
  <1>13. Unissued'
    BY <1>1, <1>2, <1>4, <1>10 DEF Unissued
  <1>14. QED
    BY <1>9, <1>11, <1>12, <1>13

\* recordX402Settlement appends while the request still holds the lock.
LEMMA LogSettlementKeeps ==
    ASSUME TypeOK, LockHeld, BookInv, RequestInv, SettleInv, Unissued,
           NEW r \in Requests, NEW ok \in BOOLEAN, LogSettlement(r, ok)
    PROVE  BookInv' /\ RequestInv' /\ SettleInv' /\ Unissued'
  <1> DEFINE i == Inv(r)
  <1>1. /\ req[r].stage = "logging" /\ (IF ok THEN Goto(r, "authorized") ELSE Finish(r))
        /\ logged' = IF ok THEN [logged EXCEPT ![i] = @ + 1] ELSE logged
        /\ UNCHANGED <<quotes, payments, used, disk, age, submitted, applied, lost>>
    BY DEF LogSettlement, Authorize, Refuse, worldVars
  <1>2. /\ i \in Invoices /\ logged[i] = 0 /\ Paid(disk.payments, i)
        /\ Paid(payments, i) /\ payments[i].tx = req[r].want
    BY <1>1, InvType DEF TypeOK, RequestInv, Knows
  <1>3. \A j \in Invoices : logged'[j] = logged[j] \/ (j = i /\ logged'[j] = 1)
    BY <1>1, <1>2 DEF TypeOK, HistoryTypes
  <1>4. BookInv'
    <2>1. PaidIsBacked' /\ UsedIsPaid' /\ MemoryAhead' /\ QuotesKnown'
      BY <1>1 DEF BookInv, PaidIsBacked, UsedIsPaid, MemoryAhead, QuotesKnown, Backed, Paid
    <2>2. LoggedOnce'
      BY <1>1, <1>2, <1>3 DEF BookInv, LoggedOnce, Paid
    <2>3. QED
      BY <2>1, <2>2 DEF BookInv
  <1>5. RequestInv'
    <2>1. ASSUME NEW s \in Requests, s # r
          PROVE  Knows(s)'
      <3>1. req'[s] = req[s] /\ Inv(s)' = Inv(s) /\ Knows(s)
        BY <1>1, <2>1, GotoFacts DEF Finish, TypeOK, RequestTypes, Inv, RequestInv
      <3>2. req[s].stage = "logging" => logged'[Inv(s)] = logged[Inv(s)]
        <4>1. req[s].stage = "logging" => Inv(s) # i /\ Inv(s) \in Invoices
          BY <1>1, <2>1, InvType DEF LockHeld, Locked, TypeOK
        <4>2. QED
          BY <1>3, <4>1
      <3>3. Settles(req[s].named, req[s].pay)' = Settles(req[s].named, req[s].pay)
        BY <1>1, <3>1 DEF Settles
      <3>4. QED
        BY <1>1, <3>1, <3>2, <3>3 DEF Knows, Paid
    <2>2. Knows(r)'
      <3>1. CASE ok
        BY <1>1, <1>2, <3>1, GotoFacts DEF Knows, Paid, Locked, TypeOK
      <3>2. CASE ~ok
        BY <1>1, <3>2, KnowsNothing DEF Finish, TypeOK, RequestTypes, Idle
      <3>3. QED
        BY <3>1, <3>2
    <2>3. QED
      BY <2>1, <2>2 DEF RequestInv
  <1>6. SettleInv'
    <2>1. \A s \in Requests : req[s].stage \in InFlight => req'[s] = req[s]
      BY <1>1, GotoFacts DEF Finish, TypeOK, RequestTypes, InFlight
    <2>2. QED
      BY <1>1, <2>1, SettlesKept DEF TypeOK
  <1>7. Unissued'
    BY <1>1 DEF Unissued
  <1>8. QED
    BY <1>4, <1>5, <1>6, <1>7

\* After a crash memory is the file, every request is gone, and a settlement
\* without a record on disk counts as lost.
LEMMA CrashKeeps ==
    ASSUME TypeOK, LockHeld, BookInv, RequestInv, SettleInv, Unissued,
           Crash
    PROVE  BookInv' /\ RequestInv' /\ SettleInv' /\ Unissued'
  <1>1. /\ quotes' = disk.quotes \ Expired /\ payments' = disk.payments /\ used' = disk.used
        /\ req' = [r \in Requests |-> Idle]
        /\ lost' = lost \cup {i \in Invoices : ~Paid(disk.payments, i)
                                              /\ \E p \in submitted : ClaimOf[p] = i}
        /\ UNCHANGED <<disk, age, submitted, applied, logged>>
    BY DEF Crash, worldVars
  <1>2. BookInv'
    <2>1. PaidIsBacked' /\ UsedIsPaid'
      BY <1>1 DEF BookInv, PaidIsBacked, UsedIsPaid, Backed, Paid
    <2>2. MemoryAhead' /\ QuotesKnown'
      BY <1>1 DEF MemoryAhead, QuotesKnown, BookInv, Paid
    <2>3. LoggedOnce'
      BY <1>1 DEF BookInv, LoggedOnce, Paid
    <2>4. QED
      BY <2>1, <2>2, <2>3 DEF BookInv
  <1>3. RequestInv'
    <2>1. \A s \in Requests : req'[s].stage = "idle"
      BY <1>1 DEF Idle
    <2>2. QED
      BY <2>1, KnowsNothing DEF RequestInv
  <1>4. SettleInv'
    <2>1. \A x \in submitted : ClaimOf[x] \in Invoices
      BY ConstantsAssumption DEF TypeOK, WorldTypes
    <2>2. SettlementTracked'
      BY <1>1, <2>1 DEF SettlementTracked, Paid
    <2>3. OneSettlePerInvoice'
      BY <1>1 DEF SettleInv, OneSettlePerInvoice
    <2>4. QED
      BY <2>2, <2>3 DEF SettleInv
  <1>5. Unissued'
    BY <1>1 DEF Unissued, BookInv, MemoryAhead
  <1>6. QED
    BY <1>2, <1>3, <1>4, <1>5

\* A payload goes to /settle only for an invoice that is neither paid nor
\* being settled by anyone else: the lock and the check under it see to that.
LEMMA VerifyPassesKeeps ==
    ASSUME TypeOK, LockHeld, BookInv, RequestInv, SettleInv, Unissued,
           NEW r \in Requests, VerifyPasses(r)
    PROVE  BookInv' /\ RequestInv' /\ SettleInv' /\ Unissued'
  <1>1. /\ req[r].stage = "verifying" /\ Goto(r, "settling")
        /\ submitted' = submitted \cup {req[r].pay}
        /\ UNCHANGED <<quotes, payments, used, disk, age, applied, logged, lost>>
    BY DEF VerifyPasses, stateVars, histVars
  <1>2. /\ payments[Inv(r)].status = "quoted" /\ Inv(r) \in Invoices
        /\ AssetOf[req[r].pay] \in Accepts
    BY <1>1, InvType DEF TypeOK, RequestInv, Knows, Locked
  <1>3. /\ req'[r].stage = "settling" /\ req'[r].pay = req[r].pay /\ Inv(r)' = Inv(r)
        /\ \A s \in Requests : s # r => req'[s] = req[s]
    BY <1>1, GotoFacts DEF TypeOK
  <1>4. BookInv'
    BY <1>1, BookKept DEF TypeOK
  <1>5. RequestInv'
    <2>1. Knows(r)'
      BY <1>1, <1>2, <1>3 DEF Knows
    <2>2. QED
      BY <1>1, <1>3, <2>1, RequestsKept
  <1>6. SettleInv'
    <2>1. SettlementTracked'
      BY <1>1, <1>3 DEF SettleInv, SettlementTracked, Paid
    <2>2. \A x \in submitted : ClaimOf[x] = Inv(r) => Inv(r) \in lost
      <3> SUFFICES ASSUME NEW x \in submitted, ClaimOf[x] = Inv(r), Inv(r) \notin lost
                   PROVE  FALSE
        OBVIOUS
      <3>1. ~Paid(payments, Inv(r))
        BY <1>2 DEF Paid, PaidStatus
      <3>2. PICK s \in Requests : req[s].stage \in InFlight /\ req[s].pay = x
        BY <3>1 DEF SettleInv, SettlementTracked, InFlight
      <3>3. Inv(s) = Inv(r) /\ s # r
        BY <1>1, <3>2 DEF Inv, InFlight
      <3>4. QED
        BY <1>1, <3>2, <3>3 DEF LockHeld, Locked, InFlight
    <2>3. OneSettlePerInvoice'
      BY <1>1, <2>2 DEF SettleInv, OneSettlePerInvoice, Inv
    <2>4. QED
      BY <2>1, <2>3 DEF SettleInv
  <1>7. Unissued'
    BY <1>1 DEF Unissued
  <1>8. QED
    BY <1>4, <1>5, <1>6, <1>7

\* Every step keeps the inductive invariant.
LEMMA NextPayments ==
    ASSUME TypeOK, LockHeld, BookInv, RequestInv, SettleInv, Unissued, [Next]_vars
    PROVE  BookInv' /\ RequestInv' /\ SettleInv' /\ Unissued'
  <1>1. ASSUME NEW i \in Invoices, NEW t \in Txs, NEW ok \in BOOLEAN, CreateQuote(i, t, ok)
        PROVE  BookInv' /\ RequestInv' /\ SettleInv' /\ Unissued'
    BY <1>1, CreateQuoteKeeps
  <1>2. ASSUME NEW i \in Invoices, Expire(i)
        PROVE  BookInv' /\ RequestInv' /\ SettleInv' /\ Unissued'
    <2>1. BookInv'
      BY <1>2, BookKept DEF Expire, stateVars, histVars, TypeOK
    <2>2. RequestInv'
      BY <1>2, KnowsNothing, RequestsKept DEF Expire, stateVars, histVars
    <2>3. SettleInv'
      BY <1>2, SettlesKept DEF Expire, stateVars, histVars, InFlight, TypeOK
    <2>4. Unissued'
      BY <1>2 DEF Expire, Unissued, stateVars, TypeOK, WorldTypes
    <2>5. QED
      BY <2>1, <2>2, <2>3, <2>4
  <1>3. ASSUME NEW r \in Requests, NEW p \in Payloads, NEW t \in Txs, Present(r, p, t)
        PROVE  BookInv' /\ RequestInv' /\ SettleInv' /\ Unissued'
    <2>1. BookInv'
      BY <1>3, BookKept DEF Present, stateVars, histVars, worldVars, TypeOK
    <2>2. RequestInv'
      BY <1>3, KnowsNothing, RequestsKept DEF Present, stateVars, histVars, worldVars, TypeOK, RequestTypes
    <2>3. SettleInv'
      BY <1>3, SettlesKept DEF Present, stateVars, histVars, worldVars, TypeOK, RequestTypes, InFlight
    <2>4. Unissued'
      BY <1>3 DEF Present, Unissued, stateVars, worldVars, TypeOK, RequestTypes
    <2>5. QED
      BY <2>1, <2>2, <2>3, <2>4
  <1>4. ASSUME NEW p \in Payloads, LedgerApply(p)
        PROVE  BookInv' /\ RequestInv' /\ SettleInv' /\ Unissued'
    <2>1. BookInv'
      BY <1>4, BookKept DEF LedgerApply, stateVars, histVars, TypeOK
    <2>2. RequestInv'
      BY <1>4, KnowsNothing, RequestsKept DEF LedgerApply, stateVars, histVars
    <2>3. SettleInv'
      BY <1>4, SettlesKept DEF LedgerApply, stateVars, histVars, InFlight, TypeOK
    <2>4. Unissued'
      BY <1>4 DEF LedgerApply, Unissued, stateVars
    <2>5. QED
      BY <2>1, <2>2, <2>3, <2>4
  <1>5. ASSUME Crash
        PROVE  BookInv' /\ RequestInv' /\ SettleInv' /\ Unissued'
    BY <1>5, CrashKeeps
  <1>6. ASSUME NEW r \in Requests, RejectOtherTx(r)
        PROVE  BookInv' /\ RequestInv' /\ SettleInv' /\ Unissued'
    BY <1>6, EndKeeps DEF RejectOtherTx, Refuse, HasTurn, stateVars, worldVars, histVars, InFlight
  <1>7. ASSUME NEW r \in Requests, RejectReplay(r)
        PROVE  BookInv' /\ RequestInv' /\ SettleInv' /\ Unissued'
    BY <1>7, EndKeeps DEF RejectReplay, Refuse, HasTurn, stateVars, worldVars, histVars, InFlight
  <1>8. ASSUME NEW r \in Requests, RejectNoQuote(r)
        PROVE  BookInv' /\ RequestInv' /\ SettleInv' /\ Unissued'
    BY <1>8, EndKeeps DEF RejectNoQuote, Refuse, Unpaid, HasTurn, PruneInMemory, worldVars, histVars, InFlight
  <1>9. ASSUME NEW r \in Requests, RejectAsset(r)
        PROVE  BookInv' /\ RequestInv' /\ SettleInv' /\ Unissued'
    BY <1>9, EndKeeps DEF RejectAsset, Refuse, Unpaid, HasTurn, PruneInMemory, worldVars, histVars, InFlight
  <1>10. ASSUME NEW r \in Requests, VerifyFails(r)
        PROVE  BookInv' /\ RequestInv' /\ SettleInv' /\ Unissued'
    BY <1>10, EndKeeps DEF VerifyFails, Refuse, stateVars, worldVars, histVars, InFlight
  <1>11. ASSUME NEW r \in Requests, SettleFails(r)
        PROVE  BookInv' /\ RequestInv' /\ SettleInv' /\ Unissued'
    BY <1>11, EndKeeps DEF SettleFails, GiveUpSettlement, Refuse, stateVars, worldVars
  <1>12. ASSUME NEW r \in Requests, ConfirmFails(r)
        PROVE  BookInv' /\ RequestInv' /\ SettleInv' /\ Unissued'
    BY <1>12, EndKeeps DEF ConfirmFails, GiveUpSettlement, Refuse, stateVars, worldVars
  <1>13. ASSUME NEW r \in Requests, AbandonSubmit(r)
        PROVE  BookInv' /\ RequestInv' /\ SettleInv' /\ Unissued'
    BY <1>13, EndKeeps DEF AbandonSubmit, stateVars, worldVars, histVars, InFlight
  <1>14. ASSUME NEW r \in Requests, RetryFdc(r)
        PROVE  BookInv' /\ RequestInv' /\ SettleInv' /\ Unissued'
    <2>1. req[r].stage = "waiting" /\ Goto(r, "authorized")
      BY <1>14 DEF RetryFdc, Authorize, HasTurn
    <2>2. Knows(r)'
      <3>1. payments[Inv(r)].tx = req[r].want /\ Paid(payments, Inv(r))
        BY <1>14 DEF RetryFdc, Bound, Paid, PaidStatus
      <3>2. QED
        BY <1>14, <2>1, <3>1, GotoFacts DEF RetryFdc, stateVars, Knows, Locked, Paid, TypeOK
    <2>3. /\ quotes' \subseteq quotes
          /\ UNCHANGED <<payments, used, disk, logged, applied, submitted, age, lost>>
      BY <1>14 DEF RetryFdc, stateVars, worldVars, histVars, PruneInMemory
    <2>4. QED
      BY <2>1, <2>2, <2>3, GotoFacts, MoveKeeps DEF InFlight, TypeOK
  <1>15. ASSUME NEW r \in Requests, StartVerify(r)
        PROVE  BookInv' /\ RequestInv' /\ SettleInv' /\ Unissued'
    <2>1. req[r].stage = "waiting" /\ Goto(r, "verifying")
      BY <1>15 DEF StartVerify, Unpaid, HasTurn
    <2>2. Knows(r)'
      <3>1. payments[Inv(r)].status = "quoted" /\ AssetOf[req[r].pay] \in Accepts
        <4>1. /\ ~Paid(payments, Inv(r)) /\ Inv(r) \in quotes /\ Inv(r) \in Invoices
              /\ AssetOf[req[r].pay] \in Accepts
          BY <1>15, <2>1, InvType DEF StartVerify, Unpaid, Live, TypeOK
        <4>2. payments[Inv(r)].status # "none" /\ payments[Inv(r)].status \in Status
          BY <4>1 DEF BookInv, QuotesKnown, TypeOK, StateTypes, Record
        <4>3. QED
          BY <4>1, <4>2 DEF Paid, PaidStatus, Status
      <3>2. QED
        BY <1>15, <2>1, <3>1, GotoFacts DEF StartVerify, PruneInMemory, Knows, TypeOK
    <2>3. /\ quotes' \subseteq quotes
          /\ UNCHANGED <<payments, used, disk, logged, applied, submitted, age, lost>>
      BY <1>15 DEF StartVerify, stateVars, worldVars, histVars, PruneInMemory
    <2>4. QED
      BY <2>1, <2>2, <2>3, GotoFacts, MoveKeeps DEF InFlight, TypeOK
  <1>16. ASSUME NEW r \in Requests, VerifyPasses(r)
        PROVE  BookInv' /\ RequestInv' /\ SettleInv' /\ Unissued'
    BY <1>16, VerifyPassesKeeps
  <1>17. ASSUME NEW r \in Requests, NEW q \in Payloads \cup {NoPayload}, SettleSucceeds(r, q)
        PROVE  BookInv' /\ RequestInv' /\ SettleInv' /\ Unissued'
    <2> DEFINE new == [req[r] EXCEPT !.named = q, !.stage = "confirming"]
    <2>1. /\ req[r].stage = "settling" /\ req' = [req EXCEPT ![r] = new]
          /\ UNCHANGED <<quotes, payments, used, disk, logged, applied, submitted, age, lost>>
      BY <1>17 DEF SettleSucceeds, stateVars, worldVars, histVars
    <2>2. /\ req'[r].stage = "confirming" /\ req'[r].pay = req[r].pay /\ Inv(r)' = Inv(r)
          /\ new.stage = "confirming" /\ new.pay = req[r].pay
      BY <2>1 DEF TypeOK, RequestTypes, Req, Inv
    <2>3. Knows(r)'
      BY <2>1, <2>2 DEF RequestInv, Knows, Locked
    <2>4. QED
      BY <2>1, <2>2, <2>3, MoveKeeps DEF InFlight
  <1>18. ASSUME NEW r \in Requests, ConfirmPasses(r)
        PROVE  BookInv' /\ RequestInv' /\ SettleInv' /\ Unissued'
    <2>1. req[r].stage = "confirming" /\ Goto(r, "recording")
      BY <1>18 DEF ConfirmPasses
    <2>2. Knows(r)'
      BY <1>18, <2>1, GotoFacts DEF ConfirmPasses, stateVars, worldVars, RequestInv, Knows, Locked, Settles, TypeOK
    <2>3. /\ quotes' \subseteq quotes
          /\ UNCHANGED <<payments, used, disk, logged, applied, submitted, age, lost>>
      BY <1>18 DEF ConfirmPasses, stateVars, worldVars, histVars, PruneInMemory
    <2>4. QED
      BY <2>1, <2>2, <2>3, GotoFacts, MoveKeeps DEF InFlight, TypeOK
  <1>19. ASSUME NEW r \in Requests, NEW ok \in BOOLEAN, RecordPayment(r, ok)
        PROVE  BookInv' /\ RequestInv' /\ SettleInv' /\ Unissued'
    BY <1>19, RecordPaymentKeeps
  <1>20. ASSUME NEW r \in Requests, NEW ok \in BOOLEAN, LogSettlement(r, ok)
        PROVE  BookInv' /\ RequestInv' /\ SettleInv' /\ Unissued'
    BY <1>20, LogSettlementKeeps
  <1>21. ASSUME NEW r \in Requests, FdcAccepts(r)
        PROVE  BookInv' /\ RequestInv' /\ SettleInv' /\ Unissued'
    <2>1. req[r].stage = "authorized" /\ Goto(r, "accepted")
      BY <1>21 DEF FdcAccepts
    <2>2. Knows(r)'
      BY <1>21, <2>1, GotoFacts DEF FdcAccepts, stateVars, RequestInv, Knows, Locked, Paid, TypeOK
    <2>3. /\ quotes' \subseteq quotes
          /\ UNCHANGED <<payments, used, disk, logged, applied, submitted, age, lost>>
      BY <1>21 DEF FdcAccepts, stateVars, worldVars, histVars, PruneInMemory
    <2>4. QED
      BY <2>1, <2>2, <2>3, GotoFacts, MoveKeeps DEF InFlight, TypeOK
  <1>22. ASSUME NEW r \in Requests, FdcRejects(r)
        PROVE  BookInv' /\ RequestInv' /\ SettleInv' /\ Unissued'
    <2>1. req[r].stage = "authorized" /\ Goto(r, "rejected")
      BY <1>22 DEF FdcRejects
    <2>2. Knows(r)'
      BY <1>22, <2>1, GotoFacts DEF FdcRejects, stateVars, RequestInv, Knows, Locked, Paid, TypeOK
    <2>3. /\ quotes' \subseteq quotes
          /\ UNCHANGED <<payments, used, disk, logged, applied, submitted, age, lost>>
      BY <1>22 DEF FdcRejects, stateVars, worldVars, histVars, PruneInMemory
    <2>4. QED
      BY <2>1, <2>2, <2>3, GotoFacts, MoveKeeps DEF InFlight, TypeOK
  <1>23. ASSUME NEW r \in Requests, NEW ok \in BOOLEAN, MarkFdcOk(r, ok)
        PROVE  BookInv' /\ RequestInv' /\ SettleInv' /\ Unissued'
    BY <1>23, MarkKeeps DEF MarkFdcOk, PaidStatus, worldVars, histVars
  <1>24. ASSUME NEW r \in Requests, NEW ok \in BOOLEAN, MarkFdcFailed(r, ok)
        PROVE  BookInv' /\ RequestInv' /\ SettleInv' /\ Unissued'
    BY <1>24, MarkKeeps DEF MarkFdcFailed, PaidStatus, worldVars, histVars
  <1>25. CASE UNCHANGED vars
    <2>1. BookInv' /\ RequestInv'
      BY <1>25, BookKept, RequestsKept DEF vars, stateVars, worldVars, histVars, TypeOK
    <2>2. SettleInv' /\ Unissued'
      BY <1>25, SettlesKept DEF vars, stateVars, worldVars, histVars, Unissued, TypeOK
    <2>3. QED
      BY <2>1, <2>2
  <1>26. QED
    BY <1>1, <1>2, <1>3, <1>4, <1>5, <1>6, <1>7, <1>8, <1>9, <1>10, <1>11, <1>12, <1>13, <1>14, <1>15, <1>16, <1>17, <1>18, <1>19, <1>20, <1>21, <1>22, <1>23, <1>24, <1>25
       DEF Next, Environment, Serve

\* The inductive invariant at the start.
LEMMA InitPayments == Init => BookInv /\ RequestInv /\ SettleInv /\ Unissued
  <1> SUFFICES ASSUME Init PROVE BookInv /\ RequestInv /\ SettleInv /\ Unissued
    OBVIOUS
  <1>1. BookInv
    BY DEF Init, BookInv, PaidIsBacked, UsedIsPaid, MemoryAhead, QuotesKnown, LoggedOnce,
           Backed, Paid, PaidStatus, NoRecord
  <1>2. RequestInv
    BY DEF Init, RequestInv, Knows, Idle, Locked
  <1>3. SettleInv
    BY DEF Init, SettleInv, SettlementTracked, OneSettlePerInvoice
  <1>4. Unissued
    BY DEF Init, Unissued, NoRecord
  <1>5. QED
    BY <1>1, <1>2, <1>3, <1>4

\* The inductive invariant.
THEOREM Invariance == Spec => []IInv
  <1> DEFINE I == TypeOK /\ LockHeld /\ BookInv /\ RequestInv /\ SettleInv /\ Unissued
  <1>1. Init => I
    BY InitTypesAndLock, InitPayments
  <1>2. I /\ [Next]_vars => I'
    BY NextTypesAndLock, NextPayments
  <1>3. I => IInv
    BY RequestInvParts DEF IInv, BookInv, SettleInv
  <1> HIDE DEF I
  <1>4. QED
    BY <1>1, <1>2, <1>3, PTL DEF Spec

\* A request talks to the facilitator only while the invoice is unpaid.
THEOREM NoSecondCharge == Spec => []SettlesOnlyUnpaid
  <1>1. IInv => SettlesOnlyUnpaid
    BY DEF IInv
  <1>2. QED
    BY <1>1, Invariance, PTL

\* An invoice is settled once, unless a settlement got lost.
THEOREM SettledAtMostOnce == Spec => []OneSettlePerInvoice
  <1>1. IInv => OneSettlePerInvoice
    BY DEF IInv
  <1>2. QED
    BY <1>1, Invariance, PTL

\* A paid record, in memory or on disk, is backed by the XRP Ledger.
THEOREM PaidMeansPaid == Spec => []PaidIsBacked
  <1>1. IInv => PaidIsBacked
    BY DEF IInv
  <1>2. QED
    BY <1>1, Invariance, PTL

\* Who submits to FDC on a payment holds one for that transaction.
THEOREM AuthorizationIsPaid == Spec => []AuthorizedIsPaid
  <1>1. IInv => AuthorizedIsPaid
    BY DEF IInv
  <1>2. QED
    BY <1>1, Invariance, PTL

\* usedPayloadHashes never runs ahead of the payments map.
THEOREM ReplayMarksArePaid == Spec => []UsedIsPaid
  <1>1. IInv => UsedIsPaid
    BY DEF IInv
  <1>2. QED
    BY <1>1, Invariance, PTL

\* The margin log counts an invoice at most once, once it is paid on disk.
THEOREM RevenueCountedOnce == Spec => []LoggedOnce
  <1>1. IInv => LoggedOnce
    BY DEF IInv
  <1>2. QED
    BY <1>1, Invariance, PTL

-----------------------------------------------------------------------------
(***************************************************************************)
(* The file implements PaymentBook.                                        *)
(***************************************************************************)
\* p is no less advanced than b.
Ahead(b, p) ==
    \A i \in Invoices :
        /\ b[i].status # "none" => p[i].status # "none"
        /\ Paid(b, i) => Paid(p, i)

\* A write that takes no record back is a Write of PaymentBook, or a stutter.
LEMMA WriteForward ==
    ASSUME MemoryAhead, NEW q, NEW p, NEW u, NEW ok \in BOOLEAN, Save(q, p, u, ok),
           Ahead(payments, p)
    PROVE  Ahead(disk.payments, disk'.payments)
  <1>1. disk'.payments = p \/ disk' = disk
    BY DEF Save
  <1>2. Ahead(disk.payments, p)
    BY DEF MemoryAhead, Ahead, Paid
  <1>3. QED
    BY <1>1, <1>2 DEF Ahead

\* No step takes the file back.
LEMMA FileForward ==
    ASSUME IInv, [Next]_vars
    PROVE  Ahead(disk.payments, disk'.payments)
  <1> USE DEF IInv
  <1>1. ASSUME NEW i \in Invoices, NEW t \in Txs, NEW ok \in BOOLEAN, CreateQuote(i, t, ok)
        PROVE  Ahead(disk.payments, disk'.payments)
    <2> DEFINE p == [payments EXCEPT ![i] = [status |-> "quoted", tx |-> t, by |-> NoPayload]]
    <2>1. payments[i].status = "none"
      BY <1>1 DEF CreateQuote, Unissued
    <2>2. Ahead(payments, p)
      BY <2>1 DEF Ahead, Paid, PaidStatus, TypeOK, StateTypes
    <2>3. Save(quotes \cup {i}, p, used, ok)
      BY <1>1 DEF CreateQuote
    <2> HIDE DEF p
    <2>4. QED
      BY <2>2, <2>3, WriteForward
  <1>2. ASSUME NEW r \in Requests, NEW ok \in BOOLEAN, RecordPayment(r, ok)
        PROVE  Ahead(disk.payments, disk'.payments)
    <2> DEFINE p == [payments EXCEPT ![Inv(r)] =
                       [status |-> "settled", tx |-> req[r].want, by |-> req[r].named]]
               u == used \cup {req[r].pay}
    <2>1. Ahead(payments, p)
      BY DEF Ahead, Paid, PaidStatus, TypeOK, StateTypes
    <2>2. Save(quotes, p, u, ok)
      BY <1>2 DEF RecordPayment
    <2> HIDE DEF p, u
    <2>3. QED
      BY <2>1, <2>2, WriteForward
  <1>3. ASSUME NEW r \in Requests, NEW ok \in BOOLEAN, NEW status \in PaidStatus,
               Mark(r, status, ok)
        PROVE  Ahead(disk.payments, disk'.payments)
    <2> DEFINE p == IF payments[Inv(r)].status = "none" THEN payments
                    ELSE [payments EXCEPT ![Inv(r)].status = status]
    <2>1. Ahead(payments, p)
      BY DEF Ahead, Paid, PaidStatus, TypeOK, StateTypes, Record
    <2>2. Save(quotes, p, used, ok)
      BY <1>3 DEF Mark
    <2> HIDE DEF p
    <2>3. QED
      BY <2>1, <2>2, WriteForward
  <1>4. CASE UNCHANGED disk
    BY <1>4 DEF Ahead
  <1>5. QED
    <2>1. \/ \E i \in Invoices, t \in Txs, ok \in BOOLEAN : CreateQuote(i, t, ok)
          \/ \E r \in Requests, ok \in BOOLEAN : RecordPayment(r, ok)
          \/ \E r \in Requests, ok \in BOOLEAN, status \in PaidStatus : Mark(r, status, ok)
          \/ UNCHANGED disk
      <3>1. ASSUME NEW r \in Requests, NEW ok \in BOOLEAN, MarkFdcOk(r, ok) \/ MarkFdcFailed(r, ok)
            PROVE  \E status \in PaidStatus : Mark(r, status, ok)
        BY <3>1 DEF MarkFdcOk, MarkFdcFailed, PaidStatus
      <3>2. ASSUME NEW r \in Requests, Serve(r),
                   \A ok \in BOOLEAN : ~RecordPayment(r, ok) /\ ~MarkFdcOk(r, ok) /\ ~MarkFdcFailed(r, ok)
            PROVE  UNCHANGED disk
        BY <3>2 DEF Serve, RejectOtherTx, RejectReplay, RetryFdc, RejectNoQuote, RejectAsset,
             StartVerify, VerifyFails, VerifyPasses, SettleFails, SettleSucceeds, ConfirmFails,
             ConfirmPasses, AbandonSubmit, FdcAccepts, FdcRejects, LogSettlement,
             GiveUpSettlement, PruneInMemory, stateVars
      <3>3. Environment => \/ \E i \in Invoices, t \in Txs, ok \in BOOLEAN : CreateQuote(i, t, ok)
                           \/ UNCHANGED disk
        BY DEF Environment, Expire, Present, LedgerApply, Crash, stateVars
      <3>4. UNCHANGED vars => UNCHANGED disk
        BY DEF vars, stateVars
      <3>5. QED
        BY <3>1, <3>2, <3>3, <3>4 DEF Next
    <2>2. QED
      BY <1>1, <1>2, <1>3, <1>4, <2>1

\* Only a validation on the ledger funds an invoice.
LEMMA AppliedSteps ==
    ASSUME [Next]_vars
    PROVE  UNCHANGED applied \/ \E p \in Payloads : LedgerApply(p)
  <1>1. ASSUME NEW r \in Requests, Serve(r)
        PROVE  UNCHANGED applied
    BY <1>1 DEF Serve, RejectOtherTx, RejectReplay, RetryFdc, RejectNoQuote, RejectAsset,
         StartVerify, VerifyFails, VerifyPasses, SettleFails, SettleSucceeds, ConfirmFails,
         ConfirmPasses, RecordPayment, AbandonSubmit, FdcAccepts, FdcRejects, LogSettlement,
         MarkFdcOk, MarkFdcFailed, GiveUpSettlement, worldVars
  <1>2. Environment => UNCHANGED applied \/ \E p \in Payloads : LedgerApply(p)
    BY DEF Environment, CreateQuote, Expire, Present, Crash, worldVars
  <1>3. UNCHANGED vars => UNCHANGED applied
    BY DEF vars, worldVars
  <1>4. QED
    BY <1>1, <1>2, <1>3 DEF Next

\* The state file implements PaymentBook: over crashes and failed writes it
\* only moves forward, and it calls paid only what the ledger holds.
THEOREM FileImplementsBook == Spec => ImplementsPaymentBook
  <1>1. Init => PB!Init
    BY DEF Init, PB!Init, Grade, NoRecord
  <1>2. ASSUME IInv, IInv', [Next]_vars
        PROVE  [PB!Next]_(PB!vars)
    <2> DEFINE book   == [i \in Invoices |-> Grade(i)]
               funded == {ClaimOf[p] : p \in applied}
    <2>1. CASE UNCHANGED applied
      <3>1. funded' = funded
        BY <2>1
      <3>2. book' \in [Invoices -> PB!Grades]
        BY DEF Grade, PB!Grades
      <3>3. ASSUME NEW i \in Invoices
            PROVE  PB!MayBecome(i, book'[i])
        <4>1. Ahead(disk.payments, disk'.payments)
          BY <1>2, FileForward
        <4>2. Paid(disk'.payments, i) => i \in funded
          BY <1>2, <2>1 DEF IInv, PaidIsBacked, Backed, Paid
        <4>3. /\ disk.payments[i].status \in Status
              /\ disk'.payments[i].status \in Status
          BY <1>2 DEF IInv, TypeOK, StateTypes, Book, Record
        <4>4. /\ Grade(i) = IF disk.payments[i].status = "none" THEN "none"
                           ELSE IF disk.payments[i].status = "quoted" THEN "quoted" ELSE "paid"
              /\ Grade(i)' = IF disk'.payments[i].status = "none" THEN "none"
                            ELSE IF disk'.payments[i].status = "quoted" THEN "quoted" ELSE "paid"
          BY DEF Grade
        <4>5. \/ Grade(i)' = Grade(i)
              \/ Grade(i) = "none" /\ Grade(i)' = "quoted"
              \/ Grade(i) # "paid" /\ Grade(i)' = "paid" /\ i \in funded
          <5>1. CASE disk'.payments[i].status = "none"
            <6>1. disk.payments[i].status = "none"
              BY <4>1, <5>1 DEF Ahead
            <6>2. QED
              BY <4>4, <5>1, <6>1
          <5>2. CASE disk'.payments[i].status = "quoted"
            <6>1. disk.payments[i].status \in {"none", "quoted"}
              BY <4>1, <4>3, <5>2 DEF Ahead, Paid, PaidStatus, Status
            <6>2. QED
              BY <4>4, <5>2, <6>1
          <5>3. CASE disk'.payments[i].status \in PaidStatus
            <6>1. Grade(i)' = "paid" /\ i \in funded
              BY <4>2, <4>4, <5>3 DEF Paid, PaidStatus
            <6>2. QED
              BY <6>1
          <5>4. QED
            BY <4>3, <5>1, <5>2, <5>3 DEF Status, PaidStatus
        <4>6. book[i] = Grade(i) /\ book'[i] = Grade(i)'
          OBVIOUS
        <4>7. QED
          BY <4>5, <4>6 DEF PB!MayBecome
      <3>4. PB!Write
        BY <3>1, <3>2, <3>3 DEF PB!Write
      <3>5. QED
        BY <3>4 DEF PB!Next
    <2>2. ASSUME NEW p \in Payloads, LedgerApply(p)
          PROVE  PB!Fund(ClaimOf[p])
      <3>1. applied' = applied \cup {p} /\ disk' = disk
        BY <2>2 DEF LedgerApply, stateVars
      <3>2. funded' = funded \cup {ClaimOf[p]}
        BY <3>1
      <3>3. book' = book
        BY <3>1 DEF Grade
      <3>4. QED
        BY <3>2, <3>3 DEF PB!Fund
    <2>3. QED
      BY <1>2, <2>1, <2>2, AppliedSteps, ConstantsAssumption DEF PB!Next
  <1>3. QED
    BY <1>1, <1>2, Invariance, PTL DEF Spec, ImplementsPaymentBook, PB!Spec

-----------------------------------------------------------------------------
(***************************************************************************)
(* The line at an invoice: what withInvoiceLock's promise chain owes to    *)
(* those who wait.                                                         *)
(***************************************************************************)
InLine  == {"waiting"} \cup Locked
Line(i) == 1..Len(lockq[i])

\* A chain has the calls that wait or hold the lock, all of them, each once.
OnlyCalls == \A i \in Invoices : \A n \in Line(i) :
                req[lockq[i][n]].stage \in InLine /\ Inv(lockq[i][n]) = i
OnceEach  == \A i \in Invoices : \A m, n \in Line(i) :
                lockq[i][m] = lockq[i][n] => m = n
AllCalls  == \A r \in Requests : req[r].stage \in InLine
                => \E n \in Line(Inv(r)) : lockq[Inv(r)][n] = r
QueueOK   == OnlyCalls /\ OnceEach /\ AllCalls

\* The guards of Serve(r), of those of a request in line that has its turn.
CanDecide(r) ==
    /\ HasTurn(r)
    /\ \/ ~Bound(r)
       \/ Bound(r) /\ Replay(r)
       \/ Bound(r) /\ payments[Inv(r)].status \in {"settled", "fdc_failed"}
       \/ Unpaid(r) /\ ~Replay(r) /\ ~Live(r)
       \/ Unpaid(r) /\ ~Replay(r) /\ Live(r) /\ AssetOf[req[r].pay] \notin Accepts
       \/ Unpaid(r) /\ ~Replay(r) /\ Live(r) /\ AssetOf[req[r].pay] \in Accepts

CanGoOn(r) == CanDecide(r) \/ req[r].stage \in Stages \ {"idle", "waiting"}

\* Whoever waits for its turn has a request at the head of the line that is
\* in progress for the same invoice and can go on: no promise of a call that
\* has ended, or that never began, is left in the chain.
LineMoves ==
    \A r \in Requests : req[r].stage = "waiting" =>
        \E s \in Requests : /\ req[s].stage \in InLine
                            /\ Inv(s) = Inv(r)
                            /\ s = Head(lockq[Inv(r)])
                            /\ CanGoOn(s)

\* The calls that have to end before r has its turn.
InFront(r) == {s \in Requests : \E m, n \in Line(Inv(r)) :
                  m < n /\ lockq[Inv(r)][m] = s /\ lockq[Inv(r)][n] = r}

\* Nobody comes between: a request that waits has no more calls in front of
\* it than it had.
NoOvertaking ==
    [][\A r \in Requests : req[r].stage = "waiting" /\ req'[r].stage = "waiting"
          => InFront(r)' \subseteq InFront(r)]_vars

\* The four things a step may do to the lines.
LineStays ==
    /\ UNCHANGED lockq
    /\ \A s \in Requests : /\ req'[s].stage \in InLine <=> req[s].stage \in InLine
                           /\ req[s].stage \in InLine => req'[s].pay = req[s].pay

HeadLeaves(r) ==
    /\ req[r].stage \in InLine
    /\ lockq[Inv(r)] # <<>>
    /\ Head(lockq[Inv(r)]) = r
    /\ Release(r)
    /\ req'[r].stage \notin InLine
    /\ \A s \in Requests \ {r} : req'[s] = req[s]

LastJoins(r, p) ==
    /\ req[r].stage = "idle"
    /\ lockq' = [lockq EXCEPT ![ClaimOf[p]] = Append(@, r)]
    /\ req'[r].stage = "waiting"
    /\ req'[r].pay = p
    /\ \A s \in Requests \ {r} : req'[s] = req[s]

AllLeave ==
    /\ lockq' = [i \in Invoices |-> <<>>]
    /\ req' = [r \in Requests |-> Idle]

\* A request that changes its stage and stays where it is in the line, or out
\* of it.
LEMMA GotoStays ==
    ASSUME RequestTypes, NEW r \in Requests, NEW stage \in Stages, Goto(r, stage),
           UNCHANGED lockq, stage \in InLine <=> req[r].stage \in InLine
    PROVE  LineStays
  <1>1. req' = [req EXCEPT ![r].stage = stage] /\ req \in [Requests -> Req]
    BY DEF Goto, RequestTypes
  <1>2. \A s \in Requests : /\ req'[s].pay = req[s].pay
                            /\ req'[s].stage = IF s = r THEN stage ELSE req[s].stage
    BY <1>1 DEF Req
  <1>3. QED
    BY <1>2 DEF LineStays

\* A request that is answered by submitToFdc was out of line already.
LEMMA FinishStays ==
    ASSUME RequestTypes, NEW r \in Requests, Finish(r), UNCHANGED lockq,
           req[r].stage \notin InLine
    PROVE  LineStays
  <1>1. req' = [req EXCEPT ![r] = Idle] /\ req \in [Requests -> Req]
    BY DEF Finish, RequestTypes
  <1>2. \A s \in Requests : req'[s] = IF s = r THEN Idle ELSE req[s]
    BY <1>1
  <1>3. Idle.stage \notin InLine
    BY DEF Idle, InLine, Locked
  <1>4. QED
    BY <1>2, <1>3 DEF LineStays

\* The end of the locked section, with either outcome.
LEMMA EndLeaves ==
    ASSUME RequestTypes, NEW r \in Requests, req[r].stage \in InLine,
           lockq[Inv(r)] # <<>>, Head(lockq[Inv(r)]) = r, Refuse(r) \/ Authorize(r)
    PROVE  HeadLeaves(r)
  <1>1. Release(r) /\ (Finish(r) \/ Goto(r, "authorized")) /\ req \in [Requests -> Req]
    BY DEF Refuse, Authorize, RequestTypes
  <1>2. \A s \in Requests \ {r} : req'[s] = req[s]
    BY <1>1 DEF Finish, Goto
  <1>3. req'[r].stage \in {"idle", "authorized"}
    BY <1>1 DEF Finish, Goto, Idle, Req
  <1>4. req'[r].stage \notin InLine
    BY <1>3 DEF InLine, Locked
  <1>5. QED
    BY <1>1, <1>2, <1>4 DEF HeadLeaves

\* What a request does to the lines.
LEMMA ServeKinds ==
    ASSUME TypeOK, LockHeld, NEW r \in Requests, Serve(r)
    PROVE  LineStays \/ HeadLeaves(r)
  <1>0. RequestTypes
    BY DEF TypeOK
  <1>1. CASE RejectOtherTx(r) \/ RejectReplay(r) \/ RetryFdc(r) \/ RejectNoQuote(r) \/ RejectAsset(r)
    <2>1. HasTurn(r) /\ (Refuse(r) \/ Authorize(r))
      BY <1>1 DEF RejectOtherTx, RejectReplay, RetryFdc, RejectNoQuote, RejectAsset, Unpaid
    <2>2. QED
      BY <1>0, <2>1, EndLeaves DEF HasTurn, InLine
  <1>2. CASE VerifyFails(r) \/ SettleFails(r) \/ ConfirmFails(r)
    <2>1. req[r].stage \in Locked /\ Refuse(r)
      BY <1>2 DEF VerifyFails, SettleFails, ConfirmFails, GiveUpSettlement, Locked
    <2>2. QED
      BY <1>0, <2>1, EndLeaves DEF LockHeld, InLine
  <1>3. CASE StartVerify(r) \/ VerifyPasses(r) \/ ConfirmPasses(r)
    <2>1. PICK stage \in Locked : Goto(r, stage)
      BY <1>3 DEF StartVerify, VerifyPasses, ConfirmPasses, Locked
    <2>2. UNCHANGED lockq /\ req[r].stage \in InLine
      BY <1>3 DEF StartVerify, VerifyPasses, ConfirmPasses, Unpaid, HasTurn, InLine, Locked
    <2>3. stage \in Stages /\ stage \in InLine
      BY DEF Stages, InLine, Locked
    <2>4. QED
      BY <1>0, <2>1, <2>2, <2>3, GotoStays
  <1>4. ASSUME NEW q \in Payloads \cup {NoPayload}, SettleSucceeds(r, q)
        PROVE  LineStays
    <2>1. /\ req' = [req EXCEPT ![r].named = q, ![r].stage = "confirming"]
          /\ req \in [Requests -> Req]
          /\ lockq' = lockq
          /\ req[r].stage = "settling"
      BY <1>0, <1>4 DEF SettleSucceeds, RequestTypes
    <2>2. \A s \in Requests : /\ req'[s].pay = req[s].pay
                              /\ req'[s].stage = IF s = r THEN "confirming" ELSE req[s].stage
      BY <2>1 DEF Req
    <2>3. "confirming" \in InLine /\ "settling" \in InLine
      BY DEF InLine, Locked
    <2>4. QED
      BY <2>1, <2>2, <2>3 DEF LineStays
  <1>5. CASE FdcAccepts(r) \/ FdcRejects(r)
    <2>1. PICK stage \in {"accepted", "rejected"} : Goto(r, stage)
      BY <1>5 DEF FdcAccepts, FdcRejects
    <2>2. UNCHANGED lockq /\ req[r].stage = "authorized"
      BY <1>5 DEF FdcAccepts, FdcRejects
    <2>3. stage \in Stages /\ stage \notin InLine /\ req[r].stage \notin InLine
      BY <2>2 DEF Stages, InLine, Locked
    <2>4. QED
      BY <1>0, <2>1, <2>2, <2>3, GotoStays
  <1>6. CASE AbandonSubmit(r)
    BY <1>0, <1>6, FinishStays DEF AbandonSubmit, InLine, Locked
  <1>7. ASSUME NEW ok \in BOOLEAN, RecordPayment(r, ok)
        PROVE  LineStays \/ HeadLeaves(r)
    <2>1. req[r].stage = "recording" /\ req[r].stage \in Locked
      BY <1>7 DEF RecordPayment, Locked
    <2>2. CASE ok
      <3>1. Goto(r, "logging") /\ UNCHANGED lockq
        BY <1>7, <2>2 DEF RecordPayment
      <3>2. "logging" \in Stages /\ "logging" \in InLine /\ req[r].stage \in InLine
        BY <2>1 DEF Stages, InLine, Locked
      <3>3. QED
        BY <1>0, <3>1, <3>2, GotoStays
    <2>3. CASE ~ok
      BY <1>0, <1>7, <2>1, <2>3, EndLeaves DEF RecordPayment, LockHeld, InLine
    <2>4. QED
      BY <2>2, <2>3
  <1>8. ASSUME NEW ok \in BOOLEAN, LogSettlement(r, ok)
        PROVE  HeadLeaves(r)
    <2>1. req[r].stage \in Locked /\ (Refuse(r) \/ Authorize(r))
      BY <1>8 DEF LogSettlement, Locked
    <2>2. QED
      BY <1>0, <2>1, EndLeaves DEF LockHeld, InLine
  <1>9. ASSUME NEW ok \in BOOLEAN, MarkFdcOk(r, ok) \/ MarkFdcFailed(r, ok)
        PROVE  LineStays
    <2>1. /\ UNCHANGED lockq
          /\ req[r].stage \notin InLine
          /\ Finish(r) \/ Goto(r, "rejected")
      BY <1>9 DEF MarkFdcOk, MarkFdcFailed, InLine, Locked
    <2>2. "rejected" \in Stages /\ "rejected" \notin InLine
      BY DEF Stages, InLine, Locked
    <2>3. QED
      BY <1>0, <2>1, <2>2, GotoStays, FinishStays
  <1>10. QED
    BY <1>1, <1>2, <1>3, <1>4, <1>5, <1>6, <1>7, <1>8, <1>9 DEF Serve

\* What any step does to the lines.
LEMMA NextKinds ==
    ASSUME TypeOK, LockHeld, [Next]_vars
    PROVE  \/ LineStays
           \/ \E r \in Requests : HeadLeaves(r)
           \/ \E r \in Requests, p \in Payloads : LastJoins(r, p)
           \/ AllLeave
  <1>1. ASSUME NEW r \in Requests, NEW p \in Payloads, NEW t \in Txs, Present(r, p, t)
        PROVE  LastJoins(r, p)
    BY <1>1 DEF Present, LastJoins, TypeOK, RequestTypes
  <1>2. ASSUME \/ \E i \in Invoices, t \in Txs, ok \in BOOLEAN : CreateQuote(i, t, ok)
               \/ \E i \in Invoices : Expire(i)
               \/ \E p \in Payloads : LedgerApply(p)
               \/ UNCHANGED vars
        PROVE  LineStays
    <2>1. UNCHANGED <<lockq, req>>
      BY <1>2 DEF CreateQuote, Expire, LedgerApply, vars
    <2>2. QED
      BY <2>1 DEF LineStays
  <1>3. ASSUME Crash
        PROVE  AllLeave
    BY <1>3 DEF Crash, AllLeave
  <1>4. QED
    BY <1>1, <1>2, <1>3, ServeKinds DEF Next, Environment

\* A step that leaves the lines alone.
LEMMA QueueStays ==
    ASSUME RequestTypes, QueueOK, LineStays
    PROVE  QueueOK'
  <1>1. lockq' = lockq /\ \A i \in Invoices : Line(i)' = Line(i)
    BY DEF LineStays, Line
  <1>2. \A s \in Requests : /\ req'[s].stage \in InLine <=> req[s].stage \in InLine
                            /\ req[s].stage \in InLine => Inv(s)' = Inv(s)
    BY DEF LineStays, Inv
  <1>3. \A i \in Invoices : \A n \in Line(i) : lockq[i][n] \in Requests
    BY DEF RequestTypes, Line
  <1>4. OnlyCalls'
    BY <1>1, <1>2, <1>3 DEF QueueOK, OnlyCalls
  <1>5. OnceEach'
    BY <1>1 DEF QueueOK, OnceEach
  <1>6. ASSUME NEW s \in Requests, req'[s].stage \in InLine
        PROVE  \E n \in Line(Inv(s))' : lockq'[Inv(s)'][n] = s
    <2>1. req[s].stage \in InLine /\ Inv(s)' = Inv(s)
      BY <1>2, <1>6
    <2>2. PICK n \in Line(Inv(s)) : lockq[Inv(s)][n] = s
      BY <2>1 DEF QueueOK, AllCalls
    <2>3. Line(Inv(s))' = Line(Inv(s))
      BY <1>1, <2>1 DEF Line
    <2>4. QED
      BY <1>1, <2>1, <2>2, <2>3
  <1>7. QED
    BY <1>4, <1>5, <1>6 DEF QueueOK, AllCalls

\* What Tail does to one line and leaves of the others.
LEMMA TailOfLine ==
    ASSUME RequestTypes, NEW r \in Requests, HeadLeaves(r), Inv(r) \in Invoices
    PROVE  /\ lockq' \in [Invoices -> Seq(Requests)]
           /\ \A i \in Invoices : i # Inv(r) => lockq'[i] = lockq[i]
           /\ Len(lockq'[Inv(r)]) = Len(lockq[Inv(r)]) - 1
           /\ Len(lockq[Inv(r)]) \in Nat \ {0}
           /\ lockq[Inv(r)][1] = r
           /\ \A n \in 1..Len(lockq'[Inv(r)]) : lockq'[Inv(r)][n] = lockq[Inv(r)][n + 1]
  <1> DEFINE q == lockq[Inv(r)]
  <1>1. q \in Seq(Requests) /\ q # <<>> /\ Head(q) = r
    BY DEF RequestTypes, HeadLeaves
  <1>2. lockq' = [lockq EXCEPT ![Inv(r)] = Tail(q)] /\ lockq \in [Invoices -> Seq(Requests)]
    BY DEF HeadLeaves, Release, RequestTypes
  <1>3. Len(q) \in Nat \ {0} /\ q[1] = r
    BY <1>1
  <1> HIDE DEF q
  <1>4. /\ Tail(q) \in Seq(Requests)
        /\ Len(Tail(q)) = Len(q) - 1
        /\ \A n \in 1..Len(Tail(q)) : Tail(q)[n] = q[n + 1]
    BY <1>1, HeadTailProperties
  <1>5. lockq'[Inv(r)] = Tail(q) /\ \A i \in Invoices : i # Inv(r) => lockq'[i] = lockq[i]
    BY <1>2
  <1>6. lockq' \in [Invoices -> Seq(Requests)]
    BY <1>2, <1>4
  <1>7. QED
    BY <1>3, <1>4, <1>5, <1>6 DEF q

\* The head of a line leaves: it was there once, the others move up.
LEMMA QueueLeaves ==
    ASSUME RequestTypes, QueueOK, NEW r \in Requests, HeadLeaves(r)
    PROVE  QueueOK'
  <1>1. PICK c \in Invoices : c = Inv(r)
    BY InvType DEF HeadLeaves, InLine, Locked
  <1> DEFINE q == lockq[c]
             k == Len(q)
  <1>2. /\ \A i \in Invoices : i # c => lockq'[i] = lockq[i]
        /\ Len(lockq'[c]) = k - 1
        /\ k \in Nat \ {0}
        /\ q[1] = r
        /\ \A n \in 1..(k - 1) : lockq'[c][n] = q[n + 1]
    BY <1>1, TailOfLine
  <1>3. \A i \in Invoices : \A n \in Line(i) : lockq[i][n] \in Requests
    BY DEF RequestTypes, Line
  <1>4. \A s \in Requests : s # r => req'[s] = req[s] /\ Inv(s)' = Inv(s)
    BY DEF HeadLeaves, Inv
  <1>5. Line(c) = 1..k /\ Line(c)' = 1..(k - 1)
    BY <1>2 DEF Line
  <1> HIDE DEF q, k
  <1>6. \A n \in 1..(k - 1) : n + 1 \in 1..k /\ n + 1 # 1
    BY <1>2
  <1>a. q = lockq[c] /\ 1 \in 1..k
    BY <1>2 DEF q
  <1>7. ASSUME NEW i \in Invoices, NEW n \in Line(i)'
        PROVE  req'[lockq'[i][n]].stage \in InLine /\ ClaimOf[req'[lockq'[i][n]].pay] = i
    <2>1. PICK m \in Line(i) : lockq'[i][n] = lockq[i][m] /\ lockq[i][m] # r
      <3>1. CASE i = c
        <4>1. n \in 1..(k - 1) /\ n + 1 \in Line(c) /\ lockq'[c][n] = lockq[c][n + 1]
          BY <1>2, <1>5, <1>6, <1>7, <1>a, <3>1
        <4>2. lockq[c][n + 1] # lockq[c][1]
          BY <1>1, <1>5, <1>6, <1>a, <4>1 DEF QueueOK, OnceEach
        <4>3. QED
          BY <1>2, <1>a, <3>1, <4>1, <4>2
      <3>2. CASE i # c
        <4>1. n \in Line(i) /\ lockq'[i][n] = lockq[i][n] /\ Inv(lockq[i][n]) = i
          BY <1>2, <1>7, <3>2 DEF Line, QueueOK, OnlyCalls
        <4>2. lockq[i][n] # r
          BY <1>1, <3>2, <4>1
        <4>3. QED
          BY <4>1, <4>2
      <3>3. QED
        BY <3>1, <3>2
    <2>s. PICK s \in Requests : s = lockq[i][m]
      BY <1>3
    <2>2. s \in Requests /\ req[s].stage \in InLine /\ Inv(s) = i
      BY <2>s DEF QueueOK, OnlyCalls
    <2>3. req'[s] = req[s] /\ Inv(s)' = Inv(s)
      BY <1>4, <2>1, <2>2, <2>s
    <2>4. s = lockq'[i][n]
      BY <2>1, <2>s
    <2>5. req'[lockq'[i][n]] = req[s] /\ ClaimOf[req[s].pay] = i
      BY <2>2, <2>3, <2>4 DEF Inv
    <2>6. QED
      BY <2>2, <2>5
  <1>8. ASSUME NEW i \in Invoices, NEW m \in Line(i)', NEW n \in Line(i)',
               lockq'[i][m] = lockq'[i][n]
        PROVE  m = n
    <2>1. CASE i = c
      <3>1. /\ m \in 1..(k - 1) /\ n \in 1..(k - 1)
            /\ m + 1 \in Line(c) /\ n + 1 \in Line(c)
            /\ lockq[c][m + 1] = lockq[c][n + 1]
        BY <1>2, <1>5, <1>6, <1>8, <1>a, <2>1
      <3>2. m + 1 = n + 1
        BY <1>1, <3>1 DEF QueueOK, OnceEach
      <3>3. QED
        BY <3>1, <3>2
    <2>2. CASE i # c
      BY <1>2, <1>8, <2>2 DEF Line, QueueOK, OnceEach
    <2>3. QED
      BY <2>1, <2>2
  <1>9. ASSUME NEW s \in Requests, req'[s].stage \in InLine
        PROVE  \E n \in Line(Inv(s))' : lockq'[Inv(s)'][n] = s
    <2>1. s # r /\ req'[s] = req[s] /\ Inv(s)' = Inv(s)
      BY <1>4, <1>9 DEF HeadLeaves
    <2>2. PICK m \in Line(Inv(s)) : lockq[Inv(s)][m] = s
      BY <1>9, <2>1 DEF QueueOK, AllCalls
    <2>3. Inv(s) \in Invoices
      BY <1>9, <2>1, InvType DEF InLine, Locked
    <2>4. CASE Inv(s) = c
      <3>1. m \in 1..k /\ lockq[c][m] = s
        BY <1>5, <2>2, <2>4
      <3>2. m # 1
        BY <1>2, <1>a, <2>1, <3>1
      <3>3. m - 1 \in 1..(k - 1) /\ (m - 1) + 1 = m
        BY <1>2, <3>1, <3>2
      <3>4. lockq'[c][m - 1] = s
        BY <1>2, <1>a, <3>1, <3>3
      <3>5. Line(Inv(s))' = 1..(k - 1)
        BY <1>5, <2>1, <2>4 DEF Line
      <3>6. QED
        BY <2>1, <2>4, <3>3, <3>4, <3>5
    <2>5. CASE Inv(s) # c
      <3>1. lockq'[Inv(s)] = lockq[Inv(s)]
        BY <1>2, <2>3, <2>5
      <3>2. Line(Inv(s))' = Line(Inv(s))
        BY <2>1, <3>1 DEF Line
      <3>3. QED
        BY <2>1, <2>2, <3>1, <3>2
    <2>6. QED
      BY <2>4, <2>5
  <1>10. QED
    BY <1>7, <1>8, <1>9 DEF QueueOK, OnlyCalls, OnceEach, AllCalls, Inv

\* What Append does to one line and leaves of the others.
LEMMA AppendToLine ==
    ASSUME RequestTypes, NEW r \in Requests, NEW p \in Payloads, LastJoins(r, p)
    PROVE  /\ ClaimOf[p] \in Invoices
           /\ Inv(r)' = ClaimOf[p]
           /\ \A i \in Invoices : i # ClaimOf[p] => lockq'[i] = lockq[i]
           /\ Len(lockq[ClaimOf[p]]) \in Nat
           /\ Len(lockq'[ClaimOf[p]]) = Len(lockq[ClaimOf[p]]) + 1
           /\ lockq'[ClaimOf[p]][Len(lockq[ClaimOf[p]]) + 1] = r
           /\ \A n \in Line(ClaimOf[p]) : lockq'[ClaimOf[p]][n] = lockq[ClaimOf[p]][n]
  <1> DEFINE c == ClaimOf[p]
             q == lockq[c]
  <1>1. c \in Invoices /\ q \in Seq(Requests)
    BY ConstantsAssumption DEF RequestTypes
  <1>2. lockq' = [lockq EXCEPT ![c] = Append(q, r)] /\ lockq \in [Invoices -> Seq(Requests)]
    BY DEF LastJoins, RequestTypes
  <1>3. Inv(r)' = c
    BY DEF LastJoins, Inv
  <1>4. Len(q) \in Nat
    BY <1>1
  <1> HIDE DEF q, c
  <1>5. /\ Len(Append(q, r)) = Len(q) + 1
        /\ \A n \in 1..Len(q) : Append(q, r)[n] = q[n]
        /\ Append(q, r)[Len(q) + 1] = r
    BY <1>1, AppendProperties
  <1>6. lockq'[c] = Append(q, r) /\ \A i \in Invoices : i # c => lockq'[i] = lockq[i]
    BY <1>1, <1>2
  <1>7. QED
    BY <1>1, <1>3, <1>4, <1>5, <1>6 DEF c, q, Line

\* A request joins the end of a line, where it was not yet.
LEMMA QueueJoins ==
    ASSUME RequestTypes, QueueOK, NEW r \in Requests, NEW p \in Payloads, LastJoins(r, p)
    PROVE  QueueOK'
  <1> DEFINE c == ClaimOf[p]
             k == Len(lockq[c])
  <1>1. /\ c \in Invoices
        /\ Inv(r)' = c
        /\ \A i \in Invoices : i # c => lockq'[i] = lockq[i]
        /\ k \in Nat
        /\ Len(lockq'[c]) = k + 1
        /\ lockq'[c][k + 1] = r
        /\ \A n \in 1..k : lockq'[c][n] = lockq[c][n]
    BY AppendToLine DEF Line
  <1>2. Line(c) = 1..k /\ Line(c)' = 1..(k + 1)
    BY <1>1 DEF Line
  <1>3. req'[r].stage \in InLine /\ req[r].stage \notin InLine
    BY DEF LastJoins, InLine, Locked
  <1> HIDE DEF c, k
  <1>4. \A s \in Requests : s # r => req'[s] = req[s] /\ Inv(s)' = Inv(s)
    BY DEF LastJoins, Inv
  <1>5. \A i \in Invoices : \A n \in Line(i) : lockq[i][n] \in Requests /\ lockq[i][n] # r
    BY <1>3 DEF RequestTypes, Line, QueueOK, OnlyCalls
  <1>6. \A i \in Invoices : /\ Line(i) \subseteq Line(i)'
                            /\ \A n \in Line(i) : lockq'[i][n] = lockq[i][n]
    <2>1. TAKE i \in Invoices
    <2>2. CASE i = c
      BY <1>1, <1>2, <2>2
    <2>3. CASE i # c
      BY <1>1, <2>3 DEF Line
    <2>4. QED
      BY <2>2, <2>3
  <1>7. ASSUME NEW i \in Invoices, NEW n \in Line(i)', n \notin Line(i)
        PROVE  i = c /\ n = k + 1 /\ lockq'[i][n] = r
    <2>1. i = c
      BY <1>1, <1>7 DEF Line
    <2>2. QED
      BY <1>1, <1>2, <1>7, <2>1
  <1>8. ASSUME NEW i \in Invoices, NEW n \in Line(i)'
        PROVE  req'[lockq'[i][n]].stage \in InLine /\ ClaimOf[req'[lockq'[i][n]].pay] = i
    <2>1. CASE n \in Line(i)
      <3> DEFINE s == lockq[i][n]
      <3>1. s \in Requests /\ s # r /\ req[s].stage \in InLine /\ Inv(s) = i
        BY <1>5, <2>1 DEF QueueOK, OnlyCalls
      <3>2. req'[s] = req[s] /\ Inv(s)' = Inv(s) /\ lockq'[i][n] = s
        BY <1>4, <1>6, <2>1, <3>1
      <3>3. req'[lockq'[i][n]] = req[s] /\ ClaimOf[req[s].pay] = i
        BY <3>1, <3>2 DEF Inv
      <3>4. QED
        BY <3>1, <3>2, <3>3
    <2>2. CASE n \notin Line(i)
      <3>1. i = c /\ lockq'[i][n] = r
        BY <1>7, <2>2
      <3>2. ClaimOf[req'[r].pay] = c
        BY <1>1 DEF Inv
      <3>3. QED
        BY <1>1, <1>3, <3>1, <3>2
    <2>3. QED
      BY <2>1, <2>2
  <1>9. ASSUME NEW i \in Invoices, NEW m \in Line(i)', NEW n \in Line(i)',
               lockq'[i][m] = lockq'[i][n]
        PROVE  m = n
    <2>1. CASE m \in Line(i) /\ n \in Line(i)
      BY <1>6, <1>9, <2>1 DEF QueueOK, OnceEach
    <2>2. CASE m \in Line(i) /\ n \notin Line(i)
      BY <1>5, <1>6, <1>7, <1>9, <2>2
    <2>3. CASE m \notin Line(i) /\ n \in Line(i)
      BY <1>5, <1>6, <1>7, <1>9, <2>3
    <2>4. CASE m \notin Line(i) /\ n \notin Line(i)
      BY <1>7, <2>4
    <2>5. QED
      BY <2>1, <2>2, <2>3, <2>4
  <1>10. ASSUME NEW s \in Requests, req'[s].stage \in InLine
         PROVE  \E n \in Line(Inv(s))' : lockq'[Inv(s)'][n] = s
    <2>1. CASE s = r
      <3>1. Line(Inv(s))' = 1..(k + 1) /\ Inv(s)' = c
        BY <1>1, <1>2, <2>1 DEF Line
      <3>2. k + 1 \in 1..(k + 1)
        BY <1>1
      <3>3. QED
        BY <1>1, <2>1, <3>1, <3>2
    <2>2. CASE s # r
      <3>1. req'[s] = req[s] /\ Inv(s)' = Inv(s)
        BY <1>4, <2>2
      <3>2. PICK m \in Line(Inv(s)) : lockq[Inv(s)][m] = s
        BY <1>10, <3>1 DEF QueueOK, AllCalls
      <3>3. Inv(s) \in Invoices
        BY <1>10, <3>1, InvType DEF InLine, Locked
      <3>4. Line(Inv(s))' = 1..Len(lockq'[Inv(s)])
        BY <3>1 DEF Line
      <3>5. m \in Line(Inv(s))' /\ lockq'[Inv(s)][m] = s
        <4>1. CASE Inv(s) = c
          BY <1>1, <1>2, <3>2, <3>4, <4>1
        <4>2. CASE Inv(s) # c
          BY <1>1, <3>2, <3>3, <3>4, <4>2 DEF Line
        <4>3. QED
          BY <4>1, <4>2
      <3>6. QED
        BY <3>1, <3>5
    <2>3. QED
      BY <2>1, <2>2
  <1>11. QED
    BY <1>8, <1>9, <1>10 DEF QueueOK, OnlyCalls, OnceEach, AllCalls, Inv

\* A restart begins with empty lines and no calls.
LEMMA QueueEmptied ==
    ASSUME AllLeave
    PROVE  QueueOK'
  <1>1. \A i \in Invoices : lockq'[i] = <<>> /\ Line(i)' = {}
    BY DEF AllLeave, Line
  <1>2. \A s \in Requests : req'[s].stage \notin InLine
    BY DEF AllLeave, Idle, InLine, Locked
  <1>3. QED
    BY <1>1, <1>2 DEF QueueOK, OnlyCalls, OnceEach, AllCalls

\* The invoice lock's chain has each call that waits or works, once, and
\* nothing else, over every way out of the locked section.
THEOREM QueueIsSound == Spec => []QueueOK
  <1>1. Init => QueueOK
    <2> SUFFICES ASSUME Init PROVE QueueOK
      OBVIOUS
    <2>1. lockq = [i \in Invoices |-> <<>>] /\ req = [r \in Requests |-> Idle]
      BY DEF Init
    <2>2. ASSUME NEW i \in Invoices
          PROVE  Line(i) = {}
      <3>1. lockq[i] = <<>>
        BY <2>1
      <3>2. Line(i) = 1..0
        BY <3>1, EmptySeq DEF Line
      <3>3. QED
        BY <3>2
    <2>3. \A s \in Requests : req[s].stage \notin InLine
      BY <2>1 DEF Idle, InLine, Locked
    <2>4. QED
      BY <2>2, <2>3 DEF QueueOK, OnlyCalls, OnceEach, AllCalls
  <1>2. TypeOK /\ LockHeld /\ QueueOK /\ [Next]_vars => QueueOK'
    BY NextKinds, QueueStays, QueueLeaves, QueueJoins, QueueEmptied DEF TypeOK
  <1>3. QED
    BY <1>1, <1>2, TypeCorrect, PTL DEF Spec

\* Who has its turn is decided on: the conditions of processX402PaymentLocked
\* before its first await leave no case out.
LEMMA TurnIsDecided ==
    ASSUME TypeOK, NEW r \in Requests, HasTurn(r)
    PROVE  CanDecide(r)
  <1>1. Inv(r) \in Invoices /\ req[r].stage # "idle"
    BY InvType DEF TypeOK, HasTurn
  <1>2. payments[Inv(r)].status \in Status
    BY <1>1 DEF TypeOK, StateTypes, Record
  <1>3. CASE Paid(payments, Inv(r))
    BY <1>2, <1>3 DEF CanDecide, Replay, Paid, PaidStatus
  <1>4. CASE ~Paid(payments, Inv(r))
    BY <1>4 DEF CanDecide, Unpaid
  <1>5. QED
    BY <1>3, <1>4

\* Nobody waits for a call that has ended: the head of the line is a call in
\* progress for the same invoice, and it can go on.
THEOREM LineKeepsMoving == Spec => []LineMoves
  <1>1. TypeOK /\ QueueOK => LineMoves
    <2> SUFFICES ASSUME TypeOK, QueueOK, NEW r \in Requests, req[r].stage = "waiting"
                 PROVE  \E s \in Requests : /\ req[s].stage \in InLine
                                            /\ Inv(s) = Inv(r)
                                            /\ s = Head(lockq[Inv(r)])
                                            /\ CanGoOn(s)
      BY DEF LineMoves
    <2> DEFINE c == Inv(r)
               s == Head(lockq[c])
    <2>1. c \in Invoices /\ lockq[c] \in Seq(Requests)
      BY InvType DEF TypeOK, RequestTypes
    <2>2. PICK n \in Line(c) : lockq[c][n] = r
      BY DEF QueueOK, AllCalls, InLine
    <2>3. 1 \in Line(c) /\ s = lockq[c][1] /\ lockq[c] # <<>> /\ s \in Requests
      BY <2>1, <2>2 DEF Line
    <2>4. req[s].stage \in InLine /\ Inv(s) = c
      BY <2>1, <2>3 DEF QueueOK, OnlyCalls
    <2> HIDE DEF s
    <2>5. CanGoOn(s)
      <3>1. CASE req[s].stage = "waiting"
        <4>1. HasTurn(s)
          BY <2>3, <2>4, <3>1 DEF HasTurn, s
        <4>2. QED
          BY <2>3, <4>1, TurnIsDecided DEF CanGoOn
      <3>2. CASE req[s].stage \in Locked
        BY <3>2 DEF CanGoOn, Locked, Stages
      <3>3. QED
        BY <2>4, <3>1, <3>2 DEF InLine
    <2>6. QED
      BY <2>3, <2>4, <2>5 DEF s
  <1>2. QED
    BY <1>1, TypeCorrect, QueueIsSound, PTL

\* First come, first served: no step puts another call in front of one that
\* waits, so its turn is at most as many ends of calls away as when it came.
THEOREM NobodyOvertakes == Spec => NoOvertaking
  <1> DEFINE Keeps(r) == req[r].stage = "waiting" /\ req'[r].stage = "waiting"
                           => InFront(r)' \subseteq InFront(r)
  <1>1. ASSUME TypeOK, LockHeld, QueueOK, [Next]_vars, NEW r \in Requests,
               req[r].stage = "waiting", req'[r].stage = "waiting",
               NEW s \in InFront(r)'
        PROVE  s \in InFront(r)
    <2>0. RequestTypes /\ Inv(r) \in Invoices /\ req[r].stage \in InLine
      BY <1>1, InvType DEF TypeOK, InLine
    <2>a. PICK m \in Line(Inv(r))', n \in Line(Inv(r))' :
               s \in Requests /\ m < n /\ lockq'[Inv(r)'][m] = s /\ lockq'[Inv(r)'][n] = r
      BY <1>1 DEF InFront
    <2>1. CASE LineStays
      <3>1. Inv(r)' = Inv(r) /\ lockq' = lockq
        BY <2>0, <2>1 DEF LineStays, Inv
      <3>2. Line(Inv(r))' = Line(Inv(r))
        BY <3>1 DEF Line
      <3>3. QED
        BY <2>a, <3>1, <3>2 DEF InFront
    <2>2. ASSUME NEW h \in Requests, HeadLeaves(h)
          PROVE  s \in InFront(r)
      <3>1. h # r
        BY <1>1, <2>2 DEF HeadLeaves, InLine
      <3>2. Inv(r)' = Inv(r)
        BY <2>2, <3>1 DEF HeadLeaves, Inv
      <3>3. Inv(h) \in Invoices
        BY <2>0, <2>2, InvType DEF HeadLeaves, InLine, Locked
      <3>4. PICK d \in {0, 1} :
                 /\ Len(lockq'[Inv(r)]) = Len(lockq[Inv(r)]) - d
                 /\ Len(lockq[Inv(r)]) \in Nat
                 /\ \A j \in 1..Len(lockq'[Inv(r)]) : lockq'[Inv(r)][j] = lockq[Inv(r)][j + d]
        <4>1. CASE Inv(r) = Inv(h)
          BY <2>0, <2>2, <3>3, <4>1, TailOfLine
        <4>2. CASE Inv(r) # Inv(h)
          <5>1. lockq'[Inv(r)] = lockq[Inv(r)]
            BY <2>0, <2>2, <3>3, <4>2, TailOfLine
          <5>2. Len(lockq[Inv(r)]) \in Nat
            BY <2>0 DEF RequestTypes
          <5>3. \A j \in 1..Len(lockq[Inv(r)]) : j + 0 = j
            BY <5>2
          <5>4. QED
            BY <5>1, <5>2, <5>3
        <4>3. QED
          BY <4>1, <4>2
      <3>5. Line(Inv(r))' = 1..Len(lockq'[Inv(r)])
        BY <3>2 DEF Line
      <3>6. m \in 1..Len(lockq'[Inv(r)]) /\ n \in 1..Len(lockq'[Inv(r)]) /\ m < n
        BY <2>a, <3>5
      <3>7. m + d \in Line(Inv(r)) /\ n + d \in Line(Inv(r)) /\ m + d < n + d
        BY <3>4, <3>6 DEF Line
      <3>8. lockq[Inv(r)][m + d] = s /\ lockq[Inv(r)][n + d] = r
        BY <2>a, <3>2, <3>4, <3>6
      <3>9. QED
        BY <2>a, <3>7, <3>8 DEF InFront
    <2>3. ASSUME NEW h \in Requests, NEW p \in Payloads, LastJoins(h, p)
          PROVE  s \in InFront(r)
      <3>1. h # r
        BY <1>1, <2>3 DEF LastJoins
      <3>2. Inv(r)' = Inv(r)
        BY <2>3, <3>1 DEF LastJoins, Inv
      <3>3. Line(Inv(r))' = 1..Len(lockq'[Inv(r)])
        BY <3>2 DEF Line
      <3>4. CASE Inv(r) = ClaimOf[p]
        <4> DEFINE k == Len(lockq[Inv(r)])
        <4>1. /\ k \in Nat
              /\ Len(lockq'[Inv(r)]) = k + 1
              /\ lockq'[Inv(r)][k + 1] = h
              /\ \A j \in 1..k : lockq'[Inv(r)][j] = lockq[Inv(r)][j]
          BY <2>0, <2>3, <3>4, AppendToLine DEF Line
        <4>2. Line(Inv(r)) = 1..k
          BY DEF Line
        <4> HIDE DEF k
        <4>3. m \in 1..(k + 1) /\ n \in 1..(k + 1) /\ m < n /\ lockq'[Inv(r)][n] = r
          BY <2>a, <3>2, <3>3, <4>1
        <4>4. n # k + 1
          BY <3>1, <4>1, <4>3
        <4>5. m \in 1..k /\ n \in 1..k
          BY <4>1, <4>3, <4>4
        <4>6. lockq[Inv(r)][m] = s /\ lockq[Inv(r)][n] = r
          BY <2>a, <3>2, <4>1, <4>5
        <4>7. QED
          BY <2>a, <4>2, <4>5, <4>6 DEF InFront
      <3>5. CASE Inv(r) # ClaimOf[p]
        <4>1. lockq'[Inv(r)] = lockq[Inv(r)]
          BY <2>0, <2>3, <3>5, AppendToLine
        <4>2. Line(Inv(r))' = Line(Inv(r))
          BY <3>3, <4>1 DEF Line
        <4>3. QED
          BY <2>a, <3>2, <4>1, <4>2 DEF InFront
      <3>6. QED
        BY <3>4, <3>5
    <2>4. CASE AllLeave
      BY <1>1, <2>4 DEF AllLeave, Idle
    <2>5. QED
      BY <1>1, <2>1, <2>2, <2>3, <2>4, NextKinds
  <1>2. TypeOK /\ LockHeld /\ QueueOK /\ [Next]_vars => \A r \in Requests : Keeps(r)
    BY <1>1
  <1>3. TypeOK /\ LockHeld /\ QueueOK /\ [Next]_vars
          => [\A r \in Requests : Keeps(r)]_vars
    BY <1>2
  <1>4. QED
    BY <1>3, TypeCorrect, QueueIsSound, PTL DEF Spec, NoOvertaking

-----------------------------------------------------------------------------
(***************************************************************************)
(* The way to an answer.  Together with the two theorems on the line, what *)
(* EveryRequestAnswered needs of the steps: none of a request's own takes  *)
(* it back.                                                                *)
(***************************************************************************)
\* How far a request is from its end.
StepsLeft(stage) ==
    CASE stage = "waiting" -> 9 [] stage = "verifying" -> 8 [] stage = "settling" -> 7
      [] stage = "confirming" -> 6 [] stage = "recording" -> 5 [] stage = "logging" -> 4
      [] stage = "authorized" -> 3 [] stage = "accepted" -> 2 [] stage = "rejected" -> 1
      [] stage = "idle" -> 0

\* A request in progress is left alone, or it is nearer to its end: a mark
\* that cannot be written, an answer that is refused or a record that is not
\* saved never starts a part of the flow again.
RequestsAdvance ==
    [][\A r \in Requests : req[r].stage # "idle" =>
          \/ req'[r] = req[r]
          \/ StepsLeft(req'[r].stage) < StepsLeft(req[r].stage)]_vars

\* The stages as numbers.
LEMMA StepNumbers ==
    /\ StepsLeft("waiting") = 9 /\ StepsLeft("verifying") = 8 /\ StepsLeft("settling") = 7
    /\ StepsLeft("confirming") = 6 /\ StepsLeft("recording") = 5 /\ StepsLeft("logging") = 4
    /\ StepsLeft("authorized") = 3 /\ StepsLeft("accepted") = 2 /\ StepsLeft("rejected") = 1
    /\ StepsLeft("idle") = 0
  BY DEF StepsLeft

\* A step of a request changes that request only, and takes it further.
LEMMA ServeAdvances ==
    ASSUME RequestTypes, NEW r \in Requests, Serve(r)
    PROVE  /\ \A s \in Requests \ {r} : req'[s] = req[s]
           /\ req[r].stage # "idle"
           /\ StepsLeft(req'[r].stage) < StepsLeft(req[r].stage)
  <1>0. req \in [Requests -> Req] /\ req[r] \in Req /\ req[r].stage \in Stages
    BY DEF RequestTypes, Req
  <1>1. ASSUME Finish(r), req[r].stage # "idle"
        PROVE  /\ \A s \in Requests \ {r} : req'[s] = req[s]
               /\ req[r].stage # "idle"
               /\ StepsLeft(req'[r].stage) < StepsLeft(req[r].stage)
    <2>1. req'[r].stage = "idle" /\ \A s \in Requests \ {r} : req'[s] = req[s]
      BY <1>0, <1>1 DEF Finish, Idle
    <2>2. StepsLeft("idle") < StepsLeft(req[r].stage)
      BY <1>0, <1>1, StepNumbers DEF Stages
    <2>3. QED
      BY <1>1, <2>1, <2>2
  <1>2. ASSUME NEW stage \in Stages, Goto(r, stage), StepsLeft(stage) < StepsLeft(req[r].stage),
               req[r].stage # "idle"
        PROVE  /\ \A s \in Requests \ {r} : req'[s] = req[s]
               /\ req[r].stage # "idle"
               /\ StepsLeft(req'[r].stage) < StepsLeft(req[r].stage)
    <2>1. req'[r].stage = stage /\ \A s \in Requests \ {r} : req'[s] = req[s]
      BY <1>0, <1>2 DEF Goto, Req
    <2>2. QED
      BY <1>2, <2>1
  <1>3. ASSUME NEW q \in Payloads \cup {NoPayload}, SettleSucceeds(r, q)
        PROVE  /\ \A s \in Requests \ {r} : req'[s] = req[s]
               /\ req[r].stage # "idle"
               /\ StepsLeft(req'[r].stage) < StepsLeft(req[r].stage)
    <2>1. /\ req'[r].stage = "confirming" /\ req[r].stage = "settling"
          /\ \A s \in Requests \ {r} : req'[s] = req[s]
      BY <1>0, <1>3 DEF SettleSucceeds, Req
    <2>2. QED
      BY <2>1, StepNumbers
  <1>4. ASSUME \/ RejectOtherTx(r) \/ RejectReplay(r) \/ RejectNoQuote(r) \/ RejectAsset(r)
               \/ VerifyFails(r) \/ SettleFails(r) \/ ConfirmFails(r) \/ AbandonSubmit(r)
        PROVE  Finish(r) /\ req[r].stage # "idle"
    BY <1>4 DEF RejectOtherTx, RejectReplay, RejectNoQuote, RejectAsset, VerifyFails, SettleFails, ConfirmFails,
                AbandonSubmit, Unpaid, HasTurn, Refuse, GiveUpSettlement
  <1>5. ASSUME \/ RetryFdc(r) \/ StartVerify(r) \/ VerifyPasses(r) \/ ConfirmPasses(r)
               \/ FdcAccepts(r) \/ FdcRejects(r)
        PROVE  /\ req[r].stage # "idle"
               /\ \E stage \in Stages : Goto(r, stage) /\ StepsLeft(stage) < StepsLeft(req[r].stage)
    BY <1>5, StepNumbers DEF RetryFdc, StartVerify, VerifyPasses, ConfirmPasses, FdcAccepts, FdcRejects,
                             Unpaid, HasTurn, Authorize, Stages
  <1>6. ASSUME NEW ok \in BOOLEAN,
               RecordPayment(r, ok) \/ LogSettlement(r, ok) \/ MarkFdcOk(r, ok) \/ MarkFdcFailed(r, ok)
        PROVE  /\ req[r].stage # "idle"
               /\ \/ Finish(r)
                  \/ \E stage \in Stages : Goto(r, stage) /\ StepsLeft(stage) < StepsLeft(req[r].stage)
    BY <1>6, StepNumbers DEF RecordPayment, LogSettlement, MarkFdcOk, MarkFdcFailed, Authorize, Refuse, Stages
  <1>7. QED
    BY <1>1, <1>2, <1>3, <1>4, <1>5, <1>6 DEF Serve

\* What happens to a request in progress: its own step, nothing, or the end
\* of the process.
LEMMA RequestsStay ==
    ASSUME RequestTypes, [Next]_vars, NEW r \in Requests, req[r].stage # "idle"
    PROVE  req'[r] = req[r] \/ Serve(r) \/ (Crash /\ req'[r] = Idle)
  <1>1. ASSUME NEW s \in Requests, NEW p \in Payloads, NEW t \in Txs, Present(s, p, t)
        PROVE  req'[r] = req[r]
    BY <1>1 DEF Present, RequestTypes
  <1>2. ASSUME NEW s \in Requests, Serve(s), s # r
        PROVE  req'[r] = req[r]
    BY <1>2, ServeAdvances
  <1>3. ASSUME \/ \E i \in Invoices, t \in Txs, ok \in BOOLEAN : CreateQuote(i, t, ok)
               \/ \E i \in Invoices : Expire(i)
               \/ \E p \in Payloads : LedgerApply(p)
               \/ UNCHANGED vars
        PROVE  req'[r] = req[r]
    BY <1>3 DEF CreateQuote, Expire, LedgerApply, vars
  <1>4. Crash => req'[r] = Idle
    BY DEF Crash
  <1>5. QED
    BY <1>1, <1>2, <1>3, <1>4 DEF Next, Environment

\* A request takes at most nine steps of its own, whatever the facilitator,
\* the ledger, FDC and the disk answer.
THEOREM RequestsComeToAnEnd == Spec => RequestsAdvance
  <1> DEFINE Further(r) == req[r].stage # "idle" =>
                 \/ req'[r] = req[r]
                 \/ StepsLeft(req'[r].stage) < StepsLeft(req[r].stage)
  <1>1. ASSUME TypeOK, [Next]_vars, NEW r \in Requests, req[r].stage # "idle"
        PROVE  req'[r] = req[r] \/ StepsLeft(req'[r].stage) < StepsLeft(req[r].stage)
    <2>1. RequestTypes /\ req[r].stage \in Stages \ {"idle"}
      BY <1>1 DEF TypeOK, RequestTypes, Req
    <2>2. CASE req'[r] = Idle
      BY <2>1, <2>2, StepNumbers DEF Idle, Stages
    <2>3. QED
      BY <1>1, <2>1, <2>2, ServeAdvances, RequestsStay
  <1>2. TypeOK /\ [Next]_vars => [\A r \in Requests : Further(r)]_vars
    BY <1>1
  <1>3. QED
    BY <1>2, TypeCorrect, PTL DEF Spec, RequestsAdvance

-----------------------------------------------------------------------------
(***************************************************************************)
(* Who has paid is served.                                                 *)
(***************************************************************************)
\* A payment that FDC has not answered with an attestation is never refused
\* to who asks for its transaction again: no answer of the facilitator or of
\* the ledger, no quote that has expired and no payload that was used stands
\* in the way, only a crash or a write that throws.
PaidIsServed ==
    [][\A r \in Requests :
          /\ req[r].stage \in InLine
          /\ req'[r].stage = "idle"
          /\ payments[Inv(r)].status \in {"settled", "fdc_failed"}
          /\ payments[Inv(r)].tx = req[r].want
          => crashes' # crashes \/ diskErrors' # diskErrors]_vars

\* The refusals of a request in line whose invoice is paid, one by one.
LEMMA OnlyFaultsRefuse ==
    ASSUME IInv, NEW r \in Requests, Serve(r), req[r].stage \in InLine, req'[r].stage = "idle",
           payments[Inv(r)].status \in {"settled", "fdc_failed"},
           payments[Inv(r)].tx = req[r].want
    PROVE  diskErrors' # diskErrors
  <1>0. req \in [Requests -> Req] /\ req[r] \in Req /\ diskErrors \in Nat
    BY ConstantsAssumption DEF IInv, TypeOK, RequestTypes, HistoryTypes
  <1>1. /\ Bound(r) /\ ~Replay(r) /\ ~Unpaid(r)
    BY DEF Bound, Replay, Unpaid, Paid, PaidStatus
  <1>2. req[r].stage \in {"waiting", "logging"}
    BY DEF IInv, SettlesOnlyUnpaid, InLine, Locked
  <1>3. ~\E stage \in Stages \ {"idle"} : Goto(r, stage)
    BY <1>0 DEF Goto, Req
  <1>4. \/ RetryFdc(r)
        \/ \E ok \in BOOLEAN : LogSettlement(r, ok)
    BY <1>1, <1>2 DEF Serve, RejectOtherTx, RejectReplay, RejectNoQuote, RejectAsset, StartVerify, VerifyFails,
           VerifyPasses, SettleFails, SettleSucceeds, ConfirmFails, ConfirmPasses, RecordPayment, AbandonSubmit,
           FdcAccepts, FdcRejects, MarkFdcOk, MarkFdcFailed
  <1>5. ~RetryFdc(r)
    BY <1>3 DEF RetryFdc, Authorize, Stages
  <1>6. PICK ok \in BOOLEAN : LogSettlement(r, ok)
    BY <1>4, <1>5
  <1>7. ~ok
    BY <1>3, <1>6 DEF LogSettlement, Authorize, Stages
  <1>8. QED
    BY <1>0, <1>6, <1>7 DEF LogSettlement, CountWrite

\* A paid invoice gets its attestation submitted as often as it takes: only a
\* crash or a failed write sends its payer away.
THEOREM PaidRequestsAreServed == Spec => PaidIsServed
  <1> DEFINE Served(r) ==
          /\ req[r].stage \in InLine
          /\ req'[r].stage = "idle"
          /\ payments[Inv(r)].status \in {"settled", "fdc_failed"}
          /\ payments[Inv(r)].tx = req[r].want
          => crashes' # crashes \/ diskErrors' # diskErrors
  <1>1. ASSUME IInv, [Next]_vars, NEW r \in Requests
        PROVE  Served(r)
    <2> SUFFICES ASSUME req[r].stage \in InLine, req'[r].stage = "idle",
                        payments[Inv(r)].status \in {"settled", "fdc_failed"},
                        payments[Inv(r)].tx = req[r].want
                 PROVE  crashes' # crashes \/ diskErrors' # diskErrors
      OBVIOUS
    <2>1. req[r].stage # "idle" /\ RequestTypes
      BY <1>1 DEF InLine, Locked, IInv, TypeOK
    <2>2. CASE Serve(r)
      BY <1>1, <2>2, OnlyFaultsRefuse
    <2>3. CASE Crash
      <3>1. crashes \in Nat
        BY <1>1, ConstantsAssumption DEF IInv, TypeOK, HistoryTypes
      <3>2. QED
        BY <2>3, <3>1 DEF Crash
    <2>4. QED
      BY <1>1, <2>1, <2>2, <2>3, RequestsStay
  <1>2. IInv /\ [Next]_vars => [\A r \in Requests : Served(r)]_vars
    BY <1>1
  <1>3. QED
    BY <1>2, Invariance, PTL DEF Spec, PaidIsServed

-----------------------------------------------------------------------------
(***************************************************************************)
(* Whose payment an invoice carries.                                       *)
(***************************************************************************)
\* c calls every invoice paid that b does, for the same transaction and with
\* the same payment.
Names(b, c, i) == Paid(c, i) /\ c[i].tx = b[i].tx /\ c[i].by = b[i].by
Confirms(b, c) == \A i \in Invoices : Paid(b, i) => Names(b, c, i)

\* A write keeps the paid records of the memory, and the file either takes
\* the new map as a whole or stays as it is.
KeepsPaid ==
    /\ Confirms(payments, payments')
    /\ disk'.payments = payments' \/ disk' = disk

\* Memory confirms the file.
FileAgrees == Confirms(disk.payments, payments)

\* Confirmation carries on from one map to the next.
LEMMA ConfirmsTwice ==
    ASSUME NEW a, NEW b, NEW c, Confirms(a, b), Confirms(b, c)
    PROVE  Confirms(a, c)
  BY DEF Confirms, Names

\* A saved map that confirms the memory keeps its paid records.
LEMMA WriteKeepsPaid ==
    ASSUME NEW q, NEW p, NEW u, NEW ok \in BOOLEAN, Save(q, p, u, ok),
           Confirms(payments, p)
    PROVE  KeepsPaid
  BY DEF Save, KeepsPaid

\* A step that leaves both maps alone keeps their records.
LEMMA IdleKeepsPaid ==
    ASSUME UNCHANGED <<payments, disk>>
    PROVE  KeepsPaid
  BY DEF KeepsPaid, Confirms, Names, Paid

\* Every step but a crash keeps the paid records of the memory.
LEMMA OnlyCrashesForget ==
    ASSUME IInv, [Next]_vars, ~Crash
    PROVE  KeepsPaid
  <1> USE DEF IInv
  <1>1. ASSUME NEW i \in Invoices, NEW t \in Txs, NEW ok \in BOOLEAN, CreateQuote(i, t, ok)
        PROVE  KeepsPaid
    <2> DEFINE p == [payments EXCEPT ![i] = [status |-> "quoted", tx |-> t, by |-> NoPayload]]
    <2>1. payments[i].status = "none"
      BY <1>1 DEF CreateQuote, Unissued
    <2>2. Confirms(payments, p)
      BY <2>1 DEF Confirms, Names, Paid, PaidStatus, TypeOK, StateTypes
    <2>3. Save(quotes \cup {i}, p, used, ok)
      BY <1>1 DEF CreateQuote
    <2> HIDE DEF p
    <2>4. QED
      BY <2>2, <2>3, WriteKeepsPaid
  <1>2. ASSUME NEW r \in Requests, NEW ok \in BOOLEAN, RecordPayment(r, ok)
        PROVE  KeepsPaid
    <2> DEFINE p == [payments EXCEPT ![Inv(r)] =
                       [status |-> "settled", tx |-> req[r].want, by |-> req[r].named]]
               u == used \cup {req[r].pay}
    <2>1. payments[Inv(r)].status = "quoted"
      BY <1>2 DEF RecordPayment, SettlesOnlyUnpaid
    <2>2. Confirms(payments, p)
      BY <2>1 DEF Confirms, Names, Paid, PaidStatus, TypeOK, StateTypes
    <2>3. Save(quotes, p, u, ok)
      BY <1>2 DEF RecordPayment
    <2> HIDE DEF p, u
    <2>4. QED
      BY <2>2, <2>3, WriteKeepsPaid
  <1>3. ASSUME NEW r \in Requests, NEW ok \in BOOLEAN, NEW status \in PaidStatus,
               Mark(r, status, ok)
        PROVE  KeepsPaid
    <2> DEFINE p == IF payments[Inv(r)].status = "none" THEN payments
                    ELSE [payments EXCEPT ![Inv(r)].status = status]
    <2>1. Confirms(payments, p)
      BY DEF Confirms, Names, Paid, PaidStatus, TypeOK, StateTypes, Record
    <2>2. Save(quotes, p, used, ok)
      BY <1>3 DEF Mark
    <2> HIDE DEF p
    <2>3. QED
      BY <2>1, <2>2, WriteKeepsPaid
  <1>4. ASSUME NEW r \in Requests, Serve(r),
               \A ok \in BOOLEAN : ~RecordPayment(r, ok) /\ ~MarkFdcOk(r, ok) /\ ~MarkFdcFailed(r, ok)
        PROVE  UNCHANGED <<payments, disk>>
    BY <1>4 DEF Serve, RejectOtherTx, RejectReplay, RetryFdc, RejectNoQuote, RejectAsset,
         StartVerify, VerifyFails, VerifyPasses, SettleFails, SettleSucceeds, ConfirmFails,
         ConfirmPasses, AbandonSubmit, FdcAccepts, FdcRejects, LogSettlement,
         GiveUpSettlement, PruneInMemory, stateVars
  <1>5. ASSUME Environment,
               \A i \in Invoices, t \in Txs, ok \in BOOLEAN : ~CreateQuote(i, t, ok)
        PROVE  UNCHANGED <<payments, disk>>
    BY <1>5 DEF Environment, Expire, Present, LedgerApply, stateVars
  <1>6. UNCHANGED vars => UNCHANGED <<payments, disk>>
    BY DEF vars, stateVars
  <1>7. ASSUME NEW r \in Requests, NEW ok \in BOOLEAN, MarkFdcOk(r, ok) \/ MarkFdcFailed(r, ok)
        PROVE  \E status \in PaidStatus : Mark(r, status, ok)
    BY <1>7 DEF MarkFdcOk, MarkFdcFailed, PaidStatus
  <1>8. QED
    <2>1. CASE \E r \in Requests : Serve(r)
      BY <2>1, <1>2, <1>3, <1>4, <1>7, IdleKeepsPaid
    <2>2. CASE Environment
      BY <2>2, <1>1, <1>5, IdleKeepsPaid
    <2>3. QED
      BY <2>1, <2>2, <1>6, IdleKeepsPaid DEF Next

\* A crash takes the file for the memory.
LEMMA CrashRereads ==
    ASSUME Crash
    PROVE  payments' = disk.payments /\ disk' = disk /\ crashes' = crashes + 1
  BY DEF Crash

\* Memory confirms the file, whatever writes failed in between.
THEOREM MemoryConfirmsFile == Spec => []FileAgrees
  <1>1. Init => FileAgrees
    BY DEF Init, FileAgrees, Confirms, Names, Paid, PaidStatus, NoRecord
  <1>2. ASSUME IInv, FileAgrees, [Next]_vars
        PROVE  FileAgrees'
    <2>1. CASE Crash
      BY <2>1, CrashRereads DEF FileAgrees, Confirms, Names, Paid
    <2>2. CASE ~Crash
      <3>1. KeepsPaid
        BY <1>2, <2>2, OnlyCrashesForget
      <3>2. Confirms(disk.payments, payments')
        BY <3>1, <1>2, ConfirmsTwice DEF KeepsPaid, FileAgrees
      <3>3. Confirms(payments', payments')
        BY DEF Confirms, Names, Paid
      <3>4. disk'.payments = payments' \/ disk'.payments = disk.payments
        BY <3>1 DEF KeepsPaid
      <3>5. QED
        BY <3>2, <3>3, <3>4 DEF FileAgrees, Confirms, Names, Paid
    <2>3. QED
      BY <2>1, <2>2
  <1>3. QED
    BY <1>1, <1>2, Invariance, PTL DEF Spec

\* An invoice that is paid stays paid, for the transaction and with the
\* payment it was paid with: in the file over every crash and failed write, in
\* memory as long as the process lives.
PaidForGood ==
    [][/\ Confirms(disk.payments, disk'.payments)
       /\ Confirms(payments, payments') \/ crashes' # crashes]_vars

\* No step after the settlement turns a payment into one for another
\* transaction, or credits it to another payload.
THEOREM PaymentsAreForGood == Spec => PaidForGood
  <1> DEFINE Step == /\ Confirms(disk.payments, disk'.payments)
                     /\ Confirms(payments, payments') \/ crashes' # crashes
  <1>1. ASSUME IInv, FileAgrees, [Next]_vars
        PROVE  Step
    <2>1. CASE Crash
      <3>1. Confirms(disk.payments, disk'.payments)
        BY <2>1, CrashRereads DEF Confirms, Names, Paid
      <3>2. crashes \in Nat
        BY <1>1 DEF IInv, TypeOK, HistoryTypes
      <3>3. crashes' # crashes
        BY <2>1, <3>2, CrashRereads
      <3>4. QED
        BY <3>1, <3>3
    <2>2. CASE ~Crash
      <3>1. KeepsPaid
        BY <1>1, <2>2, OnlyCrashesForget
      <3>2. Confirms(disk.payments, payments')
        BY <3>1, <1>1, ConfirmsTwice DEF KeepsPaid, FileAgrees
      <3>3. Confirms(disk.payments, disk'.payments)
        BY <3>1, <3>2 DEF KeepsPaid, Confirms, Names, Paid
      <3>4. QED
        BY <3>1, <3>3 DEF KeepsPaid
    <2>3. QED
      BY <2>1, <2>2
  <1> HIDE DEF Step
  <1>2. Spec => [][Step]_vars
    BY <1>1, Invariance, MemoryConfirmsFile, PTL DEF Spec
  <1>3. QED
    BY <1>2 DEF Step, PaidForGood
=============================================================================
