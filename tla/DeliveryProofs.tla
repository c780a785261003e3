---------------------------- MODULE DeliveryProofs ---------------------------
(***************************************************************************)
(* What is proved about Delivery for any number of transactions, pollers,  *)
(* webhooks, requests, endpoints, rounds and faults.                       *)
(***************************************************************************)
EXTENDS Delivery, FiniteSetTheorems, TLAPS

-----------------------------------------------------------------------------
(***************************************************************************)
(* Types, by what changes together                                         *)
(***************************************************************************)
StoreTypes == /\ att \in [Txs -> Record] /\ hook \in [Hooks -> Webhook]
              /\ disk \in [att : [Txs -> Record], hook : [Hooks -> Webhook]]
AskTypes   == asked \in [Txs -> Nat] /\ rounds \in [Txs -> Nat]
PollTypes  == poll \in [Pollers -> Poller] /\ owed \in [Pollers -> SUBSET Hooks] /\ forgot \in Nat
CallTypes  == call \in [Pollers -> [Hooks -> Call]]
ChainTypes == mempool \subseteq Pollers \X Txs /\ payments \in [Txs -> 0..1]
ErrorTypes == errors \in 0..MaxFaults
RestTypes  == mishaps \in 0..MaxFaults /\ reached \subseteq (SUBSET Addresses) \X Addresses

\* A poller that has left NoPoll has a transaction.
PollersBusy == \A p \in Pollers : poll[p].stage # "none" => poll[p].tx \in Txs /\ poll[p].attempt > 0

Typed == TypeOK /\ PollersBusy

\* The parts are the whole, before a step and after it.
LEMMA TypeParts ==
    /\ TypeOK => /\ StoreTypes /\ AskTypes /\ PollTypes /\ CallTypes /\ ChainTypes /\ ErrorTypes
                 /\ RestTypes /\ ledger \in [Txs -> Kinds] /\ reg \in [Requests -> Asking]
    /\ /\ StoreTypes /\ AskTypes /\ PollTypes /\ CallTypes /\ ChainTypes /\ ErrorTypes
       /\ RestTypes /\ ledger \in [Txs -> Kinds] /\ reg \in [Requests -> Asking]
       => TypeOK
    /\ /\ StoreTypes' /\ AskTypes' /\ PollTypes' /\ CallTypes' /\ ChainTypes' /\ ErrorTypes'
       /\ RestTypes' /\ ledger' \in [Txs -> Kinds] /\ reg' \in [Requests -> Asking]
       => TypeOK'
  BY DEF TypeOK, StoreTypes, AskTypes, PollTypes, CallTypes, ChainTypes, ErrorTypes, RestTypes

\* Parts of the state a step leaves alone keep their types.
LEMMA SameParts ==
    ASSUME Typed
    PROVE  /\ UNCHANGED <<att, hook, disk>> => StoreTypes'
           /\ UNCHANGED <<asked, rounds>> => AskTypes'
           /\ UNCHANGED poll => poll' \in [Pollers -> Poller] /\ PollersBusy'
           /\ UNCHANGED <<poll, owed, forgot>> => PollTypes' /\ PollersBusy'
           /\ UNCHANGED call => CallTypes'
           /\ UNCHANGED <<mempool, payments>> => ChainTypes'
           /\ UNCHANGED errors => ErrorTypes'
           /\ UNCHANGED <<mishaps, reached>> => RestTypes'
           /\ UNCHANGED ledger => ledger' \in [Txs -> Kinds]
           /\ UNCHANGED reg => reg' \in [Requests -> Asking]
  <1>0. /\ StoreTypes /\ AskTypes /\ PollTypes /\ CallTypes /\ ChainTypes /\ ErrorTypes
        /\ RestTypes /\ ledger \in [Txs -> Kinds] /\ reg \in [Requests -> Asking] /\ PollersBusy
    BY TypeParts DEF Typed
  <1>1. UNCHANGED <<att, hook, disk>> => StoreTypes'
    BY <1>0 DEF StoreTypes
  <1>2. UNCHANGED <<asked, rounds>> => AskTypes'
    BY <1>0 DEF AskTypes
  <1>3. UNCHANGED poll => poll' \in [Pollers -> Poller] /\ PollersBusy'
    BY <1>0 DEF PollTypes, PollersBusy
  <1>4. UNCHANGED <<poll, owed, forgot>> => PollTypes' /\ PollersBusy'
    BY <1>0 DEF PollTypes, PollersBusy
  <1>5. UNCHANGED call => CallTypes'
    BY <1>0 DEF CallTypes
  <1>6. UNCHANGED <<mempool, payments>> => ChainTypes'
    BY <1>0 DEF ChainTypes
  <1>7. UNCHANGED errors => ErrorTypes'
    BY <1>0 DEF ErrorTypes
  <1>8. UNCHANGED <<mishaps, reached>> => RestTypes'
    BY <1>0 DEF RestTypes
  <1> QED
    BY <1>0, <1>1, <1>2, <1>3, <1>4, <1>5, <1>6, <1>7, <1>8

\* The values that stand for nothing have their types.
LEMMA NothingTypes == NoPoll \in Poller /\ NoCall \in Call /\ NoHook \in Webhook /\ Idle \in Asking
  BY DeliveryAssumption
     DEF NoPoll, Poller, PollStages, AttStatus, NoCall, Call, CallStages, NoHook, Webhook,
         Idle, Asking, RegStages

\* A store call counts its fault.
LEMMA CountType ==
    ASSUME TypeOK, NEW ok \in BOOLEAN, CountStoreCall(ok)
    PROVE  ErrorTypes'
  BY DeliveryAssumption DEF TypeOK, CountStoreCall, ErrorTypes

\* What is written keeps the types of the files.
LEMMA PersistType ==
    ASSUME TypeOK, NEW ok \in BOOLEAN, Persist(ok), att' \in [Txs -> Record], hook' \in [Hooks -> Webhook]
    PROVE  StoreTypes' /\ ErrorTypes'
  <1>1. ErrorTypes'
    BY CountType DEF Persist
  <1>2. disk \in [att : [Txs -> Record], hook : [Hooks -> Webhook]]
    BY DEF TypeOK
  <1>3. disk' \in [att : [Txs -> Record], hook : [Hooks -> Webhook]]
    BY <1>2 DEF Persist
  <1> QED
    BY <1>1, <1>3 DEF StoreTypes

\* So does a change of a record.
LEMMA UpdateType ==
    ASSUME TypeOK, NEW t \in Txs, NEW record \in Record, NEW ok \in BOOLEAN, Update(t, record, ok)
    PROVE  StoreTypes' /\ ErrorTypes'
  <1>1. att' \in [Txs -> Record] /\ hook' \in [Hooks -> Webhook]
    BY DEF TypeOK, Update
  <1> QED
    BY <1>1, PersistType DEF Update

\* And of its status.
LEMMA StatusType ==
    ASSUME TypeOK, NEW t \in Txs, NEW status \in AttStatus, NEW ok \in BOOLEAN,
           UpdateStatus(t, status, ok)
    PROVE  StoreTypes' /\ ErrorTypes'
  <1>1. att[t] \in Record
    BY DEF TypeOK
  <1>2. [att[t] EXCEPT !.status = status] \in Record
    BY <1>1 DEF Record
  <1> QED
    BY <1>2, UpdateType DEF UpdateStatus

\* A change of the stage of one poller.
LEMMA GotoType ==
    ASSUME Typed, NEW p \in Pollers, poll[p].stage # "none", NEW stage \in PollStages, Goto(p, stage)
    PROVE  poll' \in [Pollers -> Poller] /\ PollersBusy'
  <1>1. poll \in [Pollers -> Poller]
    BY DEF Typed, TypeOK
  <1>2. [poll[p] EXCEPT !.stage = stage] \in Poller
    BY <1>1 DEF Poller
  <1>3. poll' = [poll EXCEPT ![p] = [poll[p] EXCEPT !.stage = stage]]
    BY <1>1 DEF Goto
  <1>4. \A q \in Pollers : poll'[q].stage # "none" => poll'[q].tx \in Txs /\ poll'[q].attempt > 0
    BY <1>1, <1>3 DEF Typed, PollersBusy, Poller
  <1> QED
    BY <1>1, <1>2, <1>3, <1>4 DEF PollersBusy

\* It leaves what is owed alone.
LEMMA StageType ==
    ASSUME Typed, NEW p \in Pollers, poll[p].stage # "none", NEW stage \in PollStages, Goto(p, stage),
           UNCHANGED <<owed, forgot>>
    PROVE  PollTypes' /\ PollersBusy'
  BY GotoType DEF PollTypes, Typed, TypeOK

\* The outer catch block.
LEMMA AgainType ==
    ASSUME Typed, NEW p \in Pollers, poll[p].stage # "none", Again(p)
    PROVE  PollTypes' /\ PollersBusy'
  <1>1. poll \in [Pollers -> Poller]
    BY DEF Typed, TypeOK
  <1> DEFINE next == IF poll[p].attempt < MaxPollAttempts
                     THEN [poll[p] EXCEPT !.stage = "polling", !.attempt = @ + 1, !.payload = "none"]
                     ELSE [poll[p] EXCEPT !.stage = "failing", !.payload = "none"]
  <1>2. /\ poll[p] \in Poller /\ poll[p].tx \in Txs /\ poll[p].attempt > 0
        /\ poll[p].attempt \in 0..MaxPollAttempts /\ MaxPollAttempts \in Nat
    BY <1>1, DeliveryAssumption DEF Typed, PollersBusy, Poller
  <1>3. next \in Poller /\ next.tx \in Txs /\ next.attempt > 0
    <2>1. "polling" \in PollStages /\ "failing" \in PollStages /\ "none" \in AttStatus
      BY DEF PollStages, AttStatus
    <2>2. CASE poll[p].attempt < MaxPollAttempts
      <3>1. poll[p].attempt + 1 \in 0..MaxPollAttempts /\ poll[p].attempt + 1 > 0
        BY <1>2, <2>2
      <3> QED
        BY <1>2, <2>1, <2>2, <3>1 DEF Poller
    <2>3. CASE ~(poll[p].attempt < MaxPollAttempts)
      BY <1>2, <2>1, <2>3 DEF Poller
    <2> QED
      BY <2>2, <2>3
  <1>4. poll' = [poll EXCEPT ![p] = next] /\ UNCHANGED <<owed, forgot>>
    BY DEF Again
  <1> HIDE DEF next
  <1>5. \A q \in Pollers : poll'[q].stage # "none" => poll'[q].tx \in Txs /\ poll'[q].attempt > 0
    BY <1>1, <1>3, <1>4 DEF Typed, PollersBusy
  <1>6. poll' \in [Pollers -> Poller]
    BY <1>1, <1>3, <1>4
  <1> QED
    BY <1>4, <1>5, <1>6 DEF PollersBusy, PollTypes, Typed, TypeOK

\* The end of a poller.
LEMMA EndType ==
    ASSUME Typed, NEW p \in Pollers, poll' = [poll EXCEPT ![p] = NoPoll]
    PROVE  poll' \in [Pollers -> Poller] /\ PollersBusy'
  <1>1. poll \in [Pollers -> Poller]
    BY DEF Typed, TypeOK
  <1>2. \A q \in Pollers : poll'[q].stage # "none" => poll'[q].tx \in Txs /\ poll'[q].attempt > 0
    BY <1>1 DEF Typed, PollersBusy, NoPoll
  <1> QED
    BY <1>1, <1>2, NothingTypes DEF PollersBusy

\* Also of one that gives up.
LEMMA GiveUpType ==
    ASSUME Typed, NEW p \in Pollers, GiveUp(p)
    PROVE  PollTypes' /\ PollersBusy'
  <1>1. poll' \in [Pollers -> Poller] /\ PollersBusy'
    BY EndType DEF GiveUp
  <1>2. owed' \in [Pollers -> SUBSET Hooks] /\ forgot' \in Nat
    BY DEF GiveUp, Typed, TypeOK
  <1> QED
    BY <1>1, <1>2 DEF PollTypes

\* The initial state has its types.
LEMMA InitType == Init => Typed
  <1> SUFFICES ASSUME Init
               PROVE  Typed
    OBVIOUS
  <1>1. StoreTypes
    <2>1. [status |-> "none", proof |-> FALSE] \in Record
      BY DEF Record, AttStatus
    <2> QED
      BY <2>1, NothingTypes DEF Init, StoreTypes
  <1>2. PollTypes /\ PollersBusy
    BY NothingTypes DEF Init, PollTypes, PollersBusy, NoPoll
  <1>3. CallTypes /\ AskTypes /\ reg \in [Requests -> Asking] /\ ledger \in [Txs -> Kinds]
    BY NothingTypes DEF Init, CallTypes, AskTypes
  <1>4. ChainTypes /\ ErrorTypes /\ RestTypes
    BY DeliveryAssumption DEF Init, ChainTypes, ErrorTypes, RestTypes
  <1> QED
    BY <1>1, <1>2, <1>3, <1>4, TypeParts DEF Typed

\* The steps of a poller.
LEMMA PollTyped ==
    ASSUME Typed, NEW p \in Pollers, Poll(p)
    PROVE  Typed'
  <1>0. /\ \A q \in Pollers : poll[q] \in Poller
        /\ \A q \in Pollers : poll[q].stage # "none" => poll[q].tx \in Txs
        /\ owed \in [Pollers -> SUBSET Hooks] /\ call \in [Pollers -> [Hooks -> Call]]
        /\ TypeOK
    BY DEF Typed, TypeOK, PollersBusy
  <1>n. {"verifying", "mining", "mined", "erring", "reading", "listing", "calling",
         "polling", "failing"} \subseteq PollStages
    BY DEF PollStages
  <1>m. {"ready", "verified", "failed", "not_found"} \subseteq AttStatus
    BY DEF AttStatus
  <1>1. CASE FetchFails(p)
    <2>1. PollTypes' /\ PollersBusy'
      BY <1>1, AgainType DEF FetchFails, At
    <2> QED
      BY <1>1, <2>1, SameParts, TypeParts DEF FetchFails, Typed, storeVars, asking, chain
  <1>2. ASSUME NEW ok \in BOOLEAN, NoProof(p, ok)
        PROVE  Typed'
    <2>1. poll[p].stage # "none"
      BY <1>2 DEF NoProof, At
    <2>2. PollTypes' /\ PollersBusy'
      BY <1>2, <2>1, AgainType, GiveUpType DEF NoProof
    <2>3. StoreTypes' /\ ErrorTypes'
      BY <1>0, <1>2, <1>m, <2>1, StatusType, SameParts DEF NoProof, Tx, storeVars
    <2> QED
      BY <1>2, <2>2, <2>3, SameParts, TypeParts DEF NoProof, Typed, asking, chain
  <1>3. ASSUME NEW ok \in BOOLEAN, FindProof(p, ok)
        PROVE  Typed'
    <2>1. poll[p].stage # "none"
      BY <1>3 DEF FindProof, StoreProof, At
    <2>2. PollTypes' /\ PollersBusy'
      <3>1. CASE ok
        <4>1. poll' \in [Pollers -> Poller] /\ PollersBusy'
          BY <1>3, <1>n, <2>1, <3>1, GotoType DEF FindProof, StoreProof
        <4>2. owed' \in [Pollers -> SUBSET Hooks] /\ forgot' \in Nat
          <5>1. owed' = [owed EXCEPT ![p] = InForce(Tx(p))] /\ UNCHANGED forgot
            BY <1>3, <3>1 DEF FindProof, StoreProof
          <5>2. InForce(Tx(p)) \in SUBSET Hooks
            BY DEF InForce
          <5>3. forgot \in Nat
            BY <1>0 DEF TypeOK
          <5> QED
            BY <1>0, <5>1, <5>2, <5>3
        <4> QED
          BY <4>1, <4>2 DEF PollTypes
      <3>2. CASE ~ok
        BY <1>3, <2>1, <3>2, AgainType DEF FindProof, StoreProof
      <3> QED
        BY <3>1, <3>2
    <2>3. StoreTypes' /\ ErrorTypes'
      <3>1. [status |-> "ready", proof |-> TRUE] \in Record
        BY <1>m DEF Record
      <3> QED
        BY <1>0, <1>3, <2>1, <3>1, UpdateType DEF FindProof, StoreProof, Tx
    <2> QED
      BY <1>3, <2>2, <2>3, SameParts, TypeParts DEF FindProof, StoreProof, Typed, asking, chain
  <1>4. CASE Send(p)
    <2>1. poll[p].stage # "none"
      BY <1>4 DEF Send, At
    <2>2. PollTypes' /\ PollersBusy'
      BY <1>4, <1>n, <2>1, StageType DEF Send
    <2>3. ChainTypes'
      BY <1>0, <1>4, <2>1 DEF Send, Tx, ChainTypes, Typed, TypeOK
    <2> QED
      BY <1>4, <2>2, <2>3, SameParts, TypeParts DEF Send, Typed, storeVars, asking
  <1>5. CASE SendFails(p) \/ WaitFails(p)
    <2>1. poll[p].stage # "none"
      BY <1>5 DEF SendFails, WaitFails, At
    <2>2. PollTypes' /\ PollersBusy'
      BY <1>5, <1>n, <2>1, StageType DEF SendFails, WaitFails
    <2> QED
      BY <1>5, <2>2, SameParts, TypeParts DEF SendFails, WaitFails, Typed, storeVars, asking, chain
  <1>6. ASSUME NEW ok \in BOOLEAN, NoteVerified(p, ok)
        PROVE  Typed'
    <2>1. poll[p].stage # "none"
      BY <1>6 DEF NoteVerified, At
    <2>2. PollTypes' /\ PollersBusy'
      BY <1>6, <1>n, <2>1, StageType DEF NoteVerified
    <2>3. StoreTypes' /\ ErrorTypes'
      BY <1>0, <1>6, <1>m, <2>1, StatusType DEF NoteVerified, Tx
    <2> QED
      BY <1>6, <2>2, <2>3, SameParts, TypeParts DEF NoteVerified, Typed, asking, chain
  <1>7. ASSUME NEW ok \in BOOLEAN, NoteError(p, ok)
        PROVE  Typed'
    <2>1. poll[p].stage # "none"
      BY <1>7 DEF NoteError, Erred, At
    <2>2. PollTypes' /\ PollersBusy'
      BY <1>7, <1>n, <2>1, StageType, AgainType DEF NoteError, Erred
    <2>3. StoreTypes' /\ ErrorTypes'
      <3>1. poll[p].tx \in Txs /\ att[poll[p].tx].status \in AttStatus
        BY <1>0, <2>1 DEF TypeOK, Record
      <3> QED
        BY <1>0, <1>7, <3>1, StatusType DEF NoteError, Erred, Tx
    <2> QED
      BY <1>7, <2>2, <2>3, SameParts, TypeParts DEF NoteError, Erred, Typed, asking, chain
  <1>8. ASSUME NEW ok \in BOOLEAN, ReadAttestation(p, ok)
        PROVE  Typed'
    <2>1. poll[p].stage # "none" /\ ErrorTypes'
      BY <1>0, <1>8, CountType DEF ReadAttestation, At
    <2>2. PollTypes' /\ PollersBusy'
      <3>1. CASE ~ok
        BY <1>8, <2>1, <3>1, AgainType DEF ReadAttestation
      <3>2. CASE ok
        <4>1. att[Tx(p)].status \in AttStatus
          BY <1>0, <2>1 DEF Tx, Typed, TypeOK, Record
        <4>2. [poll[p] EXCEPT !.stage = "listing", !.payload = att[Tx(p)].status] \in Poller
          BY <1>0, <1>n, <4>1 DEF Poller
        <4>3. /\ poll' = [poll EXCEPT ![p] = [poll[p] EXCEPT !.stage = "listing",
                                                             !.payload = att[Tx(p)].status]]
              /\ UNCHANGED <<owed, forgot>>
          BY <1>0, <1>8, <3>2 DEF ReadAttestation, TypeOK
        <4>5. poll \in [Pollers -> Poller]
          BY DEF Typed, TypeOK
        <4>7. poll'[p].tx = poll[p].tx /\ poll'[p].attempt = poll[p].attempt
          BY <4>3, <4>5 DEF Poller
        <4>8. \A q \in Pollers \ {p} : poll'[q] = poll[q]
          BY <4>3, <4>5
        <4>9. \A q \in Pollers : poll[q].stage # "none" => poll[q].tx \in Txs /\ poll[q].attempt > 0
          BY DEF Typed, PollersBusy
        <4>4. \A q \in Pollers : poll'[q].stage # "none" => poll'[q].tx \in Txs /\ poll'[q].attempt > 0
          BY <2>1, <4>7, <4>8, <4>9
        <4> HIDE DEF Tx
        <4>6. poll' \in [Pollers -> Poller]
          BY <4>2, <4>3, <4>5
        <4> QED
          BY <1>0, <4>3, <4>4, <4>6 DEF PollersBusy, PollTypes, TypeOK
      <3> QED
        BY <3>1, <3>2
    <2> QED
      BY <1>8, <2>1, <2>2, SameParts, TypeParts DEF ReadAttestation, Typed, asking, chain
  <1>9. ASSUME NEW ok \in BOOLEAN, ListWebhooks(p, ok)
        PROVE  Typed'
    <2>1. poll[p].stage # "none" /\ ErrorTypes'
      BY <1>0, <1>9, CountType DEF ListWebhooks, Listed, At
    <2>2. PollTypes' /\ PollersBusy'
      BY <1>9, <1>n, <2>1, AgainType, StageType DEF ListWebhooks, Listed
    <2>3. CallTypes'
      <3>1. [stage |-> "trying", attempt |-> 1] \in Call
        BY DeliveryAssumption DEF Call, CallStages
      <3> DEFINE row == [h \in Hooks |-> IF h \in InForce(Tx(p)) THEN [stage |-> "trying", attempt |-> 1]
                                                                 ELSE NoCall]
      <3>2. row \in [Hooks -> Call]
        BY <3>1, NothingTypes
      <3>3. call' = call \/ call' = [call EXCEPT ![p] = row]
        BY <1>9 DEF ListWebhooks, Listed
      <3> HIDE DEF row
      <3> QED
        BY <1>0, <3>2, <3>3 DEF CallTypes
    <2> QED
      BY <1>9, <2>1, <2>2, <2>3, SameParts, TypeParts DEF ListWebhooks, Listed, Typed, asking, chain
  <1>10. ASSUME NEW ok \in BOOLEAN, FailPoll(p, ok)
         PROVE  Typed'
    <2>1. poll[p].stage # "none"
      BY <1>10 DEF FailPoll, At
    <2>2. PollTypes' /\ PollersBusy'
      BY <1>10, GiveUpType DEF FailPoll
    <2>3. StoreTypes' /\ ErrorTypes'
      BY <1>0, <1>10, <1>m, <2>1, StatusType DEF FailPoll, Tx
    <2> QED
      BY <1>10, <2>2, <2>3, SameParts, TypeParts DEF FailPoll, Typed, asking, chain
  <1>11. CASE EndPoll(p)
    <2>1. poll' \in [Pollers -> Poller] /\ PollersBusy'
      BY <1>11, EndType DEF EndPoll
    <2>2. CallTypes' /\ owed' \in [Pollers -> SUBSET Hooks] /\ forgot' \in Nat
      BY <1>0, <1>11, NothingTypes DEF EndPoll, CallTypes, TypeOK
    <2> QED
      BY <1>11, <2>1, <2>2, SameParts, TypeParts DEF EndPoll, Typed, PollTypes, storeVars, asking, chain
  <1> QED
    BY <1>1, <1>2, <1>3, <1>4, <1>5, <1>6, <1>7, <1>8, <1>9, <1>10, <1>11 DEF Poll

\* The calls of webhooks.
LEMMA CallTyped ==
    ASSUME Typed, NEW p \in Pollers, NEW h \in Hooks, CallHook(p, h)
    PROVE  Typed'
  <1>1. PICK checked \in Answers :
            \/ Unsafe(p, h, checked)
            \/ \E x \in UNION Answers : Post(p, h, checked, x) \/ PostFails(p, h, checked, x)
    BY DEF CallHook
  <1>2. call \in [Pollers -> [Hooks -> Call]] /\ call[p][h] \in Call /\ RestTypes
    BY TypeParts DEF Typed, TypeOK
  <1>3. RestTypes'
    <2>1. ASSUME NEW x \in UNION Answers, Connect(checked, x)
          PROVE  RestTypes'
      <3>1. <<checked, x>> \in (SUBSET Addresses) \X Addresses
        BY DeliveryAssumption
      <3>2. Reserved(x) => errors \in 0..MaxFaults
        BY DEF Typed, TypeOK
      <3> QED
        BY <1>2, <2>1, <3>1, <3>2, DeliveryAssumption DEF Connect, RestTypes
    <2>2. CASE UNCHANGED <<mishaps, reached>>
      BY <2>2, SameParts
    <2> QED
      BY <1>1, <2>1, <2>2 DEF Post, Unsafe, PostFails
  <1>5. PICK c \in Call : SetCall(p, h, c)
    <2>1. Settled \in Call
      BY DeliveryAssumption DEF Settled, Call, CallStages
    <2>2. call[p][h].attempt < MaxRetries => [call[p][h] EXCEPT !.attempt = @ + 1] \in Call
      BY <1>2, DeliveryAssumption DEF Call
    <2> QED
      BY <1>1, <2>1, <2>2 DEF Post, Unsafe, PostFails
  <1>6. CallTypes'
    BY <1>2, <1>5 DEF SetCall, CallTypes
  <1>7. UNCHANGED <<ledger, storeVars, asking, poll, owed, forgot, reg, chain>>
    BY <1>1 DEF Post, Unsafe, PostFails
  <1> QED
    BY <1>3, <1>6, <1>7, SameParts, TypeParts DEF Typed, storeVars, asking, chain

\* Requests that subscribe.
LEMMA SubscribeTyped ==
    ASSUME Typed, NEW r \in Requests, Subscribe(r)
    PROVE  Typed'
  <1>0. /\ reg \in [Requests -> Asking] /\ hook \in [Hooks -> Webhook] /\ reg[r] \in Asking
        /\ att \in [Txs -> Record] /\ TypeOK
    BY DEF Typed, TypeOK
  <1>1. ASSUME NEW k \in Keys, NEW t \in Txs, Register(r, k, t)
        PROVE  Typed'
    <2>1. [stage |-> "counting", tx |-> t, key |-> k] \in Asking
      BY DEF Asking, RegStages
    <2>2. reg' \in [Requests -> Asking]
      BY <1>0, <1>1, <2>1 DEF Register
    <2> QED
      BY <1>1, <2>2, SameParts, TypeParts DEF Register, Typed, storeVars, asking, polling, chain
  <1>2. CASE CountHooks(r)
    <2>1. [reg[r] EXCEPT !.stage = "saving"] \in Asking
      BY <1>0 DEF Asking, RegStages
    <2>2. reg' \in [Requests -> Asking]
      BY <1>0, <1>2, <2>1, NothingTypes DEF CountHooks
    <2> QED
      BY <1>2, <2>2, SameParts, TypeParts DEF CountHooks, Typed, storeVars, asking, polling, chain
  <1>3. CASE RegisterFails(r)
    <2>1. ErrorTypes'
      BY <1>0, <1>3, CountType DEF RegisterFails
    <2>2. reg' \in [Requests -> Asking]
      BY <1>0, <1>3, NothingTypes DEF RegisterFails
    <2> QED
      BY <1>3, <2>1, <2>2, SameParts, TypeParts DEF RegisterFails, Typed, asking, polling, chain
  <1>4. ASSUME NEW h \in Hooks, NEW ok \in BOOLEAN, SaveHook(r, h, ok)
        PROVE  Typed'
    <2>1. [tx |-> reg[r].tx, key |-> reg[r].key] \in Webhook
      BY <1>0 DEF Asking, Webhook
    <2>2. hook' \in [Hooks -> Webhook] /\ reg' \in [Requests -> Asking] /\ att' \in [Txs -> Record]
      BY <1>0, <1>4, <2>1, NothingTypes DEF SaveHook
    <2>3. StoreTypes' /\ ErrorTypes'
      BY <1>0, <1>4, <2>2, PersistType DEF SaveHook
    <2> QED
      BY <1>4, <2>2, <2>3, SameParts, TypeParts DEF SaveHook, Typed, asking, polling, chain
  <1> QED
    BY <1>1, <1>2, <1>3, <1>4 DEF Subscribe

\* Requests for an attestation.
LEMMA RequestTyped ==
    ASSUME Typed, NEW t \in Txs, Request(t)
    PROVE  Typed'
  <1>0. /\ asked \in [Txs -> Nat] /\ rounds \in [Txs -> Nat] /\ TypeOK
        /\ att[t].status \in AttStatus
    BY DEF Typed, TypeOK, Record
  <1>m. {"verified", "failed", "pending"} \subseteq AttStatus /\ Created(t) \in AttStatus
    BY <1>0 DEF AttStatus, Created
  <1>1. CASE CloseLedger(t)
    <2>1. ledger' \in [Txs -> Kinds]
      BY <1>1 DEF CloseLedger, Typed, TypeOK
    <2> QED
      BY <1>1, <2>1, SameParts, TypeParts DEF CloseLedger, Typed, storeVars, asking, polling, chain
  <1>2. CASE Ask(t) \/ RequestRefused(t)
    <2>1. AskTypes'
      BY <1>0, <1>2 DEF Ask, RequestRefused, Answered, AskTypes
    <2> QED
      BY <1>2, <2>1, SameParts, TypeParts DEF Ask, RequestRefused, Typed, storeVars, polling, chain
  <1>3. ASSUME NEW ok \in BOOLEAN, FoundVerified(t, ok)
        PROVE  Typed'
    <2>1. AskTypes'
      BY <1>0, <1>3 DEF FoundVerified, Answered, AskTypes
    <2>2. StoreTypes' /\ ErrorTypes'
      BY <1>0, <1>3, <1>m, StatusType DEF FoundVerified
    <2> QED
      BY <1>3, <2>1, <2>2, SameParts, TypeParts DEF FoundVerified, Typed, polling, chain
  <1>4. ASSUME NEW ok \in BOOLEAN, SubmissionFails(t, ok)
        PROVE  Typed'
    <2>1. AskTypes'
      BY <1>0, <1>4 DEF SubmissionFails, Submit, Answered, AskTypes
    <2>2. StoreTypes' /\ ErrorTypes'
      BY <1>0, <1>4, <1>m, StatusType DEF SubmissionFails
    <2> QED
      BY <1>4, <2>1, <2>2, SameParts, TypeParts DEF SubmissionFails, Typed, polling, chain
  <1> QED
    BY <1>1, <1>2, <1>3, <1>4 DEF Request

\* Every step keeps the types.
LEMMA NextTyped == Typed /\ [Next]_vars => Typed'
  <1> SUFFICES ASSUME Typed, [Next]_vars
               PROVE  Typed'
    OBVIOUS
  <1>0. /\ poll \in [Pollers -> Poller] /\ owed \in [Pollers -> SUBSET Hooks]
        /\ mempool \subseteq Pollers \X Txs /\ asked \in [Txs -> Nat] /\ rounds \in [Txs -> Nat]
        /\ TypeOK
    BY DEF Typed, TypeOK
  <1>1. ASSUME NEW p \in Pollers, NEW t \in Txs, Submitted(p, t)
        PROVE  Typed'
    <2>1. [NoPoll EXCEPT !.stage = "polling", !.tx = t, !.attempt = 1] \in Poller
      <3>1. 1 \in 0..MaxPollAttempts /\ "polling" \in PollStages /\ "none" \in AttStatus
        BY DeliveryAssumption DEF PollStages, AttStatus
      <3> QED
        BY <3>1 DEF NoPoll, Poller
    <2>2. poll' \in [Pollers -> Poller] /\ PollersBusy'
      BY <1>0, <1>1, <2>1 DEF Submitted, Typed, PollersBusy, NoPoll
    <2>3. StoreTypes' /\ ErrorTypes'
      <3>1. "pending" \in AttStatus
        BY DEF AttStatus
      <3> QED
        BY <1>0, <1>1, <3>1, StatusType DEF Submitted
    <2>4. AskTypes'
      BY <1>0, <1>1 DEF Submitted, Submit, Answered, AskTypes
    <2>5. PollTypes'
      BY <1>0, <1>1, <2>2 DEF Submitted, PollTypes, TypeOK
    <2> QED
      BY <1>1, <2>2, <2>3, <2>4, <2>5, SameParts, TypeParts DEF Submitted, Typed, chain
  <1>2. ASSUME NEW e \in mempool, ProcessPaymentProof(e)
        PROVE  Typed'
    <2>1. e[1] \in Pollers /\ e[2] \in Txs
      BY <1>0
    <2>2. ChainTypes'
      BY <1>0, <1>2, <2>1 DEF ProcessPaymentProof, ChainTypes, Typed, TypeOK
    <2>3. poll' \in [Pollers -> Poller] /\ PollersBusy'
      <3> DEFINE stage == IF poll[e[1]].stage # "mining" THEN poll[e[1]].stage
                          ELSE IF payments[e[2]] = 0 THEN "mined" ELSE "erring"
      <3>1. poll' = [poll EXCEPT ![e[1]].stage = stage]
        BY <1>2 DEF ProcessPaymentProof
      <3>2. stage \in PollStages /\ (stage # "none" => poll[e[1]].stage # "none")
        BY <1>0, <2>1 DEF Poller, PollStages
      <3> HIDE DEF stage
      <3>3. poll' \in [Pollers -> Poller]
        BY <1>0, <2>1, <3>1, <3>2 DEF Poller
      <3>4. \A q \in Pollers : poll'[q].stage # "none" => poll'[q].tx \in Txs /\ poll'[q].attempt > 0
        BY <1>0, <2>1, <3>1, <3>2 DEF Typed, PollersBusy, Poller
      <3> QED
        BY <3>3, <3>4 DEF PollersBusy
    <2>4. PollTypes'
      BY <1>0, <1>2, <2>3 DEF ProcessPaymentProof, PollTypes, TypeOK
    <2> QED
      BY <1>2, <2>2, <2>3, <2>4, SameParts, TypeParts DEF ProcessPaymentProof, Typed, storeVars, asking
  <1>3. CASE Crash
    <2>1. PollTypes' /\ PollersBusy'
      BY <1>0, <1>3, NothingTypes DEF Crash, PollTypes, PollersBusy, NoPoll, TypeOK
    <2>2. CallTypes' /\ reg' \in [Requests -> Asking] /\ AskTypes'
      BY <1>0, <1>3, NothingTypes DEF Crash, CallTypes, AskTypes
    <2>3. RestTypes'
      BY <1>3, DeliveryAssumption DEF Crash, RestTypes, Typed, TypeOK
    <2>4. StoreTypes'
      BY <1>3 DEF Crash, StoreTypes, Typed, TypeOK
    <2> QED
      BY <1>3, <2>1, <2>2, <2>3, <2>4, SameParts, TypeParts DEF Crash, Typed, chain
  <1>4. CASE UNCHANGED vars
    BY <1>4, SameParts, TypeParts DEF vars, Typed, storeVars, asking, polling, chain
  <1> QED
    BY <1>1, <1>2, <1>3, <1>4, PollTyped, CallTyped, SubscribeTyped, RequestTyped DEF Next

\* Every variable keeps its type.
THEOREM TypeCorrect == Spec => []TypeOK
  <1>1. Typed => TypeOK
    BY DEF Typed
  <1> QED
    BY <1>1, InitType, NextTyped, PTL DEF Spec

-----------------------------------------------------------------------------
(***************************************************************************)
(* webhook-url.ts                                                          *)
(***************************************************************************)
\* The comparisons of bytes find every reserved block, and nothing else.
THEOREM PrivateIsReserved == \A x \in Addresses : IsPrivateIPv4(x) <=> Reserved(x)
  <1> SUFFICES ASSUME NEW x \in Addresses
               PROVE  IsPrivateIPv4(x) <=> Reserved(x)
    OBVIOUS
  <1>0. PICK a \in 0..255, b \in 0..255 : x[1] = a /\ x[2] = b
    BY DEF Addresses, Byte
  <1> DEFINE n == 256 * a + b
  <1>1. Reserved(x) <=>
            \/ n \div 256 = 0 \/ n \div 256 = 10 \/ n \div 256 = 127
            \/ n \div 1 = 256 * 169 + 254 \/ n \div 1 = 256 * 192 + 168
            \/ n \div 16 = (256 * 172 + 16) \div 16
            \/ n \div 64 = (256 * 100 + 64) \div 64
            \/ n \div 2 = (256 * 198 + 18) \div 2
            \/ n \div 8192 = (256 * 224) \div 8192
    <2>1. \A size \in Nat : Prefix(x, size) = n \div size
      BY <1>0 DEF Prefix
    <2>2. Reserved(x) <=>
              \/ Prefix(x, 256) = Prefix(<<0, 0>>, 256)
              \/ Prefix(x, 256) = Prefix(<<10, 0>>, 256)
              \/ Prefix(x, 256) = Prefix(<<127, 0>>, 256)
              \/ Prefix(x, 1) = Prefix(<<169, 254>>, 1)
              \/ Prefix(x, 16) = Prefix(<<172, 16>>, 16)
              \/ Prefix(x, 1) = Prefix(<<192, 168>>, 1)
              \/ Prefix(x, 64) = Prefix(<<100, 64>>, 64)
              \/ Prefix(x, 2) = Prefix(<<198, 18>>, 2)
              \/ Prefix(x, 8192) = Prefix(<<224, 0>>, 8192)
      BY DEF Reserved, ReservedBlocks
    <2>3. /\ Prefix(<<0, 0>>, 256) = 0 /\ Prefix(<<10, 0>>, 256) = 10
          /\ Prefix(<<127, 0>>, 256) = 127
          /\ Prefix(<<169, 254>>, 1) = 256 * 169 + 254 /\ Prefix(<<192, 168>>, 1) = 256 * 192 + 168
          /\ Prefix(<<172, 16>>, 16) = (256 * 172 + 16) \div 16
          /\ Prefix(<<100, 64>>, 64) = (256 * 100 + 64) \div 64
          /\ Prefix(<<198, 18>>, 2) = (256 * 198 + 18) \div 2
          /\ Prefix(<<224, 0>>, 8192) = (256 * 224) \div 8192
      BY DEF Prefix
    <2> HIDE DEF n
    <2> QED
      BY <2>1, <2>2, <2>3
  <1>2. n \div 256 = a /\ n \div 1 = n
    OBVIOUS
  <1>3. n = 256 * 169 + 254 <=> a = 169 /\ b = 254
    OBVIOUS
  <1>4. n = 256 * 192 + 168 <=> a = 192 /\ b = 168
    OBVIOUS
  <1>5. n \div 16 = (256 * 172 + 16) \div 16 <=> a = 172 /\ b \in 16..31
    OBVIOUS
  <1>6. n \div 64 = (256 * 100 + 64) \div 64 <=> a = 100 /\ b \in 64..127
    OBVIOUS
  <1>7. n \div 2 = (256 * 198 + 18) \div 2 <=> a = 198 /\ b \in {18, 19}
    OBVIOUS
  <1>8. n \div 8192 = (256 * 224) \div 8192 <=> a >= 224
    OBVIOUS
  <1> HIDE DEF n
  <1> QED
    BY <1>0, <1>1, <1>2, <1>3, <1>4, <1>5, <1>6, <1>7, <1>8 DEF IsPrivateIPv4

-----------------------------------------------------------------------------
(***************************************************************************)
(* What the steps of the actors leave alone                                *)
(***************************************************************************)
\* A step of a poller.
LEMMA PollFrame ==
    ASSUME Typed, NEW p \in Pollers, Poll(p)
    PROVE  /\ UNCHANGED <<ledger, hook, asked, rounds, reg, payments, reached, mishaps>>
           /\ \A q \in Pollers \ {p} : poll'[q] = poll[q] /\ owed'[q] = owed[q] /\ call'[q] = call[q]
           /\ poll[p].stage # "none" /\ poll[p].tx \in Txs /\ poll[p] \in Poller
  <1>0. /\ poll \in [Pollers -> Poller] /\ owed \in [Pollers -> SUBSET Hooks]
        /\ call \in [Pollers -> [Hooks -> Call]]
        /\ \A q \in Pollers : poll[q].stage # "none" => poll[q].tx \in Txs
    BY DEF Typed, TypeOK, PollersBusy
  <1> DEFINE Frame == /\ UNCHANGED <<ledger, hook, asked, rounds, reg, payments, reached, mishaps>>
                      /\ \A q \in Pollers \ {p} : /\ poll'[q] = poll[q]
                                                  /\ owed'[q] = owed[q] /\ call'[q] = call[q]
                      /\ poll[p].stage # "none"
  <1>a. ASSUME Again(p) \/ GiveUp(p) \/ \E stage : Goto(p, stage)
        PROVE  \A q \in Pollers \ {p} : poll'[q] = poll[q]
    BY <1>0, <1>a DEF Again, GiveUp, Goto
  <1>b. Again(p) \/ GiveUp(p) => \A q \in Pollers \ {p} : owed'[q] = owed[q]
    BY <1>0 DEF Again, GiveUp
  <1>1. FetchFails(p) => Frame
    BY <1>a, <1>b DEF FetchFails, At, storeVars, asking, chain
  <1>2. ASSUME NEW ok \in BOOLEAN, NoProof(p, ok)
        PROVE  Frame
    BY <1>2, <1>a, <1>b DEF NoProof, At, UpdateStatus, Update, storeVars, asking, chain
  <1>3. ASSUME NEW ok \in BOOLEAN, FindProof(p, ok)
        PROVE  Frame
    BY <1>0, <1>3, <1>a, <1>b DEF FindProof, StoreProof, At, Update, asking, chain
  <1>4. Send(p) \/ SendFails(p) \/ WaitFails(p) => Frame
    BY <1>a DEF Send, SendFails, WaitFails, At, storeVars, asking, chain
  <1>5. ASSUME NEW ok \in BOOLEAN, NoteVerified(p, ok)
        PROVE  Frame
    BY <1>5, <1>a DEF NoteVerified, At, UpdateStatus, Update, asking, chain
  <1>6. ASSUME NEW ok \in BOOLEAN, NoteError(p, ok)
        PROVE  Frame
    BY <1>6, <1>a, <1>b DEF NoteError, Erred, At, UpdateStatus, Update, asking, chain
  <1>7. ASSUME NEW ok \in BOOLEAN, FailPoll(p, ok)
        PROVE  Frame
    BY <1>7, <1>a, <1>b DEF FailPoll, At, UpdateStatus, Update, asking, chain
  <1>8. ASSUME NEW ok \in BOOLEAN, ReadAttestation(p, ok)
        PROVE  Frame
    <2>1. \A q \in Pollers \ {p} : poll'[q] = poll[q]
      BY <1>0, <1>8, <1>a DEF ReadAttestation
    <2> QED
      BY <1>8, <1>b, <2>1 DEF ReadAttestation, At, asking, chain
  <1>9. ASSUME NEW ok \in BOOLEAN, ListWebhooks(p, ok)
        PROVE  Frame
    <2>1. \A q \in Pollers \ {p} : call'[q] = call[q]
      BY <1>0, <1>9 DEF ListWebhooks, Listed
    <2> QED
      BY <1>9, <1>a, <1>b, <2>1 DEF ListWebhooks, Listed, At, asking, chain
  <1>10. EndPoll(p) => Frame
    BY <1>0 DEF EndPoll, At, storeVars, asking, chain
  <1> QED
    BY <1>0, <1>1, <1>2, <1>3, <1>4, <1>5, <1>6, <1>7, <1>8, <1>9, <1>10 DEF Poll

\* A step of anybody else, without the crash.
LEMMA OtherFrame ==
    /\ \A p \in Pollers : \A h \in Hooks : CallHook(p, h) =>
          UNCHANGED <<ledger, storeVars, asking, poll, owed, forgot, reg, chain>>
    /\ \A r \in Requests : Subscribe(r) =>
          UNCHANGED <<ledger, att, asking, polling, chain, reached, mishaps>>
    /\ \A t \in Txs : Request(t) => UNCHANGED <<hook, polling, reg, chain, reached, mishaps>>
    /\ \A p \in Pollers : \A t \in Txs : Submitted(p, t) =>
          UNCHANGED <<ledger, hook, call, owed, forgot, reg, chain, reached, mishaps>>
    /\ \A e \in mempool : ProcessPaymentProof(e) =>
          UNCHANGED <<ledger, storeVars, asking, call, owed, forgot, reg, reached, mishaps>>
  <1>1. ASSUME NEW p \in Pollers, NEW h \in Hooks, CallHook(p, h)
        PROVE  UNCHANGED <<ledger, storeVars, asking, poll, owed, forgot, reg, chain>>
    BY <1>1 DEF CallHook, Post, Unsafe, PostFails
  <1>2. ASSUME NEW r \in Requests, Subscribe(r)
        PROVE  UNCHANGED <<ledger, att, asking, polling, chain, reached, mishaps>>
    BY <1>2 DEF Subscribe, Register, CountHooks, SaveHook, RegisterFails, storeVars
  <1>3. ASSUME NEW t \in Txs, Request(t)
        PROVE  UNCHANGED <<hook, polling, reg, chain, reached, mishaps>>
    BY <1>3 DEF Request, CloseLedger, Ask, RequestRefused, FoundVerified, SubmissionFails,
                UpdateStatus, Update, storeVars
  <1>4. ASSUME NEW p \in Pollers, NEW t \in Txs, Submitted(p, t)
        PROVE  UNCHANGED <<ledger, hook, call, owed, forgot, reg, chain, reached, mishaps>>
    BY <1>4 DEF Submitted, UpdateStatus, Update
  <1>5. ASSUME NEW e \in mempool, ProcessPaymentProof(e)
        PROVE  UNCHANGED <<ledger, storeVars, asking, call, owed, forgot, reg, reached, mishaps>>
    BY <1>5 DEF ProcessPaymentProof
  <1> QED
    BY <1>1, <1>2, <1>3, <1>4, <1>5

-----------------------------------------------------------------------------
(***************************************************************************)
(* Calls that get to a reserved address                                    *)
(***************************************************************************)
\* An attempt gets to a reserved address only if the name resolves to
\* something else than what was checked, which had no such address.
THEOREM OnlyRebound == Spec => []ReservedOnlyRebound
  <1>1. Typed /\ ReservedOnlyRebound /\ [Next]_vars => ReservedOnlyRebound'
    <2> SUFFICES ASSUME Typed, ReservedOnlyRebound, [Next]_vars
                 PROVE  ReservedOnlyRebound'
      OBVIOUS
    <2>1. ASSUME NEW checked \in Answers, SafeWebhookUrl(checked), NEW x \in UNION Answers,
                 Connect(checked, x)
          PROVE  ReservedOnlyRebound'
      <3>1. \A y \in checked : ~Reserved(y)
        BY <2>1, DeliveryAssumption, PrivateIsReserved DEF SafeWebhookUrl
      <3>2. CASE ~Reserved(x)
        BY <2>1, <3>2 DEF Connect, ReservedOnlyRebound
      <3>3. CASE Reserved(x)
        <4>1. x \notin checked
          BY <3>1, <3>3
        <4>2. reached' = reached \cup {<<checked, x>>}
          BY <2>1, <3>3 DEF Connect
        <4> HIDE DEF ReservedOnlyRebound
        <4> QED
          BY <3>1, <4>1, <4>2 DEF ReservedOnlyRebound
      <3> QED
        BY <3>2, <3>3
    <2>2. CASE UNCHANGED reached
      BY <2>2 DEF ReservedOnlyRebound
    <2>3. ASSUME NEW p \in Pollers, NEW h \in Hooks, CallHook(p, h)
          PROVE  ReservedOnlyRebound'
      BY <2>1, <2>2, <2>3 DEF CallHook, Post, PostFails, Unsafe
    <2>4. CASE Crash \/ UNCHANGED vars
      BY <2>2, <2>4 DEF Crash, vars
    <2>5. CASE \E p \in Pollers : Poll(p)
      BY <2>2, <2>5, PollFrame
    <2> QED
      BY <2>2, <2>3, <2>4, <2>5, OtherFrame DEF Next
  <1>2. Init => ReservedOnlyRebound
    BY DEF Init, ReservedOnlyRebound
  <1> QED
    BY <1>1, <1>2, InitType, NextTyped, PTL DEF Spec

-----------------------------------------------------------------------------
(***************************************************************************)
(* The preflight                                                           *)
(***************************************************************************)
\* What the lookup makes of what it hears.
LEMMA LookupFacts ==
    ASSUME NEW says, NEW heard, heard = {says[e] : e \in Endpoints}
    PROVE  /\ LookupXrplTx(says) = "found" => "found" \in heard
           /\ LookupXrplTx(says) = "unavailable" =>
                 heard \cap {"found", "notFound"} = {} /\ "throws" \in heard
           /\ LookupXrplTx(says) = "not_found" =>
                 "found" \notin heard /\ ("notFound" \in heard \/ "throws" \notin heard)
           /\ LookupXrplTx(says) \in {"found", "not_found", "unavailable"}
  BY DEF LookupXrplTx

\* Whatever the endpoints say, the verdict is of what they said, and what
\* passes is a payment, be it one that is not validated yet.
THEOREM PreflightIsSound == Spec => []PreflightSound
  <1>1. TypeOK => PreflightSound
    <2> SUFFICES ASSUME TypeOK, NEW t \in Txs, NEW says \in [Endpoints -> Says(t)]
                 PROVE  LET verdict == PreflightXrplPayment(t, says)
                            heard   == {says[e] : e \in Endpoints}
                        IN  /\ verdict = "ok" => ledger[t] \in {"payment", "proposed"} /\ "found" \in heard
                            /\ verdict = "blind" => heard \subseteq {"throws", "busy"} /\ "throws" \in heard
                            /\ verdict = "TX_NOT_ON_LEDGER" =>
                                  "found" \notin heard /\ ("notFound" \in heard \/ heard \subseteq {"busy"})
                            /\ verdict \in {"TX_NOT_PAYMENT", "TX_NOT_NATIVE_XRP", "TX_TOO_OLD"} =>
                                  ledger[t] \in {"other", "issued", "old"}
      BY DEF PreflightSound
    <2> DEFINE lookup == LookupXrplTx(says)
               heard  == {says[e] : e \in Endpoints}
    <2>1. ledger[t] \in {"absent", "proposed", "payment", "other", "issued", "old"}
      BY DeliveryAssumption DEF TypeOK
    <2>2. /\ heard \subseteq {"notFound", "throws", "busy", "found"}
          /\ "found" \in heard => ledger[t] # "absent"
      BY DEF Says
    <2>3. /\ lookup = "found" => "found" \in heard
          /\ lookup = "unavailable" => heard \cap {"found", "notFound"} = {} /\ "throws" \in heard
          /\ lookup = "not_found" =>
                "found" \notin heard /\ ("notFound" \in heard \/ "throws" \notin heard)
          /\ lookup \in {"found", "not_found", "unavailable"}
      BY LookupFacts
    <2>4. PreflightXrplPayment(t, says) = Verdict(t, lookup)
      BY DEF PreflightXrplPayment
    <2> HIDE DEF lookup, heard
    <2>5. CASE lookup = "unavailable"
      <3>1. Verdict(t, lookup) = "blind"
        BY <2>5 DEF Verdict
      <3> QED
        BY <2>2, <2>3, <2>4, <2>5, <3>1 DEF heard
    <2>6. CASE lookup = "not_found"
      <3>1. Verdict(t, lookup) = "TX_NOT_ON_LEDGER"
        BY <2>6 DEF Verdict
      <3> QED
        BY <2>2, <2>3, <2>4, <2>6, <3>1 DEF heard
    <2>7. CASE lookup = "found"
      <3>1. /\ Verdict(t, lookup) \in {"ok", "TX_NOT_PAYMENT", "TX_NOT_NATIVE_XRP", "TX_TOO_OLD"}
            /\ Verdict(t, lookup) = "ok" <=> ledger[t] \notin {"other", "issued", "old"}
        BY <2>7 DEF Verdict
      <3> QED
        BY <2>1, <2>2, <2>3, <2>4, <2>7, <3>1 DEF heard
    <2> QED
      BY <2>3, <2>5, <2>6, <2>7
  <1> QED
    BY <1>1, TypeCorrect, PTL

-----------------------------------------------------------------------------
(***************************************************************************)
(* How a poller moves                                                      *)
(***************************************************************************)
Proven == {"verifying", "mining", "mined", "erring", "reading", "listing", "calling"}

\* It keeps its transaction until it ends, it reaches the stages after the
\* proof only from one another or by storing it, it does not take its own
\* transaction for mined, and it is calling only once it has listed the
\* webhooks.
LEMMA PollMoves ==
    ASSUME Typed, NEW p \in Pollers, Poll(p)
    PROVE  /\ poll'[p].stage # "none" => poll'[p].tx = poll[p].tx
           /\ poll'[p].stage # "mined"
           /\ poll'[p].stage \in Proven =>
                 poll[p].stage \in Proven \/ \E ok \in BOOLEAN : FindProof(p, ok) /\ ok
           /\ poll'[p].stage = "calling" =>
                 poll[p].stage = "listing" /\ \E ok \in BOOLEAN : ListWebhooks(p, ok) /\ ok
           /\ poll'[p].stage = "listing" =>
                 poll[p].stage = "reading" /\ poll'[p].payload = att[poll[p].tx].status
  <1>0. poll \in [Pollers -> Poller] /\ poll' \in [Pollers -> Poller]
    BY PollTyped DEF Typed, TypeOK
  <1> DEFINE Stays(stage) == poll'[p].tx = poll[p].tx /\ poll'[p].stage = stage
             Over == poll'[p].stage \in {"none", "polling", "failing"}
                     /\ (poll'[p].stage # "none" => poll'[p].tx = poll[p].tx)
  <1>1. ASSUME NEW stage \in PollStages, Goto(p, stage)
        PROVE  Stays(stage)
    BY <1>0, <1>1 DEF Goto, Poller
  <1>2. Again(p) => Over
    BY <1>0 DEF Again, Poller
  <1>3. GiveUp(p) \/ EndPoll(p) => Over
    BY <1>0 DEF GiveUp, EndPoll, NoPoll
  <1>4. {"verifying", "mining", "erring", "reading", "listing", "calling"} \subseteq PollStages
    BY DEF PollStages
  <1>n. Over => poll'[p].stage \notin Proven /\ poll'[p].stage # "mined"
    BY DEF Proven
  <1> HIDE DEF Over
  <1>5. FetchFails(p) => Over
    BY <1>2 DEF FetchFails
  <1>6. ASSUME NEW ok \in BOOLEAN, NoProof(p, ok) \/ FailPoll(p, ok)
        PROVE  Over
    BY <1>2, <1>3, <1>6 DEF NoProof, FailPoll
  <1>7. ASSUME NEW ok \in BOOLEAN, FindProof(p, ok)
        PROVE  Over \/ (ok /\ (Stays("verifying") \/ Stays("reading")))
    BY <1>1, <1>2, <1>4, <1>7 DEF FindProof, StoreProof
  <1>8. Send(p) \/ SendFails(p) \/ WaitFails(p) =>
            (Stays("mining") \/ Stays("erring")) /\ poll[p].stage \in Proven
    BY <1>1, <1>4 DEF Send, SendFails, WaitFails, At, Proven
  <1>9. ASSUME NEW ok \in BOOLEAN, NoteVerified(p, ok) \/ NoteError(p, ok)
        PROVE  (Over \/ Stays("erring") \/ Stays("reading")) /\ poll[p].stage \in Proven
    BY <1>1, <1>2, <1>4, <1>9 DEF NoteVerified, NoteError, Erred, At, Proven
  <1>10. ASSUME NEW ok \in BOOLEAN, ReadAttestation(p, ok)
         PROVE  /\ poll[p].stage = "reading"
                /\ Over \/ (Stays("listing") /\ poll'[p].payload = att[poll[p].tx].status)
    <2> DEFINE x == att[Tx(p)].status
    <2>1. poll[p].stage = "reading"
      BY <1>10 DEF ReadAttestation, At
    <2>2. CASE Again(p)
      BY <1>2, <2>1, <2>2
    <2>3. CASE ~Again(p)
      <3>1. poll' = [poll EXCEPT ![p].stage = "listing", ![p].payload = x]
        BY <1>10, <2>3 DEF ReadAttestation
      <3> HIDE DEF x
      <3>2. poll'[p].stage = "listing" /\ poll'[p].tx = poll[p].tx /\ poll'[p].payload = x
        BY <1>0, <3>1 DEF Poller
      <3> QED
        BY <2>1, <3>2 DEF x, Tx
    <2> QED
      BY <2>2, <2>3
  <1>11. ASSUME NEW ok \in BOOLEAN, ListWebhooks(p, ok)
         PROVE  poll[p].stage = "listing" /\ (Over \/ (ok /\ Stays("calling")))
    BY <1>1, <1>2, <1>4, <1>11 DEF ListWebhooks, Listed, At
  <1>s. "reading" \in Proven /\ "listing" \in Proven
    BY DEF Proven
  <1>12. CASE \E ok \in BOOLEAN : FindProof(p, ok)
    BY <1>2, <1>7, <1>n, <1>12 DEF Over
  <1>13. CASE \E ok \in BOOLEAN : NoteVerified(p, ok) \/ NoteError(p, ok)
    BY <1>9, <1>n, <1>13 DEF Over
  <1>14. CASE \E ok \in BOOLEAN : ReadAttestation(p, ok)
    BY <1>10, <1>n, <1>s, <1>14 DEF Over
  <1>15. CASE \E ok \in BOOLEAN : ListWebhooks(p, ok)
    BY <1>11, <1>n, <1>s, <1>15 DEF Over
  <1>16. CASE Send(p) \/ SendFails(p) \/ WaitFails(p)
    BY <1>8, <1>16
  <1>17. CASE \/ FetchFails(p) \/ EndPoll(p)
              \/ \E ok \in BOOLEAN : NoProof(p, ok) \/ FailPoll(p, ok)
    BY <1>3, <1>5, <1>6, <1>n, <1>17 DEF Over
  <1> QED
    BY <1>12, <1>13, <1>14, <1>15, <1>16, <1>17 DEF Poll

\* A poller whose step is not its own keeps its place, or leaves "mining",
\* or is new, or is gone.
LEMMA OtherMoves ==
    ASSUME Typed, [Next]_vars, NEW q \in Pollers
    PROVE  \/ Poll(q)
           \/ \E t \in Txs : Submitted(q, t)
           \/ Crash
           \/ poll'[q] = poll[q] /\ owed'[q] = owed[q]
           \/ /\ poll[q].stage = "mining" /\ poll'[q].stage \in {"mined", "erring"}
              /\ poll'[q].tx = poll[q].tx /\ poll'[q].attempt = poll[q].attempt
              /\ owed'[q] = owed[q] /\ UNCHANGED <<storeVars, asking>>
              /\ poll'[q].stage = "mined" =>
                    \E e \in mempool : e[1] = q /\ payments'[e[2]] = 1
  <1>0. /\ poll \in [Pollers -> Poller] /\ owed \in [Pollers -> SUBSET Hooks]
        /\ mempool \subseteq Pollers \X Txs /\ payments \in [Txs -> 0..1]
    BY DEF Typed, TypeOK
  <1>1. ASSUME NEW p \in Pollers \ {q}, Poll(p)
        PROVE  poll'[q] = poll[q] /\ owed'[q] = owed[q]
    BY <1>1, PollFrame
  <1>2. ASSUME NEW p \in Pollers \ {q}, NEW t \in Txs, Submitted(p, t)
        PROVE  poll'[q] = poll[q] /\ owed'[q] = owed[q]
    BY <1>0, <1>2 DEF Submitted
  <1>3. ASSUME NEW e \in mempool, ProcessPaymentProof(e)
        PROVE  \/ poll'[q] = poll[q] /\ owed'[q] = owed[q]
               \/ /\ poll[q].stage = "mining" /\ poll'[q].stage \in {"mined", "erring"}
                  /\ poll'[q].tx = poll[q].tx /\ poll'[q].attempt = poll[q].attempt
                  /\ owed'[q] = owed[q] /\ UNCHANGED <<storeVars, asking>>
                  /\ poll'[q].stage = "mined" => e[1] = q /\ payments'[e[2]] = 1
    <2> DEFINE stage == IF poll[e[1]].stage # "mining" THEN poll[e[1]].stage
                        ELSE IF payments[e[2]] = 0 THEN "mined" ELSE "erring"
    <2>1. /\ poll' = [poll EXCEPT ![e[1]].stage = stage] /\ UNCHANGED <<owed, storeVars, asking>>
          /\ payments' = [payments EXCEPT ![e[2]] = 1]
          /\ e[1] \in Pollers /\ e[2] \in Txs
      BY <1>0, <1>3 DEF ProcessPaymentProof
    <2>2. CASE q # e[1]
      BY <1>0, <2>1, <2>2
    <2>3. CASE q = e[1] /\ poll[q].stage # "mining"
      <3>1. [poll[q] EXCEPT !.stage = poll[q].stage] = poll[q]
        BY <1>0 DEF Poller
      <3>2. poll'[q] = [poll[q] EXCEPT !.stage = poll[q].stage]
        BY <1>0, <2>1, <2>3
      <3> QED
        BY <2>1, <3>1, <3>2
    <2>4. CASE q = e[1] /\ poll[q].stage = "mining"
      <3>1. stage \in {"mined", "erring"}
        BY <2>4
      <3> HIDE DEF stage
      <3> QED
        BY <1>0, <2>1, <2>4, <3>1 DEF Poller
    <2> QED
      BY <2>2, <2>3, <2>4
  <1>5. ASSUME NEW p \in Pollers, NEW h \in Hooks, CallHook(p, h)
        PROVE  UNCHANGED <<poll, owed>>
    BY <1>5, OtherFrame
  <1>6. ASSUME NEW r \in Requests, Subscribe(r)
        PROVE  UNCHANGED <<poll, owed>>
    BY <1>6, OtherFrame DEF polling
  <1>7. ASSUME NEW t \in Txs, Request(t)
        PROVE  UNCHANGED <<poll, owed>>
    BY <1>7, OtherFrame DEF polling
  <1>8. CASE UNCHANGED vars
    BY <1>8 DEF vars, polling
  <1> QED
    BY <1>1, <1>2, <1>3, <1>5, <1>6, <1>7, <1>8 DEF Next

-----------------------------------------------------------------------------
(***************************************************************************)
(* The contract.  What is in the mempool is of the poller that sent it,    *)
(* which does not take another transaction as long as it is there, and     *)
(* the files say no more than the process did.                             *)
(***************************************************************************)
Processed ==
    /\ VerifiedIsProcessed
    /\ \A t \in Txs : disk.att[t].status = "verified" => payments[t] = 1
    /\ \A p \in Pollers : At(p, "mined") => payments[Tx(p)] = 1
    /\ \A e \in mempool : poll[e[1]].stage # "none" => poll[e[1]].tx = e[2]

\* A record that may be called verified is written, or not.
LEMMA SoundUpdate ==
    ASSUME Typed, Processed, NEW t \in Txs, NEW record \in Record, NEW ok \in BOOLEAN,
           Update(t, record, ok), record.status = "verified" => payments[t] = 1
    PROVE  \A u \in Txs : att'[u].status = "verified" \/ disk'.att[u].status = "verified"
                              => payments[u] = 1
  <1>0. att \in [Txs -> Record] /\ disk \in [att : [Txs -> Record], hook : [Hooks -> Webhook]]
    BY DEF Typed, TypeOK
  <1>1. att' = att \/ att' = [att EXCEPT ![t] = record]
    BY DEF Update
  <1>2. \A u \in Txs : att'[u].status = "verified" => payments[u] = 1
    BY <1>0, <1>1 DEF Processed, VerifiedIsProcessed
  <1>3. disk'.att = disk.att \/ disk'.att = att'
    BY <1>0 DEF Update, Persist
  <1> QED
    BY <1>2, <1>3 DEF Processed

\* So is a status.
LEMMA SoundStatus ==
    ASSUME Typed, Processed, NEW t \in Txs, NEW status \in AttStatus, NEW ok \in BOOLEAN,
           UpdateStatus(t, status, ok), status = "verified" => payments[t] = 1
    PROVE  \A u \in Txs : att'[u].status = "verified" \/ disk'.att[u].status = "verified"
                              => payments[u] = 1
  <1>1. att[t] \in Record
    BY DEF Typed, TypeOK
  <1>2. [att[t] EXCEPT !.status = status] \in Record /\ [att[t] EXCEPT !.status = status].status = status
    BY <1>1 DEF Record
  <1> QED
    BY <1>2, SoundUpdate DEF UpdateStatus

\* A step of a poller.
LEMMA PollProcessed ==
    ASSUME Typed, Processed, NEW p \in Pollers, Poll(p)
    PROVE  Processed'
  <1>0. /\ att \in [Txs -> Record] /\ mempool \subseteq Pollers \X Txs /\ poll[p].tx \in Txs
        /\ UNCHANGED payments /\ \A q \in Pollers \ {p} : poll'[q] = poll[q]
        /\ poll[p].stage # "none"
    BY PollFrame DEF Typed, TypeOK
  <1> DEFINE Sound == \A u \in Txs : att'[u].status = "verified" \/ disk'.att[u].status = "verified"
                                         => payments[u] = 1
  <1>m. {"ready", "verified", "failed", "not_found"} \subseteq AttStatus
        /\ [status |-> "ready", proof |-> TRUE] \in Record
    BY DEF AttStatus, Record
  <1>s. UNCHANGED <<att, disk>> => Sound
    BY DEF Processed, VerifiedIsProcessed
  <1>1. CASE FetchFails(p) \/ Send(p) \/ SendFails(p) \/ WaitFails(p) \/ EndPoll(p)
    <2>1. UNCHANGED <<att, disk>>
      BY <1>1 DEF FetchFails, Send, SendFails, WaitFails, EndPoll, storeVars
    <2> HIDE DEF Sound
    <2>2. Sound
      BY <1>s, <2>1
    <2>3. mempool' = mempool \/ mempool' = mempool \cup {<<p, poll[p].tx>>}
      BY <1>1 DEF FetchFails, Send, SendFails, WaitFails, EndPoll, chain, Tx
    <2> QED
      BY <2>2, <2>3, <1>0, PollMoves DEF Sound, Processed, VerifiedIsProcessed, At, Tx
  <1>2. ASSUME NEW ok \in BOOLEAN,
               \/ NoProof(p, ok) \/ FindProof(p, ok) \/ NoteVerified(p, ok) \/ NoteError(p, ok)
               \/ FailPoll(p, ok) \/ ReadAttestation(p, ok) \/ ListWebhooks(p, ok)
        PROVE  Processed'
    <2> HIDE DEF Sound
    <2>1. ASSUME NoProof(p, ok)
          PROVE  Sound
      <3>1. UNCHANGED <<att, disk>> \/ UpdateStatus(poll[p].tx, "not_found", ok)
        BY <2>1 DEF NoProof, storeVars, Tx
      <3>2. CASE UpdateStatus(poll[p].tx, "not_found", ok)
        BY <1>0, <1>m, <3>2, SoundStatus DEF Sound
      <3> QED
        BY <1>s, <2>1, <3>1, <3>2
    <2>2. ASSUME FindProof(p, ok)
          PROVE  Sound
      <3>1. Update(poll[p].tx, [status |-> "ready", proof |-> TRUE], ok)
        BY <2>2 DEF FindProof, StoreProof, Tx
      <3> QED
        BY <1>0, <1>m, <3>1, SoundUpdate DEF Sound
    <2>3. ASSUME NoteVerified(p, ok)
          PROVE  Sound
      <3>1. UpdateStatus(poll[p].tx, "verified", ok) /\ payments[poll[p].tx] = 1
        BY <2>3 DEF NoteVerified, Processed, Tx
      <3> QED
        BY <1>0, <1>m, <3>1, SoundStatus DEF Sound
    <2>4. ASSUME NoteError(p, ok)
          PROVE  Sound
      <3>1. UpdateStatus(poll[p].tx, att[poll[p].tx].status, ok)
        BY <2>4 DEF NoteError, Erred, Tx
      <3>2. att[poll[p].tx].status \in AttStatus
        BY <1>0 DEF Record
      <3>3. att[poll[p].tx].status = "verified" => payments[poll[p].tx] = 1
        BY <1>0 DEF Processed, VerifiedIsProcessed
      <3> QED
        BY <1>0, <3>1, <3>2, <3>3, SoundStatus DEF Sound
    <2>5. ASSUME FailPoll(p, ok)
          PROVE  Sound
      <3>1. UpdateStatus(poll[p].tx, "failed", ok)
        BY <2>5 DEF FailPoll, Tx
      <3> QED
        BY <1>0, <1>m, <3>1, SoundStatus DEF Sound
    <2>6. ASSUME ReadAttestation(p, ok) \/ ListWebhooks(p, ok)
          PROVE  Sound
      <3>1. UNCHANGED <<att, disk>>
        BY <2>6 DEF ReadAttestation, ListWebhooks, Listed
      <3> QED
        BY <1>s, <3>1
    <2>7. Sound
      BY <1>2, <2>1, <2>2, <2>3, <2>4, <2>5, <2>6
    <2>8. mempool' = mempool
      BY <1>2 DEF NoProof, FindProof, StoreProof, NoteVerified, NoteError, Erred, FailPoll,
                  ReadAttestation, ListWebhooks, Listed, chain
    <2> QED
      BY <2>7, <2>8, <1>0, PollMoves DEF Sound, Processed, VerifiedIsProcessed, At, Tx
  <1> QED
    BY <1>1, <1>2 DEF Poll

\* Every step keeps that.
LEMMA NextProcessed == Typed /\ Processed /\ [Next]_vars => Processed'
  <1> SUFFICES ASSUME Typed, Processed, [Next]_vars
               PROVE  Processed'
    OBVIOUS
  <1>0. /\ poll \in [Pollers -> Poller] /\ att \in [Txs -> Record]
        /\ payments \in [Txs -> 0..1] /\ mempool \subseteq Pollers \X Txs
        /\ \A p \in Pollers : poll[p].stage # "none" => poll[p].tx \in Txs
    BY DEF Typed, TypeOK, PollersBusy
  <1>1. ASSUME NEW p \in Pollers, NEW t \in Txs, Submitted(p, t)
        PROVE  Processed'
    <2>1. /\ poll' = [poll EXCEPT ![p] = [NoPoll EXCEPT !.stage = "polling", !.tx = t, !.attempt = 1]]
          /\ UpdateStatus(t, "pending", TRUE) /\ UNCHANGED <<mempool, payments>>
          /\ \A e \in mempool : e[1] # p
      BY <1>1 DEF Submitted, chain
    <2>2. "pending" \in AttStatus
      BY DEF AttStatus
    <2>3. \A u \in Txs : att'[u].status = "verified" \/ disk'.att[u].status = "verified"
                             => payments[u] = 1
      BY <2>1, <2>2, SoundStatus
    <2> QED
      BY <1>0, <2>1, <2>3 DEF Processed, VerifiedIsProcessed, NoPoll, At, Tx
  <1>2. ASSUME NEW e \in mempool, ProcessPaymentProof(e)
        PROVE  Processed'
    <2>1. /\ payments' = [payments EXCEPT ![e[2]] = 1] /\ mempool' = mempool \ {e}
          /\ UNCHANGED <<att, disk>> /\ e[2] \in Txs
      BY <1>0, <1>2 DEF ProcessPaymentProof, storeVars
    <2>2. \A t \in Txs : payments[t] = 1 => payments'[t] = 1
      BY <1>0, <2>1
    <2>3. ~Crash
      BY <1>2 DEF Crash, ProcessPaymentProof, chain
    <2>4. ASSUME NEW q \in Pollers
          PROVE  /\ poll'[q].stage # "none" => poll[q].stage # "none" /\ poll'[q].tx = poll[q].tx
                 /\ poll'[q].stage = "mined" => payments'[poll[q].tx] = 1
      <3> DEFINE stage == IF poll[e[1]].stage # "mining" THEN poll[e[1]].stage
                          ELSE IF payments[e[2]] = 0 THEN "mined" ELSE "erring"
      <3>1. /\ poll' = [poll EXCEPT ![e[1]].stage = stage] /\ e[1] \in Pollers
        BY <1>0, <1>2 DEF ProcessPaymentProof
      <3>2. CASE q # e[1]
        <4>1. poll'[q] = poll[q]
          BY <1>0, <3>1, <3>2
        <4> QED
          BY <1>0, <2>2, <4>1 DEF Processed, At, Tx
      <3>3. CASE q = e[1]
        <4>1. poll'[q].stage = stage /\ poll'[q].tx = poll[q].tx
          BY <1>0, <3>1, <3>3 DEF Poller
        <4>2. stage = "mined" => poll[q].stage = "mined" \/ poll[q].stage = "mining"
          BY <3>3
        <4>3. poll[q].stage # "none" => poll[q].tx = e[2]
          BY <3>3 DEF Processed
        <4>4. stage # "none" => poll[q].stage # "none"
          BY <3>3
        <4> HIDE DEF stage
        <4> QED
          BY <1>0, <2>1, <4>1, <4>2, <4>3, <4>4
      <3> QED
        BY <3>2, <3>3
    <2> QED
      BY <1>0, <2>1, <2>2, <2>4 DEF Processed, VerifiedIsProcessed, At, Tx
  <1>3. ASSUME NEW p \in Pollers, Poll(p)
        PROVE  Processed'
    BY <1>3, PollProcessed
  <1>4. CASE Crash
    <2>1. /\ att' = disk.att /\ UNCHANGED <<disk, mempool, payments>>
          /\ poll' = [p \in Pollers |-> NoPoll]
      BY <1>4 DEF Crash, chain
    <2> QED
      BY <1>0, <2>1 DEF Processed, VerifiedIsProcessed, NoPoll, At, Tx
  <1>5. CASE UNCHANGED <<att, disk, poll, mempool, payments>>
    BY <1>5 DEF Processed, VerifiedIsProcessed, At, Tx
  <1>6. ASSUME NEW p \in Pollers, NEW h \in Hooks, CallHook(p, h)
        PROVE  Processed'
    BY <1>5, <1>6, OtherFrame DEF storeVars, chain
  <1>7. ASSUME NEW r \in Requests, Subscribe(r)
        PROVE  Processed'
    <2>1. UNCHANGED <<att, poll, mempool, payments>>
      BY <1>7, OtherFrame DEF polling, chain
    <2>2. disk'.att = disk.att \/ disk'.att = att
      <3>1. ASSUME NEW h \in Hooks, NEW ok \in BOOLEAN, SaveHook(r, h, ok)
            PROVE  disk'.att = disk.att \/ disk'.att = att
        BY <2>1, <3>1 DEF SaveHook, Persist, Typed, TypeOK
      <3>2. CASE CountHooks(r) \/ RegisterFails(r) \/ \E k \in Keys, t \in Txs : Register(r, k, t)
        BY <3>2 DEF CountHooks, RegisterFails, Register, storeVars
      <3> QED
        BY <1>7, <3>1, <3>2 DEF Subscribe
    <2> QED
      BY <2>1, <2>2 DEF Processed, VerifiedIsProcessed, At, Tx
  <1>8. ASSUME NEW t \in Txs, Request(t)
        PROVE  Processed'
    <2>1. UNCHANGED <<poll, mempool, payments>>
      BY <1>8, OtherFrame DEF polling, chain
    <2>2. CASE CloseLedger(t) \/ Ask(t) \/ RequestRefused(t)
      <3>1. UNCHANGED <<att, disk>>
        BY <2>2 DEF CloseLedger, Ask, RequestRefused, storeVars
      <3> QED
        BY <1>5, <2>1, <3>1
    <2>3. ASSUME NEW ok \in BOOLEAN, FoundVerified(t, ok) \/ SubmissionFails(t, ok)
          PROVE  \A u \in Txs : att'[u].status = "verified" \/ disk'.att[u].status = "verified"
                                    => payments[u] = 1
      <3>1. PICK status : /\ status \in {"verified", "failed", Created(t)}
                          /\ UpdateStatus(t, status, ok)
                          /\ status = "verified" => payments[t] = 1 \/ status = Created(t)
        BY <2>3 DEF FoundVerified, SubmissionFails
      <3>2. /\ Created(t) \in AttStatus /\ "verified" \in AttStatus /\ "failed" \in AttStatus
            /\ Created(t) = "verified" => payments[t] = 1
        BY <1>0 DEF Created, AttStatus, Record, Processed, VerifiedIsProcessed
      <3> QED
        BY <3>1, <3>2, SoundStatus
    <2>4. CASE \E ok \in BOOLEAN : FoundVerified(t, ok) \/ SubmissionFails(t, ok)
      BY <2>1, <2>3, <2>4 DEF Processed, VerifiedIsProcessed, At, Tx
    <2> QED
      BY <1>8, <2>2, <2>4 DEF Request
  <1>9. CASE UNCHANGED vars
    BY <1>5, <1>9 DEF vars, storeVars, chain, polling
  <1> QED
    BY <1>1, <1>2, <1>3, <1>4, <1>6, <1>7, <1>8, <1>9 DEF Next

\* "verified" is only said of a payment the contract has, after a crash too.
THEOREM VerifiedProcessed == Spec => []VerifiedIsProcessed
  <1>1. Init => Typed /\ Processed
    BY InitType DEF Init, Processed, VerifiedIsProcessed, At, NoPoll
  <1>2. (Typed /\ Processed) /\ [Next]_vars => (Typed /\ Processed)'
    BY NextTyped, NextProcessed
  <1>3. Typed /\ Processed => VerifiedIsProcessed
    BY DEF Processed
  <1> QED
    BY <1>1, <1>2, <1>3, PTL DEF Spec

-----------------------------------------------------------------------------
(***************************************************************************)
(* The webhooks of the store, and those that a restart reads               *)
(***************************************************************************)
Owned(x) == x.tx \in Txs /\ x.key \in Keys /\ x.key = Owner[x.tx]

Hooked ==
    /\ \A h \in Hooks : hook[h] # NoHook => Owned(hook[h])
    /\ \A h \in Hooks : disk.hook[h] = NoHook \/ disk.hook[h] = hook[h]
    /\ \A r \in Requests : reg[r].stage # "idle" => Owned(reg[r])

\* A write of a record takes the webhooks to the files, or does not.
LEMMA UpdateHooks ==
    ASSUME Typed, NEW t, NEW record, NEW ok \in BOOLEAN, Update(t, record, ok)
    PROVE  hook' = hook /\ (disk'.hook = disk.hook \/ disk'.hook = hook)
  <1>1. disk \in [att : [Txs -> Record], hook : [Hooks -> Webhook]]
    BY DEF Typed, TypeOK
  <1> QED
    BY <1>1 DEF Update, Persist

\* What a step does to the webhooks: nothing but to write them, unless it is
\* one of a request for a webhook or a crash.
LEMMA HookSteps ==
    ASSUME Typed, [Next]_vars
    PROVE  \/ UNCHANGED <<hook, reg>> /\ (disk'.hook = disk.hook \/ disk'.hook = hook)
           \/ Crash
           \/ \E r \in Requests : Subscribe(r)
  <1> DEFINE Written == disk'.hook = disk.hook \/ disk'.hook = hook
  <1>1. ASSUME NEW p \in Pollers, Poll(p)
        PROVE  UNCHANGED <<hook, reg>> /\ Written
    <2>1. CASE FetchFails(p) \/ Send(p) \/ SendFails(p) \/ WaitFails(p) \/ EndPoll(p)
      BY <2>1 DEF FetchFails, Send, SendFails, WaitFails, EndPoll, storeVars
    <2>2. ASSUME NEW ok \in BOOLEAN, NoProof(p, ok)
          PROVE  Written
      <3>1. UNCHANGED storeVars \/ UpdateStatus(Tx(p), "not_found", ok)
        BY <2>2 DEF NoProof
      <3> QED
        BY <3>1, UpdateHooks DEF UpdateStatus, storeVars
    <2>3. ASSUME NEW ok \in BOOLEAN, FindProof(p, ok)
          PROVE  Written
      BY <2>3, UpdateHooks DEF FindProof, StoreProof
    <2>4. ASSUME NEW ok \in BOOLEAN, NoteVerified(p, ok) \/ NoteError(p, ok) \/ FailPoll(p, ok)
          PROVE  Written
      <3>1. PICK status : UpdateStatus(Tx(p), status, ok)
        BY <2>4 DEF NoteVerified, NoteError, Erred, FailPoll
      <3> QED
        BY <3>1, UpdateHooks DEF UpdateStatus
    <2>5. ASSUME NEW ok \in BOOLEAN, ReadAttestation(p, ok) \/ ListWebhooks(p, ok)
          PROVE  Written
      BY <2>5 DEF ReadAttestation, ListWebhooks, Listed
    <2> HIDE DEF Written
    <2>6. Written
      BY <1>1, <2>1, <2>2, <2>3, <2>4, <2>5 DEF Poll, Written
    <2> QED
      BY <1>1, <2>6, PollFrame
  <1>2. ASSUME NEW p \in Pollers, NEW h \in Hooks, CallHook(p, h)
        PROVE  UNCHANGED <<hook, reg>> /\ Written
    BY <1>2, OtherFrame DEF storeVars
  <1>3. ASSUME NEW t \in Txs, Request(t)
        PROVE  UNCHANGED <<hook, reg>> /\ Written
    <2>1. ASSUME NEW ok \in BOOLEAN, FoundVerified(t, ok) \/ SubmissionFails(t, ok)
          PROVE  Written
      <3>1. PICK status : UpdateStatus(t, status, ok)
        BY <2>1 DEF FoundVerified, SubmissionFails
      <3> QED
        BY <3>1, UpdateHooks DEF UpdateStatus
    <2>2. CASE CloseLedger(t) \/ Ask(t) \/ RequestRefused(t)
      BY <2>2 DEF CloseLedger, Ask, RequestRefused, storeVars
    <2> HIDE DEF Written
    <2>3. Written
      BY <1>3, <2>1, <2>2 DEF Request, Written
    <2> QED
      BY <1>3, <2>3, OtherFrame
  <1>4. ASSUME NEW p \in Pollers, NEW t \in Txs, Submitted(p, t)
        PROVE  UNCHANGED <<hook, reg>> /\ Written
    <2>1. UpdateStatus(t, "pending", TRUE)
      BY <1>4 DEF Submitted
    <2> QED
      BY <1>4, <2>1, UpdateHooks, OtherFrame DEF UpdateStatus
  <1>5. CASE (\E e \in mempool : ProcessPaymentProof(e)) \/ UNCHANGED vars
    BY <1>5 DEF ProcessPaymentProof, vars, storeVars
  <1> QED
    BY <1>1, <1>2, <1>3, <1>4, <1>5 DEF Next

\* Every step keeps the owners.
LEMMA NextHooked == Typed /\ Hooked /\ [Next]_vars => Hooked'
  <1> SUFFICES ASSUME Typed, Hooked, [Next]_vars
               PROVE  Hooked'
    OBVIOUS
  <1>0. /\ reg \in [Requests -> Asking] /\ hook \in [Hooks -> Webhook]
        /\ disk \in [att : [Txs -> Record], hook : [Hooks -> Webhook]]
    BY DEF Typed, TypeOK
  <1>1. CASE UNCHANGED <<hook, reg>> /\ (disk'.hook = disk.hook \/ disk'.hook = hook)
    BY <1>1 DEF Hooked
  <1>2. CASE Crash
    BY <1>2 DEF Crash, Hooked, Idle
  <1>3. ASSUME NEW r \in Requests, NEW k \in Keys, NEW t \in Txs, Register(r, k, t)
        PROVE  Hooked'
    BY <1>0, <1>3 DEF Register, Hooked, Owned, storeVars
  <1>4. ASSUME NEW r \in Requests, CountHooks(r)
        PROVE  Hooked'
    <2>1. reg[r].stage = "counting" /\ hook' = hook /\ disk' = disk
      BY <1>4 DEF CountHooks, storeVars
    <2>2. reg' = [reg EXCEPT ![r] = Idle] \/ reg' = [reg EXCEPT ![r] = [@ EXCEPT !.stage = "saving"]]
      BY <1>4 DEF CountHooks
    <2>3. Owned([reg[r] EXCEPT !.stage = "saving"])
      BY <1>0, <2>1 DEF Hooked, Owned, Asking
    <2> QED
      BY <1>0, <2>1, <2>2, <2>3 DEF Hooked, Idle
  <1>5. ASSUME NEW r \in Requests, NEW h \in Hooks, NEW ok \in BOOLEAN, SaveHook(r, h, ok)
        PROVE  Hooked'
    <2>1. Owned(reg[r]) /\ hook[h] = NoHook /\ disk.hook[h] = NoHook
      BY <1>0, <1>5 DEF SaveHook, Hooked
    <2>2. /\ hook' = [hook EXCEPT ![h] = [tx |-> reg[r].tx, key |-> reg[r].key]]
          /\ reg' = [reg EXCEPT ![r] = Idle]
          /\ disk'.hook = disk.hook \/ disk'.hook = hook'
      <3>1. /\ hook' = [hook EXCEPT ![h] = [tx |-> reg[r].tx, key |-> reg[r].key]]
            /\ reg' = [reg EXCEPT ![r] = Idle] /\ Persist(ok)
        BY <1>5 DEF SaveHook
      <3>2. Persist(ok)
        BY <3>1
      <3>3. disk' \in {disk, [disk EXCEPT !.att = att'], [att |-> att', hook |-> hook']}
        BY <3>2 DEF Persist
      <3>4. disk'.hook = disk.hook \/ disk'.hook = hook'
        BY <1>0, <3>3
      <3> QED
        BY <3>1, <3>4
    <2>3. \A g \in Hooks : hook'[g] # NoHook => Owned(hook'[g])
      BY <1>0, <2>1, <2>2 DEF Hooked, Owned
    <2>4. \A g \in Hooks : disk'.hook[g] = NoHook \/ disk'.hook[g] = hook'[g]
      BY <1>0, <2>1, <2>2 DEF Hooked
    <2> QED
      BY <1>0, <2>2, <2>3, <2>4 DEF Hooked, Idle
  <1>6. ASSUME NEW r \in Requests, RegisterFails(r)
        PROVE  Hooked'
    BY <1>0, <1>6 DEF RegisterFails, Hooked, Idle
  <1> QED
    BY <1>1, <1>2, <1>3, <1>4, <1>5, <1>6, HookSteps DEF Subscribe

\* In the initial state there is none.
LEMMA InitHooked == Init => Hooked
  BY DEF Init, Hooked, Idle

\* Every webhook of the store belongs to the owner of its attestation.
THEOREM HooksAreOwned == Spec => []HooksOwned
  <1>1. Hooked => HooksOwned
    BY DEF Hooked, HooksOwned, Owned
  <1>2. (Typed /\ Hooked) /\ [Next]_vars => (Typed /\ Hooked)'
    BY NextTyped, NextHooked
  <1> QED
    BY <1>1, <1>2, InitType, InitHooked, PTL DEF Spec

\* Requests past the count, of a key.
Saving(k) == {r \in Requests : reg[r].stage = "saving" /\ reg[r].key = k}

\* Sets that are counted are finite.
LEMMA CountedFinite ==
    ASSUME NEW k
    PROVE  /\ IsFiniteSet(HooksOf(k)) /\ Cardinality(HooksOf(k)) \in Nat
           /\ IsFiniteSet(Saving(k)) /\ Cardinality(Saving(k)) \in Nat
           /\ Cardinality(Saving(k)) <= Cardinality(Requests)
           /\ Cardinality(Requests) \in Nat
  <1>1. IsFiniteSet(Hooks) /\ IsFiniteSet(Requests)
    BY DeliveryAssumption
  <1>2. HooksOf(k) \subseteq Hooks /\ Saving(k) \subseteq Requests
    BY DEF HooksOf, Saving
  <1> QED
    BY <1>1, <1>2, FS_Subset, FS_CardinalityType

\* Every step keeps the sum of webhooks and requests past the count.
LEMMA NextLimit ==
    Typed /\ Hooked /\ Requests # {} /\ HookLimitKept /\ [Next]_vars => HookLimitKept'
  <1> SUFFICES ASSUME Typed, Hooked, Requests # {}, HookLimitKept, [Next]_vars, NEW k \in Keys
               PROVE  Cardinality(HooksOf(k)') + Cardinality(Saving(k)')
                          <= HookLimit + Cardinality(Requests) - 1
    BY DEF HookLimitKept, Saving
  <1>0. /\ reg \in [Requests -> Asking] /\ hook \in [Hooks -> Webhook] /\ HookLimit \in Nat
        /\ k # NoKey
    BY DeliveryAssumption DEF Typed, TypeOK
  <1>1. Cardinality(HooksOf(k)) + Cardinality(Saving(k)) <= HookLimit + Cardinality(Requests) - 1
    BY DEF HookLimitKept, Saving
  <1>2. CASE UNCHANGED <<hook, reg>>
    BY <1>1, <1>2 DEF HooksOf, Saving
  <1>3. CASE HooksOf(k)' = HooksOf(k) /\ Saving(k)' \subseteq Saving(k)
    <2>1. Cardinality(Saving(k)') <= Cardinality(Saving(k)) /\ Cardinality(Saving(k)') \in Nat
      BY <1>3, CountedFinite, FS_Subset, FS_CardinalityType
    <2> QED
      BY <1>0, <1>1, <1>3, <2>1, CountedFinite
  <1>4. CASE Crash
    <2>1. HooksOf(k)' \subseteq HooksOf(k)
      BY <1>0, <1>4 DEF Crash, HooksOf, Hooked, NoHook
    <2>2. Saving(k)' = {}
      BY <1>4 DEF Crash, Saving, Idle
    <2>3. /\ Cardinality(HooksOf(k)') <= Cardinality(HooksOf(k)) /\ Cardinality(HooksOf(k)') \in Nat
          /\ Cardinality(Saving(k)') = 0
      BY <2>1, <2>2, CountedFinite, FS_Subset, FS_CardinalityType, FS_EmptySet
    <2> QED
      BY <1>0, <1>1, <2>3, CountedFinite
  <1>5. ASSUME NEW r \in Requests, NEW j \in Keys, NEW t \in Txs, Register(r, j, t)
        PROVE  HooksOf(k)' = HooksOf(k) /\ Saving(k)' \subseteq Saving(k)
    BY <1>0, <1>5 DEF Register, HooksOf, Saving, storeVars
  <1>6. ASSUME NEW r \in Requests, RegisterFails(r)
        PROVE  HooksOf(k)' = HooksOf(k) /\ Saving(k)' \subseteq Saving(k)
    BY <1>0, <1>6 DEF RegisterFails, HooksOf, Saving, Idle
  <1>7. ASSUME NEW r \in Requests, CountHooks(r)
        PROVE  Cardinality(HooksOf(k)') + Cardinality(Saving(k)')
                   <= HookLimit + Cardinality(Requests) - 1
    <2>1. HooksOf(k)' = HooksOf(k) /\ reg[r].stage = "counting"
      BY <1>7 DEF CountHooks, HooksOf, storeVars
    <2>2. CASE Cardinality(HooksOf(reg[r].key)) >= HookLimit \/ reg[r].key # k
      <3>1. Saving(k)' \subseteq Saving(k)
        BY <1>0, <1>7, <2>2 DEF CountHooks, Saving, Idle, Asking
      <3> QED
        BY <1>3, <2>1, <3>1
    <2>3. CASE ~(Cardinality(HooksOf(reg[r].key)) >= HookLimit) /\ reg[r].key = k
      <3>1. Cardinality(HooksOf(k)) < HookLimit
        BY <1>0, <2>3, CountedFinite
      <3>2. Saving(k)' \subseteq Requests
        BY DEF Saving
      <3>3. Cardinality(Saving(k)') <= Cardinality(Requests) /\ Cardinality(Saving(k)') \in Nat
        BY <3>2, DeliveryAssumption, FS_Subset, FS_CardinalityType
      <3> QED
        BY <1>0, <2>1, <3>1, <3>3, CountedFinite
    <2> QED
      BY <2>2, <2>3
  <1>8. ASSUME NEW r \in Requests, NEW h \in Hooks, NEW ok \in BOOLEAN, SaveHook(r, h, ok)
        PROVE  Cardinality(HooksOf(k)') + Cardinality(Saving(k)')
                   <= HookLimit + Cardinality(Requests) - 1
    <2>1. /\ hook[h] = NoHook /\ hook' = [hook EXCEPT ![h] = [tx |-> reg[r].tx, key |-> reg[r].key]]
          /\ reg[r].stage = "saving" /\ reg' = [reg EXCEPT ![r] = Idle]
      BY <1>8 DEF SaveHook
    <2>2. h \notin HooksOf(k)
      BY <1>0, <2>1 DEF HooksOf, NoHook
    <2>3. CASE reg[r].key # k
      <3>1. HooksOf(k)' = HooksOf(k)
        BY <1>0, <2>1, <2>2, <2>3 DEF HooksOf
      <3>2. Saving(k)' \subseteq Saving(k)
        BY <1>0, <2>1 DEF Saving, Idle
      <3> QED
        BY <1>3, <3>1, <3>2
    <2>4. CASE reg[r].key = k
      <3>1. HooksOf(k)' = HooksOf(k) \cup {h}
        BY <1>0, <2>1, <2>4 DEF HooksOf
      <3>2. r \in Saving(k) /\ Saving(k)' = Saving(k) \ {r}
        BY <1>0, <2>1, <2>4 DEF Saving, Idle
      <3>3. Cardinality(HooksOf(k)') = Cardinality(HooksOf(k)) + 1
        BY <2>2, <3>1, CountedFinite, FS_AddElement
      <3>4. Cardinality(Saving(k)') = Cardinality(Saving(k)) - 1
        BY <3>2, CountedFinite, FS_RemoveElement
      <3> QED
        BY <1>0, <1>1, <3>3, <3>4, CountedFinite
    <2> QED
      BY <2>3, <2>4
  <1> QED
    BY <1>2, <1>3, <1>4, <1>5, <1>6, <1>7, <1>8, HookSteps DEF Subscribe

\* The requests that race go over the limit by one each at most, but for
\* the first of them.
THEOREM HookLimitHolds == Requests # {} => (Spec => []HookLimitKept)
  <1> SUFFICES ASSUME Requests # {}
               PROVE  Spec => []HookLimitKept
    OBVIOUS
  <1>1. Init => HookLimitKept
    <2> SUFFICES ASSUME Init, NEW k \in Keys
                 PROVE  Cardinality(HooksOf(k)) + Cardinality(Saving(k))
                            <= HookLimit + Cardinality(Requests) - 1
      BY DEF HookLimitKept, Saving
    <2>1. HooksOf(k) = {} /\ Saving(k) = {}
      BY DeliveryAssumption DEF Init, HooksOf, Saving, NoHook, Idle
    <2>2. Cardinality(Requests) \in Nat /\ Cardinality(Requests) # 0 /\ HookLimit \in Nat
      BY DeliveryAssumption, FS_CardinalityType, FS_EmptySet
    <2> QED
      BY <2>1, <2>2, FS_EmptySet
  <1>2. (Typed /\ Hooked /\ HookLimitKept) /\ [Next]_vars => (Typed /\ Hooked /\ HookLimitKept)'
    BY NextTyped, NextHooked, NextLimit
  <1> QED
    BY <1>1, <1>2, InitType, InitHooked, PTL DEF Spec

-----------------------------------------------------------------------------
(***************************************************************************)
(* The webhooks that were in force when the proof was stored.  A webhook   *)
(* that is in force stays so while the process runs, and a poller that has *)
(* to begin again with webhooks to call has met a failing store call of    *)
(* its own.                                                                *)
(***************************************************************************)
Owing == {p \in Pollers : owed[p] # {} /\ poll[p].stage \in {"polling", "failing"}}

Remembered ==
    /\ \A p \in Pollers :
          /\ poll[p].stage \in Proven => owed[p] \subseteq InForce(poll[p].tx)
          /\ poll[p].stage = "calling" => \A h \in owed[p] : call[p][h].stage # "none"
          /\ poll[p].stage = "none" => owed[p] = {}
    /\ forgot + Cardinality(Owing) <= errors

\* A webhook in force stays in force, but for a crash.
LEMMA ForceLasts ==
    ASSUME Typed, [Next]_vars, ~Crash, NEW t \in Txs
    PROVE  InForce(t) \subseteq InForce(t)'
  <1>1. CASE hook' = hook
    BY <1>1 DEF InForce
  <1>2. ASSUME NEW r \in Requests, NEW h \in Hooks, NEW ok \in BOOLEAN, SaveHook(r, h, ok)
        PROVE  InForce(t) \subseteq InForce(t)'
    <2>1. h \notin InForce(t)
      BY <1>2, DeliveryAssumption DEF SaveHook, InForce, NoHook
    <2>2. \A g \in Hooks \ {h} : hook'[g] = hook[g]
      BY <1>2 DEF SaveHook, Typed, TypeOK
    <2> QED
      BY <2>1, <2>2 DEF InForce
  <1>3. ASSUME NEW r \in Requests, Subscribe(r)
        PROVE  hook' = hook \/ \E h \in Hooks, ok \in BOOLEAN : SaveHook(r, h, ok)
    BY <1>3 DEF Subscribe, Register, CountHooks, RegisterFails, storeVars
  <1> QED
    BY <1>1, <1>2, <1>3, HookSteps

\* A call that has begun is not taken back while its poller is calling.
LEMMA CallsLast ==
    ASSUME Typed, [Next]_vars, NEW q \in Pollers, poll[q].stage = "calling", poll'[q].stage = "calling"
    PROVE  \A h \in Hooks : call[q][h].stage # "none" => call'[q][h].stage # "none"
  <1>0. call \in [Pollers -> [Hooks -> Call]] /\ poll \in [Pollers -> Poller]
    BY DEF Typed, TypeOK
  <1>1. ~Poll(q)
    BY PollMoves
  <1>2. ASSUME NEW p \in Pollers \ {q}, Poll(p)
        PROVE  call'[q] = call[q]
    BY <1>2, PollFrame
  <1>3. ASSUME NEW p \in Pollers, NEW h \in Hooks, CallHook(p, h)
        PROVE  \A g \in Hooks : call[q][g].stage # "none" => call'[q][g].stage # "none"
    <2>1. PICK c : SetCall(p, h, c) /\ c.stage \in {"trying", "settled"}
      BY <1>0, <1>3 DEF CallHook, Post, Unsafe, PostFails, Calling, Call, Settled
    <2> QED
      BY <1>0, <2>1 DEF SetCall
  <1>4. ~Crash
    BY DEF Crash, NoPoll
  <1>5. CASE (\E e \in mempool : ProcessPaymentProof(e)) \/ UNCHANGED vars
    BY <1>5, OtherFrame DEF vars, polling
  <1> QED
    BY <1>1, <1>2, <1>3, <1>4, <1>5, OtherFrame DEF Next, polling

\* A step of a poller is not a crash.
LEMMA PollIsNoCrash ==
    ASSUME Typed, NEW p \in Pollers, Poll(p)
    PROVE  ~Crash
  <1>1. mishaps \in Nat /\ mishaps' = mishaps
    BY PollFrame, DeliveryAssumption DEF Typed, TypeOK
  <1> QED
    BY <1>1 DEF Crash

\* Errors are counted and not forgotten.
LEMMA ErrorsStay ==
    ASSUME Typed, [Next]_vars
    PROVE  errors \in Nat /\ errors' \in Nat /\ errors' >= errors
  <1>0. errors \in Nat
    BY DeliveryAssumption DEF Typed, TypeOK
  <1>c. ASSUME NEW ok, CountStoreCall(ok)
        PROVE  errors' \in {errors, errors + 1}
    BY <1>c DEF CountStoreCall
  <1>u. ASSUME NEW t, NEW record, NEW ok, Update(t, record, ok)
        PROVE  errors' \in {errors, errors + 1}
    BY <1>u, <1>c DEF Update, Persist
  <1>1. ASSUME NEW p \in Pollers, Poll(p)
        PROVE  errors' \in {errors, errors + 1}
    BY <1>1, <1>c, <1>u DEF Poll, FetchFails, NoProof, FindProof, StoreProof, Send, SendFails, WaitFails,
           NoteVerified, NoteError, Erred, FailPoll, ReadAttestation, ListWebhooks, Listed, EndPoll,
           UpdateStatus, storeVars
  <1>2. ASSUME NEW r \in Requests, Subscribe(r)
        PROVE  errors' \in {errors, errors + 1}
    BY <1>2, <1>c DEF Subscribe, Register, CountHooks, SaveHook, RegisterFails, Persist, storeVars
  <1>3. ASSUME NEW t \in Txs, Request(t)
        PROVE  errors' \in {errors, errors + 1}
    BY <1>3, <1>u DEF Request, CloseLedger, Ask, RequestRefused, FoundVerified, SubmissionFails,
           UpdateStatus, storeVars
  <1>4. ASSUME NEW p \in Pollers, NEW t \in Txs, Submitted(p, t)
        PROVE  errors' \in {errors, errors + 1}
    BY <1>4, <1>u DEF Submitted, UpdateStatus
  <1>5. Crash \/ UNCHANGED vars => errors' = errors
    BY DEF Crash, vars, storeVars
  <1>6. errors' \in {errors, errors + 1}
    BY <1>1, <1>2, <1>3, <1>4, <1>5, OtherFrame DEF Next, storeVars
  <1> QED
    BY <1>0, <1>6

\* What a step of a poller does to what it owes: it stays out of those that
\* owe, or met a failing store call, or gives up.
LEMMA PollOwes ==
    ASSUME Typed, NEW p \in Pollers, Poll(p)
    PROVE  \/ UNCHANGED forgot /\ (p \in Owing' => p \in Owing)
           \/ UNCHANGED forgot /\ errors' = errors + 1
           \/ GiveUp(p) /\ poll[p].stage \in {"polling", "failing"}
  <1>0. /\ poll \in [Pollers -> Poller] /\ poll' \in [Pollers -> Poller]
        /\ owed \in [Pollers -> SUBSET Hooks]
    BY PollTyped DEF Typed, TypeOK
  <1>c. ASSUME NEW ok \in BOOLEAN, CountStoreCall(ok), ~ok
        PROVE  errors' = errors + 1
    BY <1>c DEF CountStoreCall
  <1>u. ASSUME NEW t, NEW record, NEW ok \in BOOLEAN, Update(t, record, ok), ~ok
        PROVE  errors' = errors + 1
    BY <1>u, <1>c DEF Update, Persist
  <1>g. ASSUME NEW stage \in PollStages \ {"polling", "failing"}, Goto(p, stage)
        PROVE  p \notin Owing'
    BY <1>0, <1>g DEF Goto, Owing, Poller
  <1>a. Again(p) /\ poll[p].stage = "polling" => UNCHANGED forgot /\ (p \in Owing' => p \in Owing)
    BY <1>0 DEF Again, Owing
  <1>b. Again(p) => UNCHANGED forgot
    BY DEF Again
  <1>n. {"verifying", "mining", "erring", "reading", "listing", "calling"}
            \subseteq PollStages \ {"polling", "failing"}
    BY DEF PollStages
  <1> HIDE DEF Owing
  <1>1. CASE FetchFails(p)
    BY <1>1, <1>a DEF FetchFails, At
  <1>2. ASSUME NEW ok \in BOOLEAN, NoProof(p, ok)
        PROVE  \/ UNCHANGED forgot /\ (p \in Owing' => p \in Owing)
               \/ GiveUp(p) /\ poll[p].stage \in {"polling", "failing"}
    BY <1>2, <1>a DEF NoProof, At
  <1>3. ASSUME NEW ok \in BOOLEAN, FindProof(p, ok)
        PROVE  UNCHANGED forgot /\ (p \in Owing' => p \in Owing)
    <2>1. CASE ok
      BY <1>3, <1>g, <1>n, <2>1 DEF FindProof, StoreProof
    <2>2. CASE ~ok
      BY <1>3, <1>a, <2>2 DEF FindProof, StoreProof, At
    <2> QED
      BY <2>1, <2>2
  <1>4. CASE Send(p) \/ SendFails(p) \/ WaitFails(p)
    BY <1>4, <1>g, <1>n DEF Send, SendFails, WaitFails
  <1>5. ASSUME NEW ok \in BOOLEAN, NoteVerified(p, ok)
        PROVE  UNCHANGED forgot /\ (p \in Owing' => p \in Owing)
    BY <1>5, <1>g, <1>n DEF NoteVerified
  <1>6. ASSUME NEW ok \in BOOLEAN, NoteError(p, ok)
        PROVE  \/ UNCHANGED forgot /\ (p \in Owing' => p \in Owing)
               \/ UNCHANGED forgot /\ errors' = errors + 1
    <2>1. CASE ok
      BY <1>6, <1>g, <1>n, <2>1 DEF NoteError, Erred
    <2>2. CASE ~ok
      BY <1>6, <1>b, <1>u, <2>2 DEF NoteError, Erred, UpdateStatus
    <2> QED
      BY <2>1, <2>2
  <1>7. ASSUME NEW ok \in BOOLEAN, ReadAttestation(p, ok)
        PROVE  \/ UNCHANGED forgot /\ (p \in Owing' => p \in Owing)
               \/ UNCHANGED forgot /\ errors' = errors + 1
    <2>1. CASE ok
      <3>1. poll'[p].stage = "listing"
        <4> DEFINE x == att[Tx(p)].status
        <4>1. poll' = [poll EXCEPT ![p].stage = "listing", ![p].payload = x]
          BY <1>7, <2>1 DEF ReadAttestation
        <4> HIDE DEF x
        <4> QED
          BY <1>0, <4>1 DEF Poller
      <3> QED
        BY <1>7, <2>1, <3>1 DEF ReadAttestation, Owing
    <2>2. CASE ~ok
      BY <1>7, <1>b, <1>c, <2>2 DEF ReadAttestation
    <2> QED
      BY <2>1, <2>2
  <1>8. ASSUME NEW ok \in BOOLEAN, ListWebhooks(p, ok)
        PROVE  \/ UNCHANGED forgot /\ (p \in Owing' => p \in Owing)
               \/ UNCHANGED forgot /\ errors' = errors + 1
    <2>1. CASE ok
      BY <1>8, <1>g, <1>n, <2>1 DEF ListWebhooks, Listed
    <2>2. CASE ~ok
      BY <1>8, <1>b, <1>c, <2>2 DEF ListWebhooks, Listed
    <2> QED
      BY <2>1, <2>2
  <1>9. CASE \E ok \in BOOLEAN : FailPoll(p, ok)
    BY <1>9 DEF FailPoll, At
  <1>10. CASE EndPoll(p)
    <2>1. owed'[p] = {} /\ UNCHANGED forgot
      BY <1>0, <1>10 DEF EndPoll
    <2> QED
      BY <2>1 DEF Owing
  <1> QED
    BY <1>1, <1>2, <1>3, <1>4, <1>5, <1>6, <1>7, <1>8, <1>9, <1>10 DEF Poll

\* The pollers that owe are finitely many.
LEMMA OwingFinite ==
    /\ IsFiniteSet(Owing) /\ Cardinality(Owing) \in Nat
    /\ IsFiniteSet(Owing') /\ Cardinality(Owing') \in Nat
    /\ Owing' \subseteq Owing => Cardinality(Owing') <= Cardinality(Owing)
  <1>1. Owing \subseteq Pollers /\ Owing' \subseteq Pollers /\ IsFiniteSet(Pollers)
    BY DeliveryAssumption DEF Owing
  <1> HIDE DEF Owing
  <1>2. IsFiniteSet(Owing) /\ IsFiniteSet(Owing')
    BY <1>1, FS_Subset
  <1> QED
    BY <1>2, FS_Subset, FS_CardinalityType

\* Every step keeps the account of what was forgotten.
LEMMA NextForgot ==
    ASSUME Typed, Remembered, [Next]_vars
    PROVE  forgot' + Cardinality(Owing') <= errors'
  <1>0. /\ forgot \in Nat /\ forgot + Cardinality(Owing) <= errors
        /\ poll \in [Pollers -> Poller] /\ owed \in [Pollers -> SUBSET Hooks]
    BY DEF Typed, TypeOK, Remembered
  <1>1. CASE UNCHANGED forgot /\ Owing' \subseteq Owing
    BY <1>0, <1>1, ErrorsStay, OwingFinite
  <1>2. ASSUME NEW p \in Pollers, Poll(p)
        PROVE  forgot' + Cardinality(Owing') <= errors'
    <2>1. \A q \in Pollers \ {p} : q \in Owing' => q \in Owing
      BY <1>2, PollFrame DEF Owing
    <2>2. Owing' \subseteq Pollers
      BY DEF Owing
    <2> HIDE DEF Owing
    <2>3. CASE UNCHANGED forgot /\ (p \in Owing' => p \in Owing)
      BY <1>1, <2>1, <2>2, <2>3
    <2>4. CASE UNCHANGED forgot /\ errors' = errors + 1
      <3>1. Owing' \subseteq Owing \cup {p}
        BY <2>1, <2>2
      <3>2. /\ IsFiniteSet(Owing \cup {p})
            /\ Cardinality(Owing \cup {p}) \in Nat
            /\ Cardinality(Owing \cup {p}) <= Cardinality(Owing) + 1
        <4>1. /\ IsFiniteSet(Owing \cup {p})
              /\ Cardinality(Owing \cup {p}) = IF p \in Owing THEN Cardinality(Owing)
                                                ELSE Cardinality(Owing) + 1
          BY OwingFinite, FS_AddElement
        <4> QED
          BY <4>1, OwingFinite
      <3>3. Cardinality(Owing') <= Cardinality(Owing \cup {p})
        BY <3>1, <3>2, FS_Subset
      <3> QED
        BY <1>0, <2>4, <3>2, <3>3, OwingFinite, ErrorsStay
    <2>5. CASE GiveUp(p) /\ poll[p].stage \in {"polling", "failing"}
      <3>1. p \notin Owing' /\ (owed[p] # {} => p \in Owing)
        BY <1>0, <2>5 DEF GiveUp, Owing
      <3>2. CASE owed[p] = {}
        BY <1>1, <2>1, <2>2, <2>5, <3>1, <3>2 DEF GiveUp
      <3>3. CASE owed[p] # {}
        <4>1. Owing' \subseteq Owing \ {p} /\ p \in Owing
          BY <2>1, <2>2, <3>1, <3>3
        <4>2. Cardinality(Owing \ {p}) = Cardinality(Owing) - 1 /\ IsFiniteSet(Owing \ {p})
          BY <4>1, OwingFinite, FS_RemoveElement
        <4>3. Cardinality(Owing') <= Cardinality(Owing \ {p})
          BY <4>1, <4>2, FS_Subset
        <4>4. forgot' = forgot + 1
          BY <2>5, <3>3 DEF GiveUp
        <4> QED
          BY <1>0, <4>2, <4>3, <4>4, OwingFinite, ErrorsStay
      <3> QED
        BY <3>2, <3>3
    <2> QED
      BY <1>2, <2>3, <2>4, <2>5, PollOwes
  <1>3. CASE Crash
    BY <1>1, <1>3 DEF Crash, Owing
  <1>4. CASE ~Crash /\ ~\E p \in Pollers : Poll(p)
    <2>1. UNCHANGED forgot
      BY <1>4, OtherFrame DEF Next, polling, vars
    <2>2. ASSUME NEW q \in Pollers, q \in Owing'
          PROVE  q \in Owing
      <3>1. ASSUME NEW t \in Txs, Submitted(q, t)
            PROVE  FALSE
        <4>1. poll[q].stage = "none" /\ owed'[q] = owed[q]
          BY <3>1 DEF Submitted, NoPoll
        <4> QED
          BY <2>2, <4>1 DEF Owing, Remembered
      <3> QED
        BY <1>4, <2>2, <3>1, OtherMoves DEF Owing
    <2>3. Owing' \subseteq Pollers
      BY DEF Owing
    <2> HIDE DEF Owing
    <2> QED
      BY <1>1, <2>1, <2>2, <2>3
  <1> QED
    BY <1>2, <1>3, <1>4

\* Every step keeps what is remembered.
LEMMA NextRemembered == Typed /\ Remembered /\ [Next]_vars => Remembered'
  <1> DEFINE Standing(t) == {h \in Hooks : hook'[h].tx = t /\ hook'[h].key = Owner[t]}
  <1> SUFFICES ASSUME Typed, Remembered, [Next]_vars, NEW q \in Pollers
               PROVE  /\ poll'[q].stage \in Proven => owed'[q] \subseteq Standing(poll'[q].tx)
                      /\ poll'[q].stage = "calling" => \A h \in owed'[q] : call'[q][h].stage # "none"
                      /\ poll'[q].stage = "none" => owed'[q] = {}
    BY NextForgot DEF Remembered, InForce
  <1>0. /\ poll \in [Pollers -> Poller]
        /\ poll[q].stage # "none" => poll[q].tx \in Txs
        /\ owed \in [Pollers -> SUBSET Hooks] /\ owed' \in [Pollers -> SUBSET Hooks]
        /\ call \in [Pollers -> [Hooks -> Call]]
    BY NextTyped DEF Typed, TypeOK, PollersBusy
  <1>n. "none" \notin Proven /\ "polling" \notin Proven /\ "mining" \in Proven /\ "calling" \in Proven
        /\ "listing" \in Proven
    BY DEF Proven
  <1>f. ~Crash /\ poll[q].stage \in Proven => owed[q] \subseteq Standing(poll[q].tx)
    <2>1. poll[q].stage \in Proven => poll[q].tx \in Txs /\ owed[q] \subseteq InForce(poll[q].tx)
      BY <1>0, <1>n DEF Remembered
    <2>2. ~Crash => \A t \in Txs : InForce(t) \subseteq Standing(t)
      BY ForceLasts DEF InForce
    <2> HIDE DEF Standing
    <2> QED
      BY <2>1, <2>2
  <1>1. ASSUME NEW ok \in BOOLEAN, FindProof(q, ok), ok
        PROVE  /\ owed'[q] = InForce(poll[q].tx) /\ hook' = hook
               /\ poll'[q].tx = poll[q].tx /\ poll'[q].stage \notin {"calling", "none"}
    <2>1. /\ owed' = [owed EXCEPT ![q] = InForce(poll[q].tx)] /\ hook' = hook
          /\ Goto(q, "verifying") \/ Goto(q, "reading")
      BY <1>1 DEF FindProof, StoreProof, Update, Tx
    <2> QED
      BY <1>0, <2>1 DEF Goto, Poller
  <1>2. CASE Poll(q) /\ ~\E ok \in BOOLEAN : FindProof(q, ok) /\ ok
    <2>c. ~Crash
      BY <1>2, PollIsNoCrash
    <2>1. /\ poll'[q].stage \in Proven => poll[q].stage \in Proven /\ poll'[q].tx = poll[q].tx
          /\ poll'[q].stage = "calling" =>
                poll[q].stage = "listing" /\ \E ok \in BOOLEAN : ListWebhooks(q, ok) /\ ok
      BY <1>2, <1>n, PollMoves
    <2>2. /\ poll'[q].stage \in Proven => owed'[q] = owed[q]
          /\ poll'[q].stage = "none" => owed'[q] = {}
      <3> DEFINE Moved == /\ poll'[q].stage \in Proven => owed'[q] = owed[q]
                          /\ poll'[q].stage = "none" => owed'[q] = {}
      <3>1. Again(q) => Moved
        <4>1. Again(q) => poll'[q].stage \in {"polling", "failing"}
          BY <1>0 DEF Again
        <4> QED
          BY <4>1 DEF Proven
      <3>2. GiveUp(q) \/ EndPoll(q) => Moved
        BY <1>0, <1>n DEF GiveUp, EndPoll, NoPoll
      <3>3. ASSUME NEW stage \in PollStages \ {"none"}, Goto(q, stage), UNCHANGED owed
            PROVE  Moved
        BY <1>0, <3>3 DEF Goto, Poller
      <3>4. {"mining", "erring", "reading", "calling"} \subseteq PollStages \ {"none"}
        BY DEF PollStages
      <3>5. ASSUME NEW ok \in BOOLEAN, ReadAttestation(q, ok)
            PROVE  Moved
        <4>1. CASE ok
          <5>1. poll'[q].stage = "listing" /\ UNCHANGED owed
            <6> DEFINE x == att[Tx(q)].status
            <6>1. /\ poll' = [poll EXCEPT ![q].stage = "listing", ![q].payload = x]
                  /\ UNCHANGED owed
              BY <3>5, <4>1 DEF ReadAttestation
            <6> HIDE DEF x
            <6> QED
              BY <1>0, <6>1 DEF Poller
          <5> QED
            BY <5>1
        <4>2. CASE ~ok
          BY <3>1, <3>5, <4>2 DEF ReadAttestation
        <4> QED
          BY <4>1, <4>2
      <3> HIDE DEF Moved
      <3>6. FetchFails(q) => Moved
        BY <3>1 DEF FetchFails
      <3>7. ASSUME NEW ok \in BOOLEAN, NoProof(q, ok) \/ FailPoll(q, ok)
            PROVE  Moved
        BY <3>1, <3>2, <3>7 DEF NoProof, FailPoll
      <3>8. ASSUME NEW ok \in BOOLEAN, FindProof(q, ok), ~ok
            PROVE  Moved
        BY <3>1, <3>8 DEF FindProof, StoreProof
      <3>9. Send(q) \/ SendFails(q) \/ WaitFails(q) => Moved
        BY <3>3, <3>4 DEF Send, SendFails, WaitFails
      <3>10. ASSUME NEW ok \in BOOLEAN, NoteVerified(q, ok) \/ NoteError(q, ok) \/ ListWebhooks(q, ok)
             PROVE  Moved
        BY <3>1, <3>3, <3>4, <3>10 DEF NoteVerified, NoteError, Erred, ListWebhooks, Listed
      <3> QED
        BY <1>2, <3>2, <3>5, <3>6, <3>7, <3>8, <3>9, <3>10 DEF Poll, Moved
    <2>3. ASSUME poll'[q].stage = "calling"
          PROVE  \A h \in owed'[q] : call'[q][h].stage # "none"
      <3>1. PICK ok \in BOOLEAN : ListWebhooks(q, ok) /\ ok
        BY <2>1, <2>3
      <3>2. \A h \in InForce(poll[q].tx) : call'[q][h].stage = "trying"
        BY <1>0, <3>1 DEF ListWebhooks, Listed, InForce, Tx
      <3>3. owed[q] \subseteq InForce(poll[q].tx)
        BY <1>n, <2>1, <2>3 DEF Remembered
      <3> QED
        BY <1>n, <2>2, <2>3, <3>2, <3>3
    <2>4. poll'[q].stage \in Proven => owed'[q] \subseteq Standing(poll'[q].tx)
      BY <1>f, <2>1, <2>2, <2>c
    <2> QED
      BY <2>2, <2>3, <2>4
  <1>3. ASSUME NEW t \in Txs, Submitted(q, t)
        PROVE  poll'[q].stage = "polling"
    BY <1>0, <1>3 DEF Submitted, NoPoll
  <1>4. CASE Crash
    BY <1>4, <1>n DEF Crash, NoPoll
  <1>5. CASE poll'[q] = poll[q] /\ owed'[q] = owed[q] /\ ~Crash
    <2>1. poll'[q].stage \in Proven => owed'[q] \subseteq Standing(poll'[q].tx)
      BY <1>5, <1>f
    <2>2. ASSUME poll'[q].stage = "calling"
          PROVE  \A h \in owed'[q] : call'[q][h].stage # "none"
      BY <1>0, <1>5, <2>2, CallsLast DEF Remembered
    <2>3. poll'[q].stage = "none" => owed'[q] = {}
      BY <1>5 DEF Remembered
    <2> QED
      BY <2>1, <2>2, <2>3
  <1>6. CASE /\ poll[q].stage = "mining" /\ poll'[q].stage \in {"mined", "erring"}
             /\ poll'[q].tx = poll[q].tx /\ owed'[q] = owed[q] /\ ~Crash
    BY <1>6, <1>f, <1>n
  <1>7. CASE \E ok \in BOOLEAN : FindProof(q, ok) /\ ok
    BY <1>1, <1>7 DEF InForce
  <1> QED
    BY <1>2, <1>3, <1>4, <1>5, <1>6, <1>7, <1>n, OtherMoves

\* A webhook that was in force when the proof was stored is called by the
\* poller that gets to its calls, and a poller that does not get there had a
\* failing store call of its own.
THEOREM HooksRemembered == Spec => []NoHookForgotten
  <1>1. Init => Remembered
    <2> SUFFICES ASSUME Init
                 PROVE  Remembered
      OBVIOUS
    <2>1. Owing = {} /\ forgot = 0 /\ errors = 0
      BY DEF Init, Owing
    <2>2. forgot + Cardinality(Owing) <= errors
      BY <2>1, FS_EmptySet
    <2> QED
      BY <2>2 DEF Init, Remembered, NoPoll, Proven
  <1>2. Typed /\ Remembered => NoHookForgotten
    <2> SUFFICES ASSUME Typed, Remembered
                 PROVE  NoHookForgotten
      OBVIOUS
    <2>1. forgot + Cardinality(Owing) <= errors /\ forgot \in Nat /\ errors \in Nat
      BY DeliveryAssumption DEF Typed, TypeOK, Remembered
    <2>2. forgot <= errors
      BY <2>1, OwingFinite
    <2> QED
      BY <2>2 DEF Remembered, NoHookForgotten, At
  <1>3. (Typed /\ Remembered) /\ [Next]_vars => (Typed /\ Remembered)'
    BY NextTyped, NextRemembered
  <1> QED
    BY <1>1, <1>2, <1>3, InitType, PTL DEF Spec

-----------------------------------------------------------------------------
(***************************************************************************)
(* The proof.  A submission has one poller at most, so with one of them    *)
(* and no failing store call nobody polls on once the proof is stored, and *)
(* the files have what the process has.                                    *)
(***************************************************************************)
Polls(p, t) == poll[p].stage # "none" /\ poll[p].tx = t

Kept(t) ==
    /\ rounds[t] = 0 => /\ ~att[t].proof /\ ~disk.att[t].proof
                        /\ \A p \in Pollers : ~Polls(p, t)
    /\ rounds[t] = 1 => \A p, q \in Pollers : Polls(p, t) /\ Polls(q, t) => p = q
    /\ rounds[t] = 1 /\ errors = 0 /\ att[t].proof =>
          /\ att[t].status \in {"ready", "verified"}
          /\ \A p \in Pollers : Polls(p, t) => poll[p].stage \in Proven

Carried(p) ==
    /\ poll[p].stage \in Proven => att[poll[p].tx].proof
    /\ /\ poll[p].stage \in {"listing", "calling"}
       /\ rounds[poll[p].tx] = 1 /\ errors = 0
       => poll[p].payload \in {"ready", "verified"}

Stays == /\ \A t \in Txs : Kept(t)
         /\ \A p \in Pollers : Carried(p)
         /\ errors = 0 => disk.att = att

\* What a step may do to the files.
Writes ==
    /\ disk'.att = disk.att \/ disk'.att = att'
    /\ errors' = 0 => errors = 0 /\ (disk'.att = att' \/ UNCHANGED <<att, disk>>)

\* A change of a record.
LEMMA UpdateFacts ==
    ASSUME Typed, NEW t \in Txs, NEW record \in Record, NEW ok \in BOOLEAN, Update(t, record, ok)
    PROVE  /\ \A u \in Txs \ {t} : att'[u] = att[u]
           /\ att'[t] \in {att[t], record} /\ (ok => att'[t] = record)
           /\ errors' = 0 => errors = 0 /\ ok
           /\ Writes
  <1>0. /\ att \in [Txs -> Record] /\ disk \in [att : [Txs -> Record], hook : [Hooks -> Webhook]]
        /\ errors \in Nat
    BY DeliveryAssumption DEF Typed, TypeOK
  <1>1. /\ att' \in IF ok THEN {[att EXCEPT ![t] = record]} ELSE {att, [att EXCEPT ![t] = record]}
        /\ Persist(ok)
    BY DEF Update
  <1>2. errors' = 0 => errors = 0 /\ ok
    BY <1>0, <1>1 DEF Persist, CountStoreCall
  <1>3. disk' \in IF ok THEN {[att |-> att', hook |-> hook']}
                  ELSE {disk, [disk EXCEPT !.att = att'], [att |-> att', hook |-> hook']}
    BY <1>1 DEF Persist
  <1>4. disk'.att = disk.att \/ disk'.att = att'
    BY <1>0, <1>3
  <1>5. ok => disk'.att = att'
    BY <1>3
  <1> QED
    BY <1>0, <1>1, <1>2, <1>4, <1>5 DEF Writes

\* A change of a status keeps the proof.
LEMMA StatusFacts ==
    ASSUME Typed, NEW t \in Txs, NEW status \in AttStatus, NEW ok \in BOOLEAN,
           UpdateStatus(t, status, ok)
    PROVE  /\ \A u \in Txs \ {t} : att'[u] = att[u]
           /\ att'[t].proof = att[t].proof
           /\ att'[t].status \in {att[t].status, status} /\ (ok => att'[t].status = status)
           /\ errors' = 0 => errors = 0 /\ ok
           /\ Writes
  <1>1. att[t] \in Record
    BY DEF Typed, TypeOK
  <1> DEFINE record == [att[t] EXCEPT !.status = status]
  <1>2. record \in Record /\ record.status = status /\ record.proof = att[t].proof
    BY <1>1 DEF Record
  <1>3. Update(t, record, ok)
    BY DEF UpdateStatus
  <1> HIDE DEF record
  <1> QED
    BY <1>2, <1>3, UpdateFacts

\* What a step of a poller does to the records.
LEMMA PollRecords ==
    ASSUME Typed, NEW p \in Pollers, Poll(p)
    PROVE  /\ errors' = 0 => errors = 0
           /\ \A t \in Txs \ {poll[p].tx} : att'[t] = att[t]
           /\ att[poll[p].tx].proof => att'[poll[p].tx].proof
           /\ att'[poll[p].tx].proof =>
                 \/ att[poll[p].tx].proof \/ errors' # 0
                 \/ poll'[p].stage \in Proven /\ att'[poll[p].tx].status = "ready"
           /\ \A ok \in BOOLEAN : FindProof(p, ok) /\ ok => att'[poll[p].tx].proof
           /\ poll[p].stage \in Proven /\ errors' = 0 =>
                 /\ att'[poll[p].tx].status \in {att[poll[p].tx].status, "verified"}
                 /\ poll'[p].stage \in Proven \cup {"none"}
           /\ Writes
  <1>t. poll' \in [Pollers -> Poller]
    <2>1. Typed'
      BY PollTyped
    <2> QED
      BY <2>1 DEF Typed, TypeOK
  <1>0. /\ poll \in [Pollers -> Poller] /\ poll' \in [Pollers -> Poller]
        /\ att \in [Txs -> Record] /\ errors \in Nat /\ poll[p].tx \in Txs
    BY <1>t, PollFrame, DeliveryAssumption DEF Typed, TypeOK
  <1> DEFINE t == poll[p].tx
             Records == /\ errors' = 0 => errors = 0
                        /\ \A u \in Txs \ {t} : att'[u] = att[u]
                        /\ att[t].proof => att'[t].proof
                        /\ att'[t].proof =>
                              \/ att[t].proof \/ errors' # 0
                              \/ poll'[p].stage \in Proven /\ att'[t].status = "ready"
                        /\ poll[p].stage \in Proven /\ errors' = 0 =>
                              /\ att'[t].status \in {att[t].status, "verified"}
                              /\ poll'[p].stage \in Proven \cup {"none"}
                        /\ Writes
  <1>n. {"verifying", "mining", "erring", "reading", "listing", "calling", "mined"} \subseteq Proven
        /\ "polling" \notin Proven /\ "failing" \notin Proven
    BY DEF Proven
  <1>m. {"verified", "failed", "not_found"} \subseteq AttStatus
        /\ [status |-> "ready", proof |-> TRUE] \in Record
    BY DEF AttStatus, Record
  <1>g. ASSUME NEW stage \in Proven, Goto(p, stage)
        PROVE  poll'[p].stage \in Proven
    BY <1>0, <1>g DEF Goto, Poller
  <1>e. EndPoll(p) => poll'[p].stage = "none"
    BY <1>0 DEF EndPoll, NoPoll
  <1>u. UNCHANGED <<att, disk>> => disk'.att = disk.att
    OBVIOUS
  <1>1. FetchFails(p) => Records
    BY <1>n DEF FetchFails, At, storeVars, Writes
  <1>2. Send(p) \/ SendFails(p) \/ WaitFails(p) \/ EndPoll(p) => Records
    BY <1>e, <1>g, <1>n DEF Send, SendFails, WaitFails, EndPoll, At, storeVars, Writes
  <1>3. ASSUME NEW ok \in BOOLEAN, NoProof(p, ok) \/ FailPoll(p, ok)
        PROVE  Records
    <2>1. poll[p].stage \notin Proven
      BY <1>3, <1>n DEF NoProof, FailPoll, At
    <2>2. \/ UNCHANGED storeVars
          \/ UpdateStatus(t, "not_found", ok) \/ UpdateStatus(t, "failed", ok)
      BY <1>3 DEF NoProof, FailPoll, Tx
    <2>3. CASE UNCHANGED storeVars
      BY <2>1, <2>3 DEF storeVars, Writes
    <2>4. CASE UpdateStatus(t, "not_found", ok) \/ UpdateStatus(t, "failed", ok)
      BY <1>0, <1>m, <2>1, <2>4, StatusFacts
    <2> QED
      BY <2>2, <2>3, <2>4
  <1>4. ASSUME NEW ok \in BOOLEAN, FindProof(p, ok)
        PROVE  Records /\ (ok => att'[t].proof)
    <2> DEFINE record == [status |-> "ready", proof |-> TRUE]
    <2>1. poll[p].stage \notin Proven /\ Update(t, record, ok)
      BY <1>4, <1>n DEF FindProof, StoreProof, At, Tx
    <2>2. ok => poll'[p].stage \in Proven
      BY <1>4, <1>g, <1>n DEF FindProof, StoreProof
    <2>3. record \in Record /\ record.status = "ready" /\ record.proof
      BY <1>m
    <2> HIDE DEF record
    <2>4. /\ \A u \in Txs \ {t} : att'[u] = att[u]
          /\ att'[t] \in {att[t], record} /\ (ok => att'[t] = record)
          /\ errors' = 0 => errors = 0 /\ ok
          /\ Writes
      BY <1>0, <2>1, <2>3, UpdateFacts
    <2> QED
      BY <2>1, <2>2, <2>3, <2>4
  <1>5. ASSUME NEW ok \in BOOLEAN, NoteVerified(p, ok) \/ NoteError(p, ok)
        PROVE  Records
    <2>1. att[t].status \in AttStatus
      BY <1>0 DEF Record
    <2>2. UpdateStatus(t, "verified", ok) \/ UpdateStatus(t, att[t].status, ok)
      BY <1>5 DEF NoteVerified, NoteError, Erred, Tx
    <2>3. ok => poll'[p].stage \in Proven
      BY <1>5, <1>g, <1>n DEF NoteVerified, NoteError, Erred
    <2> QED
      BY <1>0, <1>m, <2>1, <2>2, <2>3, StatusFacts
  <1>6. ASSUME NEW ok \in BOOLEAN, ReadAttestation(p, ok) \/ ListWebhooks(p, ok)
        PROVE  Records
    <2>1. UNCHANGED <<att, disk>> /\ CountStoreCall(ok)
      BY <1>6 DEF ReadAttestation, ListWebhooks, Listed
    <2>2. errors' = 0 => errors = 0 /\ ok
      BY <1>0, <2>1 DEF CountStoreCall
    <2>3. ok => poll'[p].stage \in Proven
      <3>1. CASE ListWebhooks(p, ok)
        BY <1>g, <1>n, <3>1 DEF ListWebhooks, Listed
      <3>2. CASE ReadAttestation(p, ok)
        <4> DEFINE x == att[Tx(p)].status
        <4>1. ok => poll' = [poll EXCEPT ![p].stage = "listing", ![p].payload = x]
          BY <3>2 DEF ReadAttestation
        <4> HIDE DEF x
        <4>2. ok => poll'[p].stage = "listing"
          BY <1>0, <4>1 DEF Poller
        <4> QED
          BY <1>n, <4>2
      <3> QED
        BY <1>6, <3>1, <3>2
    <2> QED
      BY <2>1, <2>2, <2>3 DEF Writes
  <1> HIDE DEF Records
  <1>7. Records
    BY <1>1, <1>2, <1>3, <1>4, <1>5, <1>6 DEF Poll
  <1> QED
    BY <1>4, <1>7 DEF Records

\* A submission counts, and leaves the proofs alone.
LEMMA RoundRecords ==
    ASSUME Typed, NEW t \in Txs,
           (\E p \in Pollers : Submitted(p, t)) \/ \E ok \in BOOLEAN : SubmissionFails(t, ok)
    PROVE  /\ rounds'[t] = rounds[t] + 1 /\ rounds[t] \in Nat
           /\ \A u \in Txs \ {t} : rounds'[u] = rounds[u] /\ att'[u] = att[u]
           /\ att'[t].proof = att[t].proof
           /\ errors' = 0 => errors = 0
           /\ \/ \E p \in Pollers : /\ poll'[p].stage = "polling" /\ poll'[p].tx = t
                                    /\ poll[p] = NoPoll
                                    /\ \A q \in Pollers \ {p} : poll'[q] = poll[q]
              \/ UNCHANGED poll
           /\ Writes
  <1>0. poll \in [Pollers -> Poller] /\ att \in [Txs -> Record] /\ rounds \in [Txs -> Nat]
    BY DEF Typed, TypeOK
  <1>1. Submit(t)
    BY DEF Submitted, SubmissionFails
  <1>2. PICK status \in AttStatus, ok \in BOOLEAN : UpdateStatus(t, status, ok)
    <2>1. {"pending", "failed", Created(t)} \subseteq AttStatus
      BY <1>0 DEF AttStatus, Created, Record
    <2> QED
      BY <2>1 DEF Submitted, SubmissionFails
  <1>3. \/ \E p \in Pollers : /\ poll'[p].stage = "polling" /\ poll'[p].tx = t
                              /\ poll[p] = NoPoll
                              /\ \A q \in Pollers \ {p} : poll'[q] = poll[q]
        \/ UNCHANGED poll
    <2>1. ASSUME NEW p \in Pollers, Submitted(p, t)
          PROVE  /\ poll'[p].stage = "polling" /\ poll'[p].tx = t /\ poll[p] = NoPoll
                 /\ \A q \in Pollers \ {p} : poll'[q] = poll[q]
      BY <1>0, <2>1 DEF Submitted, NoPoll
    <2>2. (\E done \in BOOLEAN : SubmissionFails(t, done)) => UNCHANGED poll
      BY DEF SubmissionFails, polling
    <2> QED
      BY <2>1, <2>2
  <1>4. /\ \A u \in Txs \ {t} : att'[u] = att[u]
        /\ att'[t].proof = att[t].proof
        /\ errors' = 0 => errors = 0
        /\ Writes
    BY <1>2, StatusFacts
  <1> QED
    BY <1>0, <1>1, <1>3, <1>4 DEF Submit

\* "verified" is written by a request that asked the contract.
LEMMA FoundRecords ==
    ASSUME Typed, NEW t \in Txs, NEW ok \in BOOLEAN, FoundVerified(t, ok)
    PROVE  /\ \A u \in Txs \ {t} : att'[u] = att[u]
           /\ att'[t].proof = att[t].proof
           /\ errors' = 0 => errors = 0 /\ att'[t].status = "verified"
           /\ UNCHANGED <<rounds, poll>>
           /\ Writes
  <1>0. att \in [Txs -> Record]
    BY DEF Typed, TypeOK
  <1>1. PICK status \in AttStatus : UpdateStatus(t, status, ok) /\ (ok => status = "verified")
    <2>1. {"verified", Created(t)} \subseteq AttStatus
      BY <1>0 DEF AttStatus, Created, Record
    <2> QED
      BY <2>1 DEF FoundVerified
  <1>2. UNCHANGED <<rounds, poll>>
    BY DEF FoundVerified, polling
  <1> QED
    BY <1>1, <1>2, StatusFacts

\* The other steps leave the records alone.
LEMMA QuietSteps ==
    ASSUME Typed, [Next]_vars
    PROVE  \/ \E p \in Pollers : Poll(p)
           \/ \E t \in Txs : \/ \E p \in Pollers : Submitted(p, t)
                             \/ \E ok \in BOOLEAN : SubmissionFails(t, ok) \/ FoundVerified(t, ok)
           \/ Crash
           \/ UNCHANGED <<att, rounds>> /\ (errors' = 0 => errors = 0) /\ Writes
  <1>0. errors \in Nat /\ disk \in [att : [Txs -> Record], hook : [Hooks -> Webhook]]
    BY DeliveryAssumption DEF Typed, TypeOK
  <1>1. ASSUME NEW r \in Requests, Subscribe(r)
        PROVE  UNCHANGED <<att, rounds>> /\ (errors' = 0 => errors = 0) /\ Writes
    <2>1. UNCHANGED <<att, rounds>>
      BY <1>1, OtherFrame DEF asking
    <2>2. ASSUME NEW h \in Hooks, NEW ok \in BOOLEAN, SaveHook(r, h, ok)
          PROVE  (errors' = 0 => errors = 0 /\ disk'.att = att') /\ (disk'.att = disk.att \/ disk'.att = att')
      <3>1. Persist(ok)
        BY <2>2 DEF SaveHook
      <3>2. disk' \in IF ok THEN {[att |-> att', hook |-> hook']}
                      ELSE {disk, [disk EXCEPT !.att = att'], [att |-> att', hook |-> hook']}
        BY <3>1 DEF Persist
      <3>3. errors' = 0 => errors = 0 /\ ok
        BY <1>0, <3>1 DEF Persist, CountStoreCall
      <3>4. disk'.att = disk.att \/ disk'.att = att'
        BY <1>0, <3>2
      <3>5. ok => disk'.att = att'
        BY <3>2
      <3> QED
        BY <3>3, <3>4, <3>5
    <2>3. ASSUME ~\E h \in Hooks, ok \in BOOLEAN : SaveHook(r, h, ok)
          PROVE  UNCHANGED disk /\ (errors' = 0 => errors = 0)
      BY <1>0, <1>1, <2>3 DEF Subscribe, Register, CountHooks, RegisterFails, CountStoreCall, storeVars
    <2> QED
      BY <2>1, <2>2, <2>3 DEF Writes
  <1>2. ASSUME NEW p \in Pollers, NEW h \in Hooks, CallHook(p, h)
        PROVE  UNCHANGED <<att, disk, rounds, errors>>
    BY <1>2, OtherFrame DEF storeVars, asking
  <1>3. CASE (\E e \in mempool : ProcessPaymentProof(e)) \/ UNCHANGED vars
    <2>1. UNCHANGED <<att, disk, rounds, errors>>
      BY <1>3, OtherFrame DEF vars, storeVars, asking
    <2> QED
      BY <2>1 DEF Writes
  <1>4. ASSUME NEW t \in Txs, CloseLedger(t) \/ Ask(t) \/ RequestRefused(t)
        PROVE  UNCHANGED <<att, disk, rounds, errors>>
    BY <1>4 DEF CloseLedger, Ask, RequestRefused, storeVars, asking
  <1>5. CASE \E p \in Pollers : \E h \in Hooks : CallHook(p, h)
    BY <1>2, <1>5 DEF Writes
  <1>6. CASE \E t \in Txs : CloseLedger(t) \/ Ask(t) \/ RequestRefused(t)
    BY <1>4, <1>6 DEF Writes
  <1> QED
    BY <1>1, <1>3, <1>5, <1>6 DEF Next, Request

\* Every step keeps what is said of a record.
LEMMA NextKept ==
    ASSUME Typed, Stays, [Next]_vars, NEW t \in Txs
    PROVE  Kept(t)'
  <1>0. /\ poll \in [Pollers -> Poller] /\ att \in [Txs -> Record]
        /\ rounds \in [Txs -> Nat] /\ errors \in Nat
    BY DeliveryAssumption DEF Typed, TypeOK
  <1>k. Kept(t)
    BY DEF Stays
  <1>n. "none" \notin Proven /\ "polling" \notin Proven
    BY DEF Proven
  <1>1. ASSUME NEW p \in Pollers, Poll(p)
        PROVE  Kept(t)'
    <2>1. /\ \A q \in Pollers \ {p} : poll'[q] = poll[q]
          /\ poll[p].stage # "none" /\ poll[p].tx \in Txs /\ rounds' = rounds
      BY <1>1, PollFrame
    <2>2. poll'[p].stage # "none" => poll'[p].tx = poll[p].tx
      BY <1>1, PollMoves
    <2>3. /\ errors' = 0 => errors = 0
          /\ \A u \in Txs \ {poll[p].tx} : att'[u] = att[u]
          /\ att'[poll[p].tx].proof =>
                \/ att[poll[p].tx].proof \/ errors' # 0
                \/ poll'[p].stage \in Proven /\ att'[poll[p].tx].status = "ready"
          /\ poll[p].stage \in Proven /\ errors' = 0 =>
                /\ att'[poll[p].tx].status \in {att[poll[p].tx].status, "verified"}
                /\ poll'[p].stage \in Proven \cup {"none"}
          /\ disk'.att = disk.att \/ disk'.att = att'
      BY <1>1, PollRecords DEF Writes
    <2>4. \A q \in Pollers : (poll'[q].stage # "none" /\ poll'[q].tx = t) => Polls(q, t)
      BY <2>1, <2>2 DEF Polls
    <2>5. CASE poll[p].tx # t
      <3>1. att'[t] = att[t]
        BY <2>3, <2>5
      <3>2. \A q \in Pollers : (poll'[q].stage # "none" /\ poll'[q].tx = t) => poll'[q] = poll[q]
        BY <2>1, <2>2, <2>5
      <3>3. disk'.att[t] = disk.att[t] \/ disk'.att[t] = att[t]
        BY <2>3, <3>1
      <3> QED
        BY <1>k, <2>1, <2>3, <2>4, <3>1, <3>2, <3>3 DEF Kept, Polls
    <2>6. CASE poll[p].tx = t
      <3>1. Polls(p, t) /\ rounds[t] # 0
        BY <1>k, <2>1, <2>6 DEF Kept, Polls
      <3>2. ASSUME rounds[t] = 1, errors' = 0, att'[t].proof
            PROVE  /\ att'[t].status \in {"ready", "verified"}
                   /\ \A q \in Pollers : (poll'[q].stage # "none" /\ poll'[q].tx = t) =>
                                             poll'[q].stage \in Proven
        <4>1. \A q \in Pollers : (poll'[q].stage # "none" /\ poll'[q].tx = t) => q = p
          BY <1>k, <2>4, <3>1, <3>2 DEF Kept
        <4>2. CASE poll'[p].stage \in Proven /\ att'[t].status = "ready"
          BY <4>1, <4>2
        <4>3. CASE att[t].proof
          <5>1. errors = 0
            BY <2>3, <3>2
          <5>2. att[t].status \in {"ready", "verified"} /\ poll[p].stage \in Proven
            BY <1>k, <3>1, <3>2, <4>3, <5>1 DEF Kept
          <5> QED
            BY <2>3, <2>6, <3>2, <4>1, <5>2
        <4> QED
          BY <2>3, <2>6, <3>2, <4>2, <4>3
      <3> QED
        BY <1>k, <2>1, <2>4, <3>1, <3>2 DEF Kept, Polls
    <2> QED
      BY <2>5, <2>6
  <1>2. ASSUME NEW u \in Txs,
               (\E p \in Pollers : Submitted(p, u)) \/ \E ok \in BOOLEAN : SubmissionFails(u, ok)
        PROVE  Kept(t)'
    <2>1. /\ rounds'[u] = rounds[u] + 1 /\ rounds[u] \in Nat
          /\ \A v \in Txs \ {u} : rounds'[v] = rounds[v] /\ att'[v] = att[v]
          /\ att'[u].proof = att[u].proof
          /\ errors' = 0 => errors = 0
          /\ disk'.att = disk.att \/ disk'.att = att'
      BY <1>2, RoundRecords DEF Writes
    <2>2. \/ \E p \in Pollers : /\ poll'[p].stage = "polling" /\ poll'[p].tx = u
                                /\ poll[p] = NoPoll
                                /\ \A q \in Pollers \ {p} : poll'[q] = poll[q]
          \/ UNCHANGED poll
      BY <1>2, RoundRecords
    <2>3. CASE u = t
      <3>1. CASE rounds[t] = 0
        <4>1. rounds'[t] = 1 /\ ~att'[t].proof /\ \A q \in Pollers : ~Polls(q, t)
          BY <1>k, <2>1, <2>3, <3>1 DEF Kept
        <4>2. ASSUME NEW q \in Pollers, poll'[q].stage # "none", poll'[q].tx = t,
                     NEW r \in Pollers, poll'[r].stage # "none", poll'[r].tx = t
              PROVE  q = r
          <5>1. CASE UNCHANGED poll
            BY <4>1, <4>2, <5>1 DEF Polls
          <5>2. ASSUME NEW p \in Pollers, \A o \in Pollers \ {p} : poll'[o] = poll[o]
                PROVE  q = p /\ r = p
            BY <4>1, <4>2, <5>2 DEF Polls
          <5> QED
            BY <2>2, <5>1, <5>2
        <4> QED
          BY <4>1, <4>2 DEF Kept, Polls
      <3>2. CASE rounds[t] # 0
        <4>1. rounds'[t] # 0 /\ rounds'[t] # 1
          BY <2>1, <2>3, <3>2
        <4> QED
          BY <4>1 DEF Kept
      <3> QED
        BY <3>1, <3>2
    <2>4. CASE u # t
      <3>1. rounds'[t] = rounds[t] /\ att'[t] = att[t]
        BY <2>1, <2>4
      <3>2. \A q \in Pollers : (poll'[q].stage # "none" /\ poll'[q].tx = t) => poll'[q] = poll[q]
        BY <2>2, <2>4
      <3>3. disk'.att[t] = disk.att[t] \/ disk'.att[t] = att[t]
        BY <2>1, <3>1
      <3> QED
        BY <1>k, <2>1, <3>1, <3>2, <3>3 DEF Kept, Polls
    <2> QED
      BY <2>3, <2>4
  <1>3. ASSUME NEW u \in Txs, NEW ok \in BOOLEAN, FoundVerified(u, ok)
        PROVE  Kept(t)'
    <2>1. /\ \A v \in Txs \ {u} : att'[v] = att[v]
          /\ att'[u].proof = att[u].proof
          /\ errors' = 0 => errors = 0 /\ att'[u].status = "verified"
          /\ UNCHANGED <<rounds, poll>>
          /\ disk'.att = disk.att \/ disk'.att = att'
      BY <1>3, FoundRecords DEF Writes
    <2>2. att'[t].proof = att[t].proof /\ (att'[t] = att[t] \/ (errors' = 0 => att'[t].status = "verified"))
      BY <2>1
    <2>3. disk'.att[t] = disk.att[t] \/ disk'.att[t] = att'[t]
      BY <2>1
    <2> QED
      BY <1>k, <2>1, <2>2, <2>3 DEF Kept, Polls
  <1>4. CASE Crash
    <2>1. /\ att' = disk.att /\ UNCHANGED <<disk, rounds, errors>>
          /\ \A q \in Pollers : poll'[q].stage = "none"
      BY <1>4 DEF Crash, NoPoll
    <2>2. errors = 0 => att'[t] = att[t]
      BY <2>1 DEF Stays
    <2> QED
      BY <1>k, <2>1, <2>2 DEF Kept, Polls
  <1>5. ASSUME ~\E p \in Pollers : Poll(p), ~Crash,
               ~\E u \in Txs : \/ \E p \in Pollers : Submitted(p, u)
                               \/ \E ok \in BOOLEAN : SubmissionFails(u, ok) \/ FoundVerified(u, ok)
        PROVE  Kept(t)'
    <2>1. UNCHANGED <<att, rounds>> /\ (errors' = 0 => errors = 0) /\ (disk'.att = disk.att \/ disk'.att = att')
      BY <1>5, QuietSteps DEF Writes
    <2>2. {"mining", "mined", "erring"} \subseteq Proven
      BY DEF Proven
    <2>3. ASSUME NEW q \in Pollers, poll'[q].stage # "none"
          PROVE  /\ poll[q].stage # "none" /\ poll'[q].tx = poll[q].tx
                 /\ poll[q].stage \in Proven => poll'[q].stage \in Proven
      BY <1>5, <2>2, <2>3, OtherMoves
    <2>4. disk'.att[t] = disk.att[t] \/ disk'.att[t] = att[t]
      BY <2>1
    <2> QED
      BY <1>k, <2>1, <2>3, <2>4 DEF Kept, Polls
  <1> QED
    BY <1>1, <1>2, <1>3, <1>4, <1>5

\* Every step keeps the files as said.
LEMMA NextWritten ==
    ASSUME Typed, Stays, [Next]_vars
    PROVE  errors' = 0 => disk'.att = att' /\ errors = 0
  <1>1. CASE Writes
    BY <1>1 DEF Writes, Stays
  <1>2. CASE Crash
    BY <1>2 DEF Crash
  <1> QED
    BY <1>1, <1>2, QuietSteps, PollRecords, RoundRecords, FoundRecords

\* A step but a crash takes no proof away, and none undoes a submission.
LEMMA RecordsLast ==
    ASSUME Typed, [Next]_vars, NEW t \in Txs
    PROVE  /\ ~Crash /\ att[t].proof => att'[t].proof
           /\ rounds'[t] = 1 => rounds[t] \in {0, 1}
  <1>0. rounds \in [Txs -> Nat]
    BY DEF Typed, TypeOK
  <1>1. ASSUME NEW p \in Pollers, Poll(p)
        PROVE  (att[t].proof => att'[t].proof) /\ rounds' = rounds
    <2>1. \A u \in Txs \ {poll[p].tx} : att'[u] = att[u]
      BY <1>1, PollRecords
    <2>2. att[poll[p].tx].proof => att'[poll[p].tx].proof
      BY <1>1, PollRecords
    <2> QED
      BY <1>1, <2>1, <2>2, PollFrame
  <1>2. ASSUME NEW u \in Txs,
               (\E p \in Pollers : Submitted(p, u)) \/ \E ok \in BOOLEAN : SubmissionFails(u, ok)
        PROVE  (att[t].proof => att'[t].proof) /\ (rounds'[t] = 1 => rounds[t] \in {0, 1})
    <2>1. CASE u = t
      BY <1>0, <1>2, <2>1, RoundRecords
    <2>2. CASE u # t
      BY <1>0, <1>2, <2>2, RoundRecords
    <2> QED
      BY <2>1, <2>2
  <1>3. ASSUME NEW u \in Txs, NEW ok \in BOOLEAN, FoundVerified(u, ok)
        PROVE  (att[t].proof => att'[t].proof) /\ UNCHANGED rounds
    <2>1. CASE u = t
      BY <1>3, <2>1, FoundRecords
    <2>2. CASE u # t
      BY <1>3, <2>2, FoundRecords
    <2> QED
      BY <2>1, <2>2
  <1>4. Crash => UNCHANGED rounds
    BY DEF Crash
  <1> QED
    BY <1>0, <1>1, <1>2, <1>3, <1>4, QuietSteps

\* Every step keeps what is said of a poller with a proof.
LEMMA NextCarried ==
    ASSUME Typed, Stays, [Next]_vars, NEW q \in Pollers
    PROVE  Carried(q)'
  <1>t. poll' \in [Pollers -> Poller]
    <2>1. Typed'
      BY NextTyped
    <2> QED
      BY <2>1 DEF Typed, TypeOK
  <1>0. /\ poll \in [Pollers -> Poller] /\ poll' \in [Pollers -> Poller]
        /\ rounds \in [Txs -> Nat] /\ errors \in Nat
    BY <1>t, DeliveryAssumption DEF Typed, TypeOK
  <1>k. Carried(q) /\ \A t \in Txs : Kept(t)
    BY DEF Stays
  <1>n. /\ "none" \notin Proven /\ "polling" \notin Proven
        /\ {"listing", "calling", "mining", "reading"} \subseteq Proven
        /\ "mined" \notin {"listing", "calling"} /\ "erring" \notin {"listing", "calling"}
    BY DEF Proven
  <1>b. poll[q].stage # "none" => poll[q].tx \in Txs
    BY DEF Typed, PollersBusy
  <1>e. errors' = 0 => errors = 0
    BY NextWritten
  <1>1. ASSUME poll[q].stage # "none", rounds'[poll[q].tx] = 1
        PROVE  rounds[poll[q].tx] = 1
    <2>1. Polls(q, poll[q].tx) /\ rounds[poll[q].tx] # 0
      BY <1>1, <1>k, <1>b DEF Kept, Polls
    <2> QED
      BY <1>1, <1>b, <2>1, RecordsLast
  <1>2. CASE poll'[q] = poll[q] /\ ~Crash
    <2>1. poll[q].stage \in Proven => att'[poll[q].tx].proof
      BY <1>2, <1>k, <1>n, <1>b, RecordsLast DEF Carried
    <2> QED
      BY <1>2, <1>k, <1>n, <1>b, <1>e, <1>1, <2>1 DEF Carried
  <1>3. CASE /\ poll[q].stage = "mining" /\ poll'[q].stage \in {"mined", "erring"}
             /\ poll'[q].tx = poll[q].tx /\ ~Crash
    <2>1. poll[q].tx \in Txs /\ att[poll[q].tx].proof
      BY <1>3, <1>k, <1>n, <1>b DEF Carried
    <2> QED
      BY <1>3, <1>n, <2>1, RecordsLast DEF Carried
  <1>4. CASE poll'[q].stage \in {"none", "polling"}
    BY <1>4, <1>n DEF Carried
  <1>5. CASE Poll(q)
    <2> DEFINE t == poll[q].tx
    <2>1. t \in Txs /\ poll[q].stage # "none" /\ ~Crash
      BY <1>5, PollFrame, PollIsNoCrash
    <2>2. SUFFICES ASSUME poll'[q].stage # "none"
                   PROVE  Carried(q)'
      BY <1>n DEF Carried
    <2>3. poll'[q].tx = t
      BY <1>5, <2>2, PollMoves
    <2>4. ASSUME poll'[q].stage \in Proven
          PROVE  att'[t].proof
      <3>1. CASE \E ok \in BOOLEAN : FindProof(q, ok) /\ ok
        BY <1>5, <3>1, PollRecords
      <3>2. CASE ~\E ok \in BOOLEAN : FindProof(q, ok) /\ ok
        <4>1. poll[q].stage \in Proven
          BY <1>5, <2>4, <3>2, PollMoves
        <4> QED
          BY <1>k, <2>1, <4>1, RecordsLast DEF Carried
      <3> QED
        BY <3>1, <3>2
    <2>5. ASSUME poll'[q].stage = "listing", rounds'[t] = 1, errors' = 0
          PROVE  poll'[q].payload \in {"ready", "verified"}
      <3>1. poll[q].stage = "reading" /\ poll'[q].payload = att[t].status
        BY <1>5, <2>5, PollMoves
      <3>2. att[t].proof
        BY <1>k, <1>n, <3>1 DEF Carried
      <3>3. rounds[t] = 1 /\ errors = 0
        BY <1>1, <1>e, <2>1, <2>5
      <3> QED
        BY <1>k, <2>1, <3>1, <3>2, <3>3 DEF Kept
    <2>6. ASSUME poll'[q].stage = "calling", rounds'[t] = 1, errors' = 0
          PROVE  poll'[q].payload \in {"ready", "verified"}
      <3>1. poll[q].stage = "listing" /\ \E ok \in BOOLEAN : ListWebhooks(q, ok) /\ ok
        BY <1>5, <2>6, PollMoves
      <3>2. poll'[q].payload = poll[q].payload
        BY <1>0, <3>1 DEF ListWebhooks, Listed, Goto, Poller
      <3>3. rounds[t] = 1 /\ errors = 0
        BY <1>1, <1>e, <2>1, <2>6
      <3> QED
        BY <1>k, <3>1, <3>2, <3>3 DEF Carried
    <2> QED
      BY <2>3, <2>4, <2>5, <2>6 DEF Carried
  <1>6. ASSUME NEW t \in Txs, Submitted(q, t)
        PROVE  poll'[q].stage = "polling"
    BY <1>0, <1>6 DEF Submitted, NoPoll
  <1>7. Crash => poll'[q].stage = "none"
    BY DEF Crash, NoPoll
  <1> QED
    BY <1>2, <1>3, <1>4, <1>5, <1>6, <1>7, OtherMoves

\* Every step keeps a submission's proof and status, and what its poller
\* still carries.
LEMMA NextStays == Typed /\ Stays /\ [Next]_vars => Stays'
  BY NextKept, NextCarried, NextWritten DEF Stays

\* At the start there is no submission and no poller.
LEMMA InitStays == Init => Stays
  BY DEF Init, Stays, Kept, Carried, Polls, Proven, NoPoll

\* "The proof is ready" is not taken back (attest.ts): with one submission
\* of a transaction, be it accepted or not, and no failing store call.
THEOREM ProofIsKept == Spec => []ProofStays
  <1>1. Stays => ProofStays
    BY DEF Stays, Kept, ProofStays
  <1> QED
    BY <1>1, InitType, NextTyped, InitStays, NextStays, PTL DEF Spec

\* What deliverWebhooks sends is of a record with its proof, and says so
\* too, as far as that.
THEOREM PayloadIsComplete == Spec => []PayloadComplete
  <1>1. Stays => PayloadComplete
    BY DEF Stays, Carried, PayloadComplete, At, Tx, Proven
  <1> QED
    BY <1>1, InitType, NextTyped, InitStays, NextStays, PTL DEF Spec

-----------------------------------------------------------------------------
(***************************************************************************)
(* The way of a poller: an attempt goes forward, and what throws in it     *)
(* costs an attempt or ends the poller.                                    *)
(***************************************************************************)
\* What a poller has before it in its attempt.
StepsLeft(stage) ==
    CASE stage = "polling" -> 9 [] stage = "verifying" -> 8 [] stage = "mining" -> 7
      [] stage = "mined" -> 6 [] stage = "erring" -> 5 [] stage = "reading" -> 4
      [] stage = "listing" -> 3 [] stage = "calling" -> 2 [] stage = "failing" -> 1
      [] stage = "none" -> 0

\* The next attempt, or a later stage of this one.
Onward(p) ==
    \/ poll'[p].attempt = poll[p].attempt + 1
    \/ /\ poll'[p].attempt = poll[p].attempt
       /\ StepsLeft(poll'[p].stage) < StepsLeft(poll[p].stage)

\* A call that is being tried is left alone, tried once more or settled, and
\* none is begun but when the webhooks are listed.
CallsOnward(p) ==
    \A h \in Hooks :
        /\ Calling(p, h) => \/ call'[p][h] = call[p][h]
                            \/ call'[p][h].stage # "trying"
                            \/ call'[p][h].attempt = call[p][h].attempt + 1
        /\ ~Calling(p, h) => call'[p][h].stage # "trying" \/ At(p, "listing")

\* A poller that is at work is left alone by the others, or ends, or moves
\* on; what it does itself never leaves it where it is.
PollsAdvance ==
    [][\A p \in Pollers : ~At(p, "none") =>
          /\ poll'[p] = poll[p] \/ poll'[p] = NoPoll \/ Onward(p)
          /\ Poll(p) => poll'[p] = NoPoll \/ Onward(p)
          /\ CallsOnward(p)]_vars

\* The stages as numbers.
LEMMA StepNumbers ==
    /\ StepsLeft("polling") = 9 /\ StepsLeft("verifying") = 8 /\ StepsLeft("mining") = 7
    /\ StepsLeft("mined") = 6 /\ StepsLeft("erring") = 5 /\ StepsLeft("reading") = 4
    /\ StepsLeft("listing") = 3 /\ StepsLeft("calling") = 2 /\ StepsLeft("failing") = 1
    /\ StepsLeft("none") = 0
  BY DEF StepsLeft

\* A step of a poller ends it or takes it on.
LEMMA PollAdvances ==
    ASSUME Typed, NEW p \in Pollers, Poll(p)
    PROVE  poll'[p] = NoPoll \/ Onward(p)
  <1>0. poll \in [Pollers -> Poller] /\ poll[p] \in Poller
    BY DEF Typed, TypeOK
  <1>1. ASSUME NEW stage \in PollStages, Goto(p, stage), StepsLeft(stage) < StepsLeft(poll[p].stage)
        PROVE  Onward(p)
    <2>1. poll'[p].stage = stage /\ poll'[p].attempt = poll[p].attempt
      BY <1>0, <1>1 DEF Goto, Poller
    <2> QED
      BY <1>1, <2>1 DEF Onward
  <1>2. ASSUME Again(p), poll[p].stage \in {"polling", "erring", "reading", "listing"}
        PROVE  Onward(p)
    <2>1. \/ poll'[p].attempt = poll[p].attempt + 1
          \/ poll'[p].stage = "failing" /\ poll'[p].attempt = poll[p].attempt
      BY <1>0, <1>2 DEF Again, Poller
    <2>2. StepsLeft("failing") < StepsLeft(poll[p].stage)
      BY <1>2, StepNumbers
    <2> QED
      BY <2>1, <2>2 DEF Onward
  <1>3. ASSUME poll' = [poll EXCEPT ![p] = NoPoll]
        PROVE  poll'[p] = NoPoll
    BY <1>0, <1>3
  <1>4. CASE FetchFails(p) \/ EndPoll(p)
    BY <1>2, <1>3, <1>4 DEF FetchFails, EndPoll, At
  <1>5. CASE Send(p) \/ SendFails(p) \/ WaitFails(p)
    <2>1. \E stage \in PollStages : Goto(p, stage) /\ StepsLeft(stage) < StepsLeft(poll[p].stage)
      BY <1>5, StepNumbers DEF Send, SendFails, WaitFails, At, PollStages
    <2> QED
      BY <1>1, <2>1
  <1>8. ASSUME NEW ok \in BOOLEAN, NoProof(p, ok) \/ FailPoll(p, ok)
        PROVE  poll'[p] = NoPoll \/ Onward(p)
    <2>1. GiveUp(p) \/ (Again(p) /\ poll[p].stage = "polling")
      BY <1>8 DEF NoProof, FailPoll, At
    <2> QED
      BY <1>2, <1>3, <2>1 DEF GiveUp
  <1>9. ASSUME NEW ok \in BOOLEAN, FindProof(p, ok)
        PROVE  Onward(p)
    <2>1. \/ \E stage \in PollStages : Goto(p, stage) /\ StepsLeft(stage) < StepsLeft(poll[p].stage)
          \/ Again(p) /\ poll[p].stage = "polling"
      BY <1>9, StepNumbers DEF FindProof, StoreProof, At, PollStages
    <2> QED
      BY <1>1, <1>2, <2>1
  <1>6. ASSUME NEW ok \in BOOLEAN, NoteVerified(p, ok) \/ NoteError(p, ok) \/ ListWebhooks(p, ok)
        PROVE  Onward(p)
    <2>1. \/ \E stage \in PollStages : Goto(p, stage) /\ StepsLeft(stage) < StepsLeft(poll[p].stage)
          \/ Again(p) /\ poll[p].stage \in {"polling", "erring", "reading", "listing"}
      BY <1>6, StepNumbers DEF NoteVerified, NoteError, Erred, ListWebhooks, Listed, At, PollStages
    <2> QED
      BY <1>1, <1>2, <2>1
  <1>7. ASSUME NEW ok \in BOOLEAN, ReadAttestation(p, ok)
        PROVE  Onward(p)
    <2>1. CASE Again(p)
      BY <1>2, <1>7, <2>1 DEF ReadAttestation, At
    <2>2. CASE ~Again(p)
      <3> DEFINE x == att[Tx(p)].status
      <3>1. poll' = [poll EXCEPT ![p].stage = "listing", ![p].payload = x] /\ poll[p].stage = "reading"
        BY <1>7, <2>2 DEF ReadAttestation, At
      <3> HIDE DEF x
      <3>2. poll'[p].stage = "listing" /\ poll'[p].attempt = poll[p].attempt
        BY <1>0, <3>1 DEF Poller
      <3> QED
        BY <3>1, <3>2, StepNumbers DEF Onward
    <2> QED
      BY <2>1, <2>2
  <1> QED
    BY <1>4, <1>5, <1>6, <1>7, <1>8, <1>9 DEF Poll

\* Calls that do not change are onward.
LEMMA CallsStand ==
    ASSUME NEW q \in Pollers, call'[q] = call[q]
    PROVE  CallsOnward(q)
  BY DEF CallsOnward, Calling

\* Only a poller that is at its webhooks has calls under way.
Attended == \A p \in Pollers : \A h \in Hooks : Calling(p, h) => At(p, "calling")

\* What a step of a poller does to the calls: they begin when the webhooks
\* are listed, and are cleared at the end.
LEMMA PollCalls ==
    ASSUME Typed, Attended, NEW p \in Pollers, Poll(p)
    PROVE  /\ \A q \in Pollers \ {p} : call'[q] = call[q]
           /\ \A h \in Hooks : ~Calling(p, h)
           /\ \A h \in Hooks : call'[p][h].stage = "trying" =>
                 At(p, "listing") /\ poll'[p].stage = "calling"
  <1>0. call \in [Pollers -> [Hooks -> Call]] /\ poll \in [Pollers -> Poller]
    BY DEF Typed, TypeOK
  <1>1. ASSUME NEW ok \in BOOLEAN, ListWebhooks(p, ok)
        PROVE  /\ At(p, "listing")
               /\ \A q \in Pollers \ {p} : call'[q] = call[q]
               /\ call' = call \/ poll'[p].stage = "calling"
    <2>1. \/ call' = call
          \/ Goto(p, "calling") /\ \A q \in Pollers \ {p} : call'[q] = call[q]
      BY <1>0, <1>1 DEF ListWebhooks, Listed
    <2>2. Goto(p, "calling") => poll'[p].stage = "calling"
      BY <1>0 DEF Goto, Poller
    <2> QED
      BY <1>1, <2>1, <2>2 DEF ListWebhooks, Listed
  <1>2. CASE EndPoll(p)
    BY <1>0, <1>2 DEF EndPoll, NoCall
  <1>3. CASE ~EndPoll(p)
    <2>1. \A h \in Hooks : ~Calling(p, h)
      BY <1>3 DEF Attended, Poll, FetchFails, NoProof, FindProof, StoreProof, Send, SendFails, WaitFails,
                  NoteVerified, NoteError, Erred, ReadAttestation, ListWebhooks, Listed, FailPoll, At
    <2>2. call' = call \/ \E ok \in BOOLEAN : ListWebhooks(p, ok)
      BY <1>3 DEF Poll, FetchFails, NoProof, FindProof, StoreProof, Send, SendFails, WaitFails,
                  NoteVerified, NoteError, Erred, ReadAttestation, FailPoll
    <2> QED
      BY <1>1, <2>1, <2>2 DEF Calling
  <1> QED
    BY <1>2, <1>3

\* An attempt to call takes that call further.
LEMMA CallAdvances ==
    ASSUME Typed, NEW q \in Pollers, NEW p \in Pollers, NEW h \in Hooks, CallHook(p, h)
    PROVE  /\ CallsOnward(q) /\ poll' = poll
           /\ \A g \in Hooks : call'[q][g].stage = "trying" => Calling(q, g)
  <1>0. call \in [Pollers -> [Hooks -> Call]]
    BY DEF Typed, TypeOK
  <1>1. PICK c : /\ SetCall(p, h, c) /\ Calling(p, h)
                 /\ c.stage # "trying" \/ c.attempt = call[p][h].attempt + 1
    BY <1>0 DEF CallHook, Post, Unsafe, PostFails, Settled, Call
  <1>2. poll' = poll
    BY DEF CallHook, Post, Unsafe, PostFails
  <1> QED
    BY <1>0, <1>1, <1>2 DEF SetCall, CallsOnward, Calling

\* The other steps leave the calls alone, or clear them all.
LEMMA OtherCalls ==
    ASSUME [Next]_vars,
           ~\E p \in Pollers : Poll(p) \/ \E h \in Hooks : CallHook(p, h)
    PROVE  \/ call' = call
           \/ call' = [p \in Pollers |-> [h \in Hooks |-> NoCall]]
  <1>1. ASSUME NEW t \in Txs, Request(t) \/ \E p \in Pollers : Submitted(p, t)
        PROVE  call' = call
    BY <1>1, OtherFrame DEF polling
  <1>2. ASSUME NEW r \in Requests, Subscribe(r)
        PROVE  call' = call
    BY <1>2, OtherFrame DEF polling
  <1>3. (\E e \in mempool : ProcessPaymentProof(e)) \/ UNCHANGED vars => call' = call
    BY OtherFrame DEF vars, polling
  <1>4. Crash => call' = [p \in Pollers |-> [h \in Hooks |-> NoCall]]
    BY DEF Crash
  <1> QED
    BY <1>1, <1>2, <1>3, <1>4 DEF Next

\* A poller at its webhooks stays there until it ends itself, or the process does.
LEMMA AtWebhooks ==
    ASSUME Typed, [Next]_vars, NEW q \in Pollers, At(q, "calling"), ~Poll(q), ~Crash
    PROVE  poll'[q].stage = "calling"
  <1>1. ASSUME NEW t \in Txs, Submitted(q, t)
        PROVE  FALSE
    BY <1>1 DEF Submitted, At, NoPoll
  <1>2. poll[q].stage = "calling"
    BY DEF At
  <1> QED
    BY <1>1, <1>2, OtherMoves

\* Every step takes the calls of a poller further, and leaves none behind.
LEMMA NextAttended ==
    ASSUME Typed, Attended, [Next]_vars
    PROVE  Attended' /\ \A q \in Pollers : CallsOnward(q)
  <1>0. call \in [Pollers -> [Hooks -> Call]]
    BY DEF Typed, TypeOK
  <1> SUFFICES ASSUME NEW q \in Pollers
               PROVE  /\ \A h \in Hooks : call'[q][h].stage = "trying" => poll'[q].stage = "calling"
                      /\ CallsOnward(q)
    BY DEF Attended, Calling, At
  <1>1. CASE Poll(q)
    <2>1. /\ \A h \in Hooks : ~Calling(q, h)
          /\ \A h \in Hooks : call'[q][h].stage = "trying" =>
                At(q, "listing") /\ poll'[q].stage = "calling"
      BY <1>1, PollCalls
    <2> QED
      BY <2>1 DEF CallsOnward
  <1>2. ASSUME call'[q] = call[q], ~Poll(q), ~Crash
        PROVE  /\ \A h \in Hooks : call'[q][h].stage = "trying" => poll'[q].stage = "calling"
               /\ CallsOnward(q)
    <2>1. \A h \in Hooks : call'[q][h].stage = "trying" => At(q, "calling")
      BY <1>2 DEF Attended, Calling
    <2> QED
      BY <1>2, <2>1, AtWebhooks, CallsStand
  <1>3. ASSUME NEW p \in Pollers \ {q}, Poll(p), ~Poll(q)
        PROVE  /\ \A h \in Hooks : call'[q][h].stage = "trying" => poll'[q].stage = "calling"
               /\ CallsOnward(q)
    <2>1. call'[q] = call[q]
      BY <1>3, PollCalls
    <2>2. poll'[q] = poll[q]
      BY <1>3, PollFrame
    <2> QED
      BY <2>1, <2>2, CallsStand DEF Attended, Calling, At
  <1>4. ASSUME NEW p \in Pollers, NEW h \in Hooks, CallHook(p, h)
        PROVE  /\ \A g \in Hooks : call'[q][g].stage = "trying" => poll'[q].stage = "calling"
               /\ CallsOnward(q)
    BY <1>4, CallAdvances DEF Attended, At
  <1>5. CASE ~\E p \in Pollers : Poll(p) \/ \E h \in Hooks : CallHook(p, h)
    <2>1. CASE call' = call /\ ~Crash
      BY <1>2, <1>5, <2>1
    <2>2. CASE \/ Crash \/ call' = [p \in Pollers |-> [h \in Hooks |-> NoCall]]
      <3>1. call'[q] = [h \in Hooks |-> NoCall]
        BY <2>2 DEF Crash
      <3> QED
        BY <3>1 DEF CallsOnward, Calling, NoCall
    <2> QED
      BY <1>5, <2>1, <2>2, OtherCalls
  <1> QED
    BY <1>1, <1>3, <1>4, <1>5

\* What happens to a poller at work.
LEMMA PollersOn ==
    ASSUME Typed, [Next]_vars, NEW q \in Pollers, ~At(q, "none")
    PROVE  /\ poll'[q] = poll[q] \/ poll'[q] = NoPoll \/ Onward(q)
           /\ Poll(q) => poll'[q] = NoPoll \/ Onward(q)
  <1>1. ASSUME NEW t \in Txs, Submitted(q, t)
        PROVE  FALSE
    BY <1>1 DEF Submitted, At, NoPoll
  <1>2. CASE /\ poll[q].stage = "mining" /\ poll'[q].stage \in {"mined", "erring"}
             /\ poll'[q].attempt = poll[q].attempt
    BY <1>2, StepNumbers DEF Onward
  <1>3. Crash => poll'[q] = NoPoll
    BY DEF Crash
  <1> QED
    BY <1>1, <1>2, <1>3, OtherMoves, PollAdvances

\* A round ends after at most maxPollAttempts attempts, each with at most
\* MAX_RETRIES calls to every webhook that was listed, whatever FDC, the
\* contract, the store and the receivers do.
THEOREM RoundsComeToAnEnd == Spec => PollsAdvance
  <1> DEFINE Further(p) == ~At(p, "none") =>
                 /\ poll'[p] = poll[p] \/ poll'[p] = NoPoll \/ Onward(p)
                 /\ Poll(p) => poll'[p] = NoPoll \/ Onward(p)
                 /\ CallsOnward(p)
  <1>1. Init => Typed /\ Attended
    BY InitType DEF Init, Attended, Calling, NoCall
  <1>2. Typed /\ Attended /\ [Next]_vars => (Typed /\ Attended)'
    BY NextTyped, NextAttended
  <1>3. ASSUME Typed, Attended, [Next]_vars
        PROVE  [\A p \in Pollers : Further(p)]_vars
    <2>1. \A q \in Pollers : CallsOnward(q)
      BY <1>3, NextAttended
    <2> QED
      BY <1>3, <2>1, PollersOn
  <1> QED
    BY <1>1, <1>2, <1>3, PTL DEF Spec, PollsAdvance
=============================================================================
