---------------------------- MODULE PgStoreProofs ----------------------------
(***************************************************************************)
(* What is proved of PgStore, for all constants that satisfy PgAssumption. *)
(***************************************************************************)
EXTENDS PgStore, TotalsProofs, TLAPS

-----------------------------------------------------------------------------
(***************************************************************************)
(* Types.  A request in progress has a key, one on its way to an           *)
(* attestation a transaction too, and a rotation past its first query the  *)
(* new key.                                                                *)
(***************************************************************************)
AskStages    == {"lookup", "lookup_plain", "copying", "dropping", "moving", "lookup_again",
                 "connecting", "selecting", "inserting", "committing",
                 "creating", "inserting_tx", "submitting", "pending", "failing", "releasing", "unwinding"}
RotateStages == {"rekeying", "deleting_old", "listing"}
LastStages   == {"issuing", "deleting", "deleting_plain"}

\* The stages by what a request in them knows: its key, its transaction, the
\* new key of a rotation.
LEMMA StagesAre == Stages = {"idle"} \cup AskStages \cup RotateStages \cup LastStages
  BY DEF Stages, AskStages, RotateStages, LastStages

\* Stages with a slot of the request's own, and stages that may have one.
SureStages == {"creating", "inserting_tx", "submitting"}
HoldStages == SureStages \cup {"failing", "releasing", "unwinding"}

CallOK(c) ==
    /\ c \in Call
    /\ c.stage # "idle" => c.key \in Keys
    /\ c.stage \in AskStages => c.tx \in Txs
    /\ c.stage \in RotateStages => c.new \in Keys
    /\ c.stage \in SureStages => c.holds
    /\ c.holds => c.stage \in HoldStages

Table == [Keys -> [Forms -> [Periods -> Nat]]]

TablesOK ==
    /\ rows \in [Keys -> SUBSET Forms]
    /\ counters \subseteq Keys \X Forms \X Periods
    /\ used \in Table
    /\ lock \in [Keys -> [Periods -> Clients \cup {NoClient}]]
    /\ att \in [Txs -> {"none", "copied", "created"}]
UsersOK  == listed \in Keys /\ known \subseteq Keys
CallsOK  == call \in [Clients -> Call] /\ \A r \in Clients : CallOK(call[r])
ScriptOK == script \subseteq Txs \cup {FirstKey}
GhostsOK ==
    /\ charged \in [Keys -> [Periods -> Nat]] /\ uncounted \in [Periods -> Nat]
    /\ revoked \subseteq Keys /\ gone \subseteq revoked
    /\ overlap \in BOOLEAN
    /\ errors \in 0..MaxErrors /\ crashes \in 0..MaxCrashes /\ runs \in 0..MaxRuns

Typed == TablesOK /\ UsersOK /\ CallsOK /\ ScriptOK /\ GhostsOK

\* The invariant of types says what the type invariant of the model says.
LEMMA TypedIsTypeOK == Typed => TypeOK
  BY DEF Typed, TypeOK, TablesOK, UsersOK, CallsOK, ScriptOK, GhostsOK, Table

\* The parts that a step leaves alone.
LEMMA SameTypes ==
    /\ TablesOK /\ UNCHANGED tables => TablesOK'
    /\ UsersOK /\ UNCHANGED <<listed, known>> => UsersOK'
    /\ CallsOK /\ UNCHANGED call => CallsOK'
    /\ ScriptOK /\ UNCHANGED script => ScriptOK'
    /\ GhostsOK /\ UNCHANGED ghosts => GhostsOK'
  <1>1. TablesOK /\ UNCHANGED tables => TablesOK'
    BY DEF TablesOK, tables, Table
  <1>2. UsersOK /\ UNCHANGED <<listed, known>> => UsersOK'
    BY DEF UsersOK
  <1>3. CallsOK /\ UNCHANGED call => CallsOK'
    BY DEF CallsOK
  <1>4. ScriptOK /\ UNCHANGED script => ScriptOK'
    BY DEF ScriptOK
  <1>5. GhostsOK /\ UNCHANGED ghosts => GhostsOK'
    BY DEF GhostsOK, ghosts
  <1> QED
    BY <1>1, <1>2, <1>3, <1>4, <1>5

\* A request that is idle has its types.
LEMMA IdleOK ==
    CallOK(Idle) /\ Idle \in Call /\ Idle.stage = "idle"
  BY PgAssumption DEF CallOK, Idle, Call, Stages, AskStages, RotateStages, SureStages, Forms

\* The types hold at the start.
LEMMA InitTyped == Init => Typed
  <1> SUFFICES ASSUME Init
               PROVE  Typed
    OBVIOUS
  <1>1. PICK past \in [{n \in Periods : Fits(n)} -> 0..Limit] :
           /\ used = [k \in Keys |-> [f \in Forms |-> [n \in Periods |->
                        IF k = FirstKey /\ f = StoredAs /\ Fits(n) THEN past[n] ELSE 0]]]
           /\ counters = {x \in {FirstKey} \X {StoredAs} \X Periods :
                            Fits(x[3]) /\ past[x[3]] > 0}
           /\ charged = [k \in Keys |-> [n \in Periods |-> used[k]["plain"][n] + used[k]["hash"][n]]]
    BY DEF Init
  <1>2. used \in Table
    <2>1. \A n \in Periods : Fits(n) => past[n] \in Nat
      BY PgAssumption
    <2> QED
      BY <1>1, <2>1 DEF Table
  <1>3. charged \in [Keys -> [Periods -> Nat]]
    BY <1>1, <1>2 DEF Table, Forms
  <1>4. counters \subseteq Keys \X Forms \X Periods
    BY <1>1, PgAssumption
  <1>5. TablesOK
    BY <1>2, <1>4, PgAssumption DEF Init, TablesOK
  <1>7. CallsOK
    BY IdleOK DEF Init, CallsOK
  <1>8. UsersOK /\ ScriptOK /\ GhostsOK
    <2>1. UsersOK /\ ScriptOK
      BY PgAssumption DEF Init, UsersOK, ScriptOK
    <2>2. errors \in 0..MaxErrors /\ crashes \in 0..MaxCrashes /\ runs \in 0..MaxRuns
      BY PgAssumption DEF Init
    <2>3. revoked \subseteq Keys /\ gone \subseteq revoked /\ overlap \in BOOLEAN
      BY DEF Init
    <2>4. uncounted \in [Periods -> Nat]
      BY DEF Init
    <2> QED
      BY <1>3, <2>1, <2>2, <2>3, <2>4 DEF GhostsOK
  <1> QED
    BY <1>5, <1>7, <1>8 DEF Typed

\* A client's call changes to one that is right, and no other does.
LEMMA CallChanges ==
    ASSUME CallsOK, NEW r \in Clients, NEW c, CallOK(c), call' = [call EXCEPT ![r] = c]
    PROVE  CallsOK'
  <1>1. c \in Call
    BY DEF CallOK
  <1> QED
    BY <1>1 DEF CallsOK

\* A request that returns leaves every call with its types.
LEMMA ReturnOK ==
    ASSUME CallsOK, NEW r \in Clients, Return(r)
    PROVE  CallsOK'
  BY IdleOK, CallChanges DEF Return

\* A busy call moves on with the key, the transaction, the new key and the
\* slot it has.
LEMMA GotoOK ==
    ASSUME CallsOK, NEW r \in Clients, NEW stage \in Stages, Goto(r, stage), ~At(r, "idle"),
           stage \in AskStages => call[r].stage \in AskStages,
           stage \in RotateStages => call[r].stage \in RotateStages,
           stage \in SureStages => call[r].stage \in SureStages,
           call[r].stage \in HoldStages => stage \in HoldStages
    PROVE  CallsOK'
  <1> DEFINE c == [call[r] EXCEPT !.stage = stage]
  <1>1. CallOK(call[r]) /\ call' = [call EXCEPT ![r] = c]
    BY DEF CallsOK, Goto
  <1>2. CallOK(c)
    BY <1>1 DEF CallOK, Call, At
  <1> HIDE DEF c
  <1> QED
    BY <1>1, <1>2, CallChanges

\* So does one that takes a slot or loses it.
LEMMA GotoWithOK ==
    ASSUME CallsOK, NEW r \in Clients, NEW stage \in AskStages, NEW holds \in BOOLEAN,
           GotoWith(r, stage, holds), call[r].stage \in AskStages,
           stage \in SureStages => holds, holds => stage \in HoldStages
    PROVE  CallsOK'
  <1> DEFINE c == [call[r] EXCEPT !.stage = stage, !.holds = holds]
  <1>1. CallOK(call[r]) /\ call \in [Clients -> Call]
    BY DEF CallsOK
  <1>2. call' = [call EXCEPT ![r] = c]
    BY <1>1 DEF GotoWith
  <1>3. stage \in Stages /\ stage \notin RotateStages /\ call[r].stage # "idle"
    BY DEF AskStages, RotateStages, Stages
  <1>4. CallOK(c)
    BY <1>1, <1>3 DEF CallOK, Call
  <1> HIDE DEF c
  <1> QED
    BY <1>2, <1>4, CallChanges

(***************************************************************************)
(* The steps.  Most of them move the call on or end it.                    *)
(***************************************************************************)
Moves(r) ==
    \/ Return(r)
    \/ \E stage \in Stages : /\ Goto(r, stage)
                             /\ stage \in AskStages => call[r].stage \in AskStages
                             /\ stage \in RotateStages => call[r].stage \in RotateStages
                             /\ stage \in SureStages => call[r].stage \in SureStages
                             /\ call[r].stage \in HoldStages => stage \in HoldStages
    \/ \E stage \in AskStages, holds \in BOOLEAN :
          /\ GotoWith(r, stage, holds) /\ call[r].stage \in AskStages
          /\ stage \in SureStages => holds
          /\ holds => stage \in HoldStages

\* A request that only changes its stage and its slot leaves every call with
\* its types.
LEMMA MovesOK ==
    ASSUME CallsOK, NEW r \in Clients, ~At(r, "idle"), Moves(r)
    PROVE  CallsOK'
  BY ReturnOK, GotoOK, GotoWithOK DEF Moves

\* The queries of a request in progress only move it on or end it.
LEMMA StepMoves ==
    ASSUME NEW r \in Clients,
           \/ SelectHashed(r) \/ SelectPlain(r) \/ CopyRow(r) \/ DropPlain(r) \/ MoveUsage(r)
           \/ SelectForUpdate(r) \/ InsertCounter(r)
           \/ SelectTx(r) \/ InsertTx(r) \/ NoteFailed(r) \/ Release(r)
           \/ DeleteHashed(r) \/ DeletePlain(r)
           \/ RekeyUsage(r) \/ DeleteOld(r) \/ ListNew(r) \/ QueryFails(r)
           \/ \E ok \in BOOLEAN : \/ Submit(r, ok) \/ NotePending(r, ok) \/ ReleaseFails(r, ok)
                                  \/ \E applied \in BOOLEAN : Commit(r, ok, applied)
    PROVE  Moves(r) /\ ~At(r, "idle")
  <1>0. AskStages \cap RotateStages = {} /\ AskStages \subseteq Stages /\ RotateStages \subseteq Stages
    BY DEF AskStages, RotateStages, Stages
  <1>a. ASSUME NEW stage \in AskStages, Goto(r, stage), call[r].stage \in AskStages,
               stage \in SureStages => call[r].stage \in SureStages,
               call[r].stage \in HoldStages => stage \in HoldStages
        PROVE  Moves(r)
    BY <1>0, <1>a DEF Moves
  <1>1. CASE \/ SelectHashed(r) \/ SelectPlain(r) \/ CopyRow(r) \/ DropPlain(r) \/ MoveUsage(r)
             \/ SelectForUpdate(r) \/ InsertCounter(r)
    <2>1. /\ call[r].stage \in AskStages \ HoldStages
          /\ Return(r) \/ \E stage \in AskStages \ SureStages : Goto(r, stage)
      BY <1>1 DEF SelectHashed, SelectPlain, CopyRow, DropPlain, MoveUsage, SelectForUpdate,
                  InsertCounter, At, AskStages, SureStages, HoldStages
    <2> QED
      BY <1>0, <1>a, <2>1 DEF Moves, At, AskStages
  <1>2. CASE SelectTx(r) \/ InsertTx(r) \/ NoteFailed(r) \/ Release(r)
    <2>1. /\ call[r].stage \in HoldStages
          /\ \/ Return(r)
             \/ \E stage \in HoldStages : /\ Goto(r, stage)
                                          /\ stage \in SureStages => call[r].stage \in SureStages
      BY <1>2 DEF SelectTx, InsertTx, NoteFailed, Release, Releasing, At, SureStages, HoldStages
    <2>2. HoldStages \subseteq AskStages /\ "idle" \notin AskStages
      BY DEF HoldStages, SureStages, AskStages
    <2> QED
      BY <1>a, <2>1, <2>2 DEF Moves, At
  <1>3. ASSUME NEW ok \in BOOLEAN,
               \/ Submit(r, ok) \/ NotePending(r, ok) \/ ReleaseFails(r, ok)
               \/ \E applied \in BOOLEAN : Commit(r, ok, applied)
        PROVE  Moves(r) /\ ~At(r, "idle")
    <2>1. CASE \E applied \in BOOLEAN : Commit(r, ok, applied)
      BY <2>1 DEF Commit, Moves, At, AskStages, SureStages, HoldStages
    <2>2. CASE Submit(r, ok)
      <3>1. At(r, "submitting") /\ GotoWith(r, IF ok THEN "pending" ELSE "failing", ~ok)
        BY <2>2 DEF Submit
      <3> QED
        BY <3>1 DEF Moves, At, AskStages, SureStages, HoldStages
    <2>3. CASE NotePending(r, ok)
      <3>1. At(r, "pending") /\ (Return(r) \/ Goto(r, "unwinding"))
        BY <2>3 DEF NotePending
      <3>2. CASE Goto(r, "unwinding")
        BY <1>a, <3>1, <3>2 DEF At, AskStages, SureStages, HoldStages
      <3> QED
        BY <3>1, <3>2 DEF Moves, At
    <2>4. CASE ReleaseFails(r, ok)
      <3>1. /\ call[r].stage \in {"releasing", "unwinding"}
            /\ Return(r) \/ GotoWith(r, "unwinding", call[r].holds /\ ~ok)
        BY <2>4 DEF ReleaseFails, Releasing
      <3>2. (call[r].holds /\ ~ok) \in BOOLEAN
        OBVIOUS
      <3> QED
        BY <3>1, <3>2 DEF Moves, At, AskStages, SureStages, HoldStages
    <2> QED
      BY <1>3, <2>1, <2>2, <2>3, <2>4
  <1>4. CASE RekeyUsage(r) \/ DeleteOld(r) \/ ListNew(r)
    <2>1. call[r].stage \in RotateStages /\ (Return(r) \/ \E stage \in RotateStages : Goto(r, stage))
      BY <1>4 DEF RekeyUsage, DeleteOld, ListNew, At, RotateStages
    <2>2. (HoldStages \cup {"idle"}) \cap RotateStages = {} /\ SureStages \subseteq HoldStages
      BY DEF HoldStages, SureStages, RotateStages
    <2> QED
      BY <1>0, <2>1, <2>2 DEF Moves, At
  <1>5. CASE DeleteHashed(r) \/ DeletePlain(r)
    <2>1. call[r].stage \in {"deleting", "deleting_plain"} /\ (Return(r) \/ Goto(r, "deleting_plain"))
      BY <1>5 DEF DeleteHashed, DeletePlain, At
    <2> QED
      BY <2>1 DEF Moves, At, AskStages, RotateStages, SureStages, HoldStages, Stages
  <1>6. CASE QueryFails(r)
    <2>1. ~At(r, "idle") /\ AfterError(r)
      BY <1>6 DEF QueryFails, At
    <2>2. CASE Goto(r, "failing") /\ At(r, "pending")
      BY <1>a, <2>2 DEF At, AskStages, SureStages, HoldStages
    <2>3. CASE Goto(r, "unwinding") /\ call[r].stage \in {"creating", "inserting_tx", "failing"}
      <3>1. "unwinding" \in AskStages \cap HoldStages /\ "unwinding" \notin SureStages
        BY DEF AskStages, SureStages, HoldStages
      <3>2. call[r].stage \in AskStages
        BY <2>3 DEF AskStages
      <3> QED
        BY <1>a, <2>1, <2>3, <3>1, <3>2
    <2> QED
      BY <2>1, <2>2, <2>3 DEF AfterError, Moves
  <1> QED
    BY <1>1, <1>2, <1>3, <1>4, <1>5, <1>6

\* A call that goes on to another stage, whatever becomes of its slot.
Goes(r, stage) == Goto(r, stage) \/ \E holds \in BOOLEAN : GotoWith(r, stage, holds)

\* A request in progress knows what its stage needs: key, period, transaction,
\* new key.
LEMMA BusyCall ==
    ASSUME Typed, NEW r \in Clients, ~At(r, "idle")
    PROVE  /\ Key(r) \in Keys /\ Period(r) \in Periods
           /\ call[r].stage \in AskStages => call[r].tx \in Txs
           /\ call[r].stage \in RotateStages => call[r].new \in Keys
  BY DEF Typed, CallsOK, CallOK, Call, At, Key, Period

\* Counters moved from one id to another.
LEMMA RenameTypes ==
    ASSUME TablesOK, NEW k \in Keys, NEW f \in Forms, NEW to \in Keys, Rename(k, f, to)
    PROVE  used' \in Table /\ counters' \subseteq Keys \X Forms \X Periods
  <1>1. used \in Table /\ "hash" \in Forms /\ counters \subseteq Keys \X Forms \X Periods
    BY DEF TablesOK, Forms
  <1>2. used' \in Table
    <2> DEFINE a == [n \in Periods |-> used[to]["hash"][n] + used[k][f][n]]
               z == [n \in Periods |-> 0]
    <2>1. a \in [Periods -> Nat] /\ z \in [Periods -> Nat]
      BY <1>1 DEF Table
    <2>2. used' = [used EXCEPT ![to]["hash"] = a, ![k][f] = z]
      BY DEF Rename
    <2> HIDE DEF a, z
    <2> QED
      BY <1>1, <2>1, <2>2 DEF Table
  <1>3. counters' \subseteq Keys \X Forms \X Periods
    <2>1. \A x \in counters : x[3] \in Periods
      BY <1>1
    <2> QED
      BY <1>1, <2>1 DEF Rename
  <1> QED
    BY <1>2, <1>3

\* The row of one counter changes, or the transaction that holds it.
LEMMA OneRow ==
    ASSUME TablesOK, NEW k \in Keys, NEW n \in Periods
    PROVE  /\ used[k]["hash"][n] \in Nat
           /\ \A v \in Nat : [used EXCEPT ![k]["hash"][n] = v] \in Table
           /\ \A c \in Clients \cup {NoClient} :
                 [lock EXCEPT ![k][n] = c] \in [Keys -> [Periods -> Clients \cup {NoClient}]]
           /\ <<k, "hash", n>> \in Keys \X Forms \X Periods
  BY DEF TablesOK, Table, Forms

\* A slot given back changes one counter, and may be a slot uncounted.
LEMMA ReleasedTypes ==
    ASSUME Typed, NEW r \in Clients, ~At(r, "idle"), Released(r)
    PROVE  used' \in Table /\ uncounted' \in [Periods -> Nat]
  <1>0. TablesOK /\ Key(r) \in Keys /\ Period(r) \in Periods /\ uncounted \in [Periods -> Nat]
    BY BusyCall DEF Typed, GhostsOK
  <1> DEFINE u == used[Key(r)]["hash"][Period(r)]
             v == IF u > 0 THEN u - 1 ELSE 0
  <1>1. u \in Nat
    BY <1>0, OneRow
  <1>2. v \in Nat
    BY <1>1
  <1>3. used' = [used EXCEPT ![Key(r)]["hash"][Period(r)] = v]
    BY DEF Released
  <1>4. uncounted' \in {uncounted, [uncounted EXCEPT ![Period(r)] = uncounted[Period(r)] + 1]}
    BY DEF Released
  <1> HIDE DEF v
  <1>5. used' \in Table
    BY <1>0, <1>2, <1>3, OneRow
  <1> QED
    BY <1>0, <1>4, <1>5

\* A fault is counted, within its bound.
LEMMA FaultTypes ==
    ASSUME GhostsOK, Fault
    PROVE  overlap' \in BOOLEAN /\ errors' \in 0..MaxErrors /\ errors' = errors + 1
  BY PgAssumption DEF GhostsOK, Fault

\* A query of a request keeps the types.
LEMMA ServeTyped ==
    ASSUME Typed, NEW r \in Clients, Serve(r)
    PROVE  Typed'
  <1>0. TablesOK /\ UsersOK /\ CallsOK /\ ScriptOK /\ GhostsOK
    BY DEF Typed
  <1>1. CASE SelectHashed(r) \/ SelectPlain(r) \/ SelectTx(r) \/ NoteFailed(r)
    <2>1. UNCHANGED tables /\ UNCHANGED <<listed, known>> /\ UNCHANGED script /\ UNCHANGED ghosts
      BY <1>1 DEF SelectHashed, SelectPlain, SelectTx, NoteFailed
    <2>2. CallsOK'
      BY <1>0, <1>1, StepMoves, MovesOK
    <2> QED
      BY <1>0, <2>1, <2>2, SameTypes DEF Typed
  <1>2. CASE CopyRow(r) \/ DropPlain(r)
    <2>1. CallsOK' /\ UNCHANGED <<counters, used, lock, att, listed, known, script, ghosts>>
      BY <1>0, <1>2, StepMoves, MovesOK DEF CopyRow, DropPlain
    <2>2. rows' \in [Keys -> SUBSET Forms]
      BY <1>0, <1>2 DEF CopyRow, DropPlain, TablesOK, Forms
    <2>3. TablesOK'
      BY <1>0, <2>1, <2>2 DEF TablesOK, Table
    <2> QED
      BY <1>0, <2>1, <2>3, SameTypes DEF Typed
  <1>3. CASE MoveUsage(r) \/ RekeyUsage(r)
    <2>1. CallsOK' /\ UNCHANGED <<rows, lock, att, listed, known, script, ghosts>>
      BY <1>0, <1>3, StepMoves, MovesOK DEF MoveUsage, RekeyUsage
    <2>2. used' \in Table /\ counters' \subseteq Keys \X Forms \X Periods
      <3>1. CASE UNCHANGED <<counters, used>>
        BY <1>0, <3>1 DEF TablesOK
      <3>2. CASE MoveUsage(r) /\ Rename(Key(r), "plain", Key(r))
        <4>1. Key(r) \in Keys
          BY <3>2, BusyCall DEF MoveUsage, At
        <4> QED
          BY <1>0, <3>2, <4>1, RenameTypes DEF Forms
      <3>3. CASE RekeyUsage(r)
        <4>1. Key(r) \in Keys /\ call[r].new \in Keys
          BY <3>3, BusyCall DEF RekeyUsage, At, RotateStages
        <4> QED
          BY <1>0, <3>3, <4>1, RenameTypes DEF RekeyUsage, Forms
      <3> QED
        BY <1>3, <3>1, <3>2, <3>3 DEF MoveUsage
    <2>3. TablesOK'
      BY <1>0, <2>1, <2>2 DEF TablesOK, Table
    <2> QED
      BY <1>0, <2>1, <2>3, SameTypes DEF Typed
  <1>4. CASE SelectForUpdate(r) \/ InsertCounter(r)
    <2>1. CallsOK' /\ UNCHANGED <<rows, counters, used, att, listed, known, script, ghosts>>
      BY <1>0, <1>4, StepMoves, MovesOK DEF SelectForUpdate, InsertCounter
    <2>2. Key(r) \in Keys /\ Period(r) \in Periods
      BY <1>4, BusyCall DEF SelectForUpdate, InsertCounter, At
    <2>3. lock' \in {lock, [lock EXCEPT ![Key(r)][Period(r)] = r]}
      BY <1>4 DEF SelectForUpdate, InsertCounter
    <2>4. lock' \in [Keys -> [Periods -> Clients \cup {NoClient}]]
      <3>1. [lock EXCEPT ![Key(r)][Period(r)] = r] \in [Keys -> [Periods -> Clients \cup {NoClient}]]
        BY <1>0, <2>2, OneRow
      <3>2. lock \in [Keys -> [Periods -> Clients \cup {NoClient}]]
        BY <1>0 DEF TablesOK
      <3> QED
        BY <2>3, <3>1, <3>2
    <2>5. TablesOK'
      BY <1>0, <2>1, <2>4 DEF TablesOK, Table
    <2> QED
      BY <1>0, <2>1, <2>5, SameTypes DEF Typed
  <1>5. ASSUME NEW ok \in BOOLEAN, NEW applied \in BOOLEAN, Commit(r, ok, applied)
        PROVE  Typed'
    <2>1. CallsOK' /\ UNCHANGED <<rows, att, listed, known, script, charged, uncounted, revoked, gone, crashes, runs>>
      BY <1>0, <1>5, StepMoves, MovesOK DEF Commit
    <2>2. Key(r) \in Keys /\ Period(r) \in Periods
      BY <1>5, BusyCall DEF Commit, At
    <2>3. lock' \in [Keys -> [Periods -> Clients \cup {NoClient}]]
      BY <1>0, <1>5, <2>2, OneRow DEF Commit
    <2>4. used' \in Table /\ counters' \subseteq Keys \X Forms \X Periods
      <3>1. CASE applied
        <4>1. used' = [used EXCEPT ![Key(r)]["hash"][Period(r)] = used[Key(r)]["hash"][Period(r)] + 1]
          BY <1>5, <3>1 DEF Commit, Committed
        <4>2. used[Key(r)]["hash"][Period(r)] + 1 \in Nat /\ Counter(r) \in Keys \X Forms \X Periods
          BY <1>0, <2>2, OneRow DEF Counter
        <4>3. used' \in Table
          BY <1>0, <2>2, <4>1, <4>2, OneRow
        <4> QED
          BY <1>0, <1>5, <3>1, <4>2, <4>3 DEF Commit, Committed, TablesOK
      <3>2. CASE ~applied
        BY <1>0, <1>5, <3>2 DEF Commit, Committed, TablesOK
      <3> QED
        BY <3>1, <3>2
    <2>5. TablesOK'
      BY <1>0, <2>1, <2>3, <2>4 DEF TablesOK, Table
    <2>6. UNCHANGED <<overlap, errors>> \/ Fault
      BY <1>5 DEF Commit
    <2>7. overlap' \in BOOLEAN /\ errors' \in 0..MaxErrors
      BY <1>0, <2>6, FaultTypes DEF GhostsOK
    <2>8. GhostsOK'
      BY <1>0, <2>1, <2>7 DEF GhostsOK
    <2> QED
      BY <1>0, <2>1, <2>5, <2>8, SameTypes DEF Typed
  <1>6. CASE InsertTx(r)
    <2>1. CallsOK' /\ UNCHANGED <<rows, counters, used, lock, listed, known, script, ghosts>>
      BY <1>0, <1>6, StepMoves, MovesOK DEF InsertTx
    <2>2. att' \in [Txs -> {"none", "copied", "created"}]
      BY <1>0, <1>6 DEF InsertTx, TablesOK
    <2>3. TablesOK'
      BY <1>0, <2>1, <2>2 DEF TablesOK, Table
    <2> QED
      BY <1>0, <2>1, <2>3, SameTypes DEF Typed
  <1>7. CASE Release(r)
    <2>1. /\ CallsOK' /\ Released(r) /\ ~At(r, "idle")
          /\ UNCHANGED <<rows, counters, lock, att, listed, known, script,
                         charged, revoked, gone, overlap, errors, crashes, runs>>
      BY <1>0, <1>7, StepMoves, MovesOK DEF Release
    <2>2. used' \in Table /\ uncounted' \in [Periods -> Nat]
      BY <2>1, ReleasedTypes
    <2>3. TablesOK' /\ GhostsOK'
      BY <1>0, <2>1, <2>2 DEF TablesOK, GhostsOK, Table
    <2> QED
      BY <1>0, <2>1, <2>3, SameTypes DEF Typed
  <1>8. CASE DeleteHashed(r) \/ DeletePlain(r) \/ DeleteOld(r)
    <2>1. /\ CallsOK'
          /\ UNCHANGED <<counters, used, lock, att, listed, known, script,
                         charged, uncounted, overlap, errors, crashes, runs>>
      BY <1>0, <1>8, StepMoves, MovesOK DEF DeleteHashed, DeletePlain, DeleteOld
    <2>2. Key(r) \in Keys
      BY <1>8, BusyCall DEF DeleteHashed, DeletePlain, DeleteOld, At
    <2>3. rows' \in [Keys -> SUBSET Forms] /\ revoked' \subseteq Keys /\ gone' \subseteq revoked'
      <3>1. UNCHANGED <<rows, revoked, gone>> \/ \E f \in Forms : Remove(Key(r), f)
        BY <1>8 DEF DeleteHashed, DeletePlain, DeleteOld, Forms
      <3> QED
        BY <1>0, <2>2, <3>1 DEF Remove, TablesOK, GhostsOK
    <2>4. TablesOK' /\ GhostsOK'
      BY <1>0, <2>1, <2>3 DEF TablesOK, GhostsOK, Table
    <2> QED
      BY <1>0, <2>1, <2>4, SameTypes DEF Typed
  <1>9. CASE ListNew(r)
    <2>1. CallsOK' /\ UNCHANGED <<tables, script, ghosts>>
      BY <1>0, <1>9, StepMoves, MovesOK DEF ListNew
    <2>2. UsersOK'
      BY <1>0, <1>9, BusyCall DEF ListNew, UsersOK, At, RotateStages
    <2> QED
      BY <1>0, <2>1, <2>2, SameTypes DEF Typed
  <1>10. ASSUME NEW ok \in BOOLEAN, Submit(r, ok)
         PROVE  Typed'
    <2>1. CallsOK' /\ UNCHANGED <<tables, listed, known, script, uncounted, revoked, gone, overlap, errors, crashes, runs>>
      BY <1>0, <1>10, StepMoves, MovesOK DEF Submit
    <2>2. charged' \in [Keys -> [Periods -> Nat]]
      <3>1. charged \in [Keys -> [Periods -> Nat]] /\ Key(r) \in Keys /\ Period(r) \in Periods
        BY <1>0, <1>10, BusyCall DEF Submit, GhostsOK, At
      <3>2. [charged EXCEPT ![Key(r)][Period(r)] = @ + 1] \in [Keys -> [Periods -> Nat]]
        BY <3>1
      <3> QED
        BY <1>10, <3>1, <3>2 DEF Submit
    <2>3. GhostsOK'
      BY <1>0, <2>1, <2>2 DEF GhostsOK
    <2> QED
      BY <1>0, <2>1, <2>3, SameTypes DEF Typed
  <1>11. ASSUME NEW new \in Keys, IssueKey(r, new)
         PROVE  Typed'
    <2> DEFINE c == [call[r] EXCEPT !.stage = "rekeying", !.new = new]
    <2>1. CallOK(call[r]) /\ call[r] \in Call /\ call[r].key \in Keys
      BY <1>0, <1>11 DEF CallsOK, CallOK, IssueKey, At
    <2>2. CallOK(c)
      BY <1>11, <2>1 DEF CallOK, Call, Stages, AskStages, RotateStages, SureStages, HoldStages, IssueKey, At
    <2>3. call' = [call EXCEPT ![r] = c]
      BY <1>0, <1>11 DEF IssueKey, CallsOK
    <2> HIDE DEF c
    <2>4. CallsOK'
      BY <1>0, <2>2, <2>3, CallChanges
    <2>5. UNCHANGED <<counters, used, lock, att, listed, known, script, ghosts>>
      BY <1>11 DEF IssueKey
    <2>6. TablesOK'
      BY <1>0, <1>11, <2>5 DEF IssueKey, TablesOK, Table, Forms
    <2> QED
      BY <1>0, <2>4, <2>5, <2>6, SameTypes DEF Typed
  <1>12. ASSUME NEW n \in Periods, Connect(r, n)
         PROVE  Typed'
    <2> DEFINE c == [call[r] EXCEPT !.stage = "selecting", !.period = n]
    <2>1. CallOK(call[r]) /\ At(r, "connecting")
      BY <1>0, <1>12 DEF Connect, CallsOK
    <2>2. CallOK(c)
      BY <2>1 DEF CallOK, Call, At, Stages, AskStages, RotateStages, SureStages, HoldStages
    <2>3. call' = [call EXCEPT ![r] = c]
      BY <1>0, <1>12 DEF Connect, CallsOK
    <2> HIDE DEF c
    <2>4. CallsOK'
      BY <1>0, <2>2, <2>3, CallChanges
    <2> QED
      BY <1>0, <1>12, <2>4, SameTypes DEF Connect, Typed
  <1>13. ASSUME NEW saved \in BOOLEAN, NotePending(r, saved)
         PROVE  Typed'
    <2>1. CallsOK' /\ UNCHANGED <<tables, listed, known, script, charged, uncounted, revoked, gone, crashes, runs>>
      BY <1>0, <1>13, StepMoves, MovesOK DEF NotePending
    <2>2. overlap' \in BOOLEAN /\ errors' \in 0..MaxErrors
      BY <1>0, <1>13, FaultTypes DEF NotePending, GhostsOK
    <2>3. GhostsOK'
      BY <1>0, <2>1, <2>2 DEF GhostsOK
    <2> QED
      BY <1>0, <2>1, <2>3, SameTypes DEF Typed
  <1> QED
    BY <1>1, <1>2, <1>3, <1>4, <1>5, <1>6, <1>7, <1>8, <1>9, <1>10, <1>11, <1>12, <1>13 DEF Serve

\* A request that begins with a call of the right type keeps the types.
LEMMA BeginTyped ==
    ASSUME Typed, NEW r \in Clients, NEW c, CallOK(c), Begin(r, c)
    PROVE  Typed'
  <1>1. CallsOK'
    BY CallChanges DEF Begin, Typed
  <1>2. overlap' \in BOOLEAN
    BY DEF Begin, Typed, GhostsOK
  <1>3. GhostsOK'
    BY <1>2 DEF Begin, Typed, GhostsOK
  <1>4. TablesOK' /\ UsersOK' /\ ScriptOK'
    BY SameTypes DEF Begin, Typed
  <1> QED
    BY <1>1, <1>3, <1>4 DEF Typed

\* Every step keeps the types.
LEMMA NextTyped == Typed /\ [Next]_vars => Typed'
  <1> SUFFICES ASSUME Typed, [Next]_vars
               PROVE  Typed'
    OBVIOUS
  <1>0. TablesOK /\ UsersOK /\ CallsOK /\ ScriptOK /\ GhostsOK
    BY DEF Typed
  <1>1. CASE UNCHANGED vars
    BY <1>0, <1>1, SameTypes DEF vars, Typed
  <1>2. ASSUME NEW r \in Clients, Serve(r)
        PROVE  Typed'
    BY <1>2, ServeTyped
  <1>3. ASSUME NEW r \in Clients, QueryFails(r)
        PROVE  Typed'
    <2>1. CallsOK' /\ UNCHANGED tables /\ UNCHANGED <<listed, known>> /\ UNCHANGED script
      BY <1>0, <1>3, StepMoves, MovesOK DEF QueryFails
    <2>2. errors' \in 0..MaxErrors
      BY <1>0, <1>3, PgAssumption DEF QueryFails, Fault, GhostsOK
    <2>3. overlap' \in BOOLEAN
      BY <1>3 DEF QueryFails, Fault
    <2>4. GhostsOK'
      BY <1>0, <1>3, <2>2, <2>3 DEF QueryFails, GhostsOK
    <2> QED
      BY <1>0, <2>1, <2>4, SameTypes DEF Typed
  <1>4. ASSUME NEW r \in Clients, NEW k \in Keys, NEW t \in Txs, Request(r, k, t)
        PROVE  Typed'
    <2> DEFINE c == [Idle EXCEPT !.stage = "lookup", !.key = k, !.tx = t]
    <2>1. CallOK(c)
      BY PgAssumption DEF CallOK, Call, Idle, Stages, AskStages, RotateStages, SureStages, Forms
    <2> QED
      BY <1>4, <2>1, BeginTyped DEF Request
  <1>5. ASSUME NEW r \in Clients, NEW k \in Keys, NEW f \in Forms, AdminDelete(r, k, f)
        PROVE  Typed'
    <2> DEFINE c == [Idle EXCEPT !.stage = "deleting", !.key = k, !.form = f]
    <2>2. CallOK(c)
      BY PgAssumption DEF CallOK, Call, Idle, Stages, AskStages, RotateStages, SureStages
    <2> QED
      BY <1>5, <2>2, BeginTyped DEF AdminDelete
  <1>6. ASSUME NEW r \in Clients, Rotate(r)
        PROVE  Typed'
    <2> DEFINE c == [Idle EXCEPT !.stage = "issuing", !.key = listed]
    <2>1. listed \in Keys
      BY <1>0 DEF UsersOK
    <2>2. CallOK(c)
      BY <2>1, PgAssumption DEF CallOK, Call, Idle, Stages, AskStages, RotateStages, SureStages, Forms
    <2> QED
      BY <1>6, <2>2, BeginTyped DEF Rotate
  <1>7. CASE RunScript
    <2>1. TablesOK' /\ UsersOK' /\ CallsOK'
      BY <1>0, <1>7, SameTypes DEF RunScript
    <2>2. ScriptOK'
      BY <1>7 DEF RunScript, ScriptOK
    <2>3. runs' \in 0..MaxRuns
      BY <1>0, <1>7, PgAssumption DEF RunScript, GhostsOK
    <2>4. overlap' \in BOOLEAN
      BY <1>0, <1>7 DEF RunScript, GhostsOK
    <2>5. GhostsOK'
      BY <1>0, <1>7, <2>3, <2>4 DEF RunScript, GhostsOK
    <2> QED
      BY <2>1, <2>2, <2>5 DEF Typed
  <1>8. ASSUME NEW t \in Txs, CopyTx(t)
        PROVE  Typed'
    <2>1. UsersOK' /\ CallsOK' /\ GhostsOK'
      BY <1>0, <1>8, SameTypes DEF CopyTx
    <2>2. ScriptOK' /\ att' \in [Txs -> {"none", "copied", "created"}]
      BY <1>0, <1>8 DEF CopyTx, ScriptOK, TablesOK
    <2>3. TablesOK'
      BY <1>0, <1>8, <2>2 DEF CopyTx, TablesOK, Table
    <2> QED
      BY <2>1, <2>2, <2>3 DEF Typed
  <1>9. CASE CopyKey
    <2>1. UsersOK' /\ CallsOK'
      BY <1>0, <1>9, SameTypes DEF CopyKey
    <2>2. rows' \in [Keys -> SUBSET Forms]
      BY <1>0, <1>9, PgAssumption DEF CopyKey, TablesOK
    <2>3. TablesOK' /\ ScriptOK'
      BY <1>0, <1>9, <2>2 DEF CopyKey, TablesOK, Table, ScriptOK
    <2>4. GhostsOK'
      BY <1>0, <1>9 DEF CopyKey, GhostsOK
    <2> QED
      BY <2>1, <2>3, <2>4 DEF Typed
  <1>10. CASE Crash
    <2>1. UsersOK' /\ ScriptOK'
      BY <1>0, <1>10, SameTypes DEF Crash
    <2>2. TablesOK'
      BY <1>0, <1>10 DEF Crash, TablesOK, Table
    <2>4. CallsOK'
      BY <1>10, IdleOK DEF Crash, CallsOK
    <2>5. crashes' \in 0..MaxCrashes
      BY <1>0, <1>10, PgAssumption DEF Crash, GhostsOK
    <2>6. GhostsOK'
      BY <1>0, <1>10, <2>5 DEF Crash, GhostsOK
    <2> QED
      BY <2>1, <2>2, <2>4, <2>6 DEF Typed
  <1>11. ASSUME NEW r \in Clients, NEW applied \in BOOLEAN, ReleaseFails(r, applied)
         PROVE  Typed'
    <2>1. /\ CallsOK' /\ ~At(r, "idle") /\ Fault
          /\ IF applied THEN Released(r) ELSE UNCHANGED <<used, uncounted>>
          /\ UNCHANGED <<rows, counters, lock, att, listed, known, script, charged, revoked, gone, crashes, runs>>
      BY <1>0, <1>11, StepMoves, MovesOK DEF ReleaseFails
    <2>2. used' \in Table /\ uncounted' \in [Periods -> Nat]
      BY <1>0, <2>1, ReleasedTypes DEF TablesOK, GhostsOK
    <2>3. overlap' \in BOOLEAN /\ errors' \in 0..MaxErrors
      BY <1>0, <2>1, FaultTypes
    <2>4. TablesOK' /\ GhostsOK'
      BY <1>0, <2>1, <2>2, <2>3 DEF TablesOK, GhostsOK, Table
    <2> QED
      BY <1>0, <2>1, <2>4, SameTypes DEF Typed
  <1> QED
    BY <1>1, <1>2, <1>3, <1>4, <1>5, <1>6, <1>7, <1>8, <1>9, <1>10, <1>11 DEF Next

\* The tables, the calls and the script keep their types.
THEOREM TypeCorrect == Spec => []TypeOK
  BY InitTyped, NextTyped, TypedIsTypeOK, PTL DEF Spec

-----------------------------------------------------------------------------
(***************************************************************************)
(* A key that is gone.  Nothing copies a row of it: the lookups that could *)
(* have begun before its last row was deleted, and the script after that   *)
(* keeps it in hand.                                                       *)
(***************************************************************************)
NobodyCopies == \A k \in gone : rows[k] = {} /\ ~Copying(k)

\* At the start no key is gone.
LEMMA InitNobodyCopies == Init => NobodyCopies
  BY DEF Init, NobodyCopies

\* Lookups that copy a row: the ones that did before, and of another key only
\* one that has a row.
LEMMA StillOut ==
    ASSUME NobodyCopies,
           \A k \in gone' : rows'[k] = {} /\ (k \in gone \/ ~Copying(k)),
           \A s \in Clients : call'[s].stage = "copying" =>
              \/ call[s].stage = "copying" /\ call'[s].key = call[s].key
              \/ rows'[call'[s].key] # {}
    PROVE  NobodyCopies'
  <1> SUFFICES ASSUME NEW k \in gone', NEW s \in Clients, call'[s].key = k, call'[s].stage = "copying"
               PROVE  FALSE
    BY DEF NobodyCopies, Copying, Key, At
  <1>1. rows'[k] = {} /\ ~Copying(k)
    BY DEF NobodyCopies
  <1>2. call[s].stage = "copying" /\ call[s].key = k
    BY <1>1
  <1> QED
    BY <1>1, <1>2 DEF Copying, Key, At

\* After an error a call ends, or gives back what it holds.
LEMMA FailGoes ==
    ASSUME NEW r \in Clients, QueryFails(r) \/ \E applied \in BOOLEAN : ReleaseFails(r, applied)
    PROVE  /\ Fault /\ ~At(r, "idle")
           /\ \/ Return(r)
              \/ \E stage \in {"failing", "unwinding"} : Goes(r, stage) /\ call[r].stage \in AskStages
           /\ \A stage \in {"failing", "unwinding"} :
                 stage \in AskStages /\ stage \in Stages /\ stage \notin {"copying", "rekeying"} /\ stage \notin RotateStages
  <1>1. CASE QueryFails(r)
    BY <1>1 DEF QueryFails, AfterError, At, AskStages, RotateStages, Stages, Goes
  <1>2. ASSUME NEW applied \in BOOLEAN, ReleaseFails(r, applied)
        PROVE  /\ Fault /\ ~At(r, "idle") /\ call[r].stage \in AskStages
               /\ Return(r) \/ Goes(r, "unwinding")
    <2>1. (call[r].holds /\ ~applied) \in BOOLEAN
      OBVIOUS
    <2> QED
      BY <1>2, <2>1 DEF ReleaseFails, Releasing, At, AskStages, Goes
  <1> QED
    BY <1>1, <1>2 DEF AskStages, RotateStages, Stages

\* A call that ends, or goes on to another stage, starts no copy.
LEMMA NoNewCopy ==
    ASSUME CallsOK, NEW r \in Clients,
           Return(r) \/ \E stage \in Stages \ {"copying"} : Goes(r, stage)
    PROVE  \A s \in Clients : call'[s].stage = "copying" =>
              call[s].stage = "copying" /\ call'[s].key = call[s].key
  <1>1. call \in [Clients -> Call] /\ call[r] \in Call
    BY DEF CallsOK
  <1>2. CASE Return(r)
    BY <1>1, <1>2 DEF Return, Idle
  <1>3. ASSUME NEW stage \in Stages \ {"copying"}, Goes(r, stage)
        PROVE  \A s \in Clients : call'[s].stage = "copying" =>
                  call[s].stage = "copying" /\ call'[s].key = call[s].key
    BY <1>1, <1>3 DEF Goes, Goto, GotoWith, Call
  <1> QED
    BY <1>2, <1>3

\* A new call is not a copy either.
LEMMA BeginNoCopy ==
    ASSUME CallsOK, NEW r \in Clients, NEW c, c.stage # "copying", Begin(r, c)
    PROVE  \A s \in Clients : call'[s].stage = "copying" =>
              call[s].stage = "copying" /\ call'[s].key = call[s].key
  BY DEF CallsOK, Begin

\* A row that is deleted: a key without rows that is not being copied is gone.
LEMMA RemoveKeepsOut ==
    ASSUME Typed, NobodyCopies, NEW k \in Keys, NEW f \in Forms, Remove(k, f)
    PROVE  \A x \in gone' : rows'[x] = {} /\ (x \in gone \/ ~Copying(x))
  <1>1. rows \in [Keys -> SUBSET Forms] /\ gone \subseteq Keys
    BY DEF Typed, TablesOK, GhostsOK
  <1>2. \A x \in gone : rows'[x] = {}
    BY <1>1 DEF Remove, NobodyCopies
  <1>3. \A x \in gone' : x \in gone \/ (x = k /\ rows'[k] = {} /\ ~Copying(k))
    BY DEF Remove
  <1> QED
    BY <1>2, <1>3

\* A query writes no row of a key that is gone: it would have had to see one.
LEMMA ServeKeepsOut ==
    ASSUME Typed, NobodyCopies, NEW r \in Clients, Serve(r)
    PROVE  NobodyCopies'
  <1>0. TablesOK /\ CallsOK /\ GhostsOK /\ rows \in [Keys -> SUBSET Forms] /\ gone \subseteq Keys
    BY DEF Typed, TablesOK, GhostsOK
  <1> DEFINE Quiet == Return(r) \/ \E stage \in Stages \ {"copying"} : Goes(r, stage)
  <1>1. CASE SelectPlain(r)
    <2>1. Key(r) \in Keys /\ UNCHANGED <<rows, gone>>
      BY <1>1, BusyCall DEF SelectPlain, At, tables, ghosts
    <2>2. CASE Return(r)
      BY <1>0, <2>1, <2>2, NoNewCopy, StillOut DEF NobodyCopies
    <2>3. CASE Goto(r, "copying") /\ "plain" \in rows[Key(r)]
      <3>1. \A s \in Clients : \/ s # r /\ call'[s] = call[s]
                               \/ s = r /\ call'[s].key = Key(s)
        BY <1>0, <2>3 DEF Goto, Key, CallsOK, Call
      <3>2. \A s \in Clients : call'[s].stage = "copying" =>
               \/ call[s].stage = "copying" /\ call'[s].key = call[s].key
               \/ rows'[call'[s].key] # {}
        BY <2>1, <2>3, <3>1
      <3> QED
        BY <2>1, <3>2, StillOut DEF NobodyCopies
    <2> QED
      BY <1>1, <2>2, <2>3 DEF SelectPlain
  <1>2. CASE CopyRow(r)
    <2>1. Key(r) \in Keys /\ gone' = gone /\ rows' = [rows EXCEPT ![Key(r)] = @ \cup {"hash"}]
      BY <1>2, BusyCall DEF CopyRow, At, ghosts
    <2>2. Copying(Key(r))
      BY <1>2 DEF CopyRow, Copying
    <2>3. \A k \in gone' : rows'[k] = {} /\ k \in gone
      BY <1>0, <2>1, <2>2 DEF NobodyCopies
    <2>4. Quiet
      BY <1>2 DEF CopyRow, Goes, Stages
    <2> QED
      BY <1>0, <2>3, <2>4, NoNewCopy, StillOut
  <1>3. CASE DropPlain(r)
    <2>1. Key(r) \in Keys /\ gone' = gone /\ rows' = [rows EXCEPT ![Key(r)] = @ \ {"plain"}]
      BY <1>3, BusyCall DEF DropPlain, At, ghosts
    <2>2. \A k \in gone' : rows'[k] = {} /\ k \in gone
      BY <1>0, <2>1 DEF NobodyCopies
    <2>3. Quiet
      BY <1>3 DEF DropPlain, Goes, Stages
    <2> QED
      BY <1>0, <2>2, <2>3, NoNewCopy, StillOut
  <1>4. CASE DeleteHashed(r) \/ DeletePlain(r) \/ DeleteOld(r)
    <2>1. Key(r) \in Keys
      BY <1>4, BusyCall DEF DeleteHashed, DeletePlain, DeleteOld, At
    <2>2. Quiet
      BY <1>4 DEF DeleteHashed, DeletePlain, DeleteOld, Goes, Stages
    <2>3. UNCHANGED <<rows, gone>> \/ \E f \in Forms : Remove(Key(r), f)
      BY <1>4 DEF DeleteHashed, DeletePlain, DeleteOld, Forms
    <2>4. \A k \in gone' : rows'[k] = {} /\ (k \in gone \/ ~Copying(k))
      BY <2>1, <2>3, RemoveKeepsOut DEF NobodyCopies
    <2> QED
      BY <1>0, <2>2, <2>4, NoNewCopy, StillOut
  <1>5. ASSUME NEW new \in Keys, IssueKey(r, new)
        PROVE  NobodyCopies'
    <2>1. gone' = gone /\ new \notin gone /\ rows' = [rows EXCEPT ![new] = {"hash"}]
      BY <1>0, <1>5 DEF IssueKey, Unissued, ghosts, GhostsOK
    <2>2. \A k \in gone' : rows'[k] = {} /\ k \in gone
      BY <1>0, <2>1 DEF NobodyCopies
    <2>3. call' = [call EXCEPT ![r] = [call[r] EXCEPT !.stage = "rekeying", !.new = new]]
      BY <1>0, <1>5 DEF IssueKey, CallsOK
    <2>4. \A s \in Clients : call'[s].stage = "copying" =>
             call[s].stage = "copying" /\ call'[s].key = call[s].key
      BY <1>0, <2>3 DEF CallsOK, Call
    <2> QED
      BY <2>2, <2>4, StillOut
  <1>6. CASE \/ SelectHashed(r) \/ MoveUsage(r) \/ SelectForUpdate(r) \/ InsertCounter(r)
             \/ SelectTx(r) \/ InsertTx(r) \/ NoteFailed(r) \/ Release(r) \/ RekeyUsage(r) \/ ListNew(r)
             \/ \E ok \in BOOLEAN : \/ Submit(r, ok) \/ NotePending(r, ok)
                                    \/ \E applied \in BOOLEAN : Commit(r, ok, applied)
    <2>1. UNCHANGED <<rows, gone>>
      BY <1>6 DEF SelectHashed, MoveUsage, SelectForUpdate, InsertCounter, SelectTx, InsertTx,
                  NoteFailed, Release, RekeyUsage, ListNew, Submit, NotePending, Commit, tables, ghosts
    <2>2. Quiet
      BY <1>6 DEF SelectHashed, MoveUsage, SelectForUpdate, InsertCounter, SelectTx, InsertTx,
                  NoteFailed, Release, RekeyUsage, ListNew, Submit, NotePending, Commit, Goes, Stages
    <2> QED
      BY <1>0, <2>1, <2>2, NoNewCopy, StillOut DEF NobodyCopies
  <1>7. ASSUME NEW n \in Periods, Connect(r, n)
        PROVE  NobodyCopies'
    <2>1. UNCHANGED <<rows, gone>>
      BY <1>7 DEF Connect, tables, ghosts
    <2>2. call' = [call EXCEPT ![r] = [call[r] EXCEPT !.stage = "selecting", !.period = n]]
      BY <1>0, <1>7 DEF Connect, CallsOK
    <2>3. \A s \in Clients : call'[s].stage = "copying" =>
             call[s].stage = "copying" /\ call'[s].key = call[s].key
      BY <1>0, <2>2 DEF CallsOK, Call
    <2> QED
      BY <2>1, <2>3, StillOut DEF NobodyCopies
  <1> QED
    BY <1>1, <1>2, <1>3, <1>4, <1>5, <1>6, <1>7 DEF Serve

\* Every step leaves keys that are gone without a row and without a lookup
\* about to copy one.
LEMMA NextKeepsOut == Typed /\ NobodyCopies /\ [Next]_vars => NobodyCopies'
  <1> SUFFICES ASSUME Typed, NobodyCopies, [Next]_vars
               PROVE  NobodyCopies'
    OBVIOUS
  <1>0. CallsOK /\ rows \in [Keys -> SUBSET Forms]
    BY DEF Typed, TablesOK
  <1>1. CASE UNCHANGED vars
    BY <1>1, StillOut DEF vars, tables, ghosts, NobodyCopies
  <1>2. ASSUME NEW r \in Clients, Serve(r)
        PROVE  NobodyCopies'
    BY <1>2, ServeKeepsOut
  <1>3. ASSUME NEW r \in Clients, QueryFails(r) \/ \E applied \in BOOLEAN : ReleaseFails(r, applied)
        PROVE  NobodyCopies'
    <2>1. UNCHANGED <<rows, gone>> /\ (Return(r) \/ \E stage \in Stages \ {"copying"} : Goes(r, stage))
      BY <1>3, FailGoes DEF QueryFails, ReleaseFails, tables
    <2> QED
      BY <1>0, <2>1, NoNewCopy, StillOut DEF NobodyCopies
  <1>4. ASSUME NEW r \in Clients, NEW k \in Keys, NEW t \in Txs, Request(r, k, t)
        PROVE  NobodyCopies'
    <2> DEFINE c == [Idle EXCEPT !.stage = "lookup", !.key = k, !.tx = t]
    <2>1. c.stage # "copying"
      BY DEF Idle
    <2>2. UNCHANGED <<rows, gone>> /\ Begin(r, c)
      BY <1>4 DEF Request, Begin, tables
    <2> HIDE DEF c
    <2> QED
      BY <1>0, <2>1, <2>2, BeginNoCopy, StillOut DEF NobodyCopies
  <1>5. ASSUME NEW r \in Clients, NEW k \in Keys, NEW f \in Forms, AdminDelete(r, k, f)
        PROVE  NobodyCopies'
    <2> DEFINE c == [Idle EXCEPT !.stage = "deleting", !.key = k, !.form = f]
    <2>1. c.stage # "copying"
      BY DEF Idle
    <2>2. UNCHANGED <<rows, gone>> /\ Begin(r, c)
      BY <1>5 DEF AdminDelete, Begin, tables
    <2> HIDE DEF c
    <2> QED
      BY <1>0, <2>1, <2>2, BeginNoCopy, StillOut DEF NobodyCopies
  <1>6. ASSUME NEW r \in Clients, Rotate(r)
        PROVE  NobodyCopies'
    <2> DEFINE c == [Idle EXCEPT !.stage = "issuing", !.key = listed]
    <2>1. c.stage # "copying"
      BY DEF Idle
    <2>2. UNCHANGED <<rows, gone>> /\ Begin(r, c)
      BY <1>6 DEF Rotate, Begin, tables
    <2> HIDE DEF c
    <2> QED
      BY <1>0, <2>1, <2>2, BeginNoCopy, StillOut DEF NobodyCopies
  <1>7. ASSUME UNCHANGED <<rows, gone, call>>
        PROVE  NobodyCopies'
    BY <1>7, StillOut DEF NobodyCopies
  <1>8. CASE CopyKey
    <2>1. gone' = gone \ {FirstKey} /\ call' = call /\ rows' = [rows EXCEPT ![FirstKey] = @ \cup {StoredAs}]
      BY <1>8 DEF CopyKey
    <2>2. \A k \in gone' : rows'[k] = {} /\ k \in gone
      BY <1>0, <2>1 DEF NobodyCopies
    <2> QED
      BY <2>1, <2>2, StillOut
  <1>9. CASE Crash
    <2>1. UNCHANGED <<rows, gone>> /\ \A s \in Clients : call'[s].stage = "idle"
      BY <1>9 DEF Crash, Idle
    <2> QED
      BY <2>1, StillOut DEF NobodyCopies
  <1>10. RunScript \/ (\E t \in Txs : CopyTx(t)) => UNCHANGED <<rows, gone, call>>
    BY DEF RunScript, CopyTx, tables, ghosts
  <1> QED
    BY <1>1, <1>2, <1>3, <1>4, <1>5, <1>6, <1>7, <1>8, <1>9, <1>10 DEF Next

\* A key whose last row was deleted while no lookup was copying it has no row
\* until the script copies it: rotateUserApiKey and deleteApiKey take a key
\* out for good.
THEOREM GoneKeysStayOut == Spec => []GoneStaysOut
  <1>1. NobodyCopies => GoneStaysOut
    BY DEF NobodyCopies, GoneStaysOut
  <1> QED
    BY <1>1, InitTyped, NextTyped, InitNobodyCopies, NextKeepsOut, PTL DEF Spec

-----------------------------------------------------------------------------
(***************************************************************************)
(* What a step does to the calls: only the client's own one changes, and   *)
(* it goes on with the key, the new key and the period it has.             *)
(***************************************************************************)
Turn(r) == \A s \in Clients \ {r} : call'[s] = call[s]

Same(c, d) == c.key = d.key /\ c.new = d.new /\ c.period = d.period

\* A request that goes on keeps its call but for the stage, and no other
\* request moves.
LEMMA GotoIs ==
    ASSUME CallsOK, NEW r \in Clients, NEW stage, Goto(r, stage)
    PROVE  Turn(r) /\ call'[r].stage = stage /\ Same(call'[r], call[r]) /\ call'[r].holds = call[r].holds
  BY DEF CallsOK, Goto, Turn, Same, Call

\* One that takes a slot or loses it keeps the rest of its call as well.
LEMMA GotoWithIs ==
    ASSUME CallsOK, NEW r \in Clients, NEW stage, NEW holds, GotoWith(r, stage, holds)
    PROVE  Turn(r) /\ call'[r].stage = stage /\ Same(call'[r], call[r]) /\ call'[r].holds = holds
  BY DEF CallsOK, GotoWith, Turn, Same, Call

\* Both of them.
LEMMA GoesIs ==
    ASSUME CallsOK, NEW r \in Clients, NEW stage, Goes(r, stage)
    PROVE  Turn(r) /\ call'[r].stage = stage /\ Same(call'[r], call[r])
  BY GotoIs, GotoWithIs DEF Goes

\* A request that returns is idle, and no other request moves.
LEMMA ReturnIs ==
    ASSUME CallsOK, NEW r \in Clients, Return(r)
    PROVE  Turn(r) /\ call'[r] = Idle /\ call'[r].stage = "idle" /\ ~call'[r].holds
  BY IdleOK DEF CallsOK, Return, Turn, Idle

\* A request that begins was idle and touches no table.
LEMMA BeginIs ==
    ASSUME CallsOK, NEW r \in Clients, NEW c, Begin(r, c)
    PROVE  /\ Turn(r) /\ call'[r] = c /\ At(r, "idle")
           /\ UNCHANGED <<tables, listed, known, script, charged, uncounted, revoked, gone>>
  BY DEF CallsOK, Begin, Turn

\* A call begins with a lookup, a deletion or a rotation of the listed key.
LEMMA NewCall ==
    ASSUME NEW r \in Clients,
           \/ \E k \in Keys, t \in Txs : Request(r, k, t)
           \/ \E k \in Keys, f \in Forms : AdminDelete(r, k, f)
           \/ Rotate(r)
    PROVE  \E c : /\ Begin(r, c)
                  /\ c.stage \in {"lookup", "deleting", "issuing"} /\ ~c.holds
                  /\ IF c.stage = "issuing" THEN c.key = listed ELSE c.key \in known
  <1>1. ASSUME NEW k \in Keys, NEW t \in Txs, Request(r, k, t)
        PROVE  \E c : Begin(r, c) /\ c.stage = "lookup" /\ ~c.holds /\ c.key \in known
    <2> DEFINE c == [Idle EXCEPT !.stage = "lookup", !.key = k, !.tx = t]
    <2>1. c.stage = "lookup" /\ c.key = k /\ ~c.holds
      BY DEF Idle
    <2>2. Begin(r, c) /\ k \in known
      BY <1>1 DEF Request
    <2> HIDE DEF c
    <2> QED
      BY <2>1, <2>2
  <1>2. ASSUME NEW k \in Keys, NEW f \in Forms, AdminDelete(r, k, f)
        PROVE  \E c : Begin(r, c) /\ c.stage = "deleting" /\ ~c.holds /\ c.key \in known
    <2> DEFINE c == [Idle EXCEPT !.stage = "deleting", !.key = k, !.form = f]
    <2>1. c.stage = "deleting" /\ c.key = k /\ ~c.holds
      BY DEF Idle
    <2>2. Begin(r, c) /\ k \in known
      BY <1>2 DEF AdminDelete
    <2> HIDE DEF c
    <2> QED
      BY <2>1, <2>2
  <1>3. CASE Rotate(r)
    <2> DEFINE c == [Idle EXCEPT !.stage = "issuing", !.key = listed]
    <2>1. c.stage = "issuing" /\ c.key = listed /\ ~c.holds
      BY DEF Idle
    <2>2. Begin(r, c)
      BY <1>3 DEF Rotate
    <2> HIDE DEF c
    <2> QED
      BY <2>1, <2>2
  <1> QED
    BY <1>1, <1>2, <1>3

\* Issuing a key takes the rotation on with that key.
LEMMA IssueKeyIs ==
    ASSUME CallsOK, NEW r \in Clients, NEW new \in Keys, IssueKey(r, new)
    PROVE  /\ Turn(r) /\ At(r, "issuing")
           /\ call'[r].stage = "rekeying" /\ call'[r].key = Key(r) /\ call'[r].new = new
           /\ call'[r].holds = call[r].holds /\ call'[r].period = Period(r)
  BY DEF CallsOK, IssueKey, Turn, Call, Key, Period

\* Taking a connection changes the stage and the period of the call.
LEMMA ConnectIs ==
    ASSUME CallsOK, NEW r \in Clients, NEW n \in Periods, Connect(r, n)
    PROVE  /\ Turn(r) /\ At(r, "connecting")
           /\ call'[r].stage = "selecting" /\ call'[r].key = Key(r) /\ call'[r].new = call[r].new
           /\ ~call'[r].holds
  <1>1. CallOK(call[r]) /\ At(r, "connecting")
    BY DEF CallsOK, Connect
  <1>2. ~call[r].holds
    BY <1>1 DEF CallOK, At, HoldStages, SureStages
  <1> QED
    BY <1>2 DEF CallsOK, Connect, Turn, Call, Key

-----------------------------------------------------------------------------
(***************************************************************************)
(* The count of a period: over both forms of every key.                    *)
(***************************************************************************)
Cells == Keys \X Forms

\* Keys, clients and counters are finite, so that there are totals of them.
LEMMA Finite == IsFiniteSet(Keys) /\ IsFiniteSet(Clients) /\ IsFiniteSet(Cells)
  <1>1. IsFiniteSet(Keys) /\ IsFiniteSet(Clients)
    BY PgAssumption
  <1>2. Forms = {"plain"} \cup {"hash"}
    BY DEF Forms
  <1>3. IsFiniteSet(Forms)
    BY <1>2, FS_Singleton, FS_Union
  <1> QED
    BY <1>1, <1>3, FS_Product DEF Cells

\* The counters of a period are a function to the naturals, with a total.
LEMMA CountsType ==
    ASSUME TablesOK, NEW n \in Periods
    PROVE  /\ Counts(n) \in [Cells -> Nat]
           /\ \A k \in Keys, f \in Forms : <<k, f>> \in Cells /\ Counts(n)[<<k, f>>] = used[k][f][n]
           /\ Counted(n) \in Nat
  <1>1. Counts(n) \in [Cells -> Nat]
    BY DEF Counts, Cells, TablesOK, Table
  <1>2. Counted(n) \in Nat
    BY <1>1, Finite, TotalType DEF Counted
  <1> QED
    BY <1>1, <1>2 DEF Counts, Cells

\* The total of a period's counters is a natural after a step as well.
LEMMA CountedNext ==
    ASSUME TablesOK', NEW n \in Periods
    PROVE  Counted(n)' \in Nat
  <1>1. Counts(n)' \in [Cells -> Nat]
    BY DEF Counts, Cells, TablesOK, Table
  <1> QED
    BY <1>1, Finite, TotalType DEF Counted

\* The charges of a period have a total.
LEMMA ChargesType ==
    ASSUME GhostsOK, NEW n \in Periods
    PROVE  Charges(n) \in [Keys -> Nat] /\ Total(Charges(n)) \in Nat
  <1>1. Charges(n) \in [Keys -> Nat]
    BY DEF Charges, GhostsOK
  <1> QED
    BY <1>1, Finite, TotalType

\* Counters moved from one id to another: the count stays.
LEMMA RenameIs ==
    ASSUME TablesOK, NEW k \in Keys, NEW f \in Forms, NEW to \in Keys, Rename(k, f, to),
           k # to \/ f # "hash", NEW n \in Periods
    PROVE  /\ used'[to]["hash"][n] = used[to]["hash"][n] + used[k][f][n]
           /\ used'[k][f][n] = 0
           /\ \A j \in Keys, g \in Forms :
                 <<j, g>> # <<to, "hash">> /\ <<j, g>> # <<k, f>> => used'[j][g][n] = used[j][g][n]
  <1> DEFINE a == [m \in Periods |-> used[to]["hash"][m] + used[k][f][m]]
             z == [m \in Periods |-> 0]
  <1>1. used \in [Keys -> [Forms -> [Periods -> Nat]]] /\ "hash" \in Forms
    BY DEF TablesOK, Table, Forms
  <1>2. used' = [used EXCEPT ![to]["hash"] = a, ![k][f] = z]
    BY DEF Rename
  <1>3. a[n] = used[to]["hash"][n] + used[k][f][n] /\ z[n] = 0
    OBVIOUS
  <1> HIDE DEF a, z
  <1>4. used'[to]["hash"] = a /\ used'[k][f] = z
    BY <1>1, <1>2
  <1>5. \A j \in Keys, g \in Forms :
           <<j, g>> # <<to, "hash">> /\ <<j, g>> # <<k, f>> => used'[j][g] = used[j][g]
    BY <1>1, <1>2
  <1> QED
    BY <1>3, <1>4, <1>5

\* Moving the usage of one key or form to another neither adds to the total
\* nor takes from it.
LEMMA RenameKeepsCount ==
    ASSUME TablesOK, TablesOK', NEW k \in Keys, NEW f \in Forms, NEW to \in Keys, Rename(k, f, to),
           k # to \/ f # "hash", NEW n \in Periods
    PROVE  Counted(n)' = Counted(n)
  <1> DEFINE x == <<to, "hash">>
             y == <<k, f>>
             c == Counts(n)
             d == Counts(n)'
  <1>1. x \in Cells /\ y \in Cells /\ x # y
    BY DEF Cells, Forms
  <1>2. c \in [Cells -> Nat] /\ d \in [Cells -> Nat]
    BY CountsType DEF Counts, Cells, TablesOK, Table
  <1>3. \A j \in Keys, g \in Forms : c[<<j, g>>] = used[j][g][n] /\ d[<<j, g>>] = used'[j][g][n]
    BY DEF Counts
  <1>4. \A w \in Cells \ {x, y} : d[w] = c[w]
    BY <1>3, RenameIs DEF Cells
  <1>5. d[x] + d[y] = c[x] + c[y]
    <2>1. used[to]["hash"][n] \in Nat /\ used[k][f][n] \in Nat
      BY DEF TablesOK, Table, Forms
    <2>2. /\ c[x] = used[to]["hash"][n] /\ d[x] = used'[to]["hash"][n]
          /\ c[y] = used[k][f][n] /\ d[y] = used'[k][f][n]
      BY <1>3 DEF Forms
    <2>3. used'[to]["hash"][n] = used[to]["hash"][n] + used[k][f][n] /\ used'[k][f][n] = 0
      BY RenameIs
    <2> HIDE DEF c, d, x, y
    <2> QED
      BY <2>1, <2>2, <2>3
  <1> HIDE DEF c, d, x, y
  <1>6. Total(d) = Total(c)
    BY <1>1, <1>2, <1>4, <1>5, Finite, TotalMove
  <1> QED
    BY <1>6 DEF Counted, c, d

\* One counter changes: the count changes by the difference.
Sets(k, m, v) == used' = [used EXCEPT ![k]["hash"][m] = v]

\* Writing one counter changes the total of its period by as much, and no
\* other period's.
LEMMA CountChanges ==
    ASSUME TablesOK, NEW k \in Keys, NEW m \in Periods, NEW v \in Nat, Sets(k, m, v),
           NEW n \in Periods
    PROVE  IF n = m THEN Counted(n)' + used[k]["hash"][n] = Counted(n) + v
                    ELSE Counted(n)' = Counted(n)
  <1> DEFINE x == <<k, "hash">>
             c == Counts(n)
             d == Counts(n)'
  <1>0. used \in Table /\ used' \in Table /\ "hash" \in Forms
    BY DEF TablesOK, Table, Forms, Sets
  <1>1. x \in Cells
    BY <1>0 DEF Cells
  <1>2. c \in [Cells -> Nat] /\ d \in [Cells -> Nat]
    BY <1>0 DEF Counts, Cells, Table
  <1>3. \A j \in Keys, g \in Forms : c[<<j, g>>] = used[j][g][n] /\ d[<<j, g>>] = used'[j][g][n]
    BY DEF Counts
  <1>4. \A j \in Keys, g \in Forms : <<j, g>> # x => used'[j][g] = used[j][g]
    BY <1>0 DEF Table, Sets
  <1>5. used'[k]["hash"][n] = IF n = m THEN v ELSE used[k]["hash"][n]
    BY <1>0 DEF Table, Sets
  <1>6. \A w \in Cells \ {x} : d[w] = c[w]
    BY <1>3, <1>4 DEF Cells
  <1>7. c[x] = used[k]["hash"][n] /\ d[x] = IF n = m THEN v ELSE c[x]
    BY <1>0, <1>3, <1>5
  <1> HIDE DEF c, d, x
  <1>8. Total(d) + c[x] = Total(c) + d[x]
    BY <1>1, <1>2, <1>6, Finite, TotalChange
  <1>9. Total(d) \in Nat /\ Total(c) \in Nat /\ c[x] \in Nat /\ d[x] \in Nat
    BY <1>1, <1>2, Finite, TotalType
  <1>10. Counted(n) = Total(c) /\ Counted(n)' = Total(d)
    BY DEF Counted, c, d
  <1> QED
    BY <1>7, <1>8, <1>9, <1>10

-----------------------------------------------------------------------------
(***************************************************************************)
(* Keys being issued.  Nobody else knows one before its rotation ends, and *)
(* until the counters are moved to it, it has none.                        *)
(***************************************************************************)
Without(table, k) == \A x \in table : x[1] # k

FreshKeys ==
    /\ FirstKey \in known /\ listed \in known
    /\ \A r \in Clients : ~At(r, "idle") => Key(r) \in known
    /\ \A r \in Clients : call[r].stage \in RotateStages =>
          /\ call[r].new \notin known /\ "hash" \in rows[call[r].new]
          /\ At(r, "rekeying") => Without(counters, call[r].new)
    /\ \A r, s \in Clients : /\ call[r].stage \in RotateStages /\ call[s].stage \in RotateStages
                             /\ call[r].new = call[s].new
                             => r = s
    /\ \A k \in Keys \ known : rows[k] = {} => Without(counters, k)

\* At the start the listed key is known and no rotation has issued one.
LEMMA InitFresh == Init => FreshKeys
  <1> SUFFICES ASSUME Init
               PROVE  FreshKeys
    OBVIOUS
  <1>1. \A x \in counters : x[1] = FirstKey
    BY DEF Init
  <1>2. \A r \in Clients : call[r].stage = "idle"
    BY DEF Init, Idle
  <1>3. known = {FirstKey} /\ listed = FirstKey
    BY DEF Init
  <1> QED
    BY <1>1, <1>2, <1>3 DEF FreshKeys, At, Without, RotateStages

\* A call ends, or goes on as the call it is.
Onward(s) ==
    \/ call'[s].stage = "idle"
    \/ /\ ~At(s, "idle") /\ call'[s].key = Key(s) /\ call'[s].new = call[s].new
       /\ call'[s].stage \in RotateStages => call[s].stage \in RotateStages
       /\ call'[s].stage = "rekeying" => At(s, "rekeying")

\* A request whose call is the same uses no other key than before.
LEMMA SameCallGoesOn ==
    ASSUME NEW s, call'[s] = call[s]
    PROVE  Onward(s)
  BY DEF Onward, At, Key

\* No query but the one that issues a key gives a request a key it did not
\* have.
LEMMA StepGoesOn ==
    ASSUME CallsOK, NEW r \in Clients,
           \/ SelectHashed(r) \/ SelectPlain(r) \/ CopyRow(r) \/ DropPlain(r) \/ MoveUsage(r)
           \/ SelectForUpdate(r) \/ InsertCounter(r)
           \/ SelectTx(r) \/ InsertTx(r) \/ NoteFailed(r) \/ Release(r)
           \/ DeleteHashed(r) \/ DeletePlain(r)
           \/ RekeyUsage(r) \/ DeleteOld(r) \/ ListNew(r) \/ QueryFails(r)
           \/ (\E ok \in BOOLEAN : \/ Submit(r, ok) \/ NotePending(r, ok) \/ ReleaseFails(r, ok)
                                   \/ \E applied \in BOOLEAN : Commit(r, ok, applied))
           \/ \E n \in Periods : Connect(r, n)
    PROVE  \A s \in Clients : Onward(s)
  <1>1. ASSUME NEW n \in Periods, Connect(r, n)
        PROVE  \A s \in Clients : Onward(s)
    BY <1>1, ConnectIs DEF Onward, Turn, At, Key, RotateStages
  <1>2. CASE Return(r)
    BY <1>2, ReturnIs DEF Onward, Turn, At, Key
  <1>3. ASSUME NEW stage \in Stages \ {"rekeying"}, Goes(r, stage), ~At(r, "idle"),
               stage \in RotateStages => call[r].stage \in RotateStages
        PROVE  \A s \in Clients : Onward(s)
    BY <1>3, GoesIs DEF Onward, Turn, Same, At, Key
  <1>4. CASE RekeyUsage(r) \/ DeleteOld(r)
    <2>1. ~At(r, "idle") /\ call[r].stage \in RotateStages /\ \E stage \in Stages \ {"rekeying"} : Goes(r, stage)
      BY <1>4 DEF RekeyUsage, DeleteOld, At, Stages, RotateStages, Goes
    <2> QED
      BY <1>3, <2>1
  <1>5. CASE \/ SelectHashed(r) \/ SelectPlain(r) \/ CopyRow(r) \/ DropPlain(r) \/ MoveUsage(r)
             \/ SelectForUpdate(r) \/ InsertCounter(r)
             \/ SelectTx(r) \/ InsertTx(r) \/ NoteFailed(r) \/ Release(r)
             \/ DeleteHashed(r) \/ DeletePlain(r) \/ ListNew(r)
             \/ (\E ok \in BOOLEAN : \/ Submit(r, ok) \/ NotePending(r, ok)
                                     \/ \E applied \in BOOLEAN : Commit(r, ok, applied))
    <2>1. Return(r) \/ (~At(r, "idle") /\ \E stage \in Stages \ RotateStages : Goes(r, stage))
      BY <1>5 DEF SelectHashed, SelectPlain, CopyRow, DropPlain, MoveUsage, SelectForUpdate, InsertCounter,
                  SelectTx, InsertTx, NoteFailed, Release, DeleteHashed, DeletePlain, ListNew, Submit, NotePending,
                  Commit, At, Stages, RotateStages, Goes
    <2>2. "rekeying" \in RotateStages
      BY DEF RotateStages
    <2> QED
      BY <1>2, <1>3, <2>1, <2>2
  <1>6. CASE QueryFails(r) \/ \E applied \in BOOLEAN : ReleaseFails(r, applied)
    BY <1>2, <1>3, <1>6, FailGoes
  <1> QED
    BY <1>1, <1>4, <1>5, <1>6

\* A step that gives no key to anybody, no counter to a key nobody knows, and
\* leaves the rows of such keys alone.
LEMMA FreshStay ==
    ASSUME FreshKeys, \A s \in Clients : Onward(s), UNCHANGED <<listed, known>>,
           \A k \in Keys \ known : rows'[k] = rows[k],
           \A x \in counters' : x \in counters \/ x[1] \in known,
           CallsOK, CallsOK'
    PROVE  FreshKeys'
  <1>1. \A s \in Clients : call'[s].stage # "idle" => call'[s].key \in known
    BY DEF FreshKeys, Onward
  <1>2. \A k \in Keys \ known : Without(counters, k) => Without(counters', k)
    BY DEF Without
  <1>3. \A s \in Clients : call'[s].stage \in RotateStages =>
           /\ call[s].stage \in RotateStages /\ call'[s].new = call[s].new /\ call[s].new \in Keys \ known
           /\ call'[s].stage = "rekeying" => At(s, "rekeying")
    BY DEF FreshKeys, Onward, CallsOK, CallOK, RotateStages
  <1>4. \A s \in Clients : call'[s].stage \in RotateStages =>
           /\ call'[s].new \notin known' /\ "hash" \in rows'[call'[s].new]
           /\ call'[s].stage = "rekeying" => Without(counters', call[s].new)
    BY <1>2, <1>3 DEF FreshKeys
  <1>5. \A r, s \in Clients : /\ call'[r].stage \in RotateStages /\ call'[s].stage \in RotateStages
                              /\ call'[r].new = call'[s].new
                              => r = s
    BY <1>3 DEF FreshKeys
  <1>6. \A s \in Clients : call'[s].stage = "rekeying" => Without(counters', call'[s].new)
    BY <1>3, <1>4 DEF RotateStages
  <1>7. \A k \in Keys \ known' : rows'[k] = {} => Without(counters', k)
    BY <1>2 DEF FreshKeys
  <1>8. FirstKey \in known' /\ listed' \in known'
    BY DEF FreshKeys
  <1> QED
    BY <1>1, <1>4, <1>5, <1>6, <1>7, <1>8 DEF FreshKeys, At, Key

\* A key that is issued is not known, not revoked and no other rotation's.
LEMMA IssueFresh ==
    ASSUME Typed, FreshKeys, NEW r \in Clients, NEW new \in Keys, IssueKey(r, new)
    PROVE  FreshKeys'
  <1>0. CallsOK /\ rows \in [Keys -> SUBSET Forms]
    BY DEF Typed, TablesOK
  <1>1. /\ new \notin known /\ rows[new] = {} /\ \A s \in Clients : call[s].new # new
        /\ rows' = [rows EXCEPT ![new] = {"hash"}] /\ UNCHANGED <<counters, listed, known>>
    BY DEF IssueKey, Unissued
  <1>2. /\ Turn(r) /\ At(r, "issuing")
        /\ call'[r].stage = "rekeying" /\ call'[r].key = Key(r) /\ call'[r].new = new
    BY <1>0, IssueKeyIs
  <1>3. Without(counters, new) /\ \A k : Without(counters', k) <=> Without(counters, k)
    BY <1>1 DEF FreshKeys, Without
  <1>4. \A s \in Clients : call'[s].stage # "idle" => call'[s].key \in known
    BY <1>2 DEF FreshKeys, Turn, At, Key
  <1>5. \A s \in Clients : call'[s].stage \in RotateStages =>
           /\ call'[s].new \notin known' /\ "hash" \in rows'[call'[s].new]
           /\ call'[s].stage = "rekeying" => Without(counters', call'[s].new)
    <2> TAKE s \in Clients
    <2>1. CASE s = r
      BY <1>0, <1>1, <1>2, <1>3, <2>1
    <2>2. CASE s # r
      <3>1. call'[s] = call[s] /\ call[s].new # new
        BY <1>1, <1>2, <2>2 DEF Turn
      <3> QED
        BY <1>0, <1>1, <1>3, <3>1 DEF FreshKeys, At
    <2> QED
      BY <2>1, <2>2
  <1>6. \A s, t \in Clients : /\ call'[s].stage \in RotateStages /\ call'[t].stage \in RotateStages
                              /\ call'[s].new = call'[t].new
                              => s = t
    BY <1>1, <1>2 DEF FreshKeys, Turn
  <1>7. \A k \in Keys \ known' : rows'[k] = {} => Without(counters', k)
    BY <1>0, <1>1, <1>3 DEF FreshKeys
  <1>8. FirstKey \in known' /\ listed' \in known'
    BY <1>1 DEF FreshKeys
  <1> QED
    BY <1>1, <1>4, <1>5, <1>6, <1>7, <1>8 DEF FreshKeys, At, Key

\* The usage goes to a key that nobody but the rotation knows.
LEMMA RekeyFresh ==
    ASSUME Typed, FreshKeys, NEW r \in Clients, RekeyUsage(r)
    PROVE  FreshKeys'
  <1>0. CallsOK /\ call[r].stage = "rekeying" /\ UNCHANGED <<rows, listed, known>>
    BY DEF Typed, RekeyUsage, At
  <1>1. Turn(r) /\ call'[r].stage = "deleting_old" /\ call'[r].key = Key(r) /\ call'[r].new = call[r].new
    BY <1>0, GotoIs DEF RekeyUsage, Same, Key
  <1>2. \A x \in counters' : x \in counters \/ x[1] = call[r].new
    BY DEF RekeyUsage, Rename
  <1>3. \A k : k # call[r].new /\ Without(counters, k) => Without(counters', k)
    BY <1>2 DEF Without
  <1>4. \A s \in Clients : call'[s].stage # "idle" => call'[s].key \in known
    BY <1>0, <1>1 DEF FreshKeys, Turn, At, Key
  <1>5. \A s \in Clients : call'[s].stage \in RotateStages =>
           /\ call[s].stage \in RotateStages /\ call'[s].new = call[s].new
           /\ call'[s].stage = "rekeying" => s # r /\ At(s, "rekeying")
    BY <1>0, <1>1 DEF Turn, At, RotateStages
  <1>6. \A s \in Clients : call'[s].stage \in RotateStages =>
           /\ call'[s].new \notin known' /\ "hash" \in rows'[call'[s].new]
           /\ call'[s].stage = "rekeying" => Without(counters', call'[s].new)
    <2> TAKE s \in Clients
    <2> HAVE call'[s].stage \in RotateStages
    <2>1. call'[s].new = call[s].new /\ call[s].new \notin known /\ "hash" \in rows[call[s].new]
      BY <1>5 DEF FreshKeys
    <2>2. CASE call'[s].stage = "rekeying"
      <3>1. Without(counters, call[s].new) /\ call[s].new # call[r].new
        BY <1>0, <1>5, <2>2 DEF FreshKeys, RotateStages, At
      <3> QED
        BY <1>0, <1>3, <2>1, <3>1
    <2> QED
      BY <1>0, <2>1, <2>2
  <1>7. \A s, t \in Clients : /\ call'[s].stage \in RotateStages /\ call'[t].stage \in RotateStages
                              /\ call'[s].new = call'[t].new
                              => s = t
    BY <1>5 DEF FreshKeys
  <1>8. \A k \in Keys \ known' : rows'[k] = {} => Without(counters', k)
    <2>1. rows[call[r].new] # {}
      BY <1>0 DEF FreshKeys, RotateStages
    <2> QED
      BY <1>0, <1>3, <2>1 DEF FreshKeys
  <1>9. FirstKey \in known' /\ listed' \in known'
    BY <1>0 DEF FreshKeys
  <1> QED
    BY <1>0, <1>4, <1>6, <1>7, <1>8, <1>9 DEF FreshKeys, At, Key

\* The key that is listed becomes known; the keys of other rotations stay
\* unknown.
LEMMA ListFresh ==
    ASSUME Typed, FreshKeys, NEW r \in Clients, ListNew(r)
    PROVE  FreshKeys'
  <1>0. /\ CallsOK /\ call[r].stage = "listing" /\ UNCHANGED <<rows, counters>>
        /\ known' = known \cup {call[r].new} /\ listed' = call[r].new
    BY DEF Typed, ListNew, At, tables
  <1>1. Turn(r) /\ call'[r].stage = "idle"
    BY <1>0, ReturnIs DEF ListNew
  <1>2. \A k : Without(counters', k) <=> Without(counters, k)
    BY <1>0 DEF Without
  <1>3. \A s \in Clients : call'[s].stage # "idle" => s # r /\ call'[s] = call[s]
    BY <1>1 DEF Turn
  <1>4. \A s \in Clients : call'[s].stage # "idle" => call'[s].key \in known'
    BY <1>0, <1>3 DEF FreshKeys, At, Key
  <1>5. \A s \in Clients : call'[s].stage \in RotateStages =>
           /\ call'[s].new \notin known' /\ "hash" \in rows'[call'[s].new]
           /\ call'[s].stage = "rekeying" => Without(counters', call'[s].new)
    <2> TAKE s \in Clients
    <2> HAVE call'[s].stage \in RotateStages
    <2>1. s # r /\ call'[s] = call[s]
      BY <1>3 DEF RotateStages
    <2>2. call[s].new # call[r].new
      BY <1>0, <2>1 DEF FreshKeys, RotateStages
    <2> QED
      BY <1>0, <1>2, <2>1, <2>2 DEF FreshKeys, At
  <1>6. \A s, t \in Clients : /\ call'[s].stage \in RotateStages /\ call'[t].stage \in RotateStages
                              /\ call'[s].new = call'[t].new
                              => s = t
    BY <1>3 DEF FreshKeys, RotateStages
  <1>7. \A k \in Keys \ known' : rows'[k] = {} => Without(counters', k)
    BY <1>0, <1>2 DEF FreshKeys
  <1>8. FirstKey \in known' /\ listed' \in known'
    BY <1>0 DEF FreshKeys
  <1> QED
    BY <1>4, <1>5, <1>6, <1>7, <1>8 DEF FreshKeys, At, Key

\* A request for a key that is known has no key of a rotation in progress.
LEMMA BeginFresh ==
    ASSUME Typed, FreshKeys, NEW r \in Clients, NEW c, Begin(r, c),
           c.key \in known, c.stage \notin RotateStages
    PROVE  FreshKeys'
  <1>0. CallsOK
    BY DEF Typed
  <1>1. /\ Turn(r) /\ call'[r] = c
        /\ UNCHANGED <<tables, listed, known>>
    BY <1>0, BeginIs
  <1>2. \A k : Without(counters', k) <=> Without(counters, k)
    BY <1>1 DEF Without, tables
  <1>3. \A s \in Clients : call'[s].stage # "idle" => call'[s].key \in known
    BY <1>1 DEF FreshKeys, Turn, At, Key
  <1>4. \A s \in Clients : call'[s].stage \in RotateStages => call'[s] = call[s]
    BY <1>1 DEF Turn
  <1> QED
    BY <1>1, <1>2, <1>3, <1>4 DEF FreshKeys, At, Key, tables, RotateStages

\* Every step keeps the keys of rotations in progress unknown and apart.
LEMMA NextFresh == Typed /\ Typed' /\ FreshKeys /\ [Next]_vars => FreshKeys'
  <1> SUFFICES ASSUME Typed, Typed', FreshKeys, [Next]_vars
               PROVE  FreshKeys'
    OBVIOUS
  <1>0. CallsOK /\ CallsOK' /\ rows \in [Keys -> SUBSET Forms]
    BY DEF Typed, TablesOK
  <1>1. ASSUME UNCHANGED <<counters, listed, known, call>>, \A k \in Keys \ known : rows'[k] = rows[k]
        PROVE  FreshKeys'
    <2>1. \A s \in Clients : Onward(s)
      BY <1>1, SameCallGoesOn
    <2> QED
      BY <1>0, <1>1, <2>1, FreshStay
  <1>2. ASSUME NEW r \in Clients,
               \/ SelectHashed(r) \/ SelectPlain(r)
               \/ SelectForUpdate(r) \/ InsertCounter(r)
               \/ SelectTx(r) \/ InsertTx(r) \/ NoteFailed(r) \/ Release(r) \/ QueryFails(r)
               \/ (\E ok \in BOOLEAN : Submit(r, ok) \/ NotePending(r, ok) \/ ReleaseFails(r, ok))
               \/ \E n \in Periods : Connect(r, n)
        PROVE  FreshKeys'
    <2>1. \A s \in Clients : Onward(s)
      BY <1>0, <1>2, StepGoesOn
    <2>2. UNCHANGED <<rows, counters, listed, known>>
      BY <1>2 DEF SelectHashed, SelectPlain, SelectForUpdate, InsertCounter, SelectTx, InsertTx, NoteFailed, Release,
                  QueryFails, Submit, NotePending, ReleaseFails, Connect, tables
    <2> QED
      BY <1>0, <2>1, <2>2, FreshStay
  <1>3. ASSUME NEW r \in Clients, MoveUsage(r) \/ \E ok, applied \in BOOLEAN : Commit(r, ok, applied)
        PROVE  FreshKeys'
    <2>1. \A s \in Clients : Onward(s)
      BY <1>0, <1>3, StepGoesOn
    <2>2. UNCHANGED <<rows, listed, known>> /\ Key(r) \in known
      BY <1>3 DEF MoveUsage, Commit, At, FreshKeys
    <2>3. \A x \in counters' : x \in counters \/ x[1] = Key(r)
      <3>1. MoveUsage(r) => \A x \in counters' : x \in counters \/ x[1] = Key(r)
        BY DEF MoveUsage, Rename
      <3>2. \A ok, applied \in BOOLEAN : Commit(r, ok, applied) =>
               counters' = counters \/ counters' = counters \cup {Counter(r)}
        BY DEF Commit, Committed
      <3>3. Counter(r)[1] = Key(r)
        BY DEF Counter
      <3> QED
        BY <1>3, <3>1, <3>2, <3>3
    <2> QED
      BY <1>0, <2>1, <2>2, <2>3, FreshStay
  <1>4. ASSUME NEW r \in Clients,
               CopyRow(r) \/ DropPlain(r) \/ DeleteHashed(r) \/ DeletePlain(r) \/ DeleteOld(r)
        PROVE  FreshKeys'
    <2>1. \A s \in Clients : Onward(s)
      BY <1>0, <1>4, StepGoesOn
    <2>2. UNCHANGED <<counters, listed, known>> /\ Key(r) \in known
      BY <1>4 DEF CopyRow, DropPlain, DeleteHashed, DeletePlain, DeleteOld, At, FreshKeys
    <2>3. \A k \in Keys : k # Key(r) => rows'[k] = rows[k]
      BY <1>0, <1>4 DEF CopyRow, DropPlain, DeleteHashed, DeletePlain, DeleteOld, Remove
    <2> QED
      BY <1>0, <2>1, <2>2, <2>3, FreshStay
  <1>5. ASSUME NEW r \in Clients, Serve(r)
        PROVE  FreshKeys'
    BY <1>2, <1>3, <1>4, <1>5, IssueFresh, RekeyFresh, ListFresh DEF Serve
  <1>6. ASSUME NEW r \in Clients,
               \/ \E k \in Keys, t \in Txs : Request(r, k, t)
               \/ \E k \in Keys, f \in Forms : AdminDelete(r, k, f)
               \/ Rotate(r)
        PROVE  FreshKeys'
    <2>1. PICK c : /\ Begin(r, c)
                   /\ c.stage \in {"lookup", "deleting", "issuing"}
                   /\ IF c.stage = "issuing" THEN c.key = listed ELSE c.key \in known
      BY <1>6, NewCall
    <2>2. c.key \in known /\ c.stage \notin RotateStages
      BY <2>1 DEF FreshKeys, RotateStages
    <2> QED
      BY <2>1, <2>2, BeginFresh
  <1>9. CASE RunScript \/ \E t \in Txs : CopyTx(t)
    BY <1>1, <1>9 DEF RunScript, CopyTx, tables
  <1>10. CASE CopyKey
    <2>1. \A k \in Keys \ known : rows'[k] = rows[k]
      BY <1>0, <1>10 DEF CopyKey, FreshKeys
    <2> QED
      BY <1>1, <1>10, <2>1 DEF CopyKey
  <1>11. CASE Crash
    <2>1. \A s \in Clients : Onward(s)
      BY <1>11 DEF Crash, Onward, Idle
    <2> QED
      BY <1>0, <1>11, <2>1, FreshStay DEF Crash
  <1>12. CASE UNCHANGED vars
    BY <1>1, <1>12 DEF vars, tables
  <1> QED
    BY <1>2, <1>5, <1>6, <1>9, <1>10, <1>11, <1>12 DEF Next

-----------------------------------------------------------------------------
(***************************************************************************)
(* Nothing is uncounted.  A slot becomes due when its reservation commits, *)
(* and that adds to its counter; it stops being due when it is released,   *)
(* which takes at most that one from a counter, or with a crash or a fault *)
(* that leaves the counter high.  A slot released though it is charged, or *)
(* once more, is counted as such, and a request comes to that only by a    *)
(* query that failed before.                                               *)
(***************************************************************************)
Balanced == \A n \in Periods : Due(n) <= Counted(n) + uncounted[n]

\* The requests with a slot of a period, by stage and period.
LEMMA HoldingIs ==
    ASSUME NEW n
    PROVE  /\ Holding(n) \subseteq Clients
           /\ \A r \in Clients : r \in Holding(n) <=> call[r].holds /\ Period(r) = n
           /\ IsFiniteSet(Holding(n)) /\ Cardinality(Holding(n)) \in Nat
  <1>1. /\ Holding(n) \subseteq Clients
        /\ \A r \in Clients : r \in Holding(n) <=> call[r].holds /\ Period(r) = n
    BY DEF Holding
  <1>2. IsFiniteSet(Holding(n))
    BY <1>1, Finite, FS_Subset
  <1> QED
    BY <1>1, <1>2, FS_CardinalityType

\* The same after a step.
LEMMA HoldingNext ==
    ASSUME NEW n
    PROVE  /\ Holding(n)' \subseteq Clients
           /\ \A r \in Clients : r \in Holding(n)' <=> call'[r].holds /\ call'[r].period = n
           /\ IsFiniteSet(Holding(n)') /\ Cardinality(Holding(n)') \in Nat
  <1>1. /\ Holding(n)' \subseteq Clients
        /\ \A r \in Clients : r \in Holding(n)' <=> call'[r].holds /\ call'[r].period = n
    BY DEF Holding, Period
  <1>2. IsFiniteSet(Holding(n)')
    BY <1>1, Finite, FS_Subset
  <1> QED
    BY <1>1, <1>2, FS_CardinalityType

\* A call that holds no slot yet, and gets none.
LEMMA NoNewHold ==
    ASSUME NEW r \in Clients, Turn(r), NEW n,
           call'[r].holds => call[r].holds /\ call'[r].period = Period(r)
    PROVE  Holding(n)' \subseteq Holding(n)
  BY HoldingIs, HoldingNext DEF Turn, Period

\* With no new slot and no new charge no more is due.
LEMMA NoMoreDue ==
    ASSUME Typed, NEW n \in Periods, Holding(n)' \subseteq Holding(n), charged' = charged
    PROVE  Due(n)' <= Due(n) /\ Due(n) \in Nat /\ Due(n)' \in Nat
  <1>1. Cardinality(Holding(n)') <= Cardinality(Holding(n))
    BY HoldingIs, FS_Subset
  <1>2. Total(Charges(n)) \in Nat /\ Charges(n)' = Charges(n)
    BY ChargesType DEF Typed, Charges
  <1> QED
    BY <1>1, <1>2, HoldingIs, HoldingNext DEF Due

\* A step that leaves the charges alone and the count of a period as it is.
LEMMA BalanceStays ==
    ASSUME Typed, Typed', Balanced, charged' = charged, uncounted' = uncounted,
           \A n \in Periods : Holding(n)' \subseteq Holding(n) /\ Counted(n)' = Counted(n)
    PROVE  Balanced'
  <1> SUFFICES ASSUME NEW n \in Periods
               PROVE  Due(n)' <= Counted(n)' + uncounted'[n]
    BY DEF Balanced
  <1>1. Due(n)' <= Due(n) /\ Due(n) \in Nat /\ Due(n)' \in Nat
    BY NoMoreDue
  <1>2. Due(n) <= Counted(n) + uncounted[n] /\ Counted(n) \in Nat /\ uncounted[n] \in Nat
    BY CountsType DEF Balanced, Typed, GhostsOK
  <1> QED
    BY <1>1, <1>2

\* With the counters untouched their totals stay.
LEMMA SameCount ==
    ASSUME used' = used, NEW n
    PROVE  Counted(n)' = Counted(n)
  BY DEF Counted, Counts

\* A reservation that commits takes a slot and counts it; one that is undone
\* does neither.
LEMMA CommitBalance ==
    ASSUME Typed, Typed', Balanced, NEW r \in Clients, NEW ok \in BOOLEAN, NEW applied \in BOOLEAN,
           Commit(r, ok, applied)
    PROVE  Balanced'
  <1>0. CallsOK /\ TablesOK /\ GhostsOK /\ Key(r) \in Keys /\ Period(r) \in Periods /\ charged' = charged
    BY BusyCall DEF Typed, Commit, At
  <1>1. Turn(r) /\ call[r].stage = "committing" /\ uncounted' = uncounted
    BY <1>0, GotoWithIs, ReturnIs DEF Commit, At
  <1>a. \A n \in Periods : uncounted[n] \in Nat
    BY <1>0 DEF GhostsOK
  <1> DEFINE u == used[Key(r)]["hash"][Period(r)]
  <1> DEFINE v == u + 1
  <1>2. u \in Nat
    BY <1>0, OneRow
  <1>2a. v \in Nat /\ v = u + 1
    BY <1>2
  <1> HIDE DEF v
  <1>3. CASE ok
    <2>1. call'[r].period = Period(r)
      BY <1>0, <1>3, GotoWithIs DEF Commit, Same, Period
    <2>2. Sets(Key(r), Period(r), v)
      BY <1>3 DEF Commit, Committed, Sets, v
    <2>3. ASSUME NEW n \in Periods
          PROVE  Due(n)' <= Counted(n)' + uncounted'[n]
      <3> HIDE DEF u
      <3>1. Due(n) <= Counted(n) + uncounted[n] /\ uncounted[n] \in Nat /\ Counted(n) \in Nat /\ Counted(n)' \in Nat /\ Total(Charges(n)) \in Nat
        BY <1>0, <1>a, CountsType, CountedNext, ChargesType DEF Balanced, Typed
      <3>2. Charges(n)' = Charges(n)
        BY <1>0 DEF Charges
      <3>3. IF n = Period(r) THEN Counted(n)' + u = Counted(n) + v ELSE Counted(n)' = Counted(n)
        BY <1>0, <1>2a, <2>2, CountChanges DEF u
      <3>4. CASE n = Period(r)
        <4>1. Holding(n)' \subseteq Holding(n) \cup {r}
          BY <1>1, HoldingIs, HoldingNext DEF Turn, Period
        <4>2. Cardinality(Holding(n)') <= Cardinality(Holding(n)) + 1
          <5>0. IsFiniteSet(Holding(n)) /\ Cardinality(Holding(n)) \in Nat
            BY HoldingIs
          <5>1. IsFiniteSet(Holding(n) \cup {r}) /\ Cardinality(Holding(n) \cup {r}) <= Cardinality(Holding(n)) + 1
            BY <5>0, OneElement
          <5>2. Cardinality(Holding(n)') <= Cardinality(Holding(n) \cup {r})
            BY <4>1, <5>1, FS_Subset
          <5>3. Cardinality(Holding(n) \cup {r}) \in Nat
            BY <5>1, FS_CardinalityType
          <5> QED
            BY <5>1, <5>2, <5>3, HoldingIs, HoldingNext
        <4>3. Counted(n)' = Counted(n) + 1
          BY <1>2, <1>2a, <3>1, <3>3, <3>4
        <4>4. Cardinality(Holding(n)) \in Nat /\ Cardinality(Holding(n)') \in Nat
          BY HoldingIs, HoldingNext
        <4> QED
          BY <1>1, <3>1, <3>2, <4>2, <4>3, <4>4 DEF Due
      <3>5. CASE n # Period(r)
        <4>1. Holding(n)' \subseteq Holding(n)
          BY <1>1, <2>1, <3>5, HoldingIs, HoldingNext DEF Turn, Period
        <4>2. Due(n)' <= Due(n) /\ Due(n) \in Nat /\ Due(n)' \in Nat
          BY <1>0, <4>1, NoMoreDue
        <4> QED
          BY <1>1, <3>1, <3>3, <3>5, <4>2
      <3> QED
        BY <3>4, <3>5
    <2> QED
      BY <2>3 DEF Balanced
  <1>4. CASE ~ok
    <2>1. \A n \in Periods : Holding(n)' \subseteq Holding(n)
      BY <1>0, <1>1, <1>4, ReturnIs, NoNewHold DEF Commit
    <2>2. ASSUME NEW n \in Periods
          PROVE  Due(n)' <= Counted(n)' + uncounted'[n]
      <3>1. Due(n) <= Counted(n) + uncounted[n] /\ uncounted[n] \in Nat /\ Counted(n) \in Nat /\ Counted(n)' \in Nat
        BY <1>0, <1>a, CountsType, CountedNext DEF Balanced, Typed
      <3>2. Due(n)' <= Due(n) /\ Due(n) \in Nat /\ Due(n)' \in Nat
        BY <1>0, <2>1, NoMoreDue
      <3>3. Counted(n) <= Counted(n)'
        <4>1. CASE applied
          <5>1. Sets(Key(r), Period(r), v)
            BY <4>1 DEF Commit, Committed, Sets, v
          <5> HIDE DEF u
          <5>2. IF n = Period(r) THEN Counted(n)' + u = Counted(n) + v ELSE Counted(n)' = Counted(n)
            BY <1>0, <1>2a, <5>1, CountChanges DEF u
          <5> QED
            BY <1>2, <1>2a, <3>1, <5>2
        <4>2. CASE ~applied
          BY <3>1, <4>2, SameCount DEF Commit, Committed
        <4> QED
          BY <4>1, <4>2
      <3> QED
        BY <1>1, <3>1, <3>2, <3>3
    <2> QED
      BY <2>2 DEF Balanced
  <1> QED
    BY <1>3, <1>4

\* The call leaves the slot it holds.
LEMMA OneLessHeld ==
    ASSUME NEW r \in Clients, Turn(r), NEW n, r \in Holding(n), ~call'[r].holds
    PROVE  Cardinality(Holding(n)') + 1 <= Cardinality(Holding(n))
  <1>1. Holding(n)' \subseteq Holding(n) \ {r}
    BY HoldingIs, HoldingNext DEF Turn, Period
  <1>2. IsFiniteSet(Holding(n) \ {r}) /\ Cardinality(Holding(n) \ {r}) = Cardinality(Holding(n)) - 1
    BY HoldingIs, FS_RemoveElement
  <1>3. Cardinality(Holding(n)') <= Cardinality(Holding(n) \ {r})
    BY <1>1, <1>2, FS_Subset
  <1> QED
    BY <1>2, <1>3, HoldingIs, HoldingNext

\* A submission turns the slot into a charge, or keeps it to be given back.
LEMMA SubmitBalance ==
    ASSUME Typed, Typed', Balanced, NEW r \in Clients, NEW ok \in BOOLEAN, Submit(r, ok)
    PROVE  Balanced'
  <1>0. CallsOK /\ TablesOK /\ GhostsOK /\ Key(r) \in Keys /\ Period(r) \in Periods /\ used' = used
    BY BusyCall DEF Typed, Submit, At, tables
  <1>1. /\ Turn(r) /\ call'[r].holds = ~ok /\ call'[r].period = Period(r)
        /\ call[r].holds /\ uncounted' = uncounted /\ uncounted \in [Periods -> Nat]
    <2>1. Turn(r) /\ call'[r].holds = ~ok /\ call'[r].period = Period(r)
      BY <1>0, GotoWithIs DEF Submit, Same, Period
    <2>2. CallOK(call[r]) /\ call[r].stage \in SureStages
      BY <1>0 DEF Submit, At, CallsOK, SureStages
    <2> QED
      BY <1>0, <2>1, <2>2 DEF Submit, CallOK, GhostsOK
  <1>2. CASE ok
    <2>1. ~call'[r].holds
      BY <1>1, <1>2
    <2>2. charged' = [charged EXCEPT ![Key(r)][Period(r)] = charged[Key(r)][Period(r)] + 1]
      BY <1>2 DEF Submit
    <2>3. ASSUME NEW n \in Periods
          PROVE  Due(n)' <= Counted(n)' + uncounted'[n]
      <3>1. Due(n) <= Counted(n) + uncounted[n] /\ uncounted[n] \in Nat /\ Counted(n)' = Counted(n) /\ Counted(n) \in Nat
        BY <1>0, <1>1, SameCount, CountsType DEF Balanced
      <3>2. CASE n = Period(r)
        <4> DEFINE c == Charges(n)
                   d == Charges(n)'
        <4>1. c \in [Keys -> Nat] /\ d \in [Keys -> Nat]
          BY ChargesType DEF Typed, GhostsOK, Charges
        <4>2. /\ d[Key(r)] = c[Key(r)] + 1 /\ c[Key(r)] \in Nat
              /\ \A k \in Keys \ {Key(r)} : d[k] = c[k]
          BY <1>0, <2>2, <3>2 DEF Charges, GhostsOK
        <4> HIDE DEF c, d
        <4>3. Total(d) + c[Key(r)] = Total(c) + d[Key(r)]
          BY <1>0, <4>1, <4>2, Finite, TotalChange
        <4>4. Total(d) \in Nat /\ Total(c) \in Nat
          BY <4>1, Finite, TotalType
        <4>5. Total(d) = Total(c) + 1
          BY <4>2, <4>3, <4>4
        <4>6. Cardinality(Holding(n)') + 1 <= Cardinality(Holding(n))
          BY <1>1, <2>1, <3>2, OneLessHeld, HoldingIs
        <4>7. Due(n) = Cardinality(Holding(n)) + Total(c) /\ Due(n)' = Cardinality(Holding(n)') + Total(d)
          BY DEF Due, c, d
        <4> QED
          BY <1>1, <3>1, <4>4, <4>5, <4>6, <4>7, HoldingIs, HoldingNext
      <3>3. CASE n # Period(r)
        <4>1. Charges(n)' = Charges(n)
          BY <1>0, <2>2, <3>3 DEF Charges, GhostsOK
        <4>2. Holding(n)' \subseteq Holding(n)
          BY <1>1, <2>1, NoNewHold
        <4>3. Cardinality(Holding(n)') <= Cardinality(Holding(n))
          BY <4>2, HoldingIs, FS_Subset
        <4>4. Total(Charges(n)) \in Nat
          BY <1>0, ChargesType
        <4> QED
          BY <1>1, <3>1, <4>1, <4>3, <4>4, HoldingIs, HoldingNext DEF Due
      <3> QED
        BY <3>2, <3>3
    <2> QED
      BY <2>3 DEF Balanced
  <1>3. CASE ~ok
    <2>1. charged' = charged
      BY <1>3 DEF Submit
    <2>2. \A n \in Periods : Holding(n)' \subseteq Holding(n) /\ Counted(n)' = Counted(n)
      BY <1>0, <1>1, NoNewHold, SameCount
    <2> QED
      BY <1>1, <2>1, <2>2, BalanceStays
  <1> QED
    BY <1>2, <1>3

\* A release gives back one slot and takes at most one from the total; or it
\* gives back one that the request did not have, and that is noted.
LEMMA ReleaseBalance ==
    ASSUME Typed, Typed', Balanced, NEW r \in Clients, ~At(r, "idle"), Released(r),
           Turn(r), ~call'[r].holds, charged' = charged
    PROVE  Balanced'
  <1>0. /\ TablesOK /\ Key(r) \in Keys /\ Period(r) \in Periods
        /\ uncounted \in [Periods -> Nat] /\ uncounted' \in [Periods -> Nat]
    BY BusyCall DEF Typed, GhostsOK
  <1> DEFINE u == used[Key(r)]["hash"][Period(r)]
             v == IF u > 0 THEN u - 1 ELSE 0
  <1>1. u \in Nat
    BY <1>0, OneRow
  <1>2. v \in Nat /\ u <= v + 1 /\ (u = 0 => v = 0)
    BY <1>1
  <1>3. Sets(Key(r), Period(r), v)
    BY DEF Released, Sets
  <1>4. /\ call[r].holds \/ u = 0 => uncounted' = uncounted
        /\ ~call[r].holds /\ u # 0 => uncounted'[Period(r)] = uncounted[Period(r)] + 1
        /\ \A n \in Periods : n # Period(r) => uncounted'[n] = uncounted[n]
    BY <1>0 DEF Released, Taken
  <1> HIDE DEF v
  <1>5. ASSUME NEW n \in Periods
        PROVE  Due(n)' <= Counted(n)' + uncounted'[n]
    <2>1. /\ Due(n) <= Counted(n) + uncounted[n] /\ Counted(n) \in Nat /\ Counted(n)' \in Nat
          /\ uncounted[n] \in Nat /\ uncounted'[n] \in Nat
      BY <1>0, CountsType, CountedNext DEF Balanced, Typed
    <2>2. IF n = Period(r) THEN Counted(n)' + u = Counted(n) + v ELSE Counted(n)' = Counted(n)
      BY <1>0, <1>2, <1>3, CountChanges
    <2>3. Holding(n)' \subseteq Holding(n)
      BY NoNewHold
    <2>4. Due(n)' <= Due(n) /\ Due(n) \in Nat /\ Due(n)' \in Nat
      BY <2>3, NoMoreDue
    <2> HIDE DEF u
    <2>5. CASE n # Period(r)
      BY <1>4, <2>1, <2>2, <2>4, <2>5
    <2>6. CASE n = Period(r) /\ ~call[r].holds
      <3>1. CASE u = 0
        BY <1>1, <1>2, <1>4, <2>1, <2>2, <2>4, <2>6, <3>1
      <3>2. CASE u # 0
        BY <1>1, <1>2, <1>4, <2>1, <2>2, <2>4, <2>6, <3>2
      <3> QED
        BY <3>1, <3>2
    <2>7. CASE n = Period(r) /\ call[r].holds
      <3>1. Counted(n) <= Counted(n)' + 1 /\ uncounted'[n] = uncounted[n]
        BY <1>1, <1>2, <1>4, <2>1, <2>2, <2>7
      <3>2. Cardinality(Holding(n)') + 1 <= Cardinality(Holding(n))
        BY <2>7, OneLessHeld, HoldingIs
      <3>3. Charges(n)' = Charges(n) /\ Total(Charges(n)) \in Nat
        BY ChargesType DEF Charges, Typed
      <3>4. Due(n)' + 1 <= Due(n)
        BY <3>2, <3>3, HoldingIs, HoldingNext DEF Due
      <3> QED
        BY <2>1, <2>4, <3>1, <3>4
    <2> QED
      BY <2>5, <2>6, <2>7
  <1> QED
    BY <1>5 DEF Balanced

\* At the start the charges of earlier days are what the first key's counters
\* have.
LEMMA InitBalance == Init => Balanced
  <1> SUFFICES ASSUME Init, NEW n \in Periods
               PROVE  Due(n) <= Counted(n) /\ Counted(n) \in Nat /\ uncounted[n] = 0
    BY DEF Balanced
  <1>1. TablesOK /\ GhostsOK
    BY InitTyped DEF Typed
  <1>2. FirstKey \in Keys /\ StoredAs \in Forms
    BY PgAssumption
  <1>3. /\ \A k \in Keys, f \in Forms : k # FirstKey \/ f # StoredAs => used[k][f][n] = 0
        /\ \A k \in Keys : charged[k][n] = used[k]["plain"][n] + used[k]["hash"][n]
    BY DEF Init, Forms
  <1> DEFINE c == Charges(n)
             u == used[FirstKey][StoredAs][n]
  <1>4. u \in Nat
    BY <1>1, <1>2 DEF TablesOK, Table
  <1>5. c \in [Keys -> Nat] /\ c[FirstKey] = charged[FirstKey][n] /\ \A k \in Keys \ {FirstKey} : c[k] = 0
    <2>1. c \in [Keys -> Nat] /\ \A k \in Keys : c[k] = charged[k][n]
      BY <1>1, ChargesType DEF Charges
    <2>2. \A k \in Keys \ {FirstKey} : charged[k][n] = 0
      BY <1>3 DEF Forms
    <2> QED
      BY <1>2, <2>1, <2>2
  <1>6. charged[FirstKey][n] = u
    BY <1>2, <1>3, <1>4 DEF Forms
  <1> HIDE DEF c
  <1>7. Total(c) = c[FirstKey]
    BY <1>2, <1>5, Finite, TotalOfOne
  <1>8. u <= Counted(n)
    <2>1. Counts(n) \in [Cells -> Nat] /\ <<FirstKey, StoredAs>> \in Cells /\ Counts(n)[<<FirstKey, StoredAs>>] = u
      BY <1>1, <1>2, CountsType
    <2> QED
      BY <2>1, Finite, TotalOfOne DEF Counted
  <1>9. Holding(n) = {}
    BY HoldingIs DEF Init, Idle
  <1>10. Due(n) = u
    <2>1. Cardinality(Holding(n)) = 0
      BY <1>9, FS_EmptySet
    <2> HIDE DEF u
    <2> QED
      BY <1>4, <1>5, <1>6, <1>7, <2>1 DEF Due, c
  <1>11. Counted(n) \in Nat /\ uncounted[n] = 0
    BY <1>1, CountsType DEF Init
  <1> HIDE DEF u
  <1> QED
    BY <1>8, <1>10, <1>11

\* Every step keeps what is due within what is counted.
LEMMA NextBalance == Typed /\ Typed' /\ FreshKeys /\ Balanced /\ [Next]_vars => Balanced'
  <1> SUFFICES ASSUME Typed, Typed', FreshKeys, Balanced, [Next]_vars
               PROVE  Balanced'
    OBVIOUS
  <1>0. CallsOK /\ TablesOK /\ TablesOK'
    BY DEF Typed
  <1>1. ASSUME UNCHANGED <<used, charged, uncounted>>, \A n \in Periods : Holding(n)' \subseteq Holding(n)
        PROVE  Balanced'
    BY <1>1, SameCount, BalanceStays
  <1>2. ASSUME UNCHANGED <<used, charged, uncounted, call>>
        PROVE  Balanced'
    <2>1. \A n \in Periods : Holding(n)' \subseteq Holding(n)
      BY <1>2 DEF Holding, Period
    <2> QED
      BY <1>1, <1>2, <2>1
  <1>3. ASSUME NEW r \in Clients,
               \/ SelectHashed(r) \/ SelectPlain(r) \/ CopyRow(r) \/ DropPlain(r)
               \/ SelectForUpdate(r) \/ InsertCounter(r)
               \/ SelectTx(r) \/ InsertTx(r) \/ NoteFailed(r) \/ (\E saved \in BOOLEAN : NotePending(r, saved))
               \/ DeleteHashed(r) \/ DeletePlain(r) \/ DeleteOld(r) \/ ListNew(r) \/ QueryFails(r)
        PROVE  Balanced'
    <2>1. UNCHANGED <<used, charged, uncounted>>
      BY <1>3 DEF SelectHashed, SelectPlain, CopyRow, DropPlain, SelectForUpdate, InsertCounter, SelectTx, InsertTx,
                  NoteFailed, NotePending, DeleteHashed, DeletePlain, DeleteOld, ListNew, QueryFails, tables, ghosts
    <2>2. Return(r) \/ \E stage \in Stages : Goto(r, stage)
      BY <1>3 DEF SelectHashed, SelectPlain, CopyRow, DropPlain, SelectForUpdate, InsertCounter, SelectTx, InsertTx,
                  NoteFailed, NotePending, DeleteHashed, DeletePlain, DeleteOld, ListNew, QueryFails, AfterError, Stages
    <2>3. Turn(r) /\ (call'[r].holds => call[r].holds /\ call'[r].period = Period(r))
      BY <1>0, <2>2, GotoIs, ReturnIs DEF Same, Period
    <2> QED
      BY <1>1, <2>1, <2>3, NoNewHold
  <1>4. ASSUME NEW r \in Clients, NEW n \in Periods, Connect(r, n)
        PROVE  Balanced'
    <2>1. Turn(r) /\ ~call'[r].holds
      BY <1>0, <1>4, ConnectIs
    <2>2. UNCHANGED <<used, charged, uncounted>>
      BY <1>4 DEF Connect, tables, ghosts
    <2> QED
      BY <1>1, <2>1, <2>2, NoNewHold
  <1>5. ASSUME NEW r \in Clients, NEW new \in Keys, IssueKey(r, new)
        PROVE  Balanced'
    <2>1. Turn(r) /\ call'[r].holds = call[r].holds /\ call'[r].period = Period(r)
      BY <1>0, <1>5, IssueKeyIs
    <2>2. UNCHANGED <<used, charged, uncounted>>
      BY <1>5 DEF IssueKey, ghosts
    <2> QED
      BY <1>1, <2>1, <2>2, NoNewHold
  <1>6. ASSUME NEW r \in Clients, MoveUsage(r)
        PROVE  Balanced'
    <2>1. UNCHANGED <<charged, uncounted>> /\ Key(r) \in Keys
      BY <1>0, <1>6, BusyCall DEF MoveUsage, ghosts, At
    <2>2. Turn(r) /\ (call'[r].holds => call[r].holds /\ call'[r].period = Period(r))
      BY <1>0, <1>6, GotoIs, ReturnIs DEF MoveUsage, Same, Period
    <2>3. used' = used \/ Rename(Key(r), "plain", Key(r))
      BY <1>6 DEF MoveUsage
    <2>4. \A n \in Periods : Counted(n)' = Counted(n)
      BY <1>0, <2>1, <2>3, SameCount, RenameKeepsCount DEF Forms
    <2> QED
      BY <2>1, <2>2, <2>4, NoNewHold, BalanceStays
  <1>7. ASSUME NEW r \in Clients, RekeyUsage(r)
        PROVE  Balanced'
    <2>1. UNCHANGED <<charged, uncounted>> /\ Key(r) \in Keys /\ call[r].new \in Keys /\ Rename(Key(r), "hash", call[r].new)
      BY <1>7, BusyCall DEF RekeyUsage, ghosts, At, RotateStages
    <2>2. Turn(r) /\ (call'[r].holds => call[r].holds /\ call'[r].period = Period(r))
      BY <1>0, <1>7, GotoIs DEF RekeyUsage, Same, Period
    <2>3. Key(r) # call[r].new
      BY <1>7 DEF RekeyUsage, FreshKeys, At, RotateStages
    <2>4. \A n \in Periods : Counted(n)' = Counted(n)
      BY <1>0, <2>1, <2>3, RenameKeepsCount DEF Forms
    <2> QED
      BY <2>1, <2>2, <2>4, NoNewHold, BalanceStays
  <1>a. ASSUME NEW r \in Clients, Release(r)
        PROVE  Balanced'
    <2>1. Released(r) /\ ~At(r, "idle") /\ Return(r) /\ charged' = charged
      BY <1>a DEF Release, Releasing, At
    <2> QED
      BY <1>0, <2>1, ReturnIs, ReleaseBalance
  <1>b. ASSUME NEW r \in Clients, NEW applied \in BOOLEAN, ReleaseFails(r, applied)
        PROVE  Balanced'
    <2>1. /\ ~At(r, "idle") /\ charged' = charged
          /\ Return(r) \/ GotoWith(r, "unwinding", call[r].holds /\ ~applied)
          /\ IF applied THEN Released(r) ELSE UNCHANGED <<used, uncounted>>
      BY <1>b DEF ReleaseFails, Releasing, At
    <2>2. /\ Turn(r) /\ (applied => ~call'[r].holds)
          /\ call'[r].holds => call[r].holds /\ call'[r].period = Period(r)
      BY <1>0, <2>1, ReturnIs, GotoWithIs DEF Same, Period
    <2>3. CASE applied
      BY <2>1, <2>2, <2>3, ReleaseBalance
    <2>4. CASE ~applied
      BY <1>1, <2>1, <2>2, <2>4, NoNewHold
    <2> QED
      BY <2>3, <2>4
  <1>8. ASSUME NEW r \in Clients, Serve(r)
        PROVE  Balanced'
    BY <1>3, <1>4, <1>5, <1>6, <1>7, <1>8, <1>a, CommitBalance, SubmitBalance DEF Serve
  <1>9. ASSUME NEW r \in Clients, NEW c, ~c.holds, Begin(r, c)
        PROVE  Balanced'
    <2>1. Turn(r) /\ call'[r] = c /\ UNCHANGED <<used, charged, uncounted>>
      BY <1>0, <1>9, BeginIs DEF tables
    <2> QED
      BY <1>1, <1>9, <2>1, NoNewHold
  <1>10. ASSUME NEW r \in Clients,
                \/ \E k \in Keys, t \in Txs : Request(r, k, t)
                \/ \E k \in Keys, f \in Forms : AdminDelete(r, k, f)
                \/ Rotate(r)
         PROVE  Balanced'
    <2>1. PICK c : Begin(r, c) /\ ~c.holds
      BY <1>10, NewCall
    <2> QED
      BY <1>9, <2>1
  <1>11. CASE RunScript \/ CopyKey \/ \E t \in Txs : CopyTx(t)
    BY <1>2, <1>11 DEF RunScript, CopyKey, CopyTx, tables, ghosts
  <1>12. CASE Crash
    <2>1. \A n \in Periods : Holding(n)' \subseteq Holding(n)
      BY <1>12, HoldingNext DEF Crash, Idle
    <2> QED
      BY <1>1, <1>12, <2>1 DEF Crash
  <1>13. CASE UNCHANGED vars
    BY <1>2, <1>13 DEF vars, tables, ghosts
  <1> QED
    BY <1>3, <1>8, <1>10, <1>11, <1>12, <1>13, <1>b DEF Next

(***************************************************************************)
(* Who gave a slot back wrongly.  A request about to give back one that it *)
(* does not have has had a query fail; so has one that did.                *)
(***************************************************************************)
LoseStages == {"failing", "releasing", "unwinding"}
Losing(n)  == {r \in Clients : call[r].stage \in LoseStages /\ ~call[r].holds /\ Period(r) = n}
Blamed     == \A n \in Periods : uncounted[n] + Cardinality(Losing(n)) <= errors

\* The requests that are about to, before and after a step.
LEMMA LosingIs ==
    ASSUME NEW n
    PROVE  /\ Losing(n) \subseteq Clients /\ IsFiniteSet(Losing(n)) /\ Cardinality(Losing(n)) \in Nat
           /\ Losing(n)' \subseteq Clients /\ IsFiniteSet(Losing(n)') /\ Cardinality(Losing(n)') \in Nat
           /\ \A s \in Clients : s \in Losing(n)' <=>
                 call'[s].stage \in LoseStages /\ ~call'[s].holds /\ call'[s].period = n
  <1>1. Losing(n) \subseteq Clients /\ Losing(n)' \subseteq Clients
    BY DEF Losing
  <1>2. IsFiniteSet(Losing(n)) /\ IsFiniteSet(Losing(n)')
    BY <1>1, Finite, FS_Subset
  <1> QED
    BY <1>1, <1>2, FS_CardinalityType DEF Losing, Period

\* A step that gives nothing back, and takes nobody nearer to it.
LEMMA NoMoreLosing ==
    ASSUME Typed, Typed', Blamed, uncounted' = uncounted, errors' >= errors,
           \A n \in Periods : Losing(n)' \subseteq Losing(n)
    PROVE  Blamed'
  <1> SUFFICES ASSUME NEW n \in Periods
               PROVE  uncounted'[n] + Cardinality(Losing(n)') <= errors'
    BY DEF Blamed
  <1>1. Cardinality(Losing(n)') <= Cardinality(Losing(n))
    BY LosingIs, FS_Subset
  <1>2. uncounted[n] + Cardinality(Losing(n)) <= errors /\ uncounted[n] \in Nat /\ errors \in Nat /\ errors' \in Nat
    BY PgAssumption DEF Blamed, Typed, GhostsOK
  <1> QED
    BY <1>1, <1>2, LosingIs

\* A request whose call is the same but for the stage comes nearer only when
\* it holds no slot.
LEMMA LosesOnly ==
    ASSUME NEW r \in Clients, Turn(r), NEW n,
           \/ call'[r].stage \notin LoseStages \/ call'[r].holds
           \/ call[r].stage \in LoseStages /\ ~call[r].holds /\ call'[r].period = Period(r)
    PROVE  Losing(n)' \subseteq Losing(n)
  BY LosingIs DEF Losing, Turn, Period

\* A query that fails can bring one request to it.
LEMMA FaultBlamed ==
    ASSUME Typed, Typed', Blamed, NEW r \in Clients, Turn(r), uncounted' = uncounted, errors' = errors + 1
    PROVE  Blamed'
  <1> SUFFICES ASSUME NEW n \in Periods
               PROVE  uncounted'[n] + Cardinality(Losing(n)') <= errors'
    BY DEF Blamed
  <1>1. Losing(n)' \subseteq Losing(n) \cup {r}
    BY LosingIs DEF Losing, Turn, Period
  <1>2. IsFiniteSet(Losing(n) \cup {r}) /\ Cardinality(Losing(n) \cup {r}) <= Cardinality(Losing(n)) + 1
    BY LosingIs, OneElement
  <1>3. Cardinality(Losing(n)') <= Cardinality(Losing(n) \cup {r}) /\ Cardinality(Losing(n) \cup {r}) \in Nat
    BY <1>1, <1>2, FS_Subset, FS_CardinalityType
  <1>4. uncounted[n] + Cardinality(Losing(n)) <= errors /\ uncounted[n] \in Nat /\ errors \in Nat
    BY PgAssumption DEF Blamed, Typed, GhostsOK
  <1> QED
    BY <1>2, <1>3, <1>4, LosingIs

\* A slot given back: the request's own, or one that a failure had brought it
\* to give back, and then the request is done or the UPDATE has failed too.
LEMMA ReleaseBlamed ==
    ASSUME Typed, Typed', Blamed, NEW r \in Clients, Releasing(r), Released(r), Turn(r),
           \/ call'[r].stage = "idle" /\ errors' \in {errors, errors + 1}
           \/ errors' = errors + 1 /\ call'[r].period = Period(r)
    PROVE  Blamed'
  <1> SUFFICES ASSUME NEW n \in Periods
               PROVE  uncounted'[n] + Cardinality(Losing(n)') <= errors'
    BY DEF Blamed
  <1>0. uncounted[n] + Cardinality(Losing(n)) <= errors /\ uncounted \in [Periods -> Nat] /\ errors \in Nat
    BY PgAssumption DEF Blamed, Typed, GhostsOK
  <1>1. call[r].stage \in LoseStages /\ call[r].holds \in BOOLEAN
    BY DEF Releasing, LoseStages, Typed, CallsOK, Call
  <1>2. UNCHANGED uncounted \/ (~call[r].holds /\ uncounted' = [uncounted EXCEPT ![Period(r)] = uncounted[Period(r)] + 1])
    BY DEF Released
  <1>3. "idle" \notin LoseStages /\ errors' >= errors
    BY <1>0 DEF LoseStages
  <1>4. CASE UNCHANGED uncounted
    <2>1. CASE call'[r].stage = "idle"
      BY <1>3, <1>4, <2>1, LosesOnly, NoMoreLosing DEF Blamed
    <2>2. CASE errors' = errors + 1
      BY <1>4, <2>2, FaultBlamed DEF Blamed
    <2> QED
      BY <2>1, <2>2
  <1>5. CASE ~call[r].holds /\ uncounted' = [uncounted EXCEPT ![Period(r)] = uncounted[Period(r)] + 1]
    <2>1. Losing(n)' \subseteq Losing(n)
      BY <1>1, <1>3, <1>5, LosesOnly
    <2>2. Cardinality(Losing(n)') <= Cardinality(Losing(n))
      BY <2>1, LosingIs, FS_Subset
    <2>3. CASE n # Period(r)
      <3>1. uncounted'[n] = uncounted[n] /\ uncounted[n] \in Nat
        BY <1>0, <1>5, <2>3
      <3>2. errors' \in Nat
        BY PgAssumption DEF Typed, GhostsOK
      <3> QED
        BY <1>0, <1>3, <2>2, <3>1, <3>2, LosingIs
    <2>4. CASE n = Period(r)
      <3>1. uncounted'[n] = uncounted[n] + 1 /\ uncounted[n] \in Nat
        BY <1>0, <1>5, <2>4
      <3>2. CASE errors' = errors + 1
        BY <1>0, <2>2, <3>1, <3>2, LosingIs
      <3>3. CASE call'[r].stage = "idle" /\ errors' = errors
        <4>1. r \in Losing(n) /\ Losing(n)' \subseteq Losing(n) \ {r}
          BY <1>1, <1>3, <1>5, <2>1, <2>4, <3>3, LosingIs DEF Losing
        <4>2. IsFiniteSet(Losing(n) \ {r}) /\ Cardinality(Losing(n) \ {r}) = Cardinality(Losing(n)) - 1
          BY <4>1, LosingIs, FS_RemoveElement
        <4>3. Cardinality(Losing(n)') <= Cardinality(Losing(n) \ {r})
          BY <4>1, <4>2, FS_Subset
        <4> QED
          BY <1>0, <3>1, <3>3, <4>2, <4>3, LosingIs
      <3> QED
        BY <3>2, <3>3
    <2> QED
      BY <2>3, <2>4
  <1> QED
    BY <1>2, <1>4, <1>5

\* At the start nobody has failed.
LEMMA InitBlamed == Init => Blamed
  <1> SUFFICES ASSUME Init, NEW n \in Periods
               PROVE  uncounted[n] + Cardinality(Losing(n)) <= errors
    BY DEF Blamed
  <1>1. Losing(n) = {}
    BY DEF Init, Losing, Idle, LoseStages
  <1>2. Cardinality(Losing(n)) = 0
    BY <1>1, FS_EmptySet
  <1> QED
    BY <1>2 DEF Init

\* A query that passes brings nobody to give back what is not held.
LEMMA ServeBlamed ==
    ASSUME Typed, Typed', Blamed, NEW r \in Clients, Serve(r)
    PROVE  Blamed'
  <1>0. CallsOK /\ errors \in Nat /\ CallOK(call[r])
    BY PgAssumption DEF Typed, CallsOK, GhostsOK
  <1>1. ASSUME UNCHANGED <<uncounted, errors>>, Turn(r),
               \/ call'[r].stage \notin LoseStages \/ call'[r].holds
               \/ call[r].stage \in LoseStages /\ ~call[r].holds /\ call'[r].period = Period(r)
        PROVE  Blamed'
    BY <1>0, <1>1, LosesOnly, NoMoreLosing
  <1>2. CASE \/ SelectHashed(r) \/ SelectPlain(r) \/ CopyRow(r) \/ DropPlain(r) \/ MoveUsage(r)
             \/ SelectForUpdate(r) \/ InsertCounter(r) \/ SelectTx(r)
             \/ DeleteHashed(r) \/ DeletePlain(r) \/ RekeyUsage(r) \/ DeleteOld(r) \/ ListNew(r)
    <2>1. UNCHANGED <<uncounted, errors>>
      BY <1>2 DEF SelectHashed, SelectPlain, CopyRow, DropPlain, MoveUsage, SelectForUpdate, InsertCounter, SelectTx,
                  DeleteHashed, DeletePlain, RekeyUsage, DeleteOld, ListNew, ghosts
    <2>2. Return(r) \/ \E stage \in Stages \ LoseStages : Goto(r, stage)
      BY <1>2 DEF SelectHashed, SelectPlain, CopyRow, DropPlain, MoveUsage, SelectForUpdate, InsertCounter, SelectTx,
                  DeleteHashed, DeletePlain, RekeyUsage, DeleteOld, ListNew, Stages, LoseStages
    <2>3. Turn(r) /\ call'[r].stage \notin LoseStages
      BY <1>0, <2>2, GotoIs, ReturnIs DEF LoseStages
    <2> QED
      BY <1>1, <2>1, <2>3
  <1>3. CASE InsertTx(r) \/ NoteFailed(r)
    <2>1. /\ UNCHANGED <<uncounted, errors>> /\ \E stage \in Stages : Goto(r, stage)
          /\ call[r].holds \/ call[r].stage \in LoseStages
      BY <1>0, <1>3 DEF InsertTx, NoteFailed, ghosts, Stages, At, CallOK, SureStages, LoseStages
    <2>2. Turn(r) /\ call'[r].holds = call[r].holds /\ call'[r].period = Period(r)
      BY <1>0, <2>1, GotoIs DEF Same, Period
    <2> QED
      BY <1>1, <2>1, <2>2
  <1>4. CASE Release(r)
    <2>1. Releasing(r) /\ Released(r) /\ Return(r) /\ errors' = errors
      BY <1>4 DEF Release
    <2> QED
      BY <1>0, <2>1, ReturnIs, ReleaseBlamed
  <1>5. ASSUME NEW ok \in BOOLEAN, Submit(r, ok)
        PROVE  Blamed'
    <2>1. UNCHANGED <<uncounted, errors>> /\ GotoWith(r, IF ok THEN "pending" ELSE "failing", ~ok)
      BY <1>5 DEF Submit
    <2>2. /\ Turn(r) /\ call'[r].holds = ~ok
          /\ call'[r].stage = IF ok THEN "pending" ELSE "failing"
      BY <1>0, <2>1, GotoWithIs
    <2>3. call'[r].stage \notin LoseStages \/ call'[r].holds
      <3>1. CASE ok
        BY <2>2, <3>1 DEF LoseStages
      <3>2. CASE ~ok
        BY <2>2, <3>2
      <3> QED
        BY <3>1, <3>2
    <2> QED
      BY <1>1, <2>1, <2>2, <2>3
  <1>6. ASSUME NEW ok \in BOOLEAN, NotePending(r, ok) \/ \E applied \in BOOLEAN : Commit(r, ok, applied)
        PROVE  Blamed'
    <2>1. /\ uncounted' = uncounted
          /\ \/ Return(r) /\ UNCHANGED errors
             \/ GotoWith(r, "creating", TRUE) /\ UNCHANGED errors
             \/ (Return(r) \/ Goto(r, "unwinding")) /\ errors' = errors + 1
      BY <1>6 DEF NotePending, Commit, Fault
    <2>2. CASE Return(r) /\ UNCHANGED errors
      BY <1>0, <1>1, <2>1, <2>2, ReturnIs DEF LoseStages
    <2>3. CASE GotoWith(r, "creating", TRUE) /\ UNCHANGED errors
      BY <1>0, <1>1, <2>1, <2>3, GotoWithIs DEF LoseStages
    <2>4. CASE (Return(r) \/ Goto(r, "unwinding")) /\ errors' = errors + 1
      BY <1>0, <2>1, <2>4, ReturnIs, GotoIs, FaultBlamed
    <2> QED
      BY <2>1, <2>2, <2>3, <2>4
  <1>7. ASSUME NEW n \in Periods, Connect(r, n)
        PROVE  Blamed'
    <2>1. UNCHANGED <<uncounted, errors>> /\ Turn(r) /\ call'[r].stage \notin LoseStages
      BY <1>0, <1>7, ConnectIs DEF Connect, ghosts, LoseStages
    <2> QED
      BY <1>1, <2>1
  <1>8. ASSUME NEW new \in Keys, IssueKey(r, new)
        PROVE  Blamed'
    <2>1. UNCHANGED <<uncounted, errors>> /\ Turn(r) /\ call'[r].stage \notin LoseStages
      BY <1>0, <1>8, IssueKeyIs DEF IssueKey, ghosts, LoseStages
    <2> QED
      BY <1>1, <2>1
  <1> QED
    BY <1>2, <1>3, <1>4, <1>5, <1>6, <1>7, <1>8 DEF Serve

\* Every step keeps the slots given back wrongly within the errors.
LEMMA NextBlamed == Typed /\ Typed' /\ Blamed /\ [Next]_vars => Blamed'
  <1> SUFFICES ASSUME Typed, Typed', Blamed, [Next]_vars
               PROVE  Blamed'
    OBVIOUS
  <1>0. CallsOK /\ errors \in Nat
    BY PgAssumption DEF Typed, GhostsOK
  <1>1. ASSUME UNCHANGED <<uncounted, errors, call>>
        PROVE  Blamed'
    <2>1. \A n : Losing(n)' = Losing(n)
      BY <1>1 DEF Losing, Period
    <2> QED
      BY <1>0, <1>1, <2>1, NoMoreLosing
  <1>2. ASSUME NEW r \in Clients, QueryFails(r)
        PROVE  Blamed'
    <2>1. uncounted' = uncounted /\ errors' = errors + 1
      BY <1>2 DEF QueryFails, Fault
    <2>2. Turn(r)
      BY <1>0, <1>2, FailGoes, GoesIs, ReturnIs
    <2> QED
      BY <2>1, <2>2, FaultBlamed
  <1>3. ASSUME NEW r \in Clients, NEW applied \in BOOLEAN, ReleaseFails(r, applied)
        PROVE  Blamed'
    <2>1. /\ Releasing(r) /\ errors' = errors + 1
          /\ Return(r) \/ GotoWith(r, "unwinding", call[r].holds /\ ~applied)
          /\ IF applied THEN Released(r) ELSE UNCHANGED <<used, uncounted>>
      BY <1>3 DEF ReleaseFails, Fault
    <2>2. Turn(r) /\ (call'[r].stage = "idle" \/ call'[r].period = Period(r))
      BY <1>0, <2>1, ReturnIs, GotoWithIs DEF Same, Period
    <2>3. CASE applied
      BY <1>0, <2>1, <2>2, <2>3, ReleaseBlamed
    <2>4. CASE ~applied
      BY <2>1, <2>2, <2>4, FaultBlamed
    <2> QED
      BY <2>3, <2>4
  <1>4. ASSUME NEW r \in Clients,
               \/ \E k \in Keys, t \in Txs : Request(r, k, t)
               \/ \E k \in Keys, f \in Forms : AdminDelete(r, k, f)
               \/ Rotate(r)
        PROVE  Blamed'
    <2>1. PICK c : Begin(r, c) /\ c.stage \in {"lookup", "deleting", "issuing"}
      BY <1>4, NewCall
    <2>2. Turn(r) /\ call'[r] = c /\ UNCHANGED <<uncounted, errors>>
      BY <1>0, <2>1, BeginIs DEF Begin
    <2>3. \A n : Losing(n)' \subseteq Losing(n)
      BY <2>1, <2>2, LosesOnly DEF LoseStages
    <2> QED
      BY <1>0, <2>2, <2>3, NoMoreLosing
  <1>5. CASE RunScript \/ CopyKey \/ \E t \in Txs : CopyTx(t)
    BY <1>1, <1>5 DEF RunScript, CopyKey, CopyTx, ghosts
  <1>6. CASE Crash
    <2>1. \A n : Losing(n)' \subseteq Losing(n)
      BY <1>6, LosingIs DEF Crash, Idle, LoseStages
    <2> QED
      BY <1>0, <1>6, <2>1, NoMoreLosing DEF Crash
  <1>7. CASE UNCHANGED vars
    BY <1>1, <1>7 DEF vars, ghosts
  <1> QED
    BY <1>2, <1>3, <1>4, <1>5, <1>6, <1>7, ServeBlamed DEF Next

\* What is due is counted or given back wrongly, and the latter are few.
LEMMA BothHold ==
    ASSUME Typed, Balanced, Blamed
    PROVE  NothingUncounted
  <1> SUFFICES ASSUME NEW n \in Periods
               PROVE  uncounted[n] <= errors
    BY DEF Balanced, NothingUncounted
  <1>1. uncounted[n] + Cardinality(Losing(n)) <= errors /\ uncounted[n] \in Nat /\ errors \in Nat
    BY PgAssumption DEF Blamed, Typed, GhostsOK
  <1> QED
    BY <1>1, LosingIs

\* No slot in use or charged falls out of the counters: not while they move
\* from a plaintext id to its hash or from an old key to a new one, and not
\* when a request or the server stops half way.  Only a slot that is charged,
\* or was given back before, can be given back for nothing, once for each
\* query that failed.
THEOREM EverySlotCounted == Spec => []NothingUncounted
  <1> DEFINE Inv == Typed /\ FreshKeys /\ Balanced /\ Blamed
  <1>1. Init => Inv
    BY InitTyped, InitFresh, InitBalance, InitBlamed
  <1>2. Inv /\ [Next]_vars => Inv'
    BY NextTyped, NextFresh, NextBalance, NextBlamed
  <1>3. Inv => NothingUncounted
    BY BothHold
  <1> HIDE DEF Inv
  <1> QED
    BY <1>1, <1>2, <1>3, PTL DEF Spec

-----------------------------------------------------------------------------
(***************************************************************************)
(* No counter over the limit.  Whoever is about to commit holds the row,   *)
(* has seen it under the limit, and nobody adds to a row that is held: a   *)
(* move waits for it, or adds to a row that has no counter.                *)
(***************************************************************************)
Locks ==
    /\ \A r \in Clients : At(r, "committing") =>
          lock[Key(r)][Period(r)] = r /\ Taken(r) < Limit
    /\ \A k \in Keys, n \in Periods : Locked(k, n) =>
          \E r \in Clients : lock[k][n] = r /\ At(r, "committing") /\ Key(r) = k /\ Period(r) = n
    /\ \A r \in Clients : At(r, "inserting") => 0 < Limit

WithinLimit ==
    \A k \in Keys, f \in Forms, n \in Periods :
       /\ used[k][f][n] <= Limit
       /\ used[k][f][n] > 0 => <<k, f, n>> \in counters

\* No counter is below zero.
LEMMA UsedIsNat ==
    ASSUME TablesOK
    PROVE  \A k \in Keys, f \in Forms, n \in Periods : used[k][f][n] \in Nat
  BY DEF TablesOK, Table

\* No counter is below zero after a step.
LEMMA UsedNextIsNat ==
    ASSUME TablesOK'
    PROVE  \A k \in Keys, f \in Forms, n \in Periods : used'[k][f][n] \in Nat
  BY DEF TablesOK, Table

\* A reservation about to commit holds the row of its counter, and found it
\* below the limit.
LEMMA Committing ==
    ASSUME Typed, Locks, NEW s \in Clients, call[s].stage = "committing"
    PROVE  /\ Key(s) \in Keys /\ Period(s) \in Periods
           /\ lock[Key(s)][Period(s)] = s /\ Locked(Key(s), Period(s))
           /\ used[Key(s)]["hash"][Period(s)] < Limit
  <1>1. Key(s) \in Keys /\ Period(s) \in Periods
    BY BusyCall DEF At
  <1>2. lock[Key(s)][Period(s)] = s /\ used[Key(s)]["hash"][Period(s)] < Limit
    BY DEF Locks, At, Taken
  <1> QED
    BY <1>1, <1>2, PgAssumption DEF Locked

\* At the start no row is held and the first key is within the limit.
LEMMA InitLocks == Init => Locks /\ WithinLimit
  <1> SUFFICES ASSUME Init
               PROVE  Locks /\ WithinLimit
    OBVIOUS
  <1>1. Locks
    BY DEF Init, Locks, Locked, At, Idle
  <1>2. PICK past \in [{n \in Periods : Fits(n)} -> 0..Limit] :
           /\ used = [k \in Keys |-> [f \in Forms |-> [n \in Periods |->
                        IF k = FirstKey /\ f = StoredAs /\ Fits(n) THEN past[n] ELSE 0]]]
           /\ counters = {x \in {FirstKey} \X {StoredAs} \X Periods :
                            Fits(x[3]) /\ past[x[3]] > 0}
    BY DEF Init
  <1>3. ASSUME NEW k \in Keys, NEW f \in Forms, NEW n \in Periods
        PROVE  used[k][f][n] <= Limit /\ (used[k][f][n] > 0 => <<k, f, n>> \in counters)
    <2>1. used[k][f][n] = IF k = FirstKey /\ f = StoredAs /\ Fits(n) THEN past[n] ELSE 0
      BY <1>2
    <2>2. Limit \in Nat
      BY PgAssumption
    <2>3. CASE k = FirstKey /\ f = StoredAs /\ Fits(n)
      <3>1. past[n] \in 0..Limit
        BY <2>3
      <3>2. past[n] > 0 => <<k, f, n>> \in counters
        BY <1>2, <2>3
      <3> QED
        BY <2>1, <2>2, <2>3, <3>1, <3>2
    <2>4. CASE ~(k = FirstKey /\ f = StoredAs /\ Fits(n))
      BY <2>1, <2>2, <2>4
    <2> QED
      BY <2>3, <2>4
  <1> QED
    BY <1>1, <1>3 DEF WithinLimit

\* A step of a client that is not committing and does not come to it, which
\* adds to no row that is held.
LEMMA LocksStay ==
    ASSUME Typed, Typed', Locks, NEW r \in Clients, Turn(r), call[r].stage # "committing",
           call'[r].stage \notin {"committing", "inserting"}, lock' = lock,
           \A k \in Keys, n \in Periods : Locked(k, n) => used'[k]["hash"][n] <= used[k]["hash"][n]
    PROVE  Locks'
  <1>0. TablesOK /\ TablesOK' /\ "hash" \in Forms /\ Limit \in Nat
    BY PgAssumption DEF Typed, Forms
  <1>1. \A s \in Clients : call'[s].stage \in {"committing", "inserting"} => s # r /\ call'[s] = call[s]
    BY DEF Turn
  <1>2. ASSUME NEW s \in Clients, call'[s].stage = "committing"
        PROVE  lock'[call'[s].key][call'[s].period] = s /\ used'[call'[s].key]["hash"][call'[s].period] < Limit
    <2>1. call'[s] = call[s] /\ call[s].stage = "committing"
      BY <1>1, <1>2
    <2>2. /\ Key(s) \in Keys /\ Period(s) \in Periods
          /\ lock[Key(s)][Period(s)] = s /\ Locked(Key(s), Period(s))
          /\ used[Key(s)]["hash"][Period(s)] < Limit
      BY <2>1, Committing
    <2>3. used'[Key(s)]["hash"][Period(s)] < Limit
      BY <1>0, <2>2, UsedIsNat, UsedNextIsNat
    <2> QED
      BY <2>1, <2>2, <2>3 DEF Key, Period
  <1>3. ASSUME NEW k \in Keys, NEW n \in Periods, lock'[k][n] # NoClient
        PROVE  \E s \in Clients : /\ lock'[k][n] = s /\ call'[s].stage = "committing"
                                  /\ call'[s].key = k /\ call'[s].period = n
    <2>1. PICK s \in Clients : lock[k][n] = s /\ At(s, "committing") /\ Key(s) = k /\ Period(s) = n
      BY <1>3 DEF Locks, Locked
    <2>2. call'[s] = call[s]
      BY <2>1 DEF Turn, At
    <2> QED
      BY <2>1, <2>2 DEF At, Key, Period
  <1>4. \A s \in Clients : call'[s].stage = "inserting" => 0 < Limit
    BY <1>1 DEF Locks, At
  <1> QED
    BY <1>2, <1>3, <1>4 DEF Locks, Locked, At, Key, Period, Taken

\* The row is taken by a client that has seen it under the limit.
LEMMA TakesLock ==
    ASSUME Typed, Locks, NEW r \in Clients, Turn(r), call[r].stage # "committing",
           ~At(r, "idle"), call'[r].stage = "committing", Same(call'[r], call[r]),
           ~Locked(Key(r), Period(r)), lock' = [lock EXCEPT ![Key(r)][Period(r)] = r],
           used' = used, Taken(r) < Limit
    PROVE  Locks'
  <1>0. lock \in [Keys -> [Periods -> Clients \cup {NoClient}]] /\ Key(r) \in Keys /\ Period(r) \in Periods
    BY BusyCall DEF Typed, TablesOK
  <1>1. call'[r].key = Key(r) /\ call'[r].period = Period(r)
    BY DEF Same, Key, Period
  <1>2. ASSUME NEW s \in Clients, call'[s].stage = "committing"
        PROVE  lock'[call'[s].key][call'[s].period] = s /\ used'[call'[s].key]["hash"][call'[s].period] < Limit
    <2>1. CASE s = r
      BY <1>0, <1>1, <2>1 DEF Taken
    <2>2. CASE s # r
      <3>1. call'[s] = call[s]
        BY <2>2 DEF Turn
      <3>2. /\ Key(s) \in Keys /\ Period(s) \in Periods
            /\ lock[Key(s)][Period(s)] = s /\ Locked(Key(s), Period(s))
            /\ used[Key(s)]["hash"][Period(s)] < Limit
        BY <1>2, <3>1, Committing
      <3>3. lock'[Key(s)][Period(s)] = lock[Key(s)][Period(s)]
        BY <1>0, <3>2
      <3> QED
        BY <3>1, <3>2, <3>3 DEF Key, Period
    <2> QED
      BY <2>1, <2>2
  <1>3. ASSUME NEW k \in Keys, NEW n \in Periods, lock'[k][n] # NoClient
        PROVE  \E s \in Clients : /\ lock'[k][n] = s /\ call'[s].stage = "committing"
                                  /\ call'[s].key = k /\ call'[s].period = n
    <2>1. CASE k = Key(r) /\ n = Period(r)
      BY <1>0, <1>1, <2>1
    <2>2. CASE ~(k = Key(r) /\ n = Period(r))
      <3>1. lock'[k][n] = lock[k][n]
        BY <1>0, <2>2
      <3>2. PICK s \in Clients : lock[k][n] = s /\ At(s, "committing") /\ Key(s) = k /\ Period(s) = n
        BY <1>3, <3>1 DEF Locks, Locked
      <3>3. call'[s] = call[s]
        BY <3>2 DEF Turn, At
      <3> QED
        BY <3>1, <3>2, <3>3 DEF At, Key, Period
    <2> QED
      BY <2>1, <2>2
  <1>4. \A s \in Clients : call'[s].stage = "inserting" => 0 < Limit
    BY DEF Locks, At, Turn
  <1> QED
    BY <1>2, <1>3, <1>4 DEF Locks, Locked, At, Key, Period, Taken

\* SELECT ... FOR UPDATE takes a row that nobody holds.
LEMMA SelectLocks ==
    ASSUME Typed, Typed', Locks, WithinLimit, NEW r \in Clients, SelectForUpdate(r)
    PROVE  Locks'
  <1>0. CallsOK /\ TablesOK /\ call[r].stage = "selecting" /\ used' = used /\ Key(r) \in Keys /\ Period(r) \in Periods
    BY BusyCall DEF Typed, SelectForUpdate, At
  <1>1. Taken(r) \in Nat /\ Limit \in Nat
    BY <1>0, OneRow, PgAssumption DEF Taken
  <1>2. ASSUME UNCHANGED <<used, lock>>, Turn(r), call'[r].stage \notin {"committing", "inserting"}
        PROVE  Locks'
    <2>1. \A k \in Keys, n \in Periods : used'[k]["hash"][n] <= used[k]["hash"][n]
      BY <1>0, <1>2, UsedIsNat DEF Forms
    <2> QED
      BY <1>0, <1>2, <2>1, LocksStay
  <1>3. CASE Return(r) /\ UNCHANGED lock
    BY <1>0, <1>2, <1>3, ReturnIs
  <1>4. CASE /\ Taken(r) < Limit /\ Goto(r, "committing") /\ lock' = [lock EXCEPT ![Key(r)][Period(r)] = r]
             /\ ~Locked(Key(r), Period(r))
    <2>1. Turn(r) /\ call'[r].stage = "committing" /\ Same(call'[r], call[r])
      BY <1>0, <1>4, GotoIs
    <2> QED
      BY <1>0, <1>4, <2>1, TakesLock DEF At
  <1>5. CASE Taken(r) < Limit /\ Goto(r, "inserting") /\ UNCHANGED lock
    <2>1. Turn(r) /\ call'[r].stage = "inserting" /\ 0 < Limit
      BY <1>0, <1>1, <1>5, GotoIs
    <2>2. \A s \in Clients : call'[s].stage = "committing" => s # r /\ call'[s] = call[s]
      BY <2>1 DEF Turn
    <2>3. \A s \in Clients : call[s].stage = "committing" => s # r /\ call'[s] = call[s]
      BY <1>0, <2>1 DEF Turn
    <2> QED
      BY <1>0, <1>5, <2>1, <2>2, <2>3 DEF Locks, Locked, At, Key, Period, Taken
  <1> QED
    BY <1>1, <1>3, <1>4, <1>5 DEF SelectForUpdate

\* The first reservation of a period inserts the row and holds it.
LEMMA InsertLocks ==
    ASSUME Typed, Typed', Locks, WithinLimit, NEW r \in Clients, InsertCounter(r)
    PROVE  Locks'
  <1>0. CallsOK /\ TablesOK /\ call[r].stage = "inserting" /\ used' = used /\ Key(r) \in Keys /\ Period(r) \in Periods
    BY BusyCall DEF Typed, InsertCounter, At
  <1>1. CASE Return(r) /\ UNCHANGED lock
    <2>1. \A k \in Keys, n \in Periods : used'[k]["hash"][n] <= used[k]["hash"][n]
      BY <1>0, UsedIsNat DEF Forms
    <2> QED
      BY <1>0, <1>1, <2>1, ReturnIs, LocksStay
  <1>2. CASE /\ Counter(r) \notin counters /\ Goto(r, "committing")
             /\ lock' = [lock EXCEPT ![Key(r)][Period(r)] = r]
    <2>1. Turn(r) /\ call'[r].stage = "committing" /\ Same(call'[r], call[r])
      BY <1>0, <1>2, GotoIs
    <2>2. Taken(r) = 0
      <3>1. Taken(r) \in Nat
        BY <1>0, OneRow DEF Taken
      <3>2. ~(Taken(r) > 0)
        BY <1>0, <1>2 DEF WithinLimit, Taken, Counter, Forms
      <3> QED
        BY <3>1, <3>2
    <2>3. 0 < Limit
      BY <1>0 DEF Locks, At
    <2>4. ~Locked(Key(r), Period(r))
      BY DEF InsertCounter
    <2> QED
      BY <1>0, <1>2, <2>1, <2>2, <2>3, <2>4, TakesLock DEF At
  <1> QED
    BY <1>1, <1>2 DEF InsertCounter

\* A commit adds to the row it holds, and lets go of it.
LEMMA CommitLocks ==
    ASSUME Typed, Typed', Locks, WithinLimit, NEW r \in Clients, NEW ok \in BOOLEAN, NEW applied \in BOOLEAN,
           Commit(r, ok, applied)
    PROVE  Locks' /\ WithinLimit'
  <1>0. CallsOK /\ TablesOK /\ call[r].stage = "committing" /\ "hash" \in Forms
    BY DEF Typed, Commit, At, Forms
  <1>1. /\ Key(r) \in Keys /\ Period(r) \in Periods
        /\ lock[Key(r)][Period(r)] = r /\ used[Key(r)]["hash"][Period(r)] < Limit
    BY <1>0, Committing
  <1>2. Turn(r) /\ call'[r].stage \notin {"committing", "inserting"}
    <2>1. Return(r) \/ GotoWith(r, "creating", TRUE)
      BY DEF Commit
    <2>2. CASE Return(r)
      BY <1>0, <2>2, ReturnIs
    <2>3. CASE GotoWith(r, "creating", TRUE)
      <3>1. call'[r].stage = "creating" /\ Turn(r)
        BY <1>0, <2>3, GotoWithIs
      <3> QED
        BY <3>1
    <2> QED
      BY <2>1, <2>2, <2>3
  <1>3. lock \in [Keys -> [Periods -> Clients \cup {NoClient}]] /\ used \in Table
    BY <1>0 DEF TablesOK
  <1>4. lock' = [lock EXCEPT ![Key(r)][Period(r)] = NoClient]
    BY DEF Commit
  <1>5. /\ \A k \in Keys, f \in Forms, n \in Periods :
              ~(k = Key(r) /\ f = "hash" /\ n = Period(r)) => used'[k][f][n] = used[k][f][n]
        /\ \/ counters' = counters /\ used' = used
           \/ /\ counters' = counters \cup {<<Key(r), "hash", Period(r)>>}
              /\ used'[Key(r)]["hash"][Period(r)] = used[Key(r)]["hash"][Period(r)] + 1
    BY <1>0, <1>1, <1>3 DEF Commit, Committed, Counter, Table
  <1>6. ASSUME NEW s \in Clients, call'[s].stage = "committing"
        PROVE  lock'[call'[s].key][call'[s].period] = s /\ used'[call'[s].key]["hash"][call'[s].period] < Limit
    <2>1. s # r /\ call'[s] = call[s]
      BY <1>2, <1>6 DEF Turn
    <2>2. /\ Key(s) \in Keys /\ Period(s) \in Periods
          /\ lock[Key(s)][Period(s)] = s
          /\ used[Key(s)]["hash"][Period(s)] < Limit
      BY <1>6, <2>1, Committing
    <2>3. ~(Key(s) = Key(r) /\ Period(s) = Period(r))
      BY <1>1, <2>1, <2>2
    <2>4. lock'[Key(s)][Period(s)] = lock[Key(s)][Period(s)]
      BY <1>1, <1>3, <1>4, <2>2, <2>3
    <2>5. used'[Key(s)]["hash"][Period(s)] = used[Key(s)]["hash"][Period(s)]
      BY <1>0, <1>5, <2>2, <2>3
    <2> QED
      BY <2>1, <2>2, <2>4, <2>5 DEF Key, Period
  <1>7. ASSUME NEW k \in Keys, NEW n \in Periods, lock'[k][n] # NoClient
        PROVE  \E s \in Clients : /\ lock'[k][n] = s /\ call'[s].stage = "committing"
                                  /\ call'[s].key = k /\ call'[s].period = n
    <2>1. lock'[k][n] = lock[k][n] /\ ~(k = Key(r) /\ n = Period(r))
      BY <1>1, <1>3, <1>4, <1>7
    <2>2. PICK s \in Clients : lock[k][n] = s /\ At(s, "committing") /\ Key(s) = k /\ Period(s) = n
      BY <1>7, <2>1 DEF Locks, Locked
    <2>3. call'[s] = call[s]
      BY <1>2, <2>1, <2>2 DEF Turn
    <2> QED
      BY <2>1, <2>2, <2>3 DEF At, Key, Period
  <1>8. \A s \in Clients : call'[s].stage = "inserting" => 0 < Limit
    BY <1>2 DEF Locks, At, Turn
  <1>9. Locks'
    BY <1>6, <1>7, <1>8 DEF Locks, Locked, At, Key, Period, Taken
  <1>10. ASSUME NEW k \in Keys, NEW f \in Forms, NEW n \in Periods
         PROVE  used'[k][f][n] <= Limit /\ (used'[k][f][n] > 0 => <<k, f, n>> \in counters')
    <2>1. used[k][f][n] \in Nat /\ Limit \in Nat
      BY <1>0, UsedIsNat, PgAssumption
    <2>2. used[k][f][n] <= Limit /\ (used[k][f][n] > 0 => <<k, f, n>> \in counters)
      BY DEF WithinLimit
    <2>3. CASE k = Key(r) /\ f = "hash" /\ n = Period(r)
      BY <1>1, <1>5, <2>1, <2>2, <2>3
    <2>4. CASE ~(k = Key(r) /\ f = "hash" /\ n = Period(r))
      BY <1>5, <2>2, <2>4
    <2> QED
      BY <2>3, <2>4
  <1> QED
    BY <1>9, <1>10 DEF WithinLimit

\* Counters move to an id that has none for the periods moved.
LEMMA RenameWithin ==
    ASSUME TablesOK, TablesOK', WithinLimit, NEW k \in Keys, NEW f \in Forms, NEW to \in Keys,
           Rename(k, f, to), k # to \/ f # "hash",
           \A n \in Periods : <<k, f, n>> \in counters => <<to, "hash", n>> \notin counters
    PROVE  /\ WithinLimit'
           /\ \A n \in Periods, j \in Keys :
                 \/ used'[j]["hash"][n] <= used[j]["hash"][n]
                 \/ j = to /\ <<k, f, n>> \in counters
  <1>0. "hash" \in Forms /\ Limit \in Nat
    BY PgAssumption DEF Forms
  <1>1. ASSUME NEW n \in Periods
        PROVE  /\ used[to]["hash"][n] = 0 \/ used[k][f][n] = 0
               /\ <<k, f, n>> \notin counters => used[k][f][n] = 0
    <2>1. used[to]["hash"][n] \in Nat /\ used[k][f][n] \in Nat
      BY <1>0, UsedIsNat
    <2>2. /\ used[to]["hash"][n] > 0 => <<to, "hash", n>> \in counters
          /\ used[k][f][n] > 0 => <<k, f, n>> \in counters
      BY <1>0 DEF WithinLimit
    <2> QED
      BY <2>1, <2>2
  <1>2. ASSUME NEW n \in Periods
        PROVE  /\ <<k, f, n>> \in counters => <<to, "hash", n>> \in counters'
               /\ \A j \in Keys, g \in Forms : <<j, g, n>> \in counters /\ ~(j = k /\ g = f) => <<j, g, n>> \in counters'
    <2>1. \A x \in counters : x[1] # k \/ x[2] # f => x \in counters'
      BY DEF Rename
    <2>2. \A x \in counters : x[1] = k /\ x[2] = f => <<to, "hash", x[3]>> \in counters'
      BY DEF Rename
    <2>3. <<k, f, n>>[1] = k /\ <<k, f, n>>[2] = f /\ <<k, f, n>>[3] = n
      OBVIOUS
    <2>4. <<k, f, n>> \in counters => <<to, "hash", n>> \in counters'
      BY <2>2, <2>3
    <2>5. ASSUME NEW j \in Keys, NEW g \in Forms, <<j, g, n>> \in counters, ~(j = k /\ g = f)
          PROVE  <<j, g, n>> \in counters'
      <3>1. <<j, g, n>>[1] = j /\ <<j, g, n>>[2] = g
        OBVIOUS
      <3> QED
        BY <2>1, <2>5, <3>1
    <2> QED
      BY <2>4, <2>5
  <1>3. ASSUME NEW n \in Periods, NEW j \in Keys, NEW g \in Forms
        PROVE  /\ used'[j][g][n] <= Limit
               /\ used'[j][g][n] > 0 => <<j, g, n>> \in counters'
               /\ g = "hash" => \/ used'[j][g][n] <= used[j][g][n]
                                \/ j = to /\ <<k, f, n>> \in counters
    <2>0. /\ used[j][g][n] \in Nat /\ used[j][g][n] <= Limit
          /\ used[k][f][n] \in Nat /\ used[k][f][n] <= Limit
          /\ used[j][g][n] > 0 => <<j, g, n>> \in counters
      BY UsedIsNat DEF WithinLimit
    <2>1. CASE j = to /\ g = "hash"
      <3>1. used'[j][g][n] = used[j][g][n] + used[k][f][n]
        BY <2>1, RenameIs
      <3>2. used[j][g][n] = 0 \/ used[k][f][n] = 0
        BY <1>1, <2>1
      <3>3. <<k, f, n>> \notin counters => used[k][f][n] = 0
        BY <1>1
      <3>4. <<k, f, n>> \in counters => <<j, g, n>> \in counters'
        BY <1>2, <2>1
      <3>5. <<j, g, n>> \in counters => <<j, g, n>> \in counters'
        BY <1>2, <2>1
      <3> QED
        BY <1>0, <2>0, <2>1, <3>1, <3>2, <3>3, <3>4, <3>5
    <2>2. CASE j = k /\ g = f
      <3>1. used'[j][g][n] = 0
        BY <2>2, RenameIs
      <3> QED
        BY <1>0, <2>0, <3>1
    <2>3. CASE ~(j = to /\ g = "hash") /\ ~(j = k /\ g = f)
      <3>1. used'[j][g][n] = used[j][g][n]
        BY <2>3, RenameIs
      <3>2. <<j, g, n>> \in counters => <<j, g, n>> \in counters'
        BY <1>2, <2>3
      <3> QED
        BY <2>0, <3>1, <3>2
    <2> QED
      BY <2>1, <2>2, <2>3
  <1> QED
    BY <1>0, <1>3 DEF WithinLimit

\* The move of the usage to the hashed key takes a row that is free, with at
\* most the limit on it.
LEMMA MoveLocks ==
    ASSUME Typed, Typed', Locks, WithinLimit, NEW r \in Clients, MoveUsage(r)
    PROVE  Locks' /\ WithinLimit'
  <1>0. /\ CallsOK /\ TablesOK /\ TablesOK' /\ call[r].stage = "moving" /\ lock' = lock /\ Key(r) \in Keys
        /\ "plain" \in Forms /\ "hash" \in Forms /\ "plain" # "hash"
    BY BusyCall DEF Typed, MoveUsage, At, Forms
  <1>1. Turn(r) /\ call'[r].stage \notin {"committing", "inserting"}
    BY <1>0, GotoIs, ReturnIs DEF MoveUsage
  <1>2. CASE UNCHANGED <<counters, used>>
    <2>1. \A k \in Keys, n \in Periods : used'[k]["hash"][n] <= used[k]["hash"][n]
      BY <1>0, <1>2, UsedIsNat
    <2> QED
      BY <1>0, <1>1, <1>2, <2>1, LocksStay DEF WithinLimit
  <1>3. CASE /\ Rename(Key(r), "plain", Key(r))
             /\ \A n \in Periods : <<Key(r), "plain", n>> \in counters => <<Key(r), "hash", n>> \notin counters
    <2>1. /\ WithinLimit'
          /\ \A n \in Periods, j \in Keys :
                \/ used'[j]["hash"][n] <= used[j]["hash"][n]
                \/ j = Key(r) /\ <<Key(r), "plain", n>> \in counters
      BY <1>0, <1>3, RenameWithin
    <2>2. \A n \in Periods : <<Key(r), "plain", n>> \in counters => ~Locked(Key(r), n)
      BY <1>3 DEF MoveUsage
    <2>3. \A k \in Keys, n \in Periods : Locked(k, n) => used'[k]["hash"][n] <= used[k]["hash"][n]
      BY <2>1, <2>2
    <2> QED
      BY <1>0, <1>1, <2>1, <2>3, LocksStay
  <1> QED
    BY <1>2, <1>3 DEF MoveUsage

\* The move of the usage to the new key takes rows that are free to a key that
\* has none.
LEMMA RekeyLocks ==
    ASSUME Typed, Typed', FreshKeys, Locks, WithinLimit, NEW r \in Clients, RekeyUsage(r)
    PROVE  Locks' /\ WithinLimit'
  <1>0. /\ CallsOK /\ TablesOK /\ TablesOK' /\ call[r].stage = "rekeying" /\ lock' = lock
        /\ Key(r) \in Keys /\ call[r].new \in Keys /\ "hash" \in Forms
    BY BusyCall DEF Typed, RekeyUsage, At, Forms, RotateStages
  <1>1. Turn(r) /\ call'[r].stage \notin {"committing", "inserting"}
    BY <1>0, GotoIs DEF RekeyUsage
  <1>2. /\ call[r].new \notin known /\ Key(r) \in known
        /\ \A x \in counters : x[1] # call[r].new
    BY <1>0 DEF FreshKeys, RotateStages, At, Without
  <1>3. \A n \in Periods : <<call[r].new, "hash", n>> \notin counters
    BY <1>2
  <1>4. /\ WithinLimit'
        /\ \A n \in Periods, j \in Keys :
              \/ used'[j]["hash"][n] <= used[j]["hash"][n]
              \/ j = call[r].new /\ <<Key(r), "hash", n>> \in counters
    BY <1>0, <1>2, <1>3, RenameWithin DEF RekeyUsage
  <1>5. \A n \in Periods : ~Locked(call[r].new, n)
    BY <1>0, <1>2 DEF Locks, FreshKeys, At
  <1>6. \A k \in Keys, n \in Periods : Locked(k, n) => used'[k]["hash"][n] <= used[k]["hash"][n]
    BY <1>4, <1>5
  <1> QED
    BY <1>0, <1>1, <1>4, <1>6, LocksStay

\* A release waits for the row and takes from it.
LEMMA ReleaseLocks ==
    ASSUME Typed, Typed', Locks, WithinLimit, NEW r \in Clients, Releasing(r), Released(r),
           Return(r) \/ Goes(r, "unwinding"), UNCHANGED <<lock, counters>>
    PROVE  Locks' /\ WithinLimit'
  <1>0. /\ CallsOK /\ TablesOK /\ call[r].stage # "committing" /\ ~At(r, "idle") /\ "hash" \in Forms
        /\ used \in Table
    BY DEF Typed, Releasing, At, Forms, TablesOK
  <1>b. Key(r) \in Keys /\ Period(r) \in Periods
    BY <1>0, BusyCall
  <1>1. Turn(r) /\ call'[r].stage \notin {"committing", "inserting"}
    BY <1>0, ReturnIs, GoesIs
  <1>2. ASSUME NEW k \in Keys, NEW f \in Forms, NEW n \in Periods
        PROVE  used'[k][f][n] <= used[k][f][n] /\ used'[k][f][n] \in Nat /\ used[k][f][n] \in Nat
    <2>1. used[k][f][n] \in Nat
      BY <1>0, UsedIsNat
    <2>2. CASE k = Key(r) /\ f = "hash" /\ n = Period(r)
      <3>1. used'[k][f][n] = IF used[k][f][n] > 0 THEN used[k][f][n] - 1 ELSE 0
        BY <1>0, <1>b, <2>2 DEF Released, Table
      <3> QED
        BY <2>1, <3>1
    <2>3. CASE ~(k = Key(r) /\ f = "hash" /\ n = Period(r))
      <3>1. used'[k][f][n] = used[k][f][n]
        BY <1>0, <1>b, <2>3 DEF Released, Table
      <3> QED
        BY <2>1, <3>1
    <2> QED
      BY <2>2, <2>3
  <1>3. Locks'
    BY <1>0, <1>1, <1>2, LocksStay
  <1>4. ASSUME NEW k \in Keys, NEW f \in Forms, NEW n \in Periods
        PROVE  used'[k][f][n] <= Limit /\ (used'[k][f][n] > 0 => <<k, f, n>> \in counters')
    <2>1. used[k][f][n] <= Limit /\ (used[k][f][n] > 0 => <<k, f, n>> \in counters)
      BY DEF WithinLimit
    <2>2. Limit \in Nat
      BY PgAssumption
    <2> QED
      BY <1>0, <1>2, <2>1, <2>2
  <1> QED
    BY <1>3, <1>4 DEF WithinLimit

\* Every step keeps rows with those about to commit, and every counter within
\* the limit.
LEMMA NextLocks ==
    Typed /\ Typed' /\ FreshKeys /\ Locks /\ WithinLimit /\ [Next]_vars => Locks' /\ WithinLimit'
  <1> SUFFICES ASSUME Typed, Typed', FreshKeys, Locks, WithinLimit, [Next]_vars
               PROVE  Locks' /\ WithinLimit'
    OBVIOUS
  <1>0. CallsOK /\ TablesOK /\ "hash" \in Forms
    BY DEF Typed, Forms
  <1>1. ASSUME UNCHANGED <<counters, used>>
        PROVE  WithinLimit' /\ \A k \in Keys, n \in Periods : used'[k]["hash"][n] <= used[k]["hash"][n]
    BY <1>0, <1>1, UsedIsNat DEF WithinLimit
  <1>2. ASSUME NEW r \in Clients, Turn(r), call[r].stage # "committing", UNCHANGED <<counters, used, lock>>,
               call'[r].stage \notin {"committing", "inserting"}
        PROVE  Locks' /\ WithinLimit'
    BY <1>1, <1>2, LocksStay
  <1>3. ASSUME UNCHANGED <<counters, used, lock, call>>
        PROVE  Locks' /\ WithinLimit'
    BY <1>1, <1>3 DEF Locks, Locked, At, Key, Period, Taken
  <1>4. ASSUME NEW r \in Clients,
               \/ SelectHashed(r) \/ SelectPlain(r) \/ CopyRow(r) \/ DropPlain(r)
               \/ SelectTx(r) \/ InsertTx(r) \/ NoteFailed(r)
               \/ DeleteHashed(r) \/ DeletePlain(r) \/ DeleteOld(r) \/ ListNew(r) \/ QueryFails(r)
               \/ \E ok \in BOOLEAN : Submit(r, ok) \/ NotePending(r, ok)
        PROVE  Locks' /\ WithinLimit'
    <2>1. UNCHANGED <<counters, used, lock>> /\ call[r].stage # "committing"
      BY <1>4 DEF SelectHashed, SelectPlain, CopyRow, DropPlain, SelectTx, InsertTx, NoteFailed, Submit, NotePending,
                  DeleteHashed, DeletePlain, DeleteOld, ListNew, QueryFails, At, tables
    <2>2. QueryFails(r) => Return(r) \/ \E stage \in Stages \ {"committing", "inserting"} : Goes(r, stage)
      BY FailGoes
    <2>3. ASSUME ~QueryFails(r)
          PROVE  Return(r) \/ \E stage \in Stages \ {"committing", "inserting"} : Goes(r, stage)
      BY <1>4, <2>3 DEF SelectHashed, SelectPlain, CopyRow, DropPlain, SelectTx, InsertTx, NoteFailed, NotePending,
                  Submit, DeleteHashed, DeletePlain, DeleteOld, ListNew, At, Stages, Goes
    <2>4. Turn(r) /\ call'[r].stage \notin {"committing", "inserting"}
      <3>1. Return(r) \/ \E stage \in Stages \ {"committing", "inserting"} : Goes(r, stage)
        BY <2>2, <2>3
      <3> QED
        BY <1>0, <3>1, GoesIs, ReturnIs
    <2> QED
      BY <1>2, <2>1, <2>4
  <1>5. ASSUME NEW r \in Clients, NEW n \in Periods, Connect(r, n)
        PROVE  Locks' /\ WithinLimit'
    <2>1. Turn(r) /\ call'[r].stage = "selecting" /\ call[r].stage = "connecting"
      BY <1>0, <1>5, ConnectIs DEF At
    <2>2. UNCHANGED <<counters, used, lock>>
      BY <1>5 DEF Connect, tables
    <2> QED
      BY <1>2, <2>1, <2>2
  <1>6. ASSUME NEW r \in Clients, NEW new \in Keys, IssueKey(r, new)
        PROVE  Locks' /\ WithinLimit'
    <2>1. Turn(r) /\ call'[r].stage = "rekeying" /\ call[r].stage = "issuing"
      BY <1>0, <1>6, IssueKeyIs DEF At
    <2>2. UNCHANGED <<counters, used, lock>>
      BY <1>6 DEF IssueKey
    <2> QED
      BY <1>2, <2>1, <2>2
  <1>7. ASSUME NEW r \in Clients, SelectForUpdate(r) \/ InsertCounter(r)
        PROVE  Locks' /\ WithinLimit'
    <2>1. UNCHANGED <<counters, used>>
      BY <1>7 DEF SelectForUpdate, InsertCounter
    <2> QED
      BY <1>1, <1>7, <2>1, SelectLocks, InsertLocks
  <1>8. ASSUME NEW r \in Clients, Serve(r)
        PROVE  Locks' /\ WithinLimit'
    <2>1. ASSUME NEW ok \in BOOLEAN, NEW applied \in BOOLEAN, Commit(r, ok, applied)
          PROVE  Locks' /\ WithinLimit'
      BY <2>1, CommitLocks
    <2>2. CASE MoveUsage(r) \/ RekeyUsage(r)
      BY <2>2, MoveLocks, RekeyLocks
    <2>3. CASE Release(r)
      BY <2>3, ReleaseLocks DEF Release
    <2> QED
      BY <1>4, <1>5, <1>6, <1>7, <1>8, <2>1, <2>2, <2>3 DEF Serve
  <1>9. ASSUME NEW r \in Clients, NEW c, c.stage \in {"lookup", "deleting", "issuing"}, Begin(r, c)
        PROVE  Locks' /\ WithinLimit'
    <2>1. Turn(r) /\ call'[r] = c /\ call[r].stage = "idle" /\ UNCHANGED <<counters, used, lock>>
      BY <1>0, <1>9, BeginIs DEF tables, At
    <2> QED
      BY <1>2, <1>9, <2>1
  <1>10. ASSUME NEW r \in Clients,
                \/ \E k \in Keys, t \in Txs : Request(r, k, t)
                \/ \E k \in Keys, f \in Forms : AdminDelete(r, k, f)
                \/ Rotate(r)
         PROVE  Locks' /\ WithinLimit'
    BY <1>9, <1>10, NewCall
  <1>11. ASSUME NEW r \in Clients, NEW applied \in BOOLEAN, ReleaseFails(r, applied)
         PROVE  Locks' /\ WithinLimit'
    <2>1. /\ Releasing(r) /\ call[r].stage # "committing" /\ UNCHANGED <<counters, lock>>
          /\ applied => Released(r)
          /\ ~applied => used' = used
      BY <1>11 DEF ReleaseFails, Releasing
    <2>2. Return(r) \/ Goes(r, "unwinding")
      BY <1>11 DEF ReleaseFails, Goes
    <2>3. Turn(r) /\ call'[r].stage \notin {"committing", "inserting"}
      BY <1>0, <2>2, GoesIs, ReturnIs
    <2> QED
      BY <1>2, <2>1, <2>2, <2>3, ReleaseLocks
  <1>13. CASE RunScript \/ CopyKey \/ \E t \in Txs : CopyTx(t)
    BY <1>3, <1>13 DEF RunScript, CopyKey, CopyTx, tables
  <1>14. CASE Crash
    <2>1. UNCHANGED <<counters, used>>
      BY <1>14 DEF Crash
    <2>2. Locks'
      BY <1>14 DEF Crash, Locks, Locked, At, Idle
    <2> QED
      BY <1>1, <2>1, <2>2
  <1>15. CASE UNCHANGED vars
    BY <1>3, <1>15 DEF vars, tables
  <1> QED
    BY <1>4, <1>8, <1>10, <1>11, <1>13, <1>14, <1>15 DEF Next

\* As many cells of a period are in use as there are counters of it.
LEMMA CountersAreCells ==
    ASSUME TablesOK, NEW n \in Periods
    PROVE  LET T == {w \in Cells : <<w[1], w[2], n>> \in counters}
           IN  Cardinality(T) \in Nat /\ Cardinality(CountersOf(n)) = Cardinality(T)
  <1> DEFINE T == {w \in Cells : <<w[1], w[2], n>> \in counters}
             h == [w \in T |-> <<w[1], w[2], n>>]
  <1>1. IsFiniteSet(T) /\ Cardinality(T) \in Nat
    <2>1. T \subseteq Cells
      OBVIOUS
    <2> HIDE DEF T
    <2> QED
      BY <2>1, Finite, FS_Subset, FS_CardinalityType
  <1>2. \A w \in T : h[w] \in CountersOf(n)
    BY DEF CountersOf
  <1>3. ASSUME NEW x \in CountersOf(n)
        PROVE  \E w \in T : h[w] = x
    <2>1. x \in counters /\ x[3] = n /\ x \in Keys \X Forms \X Periods
      BY DEF CountersOf, TablesOK
    <2>2. x = <<x[1], x[2], n>> /\ <<x[1], x[2]>> \in Cells
      BY <2>1 DEF Cells
    <2>3. <<x[1], x[2]>> \in T
      BY <2>1, <2>2
    <2> QED
      BY <2>2, <2>3
  <1>4. \A v, w \in T : h[v] = h[w] => v = w
    BY DEF Cells
  <1>5. h \in Surjection(T, CountersOf(n)) /\ h \in Injection(T, CountersOf(n))
    <2>1. h \in [T -> CountersOf(n)]
      BY <1>2
    <2> HIDE DEF h, T
    <2> QED
      BY <1>3, <1>4, <2>1 DEF Surjection, Injection, IsInjective
  <1>6. Cardinality(CountersOf(n)) = Cardinality(T)
    <2> HIDE DEF h, T
    <2> QED
      BY <1>1, <1>5, FS_Surjection
  <1> QED
    BY <1>1, <1>6

\* What is due is counted, but for what was given back wrongly, and each
\* counter is within the limit: so what is due is within the limits together
\* and that.
LEMMA LimitHolds ==
    ASSUME Typed, Balanced, WithinLimit
    PROVE  LimitPerCounter
  <1> SUFFICES ASSUME NEW n \in Periods
               PROVE  Due(n) <= Limit * Cardinality(CountersOf(n)) + uncounted[n]
    BY DEF LimitPerCounter
  <1> DEFINE T == {w \in Cells : <<w[1], w[2], n>> \in counters}
  <1>0. TablesOK /\ CallsOK /\ Limit \in Nat
    BY PgAssumption DEF Typed
  <1>1. Cardinality(T) \in Nat /\ Cardinality(CountersOf(n)) = Cardinality(T)
    BY <1>0, CountersAreCells
  <1>2. /\ Counts(n) \in [Cells -> Nat]
        /\ \A w \in Cells : Counts(n)[w] = used[w[1]][w[2]][n] /\ w[1] \in Keys /\ w[2] \in Forms
    BY <1>0, CountsType DEF Counts, Cells
  <1>3. \A w \in Cells : Counts(n)[w] <= Limit
    BY <1>2 DEF WithinLimit
  <1>4. \A w \in Cells \ T : Counts(n)[w] = 0
    <2> SUFFICES ASSUME NEW w \in Cells, w \notin T
                 PROVE  Counts(n)[w] = 0
      OBVIOUS
    <2>1. ~(used[w[1]][w[2]][n] > 0) /\ used[w[1]][w[2]][n] \in Nat
      BY <1>0, <1>2, UsedIsNat DEF WithinLimit
    <2> QED
      BY <1>2, <2>1
  <1>5. T \in SUBSET Cells
    OBVIOUS
  <1> HIDE DEF T
  <1>6. Total(Counts(n)) <= Cardinality(T) * Limit
    BY <1>0, <1>2, <1>3, <1>4, <1>5, Finite, TotalBound
  <1>7. Cardinality(T) * Limit = Limit * Cardinality(T) /\ Limit * Cardinality(T) \in Nat
    BY <1>0, <1>1
  <1>8. Due(n) <= Counted(n) + uncounted[n] /\ Counted(n) \in Nat /\ uncounted[n] \in Nat
    BY <1>0, CountsType DEF Balanced, Typed, GhostsOK
  <1>9. Due(n) \in Nat
    BY HoldingIs, ChargesType DEF Due, Typed
  <1>10. Counted(n) = Total(Counts(n))
    BY DEF Counted
  <1> QED
    BY <1>1, <1>6, <1>7, <1>8, <1>9, <1>10

\* No counter passes the limit: over any run of requests, moves and rotations
\* a user is charged at most the limit for each counter there is, and what was
\* given back wrongly, which EverySlotCounted bounds by the queries that failed.
THEOREM LimitForEachCounter == Spec => []LimitPerCounter
  <1> DEFINE Inv == Typed /\ FreshKeys /\ Balanced /\ Locks /\ WithinLimit
  <1>1. Init => Inv
    BY InitTyped, InitFresh, InitBalance, InitLocks
  <1>2. Inv /\ [Next]_vars => Inv'
    BY NextTyped, NextFresh, NextBalance, NextLocks
  <1>3. Inv => LimitPerCounter
    BY LimitHolds
  <1> HIDE DEF Inv
  <1> QED
    BY <1>1, <1>2, <1>3, PTL DEF Spec

-----------------------------------------------------------------------------
(***************************************************************************)
(* One at a time.  While nothing has overlapped, one request is in         *)
(* progress at most, the listed key is the only one that is known and not  *)
(* revoked, and the counters are with it, or with the key that a rotation  *)
(* is about to list.                                                       *)
(***************************************************************************)
Moved == {"deleting_old", "listing"}

InTurn ==
    /\ \A r, s \in Clients : ~At(r, "idle") /\ ~At(s, "idle") => r = s
    /\ Busy => script = {}
    /\ known \ revoked \subseteq {listed}
    /\ listed \notin revoked => rows[listed] # {}
    /\ \A r \in Clients :
          /\ At(r, "dropping") => "hash" \in rows[Key(r)]
          /\ call[r].stage \in RotateStages \cup {"issuing"} => Key(r) = listed
          /\ At(r, "listing") => listed \in revoked
    /\ \A k \in Keys \ revoked, n \in Periods : <<k, "hash", n>> \in counters =>
          \/ k = listed /\ \A r \in Clients : call[r].stage \notin Moved
          \/ \E r \in Clients : call[r].stage \in Moved /\ call[r].new = k

InTurnAlone == ~overlap => InTurn

\* At the start the one key is listed and has its row.
LEMMA InitInTurn == Init => InTurnAlone
  <1> SUFFICES ASSUME Init
               PROVE  InTurn
    BY DEF InTurnAlone
  <1>1. \A r \in Clients : call[r].stage = "idle"
    BY DEF Init, Idle
  <1>2. \A x \in counters : x[1] = FirstKey
    BY DEF Init
  <1>3. \A k, n : <<k, "hash", n>> \in counters => k = FirstKey
    BY <1>2
  <1>4. known = {FirstKey} /\ listed = FirstKey /\ script = {} /\ rows[FirstKey] = {StoredAs}
    BY PgAssumption DEF Init
  <1> QED
    BY <1>1, <1>3, <1>4 DEF InTurn, At, RotateStages, Moved

\* The counters, seen from the only request in progress.
LEMMA WhereCounters ==
    ASSUME InTurn, NEW r \in Clients, ~At(r, "idle")
    PROVE  /\ \A s \in Clients \ {r} : call[s].stage = "idle"
           /\ script = {}
           /\ \A k \in Keys \ revoked, n \in Periods : <<k, "hash", n>> \in counters =>
                 IF call[r].stage \in Moved THEN call[r].new = k ELSE k = listed
  <1>1. \A s \in Clients \ {r} : call[s].stage = "idle"
    BY DEF InTurn, At
  <1>2. script = {}
    BY DEF InTurn, Busy
  <1> QED
    BY <1>1, <1>2 DEF InTurn, Moved

\* A step of the only request in progress.
LEMMA TurnTaken ==
    ASSUME InTurn, NEW r \in Clients, ~At(r, "idle"), Turn(r), script' = script,
           known' \ revoked' \subseteq {listed'},
           listed' \notin revoked' => rows'[listed'] # {},
           call'[r].stage = "dropping" => "hash" \in rows'[call'[r].key],
           call'[r].stage \in RotateStages \cup {"issuing"} => call'[r].key = listed',
           call'[r].stage = "listing" => listed' \in revoked',
           \A k \in Keys \ revoked', n \in Periods : <<k, "hash", n>> \in counters' =>
              IF call'[r].stage \in Moved THEN call'[r].new = k ELSE k = listed'
    PROVE  InTurn'
  <1>1. (\A s \in Clients \ {r} : call'[s].stage = "idle") /\ script' = {}
    BY WhereCounters DEF Turn
  <1>2. \A s \in Clients : call'[s].stage # "idle" => s = r
    BY <1>1
  <1>3. \A s \in Clients : call'[s].stage \in Moved \cup RotateStages \cup {"dropping", "listing", "issuing"} => s = r
    BY <1>2 DEF Moved, RotateStages
  <1>4. \A k \in Keys \ revoked', n \in Periods : <<k, "hash", n>> \in counters' =>
           \/ k = listed' /\ \A s \in Clients : call'[s].stage \notin Moved
           \/ \E s \in Clients : call'[s].stage \in Moved /\ call'[s].new = k
    BY <1>3
  <1>5. \A s \in Clients :
           /\ call'[s].stage = "dropping" => "hash" \in rows'[call'[s].key]
           /\ call'[s].stage \in RotateStages \cup {"issuing"} => call'[s].key = listed'
           /\ call'[s].stage = "listing" => listed' \in revoked'
    BY <1>3
  <1> QED
    BY <1>1, <1>2, <1>4, <1>5 DEF InTurn, Busy, At, Key

\* A request that looks a key up, reserves or releases a slot.  A counter it
\* adds is one of its own key.
LEMMA AskInTurn ==
    ASSUME Typed, FreshKeys, InTurn, NEW r \in Clients,
           \/ SelectHashed(r) \/ SelectPlain(r) \/ MoveUsage(r)
           \/ SelectForUpdate(r) \/ InsertCounter(r) \/ SelectTx(r) \/ InsertTx(r)
           \/ NoteFailed(r) \/ Release(r)
           \/ (\E ok \in BOOLEAN : Submit(r, ok) \/ NotePending(r, ok) \/ \E applied \in BOOLEAN : Commit(r, ok, applied))
           \/ \E n \in Periods : Connect(r, n)
    PROVE  InTurn'
  <1>0. CallsOK
    BY DEF Typed
  <1>1. call[r].stage \in AskStages /\ UNCHANGED <<rows, listed, known, script, revoked>>
    BY DEF SelectHashed, SelectPlain, MoveUsage, SelectForUpdate, InsertCounter, SelectTx, InsertTx, Release, Releasing,
           Submit, NotePending, NoteFailed, Commit, Connect, At, AskStages, tables, ghosts
  <1>2. /\ ~At(r, "idle") /\ call[r].stage \notin Moved
    BY <1>1 DEF AskStages, At, Moved
  <1>3. Turn(r) /\ call'[r].stage \notin RotateStages \cup {"issuing", "dropping"}
    <2>1. CASE \E n \in Periods : Connect(r, n)
      BY <1>0, <2>1, ConnectIs DEF RotateStages
    <2>2. CASE Return(r) \/ \E stage \in AskStages \ {"dropping"} : Goes(r, stage)
      BY <1>0, <2>2, GoesIs, ReturnIs DEF AskStages, RotateStages
    <2> QED
      BY <2>1, <2>2 DEF SelectHashed, SelectPlain, MoveUsage, SelectForUpdate, InsertCounter, SelectTx, InsertTx,
                        Release, Submit, Commit, NotePending, NoteFailed, AskStages, Goes
  <1>4. \A x \in counters' : x \in counters \/ x[1] = Key(r)
    <2>1. CASE MoveUsage(r) \/ \E ok, applied \in BOOLEAN : Commit(r, ok, applied)
      <3>1. CASE MoveUsage(r)
        BY <3>1 DEF MoveUsage, Rename
      <3>2. CASE \E ok, applied \in BOOLEAN : Commit(r, ok, applied)
        <4>1. counters' = counters \/ counters' = counters \cup {<<Key(r), "hash", Period(r)>>}
          BY <3>2 DEF Commit, Committed, Counter
        <4> QED
          BY <4>1
      <3> QED
        BY <2>1, <3>1, <3>2
    <2>2. CASE ~(MoveUsage(r) \/ \E ok, applied \in BOOLEAN : Commit(r, ok, applied))
      <3>1. counters' = counters
        BY <2>2 DEF SelectHashed, SelectPlain, SelectForUpdate, InsertCounter, SelectTx, InsertTx, Release,
                    Submit, NotePending, NoteFailed, Connect, tables
      <3> QED
        BY <3>1
    <2> QED
      BY <2>1, <2>2
  <1>5. Key(r) \in known /\ known \ revoked \subseteq {listed}
    BY <1>2 DEF FreshKeys, InTurn
  <1>6. ASSUME NEW k \in Keys \ revoked, NEW n \in Periods, <<k, "hash", n>> \in counters'
        PROVE  k = listed
    <2>1. CASE <<k, "hash", n>> \in counters
      BY <1>2, <2>1, WhereCounters
    <2>2. CASE k = Key(r)
      BY <1>5, <2>2
    <2> QED
      BY <1>4, <1>6, <2>1, <2>2
  <1>7. call'[r].stage \notin Moved
    BY <1>3 DEF Moved, RotateStages
  <1>8. listed \notin revoked => rows[listed] # {}
    BY DEF InTurn
  <1> QED
    BY <1>1, <1>2, <1>3, <1>5, <1>6, <1>7, <1>8, TurnTaken DEF RotateStages

\* A lazy move keeps the listed key's row; a deletion takes it with the key
\* revoked.
LEMMA RowsInTurn ==
    ASSUME Typed, FreshKeys, InTurn, NEW r \in Clients,
           CopyRow(r) \/ DropPlain(r) \/ DeleteHashed(r) \/ DeletePlain(r)
    PROVE  InTurn'
  <1>0. /\ CallsOK /\ rows \in [Keys -> SUBSET Forms] /\ UNCHANGED <<counters, listed, known, script>>
        /\ Key(r) \in Keys /\ listed \in Keys
    BY BusyCall DEF Typed, TablesOK, UsersOK, CopyRow, DropPlain, DeleteHashed, DeletePlain, At
  <1>1. ~At(r, "idle") /\ call[r].stage \notin Moved
    BY DEF CopyRow, DropPlain, DeleteHashed, DeletePlain, At, Moved
  <1>2. Turn(r) /\ call'[r].stage \in {"idle", "dropping", "moving", "deleting_plain"}
    BY <1>0, GotoIs, ReturnIs DEF CopyRow, DropPlain, DeleteHashed, DeletePlain
  <1>3. call'[r].stage \notin RotateStages \cup {"issuing"} \cup Moved
    BY <1>2 DEF RotateStages, Moved
  <1>4. revoked \subseteq revoked'
    BY DEF CopyRow, DropPlain, DeleteHashed, DeletePlain, Remove, ghosts
  <1>5. known' \ revoked' \subseteq {listed'}
    BY <1>0, <1>4 DEF InTurn
  <1>6. \A k \in Keys \ revoked', n \in Periods : <<k, "hash", n>> \in counters' => k = listed'
    BY <1>0, <1>1, <1>4, WhereCounters
  <1>7. call'[r].stage = "dropping" => "hash" \in rows'[call'[r].key]
    <2>1. call'[r].stage = "dropping" => CopyRow(r)
      BY <1>0, <1>2, GotoIs, ReturnIs DEF CopyRow, DropPlain, DeleteHashed, DeletePlain
    <2>2. CopyRow(r) => "hash" \in rows'[Key(r)] /\ call'[r].key = Key(r)
      BY <1>0, GotoIs DEF CopyRow, Same, Key
    <2> QED
      BY <2>1, <2>2
  <1>8. listed' \notin revoked' => rows'[listed'] # {}
    <2> SUFFICES ASSUME listed \notin revoked'
                 PROVE  rows'[listed] # {}
      BY <1>0
    <2>1. rows[listed] # {}
      BY <1>4 DEF InTurn
    <2>2. CASE CopyRow(r)
      BY <1>0, <2>1, <2>2 DEF CopyRow
    <2>3. CASE DropPlain(r)
      <3>1. "hash" \in rows[Key(r)] /\ rows' = [rows EXCEPT ![Key(r)] = @ \ {"plain"}]
        BY <2>3 DEF InTurn, DropPlain
      <3>2. "hash" \in rows'[Key(r)]
        BY <1>0, <3>1
      <3>3. listed # Key(r) => rows'[listed] = rows[listed]
        BY <1>0, <3>1
      <3> QED
        BY <2>1, <3>2, <3>3
    <2>4. CASE DeleteHashed(r) \/ DeletePlain(r)
      <3>1. UNCHANGED rows \/ (\E f : rows' = [rows EXCEPT ![Key(r)] = @ \ {f}] /\ Key(r) \in revoked')
        BY <2>4 DEF DeleteHashed, DeletePlain, Remove
      <3>2. rows'[listed] = rows[listed]
        BY <1>0, <3>1
      <3> QED
        BY <2>1, <3>2
    <2> QED
      BY <2>2, <2>3, <2>4
  <1> QED
    BY <1>0, <1>1, <1>2, <1>3, <1>5, <1>6, <1>7, <1>8, TurnTaken

\* Each step of a rotation keeps the key in use where the stage says it is.
LEMMA RotateInTurn ==
    ASSUME Typed, FreshKeys, InTurn, NEW r \in Clients,
           \/ RekeyUsage(r) \/ DeleteOld(r) \/ ListNew(r)
           \/ \E new \in Keys : IssueKey(r, new)
    PROVE  InTurn'
  <1>0. CallsOK /\ rows \in [Keys -> SUBSET Forms] /\ listed \in Keys /\ script' = script
    BY DEF Typed, TablesOK, UsersOK, RekeyUsage, DeleteOld, ListNew, IssueKey
  <1>1. ~At(r, "idle") /\ call[r].stage \in RotateStages \cup {"issuing"}
    BY DEF RekeyUsage, DeleteOld, ListNew, IssueKey, At, RotateStages
  <1>2. Key(r) = listed /\ known \ revoked \subseteq {listed} /\ (listed \notin revoked => rows[listed] # {})
    BY <1>1 DEF InTurn
  <1>3. ASSUME NEW new \in Keys, IssueKey(r, new)
        PROVE  InTurn'
    <2>1. /\ Turn(r) /\ At(r, "issuing")
          /\ call'[r].stage = "rekeying" /\ call'[r].key = Key(r) /\ call'[r].new = new
      BY <1>0, <1>3, IssueKeyIs
    <2>2. /\ new # listed /\ rows' = [rows EXCEPT ![new] = {"hash"}]
          /\ UNCHANGED <<counters, listed, known, revoked>>
      BY <1>3 DEF IssueKey, Unissued, FreshKeys, ghosts
    <2>3. rows'[listed] = rows[listed]
      BY <1>0, <2>2
    <2>4. \A k \in Keys \ revoked, n \in Periods : <<k, "hash", n>> \in counters => k = listed
      BY <1>1, <2>1, WhereCounters DEF At, Moved
    <2> QED
      BY <1>0, <1>1, <1>2, <2>1, <2>2, <2>3, <2>4, TurnTaken DEF Moved
  <1>4. CASE RekeyUsage(r)
    <2>1. /\ Turn(r) /\ call[r].stage = "rekeying" /\ call'[r].stage = "deleting_old"
          /\ call'[r].key = Key(r) /\ call'[r].new = call[r].new
      BY <1>0, <1>4, GotoIs DEF RekeyUsage, Same, Key, At
    <2>2. UNCHANGED <<rows, listed, known, revoked>>
      BY <1>4 DEF RekeyUsage, ghosts
    <2>3. \A x \in counters' : (x \in counters /\ (x[1] # Key(r) \/ x[2] # "hash")) \/ x[1] = call[r].new
      BY <1>4 DEF RekeyUsage, Rename
    <2>4. ASSUME NEW k \in Keys \ revoked, NEW n \in Periods, <<k, "hash", n>> \in counters'
          PROVE  call[r].new = k
      <3>1. CASE <<k, "hash", n>> \in counters /\ k # Key(r)
        BY <1>1, <1>2, <2>1, <3>1, WhereCounters DEF Moved
      <3>2. CASE k = call[r].new
        BY <3>2
      <3> QED
        BY <2>3, <2>4, <3>1, <3>2
    <2> QED
      BY <1>0, <1>1, <1>2, <2>1, <2>2, <2>4, TurnTaken DEF Moved
  <1>5. CASE DeleteOld(r)
    <2>1. /\ Turn(r) /\ call[r].stage = "deleting_old" /\ call'[r].stage = "listing"
          /\ call'[r].key = Key(r) /\ call'[r].new = call[r].new
      BY <1>0, <1>5, GotoIs DEF DeleteOld, Same, Key, At
    <2>2. revoked' = revoked \cup {listed} /\ UNCHANGED <<counters, listed, known>>
      BY <1>2, <1>5 DEF DeleteOld, Remove
    <2>3. \A k \in Keys \ revoked', n \in Periods : <<k, "hash", n>> \in counters' => call[r].new = k
      BY <1>1, <2>1, <2>2, WhereCounters DEF Moved
    <2> QED
      BY <1>0, <1>1, <1>2, <2>1, <2>2, <2>3, TurnTaken DEF Moved
  <1>6. CASE ListNew(r)
    <2>1. Turn(r) /\ call[r].stage = "listing" /\ call'[r].stage = "idle"
      BY <1>0, <1>6, ReturnIs DEF ListNew, At
    <2>2. /\ listed' = call[r].new /\ known' = known \cup {call[r].new}
          /\ UNCHANGED <<rows, counters, revoked>>
      BY <1>6 DEF ListNew, tables, ghosts
    <2>3. listed \in revoked
      BY <2>1 DEF InTurn, At
    <2>4. "hash" \in rows[call[r].new]
      BY <2>1 DEF FreshKeys, RotateStages
    <2>5. \A k \in Keys \ revoked', n \in Periods : <<k, "hash", n>> \in counters' => k = listed'
      BY <1>1, <2>1, <2>2, WhereCounters DEF Moved
    <2>6. known' \ revoked' \subseteq {listed'}
      BY <1>2, <2>2, <2>3
    <2> QED
      BY <1>0, <1>1, <2>1, <2>2, <2>4, <2>5, <2>6, TurnTaken DEF Moved, RotateStages
  <1> QED
    BY <1>3, <1>4, <1>5, <1>6

\* While nothing overlaps, every step keeps rows, counters and list in turn.
LEMMA NextInTurn == Typed /\ FreshKeys /\ InTurnAlone /\ [Next]_vars => InTurnAlone'
  <1> SUFFICES ASSUME Typed, FreshKeys, InTurnAlone, [Next]_vars, ~overlap'
               PROVE  InTurn'
    BY DEF InTurnAlone
  <1>0. CallsOK /\ rows \in [Keys -> SUBSET Forms] /\ listed \in Keys /\ overlap \in BOOLEAN
    BY DEF Typed, TablesOK, UsersOK, GhostsOK
  <1>1. ASSUME NEW r \in Clients, QueryFails(r) \/ \E applied \in BOOLEAN : ReleaseFails(r, applied)
        PROVE  FALSE
    BY <1>1 DEF QueryFails, ReleaseFails, Fault
  <1>2. ASSUME NEW r \in Clients, Serve(r)
        PROVE  InTurn'
    <2>1. ~overlap
      <3>1. overlap' = overlap \/ overlap' = TRUE
        BY <1>2 DEF Serve, SelectHashed, SelectPlain, CopyRow, DropPlain, MoveUsage, SelectForUpdate,
                    InsertCounter, SelectTx, InsertTx, Release, DeleteHashed, DeletePlain, RekeyUsage,
                    DeleteOld, ListNew, Submit, NotePending, NoteFailed, Commit, Fault, Connect, IssueKey, ghosts
      <3> QED
        BY <3>1
    <2>2. InTurn
      BY <2>1 DEF InTurnAlone
    <2> QED
      BY <1>2, <2>2, AskInTurn, RowsInTurn, RotateInTurn DEF Serve
  <1>3. ASSUME NEW r \in Clients,
               \/ \E k \in Keys, t \in Txs : Request(r, k, t)
               \/ \E k \in Keys, f \in Forms : AdminDelete(r, k, f)
               \/ Rotate(r)
        PROVE  InTurn'
    <2>1. PICK c : /\ Begin(r, c)
                   /\ c.stage \in {"lookup", "deleting", "issuing"}
                   /\ IF c.stage = "issuing" THEN c.key = listed ELSE c.key \in known
      BY <1>3, NewCall
    <2>2. ~overlap /\ ~Busy /\ script = {}
      BY <2>1 DEF Begin
    <2>3. InTurn /\ \A s \in Clients : call[s].stage = "idle"
      BY <2>2 DEF InTurnAlone, Busy, At
    <2>4. Turn(r) /\ call'[r] = c /\ UNCHANGED <<rows, counters, listed, known, script, revoked>>
      BY <1>0, <2>1, BeginIs DEF tables
    <2>5. \A s \in Clients : call'[s].stage # "idle" => s = r
      BY <2>3, <2>4 DEF Turn
    <2>6. \A s \in Clients : call'[s].stage \notin Moved \cup RotateStages \cup {"dropping", "listing"}
      BY <2>1, <2>3, <2>4 DEF Turn, Moved, RotateStages
    <2>7. \A s \in Clients : call'[s].stage = "issuing" => call'[s].key = listed
      BY <2>1, <2>4, <2>5
    <2>8. \A k \in Keys \ revoked, n \in Periods : <<k, "hash", n>> \in counters => k = listed
      BY <2>3 DEF InTurn, Moved
    <2>9. known \ revoked \subseteq {listed} /\ (listed \notin revoked => rows[listed] # {})
      BY <2>3 DEF InTurn
    <2> QED
      BY <2>2, <2>4, <2>5, <2>6, <2>7, <2>8, <2>9 DEF InTurn, Busy, At, Key
  <1>4. ASSUME UNCHANGED <<counters, listed, known, call, revoked>>, InTurn,
               \A k \in Keys : rows[k] \subseteq rows'[k], Busy => script' = {}
        PROVE  InTurn'
    <2>1. \A r \in Clients : At(r, "dropping") => Key(r) \in Keys
      BY <1>0 DEF CallsOK, CallOK, At, Key
    <2> QED
      BY <1>0, <1>4, <2>1 DEF InTurn, Busy, At, Key
  <1>5. CASE RunScript
    <2>1. ~overlap /\ ~Busy
      BY <1>5 DEF RunScript
    <2>2. InTurn
      BY <2>1 DEF InTurnAlone
    <2> QED
      BY <1>4, <1>5, <2>1, <2>2 DEF RunScript, tables
  <1>6. ASSUME CopyKey \/ \E t \in Txs : CopyTx(t)
        PROVE  InTurn'
    <2>1. ~overlap /\ script # {} /\ UNCHANGED <<counters, listed, known, call, revoked>>
      BY <1>6 DEF CopyKey, CopyTx, ghosts
    <2>2. InTurn /\ ~Busy
      BY <2>1 DEF InTurnAlone, InTurn
    <2>3. \A k \in Keys : rows[k] \subseteq rows'[k]
      BY <1>0, <1>6 DEF CopyKey, CopyTx
    <2> QED
      BY <1>4, <2>1, <2>2, <2>3
  <1>7. CASE Crash
    BY <1>7 DEF Crash
  <1>8. CASE UNCHANGED vars
    <2>1. InTurn
      BY <1>8 DEF vars, ghosts, InTurnAlone
    <2>2. UNCHANGED <<counters, listed, known, call, revoked, rows, script>>
      BY <1>8 DEF vars, tables, ghosts
    <2>3. Busy => script' = {}
      BY <2>1, <2>2 DEF InTurn
    <2> QED
      BY <1>4, <2>1, <2>2, <2>3
  <1> QED
    BY <1>1, <1>2, <1>3, <1>5, <1>6, <1>7, <1>8 DEF Next

\* Rows and counters in turn make one counter of a period.
LEMMA OneCounterHolds == InTurnAlone => OneCounter
  <1> SUFFICES ASSUME InTurn, NEW n \in Periods
               PROVE  Cardinality({k \in Keys \ revoked : <<k, "hash", n>> \in counters}) <= 1
    BY DEF InTurnAlone, OneCounter
  <1> DEFINE K == {k \in Keys \ revoked : <<k, "hash", n>> \in counters}
  <1>1. \A j, k \in K : j = k
    <2>1. CASE \E r \in Clients : ~At(r, "idle")
      BY <2>1, WhereCounters
    <2>2. CASE \A r \in Clients : At(r, "idle")
      BY <2>2 DEF InTurn, At, Moved
    <2> QED
      BY <2>1, <2>2
  <1>2. \E x : K \subseteq {x}
    BY <1>1
  <1> HIDE DEF K
  <1>3. PICK x : K \subseteq {x}
    BY <1>2
  <1>4. IsFiniteSet({x}) /\ Cardinality({x}) = 1
    BY FS_Singleton
  <1>5. IsFiniteSet(K) /\ Cardinality(K) <= Cardinality({x})
    BY <1>3, <1>4, FS_Subset
  <1>6. Cardinality(K) \in Nat
    BY <1>5, FS_CardinalityType
  <1>7. Cardinality(K) <= 1
    BY <1>4, <1>5
  <1> QED
    BY <1>7 DEF K

\* Rows and list in turn make the listed key the one that works.
LEMMA ListedHolds == InTurnAlone => ListedKeyWorks
  BY DEF InTurnAlone, InTurn, ListedKeyWorks

\* As long as nothing overlaps, the quota of a user is one counter, through
\* any number of moves from plaintext to hash, rotations and deletions, and
\* runs of the script between them.
THEOREM OneCounterBetween == Spec => []OneCounter
  <1> DEFINE Inv == Typed /\ FreshKeys /\ InTurnAlone
  <1>1. Init => Inv
    BY InitTyped, InitFresh, InitInTurn
  <1>2. Inv /\ [Next]_vars => Inv'
    BY NextTyped, NextFresh, NextInTurn
  <1>3. Inv => OneCounter
    BY OneCounterHolds
  <1> HIDE DEF Inv
  <1> QED
    BY <1>1, <1>2, <1>3, PTL DEF Spec

\* As long as nothing overlaps, a key that the user has and has not lost is
\* the listed one, and it is accepted.
THEOREM ListedKeyAccepted == Spec => []ListedKeyWorks
  <1> DEFINE Inv == Typed /\ FreshKeys /\ InTurnAlone
  <1>1. Init => Inv
    BY InitTyped, InitFresh, InitInTurn
  <1>2. Inv /\ [Next]_vars => Inv'
    BY NextTyped, NextFresh, NextInTurn
  <1>3. Inv => ListedKeyWorks
    BY ListedHolds
  <1> HIDE DEF Inv
  <1> QED
    BY <1>1, <1>2, <1>3, PTL DEF Spec
-----------------------------------------------------------------------------
(***************************************************************************)
(* No standstill.  Only a request that is about to commit holds a row, and *)
(* it waits for nothing.  When none is, no row is held: a transaction goes *)
(* on with the connection it has, and without one the pool is free.        *)
(***************************************************************************)
\* What the next query of a request waits for: a connection, or the rows it
\* is to write.
Waits(r) ==
    \/ ~Query(r) /\ call[r].stage \notin {"committing", "submitting", "listing"}
    \/ /\ At(r, "moving")
       /\ \E n \in Periods : /\ <<Key(r), "plain", n>> \in counters /\ Locked(Key(r), n)
                             /\ <<Key(r), "hash", n>> \notin counters
    \/ /\ call[r].stage \in {"selecting", "releasing", "unwinding"}
       /\ Counter(r) \in counters /\ Locked(Key(r), Period(r))
    \/ At(r, "inserting") /\ Locked(Key(r), Period(r))
    \/ /\ At(r, "rekeying")
       /\ \E n \in Periods : <<Key(r), "hash", n>> \in counters /\ Locked(Key(r), n)
    \/ At(r, "issuing") /\ Unissued = {}

CanGoOn(r) == ~At(r, "idle") /\ ~Waits(r)

\* While a request is in progress, one of them waits for nothing.
SomeoneGoesOn == Busy => \E r \in Clients : CanGoOn(r)

\* The keys there are, for the rotations that were begun.
Issuing  == {r \in Clients : At(r, "issuing")}
RoomLeft == Cardinality(Issuing) <= Cardinality(Unissued)

\* The rotations that still have to issue a key, and the keys there are for
\* them, can be counted.
LEMMA RoomTypes ==
    /\ IsFiniteSet(Issuing) /\ IsFiniteSet(Unissued)
    /\ Cardinality(Issuing) \in Nat /\ Cardinality(Unissued) \in Nat
  <1>1. IsFiniteSet(Issuing) /\ IsFiniteSet(Unissued)
    BY Finite, FS_Subset DEF Issuing, Unissued
  <1> QED
    BY <1>1, FS_CardinalityType

\* The same after a step.
LEMMA RoomTypesNext ==
    /\ IsFiniteSet(Issuing') /\ IsFiniteSet(Unissued')
    /\ Cardinality(Issuing') \in Nat /\ Cardinality(Unissued') \in Nat
  <1>1. IsFiniteSet(Issuing') /\ IsFiniteSet(Unissued')
    BY Finite, FS_Subset DEF Issuing, Unissued
  <1> QED
    BY <1>1, FS_CardinalityType

\* With rows held only by those about to commit, some request in progress
\* waits for nothing.
LEMMA GoesOn ==
    ASSUME Typed, Locks, RoomLeft
    PROVE  SomeoneGoesOn
  <1> SUFFICES ASSUME NEW r \in Clients, ~At(r, "idle")
               PROVE  \E s \in Clients : CanGoOn(s)
    BY DEF SomeoneGoesOn, Busy
  <1>1. ASSUME NEW s \in Clients, At(s, "committing")
        PROVE  CanGoOn(s)
    BY <1>1 DEF CanGoOn, Waits, At
  <1>2. ASSUME \A s \in Clients : ~At(s, "committing"), NEW s \in Clients, ~At(s, "idle"), Query(s)
        PROVE  CanGoOn(s)
    <2>1. Key(s) \in Keys /\ Period(s) \in Periods
      BY <1>2, BusyCall
    <2>2. \A k \in Keys, n \in Periods : ~Locked(k, n)
      BY <1>2 DEF Locks
    <2>3. At(s, "issuing") => Unissued # {}
      <3>1. At(s, "issuing") => Issuing # {}
        BY DEF Issuing
      <3>2. Cardinality(Issuing) = 0 <=> Issuing = {}
        BY RoomTypes, FS_EmptySet
      <3>3. Cardinality(Unissued) = 0 <=> Unissued = {}
        BY RoomTypes, FS_EmptySet
      <3> QED
        BY <3>1, <3>2, <3>3, RoomTypes DEF RoomLeft
    <2> QED
      BY <1>2, <2>1, <2>2, <2>3 DEF CanGoOn, Waits
  <1>3. CASE \A s \in Clients : ~At(s, "committing")
    <2>1. CASE InTransaction # {}
      <3>1. PICK s \in Clients : s \in InTransaction
        BY <2>1 DEF InTransaction
      <3>2. ~At(s, "idle") /\ Query(s)
        BY <3>1 DEF InTransaction, At, Query
      <3> QED
        BY <1>2, <1>3, <3>2
    <2>2. CASE InTransaction = {}
      <3>1. FreeConnection
        BY <2>2, FS_EmptySet, PgAssumption DEF FreeConnection
      <3> QED
        BY <1>2, <1>3, <3>1 DEF Query
    <2> QED
      BY <2>1, <2>2
  <1> QED
    BY <1>1, <1>3

\* A call ends, or goes on with the new key it has; none begins a rotation.
KeepsNew ==
    \A s \in Clients : /\ call'[s].new \in {call[s].new, NoKey}
                       /\ call'[s].stage = "issuing" => call[s].stage = "issuing"

\* A query of a request does not make it a rotation that has still to issue
\* its key.
LEMMA StepKeepsNew ==
    ASSUME CallsOK, NEW r \in Clients,
           \/ SelectHashed(r) \/ SelectPlain(r) \/ CopyRow(r) \/ DropPlain(r) \/ MoveUsage(r)
           \/ SelectForUpdate(r) \/ InsertCounter(r)
           \/ SelectTx(r) \/ InsertTx(r) \/ NoteFailed(r) \/ Release(r)
           \/ DeleteHashed(r) \/ DeletePlain(r)
           \/ RekeyUsage(r) \/ DeleteOld(r) \/ ListNew(r)
           \/ QueryFails(r) \/ (\E applied \in BOOLEAN : ReleaseFails(r, applied))
           \/ (\E ok \in BOOLEAN : Submit(r, ok) \/ NotePending(r, ok) \/ \E applied \in BOOLEAN : Commit(r, ok, applied))
           \/ \E n \in Periods : Connect(r, n)
    PROVE  KeepsNew
  <1>0. CallsOK
    OBVIOUS
  <1>1. ASSUME NEW n \in Periods, Connect(r, n)
        PROVE  KeepsNew
    BY <1>1, ConnectIs DEF KeepsNew, Turn
  <1>2. CASE Return(r)
    <2>1. Turn(r) /\ call'[r] = Idle /\ Idle.new = NoKey /\ Idle.stage = "idle"
      BY <1>0, <1>2, ReturnIs DEF Idle
    <2> QED
      BY <2>1 DEF KeepsNew, Turn
  <1>3. ASSUME NEW stage \in Stages \ {"issuing"}, Goes(r, stage)
        PROVE  KeepsNew
    BY <1>3, GoesIs DEF KeepsNew, Turn, Same
  <1>4. QueryFails(r) \/ (\E applied \in BOOLEAN : ReleaseFails(r, applied)) =>
           Return(r) \/ \E stage \in Stages \ {"issuing"} : Goes(r, stage)
    BY FailGoes
  <1>5. \/ Return(r) \/ \E stage \in Stages \ {"issuing"} : Goes(r, stage)
        \/ \E n \in Periods : Connect(r, n)
    BY <1>4 DEF SelectHashed, SelectPlain, CopyRow, DropPlain, MoveUsage, SelectForUpdate, InsertCounter,
           SelectTx, InsertTx, Release, DeleteHashed, DeletePlain, RekeyUsage, DeleteOld, ListNew,
           NoteFailed, NotePending, Submit, Commit, Stages, Goes
  <1> QED
    BY <1>1, <1>2, <1>3, <1>5

\* A step that uses up no key and begins no rotation leaves enough keys for
\* those there are.
LEMMA RoomStays ==
    ASSUME RoomLeft, KeepsNew, \A k \in Unissued : k \notin known' \cup revoked' /\ rows'[k] = {}
    PROVE  RoomLeft'
  <1>1. Issuing' \subseteq Issuing
    BY DEF Issuing, At, KeepsNew
  <1>2. Unissued \subseteq Unissued'
    BY PgAssumption DEF Unissued, KeepsNew
  <1>3. Cardinality(Issuing') <= Cardinality(Issuing)
    BY <1>1, RoomTypes, FS_Subset
  <1>4. Cardinality(Unissued) <= Cardinality(Unissued')
    BY <1>2, RoomTypesNext, FS_Subset
  <1>5. Cardinality(Issuing)' = Cardinality(Issuing') /\ Cardinality(Unissued)' = Cardinality(Unissued')
    OBVIOUS
  <1> QED
    BY <1>3, <1>4, <1>5, RoomTypes, RoomTypesNext DEF RoomLeft

\* A query uses up at most the key of its own rotation.
LEMMA ServeRoom ==
    ASSUME Typed, FreshKeys, RoomLeft, NEW r \in Clients,
           Serve(r) \/ QueryFails(r) \/ \E applied \in BOOLEAN : ReleaseFails(r, applied)
    PROVE  RoomLeft'
  <1>0. CallsOK /\ rows \in [Keys -> SUBSET Forms]
    BY DEF Typed, TablesOK
  <1>1. \A k \in Unissued : /\ k \in Keys /\ k \notin known \cup revoked /\ rows[k] = {}
                            /\ \A s \in Clients : call[s].new # k
    BY DEF Unissued
  <1>2. CASE \/ SelectHashed(r) \/ SelectPlain(r) \/ MoveUsage(r)
             \/ SelectForUpdate(r) \/ InsertCounter(r)
             \/ SelectTx(r) \/ InsertTx(r) \/ NoteFailed(r) \/ Release(r) \/ RekeyUsage(r)
             \/ QueryFails(r) \/ (\E applied \in BOOLEAN : ReleaseFails(r, applied))
             \/ (\E ok \in BOOLEAN : Submit(r, ok) \/ NotePending(r, ok) \/ \E applied \in BOOLEAN : Commit(r, ok, applied))
             \/ \E n \in Periods : Connect(r, n)
    <2>1. KeepsNew
      BY <1>0, <1>2, StepKeepsNew
    <2>2. UNCHANGED <<rows, known, revoked>>
      BY <1>2 DEF SelectHashed, SelectPlain, MoveUsage, SelectForUpdate, InsertCounter, SelectTx, InsertTx,
                  Release, RekeyUsage, QueryFails, ReleaseFails, NoteFailed, NotePending, Submit, Commit, Connect, tables, ghosts
    <2> QED
      BY <1>1, <2>1, <2>2, RoomStays
  <1>3. CASE CopyRow(r) \/ DropPlain(r) \/ DeleteHashed(r) \/ DeletePlain(r) \/ DeleteOld(r)
    <2>1. KeepsNew
      BY <1>0, <1>3, StepKeepsNew
    <2>2. known' = known /\ Key(r) \in known
      BY <1>3 DEF CopyRow, DropPlain, DeleteHashed, DeletePlain, DeleteOld, At, FreshKeys
    <2>3. \A k \in Keys : k # Key(r) => rows'[k] = rows[k] /\ (k \in revoked' => k \in revoked)
      BY <1>0, <1>3 DEF CopyRow, DropPlain, DeleteHashed, DeletePlain, DeleteOld, Remove, ghosts
    <2> QED
      BY <1>1, <2>1, <2>2, <2>3, RoomStays
  <1>4. CASE ListNew(r)
    <2>1. KeepsNew
      BY <1>0, <1>4, StepKeepsNew
    <2>2. known' = known \cup {call[r].new} /\ UNCHANGED <<rows, revoked>>
      BY <1>4 DEF ListNew, tables, ghosts
    <2> QED
      BY <1>1, <2>1, <2>2, RoomStays
  <1>5. ASSUME NEW new \in Keys, IssueKey(r, new)
        PROVE  RoomLeft'
    <2>1. /\ new \in Unissued /\ rows' = [rows EXCEPT ![new] = {"hash"}]
          /\ UNCHANGED <<known, revoked>>
      BY <1>5 DEF IssueKey, ghosts
    <2>2. /\ Turn(r) /\ r \in Issuing
          /\ call'[r].stage = "rekeying" /\ call'[r].new = new
      BY <1>0, <1>5, IssueKeyIs DEF Issuing
    <2>3. Issuing' \subseteq Issuing \ {r}
      BY <2>2 DEF Issuing, Turn, At
    <2>4. Unissued \ {new} \subseteq Unissued'
      BY <1>0, <1>1, <2>1, <2>2 DEF Unissued, Turn
    <2>5. /\ IsFiniteSet(Issuing \ {r}) /\ Cardinality(Issuing \ {r}) = Cardinality(Issuing) - 1
          /\ Cardinality(Unissued \ {new}) = Cardinality(Unissued) - 1
      BY <2>1, <2>2, RoomTypes, FS_RemoveElement
    <2>6. Cardinality(Issuing') <= Cardinality(Issuing \ {r})
      BY <2>3, <2>5, FS_Subset
    <2>7. Cardinality(Unissued \ {new}) <= Cardinality(Unissued')
      BY <2>4, RoomTypesNext, FS_Subset
    <2>8. Cardinality(Issuing)' = Cardinality(Issuing') /\ Cardinality(Unissued)' = Cardinality(Unissued')
      OBVIOUS
    <2> QED
      BY <2>5, <2>6, <2>7, <2>8, RoomTypes, RoomTypesNext DEF RoomLeft
  <1> QED
    BY <1>2, <1>3, <1>4, <1>5 DEF Serve

\* A rotation begins only while there is a key left for it.
LEMMA BeginRoom ==
    ASSUME Typed, RoomLeft, NEW r \in Clients,
           \/ \E k \in Keys, t \in Txs : Request(r, k, t)
           \/ \E k \in Keys, f \in Forms : AdminDelete(r, k, f)
           \/ Rotate(r)
    PROVE  RoomLeft'
  <1>0. CallsOK
    BY DEF Typed
  <1>1. PICK c : /\ Begin(r, c) /\ c.new = NoKey
                 /\ c.stage = "issuing" => Cardinality(Issuing) < Cardinality(Unissued)
    <2>1. ASSUME NEW k \in Keys, NEW t \in Txs, Request(r, k, t)
          PROVE  \E c : Begin(r, c) /\ c.new = NoKey /\ c.stage # "issuing"
      <3> DEFINE c == [Idle EXCEPT !.stage = "lookup", !.key = k, !.tx = t]
      <3>1. c.new = NoKey /\ c.stage = "lookup"
        BY DEF Idle
      <3>2. Begin(r, c)
        BY <2>1 DEF Request
      <3> HIDE DEF c
      <3> QED
        BY <3>1, <3>2
    <2>2. ASSUME NEW k \in Keys, NEW f \in Forms, AdminDelete(r, k, f)
          PROVE  \E c : Begin(r, c) /\ c.new = NoKey /\ c.stage # "issuing"
      <3> DEFINE c == [Idle EXCEPT !.stage = "deleting", !.key = k, !.form = f]
      <3>1. c.new = NoKey /\ c.stage = "deleting"
        BY DEF Idle
      <3>2. Begin(r, c)
        BY <2>2 DEF AdminDelete
      <3> HIDE DEF c
      <3> QED
        BY <3>1, <3>2
    <2>3. CASE Rotate(r)
      <3> DEFINE c == [Idle EXCEPT !.stage = "issuing", !.key = listed]
      <3>1. c.new = NoKey
        BY DEF Idle
      <3>2. Begin(r, c) /\ Cardinality(Issuing) < Cardinality(Unissued)
        BY <2>3 DEF Rotate, Issuing
      <3> HIDE DEF c
      <3> QED
        BY <3>1, <3>2
    <2> QED
      BY <2>1, <2>2, <2>3
  <1>2. /\ Turn(r) /\ call'[r] = c /\ At(r, "idle")
        /\ UNCHANGED <<tables, listed, known, revoked>>
    BY <1>0, <1>1, BeginIs
  <1>3. \A s \in Clients : call'[s].new \in {call[s].new, NoKey}
    BY <1>1, <1>2 DEF Turn
  <1>4. CASE c.stage # "issuing"
    <2>1. KeepsNew
      BY <1>2, <1>3, <1>4 DEF KeepsNew, Turn
    <2> QED
      BY <1>2, <2>1, RoomStays DEF Unissued, tables
  <1>5. CASE c.stage = "issuing"
    <2>1. Issuing' \subseteq Issuing \cup {r}
      BY <1>2 DEF Issuing, Turn, At
    <2>2. Unissued \subseteq Unissued'
      BY <1>2, <1>3, PgAssumption DEF Unissued, tables
    <2>3. r \notin Issuing
      BY <1>2 DEF Issuing, At
    <2>4. IsFiniteSet(Issuing \cup {r}) /\ Cardinality(Issuing \cup {r}) = Cardinality(Issuing) + 1
      BY <2>3, RoomTypes, FS_AddElement
    <2>5. Cardinality(Issuing') <= Cardinality(Issuing \cup {r})
      BY <2>1, <2>4, FS_Subset
    <2>6. Cardinality(Unissued) <= Cardinality(Unissued')
      BY <2>2, RoomTypesNext, FS_Subset
    <2>7. Cardinality(Issuing)' = Cardinality(Issuing') /\ Cardinality(Unissued)' = Cardinality(Unissued')
      OBVIOUS
    <2>8. Cardinality(Issuing) < Cardinality(Unissued)
      BY <1>1, <1>5
    <2> QED
      BY <2>4, <2>5, <2>6, <2>7, <2>8, RoomTypes, RoomTypesNext DEF RoomLeft
  <1> QED
    BY <1>4, <1>5

\* At the start no rotation needs a key.
LEMMA InitRoom == Init => RoomLeft
  <1> SUFFICES ASSUME Init
               PROVE  RoomLeft
    OBVIOUS
  <1>1. Issuing = {}
    BY DEF Init, Issuing, At, Idle
  <1>2. Cardinality(Issuing) = 0
    BY <1>1, FS_EmptySet
  <1> QED
    BY <1>2, RoomTypes DEF RoomLeft

\* Every step leaves a key for each rotation that has still to issue one.
LEMMA NextRoom == Typed /\ FreshKeys /\ RoomLeft /\ [Next]_vars => RoomLeft'
  <1> SUFFICES ASSUME Typed, FreshKeys, RoomLeft, [Next]_vars
               PROVE  RoomLeft'
    OBVIOUS
  <1>1. CASE RunScript \/ (\E t \in Txs : CopyTx(t)) \/ UNCHANGED vars
    <2>1. UNCHANGED <<rows, known, revoked, call>>
      BY <1>1 DEF RunScript, CopyTx, vars, tables, ghosts
    <2>2. KeepsNew
      BY <2>1 DEF KeepsNew
    <2> QED
      BY <2>1, <2>2, RoomStays DEF Unissued
  <1>2. CASE CopyKey
    <2>1. KeepsNew
      BY <1>2 DEF KeepsNew, CopyKey
    <2>2. UNCHANGED <<known, revoked>> /\ \A k \in Unissued : rows'[k] = {}
      BY <1>2 DEF CopyKey, Typed, TablesOK, FreshKeys, Unissued
    <2> QED
      BY <2>1, <2>2, RoomStays DEF Unissued
  <1>3. CASE Crash
    <2>1. KeepsNew
      BY <1>3 DEF KeepsNew, Crash, Idle
    <2> QED
      BY <1>3, <2>1, RoomStays DEF Unissued, Crash
  <1> QED
    BY <1>1, <1>2, <1>3, ServeRoom, BeginRoom DEF Next

\* While a request is in progress, one of them waits for nothing: no lock of
\* reserveAttestationUsage is held by a request that waits for another, and
\* the pool is never taken by requests that all wait.
THEOREM NobodyStandsStill == Spec => []SomeoneGoesOn
  <1> DEFINE Inv == Typed /\ FreshKeys /\ Locks /\ WithinLimit /\ RoomLeft
  <1>1. Init => Inv
    BY InitTyped, InitFresh, InitLocks, InitRoom
  <1>2. Inv /\ [Next]_vars => Inv'
    BY NextTyped, NextFresh, NextLocks, NextRoom
  <1>3. Inv => SomeoneGoesOn
    BY GoesOn
  <1> HIDE DEF Inv
  <1> QED
    BY <1>1, <1>2, <1>3, PTL DEF Spec

-----------------------------------------------------------------------------
(***************************************************************************)
(* The way through the store.  NobodyStandsStill says that the requests    *)
(* never all wait for each other; what it leaves open is that they go      *)
(* round in circles, each undoing what the other did.                      *)
(***************************************************************************)
\* The queries a request can have before it, at most.
StepsLeft(stage) ==
    CASE stage = "lookup" -> 17 [] stage = "lookup_plain" -> 16 [] stage = "copying" -> 15
      [] stage = "dropping" -> 14 [] stage = "moving" -> 13 [] stage = "lookup_again" -> 12
      [] stage = "connecting" -> 11 [] stage = "selecting" -> 10 [] stage = "inserting" -> 9
      [] stage = "committing" -> 8 [] stage = "creating" -> 7 [] stage = "inserting_tx" -> 6
      [] stage = "submitting" -> 5 [] stage = "pending" -> 4 [] stage = "failing" -> 3
      [] stage = "releasing" -> 2 [] stage = "unwinding" -> 1
      [] stage = "issuing" -> 4 [] stage = "rekeying" -> 3 [] stage = "deleting_old" -> 2
      [] stage = "listing" -> 1
      [] stage = "deleting" -> 2 [] stage = "deleting_plain" -> 1
      [] stage = "idle" -> 0

Fails(r)  == QueryFails(r) \/ \E applied \in BOOLEAN : ReleaseFails(r, applied)
Nearer(r) == StepsLeft(call'[r].stage) < StepsLeft(call[r].stage)

\* A request that is in progress is left alone by the others, or it comes
\* nearer to its end, with the key it began with; what it does itself always
\* takes it nearer.
CallsAdvance ==
    [][\A r \in Clients : ~At(r, "idle") =>
          /\ call'[r] = call[r] \/ Nearer(r)
          /\ Serve(r) \/ Fails(r) => Nearer(r)
          /\ call'[r].stage # "idle" => call'[r].key = call[r].key]_vars

\* The stages as numbers.
LEMMA StepNumbers ==
    /\ StepsLeft("lookup") = 17 /\ StepsLeft("lookup_plain") = 16 /\ StepsLeft("copying") = 15
    /\ StepsLeft("dropping") = 14 /\ StepsLeft("moving") = 13 /\ StepsLeft("lookup_again") = 12
    /\ StepsLeft("connecting") = 11 /\ StepsLeft("selecting") = 10 /\ StepsLeft("inserting") = 9
    /\ StepsLeft("committing") = 8 /\ StepsLeft("creating") = 7 /\ StepsLeft("inserting_tx") = 6
    /\ StepsLeft("submitting") = 5 /\ StepsLeft("pending") = 4 /\ StepsLeft("failing") = 3
    /\ StepsLeft("releasing") = 2 /\ StepsLeft("unwinding") = 1
    /\ StepsLeft("issuing") = 4 /\ StepsLeft("rekeying") = 3 /\ StepsLeft("deleting_old") = 2
    /\ StepsLeft("listing") = 1
    /\ StepsLeft("deleting") = 2 /\ StepsLeft("deleting_plain") = 1
    /\ StepsLeft("idle") = 0
  BY DEF StepsLeft

\* Every request that is in progress has a query before it.
LEMMA StepsLeftOver ==
    ASSUME NEW stage \in Stages \ {"idle"}
    PROVE  StepsLeft("idle") < StepsLeft(stage)
  BY StepNumbers DEF Stages

\* A step of a request changes its own call only, and takes it further.
LEMMA ServeAdvances ==
    ASSUME CallsOK, NEW r \in Clients, Serve(r) \/ Fails(r)
    PROVE  /\ Turn(r) /\ ~At(r, "idle") /\ Nearer(r)
           /\ call'[r].stage # "idle" => call'[r].key = call[r].key
  <1> DEFINE Goal == /\ Turn(r) /\ ~At(r, "idle") /\ Nearer(r)
                     /\ call'[r].stage # "idle" => call'[r].key = call[r].key
  <1>0. CallsOK /\ call[r].stage \in Stages
    BY DEF CallsOK, Call
  <1>1. ASSUME Return(r), ~At(r, "idle")
        PROVE  Goal
    <2>1. Turn(r) /\ call'[r].stage = "idle"
      BY <1>0, <1>1, ReturnIs
    <2>2. StepsLeft("idle") < StepsLeft(call[r].stage)
      BY <1>0, <1>1, StepsLeftOver DEF At
    <2> QED
      BY <1>1, <2>1, <2>2 DEF Nearer
  <1>2. ASSUME NEW stage, Goes(r, stage), ~At(r, "idle"), StepsLeft(stage) < StepsLeft(call[r].stage)
        PROVE  Goal
    <2>1. Turn(r) /\ call'[r].stage = stage /\ call'[r].key = call[r].key
      BY <1>0, <1>2, GoesIs DEF Same
    <2> QED
      BY <1>2, <2>1 DEF Nearer
  <1>3. ASSUME NEW n \in Periods, Connect(r, n)
        PROVE  Goal
    BY <1>0, <1>3, ConnectIs, StepNumbers DEF Nearer, At, Key
  <1>4. ASSUME NEW new \in Keys, IssueKey(r, new)
        PROVE  Goal
    BY <1>0, <1>4, IssueKeyIs, StepNumbers DEF Nearer, At, Key
  <1>5. ASSUME \/ SelectHashed(r) \/ SelectPlain(r) \/ CopyRow(r) \/ DropPlain(r) \/ MoveUsage(r)
        PROVE  /\ ~At(r, "idle")
               /\ \/ Return(r)
                  \/ \E stage \in Stages : Goes(r, stage) /\ StepsLeft(stage) < StepsLeft(call[r].stage)
    BY <1>5, StepNumbers DEF SelectHashed, SelectPlain, CopyRow, DropPlain, MoveUsage, At, Stages, Goes
  <1>6. ASSUME \/ SelectForUpdate(r) \/ InsertCounter(r) \/ SelectTx(r) \/ InsertTx(r)
               \/ NoteFailed(r) \/ Release(r)
        PROVE  /\ ~At(r, "idle")
               /\ \/ Return(r)
                  \/ \E stage \in Stages : Goes(r, stage) /\ StepsLeft(stage) < StepsLeft(call[r].stage)
    BY <1>6, StepNumbers DEF SelectForUpdate, InsertCounter, SelectTx, InsertTx, NoteFailed, Release, Releasing, At, Stages, Goes
  <1>7. ASSUME \/ DeleteHashed(r) \/ DeletePlain(r) \/ RekeyUsage(r) \/ DeleteOld(r) \/ ListNew(r)
        PROVE  /\ ~At(r, "idle")
               /\ \/ Return(r)
                  \/ \E stage \in Stages : Goes(r, stage) /\ StepsLeft(stage) < StepsLeft(call[r].stage)
    BY <1>7, StepNumbers DEF DeleteHashed, DeletePlain, RekeyUsage, DeleteOld, ListNew, At, Stages, Goes
  <1>8. ASSUME NEW ok \in BOOLEAN, NEW applied \in BOOLEAN,
               Submit(r, ok) \/ NotePending(r, ok) \/ Commit(r, ok, applied)
        PROVE  /\ ~At(r, "idle")
               /\ \/ Return(r)
                  \/ \E stage \in Stages : Goes(r, stage) /\ StepsLeft(stage) < StepsLeft(call[r].stage)
    <2>1. CASE Submit(r, ok)
      <3>1. /\ call[r].stage = "submitting" /\ (~ok) \in BOOLEAN
            /\ GotoWith(r, IF ok THEN "pending" ELSE "failing", ~ok)
        BY <2>1 DEF Submit, At
      <3>2. Goes(r, "pending") \/ Goes(r, "failing")
        BY <3>1 DEF Goes
      <3> QED
        BY <3>1, <3>2, StepNumbers DEF At, Stages
    <2>2. CASE NotePending(r, ok)
      BY <2>2, StepNumbers DEF NotePending, At, Stages, Goes
    <2>3. CASE Commit(r, ok, applied)
      <3>1. At(r, "committing") /\ (Return(r) \/ GotoWith(r, "creating", TRUE))
        BY <2>3 DEF Commit
      <3>2. Return(r) \/ Goes(r, "creating")
        BY <3>1 DEF Goes
      <3> QED
        BY <3>1, <3>2, StepNumbers DEF At, Stages
    <2> QED
      BY <1>8, <2>1, <2>2, <2>3
  <1>9. ASSUME QueryFails(r)
        PROVE  /\ ~At(r, "idle")
               /\ \/ Return(r)
                  \/ \E stage \in Stages : Goes(r, stage) /\ StepsLeft(stage) < StepsLeft(call[r].stage)
    BY <1>9, StepNumbers DEF QueryFails, AfterError, At, Stages, Goes
  <1>10. ASSUME NEW applied \in BOOLEAN, ReleaseFails(r, applied)
         PROVE  /\ ~At(r, "idle")
                /\ \/ Return(r)
                   \/ \E stage \in Stages : Goes(r, stage) /\ StepsLeft(stage) < StepsLeft(call[r].stage)
    <2>1. CASE At(r, "releasing")
      <3>1. GotoWith(r, "unwinding", call[r].holds /\ ~applied) /\ (call[r].holds /\ ~applied) \in BOOLEAN
        BY <1>10, <2>1 DEF ReleaseFails
      <3>2. Goes(r, "unwinding")
        BY <3>1 DEF Goes
      <3> QED
        BY <2>1, <3>2, StepNumbers DEF At, Stages
    <2>2. CASE ~At(r, "releasing")
      BY <1>10, <2>2 DEF ReleaseFails, Releasing, At
    <2> QED
      BY <2>1, <2>2
  <1> HIDE DEF Goal
  <1>11. Goal
    BY <1>1, <1>2, <1>3, <1>4, <1>5, <1>6, <1>7, <1>8, <1>9, <1>10 DEF Serve, Fails
  <1> QED
    BY <1>11 DEF Goal

\* What happens to a request in progress: its own step, nothing, or the end
\* of the process.
LEMMA CallsStay ==
    ASSUME CallsOK, [Next]_vars, NEW r \in Clients, ~At(r, "idle")
    PROVE  \/ call'[r] = call[r] /\ ~Serve(r) /\ ~Fails(r)
           \/ Serve(r) \/ Fails(r)
           \/ call'[r].stage = "idle"
  <1>0. CallsOK
    OBVIOUS
  <1>1. ASSUME NEW s \in Clients, Serve(s) \/ Fails(s), s # r
        PROVE  call'[r] = call[r]
    BY <1>0, <1>1, ServeAdvances DEF Turn
  <1>2. ASSUME NEW s \in Clients,
               \/ \E k \in Keys, t \in Txs : Request(s, k, t)
               \/ \E k \in Keys, f \in Forms : AdminDelete(s, k, f)
               \/ Rotate(s)
        PROVE  call'[r] = call[r]
    <2>1. PICK c : Begin(s, c)
      BY <1>2, NewCall
    <2>2. Turn(s) /\ At(s, "idle")
      BY <1>0, <2>1, BeginIs
    <2> QED
      BY <2>2 DEF Turn
  <1>3. RunScript \/ CopyKey \/ (\E t \in Txs : CopyTx(t)) \/ UNCHANGED vars => call'[r] = call[r]
    BY DEF RunScript, CopyKey, CopyTx, vars
  <1>4. Crash => call'[r].stage = "idle"
    BY DEF Crash, Idle
  <1> QED
    BY <1>1, <1>2, <1>3, <1>4 DEF Next, Fails

\* A request makes at most seventeen queries, and a rotation four, whatever
\* the others and the migration script do meanwhile: with NobodyStandsStill,
\* a store that gets no new request and no fault comes to rest.
THEOREM CallsComeToAnEnd == Spec => CallsAdvance
  <1> DEFINE Further(r) == ~At(r, "idle") =>
                 /\ call'[r] = call[r] \/ Nearer(r)
                 /\ Serve(r) \/ Fails(r) => Nearer(r)
                 /\ call'[r].stage # "idle" => call'[r].key = call[r].key
  <1>1. ASSUME Typed, [Next]_vars, NEW r \in Clients, ~At(r, "idle")
        PROVE  /\ call'[r] = call[r] \/ Nearer(r)
               /\ Serve(r) \/ Fails(r) => Nearer(r)
               /\ call'[r].stage # "idle" => call'[r].key = call[r].key
    <2>1. CallsOK /\ call[r].stage \in Stages \ {"idle"}
      BY <1>1 DEF Typed, CallsOK, Call, At
    <2>2. CASE Serve(r) \/ Fails(r)
      BY <2>1, <2>2, ServeAdvances
    <2>3. CASE call'[r].stage = "idle" /\ ~(Serve(r) \/ Fails(r))
      BY <2>1, <2>3, StepsLeftOver DEF Nearer
    <2> QED
      BY <1>1, <2>1, <2>2, <2>3, CallsStay
  <1>2. Typed /\ [Next]_vars => [\A r \in Clients : Further(r)]_vars
    BY <1>1
  <1> QED
    BY <1>2, InitTyped, NextTyped, PTL DEF Spec, CallsAdvance
=============================================================================
