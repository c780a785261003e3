------------------------------- MODULE PgStore -------------------------------
(***************************************************************************)
(* PostgresStore of src/store.ts: API keys, quota counters and             *)
(* attestations of one user, with key-rotation.ts and the script           *)
(* scripts/migrate-to-postgres.ts that works on the same tables.           *)
(*                                                                         *)
(* A Client is one connection of the REST server.  Every query is an       *)
(* action of its own: PostgreSQL runs it whole, and anything may happen    *)
(* between two of them.  Only reserveAttestationUsage uses a transaction;  *)
(* the row it locks, or has inserted and not committed, makes other        *)
(* writers of the row wait.  An API key is known by its hash; the row of a *)
(* key issued by an earlier version still has the plaintext in its place.  *)
(***************************************************************************)
EXTENDS Naturals, FiniteSets, Totals

CONSTANTS
    Clients, Txs,
    Keys,           \* API keys the user has had or will have
    FirstKey,       \* the key of users.json and api-keys.json at the start
    StoredAs,       \* how its row was written: "plain" or "hash"
    Periods,        \* period keys
    Width,          \* the length of each period key
    Limit,          \* ATTESTATION_LIMITS of the user's tier
    PoolSize,       \* connections of the pool
    NoClient, NoKey, NoTx,
    MaxErrors,      \* bound on queries that fail
    MaxCrashes,     \* bound on process crashes
    MaxRuns         \* bound on runs of the migration script

MonthKeyWidth == 7
Forms == {"plain", "hash"}

ASSUME PgAssumption ==
    /\ FirstKey \in Keys /\ NoKey \notin Keys
    /\ NoClient \notin Clients /\ NoTx \notin Txs
    /\ StoredAs \in Forms
    /\ Periods # {} /\ Width \in [Periods -> Nat]
    /\ Limit \in Nat /\ PoolSize \in Nat \ {0}
    /\ IsFiniteSet(Clients) /\ IsFiniteSet(Keys)
    /\ MaxErrors \in Nat /\ MaxCrashes \in Nat /\ MaxRuns \in Nat

VARIABLES
    rows,           \* api_keys: the forms under which each key has a row
    counters,       \* attestation_usage: the rows there are
    used,           \* their usage_count, 0 without a row
    lock,           \* the transaction that holds a row of attestation_usage
    att,            \* attestations: no row, copied by the script, or created
    listed,         \* apiKeyIds of users.json
    known,          \* keys whose plaintext the user has been given
    call,           \* each client's request and its local variables
    script,         \* records the script has still to copy
    charged,        \* FDC submissions that succeeded, per key and period
    uncounted,      \* slots given back that were charged, or given back before
    revoked,        \* keys deleted or rotated away
    gone,           \* of those, keys left without a row and without a lookup that copies it
    overlap,        \* two requests, or a request and a fault, have overlapped
    errors, crashes, runs

tables == <<rows, counters, used, lock, att>>
ghosts == <<charged, uncounted, revoked, gone, overlap, errors, crashes, runs>>
vars   == <<tables, listed, known, call, script, ghosts>>

Stages == {"idle", "lookup", "lookup_plain", "copying", "dropping", "moving", "lookup_again",
           "connecting", "selecting", "inserting", "committing",
           "creating", "inserting_tx", "submitting", "pending", "failing", "releasing", "unwinding",
           "issuing", "rekeying", "deleting_old", "listing", "deleting", "deleting_plain"}
Call == [stage : Stages, key : Keys \cup {NoKey}, new : Keys \cup {NoKey},
         tx : Txs \cup {NoTx}, period : Periods, form : Forms, holds : BOOLEAN]

Idle == [stage |-> "idle", key |-> NoKey, new |-> NoKey, tx |-> NoTx,
         period |-> CHOOSE n \in Periods : TRUE, form |-> "plain", holds |-> FALSE]

At(r, stage)   == call[r].stage = stage
Key(r)         == call[r].key
Period(r)      == call[r].period
Counter(r)     == <<Key(r), "hash", Period(r)>>
Fits(n)        == Width[n] <= MonthKeyWidth
Locked(k, n)   == lock[k][n] # NoClient
Unlocked(k)    == [lock EXCEPT ![k] = [n \in Periods |-> NoClient]]
InTransaction  == {r \in Clients : call[r].stage \in {"selecting", "inserting", "committing"}}
FreeConnection == Cardinality(InTransaction) < PoolSize
Busy           == \E r \in Clients : ~At(r, "idle")
Copying(k)     == \E r \in Clients : Key(r) = k /\ At(r, "copying")

\* An earlier version filled the tables, or a first run of the script did.
Init ==
    /\ rows = [k \in Keys |-> IF k = FirstKey THEN {StoredAs} ELSE {}]
    /\ \E past \in [{n \in Periods : Fits(n)} -> 0..Limit] :
          /\ used = [k \in Keys |-> [f \in Forms |-> [n \in Periods |->
                       IF k = FirstKey /\ f = StoredAs /\ Fits(n) THEN past[n] ELSE 0]]]
          /\ counters = {x \in {FirstKey} \X {StoredAs} \X Periods :
                            Fits(x[3]) /\ past[x[3]] > 0}
          /\ charged = [k \in Keys |-> [n \in Periods |-> used[k]["plain"][n] + used[k]["hash"][n]]]
    /\ lock = [k \in Keys |-> [n \in Periods |-> NoClient]]
    /\ att = [t \in Txs |-> "none"]
    /\ listed = FirstKey
    /\ known = {FirstKey}
    /\ call = [r \in Clients |-> Idle]
    /\ script = {}
    /\ uncounted = [n \in Periods |-> 0]
    /\ revoked = {} /\ gone = {} /\ overlap = FALSE
    /\ errors = 0 /\ crashes = 0 /\ runs = 0

Goto(r, stage) == call' = [call EXCEPT ![r].stage = stage]
Return(r)      == call' = [call EXCEPT ![r] = Idle]

\* The same, and the slot that was reserved is now the request's, or is not.
GotoWith(r, stage, holds) == call' = [call EXCEPT ![r].stage = stage, ![r].holds = holds]

\* A query needs a connection: its transaction's, or one of the pool.
Query(r) == r \in InTransaction \/ FreeConnection

Fault ==
    /\ errors < MaxErrors
    /\ errors' = errors + 1
    /\ overlap' = TRUE

Begin(r, c) ==
    /\ At(r, "idle")
    /\ call' = [call EXCEPT ![r] = c]
    /\ overlap' = (overlap \/ Busy \/ script # {})
    /\ UNCHANGED <<tables, listed, known, script, charged, uncounted, revoked, gone, errors, crashes, runs>>

(***************************************************************************)
(* getApiKey, and the lazy move of a row from the plaintext to the hash.   *)
(***************************************************************************)
Request(r, k, t) ==
    /\ k \in known
    /\ Begin(r, [Idle EXCEPT !.stage = "lookup", !.key = k, !.tx = t])

SelectHashed(r) ==
    /\ call[r].stage \in {"lookup", "lookup_again"}
    /\ Query(r)
    /\ IF "hash" \in rows[Key(r)] THEN Goto(r, "connecting")
       ELSE IF At(r, "lookup") THEN Goto(r, "lookup_plain") ELSE Return(r)
    /\ UNCHANGED <<tables, listed, known, script, ghosts>>

\* Mutant: the row is copied whether or not there is one.
SelectPlain_Assumes(r) ==
    /\ At(r, "lookup_plain")
    /\ Query(r)
    /\ Goto(r, "copying")
    /\ UNCHANGED <<tables, listed, known, script, ghosts>>

SelectPlain(r) ==
    /\ At(r, "lookup_plain")
    /\ Query(r)
    /\ IF "plain" \in rows[Key(r)] THEN Goto(r, "copying") ELSE Return(r)
    /\ UNCHANGED <<tables, listed, known, script, ghosts>>

\* INSERT ... ON CONFLICT DO NOTHING, then DELETE: two queries.
CopyRow(r) ==
    /\ At(r, "copying")
    /\ Query(r)
    /\ rows' = [rows EXCEPT ![Key(r)] = @ \cup {"hash"}]
    /\ Goto(r, "dropping")
    /\ UNCHANGED <<counters, used, lock, att, listed, known, script, ghosts>>

DropPlain(r) ==
    /\ At(r, "dropping")
    /\ Query(r)
    /\ rows' = [rows EXCEPT ![Key(r)] = @ \ {"plain"}]
    /\ Goto(r, "moving")
    /\ UNCHANGED <<counters, used, lock, att, listed, known, script, ghosts>>

\* Rename the counters of one id to another: none of them may be in the way.
Rename(k, f, to) ==
    /\ counters' = {x \in counters : x[1] # k \/ x[2] # f}
                   \cup {<<to, "hash", x[3]>> : x \in {y \in counters : y[1] = k /\ y[2] = f}}
    /\ used' = [used EXCEPT ![to]["hash"] = [n \in Periods |-> @[n] + used[k][f][n]],
                            ![k][f] = [n \in Periods |-> 0]]

\* The primary key refuses the move once another request has a counter.
MoveUsage(r) ==
    /\ At(r, "moving")
    /\ Query(r)
    /\ LET moved == {n \in Periods : <<Key(r), "plain", n>> \in counters}
       IN  /\ \A n \in moved : Locked(Key(r), n) => <<Key(r), "hash", n>> \in counters
           /\ IF \E n \in moved : <<Key(r), "hash", n>> \in counters
              THEN Return(r) /\ UNCHANGED <<counters, used>>
              ELSE Goto(r, "lookup_again") /\ Rename(Key(r), "plain", Key(r))
    /\ UNCHANGED <<rows, lock, att, listed, known, script, ghosts>>

(***************************************************************************)
(* reserveAttestationUsage: one transaction on a connection of its own.    *)
(* Every period key of the code is a start in seconds, ten digits, and     *)
(* ends in InsertCounter's ROLLBACK; the keys of seven characters the      *)
(* column was made for show what the rest would do.                        *)
(***************************************************************************)
Connect(r, n) ==
    /\ At(r, "connecting")
    /\ Query(r)
    /\ call' = [call EXCEPT ![r].stage = "selecting", ![r].period = n]
    /\ UNCHANGED <<tables, listed, known, script, ghosts>>

Taken(r) == used[Key(r)]["hash"][Period(r)]

\* Mutant: the comparison is off by one.
SelectForUpdate_OffByOne(r) ==
    /\ At(r, "selecting")
    /\ Query(r)
    /\ Counter(r) \in counters => ~Locked(Key(r), Period(r))
    /\ IF Taken(r) > Limit THEN Return(r) /\ UNCHANGED lock
       ELSE IF Counter(r) \in counters
            THEN Goto(r, "committing") /\ lock' = [lock EXCEPT ![Key(r)][Period(r)] = r]
            ELSE Goto(r, "inserting") /\ UNCHANGED lock
    /\ UNCHANGED <<rows, counters, used, att, listed, known, script, ghosts>>

\* The row is locked, unless there is none: an inserted row that is not
\* committed yet is not seen.
SelectForUpdate(r) ==
    /\ At(r, "selecting")
    /\ Query(r)
    /\ Counter(r) \in counters => ~Locked(Key(r), Period(r))
    /\ IF Taken(r) >= Limit THEN Return(r) /\ UNCHANGED lock
       ELSE IF Counter(r) \in counters
            THEN Goto(r, "committing") /\ lock' = [lock EXCEPT ![Key(r)][Period(r)] = r]
            ELSE Goto(r, "inserting") /\ UNCHANGED lock
    /\ UNCHANGED <<rows, counters, used, att, listed, known, script, ghosts>>

\* A period key that is too long, or a row committed since: ROLLBACK, 500.
InsertCounter(r) ==
    /\ At(r, "inserting")
    /\ Query(r)
    /\ ~Locked(Key(r), Period(r))
    /\ IF Fits(Period(r)) /\ Counter(r) \notin counters
       THEN Goto(r, "committing") /\ lock' = [lock EXCEPT ![Key(r)][Period(r)] = r]
       ELSE Return(r) /\ UNCHANGED lock
    /\ UNCHANGED <<rows, counters, used, att, listed, known, script, ghosts>>

Committed(r, applied) ==
    IF applied
    THEN /\ counters' = counters \cup {Counter(r)}
         /\ used' = [used EXCEPT ![Key(r)]["hash"][Period(r)] = @ + 1]
    ELSE UNCHANGED <<counters, used>>

\* Mutant: the lock outlives a transaction that failed.
Commit_KeepsLock(r, ok, applied) ==
    /\ At(r, "committing")
    /\ Committed(r, applied)
    /\ IF ok THEN /\ applied /\ GotoWith(r, "creating", TRUE) /\ UNCHANGED <<overlap, errors>>
                  /\ lock' = [lock EXCEPT ![Key(r)][Period(r)] = NoClient]
             ELSE Return(r) /\ Fault /\ UNCHANGED lock
    /\ UNCHANGED <<rows, att, listed, known, script, charged, uncounted, revoked, gone, crashes, runs>>

\* When the connection breaks, COMMIT may have been applied or not.
Commit(r, ok, applied) ==
    /\ At(r, "committing")
    /\ Committed(r, applied)
    /\ lock' = [lock EXCEPT ![Key(r)][Period(r)] = NoClient]
    /\ IF ok THEN applied /\ GotoWith(r, "creating", TRUE) /\ UNCHANGED <<overlap, errors>>
             ELSE Return(r) /\ Fault
    /\ UNCHANGED <<rows, att, listed, known, script, charged, uncounted, revoked, gone, crashes, runs>>

(***************************************************************************)
(* createAttestation, the submission, and releaseAttestationUsage.  What   *)
(* fails in submitToFdc is noted, and attestXrpPayment gives the slot back; *)
(* what throws ends in its catch block, which gives back the slot that     *)
(* was not, or not for all the code knows.                                 *)
(***************************************************************************)
SelectTx(r) ==
    /\ At(r, "creating")
    /\ Query(r)
    /\ Goto(r, IF att[call[r].tx] = "none" THEN "inserting_tx" ELSE "submitting")
    /\ UNCHANGED <<tables, listed, known, script, ghosts>>

\* tx_hash is UNIQUE: the second of two inserts throws.
InsertTx(r) ==
    /\ At(r, "inserting_tx")
    /\ Query(r)
    /\ IF att[call[r].tx] = "none"
       THEN att' = [att EXCEPT ![call[r].tx] = "created"] /\ Goto(r, "submitting")
       ELSE UNCHANGED att /\ Goto(r, "unwinding")
    /\ UNCHANGED <<rows, counters, used, lock, listed, known, script, ghosts>>

\* The request prepared, its UPDATE, and the submission: any may fail.
Submit(r, ok) ==
    /\ At(r, "submitting")
    /\ charged' = IF ok THEN [charged EXCEPT ![Key(r)][Period(r)] = @ + 1] ELSE charged
    /\ GotoWith(r, IF ok THEN "pending" ELSE "failing", ~ok)
    /\ UNCHANGED <<tables, listed, known, script, uncounted, revoked, gone, overlap, errors, crashes, runs>>

\* The UPDATE of the round; then the receipt is saved in users.json.
NotePending(r, saved) ==
    /\ At(r, "pending")
    /\ Query(r)
    /\ IF saved THEN Return(r) /\ UNCHANGED <<overlap, errors>> ELSE Goto(r, "unwinding") /\ Fault
    /\ UNCHANGED <<tables, listed, known, script, charged, uncounted, revoked, gone, crashes, runs>>

NoteFailed(r) ==
    /\ At(r, "failing")
    /\ Query(r)
    /\ Goto(r, "releasing")
    /\ UNCHANGED <<tables, listed, known, script, ghosts>>

Releasing(r) == call[r].stage \in {"releasing", "unwinding"}

Released(r) ==
    /\ Counter(r) \in counters => ~Locked(Key(r), Period(r))
    /\ used' = [used EXCEPT ![Key(r)]["hash"][Period(r)] = IF @ > 0 THEN @ - 1 ELSE 0]
    /\ uncounted' = IF call[r].holds \/ Taken(r) = 0 THEN uncounted
                    ELSE [uncounted EXCEPT ![Period(r)] = @ + 1]

Release(r) ==
    /\ Releasing(r)
    /\ Query(r)
    /\ Released(r)
    /\ Return(r)
    /\ UNCHANGED <<rows, counters, lock, att, listed, known, script,
                   charged, revoked, gone, overlap, errors, crashes, runs>>

\* The UPDATE throws, applied or not.  The catch block repeats it, once.
ReleaseFails(r, applied) ==
    /\ Releasing(r)
    /\ Query(r)
    /\ IF applied THEN Released(r) ELSE UNCHANGED <<used, uncounted>>
    /\ IF At(r, "releasing") THEN GotoWith(r, "unwinding", call[r].holds /\ ~applied) ELSE Return(r)
    /\ Fault
    /\ UNCHANGED <<rows, counters, lock, att, listed, known, script, charged, revoked, gone, crashes, runs>>

(***************************************************************************)
(* deleteApiKey by the operator, and rotateUserApiKey.                     *)
(***************************************************************************)
AdminDelete(r, k, f) ==
    /\ k \in known
    /\ Begin(r, [Idle EXCEPT !.stage = "deleting", !.key = k, !.form = f])

Remove(k, f) ==
    /\ rows' = [rows EXCEPT ![k] = @ \ {f}]
    /\ revoked' = revoked \cup {k}
    /\ gone' = IF rows'[k] = {} /\ ~Copying(k) /\ k \notin script THEN gone \cup {k} ELSE gone

\* The hash first; only a plaintext parameter is tried as it stands.
DeleteHashed(r) ==
    /\ At(r, "deleting")
    /\ Query(r)
    /\ IF "hash" \in rows[Key(r)]
       THEN Remove(Key(r), "hash") /\ Return(r)
       ELSE /\ UNCHANGED <<rows, revoked, gone>>
            /\ IF call[r].form = "plain" THEN Goto(r, "deleting_plain") ELSE Return(r)
    /\ UNCHANGED <<counters, used, lock, att, listed, known, script, charged, uncounted, overlap, errors, crashes, runs>>

DeletePlain(r) ==
    /\ At(r, "deleting_plain")
    /\ Query(r)
    /\ IF "plain" \in rows[Key(r)] THEN Remove(Key(r), "plain") ELSE UNCHANGED <<rows, revoked, gone>>
    /\ Return(r)
    /\ UNCHANGED <<counters, used, lock, att, listed, known, script, charged, uncounted, overlap, errors, crashes, runs>>

Unissued == {k \in Keys \ (known \cup revoked) : rows[k] = {} /\ \A r \in Clients : call[r].new # k}

\* apiKeyIds holds hashes, and one of them; findById reads it at the start.
\* The keys there are bound the rotations.
Rotate(r) ==
    /\ Cardinality({c \in Clients : At(c, "issuing")}) < Cardinality(Unissued)
    /\ Begin(r, [Idle EXCEPT !.stage = "issuing", !.key = listed])

IssueKey(r, new) ==
    /\ At(r, "issuing")
    /\ Query(r)
    /\ new \in Unissued
    /\ rows' = [rows EXCEPT ![new] = {"hash"}]
    /\ call' = [call EXCEPT ![r].stage = "rekeying", ![r].new = new]
    /\ UNCHANGED <<counters, used, lock, att, listed, known, script, ghosts>>

\* Mutant: the counters stay with the old id.
RekeyUsage_Forgets(r) ==
    /\ At(r, "rekeying")
    /\ Query(r)
    /\ counters' = {x \in counters : x[1] # Key(r) \/ x[2] # "hash"}
    /\ used' = [used EXCEPT ![Key(r)]["hash"] = [n \in Periods |-> 0]]
    /\ Goto(r, "deleting_old")
    /\ UNCHANGED <<rows, lock, att, listed, known, script, ghosts>>

\* Mutant: the counters are copied, and the old rows not dropped.
RekeyUsage_Copies(r) ==
    /\ At(r, "rekeying")
    /\ Query(r)
    /\ counters' = counters \cup {<<call[r].new, "hash", x[3]>> : x \in {y \in counters : y[1] = Key(r)}}
    /\ used' = [used EXCEPT ![call[r].new]["hash"] = used[Key(r)]["hash"]]
    /\ Goto(r, "deleting_old")
    /\ UNCHANGED <<rows, lock, att, listed, known, script, ghosts>>

RekeyUsage(r) ==
    /\ At(r, "rekeying")
    /\ Query(r)
    /\ \A n \in Periods : <<Key(r), "hash", n>> \in counters => ~Locked(Key(r), n)
    /\ Rename(Key(r), "hash", call[r].new)
    /\ Goto(r, "deleting_old")
    /\ UNCHANGED <<rows, lock, att, listed, known, script, ghosts>>

DeleteOld(r) ==
    /\ At(r, "deleting_old")
    /\ Query(r)
    /\ Remove(Key(r), "hash")
    /\ Goto(r, "listing")
    /\ UNCHANGED <<counters, used, lock, att, listed, known, script, charged, uncounted, overlap, errors, crashes, runs>>

\* Mutant: the new key is added behind the old one.
ListNew_Behind(r) ==
    /\ At(r, "listing")
    /\ known' = known \cup {call[r].new}
    /\ Return(r)
    /\ UNCHANGED <<tables, listed, script, ghosts>>

ListNew(r) ==
    /\ At(r, "listing")
    /\ listed' = call[r].new
    /\ known' = known \cup {call[r].new}
    /\ Return(r)
    /\ UNCHANGED <<tables, script, ghosts>>

(***************************************************************************)
(* migrate-to-postgres.ts: attestations first, then keys; usage is not     *)
(* copied.  It may run again while the server works.                       *)
(***************************************************************************)
RunScript ==
    /\ script = {} /\ runs < MaxRuns
    /\ runs' = runs + 1
    /\ script' = Txs \cup {FirstKey}
    /\ overlap' = (overlap \/ Busy)
    /\ UNCHANGED <<tables, listed, known, call, charged, uncounted, revoked, gone, errors, crashes>>

\* Another id for the transaction breaks the UNIQUE constraint and the run.
CopyTx(t) ==
    /\ t \in script
    /\ IF att[t] = "created" THEN script' = {} /\ UNCHANGED att
       ELSE script' = script \ {t} /\ att' = [att EXCEPT ![t] = "copied"]
    /\ UNCHANGED <<rows, counters, used, lock, listed, known, call, ghosts>>

CopyKey ==
    /\ script = {FirstKey}
    /\ script' = {}
    /\ rows' = [rows EXCEPT ![FirstKey] = @ \cup {StoredAs}]
    /\ gone' = gone \ {FirstKey}
    /\ UNCHANGED <<counters, used, lock, att, listed, known, call, charged, uncounted, revoked, overlap, errors, crashes, runs>>

\* Where a request goes when its query throws.
AfterError(r) ==
    IF At(r, "pending") THEN Goto(r, "failing")
    ELSE IF call[r].stage \in {"creating", "inserting_tx", "failing"} THEN Goto(r, "unwinding")
    ELSE Return(r)

\* Any other query throws: a transaction rolls back, a slot that was reserved
\* is given back, and the client gets a 500.  A query applied all the same is
\* as if it had passed and the next one failed, or as a crash before that.
QueryFails(r) ==
    /\ call[r].stage \notin {"idle", "committing", "submitting", "listing"} /\ ~Releasing(r)
    /\ Query(r)
    /\ Fault
    /\ AfterError(r)
    /\ UNCHANGED <<tables, listed, known, script, charged, uncounted, revoked, gone, crashes, runs>>

\* PostgreSQL rolls back the transactions of a process that is gone.
Crash ==
    /\ crashes < MaxCrashes
    /\ crashes' = crashes + 1
    /\ overlap' = TRUE
    /\ call' = [r \in Clients |-> Idle]
    /\ lock' = [k \in Keys |-> [n \in Periods |-> NoClient]]
    /\ UNCHANGED <<rows, counters, used, att, listed, known, script, charged, uncounted, revoked, gone, errors, runs>>

Serve(r) ==
    \/ SelectHashed(r) \/ SelectPlain(r) \/ CopyRow(r) \/ DropPlain(r) \/ MoveUsage(r)
    \/ SelectForUpdate(r) \/ InsertCounter(r)
    \/ SelectTx(r) \/ InsertTx(r) \/ NoteFailed(r) \/ Release(r)
    \/ DeleteHashed(r) \/ DeletePlain(r)
    \/ RekeyUsage(r) \/ DeleteOld(r) \/ ListNew(r)
    \/ \E ok \in BOOLEAN : \/ Submit(r, ok) \/ NotePending(r, ok)
                           \/ \E applied \in BOOLEAN : Commit(r, ok, applied)
    \/ \E n \in Periods : Connect(r, n)
    \/ \E new \in Keys : IssueKey(r, new)

Next ==
    \/ \E r \in Clients :
          \/ Serve(r) \/ QueryFails(r) \/ \E applied \in BOOLEAN : ReleaseFails(r, applied)
          \/ \E k \in Keys, t \in Txs : Request(r, k, t)
          \/ \E k \in Keys, f \in Forms : AdminDelete(r, k, f)
          \/ Rotate(r)
    \/ RunScript \/ CopyKey \/ \E t \in Txs : CopyTx(t)
    \/ Crash

Spec == Init /\ [][Next]_vars

-----------------------------------------------------------------------------
(***************************************************************************)
(* Properties                                                              *)
(***************************************************************************)
\* Every variable has its type.
TypeOK ==
    /\ rows \in [Keys -> SUBSET Forms]
    /\ counters \subseteq Keys \X Forms \X Periods
    /\ used \in [Keys -> [Forms -> [Periods -> Nat]]]
    /\ lock \in [Keys -> [Periods -> Clients \cup {NoClient}]]
    /\ att \in [Txs -> {"none", "copied", "created"}]
    /\ listed \in Keys /\ known \subseteq Keys
    /\ call \in [Clients -> Call]
    /\ script \subseteq Txs \cup {FirstKey}
    /\ charged \in [Keys -> [Periods -> Nat]] /\ uncounted \in [Periods -> Nat]
    /\ revoked \subseteq Keys /\ gone \subseteq revoked
    /\ overlap \in BOOLEAN
    /\ errors \in 0..MaxErrors /\ crashes \in 0..MaxCrashes /\ runs \in 0..MaxRuns

Holding(n)  == {r \in Clients : call[r].holds /\ Period(r) = n}
Charges(n)  == [k \in Keys |-> charged[k][n]]
Counts(n)   == [x \in Keys \X Forms |-> used[x[1]][x[2]][n]]
Due(n)      == Cardinality(Holding(n)) + Total(Charges(n))
Counted(n)  == Total(Counts(n))
CountersOf(n) == {x \in counters : x[3] = n}

\* "Copy monthly attestation quota from an old key id onto a new one": no
\* slot in use or charged falls out of the counters, whatever moves between
\* ids, commits without an answer, or stops half way, but for one that is
\* given back although charged, or twice: each of those takes a query, or a
\* write of users.json, that failed.
NothingUncounted == \A n \in Periods : Due(n) <= Counted(n) + uncounted[n] /\ uncounted[n] <= errors

\* "CAS-reserve one attestation slot if used < limit": no counter passes the
\* limit, so the user goes over it only by having more than one counter, or
\* by a slot that was given back wrongly.
LimitPerCounter == \A n \in Periods : Due(n) <= Limit * Cardinality(CountersOf(n)) + uncounted[n]

\* As long as requests, rotations and faults do not overlap, the keys of a
\* user that are not revoked have one counter between them.
OneCounter ==
    ~overlap => \A n \in Periods :
        Cardinality({k \in Keys \ revoked : <<k, "hash", n>> \in counters}) <= 1

\* A key whose last row was deleted while no lookup was copying it is not
\* accepted again, unless the script runs again.
GoneStaysOut == \A k \in gone : rows[k] = {}

\* Without overlaps, the only key the user has been given and has not lost is
\* the one users.json lists, and it is accepted.
ListedKeyWorks ==
    ~overlap /\ ~Busy => \A k \in known \ revoked : k = listed /\ rows[k] # {}

\* Requests never all wait for each other, on rows or on the connections of
\* the pool: while one is in progress, one of them can take its next step.
NoStandstill == Busy => \E r \in Clients : ENABLED Serve(r)

\* "Rotation revokes the old key": once rotated away, a key has no row.
RotatedKeyRejected == ~Busy => \A k \in revoked : rows[k] = {}
=============================================================================
