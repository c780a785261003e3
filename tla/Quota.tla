-------------------------------- MODULE Quota --------------------------------
(***************************************************************************)
(* What the reservations of attestation-quota.ts and store.ts promise: in  *)
(* a billing period a key is charged for at most Limit attestations, but   *)
(* for slots the counter lost, and an attestation is charged only through  *)
(* a slot reserved for it before.                                          *)
(***************************************************************************)
EXTENDS Naturals

CONSTANTS
    Keys, Periods,
    Limit       \* of each key, a natural number

VARIABLES
    held,       \* slots reserved by calls in progress, per key and period
    charged,    \* attestations charged, per key and period
    extra       \* slots the counter lost to a store call that threw

vars == <<held, charged, extra>>

Init ==
    /\ held = [k \in Keys |-> [n \in Periods |-> 0]]
    /\ charged = held
    /\ extra = held

Reserve(k, n) ==
    /\ held[k][n] + charged[k][n] < Limit[k] + extra[k][n]
    /\ held' = [held EXCEPT ![k][n] = @ + 1]
    /\ UNCHANGED <<charged, extra>>

GiveBack(k, n) ==
    /\ held[k][n] > 0
    /\ held' = [held EXCEPT ![k][n] = @ - 1]
    /\ UNCHANGED <<charged, extra>>

Charge(k, n) ==
    /\ held[k][n] > 0
    /\ held' = [held EXCEPT ![k][n] = @ - 1]
    /\ charged' = [charged EXCEPT ![k][n] = @ + 1]
    /\ UNCHANGED extra

\* A slot is counted as free once too often.
LoseCount(k, n) ==
    /\ extra' = [extra EXCEPT ![k][n] = @ + 1]
    /\ UNCHANGED <<held, charged>>

\* A crash ends every call in progress.
LoseCalls ==
    /\ held' = [k \in Keys |-> [n \in Periods |-> 0]]
    /\ UNCHANGED <<charged, extra>>

Next ==
    \/ LoseCalls
    \/ \E k \in Keys, n \in Periods : 
          Reserve(k, n) \/ GiveBack(k, n) \/ Charge(k, n) \/ LoseCount(k, n)

Spec == Init /\ [][Next]_vars
=============================================================================
