-------------------------- MODULE RawDeviceProofs --------------------------
(***************************************************************************)
(* Proofs about the raw KeyMint device wrapper (RawDevice.tla): the type   *)
(* invariant, and that lookup_or_generate_key only ever hands its caller   *)
(* the key its alias is bound to, for every number of threads, aliases,    *)
(* regenerations and firmware versions.                                    *)
(***************************************************************************)
EXTENDS RawDevice, TLAPS

USE RawDeviceAssumption

(* Every step keeps the type invariant.                                    *)
LEMMA TypeStep == TypeOK /\ [Next]_vars => TypeOK'
<1> SUFFICES ASSUME TypeOK, [Next]_vars PROVE TypeOK'
  OBVIOUS
<1>1. ASSUME NEW t \in Threads, NEW k \in Keys, Acquire(t, k) PROVE TypeOK'
  BY <1>1 DEF Acquire, TypeOK, PCs
<1>2. ASSUME NEW t \in Threads, Lookup(t) PROVE TypeOK'
  BY <1>2 DEF Lookup, Fail, DropGuard, OwnKey, TypeOK, PCs
<1>3. ASSUME NEW t \in Threads, Chars(t) PROVE TypeOK'
  BY <1>3 DEF Chars, Fail, DropGuard, TypeOK, PCs
<1>4. ASSUME NEW t \in Threads, UpgradeRaw(t) PROVE TypeOK'
  <2>1. CASE /\ blob' = [blob EXCEPT ![t].ver = fw]
             /\ pc' = [pc EXCEPT ![t] = "chars"]
             /\ UNCHANGED <<keyLock, callerLock>>
    <3>1. blob[t] \in Blob /\ fw \in Fw BY DEF TypeOK
    <3>2. [blob[t] EXCEPT !.ver = fw] \in Blob BY <3>1 DEF Blob
    <3>3. blob' \in [Threads -> Blob] BY <2>1, <3>2 DEF TypeOK
    <3>4. QED BY <1>4, <2>1, <3>3 DEF UpgradeRaw, TypeOK, PCs
  <2>2. CASE Fail(t) /\ UNCHANGED blob
    BY <1>4, <2>2 DEF UpgradeRaw, Fail, DropGuard, TypeOK, PCs
  <2>3. QED BY <1>4, <2>1, <2>2 DEF UpgradeRaw
<1>5. ASSUME NEW t \in Threads, Generate(t) PROVE TypeOK'
  <2> DEFINE k == alias[t]
  <2>1. CASE gen[k] < MaxGen /\ gen' = [gen EXCEPT ![k] = @ + 1]
             /\ db' = [db EXCEPT ![k] = [id |-> <<k, gen[k] + 1>>, ver |-> fw,
                                         uuid |-> OwnUuid]]
             /\ pc' = [pc EXCEPT ![t] = "relookup"]
             /\ UNCHANGED <<keyLock, callerLock>>
    <3>1. k \in Keys /\ gen[k] \in Gens
      BY DEF TypeOK
    <3>2. gen[k] + 1 \in Gens
      BY <3>1, <2>1 DEF Gens
    <3>3. [id |-> <<k, gen[k] + 1>>, ver |-> fw, uuid |-> OwnUuid] \in Blob
      BY <3>1, <3>2 DEF TypeOK, Blob, KeyIds, Uuids
    <3>4. gen' \in [Keys -> Gens]
      BY <2>1, <3>2 DEF TypeOK
    <3>5. QED
      BY <1>5, <2>1, <3>3, <3>4 DEF Generate, TypeOK, PCs
  <2>2. CASE Fail(t) /\ UNCHANGED <<db, gen>>
    BY <1>5, <2>2 DEF Generate, Fail, DropGuard, TypeOK, PCs
  <2>3. QED
    BY <1>5, <2>1, <2>2 DEF Generate
<1>6. ASSUME NEW t \in Threads, Relookup(t) PROVE TypeOK'
  BY <1>6 DEF Relookup, Fail, DropGuard, TypeOK, PCs
<1>7. ASSUME NEW t \in Threads, Use(t) PROVE TypeOK'
  BY <1>7 DEF Use, DropGuard, TypeOK, PCs
<1>8. CASE Restart
  BY <1>8 DEF Restart, TypeOK, PCs, Fw
<1>9. CASE UNCHANGED vars
  BY <1>9 DEF vars, TypeOK, PCs
<1>10. QED
  BY <1>1, <1>2, <1>3, <1>4, <1>5, <1>6, <1>7, <1>8, <1>9 DEF Next

(* Initial states are well typed.                                          *)
LEMMA TypeInit == Init => TypeOK
<1> SUFFICES ASSUME Init PROVE TypeOK
  OBVIOUS
<1>1. 1 \in Gens /\ 1 \in Fw
  BY DEF Gens, Fw
<1>2. \A k \in Keys, u \in Uuids : [id |-> <<k, 1>>, ver |-> 1, uuid |-> u] \in Blob
  BY <1>1 DEF Blob, KeyIds
<1>3. db \in [Keys -> Blob \cup {Absent}]
  BY <1>2 DEF Init
<1>4. blob \in [Threads -> Blob]
  <2>1. alias \in [Threads -> Keys] /\ OwnUuid \in Uuids
    BY DEF Init, Uuids
  <2>2. \A t \in Threads : [id |-> <<alias[t], 1>>, ver |-> 1, uuid |-> OwnUuid] \in Blob
    BY <1>2, <2>1
  <2>3. QED
    BY <2>2 DEF Init
<1>5. QED
  BY <1>1, <1>3, <1>4 DEF Init, TypeOK, PCs

(* The type invariant of the raw device wrapper.                           *)
THEOREM TypeCorrect == Spec => []TypeOK
BY TypeInit, TypeStep, PTL DEF Spec

-----------------------------------------------------------------------------
(* Two threads inside lookup_or_generate_key work on different aliases:    *)
(* each holds the caller's lock of its own.                                *)
LEMMA AliasExclusive ==
    ASSUME CallerLockHeld, NEW s \in Threads, NEW t \in Threads, s # t,
           pc[s] # "idle", pc[t] # "idle"
    PROVE  alias[s] # alias[t]
BY DEF CallerLockHeld

(* The key lookup_or_generate_key returns is the one bound to its alias:   *)
(* the caller's lock keeps every other generation of the alias out while   *)
(* the thread works on it, and upgrades only raise the version in hand.    *)
THEOREM ReturnedKeyIsStoredThm == Spec => []ReturnedKeyIsStored
<1> USE DEF IInv
<1>1. Init => IInv
  BY TypeInit DEF Init, CallerLockHeld, WorkingOnCurrentKey, StoredNotNewer
<1>2. IInv /\ [Next]_vars => IInv'
  <2> SUFFICES ASSUME IInv, [Next]_vars PROVE IInv'
    OBVIOUS
  <2>0. TypeOK'
    BY TypeStep
  <2>1. ASSUME NEW t \in Threads, NEW k \in Keys, Acquire(t, k) PROVE IInv'
    <3>1. \A s \in Threads \ {t} : pc[s] # "idle" => alias[s] # k
      BY <2>1 DEF Acquire, CallerLockHeld, TypeOK
    <3>2. CallerLockHeld'
      BY <2>1, <3>1 DEF Acquire, CallerLockHeld, TypeOK
    <3>3. WorkingOnCurrentKey' /\ StoredNotNewer'
      BY <2>1 DEF Acquire, WorkingOnCurrentKey, StoredNotNewer, TypeOK
    <3>4. QED
      BY <2>0, <3>2, <3>3
  <2>2. ASSUME NEW t \in Threads, Lookup(t) PROVE IInv'
    <3>1. \A s \in Threads \ {t} : pc[s] # "idle" => alias[s] # alias[t]
      BY <2>2, AliasExclusive DEF Lookup
    <3>2. CallerLockHeld'
      BY <2>2, <3>1 DEF Lookup, Fail, DropGuard, CallerLockHeld, TypeOK
    <3> DEFINE e == db[alias[t]]
    <3>3. WorkingOnCurrentKey'
      <4>1. CASE Fail(t) /\ UNCHANGED blob
        BY <2>2, <4>1 DEF Lookup, Fail, WorkingOnCurrentKey, TypeOK
      <4>2. CASE ~OwnKey(e) /\ pc' = [pc EXCEPT ![t] = "generate"]
                 /\ UNCHANGED <<keyLock, blob>>
        BY <2>2, <4>2 DEF Lookup, WorkingOnCurrentKey, TypeOK
      <4>3. CASE OwnKey(e) /\ blob' = [blob EXCEPT ![t] = e]
                 /\ pc' = [pc EXCEPT ![t] = "chars"]
        <5>1. e \in Blob
          BY <4>3 DEF OwnKey, TypeOK
        <5>2. e.ver \in Nat
          BY <5>1 DEF Blob, Fw
        <5>3. QED
          BY <2>2, <4>3, <5>2 DEF Lookup, WorkingOnCurrentKey, OwnKey, TypeOK
      <4>4. QED
        BY <2>2, <4>1, <4>2, <4>3 DEF Lookup
    <3>4. StoredNotNewer'
      BY <2>2 DEF Lookup, Fail, DropGuard, StoredNotNewer
    <3>5. QED
      BY <2>0, <3>2, <3>3, <3>4
  <2>3. ASSUME NEW t \in Threads, Chars(t) PROVE IInv'
    <3>1. \A s \in Threads \ {t} : pc[s] # "idle" => alias[s] # alias[t]
      BY <2>3, AliasExclusive DEF Chars
    <3>2. CallerLockHeld'
      BY <2>3, <3>1 DEF Chars, Fail, DropGuard, CallerLockHeld, TypeOK
    <3>3. WorkingOnCurrentKey'
      BY <2>3 DEF Chars, Fail, DropGuard, WorkingOnCurrentKey, TypeOK
    <3>4. StoredNotNewer'
      BY <2>3 DEF Chars, Fail, DropGuard, StoredNotNewer
    <3>5. QED
      BY <2>0, <3>2, <3>3, <3>4
  <2>4. ASSUME NEW t \in Threads, UpgradeRaw(t) PROVE IInv'
    <3>1. \A s \in Threads \ {t} : pc[s] # "idle" => alias[s] # alias[t]
      BY <2>4, AliasExclusive DEF UpgradeRaw
    <3>2. CallerLockHeld'
      BY <2>4, <3>1 DEF UpgradeRaw, Fail, DropGuard, CallerLockHeld, TypeOK
    <3>3. OwnKey(db[alias[t]]) /\ db[alias[t]].ver <= fw
      BY <2>4 DEF UpgradeRaw, WorkingOnCurrentKey, StoredNotNewer, OwnKey, TypeOK
    <3>4. WorkingOnCurrentKey'
      BY <2>4, <3>3 DEF UpgradeRaw, Fail, DropGuard, WorkingOnCurrentKey, TypeOK,
         Blob, Fw
    <3>5. StoredNotNewer'
      BY <2>4 DEF UpgradeRaw, Fail, DropGuard, StoredNotNewer
    <3>6. QED
      BY <2>0, <3>2, <3>4, <3>5
  <2>5. ASSUME NEW t \in Threads, Generate(t) PROVE IInv'
    <3>1. \A s \in Threads \ {t} : pc[s] # "idle" => alias[s] # alias[t]
      BY <2>5, AliasExclusive DEF Generate
    <3>2. CallerLockHeld'
      BY <2>5, <3>1 DEF Generate, Fail, DropGuard, CallerLockHeld, TypeOK
    <3> DEFINE k == alias[t]
    <3>3. WorkingOnCurrentKey' /\ StoredNotNewer'
      <4>1. CASE Fail(t) /\ UNCHANGED <<db, gen>>
        BY <2>5, <4>1 DEF Generate, Fail, WorkingOnCurrentKey, StoredNotNewer, TypeOK
      <4>2. CASE /\ gen[k] < MaxGen
                 /\ db' = [db EXCEPT ![k] = [id |-> <<k, gen[k] + 1>>, ver |-> fw,
                                             uuid |-> OwnUuid]]
                 /\ pc' = [pc EXCEPT ![t] = "relookup"]
        <5>1. OwnKey(db'[k]) /\ db'[k].ver = fw
          BY <4>2 DEF OwnKey, TypeOK, Absent
        <5>2. fw \in Nat
          BY DEF TypeOK, Fw
        <5>3. \A j \in Keys \ {k} : db'[j] = db[j]
          BY <4>2 DEF TypeOK
        <5>4. StoredNotNewer'
          BY <2>5, <5>1, <5>2, <5>3 DEF Generate, StoredNotNewer
        <5>5. WorkingOnCurrentKey'
          BY <2>5, <3>1, <4>2, <5>1, <5>3 DEF Generate, WorkingOnCurrentKey, TypeOK
        <5>6. QED
          BY <5>4, <5>5
      <4>3. QED
        BY <2>5, <4>1, <4>2 DEF Generate
    <3>4. StoredNotNewer'
      BY <3>3
    <3>5. QED
      BY <2>0, <3>2, <3>3, <3>4
  <2>6. ASSUME NEW t \in Threads, Relookup(t) PROVE IInv'
    <3>1. \A s \in Threads \ {t} : pc[s] # "idle" => alias[s] # alias[t]
      BY <2>6, AliasExclusive DEF Relookup
    <3>2. CallerLockHeld'
      BY <2>6, <3>1 DEF Relookup, Fail, DropGuard, CallerLockHeld, TypeOK
    <3>3. WorkingOnCurrentKey'
      BY <2>6 DEF Relookup, Fail, DropGuard, WorkingOnCurrentKey, OwnKey, TypeOK, Blob, Fw
    <3>4. StoredNotNewer'
      BY <2>6 DEF Relookup, Fail, DropGuard, StoredNotNewer
    <3>5. QED
      BY <2>0, <3>2, <3>3, <3>4
  <2>7. ASSUME NEW t \in Threads, Use(t) PROVE IInv'
    <3>1. \A s \in Threads \ {t} : pc[s] # "idle" => alias[s] # alias[t]
      BY <2>7, AliasExclusive DEF Use
    <3>2. QED
      BY <2>0, <2>7, <3>1 DEF Use, DropGuard, CallerLockHeld, WorkingOnCurrentKey,
         StoredNotNewer, TypeOK
  <2>8. CASE Restart
    <3>1. \A k \in Keys : db[k] # Absent => db[k].ver \in Nat
      BY DEF TypeOK, Blob, Fw
    <3>2. fw \in Nat /\ fw' \in fw..MaxFw
      BY <2>8 DEF Restart, TypeOK, Fw
    <3>3. StoredNotNewer'
      BY <2>8, <3>1, <3>2 DEF Restart, StoredNotNewer
    <3>4. QED
      BY <2>0, <2>8, <3>3 DEF Restart, CallerLockHeld, WorkingOnCurrentKey
  <2>9. CASE UNCHANGED vars
    BY <2>0, <2>9 DEF vars, CallerLockHeld, WorkingOnCurrentKey, StoredNotNewer
  <2>10. QED
    BY <2>1, <2>2, <2>3, <2>4, <2>5, <2>6, <2>7, <2>8, <2>9 DEF Next
<1>3. IInv => ReturnedKeyIsStored
  BY DEF WorkingOnCurrentKey, ReturnedKeyIsStored, OwnKey
<1>4. QED
  BY <1>1, <1>2, <1>3, PTL DEF Spec
=============================================================================
