------------------------ MODULE SecurityLevelProofs ------------------------
(***************************************************************************)
(* Proofs about create_operation (SecurityLevel.tla), for every number of *)
(* threads, callers, keys, slots and firmware versions: the type          *)
(* invariant, that no KeyMint operation slot leaks, that an upgraded blob *)
(* is stored at most once per call.                                       *)
(***************************************************************************)
EXTENDS SecurityLevel, FiniteSetTheorems, SequenceTheorems,
        WellFoundedInduction, TLAPS

USE SecurityLevelAssumption

(* The calls between a successful begin and their registration.            *)
InComplete(p) == {t \in Threads : p[t] = "complete"}

-----------------------------------------------------------------------------
(* Facts about the library operators the model is built from.              *)

(* Removing one element of a sequence (RemoveAt, used by prune and by a   *)
(* finished operation) keeps its element type and shortens it by one.      *)
LEMMA RemoveAtProps ==
    ASSUME NEW S, NEW s \in Seq(S), NEW i \in 1..Len(s)
    PROVE  /\ RemoveAt(s, i) \in Seq(S)
           /\ Len(RemoveAt(s, i)) = Len(s) - 1
<1>1. Len(s) \in Nat /\ \A j \in 1..Len(s) : s[j] \in S
  BY LenProperties
<1>2. /\ SubSeq(s, 1, i - 1) \in Seq(S)
      /\ Len(SubSeq(s, 1, i - 1)) = i - 1
  BY <1>1, SubSeqProperties
<1>3. /\ SubSeq(s, i + 1, Len(s)) \in Seq(S)
      /\ Len(SubSeq(s, i + 1, Len(s))) = Len(s) - i
  BY <1>1, SubSeqProperties
<1>4. /\ SubSeq(s, 1, i - 1) \o SubSeq(s, i + 1, Len(s)) \in Seq(S)
      /\ Len(SubSeq(s, 1, i - 1) \o SubSeq(s, i + 1, Len(s)))
            = Len(SubSeq(s, 1, i - 1)) + Len(SubSeq(s, i + 1, Len(s)))
  BY <1>2, <1>3, ConcatProperties
<1>5. (i - 1) + (Len(s) - i) = Len(s) - 1
  BY <1>1
<1>6. RemoveAt(s, i) = SubSeq(s, 1, i - 1) \o SubSeq(s, i + 1, Len(s))
  BY DEF RemoveAt
<1>7. QED
  BY <1>2, <1>3, <1>4, <1>5, <1>6

(* A non-empty set of naturals has a least element, and Min names it.      *)
LEMMA MinOfNats ==
    ASSUME NEW T \in SUBSET Nat, T # {}
    PROVE  Min(T) \in T /\ \A y \in T : Min(T) <= y
<1>1. \E x \in T : \A y \in T : ~(<<y, x>> \in OpToRel(<, Nat))
  BY NatLessThanWellFounded, WFMin
<1>2. ASSUME NEW x \in T, NEW y \in T, ~(<<y, x>> \in OpToRel(<, Nat))
      PROVE  x <= y
  <2>1. <<y, x>> \in Nat \X Nat
    OBVIOUS
  <2>2. ~(y < x)
    BY <1>2, <2>1 DEF OpToRel
  <2>3. QED
    BY <2>2
<1>3. QED
  BY <1>1, <1>2 DEF Min

(* The index prune chooses, when it is not 0, is an index of the operation *)
(* database.                                                               *)
LEMMA PruneVictimProps ==
    ASSUME NEW c, NEW f \in BOOLEAN, ops \in Seq(Op),
           PruneVictim(c, f) # 0
    PROVE  PruneVictim(c, f) \in 1..Len(ops)
<1> DEFINE I == {i \in 1..Len(ops) : f \/ ops[i].owner = c}
<1>1. PruneVictim(c, f) = IF I # {} THEN Min(I) ELSE 0
  BY DEF PruneVictim, SelectInSeq
<1>2. I # {} /\ PruneVictim(c, f) = Min(I)
  BY <1>1
<1>3. I \in SUBSET Nat
  BY LenProperties
<1>4. Min(I) \in I
  BY <1>2, <1>3, MinOfNats
<1>5. QED
  BY <1>2, <1>4

(* Thread t entering "complete" adds one call to InComplete.               *)
LEMMA CompleteEnter ==
    ASSUME NEW p \in [Threads -> PCs], NEW t \in Threads, p[t] # "complete"
    PROVE  Cardinality(InComplete([p EXCEPT ![t] = "complete"]))
             = Cardinality(InComplete(p)) + 1
<1>1. IsFiniteSet(InComplete(p))
  BY FS_Subset DEF InComplete
<1>2. InComplete([p EXCEPT ![t] = "complete"]) = InComplete(p) \cup {t}
      /\ t \notin InComplete(p)
  BY DEF InComplete
<1>3. QED
  BY <1>1, <1>2, FS_AddElement

(* Thread t leaving "complete" removes one call from InComplete.           *)
LEMMA CompleteLeave ==
    ASSUME NEW p \in [Threads -> PCs], NEW t \in Threads, NEW x,
           p[t] = "complete", x # "complete"
    PROVE  Cardinality(InComplete([p EXCEPT ![t] = x]))
             = Cardinality(InComplete(p)) - 1
<1>1. IsFiniteSet(InComplete(p))
  BY FS_Subset DEF InComplete
<1>2. InComplete([p EXCEPT ![t] = x]) = InComplete(p) \ {t}
      /\ t \in InComplete(p)
  BY DEF InComplete
<1>3. QED
  BY <1>1, <1>2, FS_RemoveElement

(* A move of thread t that neither enters nor leaves "complete" keeps it.  *)
LEMMA CompleteSame ==
    ASSUME NEW p \in [Threads -> PCs], NEW t \in Threads, NEW x,
           p[t] # "complete", x # "complete"
    PROVE  InComplete([p EXCEPT ![t] = x]) = InComplete(p)
BY DEF InComplete

(* The number of calls in "complete" is a natural number.                  *)
LEMMA CompleteNat ==
    ASSUME NEW p \in [Threads -> PCs]
    PROVE  Cardinality(InComplete(p)) \in Nat
BY FS_Subset, FS_CardinalityType DEF InComplete
-----------------------------------------------------------------------------
(* The inductive invariant IInv (SecurityLevel.tla), one lemma per action. *)

(* NoSlotLeak in terms of InComplete, now and after a step.                *)
LEMMA NoSlotLeakDef ==
    /\ NoSlotLeak <=> kmOps = Len(ops) + Cardinality(InComplete(pc))
    /\ NoSlotLeak' <=> kmOps' = Len(ops') + Cardinality(InComplete(pc'))
BY DEF NoSlotLeak, InComplete

(* The initial states of the process satisfy IInv.                         *)
LEMMA InitIInv == Init => IInv
<1> SUFFICES ASSUME Init PROVE IInv
  OBVIOUS
<1>1. [ver |-> 1, uuid |-> OwnUuid, reenc |-> FALSE] \in Blob
  BY DEF Fw, Blob, Uuids
<1>2. th \in [Threads -> Call]
  <2>1. ASSUME NEW t \in Threads PROVE th[t] \in Call
    <3>1. PICK k \in Keys, c \in Callers :
             th[t] = [key |-> k, caller |-> c, forced |-> FALSE,
                      blob |-> [ver |-> 1, uuid |-> OwnUuid, reenc |-> FALSE],
                      guard |-> FALSE, upgraded |-> FALSE, stores |-> 0,
                      result |-> "none"]
      BY DEF Init
    <3>2. QED
      BY <1>1, <3>1 DEF Call
  <2>2. QED
    BY <2>1 DEF Init
<1>3. db \in [Keys -> Blob \cup {Absent}]
  BY DEF Init, Blob, Fw
<1>4. TypeOK
  BY <1>2, <1>3 DEF Init, TypeOK, Fw, PCs
<1>5. InComplete(pc) = {} /\ kmOps = 0 /\ ops = <<>>
  BY DEF Init, InComplete
<1>6. NoSlotLeak
  BY <1>5, NoSlotLeakDef, FS_EmptySet
<1>7. QED
  BY <1>4, <1>6 DEF Init, IInv, AtMostOneStore, GuardUnstored, LoadUnstored,
     GuardHeld

(* Returning an error from a step before begin succeeded keeps IInv: the   *)
(* thread becomes idle and releases only the locks it holds.               *)
LEMMA FailStep ==
    ASSUME IInv, NEW t \in Threads, pc[t] # "complete", Fail(t),
           UNCHANGED <<fw, db, kmOps, ops>>
    PROVE  IInv'
<1>1. /\ pc' = [pc EXCEPT ![t] = "idle"]
      /\ keyLock' = [k \in Keys |-> IF keyLock[k] = t THEN NoThread ELSE keyLock[k]]
      /\ th' = [th EXCEPT ![t].result = "error"]
  BY DEF Fail, Leave
<1>2. TypeOK /\ th \in [Threads -> Call] /\ pc \in [Threads -> PCs]
  BY DEF IInv, TypeOK
<1>3. /\ th'[t] = [th[t] EXCEPT !.result = "error"]
      /\ \A s \in Threads \ {t} : th'[s] = th[s]
  BY <1>1, <1>2
<1>3a. th'[t] \in Call /\ th'[t].guard = th[t].guard /\ th'[t].stores = th[t].stores
       /\ th'[t].key = th[t].key
  <2>1. th[t] \in Call
    BY <1>2
  <2>2. QED
    BY <1>3, <2>1 DEF Call
<1>4. TypeOK'
  BY <1>1, <1>2, <1>3, <1>3a DEF TypeOK, PCs
<1>5. InComplete(pc') = InComplete(pc)
  BY <1>1, <1>2, CompleteSame
<1>6. NoSlotLeak'
  BY <1>5, NoSlotLeakDef DEF IInv
<1>7. (AtMostOneStore /\ GuardUnstored /\ LoadUnstored)'
  BY <1>1, <1>2, <1>3, <1>3a DEF IInv, AtMostOneStore, GuardUnstored, LoadUnstored
<1>8. GuardHeld'
  <2>1. SUFFICES ASSUME NEW s \in Threads, th'[s].guard, pc'[s] \notin {"idle", "load"}
                 PROVE  keyLock'[th'[s].key] = s
    BY DEF GuardHeld
  <2>2. s # t /\ th'[s] = th[s] /\ pc'[s] = pc[s]
    BY <1>1, <1>2, <2>1
  <2>3. keyLock[th[s].key] = s /\ th[s].key \in Keys
    BY <2>1, <2>2 DEF IInv, GuardHeld, TypeOK, Call
  <2>4. QED
    BY <1>1, <2>2, <2>3
<1>9. QED
  BY <1>4, <1>6, <1>7, <1>8 DEF IInv

(* A createOperation call arriving on an idle thread keeps IInv.           *)
LEMMA RequestStep ==
    ASSUME IInv, NEW t \in Threads, NEW k \in Keys, NEW c \in Callers,
           NEW f \in BOOLEAN, Request(t, k, c, f)
    PROVE  IInv'
<1>1. TypeOK /\ th \in [Threads -> Call] /\ pc \in [Threads -> PCs] /\ pc[t] = "idle"
  BY DEF IInv, TypeOK, Request
<1>2. /\ pc' = [pc EXCEPT ![t] = "load"]
      /\ th' = [th EXCEPT ![t] = [th[t] EXCEPT !.key = k, !.caller = c, !.forced = f,
                                   !.guard = FALSE, !.upgraded = FALSE,
                                   !.stores = 0, !.result = "none"]]
      /\ UNCHANGED <<fw, db, keyLock, kmOps, ops>>
  BY DEF Request
<1>3. th'[t] \in Call /\ th'[t].guard = FALSE /\ th'[t].stores = 0
  <2>1. th[t] \in Call
    BY <1>1
  <2>2. th'[t] = [th[t] EXCEPT !.key = k, !.caller = c, !.forced = f,
                               !.guard = FALSE, !.upgraded = FALSE,
                               !.stores = 0, !.result = "none"]
    BY <1>1, <1>2
  <2>3. th'[t] = [key |-> k, caller |-> c, forced |-> f, blob |-> th[t].blob,
                 guard |-> FALSE, upgraded |-> FALSE, stores |-> 0,
                 result |-> "none"]
    BY <2>1, <2>2 DEF Call
  <2>4. QED
    BY <2>1, <2>3 DEF Call
<1>4. \A s \in Threads \ {t} : th'[s] = th[s] /\ pc'[s] = pc[s]
  BY <1>1, <1>2
<1>5. TypeOK'
  BY <1>1, <1>2, <1>3, <1>4 DEF TypeOK, PCs
<1>6. InComplete(pc') = InComplete(pc)
  BY <1>1, <1>2, CompleteSame
<1>7. NoSlotLeak'
  BY <1>2, <1>6, NoSlotLeakDef DEF IInv
<1>8. (AtMostOneStore /\ GuardUnstored /\ LoadUnstored /\ GuardHeld)'
  BY <1>1, <1>2, <1>3, <1>4 DEF IInv, AtMostOneStore, GuardUnstored,
     LoadUnstored, GuardHeld
<1>9. QED
  BY <1>5, <1>7, <1>8 DEF IInv

(* load_key_entry, taking the KeyIdGuard or failing, keeps IInv.           *)
LEMMA LoadStep ==
    ASSUME IInv, NEW t \in Threads, Load(t)
    PROVE  IInv'
<1> DEFINE k == th[t].key
<1>1. CASE Fail(t)
  BY <1>1, FailStep DEF Load
<1>2. CASE /\ db[k] # Absent /\ keyLock[k] = NoThread /\ pc[t] = "load"
           /\ keyLock' = [keyLock EXCEPT ![k] = t]
           /\ pc' = [pc EXCEPT ![t] = "authorize"]
           /\ th' = [th EXCEPT ![t].blob = db[k], ![t].guard = TRUE]
           /\ UNCHANGED <<fw, db, kmOps, ops>>
  <2>1. TypeOK /\ th \in [Threads -> Call] /\ pc \in [Threads -> PCs]
    BY DEF IInv, TypeOK
  <2>2. k \in Keys /\ db[k] \in Blob
    BY <1>2, <2>1 DEF TypeOK, Call
  <2>3. /\ th'[t] = [th[t] EXCEPT !.blob = db[k], !.guard = TRUE]
        /\ \A s \in Threads \ {t} : th'[s] = th[s] /\ pc'[s] = pc[s]
    BY <1>2, <2>1
  <2>4. th'[t] \in Call /\ th'[t].key = k /\ th'[t].stores = th[t].stores
        /\ th'[t].guard
    <3>1. th[t] \in Call
      BY <2>1
    <3>2. QED
      BY <2>2, <2>3, <3>1 DEF Call
  <2>5. TypeOK'
    BY <1>2, <2>1, <2>3, <2>4 DEF TypeOK, PCs
  <2>6. InComplete(pc') = InComplete(pc)
    BY <1>2, <2>1, CompleteSame
  <2>7. NoSlotLeak'
    BY <1>2, <2>6, NoSlotLeakDef DEF IInv
  <2>8. th[t].stores = 0
    BY <1>2 DEF IInv, LoadUnstored
  <2>9. (AtMostOneStore /\ GuardUnstored /\ LoadUnstored)'
    BY <1>2, <2>1, <2>3, <2>4, <2>8 DEF IInv, AtMostOneStore, GuardUnstored,
       LoadUnstored
  <2>10. GuardHeld'
    <3>1. SUFFICES ASSUME NEW s \in Threads, th'[s].guard, pc'[s] \notin {"idle", "load"}
                   PROVE  keyLock'[th'[s].key] = s
      BY DEF GuardHeld
    <3>2. CASE s = t
      <4>1. keyLock'[k] = t
        BY <1>2, <2>1, <2>2 DEF TypeOK
      <4>2. QED
        BY <2>4, <3>2, <4>1
    <3>3. CASE s # t
      <4>1. keyLock[th[s].key] = s /\ th[s].key \in Keys
        BY <2>1, <2>3, <3>1, <3>3 DEF IInv, GuardHeld, Call
      <4>2. th[s].key # k
        BY <1>2, <4>1, SecurityLevelAssumption
      <4>3. keyLock'[th[s].key] = keyLock[th[s].key]
        BY <1>2, <2>1, <4>1, <4>2 DEF TypeOK
      <4>4. QED
        BY <2>3, <3>3, <4>1, <4>3
    <3>4. QED
      BY <3>2, <3>3
  <2>11. QED
    BY <2>5, <2>7, <2>9, <2>10 DEF IInv
<1>3. QED
  BY <1>1, <1>2 DEF Load

(* Authorization and unwrapping, passing or failing, keep IInv.            *)
LEMMA AuthorizeStep ==
    ASSUME IInv, NEW t \in Threads, Authorize(t)
    PROVE  IInv'
<1>1. CASE Fail(t)
  BY <1>1, FailStep DEF Authorize
<1>2. CASE /\ pc[t] = "authorize" /\ pc' = [pc EXCEPT ![t] = "begin"]
           /\ UNCHANGED <<th, keyLock, fw, db, kmOps, ops>>
  <2>1. TypeOK /\ pc \in [Threads -> PCs]
    BY DEF IInv, TypeOK
  <2>2. TypeOK'
    BY <1>2, <2>1 DEF TypeOK, PCs
  <2>3. InComplete(pc') = InComplete(pc)
    BY <1>2, <2>1, CompleteSame
  <2>4. NoSlotLeak'
    BY <1>2, <2>3, NoSlotLeakDef DEF IInv
  <2>5. (AtMostOneStore /\ GuardUnstored /\ LoadUnstored /\ GuardHeld)'
    BY <1>2, <2>1 DEF IInv, AtMostOneStore, GuardUnstored, LoadUnstored,
       GuardHeld
  <2>6. QED
    BY <2>2, <2>4, <2>5 DEF IInv
<1>3. QED
  BY <1>1, <1>2 DEF Authorize
(* begin succeeds only while a slot is free.                              *)
LEMMA BeginOkHasSlot ==
    ASSUME NEW b, kmOps \in Nat, "OK" \in BeginResults(b)
    PROVE  kmOps < Slots
<1>1. ~(kmOps >= Slots)
  BY DEF BeginResults
<1>2. QED
  BY <1>1

(* A move of thread t from one step before begin succeeded to another.     *)
(* It leaves th, keyLock, kmOps and ops alone and keeps IInv.              *)
LEMMA MoveStep ==
    ASSUME IInv, NEW t \in Threads, NEW x \in PCs \ {"complete"},
           pc[t] # "complete", x # "idle", x # "load",
           pc' = [pc EXCEPT ![t] = x],
           UNCHANGED <<fw, db, keyLock, kmOps, ops, th>>,
           pc[t] \notin {"idle", "load"}
    PROVE  IInv'
<1>1. TypeOK /\ pc \in [Threads -> PCs]
  BY DEF IInv, TypeOK
<1>2. TypeOK'
  BY <1>1 DEF TypeOK
<1>3. InComplete(pc') = InComplete(pc)
  BY <1>1, CompleteSame
<1>4. NoSlotLeak'
  BY <1>3, NoSlotLeakDef DEF IInv
<1>5. (AtMostOneStore /\ GuardUnstored /\ LoadUnstored /\ GuardHeld)'
  BY <1>1 DEF IInv, AtMostOneStore, GuardUnstored, LoadUnstored, GuardHeld
<1>6. QED
  BY <1>2, <1>4, <1>5 DEF IInv

(* One IKeyMintDevice::begin call of the loop keeps IInv.                  *)
LEMMA BeginStep ==
    ASSUME IInv, NEW t \in Threads, Begin(t)
    PROVE  IInv'
<1>1. PICK r \in BeginResults(th[t].blob) :
         CASE r = "OK" ->
                /\ kmOps' = kmOps + 1
                /\ pc' = [pc EXCEPT ![t] = "complete"]
                /\ UNCHANGED <<th, keyLock>>
           [] r = "TOO_MANY_OPERATIONS" ->
                /\ pc' = [pc EXCEPT ![t] = "prune"]
                /\ UNCHANGED <<th, keyLock, kmOps>>
           [] r = "KEY_REQUIRES_UPGRADE" /\ ~th[t].upgraded ->
                /\ pc' = [pc EXCEPT ![t] = "upgrade"]
                /\ UNCHANGED <<th, keyLock, kmOps>>
           [] OTHER ->
                /\ Fail(t)
                /\ UNCHANGED kmOps
  BY DEF Begin
<1>2. pc[t] = "begin" /\ UNCHANGED <<fw, db, ops>>
  BY DEF Begin
<1>3. CASE r = "OK"
  <2>1. /\ kmOps' = kmOps + 1
        /\ pc' = [pc EXCEPT ![t] = "complete"]
        /\ UNCHANGED <<th, keyLock>>
    BY <1>1, <1>3
  <2>2. TypeOK /\ pc \in [Threads -> PCs] /\ kmOps \in Nat
    BY DEF IInv, TypeOK
  <2>3. kmOps < Slots
    BY <1>3, <2>2, BeginOkHasSlot
  <2>4. TypeOK'
    BY <1>2, <2>1, <2>2, <2>3 DEF TypeOK, PCs
  <2>5. Cardinality(InComplete(pc')) = Cardinality(InComplete(pc)) + 1
    BY <1>2, <2>1, <2>2, CompleteEnter
  <2>6. NoSlotLeak'
    <3>1. Cardinality(InComplete(pc)) \in Nat /\ Len(ops) \in Nat
      BY <2>2, CompleteNat, LenProperties DEF TypeOK
    <3>2. kmOps = Len(ops) + Cardinality(InComplete(pc))
      BY NoSlotLeakDef DEF IInv
    <3>3. QED
      BY <1>2, <2>1, <2>5, <3>1, <3>2, NoSlotLeakDef
  <2>7. (AtMostOneStore /\ GuardUnstored /\ LoadUnstored /\ GuardHeld)'
    BY <1>2, <2>1, <2>2 DEF IInv, AtMostOneStore, GuardUnstored,
       LoadUnstored, GuardHeld
  <2>8. QED
    BY <2>4, <2>6, <2>7 DEF IInv
<1>4. CASE r = "TOO_MANY_OPERATIONS"
  BY <1>1, <1>2, <1>4, MoveStep DEF PCs
<1>5. CASE r = "KEY_REQUIRES_UPGRADE" /\ ~th[t].upgraded
  BY <1>1, <1>2, <1>5, MoveStep DEF PCs
<1>6. CASE r # "OK" /\ r # "TOO_MANY_OPERATIONS"
           /\ ~(r = "KEY_REQUIRES_UPGRADE" /\ ~th[t].upgraded)
  <2>1. Fail(t) /\ UNCHANGED kmOps
    BY <1>1, <1>6
  <2>2. QED
    BY <1>2, <2>1, FailStep
<1>7. QED
  BY <1>3, <1>4, <1>5, <1>6

(* operation_db.prune, evicting a victim or failing, keeps IInv.           *)
LEMMA PruneStep ==
    ASSUME IInv, NEW t \in Threads, Prune(t)
    PROVE  IInv'
<1> DEFINE v == PruneVictim(th[t].caller, th[t].forced)
<1>1. pc[t] = "prune" /\ UNCHANGED <<fw, db>>
  BY DEF Prune
<1>2. CASE v = 0
  BY <1>1, <1>2, FailStep DEF Prune
<1>3. CASE v # 0
  <2>1. /\ ops' = RemoveAt(ops, v)
        /\ kmOps' = kmOps - 1
        /\ pc' = [pc EXCEPT ![t] = "begin"]
        /\ UNCHANGED <<th, keyLock>>
    BY <1>3 DEF Prune
  <2>2. TypeOK /\ pc \in [Threads -> PCs] /\ ops \in Seq(Op) /\ kmOps \in 0..Slots
        /\ th[t] \in Call
    BY DEF IInv, TypeOK
  <2>3. v \in 1..Len(ops)
    BY <1>3, <2>2, PruneVictimProps DEF Call
  <2>4. RemoveAt(ops, v) \in Seq(Op) /\ Len(RemoveAt(ops, v)) = Len(ops) - 1
    BY <2>2, <2>3, RemoveAtProps
  <2>5. Cardinality(InComplete(pc)) \in Nat /\ Len(ops) \in Nat
    BY <2>2, CompleteNat, LenProperties
  <2>6. InComplete(pc') = InComplete(pc)
    BY <1>1, <2>1, <2>2, CompleteSame
  <2>7. kmOps = Len(ops) + Cardinality(InComplete(pc))
    BY NoSlotLeakDef DEF IInv
  <2>8. kmOps - 1 \in 0..Slots
    BY <2>2, <2>3, <2>5, <2>7
  <2>9. TypeOK'
    BY <1>1, <2>1, <2>2, <2>4, <2>8 DEF TypeOK, PCs
  <2>10. NoSlotLeak'
    BY <2>1, <2>4, <2>5, <2>6, <2>7, NoSlotLeakDef
  <2>11. (AtMostOneStore /\ GuardUnstored /\ LoadUnstored /\ GuardHeld)'
    BY <1>1, <2>1, <2>2 DEF IInv, AtMostOneStore, GuardUnstored,
       LoadUnstored, GuardHeld
  <2>12. QED
    BY <2>9, <2>10, <2>11 DEF IInv
<1>4. QED
  BY <1>2, <1>3

(* IKeyMintDevice::upgradeKey, passing or failing, keeps IInv.             *)
LEMMA UpgradeStep ==
    ASSUME IInv, NEW t \in Threads, Upgrade(t)
    PROVE  IInv'
<1>1. pc[t] = "upgrade" /\ UNCHANGED <<fw, db, kmOps, ops>>
  BY DEF Upgrade
<1>2. CASE Fail(t)
  BY <1>1, <1>2, FailStep
<1>3. CASE /\ pc' = [pc EXCEPT ![t] = "store"]
           /\ th' = [th EXCEPT ![t].blob.ver = fw, ![t].upgraded = TRUE]
           /\ UNCHANGED keyLock
  <2>1. TypeOK /\ pc \in [Threads -> PCs] /\ th \in [Threads -> Call] /\ fw \in Fw
    BY DEF IInv, TypeOK
  <2>2. th[t] \in Call /\ th[t].blob \in Blob
    BY <2>1 DEF Call
  <2>3. th'[t] = [th[t] EXCEPT !.blob = [th[t].blob EXCEPT !.ver = fw],
                               !.upgraded = TRUE]
        /\ \A s \in Threads \ {t} : th'[s] = th[s]
    BY <1>3, <2>1
  <2>4. [th[t].blob EXCEPT !.ver = fw] \in Blob
    BY <2>1, <2>2 DEF Blob
  <2>5. th'[t] \in Call /\ th'[t].key = th[t].key /\ th'[t].guard = th[t].guard
        /\ th'[t].stores = th[t].stores
    BY <2>2, <2>3, <2>4 DEF Call
  <2>6. TypeOK'
    BY <1>1, <1>3, <2>1, <2>3, <2>5 DEF TypeOK, PCs
  <2>7. InComplete(pc') = InComplete(pc)
    BY <1>1, <1>3, <2>1, CompleteSame
  <2>8. NoSlotLeak'
    BY <1>1, <2>7, NoSlotLeakDef DEF IInv
  <2>9. (AtMostOneStore /\ GuardUnstored /\ LoadUnstored /\ GuardHeld)'
    BY <1>1, <1>3, <2>1, <2>3, <2>5 DEF IInv, AtMostOneStore, GuardUnstored,
       LoadUnstored, GuardHeld
  <2>10. QED
    BY <2>6, <2>8, <2>9 DEF IInv
<1>4. QED
  BY <1>2, <1>3 DEF Upgrade
(* store_upgraded_keyblob, taking and dropping the guard, keeps IInv.      *)
LEMMA StoreUpgradedStep ==
    ASSUME IInv, NEW t \in Threads, StoreUpgraded(t)
    PROVE  IInv'
<1>1. /\ pc[t] = "store"
      /\ pc' = [pc EXCEPT ![t] = "begin"]
      /\ th' = [th EXCEPT ![t].stores = IF th[t].guard THEN @ + 1 ELSE @,
                          ![t].guard = FALSE]
      /\ keyLock' = IF th[t].guard THEN [keyLock EXCEPT ![th[t].key] = NoThread]
                                   ELSE keyLock
      /\ UNCHANGED <<fw, db, kmOps, ops>>
  BY DEF StoreUpgraded
<1>2. TypeOK /\ pc \in [Threads -> PCs] /\ th \in [Threads -> Call]
      /\ keyLock \in [Keys -> Threads \cup {NoThread}]
  BY DEF IInv, TypeOK
<1>3. th[t] \in Call /\ th[t].key \in Keys /\ th[t].stores \in 0..2
  BY <1>2 DEF Call
<1>4. th[t].guard => th[t].stores = 0
  BY DEF IInv, GuardUnstored
<1>5. th[t].stores <= 1
  BY DEF IInv, AtMostOneStore
<1>6. /\ th'[t] = [th[t] EXCEPT !.stores = IF th[t].guard THEN th[t].stores + 1
                                                          ELSE th[t].stores,
                               !.guard = FALSE]
      /\ \A s \in Threads \ {t} : th'[s] = th[s]
  BY <1>1, <1>2
<1>7. (IF th[t].guard THEN th[t].stores + 1 ELSE th[t].stores) \in 0..1
  BY <1>3, <1>4, <1>5
<1>8. th'[t] \in Call /\ th'[t].stores \in 0..1 /\ ~th'[t].guard
      /\ th'[t].key = th[t].key
  <2>1. PICK x \in 0..2 : x = IF th[t].guard THEN th[t].stores + 1 ELSE th[t].stores
    BY <1>7
  <2>2. th'[t] = [th[t] EXCEPT !.stores = x, !.guard = FALSE]
    BY <1>6, <2>1
  <2>3. th'[t] \in Call /\ th'[t].stores = x /\ ~th'[t].guard /\ th'[t].key = th[t].key
    BY <1>3, <2>2 DEF Call
  <2>4. QED
    BY <1>7, <2>1, <2>3
<1>9. TypeOK'
  BY <1>1, <1>2, <1>3, <1>6, <1>8 DEF TypeOK, PCs
<1>10. InComplete(pc') = InComplete(pc)
  BY <1>1, <1>2, CompleteSame
<1>11. NoSlotLeak'
  BY <1>1, <1>10, NoSlotLeakDef DEF IInv
<1>12. (AtMostOneStore /\ GuardUnstored /\ LoadUnstored)'
  BY <1>1, <1>2, <1>6, <1>8 DEF IInv, AtMostOneStore, GuardUnstored,
     LoadUnstored
<1>13. GuardHeld'
  <2>1. SUFFICES ASSUME NEW s \in Threads, th'[s].guard, pc'[s] \notin {"idle", "load"}
                 PROVE  keyLock'[th'[s].key] = s
    BY DEF GuardHeld
  <2>2. s # t /\ th'[s] = th[s] /\ pc'[s] = pc[s]
    BY <1>1, <1>2, <1>6, <1>8, <2>1
  <2>3. keyLock[th[s].key] = s /\ th[s].key \in Keys
    BY <1>2, <2>1, <2>2 DEF IInv, GuardHeld, Call
  <2>4. th[t].guard => keyLock[th[t].key] = t
    BY <1>1 DEF IInv, GuardHeld
  <2>5. th[t].guard => th[s].key # th[t].key
    BY <2>2, <2>3, <2>4
  <2>6. QED
    BY <1>1, <1>2, <1>3, <2>2, <2>3, <2>5
<1>14. QED
  BY <1>9, <1>11, <1>12, <1>13 DEF IInv

(* The part of Complete common to its two branches: the thread leaves    *)
(* with a store count of at most one, without its guard.                   *)
LEMMA CompleteCommon ==
    ASSUME IInv, NEW t \in Threads,
           pc[t] = "complete",
           pc' = [pc EXCEPT ![t] = "idle"],
           keyLock' = [k \in Keys |-> IF keyLock[k] = t THEN NoThread ELSE keyLock[k]],
           th'[t] \in Call, th'[t].stores \in 0..1, ~th'[t].guard,
           \A s \in Threads \ {t} : th'[s] = th[s],
           th' \in [Threads -> Call],
           UNCHANGED <<fw, db>>, kmOps' \in 0..Slots, ops' \in Seq(Op)
    PROVE  (TypeOK /\ AtMostOneStore /\ GuardUnstored /\ LoadUnstored /\ GuardHeld)'
<1>1. TypeOK /\ pc \in [Threads -> PCs] /\ th \in [Threads -> Call]
  BY DEF IInv, TypeOK
<1>2. th'[t] \in Call /\ th'[t].stores \in 0..1 /\ ~th'[t].guard
  OBVIOUS
<1>3. \A s \in Threads \ {t} : th'[s] = th[s] /\ pc'[s] = pc[s]
  BY <1>1
<1>4. TypeOK'
  BY <1>1, <1>2, <1>3 DEF TypeOK, PCs
<1>5. (AtMostOneStore /\ GuardUnstored /\ LoadUnstored)'
  <2>1. th'[t].stores <= 1
    BY <1>2
  <2>2. QED
    BY <1>1, <1>2, <1>3, <2>1 DEF IInv, AtMostOneStore, GuardUnstored, LoadUnstored
<1>6. GuardHeld'
  <2>1. SUFFICES ASSUME NEW s \in Threads, th'[s].guard, pc'[s] \notin {"idle", "load"}
                 PROVE  keyLock'[th'[s].key] = s
    BY DEF GuardHeld
  <2>2. s # t /\ th'[s] = th[s] /\ pc'[s] = pc[s]
    BY <1>1, <1>2, <1>3, <2>1
  <2>3. keyLock[th[s].key] = s /\ th[s].key \in Keys
    BY <1>1, <2>1, <2>2 DEF IInv, GuardHeld, Call
  <2>4. QED
    BY <2>2, <2>3
<1>7. QED
  BY <1>4, <1>5, <1>6

(* The forced re-encryption and the registration keep IInv.                *)
LEMMA CompleteStep ==
    ASSUME IInv, NEW t \in Threads, Complete(t)
    PROVE  IInv'
<1> DEFINE forcedStore == th[t].blob.reenc /\ th[t].guard
<1>1. /\ pc[t] = "complete"
      /\ pc' = [pc EXCEPT ![t] = "idle"]
      /\ keyLock' = [k \in Keys |-> IF keyLock[k] = t THEN NoThread ELSE keyLock[k]]
      /\ UNCHANGED <<fw, db>>
  BY DEF Complete, Leave
<1>2. TypeOK /\ pc \in [Threads -> PCs] /\ th \in [Threads -> Call]
      /\ ops \in Seq(Op) /\ kmOps \in 0..Slots
  BY DEF IInv, TypeOK
<1>3. th[t] \in Call /\ th[t].stores \in 0..2 /\ th[t].caller \in Callers
      /\ th[t].forced \in BOOLEAN
  BY <1>2 DEF Call
<1>4. (th[t].guard => th[t].stores = 0) /\ th[t].stores <= 1
  BY DEF IInv, GuardUnstored, AtMostOneStore
<1>5. Cardinality(InComplete(pc')) = Cardinality(InComplete(pc)) - 1
  BY <1>1, <1>2, CompleteLeave
<1>6. /\ Cardinality(InComplete(pc)) \in Nat /\ Cardinality(InComplete(pc')) \in Nat
      /\ Len(ops) \in Nat
  BY <1>1, <1>2, CompleteNat, LenProperties DEF PCs
<1>7. kmOps = Len(ops) + Cardinality(InComplete(pc))
  BY NoSlotLeakDef DEF IInv
<1>8. CASE /\ forcedStore
           /\ th' = [th EXCEPT ![t].stores = @ + 1, ![t].guard = FALSE,
                               ![t].result = "error"]
           /\ kmOps' = kmOps - 1
           /\ UNCHANGED ops
  <2>1. th[t].stores + 1 \in 0..1 /\ "error" \in Results
    BY <1>3, <1>4, <1>8 DEF Results
  <2>2. kmOps - 1 \in 0..Slots
    BY <1>2, <1>5, <1>6, <1>7
  <2>3. th' = [th EXCEPT ![t] = [th[t] EXCEPT !.stores = th[t].stores + 1,
                                              !.guard = FALSE, !.result = "error"]]
    BY <1>2, <1>8
  <2>4. /\ th'[t] = [th[t] EXCEPT !.stores = th[t].stores + 1,
                                   !.guard = FALSE, !.result = "error"]
        /\ \A s \in Threads \ {t} : th'[s] = th[s]
        /\ th' \in [Threads -> Call \cup {th'[t]}]
    BY <1>2, <2>3
  <2>5. th'[t] \in Call /\ th'[t].stores \in 0..1 /\ ~th'[t].guard
    <3>1. PICK x \in 0..2 : x = th[t].stores + 1
      BY <2>1
    <3>1a. x <= 1
      BY <2>1, <3>1
    <3>2. th'[t] = [th[t] EXCEPT !.stores = x, !.guard = FALSE, !.result = "error"]
      BY <2>4, <3>1
    <3>3. th'[t] \in Call /\ th'[t].stores = x /\ ~th'[t].guard
      BY <1>3, <3>2 DEF Call, Results
    <3>4. QED
      BY <3>1a, <3>3
  <2>6. th' \in [Threads -> Call]
    BY <1>2, <2>4, <2>5, <2>3
  <2>7. (TypeOK /\ AtMostOneStore /\ GuardUnstored /\ LoadUnstored /\ GuardHeld)'
    <3>1. kmOps' \in 0..Slots /\ ops' \in Seq(Op)
      BY <1>2, <1>8, <2>2
    <3>2. QED
      BY <1>1, <2>4, <2>5, <2>6, <3>1, CompleteCommon
  <2>8. NoSlotLeak'
    BY <1>5, <1>6, <1>7, <1>8, NoSlotLeakDef
  <2>9. QED
    BY <2>7, <2>8 DEF IInv
<1>9. CASE /\ th' = [th EXCEPT ![t].stores = IF forcedStore THEN @ + 1 ELSE @,
                               ![t].guard = FALSE, ![t].result = "ok"]
           /\ RegisterOp(t)
           /\ UNCHANGED kmOps
  <2>1. (IF forcedStore THEN th[t].stores + 1 ELSE th[t].stores) \in 0..1
        /\ "ok" \in Results
    BY <1>3, <1>4 DEF Results
  <2>2. [owner |-> th[t].caller, forced |-> th[t].forced] \in Op
    BY <1>3 DEF Op
  <2>3. /\ ops' = Append(ops, [owner |-> th[t].caller, forced |-> th[t].forced])
        /\ ops' \in Seq(Op) /\ Len(ops') = Len(ops) + 1
    BY <1>2, <1>9, <2>2, AppendProperties DEF RegisterOp
  <2>4. th' = [th EXCEPT ![t] = [th[t] EXCEPT
                 !.stores = IF forcedStore THEN th[t].stores + 1 ELSE th[t].stores,
                 !.guard = FALSE, !.result = "ok"]]
    BY <1>2, <1>9
  <2>5. /\ th'[t] = [th[t] EXCEPT
                 !.stores = IF forcedStore THEN th[t].stores + 1 ELSE th[t].stores,
                 !.guard = FALSE, !.result = "ok"]
        /\ \A s \in Threads \ {t} : th'[s] = th[s]
        /\ th' \in [Threads -> Call \cup {th'[t]}]
    BY <1>2, <2>4
  <2>8. th'[t] \in Call /\ th'[t].stores \in 0..1 /\ ~th'[t].guard
    <3>1. PICK x \in 0..2 : x = IF forcedStore THEN th[t].stores + 1 ELSE th[t].stores
      BY <2>1
    <3>1a. x <= 1
      BY <2>1, <3>1
    <3>2. th'[t] = [th[t] EXCEPT !.stores = x, !.guard = FALSE, !.result = "ok"]
      BY <2>5, <3>1
    <3>3. th'[t] \in Call /\ th'[t].stores = x /\ ~th'[t].guard
      BY <1>3, <3>2 DEF Call, Results
    <3>4. QED
      BY <3>1a, <3>3
  <2>9. th' \in [Threads -> Call]
    BY <1>2, <2>5, <2>8
  <2>10. (TypeOK /\ AtMostOneStore /\ GuardUnstored /\ LoadUnstored /\ GuardHeld)'
    BY <1>1, <1>2, <1>9, <2>3, <2>5, <2>8, <2>9, CompleteCommon
  <2>11. NoSlotLeak'
    BY <1>5, <1>6, <1>7, <1>9, <2>3, NoSlotLeakDef
  <2>12. QED
    BY <2>10, <2>11 DEF IInv
<1>10. QED
  BY <1>8, <1>9 DEF Complete

(* A client finishing or aborting an operation keeps IInv.                 *)
LEMMA FinishOpStep ==
    ASSUME IInv, NEW i \in 1..Len(ops), FinishOp(i)
    PROVE  IInv'
<1>1. /\ ops' = RemoveAt(ops, i) /\ kmOps' = kmOps - 1
      /\ UNCHANGED <<fw, db, keyLock, pc, th>>
  BY DEF FinishOp
<1>2. TypeOK /\ ops \in Seq(Op) /\ kmOps \in 0..Slots /\ pc \in [Threads -> PCs]
  BY DEF IInv, TypeOK
<1>3. RemoveAt(ops, i) \in Seq(Op) /\ Len(RemoveAt(ops, i)) = Len(ops) - 1
  BY <1>2, RemoveAtProps
<1>4. Cardinality(InComplete(pc)) \in Nat /\ Len(ops) \in Nat
  BY <1>2, CompleteNat, LenProperties
<1>5. kmOps = Len(ops) + Cardinality(InComplete(pc))
  BY NoSlotLeakDef DEF IInv
<1>6. kmOps - 1 \in 0..Slots
  BY <1>2, <1>4, <1>5
<1>7. TypeOK'
  BY <1>1, <1>2, <1>3, <1>6 DEF TypeOK
<1>8. NoSlotLeak'
  BY <1>1, <1>3, <1>4, <1>5, NoSlotLeakDef
<1>9. (AtMostOneStore /\ GuardUnstored /\ LoadUnstored /\ GuardHeld)'
  BY <1>1 DEF IInv, AtMostOneStore, GuardUnstored, LoadUnstored, GuardHeld
<1>10. QED
  BY <1>7, <1>8, <1>9 DEF IInv

(* generate_key / import_key storing a new blob keeps IInv.                *)
LEMMA CreateKeyStep ==
    ASSUME IInv, NEW t \in Threads, NEW k \in Keys, CreateKey(t, k)
    PROVE  IInv'
<1>1. TypeOK /\ fw \in Fw /\ db \in [Keys -> Blob \cup {Absent}]
  BY DEF IInv, TypeOK
<1>2. [ver |-> fw, uuid |-> OwnUuid, reenc |-> FALSE] \in Blob
  BY <1>1 DEF Blob, Uuids
<1>3. db' \in [Keys -> Blob \cup {Absent}]
  BY <1>1, <1>2 DEF CreateKey
<1>4. TypeOK'
  BY <1>1, <1>3 DEF CreateKey, TypeOK
<1>5. (NoSlotLeak /\ AtMostOneStore /\ GuardUnstored /\ LoadUnstored /\ GuardHeld)'
  BY DEF CreateKey, IInv, NoSlotLeak, AtMostOneStore, GuardUnstored,
     LoadUnstored, GuardHeld
<1>6. QED
  BY <1>4, <1>5 DEF IInv

(* A restart of keystore2, after an OTA or not, keeps IInv.                *)
LEMMA RestartStep ==
    ASSUME IInv, Restart
    PROVE  IInv'
<1>1. TypeOK /\ th \in [Threads -> Call] /\ fw \in Fw
  BY DEF IInv, TypeOK
<1>2. fw' \in Fw
  <2>1. fw' \in fw..MaxFw
    BY DEF Restart
  <2>2. QED
    BY <1>1, <2>1 DEF Fw
<1>3. \A t \in Threads : th'[t] \in Call /\ ~th'[t].guard /\ th'[t].stores = th[t].stores
  BY <1>1 DEF Restart, Call, Results
<1>4. th' \in [Threads -> Call]
  BY <1>3 DEF Restart
<1>5. TypeOK'
  <2>1. /\ keyLock' \in [Keys -> Threads \cup {NoThread}]
        /\ kmOps' \in 0..Slots /\ ops' \in Seq(Op)
        /\ pc' \in [Threads -> PCs] /\ db' = db
    <3>1. <<>> \in Seq(Op)
      BY EmptySeq
    <3>2. 0 \in 0..Slots
      OBVIOUS
    <3>3. QED
      BY <3>1, <3>2 DEF Restart, PCs
  <2>2. QED
    BY <1>1, <1>2, <1>4, <2>1 DEF TypeOK
<1>6. InComplete(pc') = {} /\ kmOps' = 0 /\ ops' = <<>>
  BY DEF Restart, InComplete
<1>7. NoSlotLeak'
  BY <1>6, NoSlotLeakDef, FS_EmptySet
<1>8. (AtMostOneStore /\ GuardUnstored /\ LoadUnstored /\ GuardHeld)'
  BY <1>3 DEF Restart, IInv, AtMostOneStore, GuardUnstored, LoadUnstored,
     GuardHeld
<1>9. QED
  BY <1>5, <1>7, <1>8 DEF IInv
(* Every step of the model keeps IInv.                                     *)
LEMMA NextIInv == IInv /\ [Next]_vars => IInv'
<1> SUFFICES ASSUME IInv, [Next]_vars PROVE IInv'
  OBVIOUS
<1>1. CASE \E t \in Threads, k \in Keys, c \in Callers, f \in BOOLEAN : Request(t, k, c, f)
  BY <1>1, RequestStep
<1>2. CASE \E t \in Threads : Step(t)
  <2>1. PICK t \in Threads : Step(t)
    BY <1>2
  <2>2. QED
    BY <2>1, LoadStep, AuthorizeStep, BeginStep, PruneStep, UpgradeStep,
       StoreUpgradedStep, CompleteStep DEF Step
<1>3. CASE \E t \in Threads, k \in Keys : CreateKey(t, k)
  BY <1>3, CreateKeyStep
<1>4. CASE \E i \in 1..Len(ops) : FinishOp(i)
  BY <1>4, FinishOpStep
<1>5. CASE Restart
  BY <1>5, RestartStep
<1>6. CASE UNCHANGED vars
  BY <1>6 DEF vars, IInv, TypeOK, NoSlotLeak, AtMostOneStore, GuardUnstored,
     LoadUnstored, GuardHeld
<1>7. QED
  BY <1>1, <1>2, <1>3, <1>4, <1>5, <1>6 DEF Next

(* The inductive invariant of create_operation holds in every state.       *)
THEOREM IInvThm == Spec => []IInv
BY InitIInv, NextIInv, PTL DEF Spec

-----------------------------------------------------------------------------
(* The type invariant of the security level model.                         *)
THEOREM TypeCorrect == Spec => []TypeOK
<1>1. IInv => TypeOK
  BY DEF IInv
<1>2. QED
  BY <1>1, IInvThm, PTL

(* No KeyMint operation slot leaks, for every number of threads and slots: *)
(* each slot in use belongs to an entry of the operation database or to a  *)
(* create_operation between a successful begin and its registration, on   *)
(* every error path of the begin loop, the forced re-encryption and a     *)
(* restart.                                                                *)
THEOREM NoSlotLeakThm == Spec => []NoSlotLeak
<1>1. IInv => NoSlotLeak
  BY DEF IInv
<1>2. QED
  BY <1>1, IInvThm, PTL

(* store_upgraded_keyblob runs at most once per create_operation: the      *)
(* upgrade takes the KeyIdGuard that the forced re-encryption needs, and   *)
(* a call holding the guard has not stored yet (GuardUnstored).            *)
THEOREM AtMostOneStoreThm == Spec => []AtMostOneStore
<1>1. IInv => AtMostOneStore
  BY DEF IInv
<1>2. QED
  BY <1>1, IInvThm, PTL

====
