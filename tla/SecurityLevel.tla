---------------------------- MODULE SecurityLevel ----------------------------
(***************************************************************************)
(* One KeystoreSecurityLevel (src/keystore2/src/security_level.rs) and the *)
(* KeyMint device behind it.                                               *)
(*                                                                         *)
(* Binder threads run create_operation on database keys: load the key      *)
(* entry (taking its KeyIdGuard), authorize and unwrap, then run           *)
(* upgrade_keyblob_if_required_with around a loop that calls               *)
(* IKeyMintDevice::begin and, on TOO_MANY_OPERATIONS, prunes the           *)
(* operation database and tries again.  A blob the device wants upgraded   *)
(* is upgraded and handed to store_upgraded_keyblob, whose database write  *)
(* is commented out in this repository.  generate_key/import_key store new *)
(* keys; clients finish or abort their operations.  A restart of the       *)
(* process (possibly after an OTA that raised the KeyMint firmware) loses  *)
(* every operation and every lock but keeps the database.                  *)
(*                                                                         *)
(* The helper crate::utils::upgrade_keyblob_if_required_with and the       *)
(* operation database (operation.rs) are not in this repository; they are  *)
(* modelled from spec.md 4.2 and 4.3.                                      *)
(***************************************************************************)
EXTENDS Naturals, Sequences, SequencesExt

CONSTANTS
    Threads,     \* binder threads
    Callers,     \* calling uids
    Keys,        \* key descriptors of database keys
    Slots,       \* operation slots of the KeyMint device
    MaxFw,       \* highest blob format (firmware) version the device reaches
    OwnUuid,     \* the km_uuid of this security level's KeyMint
    OtherUuid,   \* the km_uuid of another KeyMint instance
    NoThread

ASSUME SecurityLevelAssumption ==
    /\ IsFiniteSet(Threads)
    /\ Slots \in Nat \ {0}
    /\ MaxFw \in Nat \ {0}
    /\ OwnUuid # OtherUuid
    /\ NoThread \notin Threads

Uuids == {OwnUuid, OtherUuid}
Fw == 1..MaxFw

(* A stored key blob: its format version, the KmUuid blob metadata, and    *)
(* whether unwrapping it yields a KeyBlob with force_reencrypt set.        *)
Blob == [ver : Fw, uuid : Uuids, reenc : BOOLEAN]
Absent == [absent |-> TRUE]

(* A live entry of the operation database.                                 *)
Op == [owner : Callers, forced : BOOLEAN]

(* What create_operation was asked and what it holds while it runs:        *)
(* the blob it passes to begin, whether it still holds the KeyIdGuard     *)
(* (upgrade_keyblob_if_required_with takes it on an upgrade), whether it  *)
(* upgraded, how often it called store_upgraded_keyblob, and its result.  *)
Call == [key : Keys, caller : Callers, forced : BOOLEAN, blob : Blob,
         guard : BOOLEAN, upgraded : BOOLEAN, stores : 0..2,
         result : {"none", "ok", "error"}]

Results == {"none", "ok", "error"}

VARIABLES
    fw,        \* blob version the KeyMint firmware requires
    db,        \* the persistent key entries
    keyLock,   \* KEY_ID_LOCK: the thread holding each key's KeyIdGuard
    kmOps,     \* operation slots in use inside KeyMint
    ops,       \* the operation database, oldest first
    pc,        \* where each thread is in create_operation
    th         \* each thread's call

vars == <<fw, db, keyLock, kmOps, ops, pc, th>>

PCs == {"idle", "load", "authorize", "begin", "upgrade", "store", "prune",
        "complete"}

TypeOK ==
    /\ fw \in Fw
    /\ db \in [Keys -> Blob \cup {Absent}]
    /\ keyLock \in [Keys -> Threads \cup {NoThread}]
    /\ kmOps \in 0..Slots
    /\ ops \in Seq(Op)
    /\ pc \in [Threads -> PCs]
    /\ th \in [Threads -> Call]

-----------------------------------------------------------------------------
(* Mutant: a device that never reports TOO_MANY_OPERATIONS.               *)
BeginResultsNoLimit(b) ==
    {IF b.uuid # OwnUuid THEN "INVALID_KEY_BLOB"
     ELSE IF b.ver < fw THEN "KEY_REQUIRES_UPGRADE"
     ELSE "OK", "OTHER_ERROR"}

(* The device's answer to begin(blob) (spec.md 6 and the KeyMint HAL): a   *)
(* blob of another instance is INVALID_KEY_BLOB, an old-format blob is     *)
(* KEY_REQUIRES_UPGRADE, a full slot table is TOO_MANY_OPERATIONS.  Any    *)
(* other failure (bad parameters, transport) may happen at any call.       *)
BeginResults(b) ==
    {IF b.uuid # OwnUuid THEN "INVALID_KEY_BLOB"
     ELSE IF b.ver < fw THEN "KEY_REQUIRES_UPGRADE"
     ELSE IF kmOps >= Slots THEN "TOO_MANY_OPERATIONS"
     ELSE "OK", "OTHER_ERROR"}

(* OperationDb::prune(caller, forced) (spec.md 4.3): the oldest operation  *)
(* of the same caller, of any caller when forced; 0 when there is none     *)
(* (prune then fails with BACKEND_BUSY).                                   *)
PruneVictim(caller, forced) ==
    SelectInSeq(ops, LAMBDA o : forced \/ o.owner = caller)

(* Leaving create_operation: the KeyIdGuard, if still held, is dropped     *)
(* with the stack.                                                         *)
Leave(t) ==
    /\ pc' = [pc EXCEPT ![t] = "idle"]
    /\ keyLock' = [k \in Keys |-> IF keyLock[k] = t THEN NoThread ELSE keyLock[k]]

(* Returning an error from create_operation.                               *)
Fail(t) ==
    /\ Leave(t)
    /\ th' = [th EXCEPT ![t].result = "error"]

-----------------------------------------------------------------------------
Init ==
    /\ fw = 1
    /\ db \in [Keys -> [ver : {1}, uuid : Uuids, reenc : BOOLEAN] \cup {Absent}]
    /\ keyLock = [k \in Keys |-> NoThread]
    /\ kmOps = 0
    /\ ops = <<>>
    /\ pc = [t \in Threads |-> "idle"]
    /\ th \in [Threads -> {[key |-> k, caller |-> c, forced |-> FALSE,
                            blob |-> [ver |-> 1, uuid |-> OwnUuid, reenc |-> FALSE],
                            guard |-> FALSE, upgraded |-> FALSE, stores |-> 0,
                            result |-> "none"] : k \in Keys, c \in Callers}]

(* createOperation(key, params, forced) arrives on thread t.               *)
Request(t, k, c, f) ==
    /\ pc[t] = "idle"
    /\ pc' = [pc EXCEPT ![t] = "load"]
    /\ th' = [th EXCEPT ![t] = [@ EXCEPT !.key = k, !.caller = c, !.forced = f,
                                 !.guard = FALSE, !.upgraded = FALSE,
                                 !.stores = 0, !.result = "none"]]
    /\ UNCHANGED <<fw, db, keyLock, kmOps, ops>>

(* load_key_entry under LEGACY_IMPORTER.with_try_import: waits for the     *)
(* key's KeyIdGuard, checks Use (and ReqForcedOp when forced), fails with  *)
(* KEY_NOT_FOUND for a missing key, and takes the blob and its metadata.   *)
Load(t) ==
    LET k == th[t].key IN
    /\ pc[t] = "load"
    /\ keyLock[k] = NoThread
    /\ \/ /\ db[k] = Absent
          /\ Fail(t)
       \/ /\ db[k] # Absent
          /\ \/ Fail(t)                  \* permission denied
             \/ /\ keyLock' = [keyLock EXCEPT ![k] = t]
                /\ pc' = [pc EXCEPT ![t] = "authorize"]
                /\ th' = [th EXCEPT ![t].blob = db[k], ![t].guard = TRUE]
    /\ UNCHANGED <<fw, db, kmOps, ops>>

(* The PURPOSE lookup, ENFORCEMENTS.authorize_create and                   *)
(* unwrap_key_if_required: each may fail and return the error.             *)
Authorize(t) ==
    /\ pc[t] = "authorize"
    /\ \/ Fail(t)
       \/ /\ pc' = [pc EXCEPT ![t] = "begin"]
          /\ UNCHANGED <<th, keyLock>>
    /\ UNCHANGED <<fw, db, kmOps, ops>>

(* One IKeyMintDevice::begin call of the loop.  TOO_MANY_OPERATIONS goes   *)
(* to prune; KEY_REQUIRES_UPGRADE returns to upgrade_keyblob_if_required_with,*)
(* which upgrades once and fails the second time; INVALID_KEY_BLOB is      *)
(* audit-logged and returned like any other error; success takes a slot.   *)
Begin(t) ==
    /\ pc[t] = "begin"
    /\ \E r \in BeginResults(th[t].blob) :
         CASE r = "OK" ->
                /\ kmOps' = kmOps + 1
                /\ pc' = [pc EXCEPT ![t] = "complete"]
                /\ UNCHANGED <<th, keyLock>>
           [] r = "TOO_MANY_OPERATIONS" ->
                /\ pc' = [pc EXCEPT ![t] = "prune"]
                /\ UNCHANGED <<th, keyLock, kmOps>>
           [] r = "KEY_REQUIRES_UPGRADE" /\ ~th[t].upgraded ->
                /\ pc' = [pc EXCEPT ![t] = "upgrade"]
                /\ UNCHANGED <<th, keyLock, kmOps>>
           [] OTHER ->
                /\ Fail(t)
                /\ UNCHANGED kmOps
    /\ UNCHANGED <<fw, db, ops>>

(* operation_db.prune(caller_uid, forced)? then continue: the victim is    *)
(* aborted in KeyMint and leaves the database; without a victim the loop   *)
(* ends with the error.                                                    *)
Prune(t) ==
    LET v == PruneVictim(th[t].caller, th[t].forced) IN
    /\ pc[t] = "prune"
    /\ IF v = 0
         THEN /\ Fail(t)
              /\ UNCHANGED <<ops, kmOps>>
         ELSE /\ ops' = RemoveAt(ops, v)
              /\ kmOps' = kmOps - 1
              /\ pc' = [pc EXCEPT ![t] = "begin"]
              /\ UNCHANGED <<th, keyLock>>
    /\ UNCHANGED <<fw, db>>

(* IKeyMintDevice::upgradeKey on the blob: a new blob at the firmware's    *)
(* version, or an error that is returned.                                  *)
Upgrade(t) ==
    /\ pc[t] = "upgrade"
    /\ \/ /\ Fail(t)
       \/ /\ pc' = [pc EXCEPT ![t] = "store"]
          /\ th' = [th EXCEPT ![t].blob.ver = fw, ![t].upgraded = TRUE]
          /\ UNCHANGED keyLock
    /\ UNCHANGED <<fw, db, kmOps, ops>>

(* Mutant: the upgrade handler stores without taking the guard.            *)
StoreUpgradedKeepsGuard(t) ==
    /\ pc[t] = "store"
    /\ pc' = [pc EXCEPT ![t] = "begin"]
    /\ th' = [th EXCEPT ![t].stores = IF th[t].guard THEN @ + 1 ELSE @]
    /\ UNCHANGED <<fw, db, keyLock, kmOps, ops>>

(* The new-blob handler: key_id_guard.take() moves the guard into          *)
(* store_upgraded_keyblob, whose db.set_blob is commented out -- the       *)
(* database keeps the old blob -- and which drops the guard on return,     *)
(* releasing the key's lock while create_operation goes on.  A failing    *)
(* reencrypt_if_required is, per spec.md 4.2, not an operation failure;    *)
(* either way begin is called again with the upgraded blob.                *)
StoreUpgraded(t) ==
    /\ pc[t] = "store"
    /\ pc' = [pc EXCEPT ![t] = "begin"]
    /\ th' = [th EXCEPT ![t].stores = IF th[t].guard THEN @ + 1 ELSE @,
                        ![t].guard = FALSE]
    /\ keyLock' = IF th[t].guard THEN [keyLock EXCEPT ![th[t].key] = NoThread]
                                 ELSE keyLock
    /\ UNCHANGED <<fw, db, kmOps, ops>>

(* operation_db.create_operation(km_op, caller_uid, auth_info, forced,   *)
(* ...): the new operation joins the database as its newest entry.        *)
RegisterOp(t) ==
    ops' = Append(ops, [owner |-> th[t].caller, forced |-> th[t].forced])

(* Mutant: a failed forced re-encryption keeps the KeyMint operation.      *)
CompleteLeaksSlot(t) ==
    /\ pc[t] = "complete"
    /\ Leave(t)
    /\ \/ /\ th[t].blob.reenc /\ th[t].guard
          /\ th' = [th EXCEPT ![t].stores = @ + 1, ![t].guard = FALSE,
                              ![t].result = "error"]
          /\ UNCHANGED <<ops, kmOps>>
       \/ /\ th' = [th EXCEPT ![t].stores = IF th[t].blob.reenc /\ th[t].guard
                                              THEN @ + 1 ELSE @,
                              ![t].guard = FALSE, ![t].result = "ok"]
          /\ RegisterOp(t)
          /\ UNCHANGED kmOps
    /\ UNCHANGED <<fw, db>>

(* The rest after begin succeeded: the forced re-encryption when no        *)
(* upgrade took the guard -- a store_upgraded_keyblob whose failure        *)
(* returns the error and drops the KeyMint operation --, the guard dropped *)
(* on leaving upgrade_keyblob_if_required_with, and                        *)
(* operation_db.create_operation.                                          *)
Complete(t) ==
    LET forcedStore == th[t].blob.reenc /\ th[t].guard IN
    /\ pc[t] = "complete"
    /\ Leave(t)
    /\ \/ /\ forcedStore
          /\ th' = [th EXCEPT ![t].stores = @ + 1, ![t].guard = FALSE,
                              ![t].result = "error"]
          /\ kmOps' = kmOps - 1
          /\ UNCHANGED ops
       \/ /\ th' = [th EXCEPT ![t].stores = IF forcedStore THEN @ + 1 ELSE @,
                              ![t].guard = FALSE, ![t].result = "ok"]
          /\ RegisterOp(t)
          /\ UNCHANGED kmOps
    /\ UNCHANGED <<fw, db>>

(* A client finishes or aborts one of its operations (or the operation's   *)
(* binder dies): it leaves the operation database and frees its slot.      *)
FinishOp(i) ==
    /\ i \in 1..Len(ops)
    /\ ops' = RemoveAt(ops, i)
    /\ kmOps' = kmOps - 1
    /\ UNCHANGED <<fw, db, keyLock, pc, th>>

(* generate_key / import_key on an idle thread t: alias and Rebind checks,  *)
(* add_required_parameters, IKeyMintDevice::generateKey (importKey), then  *)
(* store_new_key: the fresh blob, at the firmware's version, is stored     *)
(* under the descriptor with KmUuid set to this instance.  Any of the      *)
(* steps may fail, leaving the database as it was.                         *)
CreateKey(t, k) ==
    /\ pc[t] = "idle"
    /\ \/ db' = [db EXCEPT ![k] = [ver |-> fw, uuid |-> OwnUuid, reenc |-> FALSE]]
       \/ UNCHANGED db
    /\ UNCHANGED <<fw, keyLock, kmOps, ops, pc, th>>

(* keystore2 dies and init restarts it, possibly after an OTA that raised  *)
(* the KeyMint firmware: operations, slots and locks are gone, the         *)
(* database stays.                                                         *)
Restart ==
    /\ fw' \in fw..MaxFw
    /\ keyLock' = [k \in Keys |-> NoThread]
    /\ kmOps' = 0
    /\ ops' = <<>>
    /\ pc' = [t \in Threads |-> "idle"]
    /\ th' = [t \in Threads |-> [th[t] EXCEPT !.result = "none", !.guard = FALSE]]
    /\ UNCHANGED db

(* The steps of thread t inside create_operation.                          *)
Step(t) ==
    \/ Load(t) \/ Authorize(t) \/ Begin(t) \/ Prune(t) \/ Upgrade(t)
    \/ StoreUpgraded(t) \/ Complete(t)

Next ==
    \/ \E t \in Threads, k \in Keys, c \in Callers, f \in BOOLEAN : Request(t, k, c, f)
    \/ \E t \in Threads : Step(t)
    \/ \E t \in Threads, k \in Keys : CreateKey(t, k)
    \/ \E i \in 1..Len(ops) : FinishOp(i)
    \/ Restart

Spec == Init /\ [][Next]_vars

(* Every thread's steps are taken when they stay enabled: a binder thread  *)
(* runs create_operation synchronously to its end.                         *)
FairSpec == Spec /\ \A t \in Threads : WF_vars(Step(t))

-----------------------------------------------------------------------------
(* No KeyMint operation slot leaks: every slot in use belongs to an entry  *)
(* of the operation database or to a create_operation between a           *)
(* successful begin and its registration -- on every error path after     *)
(* begin the KeyMint operation is dropped.                                 *)
NoSlotLeak ==
    kmOps = Len(ops) + Cardinality({t \in Threads : pc[t] = "complete"})

(* store_upgraded_keyblob runs at most once per create_operation: the     *)
(* upgrade takes the KeyIdGuard, so the forced re-encryption that needs    *)
(* it cannot store the blob a second time.                                 *)
AtMostOneStore ==
    \A t \in Threads : th[t].stores <= 1

(* A call that still holds its KeyIdGuard has not stored yet: the part of *)
(* the inductive invariant behind AtMostOneStore.                          *)
GuardUnstored ==
    \A t \in Threads : th[t].guard => th[t].stores = 0

(* A call waiting in load_key_entry has not stored anything.               *)
LoadUnstored ==
    \A t \in Threads : pc[t] = "load" => th[t].stores = 0

(* A call past load_key_entry that still has its KeyIdGuard holds the      *)
(* key's lock.                                                             *)
GuardHeld ==
    \A t \in Threads :
        (th[t].guard /\ pc[t] \notin {"idle", "load"}) => keyLock[th[t].key] = t

(* The inductive invariant SecurityLevelProofs proves: the properties     *)
(* above and the facts about guards and store counts they rest on.        *)
IInv ==
    /\ TypeOK
    /\ NoSlotLeak
    /\ AtMostOneStore
    /\ GuardUnstored
    /\ LoadUnstored
    /\ GuardHeld

-----------------------------------------------------------------------------
(* What spec.md says and the code does not do.                             *)

(* spec.md 4.2 and 9: an upgraded blob that on_upgraded reported stored is *)
(* in the database -- so that the next load does not upgrade it again.     *)
UpgradePersisted ==
    \A t \in Threads :
        (th[t].upgraded /\ th[t].stores = 1 /\ pc[t] \in {"begin", "complete"})
            => db[th[t].key] # Absent /\ db[th[t].key].ver = th[t].blob.ver

(* spec.md 8 (corruption detection): a blob whose KmUuid names another     *)
(* KeyMint instance is never passed to begin.                              *)
ForeignBlobNeverBegun ==
    \A t \in Threads : pc[t] = "begin" => th[t].blob.uuid = OwnUuid

(* spec.md 4.3 and 8 (eviction liveness): every create_operation that      *)
(* reaches the begin loop returns.                                         *)
CreateOperationTerminates ==
    \A t \in Threads : pc[t] = "begin" ~> pc[t] = "idle"
=============================================================================
