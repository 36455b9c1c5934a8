------------------------------ MODULE RawDevice ------------------------------
(***************************************************************************)
(* The raw KeyMint device wrapper for keystore's internal keys             *)
(* (src/keystore2/src/raw_device.rs).                                      *)
(*                                                                         *)
(* Internal callers (the super key and boot-level key managers) call       *)
(* lookup_or_generate_key for an alias while holding a lock of their own,  *)
(* then use_key_in_one_step with the guard and blob it returned.           *)
(* lookup_or_generate_key looks the alias up (load_key_entry, which waits  *)
(* for the key id's KeyIdGuard); a key of another KeyMint instance, or one *)
(* whose characteristics fail validation, is replaced: create_and_store_key *)
(* generates and stores a new key under the alias and a second lookup      *)
(* returns it.  getKeyCharacteristics and begin run inside the wrapper's   *)
(* upgrade_keyblob_if_required_with, whose set_blob is commented out.      *)
(*                                                                         *)
(* The caller's lock and crate::utils::upgrade_keyblob_if_required_with    *)
(* are not in this repository; they are modelled from spec.md 4.2, 4.4.   *)
(***************************************************************************)
EXTENDS Naturals

CONSTANTS
    Threads,     \* threads of internal callers
    Keys,        \* aliases of internal keys
    MaxGen,      \* key ids per alias: the initial one and regenerations
    MaxFw,       \* highest blob version the firmware reaches
    OwnUuid,     \* km_uuid of the device this wrapper was built for
    OtherUuid,   \* km_uuid of another KeyMint instance
    NoThread

ASSUME RawDeviceAssumption ==
    /\ MaxGen \in Nat \ {0}
    /\ MaxFw \in Nat \ {0}
    /\ OwnUuid # OtherUuid
    /\ NoThread \notin Threads

Uuids == {OwnUuid, OtherUuid}
Fw == 1..MaxFw
Gens == 1..MaxGen

(* A key id: the alias and which of its generations.                       *)
KeyIds == Keys \X Gens

(* A stored or returned key blob: its key id, format version and KmUuid.  *)
Blob == [id : KeyIds, ver : Fw, uuid : Uuids]
Absent == [absent |-> TRUE]

PCs == {"idle", "lookup", "chars", "upgrade", "generate", "relookup", "use"}

VARIABLES
    fw,        \* blob version the KeyMint firmware requires
    db,        \* alias -> the blob of the key it is bound to
    gen,       \* alias -> generations used so far
    callerLock,\* alias -> the thread holding the caller's lock
    keyLock,   \* key id -> the thread holding its KeyIdGuard
    pc,
    blob,      \* thread -> the blob it works on
    alias      \* thread -> the alias it asked for

vars == <<fw, db, gen, callerLock, keyLock, pc, blob, alias>>

TypeOK ==
    /\ fw \in Fw
    /\ db \in [Keys -> Blob \cup {Absent}]
    /\ gen \in [Keys -> Gens]
    /\ callerLock \in [Keys -> Threads \cup {NoThread}]
    /\ keyLock \in [KeyIds -> Threads \cup {NoThread}]
    /\ pc \in [Threads -> PCs]
    /\ blob \in [Threads -> Blob]
    /\ alias \in [Threads -> Keys]

(* The KeyIdGuard of thread t, if it holds one, is dropped.                *)
DropGuard(t) ==
    keyLock' = [i \in KeyIds |-> IF keyLock[i] = t THEN NoThread ELSE keyLock[i]]

(* lookup_or_generate_key returns an error: the guard is dropped and the   *)
(* caller gives up its lock.                                               *)
Fail(t) ==
    /\ pc' = [pc EXCEPT ![t] = "idle"]
    /\ DropGuard(t)
    /\ callerLock' = [callerLock EXCEPT ![alias[t]] = NoThread]

(* The first lookup's test: blob info present and its KmUuid is this      *)
(* device's km_uuid.                                                       *)
OwnKey(e) == e # Absent /\ e.uuid = OwnUuid

-----------------------------------------------------------------------------
Init ==
    /\ fw = 1
    /\ db \in [Keys -> {Absent} \cup
                 {[id |-> <<k, 1>>, ver |-> 1, uuid |-> u] : k \in Keys, u \in Uuids}]
    /\ \A k \in Keys : db[k] # Absent => db[k].id[1] = k
    /\ gen = [k \in Keys |-> 1]
    /\ callerLock = [k \in Keys |-> NoThread]
    /\ keyLock = [i \in KeyIds |-> NoThread]
    /\ pc = [t \in Threads |-> "idle"]
    /\ alias \in [Threads -> Keys]
    /\ blob = [t \in Threads |-> [id |-> <<alias[t], 1>>, ver |-> 1, uuid |-> OwnUuid]]

(* An internal caller takes its own lock for alias k and calls            *)
(* lookup_or_generate_key.                                                 *)
Acquire(t, k) ==
    /\ pc[t] = "idle"
    /\ callerLock[k] = NoThread
    /\ callerLock' = [callerLock EXCEPT ![k] = t]
    /\ alias' = [alias EXCEPT ![t] = k]
    /\ pc' = [pc EXCEPT ![t] = "lookup"]
    /\ UNCHANGED <<fw, db, gen, keyLock, blob>>

(* Mutant: not_found_is_none is bypassed and a missing entry is used as a   *)
(* found key.                                                              *)
LookupNotFoundAsKey(t) ==
    LET e == db[alias[t]] IN
    /\ pc[t] = "lookup"
    /\ e # Absent => keyLock[e.id] = NoThread
    /\ \/ /\ ~OwnKey(e) /\ e # Absent
          /\ pc' = [pc EXCEPT ![t] = "generate"]
          /\ UNCHANGED <<keyLock, blob>>
       \/ /\ e = Absent
          /\ blob' = [blob EXCEPT ![t] = e]
          /\ pc' = [pc EXCEPT ![t] = "chars"]
          /\ UNCHANGED keyLock
       \/ /\ OwnKey(e)
          /\ keyLock' = [keyLock EXCEPT ![e.id] = t]
          /\ blob' = [blob EXCEPT ![t] = e]
          /\ pc' = [pc EXCEPT ![t] = "chars"]
    /\ UNCHANGED <<fw, db, gen, callerLock, alias>>

(* Mutant: the km_uuid comparison is dropped.                              *)
LookupAnyUuid(t) ==
    LET e == db[alias[t]] IN
    /\ pc[t] = "lookup"
    /\ e # Absent => keyLock[e.id] = NoThread
    /\ \/ /\ e = Absent
          /\ pc' = [pc EXCEPT ![t] = "generate"]
          /\ UNCHANGED <<keyLock, blob>>
       \/ /\ e # Absent
          /\ keyLock' = [keyLock EXCEPT ![e.id] = t]
          /\ blob' = [blob EXCEPT ![t] = e]
          /\ pc' = [pc EXCEPT ![t] = "chars"]
    /\ UNCHANGED <<fw, db, gen, callerLock, alias>>

(* The first lookup: load_key_entry waits for the key id's guard; a       *)
(* missing key (KEY_NOT_FOUND, mapped to None) and a key of another        *)
(* KeyMint instance both go on to generation, the latter dropping its      *)
(* guard at the end of the if-let; a key of this device goes on to         *)
(* getKeyCharacteristics with its guard held.  Any other database error   *)
(* is returned.                                                            *)
Lookup(t) ==
    LET e == db[alias[t]] IN
    /\ pc[t] = "lookup"
    /\ e # Absent => keyLock[e.id] = NoThread
    /\ \/ /\ Fail(t)
          /\ UNCHANGED blob
       \/ /\ ~OwnKey(e)
          /\ pc' = [pc EXCEPT ![t] = "generate"]
          /\ UNCHANGED <<keyLock, blob>>
       \/ /\ OwnKey(e)
          /\ keyLock' = [keyLock EXCEPT ![e.id] = t]
          /\ blob' = [blob EXCEPT ![t] = e]
          /\ pc' = [pc EXCEPT ![t] = "chars"]
    /\ UNCHANGED <<fw, db, gen, callerLock, alias>>

(* getKeyCharacteristics through the upgrade wrapper: an old-format blob   *)
(* is sent to upgrade; a failure is returned; otherwise the caller's       *)
(* validate_characteristics decides between returning the key (guard      *)
(* kept) and replacing it (guard dropped).                                  *)
Chars(t) ==
    /\ pc[t] = "chars"
    /\ \/ /\ blob[t].ver < fw
          /\ pc' = [pc EXCEPT ![t] = "upgrade"]
          /\ UNCHANGED <<keyLock, callerLock>>
       \/ Fail(t)
       \/ /\ blob[t].ver = fw
          /\ \/ /\ pc' = [pc EXCEPT ![t] = "use"]
                /\ UNCHANGED <<keyLock, callerLock>>
             \/ /\ pc' = [pc EXCEPT ![t] = "generate"]
                /\ DropGuard(t)
                /\ UNCHANGED callerLock
    /\ UNCHANGED <<fw, db, gen, blob, alias>>

(* upgradeKey, then the new-blob callback that only builds the metadata -- *)
(* its db.set_blob is commented out -- and getKeyCharacteristics is tried  *)
(* again with the upgraded blob.                                           *)
UpgradeRaw(t) ==
    /\ pc[t] = "upgrade"
    /\ \/ /\ blob' = [blob EXCEPT ![t].ver = fw]
          /\ pc' = [pc EXCEPT ![t] = "chars"]
          /\ UNCHANGED <<keyLock, callerLock>>
       \/ /\ Fail(t)
          /\ UNCHANGED blob
    /\ UNCHANGED <<fw, db, gen, alias>>

(* create_and_store_key: generateKey, then store_new_key binds the alias  *)
(* to a new key id with this device's KmUuid.  Either step may fail.       *)
Generate(t) ==
    LET k == alias[t] IN
    /\ pc[t] = "generate"
    /\ \/ /\ gen[k] < MaxGen
          /\ gen' = [gen EXCEPT ![k] = @ + 1]
          /\ db' = [db EXCEPT ![k] = [id |-> <<k, gen[k] + 1>>, ver |-> fw,
                                      uuid |-> OwnUuid]]
          /\ pc' = [pc EXCEPT ![t] = "relookup"]
          /\ UNCHANGED <<keyLock, callerLock>>
       \/ /\ Fail(t)
          /\ UNCHANGED <<db, gen>>
    /\ UNCHANGED <<fw, blob, alias>>

(* The second lookup_from_desc: waits for the new key's guard and returns  *)
(* it with the stored blob (KEY_NOT_FOUND when the blob info is missing). *)
Relookup(t) ==
    LET e == db[alias[t]] IN
    /\ pc[t] = "relookup"
    /\ \/ /\ e = Absent
          /\ Fail(t)
          /\ UNCHANGED blob
       \/ /\ e # Absent
          /\ keyLock[e.id] = NoThread
          /\ keyLock' = [keyLock EXCEPT ![e.id] = t]
          /\ blob' = [blob EXCEPT ![t] = e]
          /\ pc' = [pc EXCEPT ![t] = "use"]
          /\ UNCHANGED callerLock
    /\ UNCHANGED <<fw, db, gen, alias>>

(* use_key_in_one_step with the returned guard and blob -- begin through   *)
(* the upgrade wrapper, finish -- after which the caller drops the guard   *)
(* and its lock.  Its upgrade callback stores nothing either.              *)
Use(t) ==
    /\ pc[t] = "use"
    /\ pc' = [pc EXCEPT ![t] = "idle"]
    /\ DropGuard(t)
    /\ callerLock' = [callerLock EXCEPT ![alias[t]] = NoThread]
    /\ UNCHANGED <<fw, db, gen, blob, alias>>

(* keystore2 restarts, possibly after an OTA raised the firmware.          *)
Restart ==
    /\ fw' \in fw..MaxFw
    /\ callerLock' = [k \in Keys |-> NoThread]
    /\ keyLock' = [i \in KeyIds |-> NoThread]
    /\ pc' = [t \in Threads |-> "idle"]
    /\ UNCHANGED <<db, gen, blob, alias>>

Next ==
    \/ \E t \in Threads, k \in Keys : Acquire(t, k)
    \/ \E t \in Threads :
          \/ Lookup(t) \/ Chars(t) \/ UpgradeRaw(t) \/ Generate(t)
          \/ Relookup(t) \/ Use(t)
    \/ Restart

Spec == Init /\ [][Next]_vars

-----------------------------------------------------------------------------
(* The key lookup_or_generate_key returns is the key its alias is bound    *)
(* to, of this KeyMint instance, at least as new as the stored blob: no    *)
(* concurrent lookup has regenerated it underneath the caller, and a key   *)
(* of another instance is never returned.                                  *)
ReturnedKeyIsStored ==
    \A t \in Threads :
        pc[t] = "use" =>
            /\ db[alias[t]] # Absent
            /\ blob[t].id = db[alias[t]].id
            /\ blob[t].uuid = OwnUuid
            /\ db[alias[t]].uuid = OwnUuid
            /\ blob[t].ver >= db[alias[t]].ver

(* The parts of the inductive invariant behind ReturnedKeyIsStored: a      *)
(* thread inside lookup_or_generate_key holds the caller's lock of its     *)
(* alias; a thread past the first lookup or the generation works on the    *)
(* alias's current key of this device; no stored blob is newer than the    *)
(* firmware.                                                               *)
CallerLockHeld ==
    \A t \in Threads : pc[t] # "idle" => callerLock[alias[t]] = t

WorkingOnCurrentKey ==
    \A t \in Threads :
        /\ pc[t] \in {"chars", "upgrade", "use"} =>
              /\ OwnKey(db[alias[t]])
              /\ blob[t].id = db[alias[t]].id
              /\ blob[t].uuid = OwnUuid
              /\ blob[t].ver >= db[alias[t]].ver
        /\ pc[t] = "relookup" => OwnKey(db[alias[t]])

StoredNotNewer ==
    \A k \in Keys : db[k] # Absent => db[k].ver <= fw

IInv ==
    /\ TypeOK
    /\ CallerLockHeld
    /\ WorkingOnCurrentKey
    /\ StoredNotNewer
=============================================================================
