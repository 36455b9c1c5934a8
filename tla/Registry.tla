------------------------------ MODULE Registry ------------------------------
(***************************************************************************)
(* The KeyMint device registry of keystore2 (src/keystore2/src/globals.rs).*)
(*                                                                         *)
(* KEY_MINT_DEVICES is a DevicesMap behind one Mutex.  Binder worker       *)
(* threads call get_keymint_device(security_level): under the lock they    *)
(* look the level up and, on a miss, call connect_keymint -- still holding *)
(* the lock -- then insert the new connection.  get_keymint_dev_by_uuid    *)
(* (used by the blob garbage collector) only reads the cache.  The cache   *)
(* lives as long as the process; a restart empties it.                     *)
(*                                                                         *)
(* The HAL configuration of the device (which KeyMint instances are        *)
(* declared, their AIDL version, what the legacy Keymaster wrapper         *)
(* reports) is chosen in Init and never changes.                           *)
(***************************************************************************)
EXTENDS Naturals

CONSTANTS
    Threads,         \* binder threads resolving devices
    SecLevels,       \* SecurityLevel values a caller may request
    KmLevels,        \* the ones keymint_service_name maps: TEE and STRONGBOX
    AidlVersions,    \* getInterfaceVersion() of a declared KeyMint instance
    LegacyVersions,  \* 10 * major + minor reported by a km_compat Keymaster
    ImplVersions,    \* implementation-defined hw_info.versionNumber of KeyMint
    MaxConn,         \* bound on binder connections made in one process life
    NoThread, NotDeclared, NotFound, NoUuid

ASSUME RegistryAssumption ==
    /\ KmLevels \subseteq SecLevels
    /\ AidlVersions \subseteq Nat \ {0}
    /\ LegacyVersions \subseteq 0..99
    /\ ImplVersions \subseteq Nat
    /\ ImplVersions # {}
    /\ MaxConn \in Nat
    /\ NoThread \notin Threads
    /\ NotDeclared \notin Nat
    /\ NotFound \notin Nat
    /\ NoUuid \notin SecLevels

(* Error kinds get_keymint_device can return.  HwUnavailable is           *)
(* ErrorCode::HARDWARE_TYPE_UNAVAILABLE, which KeyMintDevice::get_or_none *)
(* turns into "this tier is absent"; ConnFailed is any binder failure.    *)
(* A result that is not a device is a record with an err field.           *)
Err(k) == [err |-> k]
Errors == {Err(k) : k \in {"HwUnavailable", "ConnFailed", "SysError"}}
NoResult == Err("None")
(* An empty slot of a DevicesMap map.                                      *)
NoEntry == Err("NoEntry")

(* insert(): "For now we use the reported security level of the KM        *)
(* instance as UUID" -- the uuid is the requested security level.         *)
Uuid(l) == l

(* One device configuration per level: the declared KeyMint instance (its *)
(* AIDL version or NotDeclared), the legacy Keymaster behind the compat   *)
(* service (its version or NotFound) and what getHardwareInfo reports.    *)
HalConfigs == [KmLevels -> [native : AidlVersions \cup {NotDeclared},
                            legacy : LegacyVersions \cup {NotFound},
                            reported : ImplVersions]]

(* A cached connection: the binder handle (numbered by connection), the    *)
(* hw_info.versionNumber the rest of keystore2 sees, whether it is wrapped *)
(* in BacklevelKeyMintWrapper, and its uuid.                               *)
Entry == [dev : 1..MaxConn, version : Nat, wrapped : BOOLEAN, uuid : SecLevels]

VARIABLES
    hal,             \* the device's HAL configuration
    devicesByUuid,   \* DevicesMap.devices_by_uuid
    uuidBySecLevel,  \* DevicesMap.uuid_by_sec_level
    lock,            \* holder of the KEY_MINT_DEVICES mutex
    pc,              \* where each thread is in its call
    req,             \* the level (or uuid) each thread asked for
    byUuid,          \* whether the call is get_keymint_dev_by_uuid
    res,             \* what the last call returned to the thread
    conns            \* connections made in this process life

vars == <<hal, devicesByUuid, uuidBySecLevel, lock, pc, req, byUuid, res, conns>>

TypeOK ==
    /\ hal \in HalConfigs
    /\ devicesByUuid \in [SecLevels -> Entry \cup {NoEntry}]
    /\ uuidBySecLevel \in [SecLevels -> SecLevels \cup {NoUuid}]
    /\ lock \in Threads \cup {NoThread}
    /\ pc \in [Threads -> {"idle", "waiting", "connecting"}]
    /\ req \in [Threads -> SecLevels]
    /\ byUuid \in [Threads -> BOOLEAN]
    /\ res \in [Threads -> Entry \cup Errors \cup {NoResult}]
    /\ conns \in 0..MaxConn

-----------------------------------------------------------------------------
(* DevicesMap::dev_by_sec_level: follow uuid_by_sec_level, then            *)
(* devices_by_uuid.                                                        *)
DevBySecLevel(l) ==
    IF uuidBySecLevel[l] = NoUuid THEN NoEntry
    ELSE devicesByUuid[uuidBySecLevel[l]]

(* keymint_service_name: only TEE and STRONGBOX have an instance name;     *)
(* the service is used when that instance is declared.                     *)
ServiceDeclared(l) == hal[l].native # NotDeclared

(* The HAL version connect_keymint computes: <AIDL version> * 100 for a    *)
(* genuine KeyMint, none (NotDeclared) for the km_compat legacy wrapper.   *)
HalVersion(l) ==
    IF ServiceDeclared(l) THEN hal[l].native * 100 ELSE NotDeclared

(* Mutant: the hw_info.versionNumber overwrite is dropped, KeyMint's      *)
(* implementation-defined number is kept.                                  *)
AdaptNoFixup(l, d) ==
    LET hv == HalVersion(l) IN
    IF hv \in {100, 200, 300, 400}
        THEN [dev |-> d, version |-> hal[l].reported, wrapped |-> hv = 100,
              uuid |-> Uuid(l)]
    ELSE IF hv = NotDeclared
        THEN [dev |-> d, version |-> hal[l].legacy, wrapped |-> TRUE,
              uuid |-> Uuid(l)]
    ELSE Err("HwUnavailable")

(* The adapter match and the hw_info fix-up of connect_keymint, for a      *)
(* connection numbered d: 200/300/400 as-is, 100 and legacy wrapped, any   *)
(* other version refused; versionNumber is overwritten by the HAL version  *)
(* when there is one and left as the legacy wrapper reports it otherwise.  *)
Adapt(l, d) ==
    LET hv == HalVersion(l) IN
    IF hv \in {200, 300, 400}
        THEN [dev |-> d, version |-> hv, wrapped |-> FALSE, uuid |-> Uuid(l)]
    ELSE IF hv = 100
        THEN [dev |-> d, version |-> hv, wrapped |-> TRUE, uuid |-> Uuid(l)]
    ELSE IF hv = NotDeclared
        THEN [dev |-> d, version |-> hal[l].legacy, wrapped |-> TRUE,
              uuid |-> Uuid(l)]
    ELSE Err("HwUnavailable")

(* connect_keymint(l) as the set of results one call can have.  A level    *)
(* without an instance name fails before any connection; a legacy level   *)
(* whose compat service answers NAME_NOT_FOUND is HwUnavailable; every     *)
(* binder call on the way (get_interface, getInterfaceVersion,            *)
(* getKeyMintDevice, wrap, getHardwareInfo) may fail with ConnFailed.      *)
ConnectKeymint(l, d) ==
    IF l \notin KmLevels THEN {Err("HwUnavailable")}
    ELSE IF ~ServiceDeclared(l) /\ hal[l].legacy = NotFound
        THEN {Err("HwUnavailable"), Err("ConnFailed")}
    ELSE {Adapt(l, d), Err("ConnFailed")}

-----------------------------------------------------------------------------
Init ==
    /\ hal \in HalConfigs
    /\ devicesByUuid = [u \in SecLevels |-> NoEntry]
    /\ uuidBySecLevel = [l \in SecLevels |-> NoUuid]
    /\ lock = NoThread
    /\ pc = [t \in Threads |-> "idle"]
    /\ req \in [Threads -> SecLevels]
    /\ byUuid = [t \in Threads |-> FALSE]
    /\ res = [t \in Threads |-> NoResult]
    /\ conns = 0

(* A thread enters get_keymint_device(l) or get_keymint_dev_by_uuid(l).    *)
Call(t, l, viaUuid) ==
    /\ pc[t] = "idle"
    /\ pc' = [pc EXCEPT ![t] = "waiting"]
    /\ req' = [req EXCEPT ![t] = l]
    /\ byUuid' = [byUuid EXCEPT ![t] = viaUuid]
    /\ res' = [res EXCEPT ![t] = NoResult]
    /\ UNCHANGED <<hal, devicesByUuid, uuidBySecLevel, lock, conns>>

(* Mutant: the lock is held for the lookup only and dropped before         *)
(* connect_keymint, as a "never hold the lock across I/O" rewrite would do.*)
LookupUnlocked(t) ==
    /\ pc[t] = "waiting"
    /\ ~byUuid[t]
    /\ lock = NoThread
    /\ IF DevBySecLevel(req[t]) # NoEntry
         THEN /\ res' = [res EXCEPT ![t] = DevBySecLevel(req[t])]
              /\ pc' = [pc EXCEPT ![t] = "idle"]
         ELSE /\ pc' = [pc EXCEPT ![t] = "connecting"]
              /\ UNCHANGED res
    /\ UNCHANGED <<hal, devicesByUuid, uuidBySecLevel, lock, req, byUuid, conns>>

(* get_keymint_device: take the lock and look the level up.  A hit         *)
(* returns the cached triple and drops the lock; a miss keeps the lock     *)
(* and goes on to connect_keymint.                                         *)
Lookup(t) ==
    /\ pc[t] = "waiting"
    /\ ~byUuid[t]
    /\ lock = NoThread
    /\ IF DevBySecLevel(req[t]) # NoEntry
         THEN /\ res' = [res EXCEPT ![t] = DevBySecLevel(req[t])]
              /\ pc' = [pc EXCEPT ![t] = "idle"]
              /\ UNCHANGED lock
         ELSE /\ lock' = t
              /\ pc' = [pc EXCEPT ![t] = "connecting"]
              /\ UNCHANGED res
    /\ UNCHANGED <<hal, devicesByUuid, uuidBySecLevel, req, byUuid, conns>>

(* Mutant: a failed connection is cached like a successful one.           *)
ConnectCachingErrors(t) ==
    /\ pc[t] = "connecting"
    /\ conns < MaxConn
    /\ \E r \in ConnectKeymint(req[t], conns + 1) :
         /\ res' = [res EXCEPT ![t] = r]
         /\ devicesByUuid' = [devicesByUuid EXCEPT ![Uuid(req[t])] = r]
         /\ uuidBySecLevel' = [uuidBySecLevel EXCEPT ![req[t]] = Uuid(req[t])]
         /\ conns' = conns + 1
    /\ lock' = NoThread
    /\ pc' = [pc EXCEPT ![t] = "idle"]
    /\ UNCHANGED <<hal, req, byUuid>>

(* The connect_keymint call returns, the result is inserted under both     *)
(* maps on success, and the guard drops the lock.                          *)
Connect(t) ==
    /\ pc[t] = "connecting"
    /\ conns < MaxConn
    /\ \E r \in ConnectKeymint(req[t], conns + 1) :
         /\ res' = [res EXCEPT ![t] = r]
         /\ IF r \in Errors
              THEN UNCHANGED <<devicesByUuid, uuidBySecLevel, conns>>
              ELSE /\ devicesByUuid' = [devicesByUuid EXCEPT ![Uuid(req[t])] = r]
                   /\ uuidBySecLevel' = [uuidBySecLevel EXCEPT ![req[t]] = Uuid(req[t])]
                   /\ conns' = conns + 1
    /\ lock' = NoThread
    /\ pc' = [pc EXCEPT ![t] = "idle"]
    /\ UNCHANGED <<hal, req, byUuid>>

(* get_keymint_dev_by_uuid: cache only, Error::sys() on a miss.            *)
LookupByUuid(t) ==
    /\ pc[t] = "waiting"
    /\ byUuid[t]
    /\ lock = NoThread
    /\ res' = [res EXCEPT ![t] = IF devicesByUuid[req[t]] = NoEntry
                                   THEN Err("SysError")
                                   ELSE devicesByUuid[req[t]]]
    /\ pc' = [pc EXCEPT ![t] = "idle"]
    /\ UNCHANGED <<hal, devicesByUuid, uuidBySecLevel, lock, req, byUuid, conns>>

(* The process dies (a panic anywhere in keystore2) and init restarts it:  *)
(* the LazyLock statics start empty again, every handle is gone.           *)
Restart ==
    /\ devicesByUuid' = [u \in SecLevels |-> NoEntry]
    /\ uuidBySecLevel' = [l \in SecLevels |-> NoUuid]
    /\ lock' = NoThread
    /\ pc' = [t \in Threads |-> "idle"]
    /\ res' = [t \in Threads |-> NoResult]
    /\ conns' = 0
    /\ UNCHANGED <<hal, req, byUuid>>

Next ==
    \/ \E t \in Threads, l \in SecLevels, b \in BOOLEAN : Call(t, l, b)
    \/ \E t \in Threads : Lookup(t) \/ Connect(t) \/ LookupByUuid(t)
    \/ Restart

Spec == Init /\ [][Next]_vars

-----------------------------------------------------------------------------
(* Every device handle a thread was given is the one the cache holds for   *)
(* its uuid: no two threads of one process life ever talk to two different*)
(* connections of the same KeyMint instance.  This rests on               *)
(* get_keymint_device keeping the mutex across connect_keymint; a         *)
(* lookup-then-connect without the lock would let a second connection     *)
(* replace the first.                                                      *)
HandleIsCached ==
    \A t \in Threads :
        res[t] \in Entry => devicesByUuid[res[t].uuid] = res[t]

(* The versionNumber keystore2 compares (e.g. add_required_parameters'     *)
(* "versionNumber >= 100") is monotone across HAL kinds: every KeyMint     *)
(* handle is at least 100 and is version*100 of its AIDL interface, every  *)
(* legacy Keymaster handle is below 100, and the emulation wrapper is on   *)
(* exactly the handles below KeyMint V2.                                   *)
VersionNormalized ==
    \A u \in SecLevels : devicesByUuid[u] # NoEntry =>
        LET e == devicesByUuid[u] IN
        /\ ServiceDeclared(u) => e.version = hal[u].native * 100
        /\ ~ServiceDeclared(u) => e.version = hal[u].legacy
        /\ e.wrapped = (e.version < 200)

(* The inductive strengthening of HandleIsCached used in RegistryProofs:   *)
(* the lock is held exactly by the connecting thread, whose level is not   *)
(* cached; the two maps of DevicesMap agree; a cached entry carries its    *)
(* own uuid.                                                               *)
LockHeldByConnecting ==
    \A t \in Threads : (pc[t] = "connecting") <=> (lock = t)
ConnectingMisses ==
    \A t \in Threads : pc[t] = "connecting" => devicesByUuid[Uuid(req[t])] = NoEntry
MapsAgree ==
    \A l \in SecLevels :
        /\ uuidBySecLevel[l] \in {NoUuid, Uuid(l)}
        /\ (uuidBySecLevel[l] = NoUuid) <=> (devicesByUuid[Uuid(l)] = NoEntry)
EntriesOwnUuid ==
    \A u \in SecLevels : devicesByUuid[u] # NoEntry => devicesByUuid[u].uuid = u
IInv ==
    /\ TypeOK
    /\ LockHeldByConnecting
    /\ ConnectingMisses
    /\ MapsAgree
    /\ EntriesOwnUuid
    /\ HandleIsCached

(* The inductive strengthening of VersionNormalized: only the KeyMint      *)
(* levels ever get a cache entry, since connect_keymint refuses the others *)
(* before connecting.                                                      *)
EntriesAreKmLevels ==
    \A u \in SecLevels : devicesByUuid[u] # NoEntry => u \in KmLevels
VInv ==
    /\ TypeOK
    /\ EntriesAreKmLevels
    /\ VersionNormalized

-----------------------------------------------------------------------------
(* What spec.md says of the registry and the code does not do.             *)

(* spec.md 4.1 step 3 and the 8 scenario: with no native instance the      *)
(* legacy bridge is used and the handle has the normalized version 100.    *)
(* connect_keymint leaves the legacy wrapper's 10*major+minor in place.    *)
LegacyNormalizedTo100 ==
    \A u \in SecLevels :
        (devicesByUuid[u] # NoEntry /\ ~ServiceDeclared(u))
            => devicesByUuid[u].version = 100

(* spec.md 4.1 and 5: the registry lock covers lookup and insert only and  *)
(* "resolution after the first successful call for a tier never blocks on  *)
(* I/O".  get_keymint_device holds the lock across connect_keymint, so a   *)
(* thread after a cached tier waits for another tier's connection.         *)
CachedResolveNeverBlocks ==
    \A t \in Threads :
        (/\ pc[t] = "waiting" /\ ~byUuid[t]
         /\ DevBySecLevel(req[t]) # NoEntry)
            => lock = NoThread
=============================================================================
