# TLA+ models of keystore2's device registry, start-up, key creation, operation admission and key upgrade

This directory holds TLA+ specifications of the Rust sources under
`src/keystore2/src`. They cover six parts:

* the KeyMint device registry (`globals.rs`);
* the secure clock cache (`globals.rs`);
* start-up, the boot-completed watcher and the GC's uuid lookup
  (`keystore2_main.rs`, `globals.rs`), composed with the registry;
* the `create_operation` path of `KeystoreSecurityLevel` (`security_level.rs`);
* the key-creation and raw-blob entry points of `KeystoreSecurityLevel`
  (`generate_key`, `import_key`, `import_wrapped_key`,
  `convert_storage_key_to_ephemeral`, `delete_key`), shown to implement an
  abstract key database;
* the raw KeyMint device wrapper for internal keys (`raw_device.rs`).

TLC configurations check the models on small instances. TLAPS proofs cover
every part but start-up.

## The system and its parts

keystore2 is the Android key store daemon. A pool of binder threads serves
client requests. Each request runs synchronously from start to end.

* **Device registry** (`globals.rs` 101-372). `KEY_MINT_DEVICES` is a
  `Mutex<DevicesMap>` with two maps, security level -> uuid and
  uuid -> (device, hardware info).
  * `get_keymint_device` takes the mutex and looks the level up. On a miss it
    calls `connect_keymint` *while still holding the mutex*, then inserts the
    new connection.
  * `connect_keymint` looks up the declared AIDL instance
    (`keymint_service_name`). If none is declared, it falls back to the
    km_compat legacy wrapper. It maps the AIDL version to `version*100` and
    wraps V1 and legacy devices in `BacklevelKeyMintWrapper`. It refuses any
    other version. It then overwrites `hw_info.versionNumber` with the
    normalised version, but only for native KeyMint.
  * `get_keymint_dev_by_uuid` reads the cache only.
* **Security level** (`security_level.rs`). `create_operation` does these steps
  in order:
  1. It loads the key entry. `load_key_entry` returns a `KeyIdGuard`, a
     per-key lock.
  2. It authorizes the request and unwraps super-encryption.
  3. It runs `upgrade_keyblob_if_required_with` around a loop that calls
     `IKeyMintDevice::begin`. On `TOO_MANY_OPERATIONS` the loop calls
     `operation_db.prune(caller, forced)` and tries again, with no cap.
  4. When the device asks for an upgrade, the upgraded blob is handed to
     `store_upgraded_keyblob`. That function takes the guard. Its
     `db.set_blob` is commented out in this repository. A blob marked
     `force_reencrypt` is stored again when no upgrade took the guard.
  5. On success the KeyMint operation joins the operation database.

  `generate_key` and `import_key` end in `store_new_key`, which stores the
  blob with this instance's `KmUuid`.
* **Raw device** (`raw_device.rs`). This is the internal-key variant of the
  same protocol. `lookup_or_generate_key` works in separate database
  transactions, so its caller must hold a lock of its own:
  * The first lookup takes the key id's `KeyIdGuard`.
  * A key of another KeyMint instance (by `KmUuid`), or one whose
    characteristics fail validation, is replaced. `create_and_store_key`
    generates and stores a new key, and a second lookup returns it.
  * `getKeyCharacteristics` and `use_key_in_one_step`'s `begin` run inside an
    upgrade wrapper. Its `set_blob` is commented out.
* **Secure clock cache** (`globals.rs` 154, 382-427). `TIME_STAMP_DEVICE` is
  an `Option` behind one mutex. `get_timestamp_service` holds the mutex across
  `connect_secureclock`, like the registry. `connect_secureclock` uses the
  declared "default" `ISecureClock`. Without one it starts km_compat and asks
  it for the legacy clock; NAME_NOT_FOUND becomes HARDWARE_TYPE_UNAVAILABLE.
  Errors are not cached.
* **Key creation** (`security_level.rs` 123-228, 529-1117). Each call
  validates its descriptor and checks its permission. Then:
  * `generate_key` finds an attestation key: a database key loaded under its
    `KeyIdGuard`, an RKPD key, or none. It calls `generateKey` inside the
    upgrade wrapper on the attestation key's blob.
  * `import_key` derives the key format from the ALGORITHM tag and calls
    `importKey`.
  * `import_wrapped_key` loads the wrapping key under its guard and calls
    `importWrappedKey` inside the upgrade wrapper.
  * The three end in `store_new_key`, which binds the alias to the new blob
    unless the key is a caller-held `Domain::BLOB` key.
  * `convert_storage_key_to_ephemeral` has its own upgrade: on
    KEY_REQUIRES_UPGRADE it calls `upgradeKey`, retries once with the
    upgraded blob and returns that blob to the caller.
  * `delete_key` calls `deleteKey` on the caller's blob.
* **Start-up** (`keystore2_main.rs`, `globals.rs` 457-492). `main` spawns
  `await_boot_completed` first. It then negotiates the shared secret and
  builds `KeystoreService`, which resolves the TEE (fatal) and the StrongBox
  (optional when HARDWARE_TYPE_UNAVAILABLE). Finally it registers six
  services. A panic anywhere restarts keystore2. The watcher sets
  `BOOT_COMPLETED` and notifies the GC as soon as `sys.boot_completed` is 1,
  which after a restart is at once. The GC's invalidation closure calls
  `get_keymint_dev_by_uuid`, which reads the registry cache only.
* **Crypto FFI** (`crypto/lib.rs`) and the **SELinux bindings**
  (`selinux/src/lib.rs`) are not modelled; see below.

The modelled parts interact through the registry. Both
`KeystoreSecurityLevel::new_native_binder` and `KeyMintDevice::get` are built
from the device that `get_keymint_device` returns. That device's `km_uuid` is
the `OwnUuid` that their blobs are checked against.

## Modules

| Module | Models | State | Actions |
|---|---|---|---|
| `Registry` | globals.rs registry | `hal` (the HAL configuration of each tier), `devicesByUuid`, `uuidBySecLevel`, `lock` (the mutex holder), per-thread `pc`/`req`/`byUuid`/`res`, and `conns` (connections made) | `Call`, `Lookup`, `Connect`, `LookupByUuid`, `Restart` |
| `SecurityLevel` | create_operation, key creation, operation lifetime | `fw` (the blob version the firmware requires), `db` (key blobs with version, KmUuid and force_reencrypt), `keyLock` (KEY_ID_LOCK), `kmOps` (slots in use in KeyMint), `ops` (the operation database, oldest first), per-thread `pc`/`th` | `Request`, `Load`, `Authorize`, `Begin`, `Prune`, `Upgrade`, `StoreUpgraded`, `Complete`, `FinishOp`, `CreateKey`, `Restart` |
| `RawDevice` | raw_device.rs | `fw`, `db` (alias -> blob with key id, version and KmUuid), `gen` (generations per alias), `callerLock` (the caller's lock), `keyLock` (a KeyIdGuard per key id), and per-thread `pc`/`blob`/`alias` | `Acquire`, `Lookup`, `Chars`, `UpgradeRaw`, `Generate`, `Relookup`, `Use`, `Restart` |
| `SecureClock` | globals.rs secure clock | `native`, `legacy` (which clock the device has), `cache` (TIME_STAMP_DEVICE: `None` or `Ok(handle)`), `lock`, per-thread `pc`/`res`, `conns` (successful connections) | `Call`, `Lock`, `Connect`, `Restart` |
| `Bootstrap` | keystore2_main.rs, boot watcher, GC lookup | the `Registry` variables (through `INSTANCE Registry WITH Threads <- {Main, GcThread}`), `bootProp`, `bootFlag`, `mainPc`, `registered`, `watchPc`, `gcNotified`, `gcPc`, `gcBlob`, `superseded` (tiers that have superseded blobs), `gcMisses` (main's phase at each GC lookup that missed) | `MainStart`, `MainNegotiate`, `ResolveCall`, `MainRegistry`, `ResolveDone`, `Register`, `Restart`, `BootCompletes`, `WatchFails`, `WatchRetry`, `WatchDone`, `Supersede`, `GcStart`, `GcLookup`, `GcInvalidate` |
| `KeyCreation` | security_level.rs key creation | `fw`, `db`, `rkpd` (version of RKPD's attestation key), `keyLock`, per-thread `pc` and `th` (request, blob in hand, guard, upgraded, results) | `Request`, `Validate`, `Permission`, `Attest`, `Params`, `Format`, `LoadWrap`, `KmGenerate`, `KmImport`, `KmWrapped`, `KmConvert`, `KmDelete`, `Upgrade` (`UpgradeConvert`, `UpgradeRkpd`, `UpgradeWrapped`), `Store`, `Restart` |
| `RegistryProofs`, `RawDeviceProofs`, `SecurityLevelProofs`, `SecureClockProofs`, `KeyCreationProofs`, `BootstrapProofs` | proofs | | |
| `MC_Registry`, `MC_SecurityLevel`, `MC_RawDevice`, `MC_SecureClock`, `MC_Bootstrap`, `MC_KeyCreation` | TLC instances | | |

The `Registry` model works as follows:

* `Connect` is one atomic step because the mutex is held across it. Any of its
  binder calls may fail (`ConnFailed`).
* `ConnectKeymint(l, d)` gives the set of results a call can have.
* `Adapt` is the adapter match together with the `versionNumber` fix-up.

In the `SecurityLevel` model, each `pc` value is a stretch of
`create_operation` between two points where another thread can act:

* `Load` waits for the key's guard.
* `Begin` makes one call of the loop.
* `Prune` is the eviction.
* `Upgrade` is `upgradeKey`.
* `StoreUpgraded` is the new-blob callback. It takes the guard and stores
  nothing, and the guard is released when it returns.
* `Complete` is the forced re-encryption and the registration.

The helpers `utils::upgrade_keyblob_if_required_with` and `OperationDb` are not
in this repository. `Upgrade`, `PruneVictim`, `BeginResults` and `FinishOp` are
therefore modelled from spec.md 4.2/4.3 and marked `spec_modelled` in
PROJECT.json.

`Bootstrap` composes with `Registry`: main's tier resolutions and the GC's
uuid lookups are `Registry` actions of the threads `Main` and `GcThread`, so
the same cache, mutex and connection failures are shared. `KeystoreService`
and `Gc` are not in this repository; which tiers the service resolves and
which failure is fatal come from spec.md 4.1 and 7 (`ResolveDone`, `Restart`,
`BootCompletes` and `Supersede` are `spec_modelled`).

In `KeyCreation`, a blob is its format version and KeyMint answers
KEY_REQUIRES_UPGRADE to a blob older than the firmware (`KmAnswers`). Every
permission check, database access, RKPD call and KeyMint call may fail.
`add_required_parameters` is one failure point (`Params`). The upgrade
wrapper's contract is spec.md 4.2: one upgrade, one retry. Its new-blob
handler `store_upgraded_keyblob` stores nothing, since its `set_blob` is
commented out.

Abstractions:

* Keys are indexed by alias. In the code a rebind creates a new key id, while
  the model's `keyLock` is per alias, which is stricter.
* Authorization, unwrapping and permission checks are nondeterministic
  failures.
* Blobs are records `(ver, uuid, reenc)`.

## Runs

| Run | Checks | Shows |
|---|---|---|
| `registry` (pass) | TypeOK, HandleIsCached, VersionNormalized | Every handle a thread was given is the cached one for its uuid. Every cached version is the normalised one. |
| `registry_legacy_version` (violation) | LegacyNormalizedTo100 | A legacy Keymaster tier keeps version 41, not 100 (spec.md 8). |
| `registry_lock_across_connect` (violation) | CachedResolveNeverBlocks | A lookup of a cached tier waits behind another tier's connection (spec.md 5). |
| `create_operation` (pass) | TypeOK, NoSlotLeak, AtMostOneStore | No KeyMint slot leaks on any error path. An upgraded blob is stored at most once per call. |
| `create_operation_upgrade_lost` (violation) | UpgradePersisted | After an OTA the upgrade is never written back (spec.md 4.2, 9). |
| `create_operation_foreign_blob` (violation) | ForeignBlobNeverBegun | A blob with a foreign KmUuid reaches begin (spec.md 8). |
| `create_operation_livelock` (violation, liveness) | CreateOperationTerminates | The prune/continue loop livelocks (spec.md 4.3, 9). |
| `raw_lookup_or_generate` (pass) | TypeOK, ReturnedKeyIsStored | The key returned is the alias's current key of this device, never a foreign or superseded one. |
| `secure_clock` (pass) | TypeOK, ClockHandleIsCached, SingleClockConnection | Every timestamp service handle returned is the cached one; one process life makes one successful connection. |
| `bootstrap` (pass) | ServingImpliesTee, GcMissesOnlyBeforeService | Once main registers its services the TEE is cached. A GC uuid lookup misses only before `KeystoreService` has resolved its tiers. |
| `bootstrap_gc_before_service` (violation) | CacheReadyForGc | Once `sys.boot_completed` is 1 (already set at a restart, or set by a boot that finishes while main is still negotiating) the GC looks a uuid up before main has resolved any tier and gets a system error. The comment of `get_keymint_dev_by_uuid` says the cache is populated by then. |
| `key_creation` (pass) | ConvertReturnsCurrent, UpgradeRequiredRecovered | A successful convert returns a current ephemeral key, and the upgraded blob exactly when one was needed. KEY_REQUIRES_UPGRADE never reaches a caller. |

The commented-out `set_blob` that `create_operation_upgrade_lost` shows in
`store_upgraded_keyblob` is repeated in `raw_device.rs` 273: the raw
device's doc comment says the upgraded key is written to the database, and
it is not.

Bounds:

* `registry`:
  * 2 threads and 3 security levels (TEE and StrongBox are KeyMint levels;
    SOFTWARE has no instance).
  * AIDL versions {1, 2, 5}: V1 is wrapped, V2 is current, V5 is beyond the
    match.
  * Legacy version 41.
  * At most 3 connections per process life. The restarts reset the count.
  * Two threads are enough for one thread to connect while the other looks up
    the same or another tier.
* `create_operation`:
  * 2 threads, 2 callers, 1 key, 2 slots and a firmware bump from 1 to 2.
  * Two slots let both threads' operations fill the device so that prune is
    reached, with victims of either caller.
  * With one key, the two threads contend for its guard.
* `create_operation_livelock`:
  * 2 threads of one caller, 2 keys and 1 slot. With two keys, the second
    thread is not blocked by the first thread's guard.

* `secure_clock`:
  * 3 threads and room for 3 connections. Two threads can miss the cache
    while a third connects, and a second successful connection would fit.
  * Native, legacy and no clock are all initial states.

* `raw_lookup_or_generate`:
  * 2 threads, 2 aliases, 3 generations per alias and a firmware bump.
  * Initial keys may be missing, of this instance or of another.

* `bootstrap`:
  * the TEE and StrongBox tiers, each possibly native KeyMint V2, Keymaster
    4.1 through km_compat, or absent, and 3 connections per process life;
  * restarts with the boot property already set, which is the case the
    violation needs.
* `key_creation`:
  * 2 threads, 1 alias and firmware versions 1 and 2;
  * every operation, both domains and all three attestation choices. One
    alias makes the attestation key, the wrapping key and the new key the
    same one, so a store can replace a key another thread is using, and the
    two threads contend for its guard.

Symmetry over threads and callers is used in the safety runs. It is not used
in the liveness run.

Fairness: `FairSpec` assumes weak fairness of each thread's
`create_operation` steps. A binder thread runs its request to the end unless
it blocks. Requests, finishes and restarts are not assumed to happen.

## Proofs

`RegistryProofs` proves three theorems, for every value of the constants,
under `RegistryAssumption`:

* `TypeCorrect` proves `Spec => []TypeOK`. Its lemma `ConnectResult` shows
  that a connection result is either an error or an entry for the requested
  level.
* `HandleIsCachedThm` proves `Spec => []HandleIsCached`.
* `VersionNormalizedThm` proves `Spec => []VersionNormalized`.

`HandleIsCached` is not inductive on its own: a `Connect` could overwrite an
entry a thread holds. The inductive invariant `IInv` adds four facts:

* `LockHeldByConnecting`: the mutex holder is the only connecting thread.
* `ConnectingMisses`: a connecting thread's level has no cache entry.
* `MapsAgree`: the two maps agree.
* `EntriesOwnUuid`: every entry sits under its own uuid.

Together these mean a connection only ever fills an empty slot. TLC checked
`IInv` as an invariant of the `registry` run before it was proved.

`VersionNormalized` is not inductive either. `HalConfigs` gives only the
levels of `KmLevels` a configuration, so the invariant says nothing of an
entry under another level. Its strengthening `VInv` adds
`EntriesAreKmLevels`: only those two levels are ever cached, because
`connect_keymint` refuses every other level before it connects. The lemma
`ConnectNormalized` computes what `Adapt` caches for each HAL kind:

* for AIDL V2 to V4, version*100 and no wrapper;
* for V1, 100 and the wrapper;
* for a legacy Keymaster, the wrapper's own number and the wrapper.

TLC checked `VInv` on the `registry` run before the proof.

`RawDeviceProofs` proves two theorems, for every value of the constants,
under `RawDeviceAssumption`:

* `TypeCorrect` proves `Spec => []TypeOK`.
* `ReturnedKeyIsStoredThm` proves `Spec => []ReturnedKeyIsStored`.

The inductive invariant `IInv` has three parts:

* `CallerLockHeld`: every thread inside `lookup_or_generate_key` holds the
  caller's lock of its alias. Two such threads therefore have different
  aliases (lemma `AliasExclusive`).
* `WorkingOnCurrentKey`: a thread past a successful lookup, or waiting for the
  second lookup, works on the alias's current key of this device.
* `StoredNotNewer`: no stored blob is newer than the firmware, so an upgrade
  never leaves the blob in hand older than the stored one.

The caller's lock is what the proof rests on. The lock is outside this
repository (the code's comment requires it), so it is an assumption of the
model.

`SecurityLevelProofs` proves three theorems, for every value of the
constants, under `SecurityLevelAssumption` (finitely many threads, at least
one slot and one firmware version, two distinct KmUuids):

* `TypeCorrect` proves `Spec => []TypeOK`.
* `NoSlotLeakThm` proves `Spec => []NoSlotLeak`.
* `AtMostOneStoreThm` proves `Spec => []AtMostOneStore`.

All three rest on one inductive invariant, `IInv` in `SecurityLevel.tla`.
TLC checked it as an invariant of the `create_operation` instance before it
was proved. Its parts are needed as follows:

* `TypeOK` alone is not inductive. `Prune`, `FinishOp` and a failing forced
  re-encryption decrement `kmOps`, and only `NoSlotLeak` shows that it is
  positive there. `NoSlotLeak` holds because every move into or out of
  "complete" changes `kmOps` or `ops` by one (lemmas `CompleteEnter`,
  `CompleteLeave`, `RemoveAtProps`).
* `AtMostOneStore` needs `GuardUnstored`: a store happens only with the
  guard, and the guard is dropped by the store. `GuardUnstored` in turn needs
  `LoadUnstored`, because `Load` takes the guard.
* `GuardHeld`: a call past `load` that has its guard holds `keyLock` of its
  key. It is inductive because `Load` takes only a free lock and
  `StoreUpgraded` releases its own. None of the three theorems needs it; it
  records the lock discipline the model gives KEY_ID_LOCK.

`PruneStep` needs the index `Prune` evicts to lie in the operation database
(`PruneVictimProps`). That lemma uses `MinOfNats`, which is derived from
`WFMin` and `NatLessThanWellFounded` of WellFoundedInduction.

`SecureClockProofs` proves `TypeCorrect`, `ClockHandleIsCachedThm` and
`SingleClockConnectionThm` for every number of threads and connection bound.
All three follow from `IInv` in `SecureClock.tla`:

* `LockHeldByConnecting`: a thread connects exactly when it holds the mutex.
* `ConnectingMisses`: while the mutex is held for a connection the cache is
  empty.
* `CacheCountsConnection`: the cache is empty exactly when no connection
  succeeded, and otherwise holds that connection's handle.
  Errors are never cached, so an error connection counts for nothing.

So the one successful connection finds `conns = 0` and no handle handed out.

`KeyCreationProofs` proves three theorems, for every value of the
constants, under `KeyCreationAssumption` (at least one alias, a positive
firmware bound):

* `TypeCorrect` proves `Spec => []TypeOK`.
* `ConvertReturnsCurrentThm` proves `Spec => []ConvertReturnsCurrent`.
* `UpgradeRequiredRecoveredThm` proves `Spec => []UpgradeRequiredRecovered`.

All three rest on `IInv` in `KeyCreation.tla`, per thread:

* `BusyNoResult`: a call in progress has no result yet.
* `ConvertState`: a convert in progress stays on its path, its caller's blob
  is no newer than the firmware, and older when it is being upgraded. It holds
  that blob, or after its one upgrade the current blob, which it will return.
* `UpgradedState`: a call that has upgraded is back at KeyMint with a current
  blob, or at the store.

`UpgradedState` is why a second KEY_REQUIRES_UPGRADE cannot happen (lemma
`NoSecondUpgrade`). A restart may raise the firmware, but it also ends every
call. TLC checked `IInv` on the `key_creation` instance before the proof.
The proof has one lemma per action: `FailStep`, `GotoStep` and `IdleThread`
cover the steps that only fail, move on or return.

`BootstrapProofs` proves four theorems, for every HAL configuration and
connection bound, under `BootstrapAssumption`:

* `BInvThm` proves `Spec => []BInv`.
* `TypeCorrect` proves `Spec => []TypeOK`.
* `ServingImpliesTeeThm` proves `Spec => []ServingImpliesTee`.
* `GcMissesOnlyBeforeServiceThm` proves `Spec => []GcMissesOnlyBeforeService`.

`BootstrapAssumption` states that `KmLevels` is exactly TEE and StrongBox,
which is what `keymint_service_name` maps. It also restates what
`RegistryAssumption` requires of the constants, for the two threads `Main`
and `GcThread`.

The inductive invariant `BInv` in `Bootstrap.tla` has these parts:

* `MainCallShape`: main() is inside `get_keymint_device` only in a waiting
  phase, and then for that phase's tier.
* `GcCallShape`: the GC thread is inside `get_keymint_dev_by_uuid` exactly
  in its lookup step, and for the tier of its blob. Every superseded blob
  belongs to a tier that can be connected (`Present`).
* `MainResultSettled`: once the call has returned to main(), there are three
  facts. It returned something. A device comes back only once the tier is
  cached. HARDWARE_TYPE_UNAVAILABLE comes back only for a tier that is not
  `Present`; lemma `HwUnavailableAbsent` shows that this refusal depends on
  the HAL configuration alone.
* `TiersCached`: the TEE is cached from the StrongBox phase on. A `Present`
  StrongBox is cached from registration on. Only a restart removes an entry,
  and a restart also resets main().
* `RegisterCount`: services are counted only after the tiers are resolved.
* `MapsAgree` of `Registry`.

`ServingImpliesTee` follows from `TiersCached` and `MapsAgree` (lemma
`TeeFound`). A GC lookup in the register or serving phase finds its tier
cached by `TiersCached`, so `GcMissesOnlyBeforeService` is kept. The proof has
one lemma per action. `QuietStep` covers the steps that leave the registry
and the GC alone. TLC checked `BInv` on the `bootstrap` run before the proof.

What stays with TLC:

* Liveness (`CreateOperationTerminates`) and everything that uses ENABLED.
* The violation runs: they show a counterexample, not a theorem.

## Not modelled

* `crypto/lib.rs`: pure FFI data transformations.
* `selinux/src/lib.rs`: FFI wrappers over libselinux. Every permission check
  is a nondeterministic allow or deny in the models.
* Logging, the database path, the binder thread pool size and the RKP
  component names of `keystore2_main.rs`: configuration, with no state a
  property tells apart.
* Database, GC and super-key internals: they are not in this repository.
* The contents of `add_required_parameters`: parameter lists and attestation
  ids. Only its failure is modelled.

## Plan

The work is ordered as follows:

1. Done: `Registry`, `RawDevice`, `SecurityLevel`, `SecureClock`,
   `KeyCreation`, each with proofs; `Bootstrap`
   composed with `Registry`.
2. `add_required_parameters` as a pure operator over parameter lists,
   checked against a reference definition.
3. `SecurityLevel` and `RawDevice` shown to refine an abstract upgrade
   specification of spec.md 4.2, or to fail to, where persistence is missing.
4. A composition of `Registry` and `SecurityLevel`, in which a restart
   reconnects and `km_uuid` comes from the registry.
