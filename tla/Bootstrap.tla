------------------------------ MODULE Bootstrap ------------------------------
(***************************************************************************)
(* Start-up of keystore2 (src/keystore2/src/keystore2_main.rs) together    *)
(* with the boot-completed watcher and the blob garbage collector's        *)
(* invalidation closure (src/keystore2/src/globals.rs), over the device    *)
(* registry of module Registry.                                            *)
(*                                                                         *)
(* main() sets up logging and the database path, spawns                    *)
(* await_boot_completed, negotiates the shared secret, starts the binder  *)
(* thread pool, builds KeystoreService -- which resolves the TEE and the  *)
(* StrongBox KeyMint through get_keymint_device -- and registers six      *)
(* services, panicking on any failure.  await_boot_completed waits for    *)
(* sys.boot_completed=1, sets BOOT_COMPLETED and notifies the GC.  The GC *)
(* invalidates superseded blobs through get_keymint_dev_by_uuid, which    *)
(* reads the registry cache only.                                          *)
(*                                                                         *)
(* KeystoreService (service.rs) and Gc (gc.rs) are not in this             *)
(* repository: which tiers the service resolves and how a fatal or        *)
(* optional tier is told apart are taken from spec.md 4.1 and 7; that GC  *)
(* runs once BOOT_COMPLETED is set and on every notify is taken from the  *)
(* comment of await_boot_completed.                                       *)
(***************************************************************************)
EXTENDS Naturals

CONSTANTS
    SecLevels, KmLevels, AidlVersions, LegacyVersions, ImplVersions,
    MaxConn, NoThread, NotDeclared, NotFound, NoUuid,
    Main,        \* the main thread of keystore2
    GcThread     \* the ASYNC_TASK worker that runs the garbage collector

(* keymint_service_name maps exactly TRUSTED_ENVIRONMENT and STRONGBOX;   *)
(* the rest is what Registry assumes of its constants, for the two        *)
(* threads of this module.                                                 *)
ASSUME BootstrapAssumption ==
    /\ Main # GcThread
    /\ KmLevels = {"TEE", "STRONGBOX"}
    /\ KmLevels \subseteq SecLevels
    /\ AidlVersions \subseteq Nat \ {0}
    /\ LegacyVersions \subseteq 0..99
    /\ ImplVersions \subseteq Nat
    /\ ImplVersions # {}
    /\ MaxConn \in Nat
    /\ NoThread \notin {Main, GcThread}
    /\ NotDeclared \notin Nat
    /\ NotFound \notin Nat
    /\ NoUuid \notin SecLevels

VARIABLES
    hal, devicesByUuid, uuidBySecLevel, lock, pc, req, byUuid, res, conns,
    bootProp,    \* sys.boot_completed = "1" (survives a keystore2 restart)
    bootFlag,    \* BOOT_COMPLETED
    mainPc,      \* where main() is
    registered,  \* services add_service has registered
    watchPc,     \* the await_boot_completed thread
    gcNotified,  \* GC.notify_gc() is pending
    gcPc,        \* where the GC worker is
    gcBlob,      \* tier (KmUuid) of the superseded blob being invalidated
    superseded,  \* tiers of the superseded blobs in the database
    gcMisses     \* main's phase at each GC uuid lookup that missed

R == INSTANCE Registry WITH Threads <- {Main, GcThread}

regVars == <<hal, devicesByUuid, uuidBySecLevel, lock, pc, req, byUuid, res, conns>>
bootVars == <<bootProp, bootFlag, mainPc, registered, watchPc, gcNotified,
              gcPc, gcBlob, superseded, gcMisses>>
vars == <<regVars, bootVars>>

(* The six add_service calls of main(): IKeystoreService, apc,            *)
(* authorization, maintenance, metrics, legacykeystore.                   *)
NumServices == 6

MainPcs == {"start", "negotiate", "tee", "teeWait", "sb", "sbWait",
            "register", "serving"}

(* The tier main is resolving in a KeystoreService phase.                  *)
PhaseLevel == [p \in {"tee", "teeWait", "sb", "sbWait"} |->
                 IF p \in {"tee", "teeWait"} THEN "TEE" ELSE "STRONGBOX"]

(* A tier whose connect_keymint can succeed on this device: only such a   *)
(* tier has blobs in the database.                                        *)
Present(l) ==
    /\ R!ConnectKeymint(l, 1) \ R!Errors # {}

TypeOK ==
    /\ R!TypeOK
    /\ bootProp \in BOOLEAN
    /\ bootFlag \in BOOLEAN
    /\ mainPc \in MainPcs
    /\ registered \in 0..NumServices
    /\ watchPc \in {"none", "watching", "sleeping", "done"}
    /\ gcNotified \in BOOLEAN
    /\ gcPc \in {"idle", "lookup", "invalidate"}
    /\ gcBlob \in KmLevels
    /\ superseded \subseteq KmLevels
    /\ gcMisses \subseteq MainPcs

-----------------------------------------------------------------------------
Init ==
    /\ R!Init
    /\ bootProp = FALSE
    /\ bootFlag = FALSE
    /\ mainPc = "start"
    /\ registered = 0
    /\ watchPc = "none"
    /\ gcNotified = FALSE
    /\ gcPc = "idle"
    /\ gcBlob \in KmLevels
    /\ superseded \in SUBSET {l \in KmLevels : Present(l)}
    /\ gcMisses = {}

(* main() up to the spawn of await_boot_completed: logging, sqlite, the   *)
(* crash sysprop, module info, DB_PATH, the confirmation channel.          *)
MainStart ==
    /\ mainPc = "start"
    /\ mainPc' = "negotiate"
    /\ watchPc' = "watching"
    /\ UNCHANGED <<regVars, bootProp, bootFlag, registered, gcNotified, gcPc,
                   gcBlob, superseded, gcMisses>>

(* register_feeder, perform_shared_secret_negotiation (which blocks until *)
(* every KeyMint agreed) and start_thread_pool.                           *)
MainNegotiate ==
    /\ mainPc = "negotiate"
    /\ mainPc' = "tee"
    /\ UNCHANGED <<regVars, bootProp, bootFlag, registered, watchPc, gcNotified,
                   gcPc, gcBlob, superseded, gcMisses>>

(* KeystoreService::new_native_binder creates the security level of a     *)
(* tier, whose new_native_binder calls get_keymint_device.                *)
ResolveCall ==
    /\ mainPc \in {"tee", "sb"}
    /\ R!Call(Main, PhaseLevel[mainPc], FALSE)
    /\ mainPc' = IF mainPc = "tee" THEN "teeWait" ELSE "sbWait"
    /\ UNCHANGED <<bootProp, bootFlag, registered, watchPc, gcNotified, gcPc,
                   gcBlob, superseded, gcMisses>>

(* The registry steps of main's get_keymint_device call.                   *)
MainRegistry ==
    /\ R!Lookup(Main) \/ R!Connect(Main)
    /\ UNCHANGED bootVars

(* keystore2 dies -- a panic of main() or anywhere else -- and init        *)
(* restarts it: every static starts afresh; the database and the system   *)
(* property stay.                                                          *)
Restart ==
    /\ R!Restart
    /\ mainPc' = "start"
    /\ registered' = 0
    /\ watchPc' = "none"
    /\ bootFlag' = FALSE
    /\ gcNotified' = FALSE
    /\ gcPc' = "idle"
    /\ UNCHANGED <<bootProp, gcBlob, superseded, gcMisses>>

(* Mutant: a TEE that cannot be resolved is treated as optional.           *)
ResolveDoneTeeOptional ==
    /\ mainPc \in {"teeWait", "sbWait"}
    /\ pc[Main] = "idle"
    /\ IF mainPc = "teeWait" \/ res[Main] \notin {R!Err("ConnFailed"), R!Err("SysError")}
         THEN /\ mainPc' = IF mainPc = "teeWait" THEN "sb" ELSE "register"
              /\ UNCHANGED <<regVars, bootProp, bootFlag, registered, watchPc,
                             gcNotified, gcPc, gcBlob, superseded, gcMisses>>
         ELSE Restart

(* Mutant: any StrongBox failure, not only HARDWARE_TYPE_UNAVAILABLE,      *)
(* leaves the tier out.                                                    *)
ResolveDoneSbAnyError ==
    /\ mainPc \in {"teeWait", "sbWait"}
    /\ pc[Main] = "idle"
    /\ IF mainPc = "sbWait" \/ res[Main] \notin R!Errors
         THEN /\ mainPc' = IF mainPc = "teeWait" THEN "sb" ELSE "register"
              /\ UNCHANGED <<regVars, bootProp, bootFlag, registered, watchPc,
                             gcNotified, gcPc, gcBlob, superseded, gcMisses>>
         ELSE Restart

(* get_keymint_device returned to KeystoreService::new_native_binder: the  *)
(* TEE is required, so any error fails the constructor and main() panics; *)
(* a StrongBox that is HARDWARE_TYPE_UNAVAILABLE is left out (spec.md 4.1 *)
(* and 7), any other StrongBox error is fatal too.                        *)
ResolveDone ==
    /\ mainPc \in {"teeWait", "sbWait"}
    /\ pc[Main] = "idle"
    /\ IF \/ res[Main] \notin R!Errors
          \/ mainPc = "sbWait" /\ res[Main] = R!Err("HwUnavailable")
         THEN /\ mainPc' = IF mainPc = "teeWait" THEN "sb" ELSE "register"
              /\ UNCHANGED <<regVars, bootProp, bootFlag, registered, watchPc,
                             gcNotified, gcPc, gcBlob, superseded, gcMisses>>
         ELSE Restart

(* One service is created and add_service'd; either can fail, and         *)
(* unwrap_or_else panics.  After the last one main joins the thread pool. *)
Register ==
    /\ mainPc = "register"
    /\ \/ /\ registered' = registered + 1
          /\ mainPc' = IF registered + 1 = NumServices THEN "serving" ELSE "register"
          /\ UNCHANGED <<regVars, bootProp, bootFlag, watchPc, gcNotified, gcPc,
                         gcBlob, superseded, gcMisses>>
       \/ Restart

(* The system reaches sys.boot_completed=1 (once per device boot).        *)
BootCompletes ==
    /\ ~bootProp
    /\ bootProp' = TRUE
    /\ UNCHANGED <<regVars, bootFlag, mainPc, registered, watchPc, gcNotified,
                   gcPc, gcBlob, superseded, gcMisses>>

(* watch_for_boot_completed fails (PropertyWatcher::new or wait_for_value *)
(* error): await_boot_completed logs and sleeps five seconds.             *)
WatchFails ==
    /\ watchPc = "watching"
    /\ watchPc' = "sleeping"
    /\ UNCHANGED <<regVars, bootProp, bootFlag, mainPc, registered, gcNotified,
                   gcPc, gcBlob, superseded, gcMisses>>

WatchRetry ==
    /\ watchPc = "sleeping"
    /\ watchPc' = "watching"
    /\ UNCHANGED <<regVars, bootProp, bootFlag, mainPc, registered, gcNotified,
                   gcPc, gcBlob, superseded, gcMisses>>

(* wait_for_value("1") returns: BOOT_COMPLETED is stored and the GC is     *)
(* notified.  After a restart of keystore2 the property is already 1, so  *)
(* this happens as soon as the thread runs.                               *)
WatchDone ==
    /\ watchPc = "watching"
    /\ bootProp
    /\ watchPc' = "done"
    /\ bootFlag' = TRUE
    /\ gcNotified' = TRUE
    /\ UNCHANGED <<regVars, bootProp, mainPc, registered, gcPc, gcBlob,
                   superseded, gcMisses>>

(* A client rebinds or deletes a key: its old blob is superseded and the  *)
(* database notifies the GC.  Clients reach keystore2 only once           *)
(* IKeystoreService is registered.                                         *)
Supersede(l) ==
    /\ registered >= 1
    /\ Present(l)
    /\ superseded' = superseded \cup {l}
    /\ gcNotified' = TRUE
    /\ UNCHANGED <<regVars, bootProp, bootFlag, mainPc, registered, watchPc,
                   gcPc, gcBlob, gcMisses>>

(* The GC takes a superseded blob and its invalidate closure calls        *)
(* get_keymint_dev_by_uuid(km_uuid).                                      *)
GcStart(l) ==
    /\ gcPc = "idle"
    /\ bootFlag
    /\ gcNotified
    /\ l \in superseded
    /\ R!Call(GcThread, l, TRUE)
    /\ gcPc' = "lookup"
    /\ gcBlob' = l
    /\ UNCHANGED <<bootProp, bootFlag, mainPc, registered, watchPc, gcNotified,
                   superseded, gcMisses>>

(* get_keymint_dev_by_uuid reads the cache under the registry mutex.       *)
GcLookup ==
    /\ gcPc = "lookup"
    /\ R!LookupByUuid(GcThread)
    /\ gcPc' = "invalidate"
    /\ gcMisses' = IF res'[GcThread] = R!Err("SysError")
                      THEN gcMisses \cup {mainPc} ELSE gcMisses
    /\ UNCHANGED <<bootProp, bootFlag, mainPc, registered, watchPc, gcNotified,
                   gcBlob, superseded>>

(* The closure calls deleteKey on the device it found, or returns the     *)
(* "No KeyMint instance found" error.  The blob leaves the database when  *)
(* deleteKey succeeds; after an error Gc may drop it or keep it.  The GC  *)
(* goes idle when no superseded blob is left.                             *)
GcInvalidate ==
    /\ gcPc = "invalidate"
    /\ \/ /\ res[GcThread] \notin R!Errors
          /\ superseded' = superseded \ {gcBlob}
       \/ /\ res[GcThread] \in R!Errors
          /\ superseded' \in {superseded, superseded \ {gcBlob}}
    /\ gcPc' = "idle"
    /\ gcNotified' = (superseded' # {})
    /\ UNCHANGED <<regVars, bootProp, bootFlag, mainPc, registered, watchPc,
                   gcBlob, gcMisses>>

Next ==
    \/ MainStart \/ MainNegotiate \/ ResolveCall \/ MainRegistry \/ ResolveDone
    \/ Register
    \/ BootCompletes \/ WatchFails \/ WatchRetry \/ WatchDone
    \/ \E l \in KmLevels : Supersede(l) \/ GcStart(l)
    \/ GcLookup \/ GcInvalidate
    \/ Restart

Spec == Init /\ [][Next]_vars

-----------------------------------------------------------------------------
(* Once KeystoreService exists (registration has begun) the TEE is in the  *)
(* registry cache: main() never serves on a failed TEE, and a restart     *)
(* empties cache and service together.                                    *)
ServingImpliesTee ==
    mainPc \in {"register", "serving"} => R!DevBySecLevel("TEE") # R!NoEntry

(* After KeystoreService has resolved its tiers, a GC lookup of a         *)
(* superseded blob's KmUuid never misses the cache: every tier that has   *)
(* blobs was connected before registration began.                         *)
GcMissesOnlyBeforeService ==
    gcMisses \cap {"register", "serving"} = {}

(* The inductive strengthening of ServingImpliesTee and                   *)
(* GcMissesOnlyBeforeService used in BootstrapProofs.                      *)
(* main() is inside get_keymint_device only in a waiting phase, for the    *)
(* tier of that phase; the GC thread is inside get_keymint_dev_by_uuid     *)
(* exactly while it looks its blob's tier up.                              *)
MainCallShape ==
    /\ ~byUuid[Main]
    /\ pc[Main] # "idle" => mainPc \in {"teeWait", "sbWait"}
    /\ mainPc \in {"teeWait", "sbWait"} => req[Main] = PhaseLevel[mainPc]
GcCallShape ==
    /\ pc[GcThread] = IF gcPc = "lookup" THEN "waiting" ELSE "idle"
    /\ gcPc = "lookup" => /\ byUuid[GcThread]
                          /\ req[GcThread] = gcBlob
                          /\ Present(gcBlob)
    /\ \A l \in superseded : Present(l)
(* Once get_keymint_device returned to main(): it returned something, a    *)
(* device only once the tier is cached, HARDWARE_TYPE_UNAVAILABLE only for *)
(* a tier that cannot be connected.                                        *)
MainResultSettled ==
    mainPc \in {"teeWait", "sbWait"} /\ pc[Main] = "idle" =>
        /\ res[Main] # R!NoResult
        /\ res[Main] \notin R!Errors =>
               devicesByUuid[PhaseLevel[mainPc]] # R!NoEntry
        /\ res[Main] = R!Err("HwUnavailable") => ~Present(PhaseLevel[mainPc])
(* The tiers main() resolved stay cached until the next restart.           *)
TiersCached ==
    /\ mainPc \in {"sb", "sbWait", "register", "serving"} =>
           devicesByUuid["TEE"] # R!NoEntry
    /\ mainPc \in {"register", "serving"} /\ Present("STRONGBOX") =>
           devicesByUuid["STRONGBOX"] # R!NoEntry
(* add_service is called only after the tiers, and the loop stops at the  *)
(* last service.                                                           *)
RegisterCount ==
    /\ mainPc \notin {"register", "serving"} => registered = 0
    /\ mainPc = "register" => registered < NumServices
BInv ==
    /\ TypeOK
    /\ RegisterCount
    /\ R!MapsAgree
    /\ MainCallShape
    /\ GcCallShape
    /\ MainResultSettled
    /\ TiersCached
    /\ GcMissesOnlyBeforeService

(* The comment of get_keymint_dev_by_uuid (globals.rs): "It is assumed     *)
(* that the cache is already populated when this is called ... because    *)
(* service.rs iterates through all security levels when it gets           *)
(* instantiated."  No GC lookup ever misses.                              *)
CacheReadyForGc ==
    gcMisses = {}
=============================================================================
