-------------------------- MODULE BootstrapProofs --------------------------
(***************************************************************************)
(* Proofs about the start-up of keystore2 (Bootstrap.tla): for every HAL   *)
(* configuration and connection bound, main() never registers services on *)
(* a TEE that is not in the registry cache, and once the services are      *)
(* being registered no GC lookup of a superseded blob's tier misses.       *)
(***************************************************************************)
EXTENDS Bootstrap, TLAPS

USE BootstrapAssumption

(* Abbreviations for the conjuncts of BInv a step can disturb.            *)
RegType == R!TypeOK
BootType ==
    /\ bootProp \in BOOLEAN
    /\ bootFlag \in BOOLEAN
    /\ mainPc \in MainPcs
    /\ registered \in 0..NumServices
    /\ watchPc \in {"none", "watching", "sleeping", "done"}
    /\ gcNotified \in BOOLEAN
    /\ gcPc \in {"idle", "lookup", "invalidate"}
    /\ gcBlob \in KmLevels
    /\ superseded \subseteq KmLevels
    /\ gcMisses \subseteq MainPcs

(* Whether a tier can be connected depends on the HAL configuration only.  *)
LEMMA PresentUnchanged ==
    ASSUME NEW l, hal' = hal PROVE Present(l)' = Present(l)
BY DEF Present, R!ConnectKeymint, R!Adapt, R!HalVersion, R!ServiceDeclared,
       R!Errors, R!Err, R!Uuid

(* A step that leaves the registry alone keeps its type and MapsAgree.    *)
LEMMA RegUnchanged ==
    ASSUME BInv, UNCHANGED regVars
    PROVE  /\ RegType'
           /\ R!MapsAgree'
           /\ \A l : Present(l)' = Present(l)
<1>1. RegType'
  BY DEF BInv, TypeOK, RegType, regVars, R!TypeOK
<1>2. R!MapsAgree'
  BY DEF BInv, regVars, R!MapsAgree
<1>3. \A l : Present(l)' = Present(l)
  BY PresentUnchanged DEF regVars
<1>4. QED
  BY <1>1, <1>2, <1>3

(* A result that is an error is never a device entry.                      *)
LEMMA ErrNotEntry == \A k : R!Err(k) \notin R!Entry
BY DEF R!Err, R!Entry

(* What connect_keymint can return for TEE or StrongBox: an error, or an   *)
(* entry for that tier.                                                    *)
LEMMA ConnectShape ==
    ASSUME RegType, NEW l \in KmLevels, NEW d \in 1..MaxConn,
           NEW r \in R!ConnectKeymint(l, d)
    PROVE  \/ r \in R!Errors
           \/ r \in R!Entry /\ r.uuid = l
<1>1. hal[l] \in [native : AidlVersions \cup {NotDeclared},
                  legacy : LegacyVersions \cup {NotFound},
                  reported : ImplVersions]
  BY DEF RegType, R!TypeOK, R!HalConfigs
<1>2. CASE ~R!ServiceDeclared(l) /\ hal[l].legacy = NotFound
  BY <1>2 DEF R!ConnectKeymint, R!Errors
<1>0. l \in SecLevels
  OBVIOUS
<1> DEFINE hv == R!HalVersion(l)
<1>3. CASE R!ServiceDeclared(l)
  <2>1. hv = hal[l].native * 100 /\ hal[l].native \in Nat
    BY <1>1, <1>3 DEF R!HalVersion, R!ServiceDeclared
  <2>2. hv \in Nat /\ hv # NotDeclared
    BY <2>1
  <2>3. r \in {R!Adapt(l, d), R!Err("ConnFailed")}
    BY <1>3 DEF R!ConnectKeymint
  <2>4. CASE r = R!Err("ConnFailed")
    BY <2>4 DEF R!Errors
  <2>5. CASE r = R!Adapt(l, d) /\ hv \in {200, 300, 400}
    <3>1. r = [dev |-> d, version |-> hv, wrapped |-> FALSE, uuid |-> l]
      BY <2>5 DEF R!Adapt, R!Uuid
    <3>2. QED
      BY <1>0, <2>2, <3>1 DEF R!Entry
  <2>6. CASE r = R!Adapt(l, d) /\ hv = 100
    <3>1. r = [dev |-> d, version |-> hv, wrapped |-> TRUE, uuid |-> l]
      BY <2>6 DEF R!Adapt, R!Uuid
    <3>2. QED
      BY <1>0, <2>2, <3>1 DEF R!Entry
  <2>7. CASE r = R!Adapt(l, d) /\ hv \notin {100, 200, 300, 400}
    <3>1. r = R!Err("HwUnavailable")
      BY <2>2, <2>7 DEF R!Adapt
    <3>2. QED
      BY <3>1 DEF R!Errors
  <2>8. QED
    BY <2>3, <2>4, <2>5, <2>6, <2>7
<1>4. CASE ~R!ServiceDeclared(l) /\ hal[l].legacy # NotFound
  <2>1. hv = NotDeclared /\ hal[l].legacy \in 0..99
    BY <1>1, <1>4 DEF R!HalVersion
  <2>2. hal[l].legacy \in Nat /\ NotDeclared \notin {100, 200, 300, 400}
    BY <2>1
  <2>3. r \in {R!Adapt(l, d), R!Err("ConnFailed")}
    BY <1>4 DEF R!ConnectKeymint
  <2>4. CASE r = R!Err("ConnFailed")
    BY <2>4 DEF R!Errors
  <2>5. CASE r = R!Adapt(l, d)
    <3>1. r = [dev |-> d, version |-> hal[l].legacy, wrapped |-> TRUE, uuid |-> l]
      BY <2>1, <2>2, <2>5 DEF R!Adapt, R!Uuid
    <3>2. QED
      BY <1>0, <2>2, <3>1 DEF R!Entry
  <2>6. QED
    BY <2>3, <2>4, <2>5
<1>5. QED
  BY <1>2, <1>3, <1>4

(* connect_keymint answers HARDWARE_TYPE_UNAVAILABLE for a tier only when  *)
(* no connection to it can succeed: the refusal depends on the HAL         *)
(* configuration, never on the connection number.                          *)
LEMMA HwUnavailableAbsent ==
    ASSUME NEW l \in KmLevels, NEW d,
           R!Err("HwUnavailable") \in R!ConnectKeymint(l, d)
    PROVE  ~Present(l)
<1> DEFINE HW == R!Err("HwUnavailable")
           CF == R!Err("ConnFailed")
<1>1. HW # CF /\ {HW, CF} \subseteq R!Errors
  BY DEF R!Err, R!Errors
<1>2. CASE ~R!ServiceDeclared(l) /\ hal[l].legacy = NotFound
  BY <1>1, <1>2 DEF Present, R!ConnectKeymint
<1>3. CASE ~(~R!ServiceDeclared(l) /\ hal[l].legacy = NotFound)
  <2>1. HW = R!Adapt(l, d)
    BY <1>1, <1>3 DEF R!ConnectKeymint
  <2>2. R!HalVersion(l) \notin {200, 300, 400, 100, NotDeclared}
    BY <2>1 DEF R!Adapt, R!Err
  <2>3. R!Adapt(l, 1) = HW
    BY <2>2 DEF R!Adapt
  <2>4. R!ConnectKeymint(l, 1) = {HW, CF}
    BY <1>3, <2>3 DEF R!ConnectKeymint
  <2>5. QED
    BY <1>1, <2>4 DEF Present
<1>4. QED
  BY <1>2, <1>3

(* With the two maps of DevicesMap in agreement, a cached TEE is what      *)
(* dev_by_sec_level finds.                                                 *)
LEMMA TeeFound ==
    ASSUME RegType, R!MapsAgree, TiersCached PROVE ServingImpliesTee
<1>1. "TEE" \in SecLevels
  OBVIOUS
<1>2. SUFFICES ASSUME mainPc \in {"register", "serving"}
               PROVE  R!DevBySecLevel("TEE") # R!NoEntry
  BY DEF ServingImpliesTee
<1>3. devicesByUuid["TEE"] # R!NoEntry
  BY <1>2 DEF TiersCached
<1>4. uuidBySecLevel["TEE"] = "TEE"
  BY <1>1, <1>3 DEF R!MapsAgree, R!Uuid
<1>5. QED
  BY <1>3, <1>4 DEF R!DevBySecLevel

-----------------------------------------------------------------------------
(* A step that leaves the registry and the GC alone and moves main() only  *)
(* between phases outside get_keymint_device, never into a later tier     *)
(* phase than it reached, keeps BInv.                                      *)
LEMMA QuietStep ==
    ASSUME BInv, BootType', RegisterCount',
           UNCHANGED <<regVars, gcPc, gcBlob, superseded, gcMisses>>,
           mainPc \in {"teeWait", "sbWait"} \/ mainPc' \in {"teeWait", "sbWait"}
               => mainPc' = mainPc,
           mainPc' \in {"sb", "sbWait", "register", "serving"}
               => mainPc \in {"sb", "sbWait", "register", "serving"},
           mainPc' \in {"register", "serving"}
               => mainPc \in {"register", "serving"}
    PROVE  BInv'
<1>1. RegType' /\ R!MapsAgree' /\ \A l : Present(l)' = Present(l)
  BY RegUnchanged
<1>2. TypeOK'
  BY <1>1 DEF TypeOK, RegType, BootType
<1>3. MainCallShape'
  BY DEF BInv, MainCallShape, regVars
<1>4. GcCallShape'
  BY <1>1 DEF BInv, GcCallShape, regVars
<1>5. MainResultSettled'
  BY <1>1 DEF BInv, MainResultSettled, regVars
<1>6. TiersCached'
  BY <1>1 DEF BInv, TiersCached, regVars
<1>7. GcMissesOnlyBeforeService'
  BY DEF BInv, GcMissesOnlyBeforeService
<1>8. QED
  BY <1>1, <1>2, <1>3, <1>4, <1>5, <1>6, <1>7 DEF BInv

(* The steps of main() before KeystoreService, the services it registers  *)
(* and the boot-completed watcher.                                         *)
LEMMA MainStartStep == ASSUME BInv, MainStart PROVE BInv'
<1>1. BootType'
  BY DEF MainStart, BInv, TypeOK, BootType, MainPcs
<1>2. RegisterCount'
  BY DEF MainStart, BInv, RegisterCount
<1>3. QED
  BY <1>1, <1>2, QuietStep DEF MainStart

LEMMA MainNegotiateStep == ASSUME BInv, MainNegotiate PROVE BInv'
<1>1. BootType'
  BY DEF MainNegotiate, BInv, TypeOK, BootType, MainPcs
<1>2. RegisterCount'
  BY DEF MainNegotiate, BInv, RegisterCount
<1>3. QED
  BY <1>1, <1>2, QuietStep DEF MainNegotiate

LEMMA WatchStep ==
    ASSUME BInv, BootCompletes \/ WatchFails \/ WatchRetry \/ WatchDone
    PROVE  BInv'
<1>1. UNCHANGED <<regVars, mainPc, gcPc, gcBlob, superseded, gcMisses>>
  BY DEF BootCompletes, WatchFails, WatchRetry, WatchDone
<1>2. BootType'
  BY <1>1 DEF BootCompletes, WatchFails, WatchRetry, WatchDone, BInv, TypeOK,
     BootType
<1>3. RegisterCount'
  BY <1>1 DEF BootCompletes, WatchFails, WatchRetry, WatchDone, BInv,
     RegisterCount
<1>4. QED
  BY <1>1, <1>2, <1>3, QuietStep

(* add_service succeeds and main() moves on (its panic is Restart).        *)
LEMMA RegisterStep ==
    ASSUME BInv, mainPc = "register",
           registered' = registered + 1,
           mainPc' = IF registered + 1 = NumServices THEN "serving" ELSE "register",
           UNCHANGED <<regVars, bootProp, bootFlag, watchPc, gcNotified, gcPc,
                       gcBlob, superseded, gcMisses>>
    PROVE  BInv'
<1>1. registered \in 0..(NumServices - 1)
  BY DEF BInv, TypeOK, RegisterCount, NumServices
<1>2. registered' \in 0..NumServices
  BY <1>1 DEF NumServices
<1>3. mainPc' \in {"register", "serving"}
  OBVIOUS
<1>4. BootType'
  BY <1>2, <1>3 DEF BInv, TypeOK, BootType, MainPcs
<1>5. RegisterCount'
  BY <1>1 DEF RegisterCount, NumServices
<1>6. QED
  BY <1>3, <1>4, <1>5, QuietStep

(* A client supersedes a blob of a tier that can be connected; the GC      *)
(* drops a blob after its invalidate closure ran.                          *)
LEMMA SupersedeStep ==
    ASSUME BInv, NEW l \in KmLevels, Supersede(l) PROVE BInv'
<1>1. RegType' /\ R!MapsAgree' /\ \A k : Present(k)' = Present(k)
  BY RegUnchanged DEF Supersede
<1>2. TypeOK'
  BY <1>1 DEF Supersede, BInv, TypeOK, RegType
<1>3. GcCallShape'
  BY <1>1 DEF Supersede, BInv, GcCallShape, regVars
<1>4. QED
  BY <1>1, <1>2, <1>3 DEF Supersede, BInv, regVars, RegisterCount,
     MainCallShape, MainResultSettled, TiersCached, GcMissesOnlyBeforeService

LEMMA GcInvalidateStep == ASSUME BInv, GcInvalidate PROVE BInv'
<1>1. RegType' /\ R!MapsAgree' /\ \A k : Present(k)' = Present(k)
  BY RegUnchanged DEF GcInvalidate
<1>2. superseded' \subseteq superseded
  BY DEF GcInvalidate
<1>3. TypeOK'
  BY <1>1, <1>2 DEF GcInvalidate, BInv, TypeOK, RegType
<1>4. GcCallShape'
  BY <1>1, <1>2 DEF GcInvalidate, BInv, GcCallShape, regVars
<1>5. QED
  BY <1>1, <1>3, <1>4 DEF GcInvalidate, BInv, regVars, RegisterCount,
     MainCallShape, MainResultSettled, TiersCached, GcMissesOnlyBeforeService

(* keystore2 restarts: every static is empty again and main() starts over. *)
LEMMA RestartStep == ASSUME BInv, Restart PROVE BInv'
<1>1. hal' = hal /\ req' = req /\ byUuid' = byUuid
  BY DEF Restart, R!Restart
<1>2. \A k : Present(k)' = Present(k)
  BY <1>1, PresentUnchanged
<1>3. RegType'
  <2>1. devicesByUuid' \in [SecLevels -> R!Entry \cup {R!NoEntry}]
    BY DEF Restart, R!Restart
  <2>2. uuidBySecLevel' \in [SecLevels -> SecLevels \cup {NoUuid}]
    BY DEF Restart, R!Restart
  <2>3. res' \in [{Main, GcThread} -> R!Entry \cup R!Errors \cup {R!NoResult}]
    BY DEF Restart, R!Restart
  <2>4. pc' \in [{Main, GcThread} -> {"idle", "waiting", "connecting"}]
    BY DEF Restart, R!Restart
  <2>5. lock' = NoThread /\ conns' = 0
    BY DEF Restart, R!Restart
  <2>6. QED
    BY <1>1, <2>1, <2>2, <2>3, <2>4, <2>5
       DEF BInv, TypeOK, RegType, R!TypeOK
<1>4. R!MapsAgree'
  BY DEF Restart, R!Restart, R!MapsAgree, R!Uuid
<1>5. TypeOK'
  <2>1. /\ mainPc' = "start" /\ registered' = 0 /\ watchPc' = "none"
        /\ bootFlag' = FALSE /\ gcNotified' = FALSE /\ gcPc' = "idle"
        /\ UNCHANGED <<bootProp, gcBlob, superseded, gcMisses>>
    BY DEF Restart
  <2>2. BootType'
    <3>1. bootProp' \in BOOLEAN /\ gcBlob' \in KmLevels
          /\ superseded' \subseteq KmLevels /\ gcMisses' \subseteq MainPcs
      BY <2>1 DEF BInv, TypeOK
    <3>2. registered' \in 0..NumServices
      BY <2>1 DEF NumServices
    <3>3. mainPc' \in MainPcs
      BY <2>1 DEF MainPcs
    <3>4. QED
      BY <2>1, <3>1, <3>2, <3>3 DEF BootType
  <2>3. QED
    BY <1>3, <2>2 DEF TypeOK, RegType, BootType
<1>6. /\ mainPc' = "start" /\ registered' = 0 /\ gcPc' = "idle"
      /\ pc' = [t \in {Main, GcThread} |-> "idle"]
      /\ UNCHANGED <<gcMisses, superseded>>
  BY DEF Restart, R!Restart
<1>7. RegisterCount' /\ MainResultSettled' /\ TiersCached'
  BY <1>6 DEF RegisterCount, MainResultSettled, TiersCached
<1>8. MainCallShape'
  BY <1>1, <1>6 DEF BInv, MainCallShape
<1>9. GcCallShape'
  BY <1>2, <1>6 DEF BInv, GcCallShape
<1>10. GcMissesOnlyBeforeService'
  BY <1>6 DEF BInv, GcMissesOnlyBeforeService
<1>11. QED
  BY <1>4, <1>5, <1>7, <1>8, <1>9, <1>10 DEF BInv

-----------------------------------------------------------------------------
(* KeystoreService asks get_keymint_device for the tier of main()'s phase. *)
LEMMA ResolveCallStep == ASSUME BInv, ResolveCall PROVE BInv'
<1> DEFINE l == PhaseLevel[mainPc]
<1>1. mainPc \in {"tee", "sb"} /\ l \in KmLevels /\ l \in SecLevels
  BY DEF ResolveCall, PhaseLevel
<1>2. /\ pc[Main] = "idle"
      /\ pc' = [pc EXCEPT ![Main] = "waiting"]
      /\ req' = [req EXCEPT ![Main] = l]
      /\ byUuid' = [byUuid EXCEPT ![Main] = FALSE]
      /\ res' = [res EXCEPT ![Main] = R!NoResult]
      /\ UNCHANGED <<hal, devicesByUuid, uuidBySecLevel, lock, conns>>
      /\ mainPc' = IF mainPc = "tee" THEN "teeWait" ELSE "sbWait"
      /\ UNCHANGED <<bootProp, bootFlag, registered, watchPc, gcNotified,
                     gcPc, gcBlob, superseded, gcMisses>>
  BY DEF ResolveCall, R!Call
<1>3. \A k : Present(k)' = Present(k)
  BY <1>2, PresentUnchanged
<1>4. RegType'
  <2>1. R!NoResult \in R!Entry \cup R!Errors \cup {R!NoResult}
    OBVIOUS
  <2>2. QED
    BY <1>1, <1>2, <2>1 DEF BInv, TypeOK, RegType, R!TypeOK
<1>5. BootType'
  BY <1>2 DEF BInv, TypeOK, BootType, MainPcs
<1>6. TypeOK'
  BY <1>4, <1>5 DEF TypeOK, RegType, BootType
<1>7. R!MapsAgree'
  BY <1>2 DEF BInv, R!MapsAgree
<1>8. MainCallShape'
  BY <1>1, <1>2 DEF BInv, TypeOK, RegType, R!TypeOK, MainCallShape, PhaseLevel
<1>9. GcCallShape'
  BY <1>2, <1>3 DEF BInv, GcCallShape
<1>10. MainResultSettled'
  BY <1>1, <1>2 DEF MainResultSettled, BInv, TypeOK, RegType, R!TypeOK
<1>11. TiersCached' /\ RegisterCount' /\ GcMissesOnlyBeforeService'
  BY <1>1, <1>2 DEF BInv, TiersCached, RegisterCount, GcMissesOnlyBeforeService
<1>12. QED
  BY <1>6, <1>7, <1>8, <1>9, <1>10, <1>11 DEF BInv

(* get_keymint_device(tier) for main() takes the lock and looks the tier   *)
(* up: a hit returns the cached device, a miss goes on to connect.         *)
LEMMA MainLookupStep ==
    ASSUME BInv, R!Lookup(Main), UNCHANGED bootVars PROVE BInv'
<1> DEFINE l == req[Main]
<1>1. /\ mainPc \in {"teeWait", "sbWait"} /\ l = PhaseLevel[mainPc]
      /\ l \in SecLevels
  BY DEF R!Lookup, BInv, MainCallShape, TypeOK, RegType, R!TypeOK
<1>2. UNCHANGED <<hal, devicesByUuid, uuidBySecLevel, req, byUuid, conns,
                  mainPc, registered, gcPc, gcBlob, superseded, gcMisses>>
      /\ pc[Main] = "waiting" /\ lock = NoThread
  BY DEF R!Lookup, bootVars
<1>3. \A k : Present(k)' = Present(k)
  BY <1>2, PresentUnchanged
<1>4. BootType' /\ RegisterCount' /\ TiersCached' /\ GcMissesOnlyBeforeService'
      /\ R!MapsAgree'
  BY <1>2, <1>3 DEF bootVars, BInv, TypeOK, BootType, RegisterCount,
     TiersCached, GcMissesOnlyBeforeService, R!MapsAgree
<1>5. CASE R!DevBySecLevel(l) # R!NoEntry
  <2>1. uuidBySecLevel[l] = l /\ R!DevBySecLevel(l) = devicesByUuid[l]
    BY <1>1, <1>5 DEF R!DevBySecLevel, BInv, R!MapsAgree, R!Uuid
  <2>2. devicesByUuid[l] \in R!Entry
    BY <1>1, <1>5, <2>1 DEF BInv, TypeOK, RegType, R!TypeOK
  <2>3. /\ res' = [res EXCEPT ![Main] = devicesByUuid[l]]
        /\ pc' = [pc EXCEPT ![Main] = "idle"]
        /\ lock' = lock
    BY <1>5, <2>1 DEF R!Lookup
  <2>4. RegType'
    BY <1>2, <2>2, <2>3 DEF BInv, TypeOK, RegType, R!TypeOK
  <2>5. MainCallShape' /\ GcCallShape'
    BY <1>2, <1>3, <2>3 DEF BInv, MainCallShape, GcCallShape, bootVars
  <2>6. devicesByUuid[l] \notin R!Errors /\ devicesByUuid[l] # R!NoResult
    BY <2>2, ErrNotEntry DEF R!Errors, R!NoResult
  <2>7. res'[Main] = devicesByUuid[l] /\ pc'[Main] = "idle"
    BY <2>3 DEF BInv, TypeOK, RegType, R!TypeOK
  <2>8. devicesByUuid[l] # R!NoEntry /\ devicesByUuid[l] # R!Err("HwUnavailable")
    BY <2>2, ErrNotEntry DEF R!NoEntry
  <2>9. MainResultSettled'
    BY <1>1, <1>2, <2>6, <2>7, <2>8 DEF MainResultSettled
  <2>10. QED
    BY <1>4, <2>4, <2>5, <2>9 DEF BInv, TypeOK, RegType, BootType
<1>6. CASE R!DevBySecLevel(l) = R!NoEntry
  <2>1. /\ lock' = Main /\ pc' = [pc EXCEPT ![Main] = "connecting"]
        /\ res' = res
    BY <1>6 DEF R!Lookup
  <2>2. RegType'
    BY <1>2, <2>1 DEF BInv, TypeOK, RegType, R!TypeOK
  <2>3. MainCallShape' /\ GcCallShape'
    BY <1>2, <1>3, <2>1 DEF BInv, MainCallShape, GcCallShape, bootVars
  <2>4. MainResultSettled'
    BY <1>2, <2>1 DEF MainResultSettled, BInv, TypeOK, RegType, R!TypeOK
  <2>5. QED
    BY <1>4, <2>2, <2>3, <2>4 DEF BInv, TypeOK, RegType, BootType
<1>7. QED
  BY <1>5, <1>6

(* connect_keymint returns to main() under the lock; a device is cached    *)
(* under both maps, an error leaves the cache alone.                       *)
LEMMA MainConnectStep ==
    ASSUME BInv, R!Connect(Main), UNCHANGED bootVars PROVE BInv'
<1> DEFINE l == req[Main]
<1>1. /\ mainPc \in {"teeWait", "sbWait"} /\ l = PhaseLevel[mainPc]
      /\ l \in KmLevels /\ l \in SecLevels
  BY DEF R!Connect, BInv, MainCallShape, PhaseLevel
<1>2. UNCHANGED <<hal, req, byUuid, mainPc, registered, gcPc, gcBlob,
                  superseded, gcMisses>>
      /\ lock' = NoThread /\ pc' = [pc EXCEPT ![Main] = "idle"]
      /\ conns < MaxConn
  BY DEF R!Connect, bootVars
<1>3. \A k : Present(k)' = Present(k)
  BY <1>2, PresentUnchanged
<1>4. PICK r \in R!ConnectKeymint(l, conns + 1) :
        /\ res' = [res EXCEPT ![Main] = r]
        /\ IF r \in R!Errors
             THEN UNCHANGED <<devicesByUuid, uuidBySecLevel, conns>>
             ELSE /\ devicesByUuid' = [devicesByUuid EXCEPT ![R!Uuid(l)] = r]
                  /\ uuidBySecLevel' = [uuidBySecLevel EXCEPT ![l] = R!Uuid(l)]
                  /\ conns' = conns + 1
  BY DEF R!Connect
<1>5. conns + 1 \in 1..MaxConn
  BY <1>2 DEF BInv, TypeOK, RegType, R!TypeOK
<1>6. r \in R!Errors \/ (r \in R!Entry /\ r.uuid = l)
  BY <1>1, <1>5, ConnectShape DEF BInv, TypeOK, RegType
<1>7. res'[Main] = r /\ pc'[Main] = "idle"
      /\ \A t \in {Main, GcThread} \ {Main} : res'[t] = res[t] /\ pc'[t] = pc[t]
  BY <1>2, <1>4 DEF BInv, TypeOK, RegType, R!TypeOK
<1>8. r # R!NoResult /\ (r = R!Err("HwUnavailable") => ~Present(l))
  <2>1. R!NoResult \notin R!Errors
    BY DEF R!NoResult, R!Errors, R!Err
  <2>2. R!NoResult \notin R!Entry
    BY ErrNotEntry DEF R!NoResult
  <2>3. QED
    BY <1>1, <1>6, <2>1, <2>2, HwUnavailableAbsent
<1>9. CASE r \in R!Errors
  <2>1. UNCHANGED <<devicesByUuid, uuidBySecLevel, conns>>
    BY <1>4, <1>9
  <2>2. RegType'
    BY <1>2, <1>4, <1>9, <2>1 DEF BInv, TypeOK, RegType, R!TypeOK
  <2>3. R!MapsAgree' /\ TiersCached'
    BY <1>2, <1>3, <2>1 DEF BInv, R!MapsAgree, TiersCached
  <2>7. RegisterCount' /\ GcMissesOnlyBeforeService' /\ BootType'
    BY <1>2 DEF BInv, TypeOK, BootType, RegisterCount,
       GcMissesOnlyBeforeService, bootVars
  <2>4. MainCallShape' /\ GcCallShape'
    BY <1>2, <1>3, <1>7 DEF BInv, MainCallShape, GcCallShape
  <2>5. MainResultSettled'
    BY <1>1, <1>2, <1>3, <1>7, <1>8, <1>9 DEF MainResultSettled
  <2>6. QED
    BY <2>2, <2>3, <2>4, <2>5, <2>7 DEF BInv, TypeOK, RegType, BootType
<1>10. CASE r \notin R!Errors
  <2>1. r \in R!Entry /\ r.uuid = l /\ r # R!NoEntry
    BY <1>6, <1>10, ErrNotEntry DEF R!NoEntry
  <2>2. /\ devicesByUuid' = [devicesByUuid EXCEPT ![l] = r]
        /\ uuidBySecLevel' = [uuidBySecLevel EXCEPT ![l] = l]
        /\ conns' = conns + 1
    BY <1>4, <1>10 DEF R!Uuid
  <2>3. RegType'
    BY <1>1, <1>2, <1>4, <1>5, <2>1, <2>2 DEF BInv, TypeOK, RegType, R!TypeOK
  <2>4. \A u \in SecLevels : devicesByUuid[u] # R!NoEntry => devicesByUuid'[u] # R!NoEntry
    BY <2>1, <2>2
  <2>5. devicesByUuid'[l] # R!NoEntry
    BY <1>1, <2>1, <2>2 DEF BInv, TypeOK, RegType, R!TypeOK
  <2>6. R!MapsAgree'
    <3>1. SUFFICES ASSUME NEW k \in SecLevels
                   PROVE  /\ uuidBySecLevel'[k] \in {NoUuid, k}
                          /\ (uuidBySecLevel'[k] = NoUuid) <=> (devicesByUuid'[k] = R!NoEntry)
      BY DEF R!MapsAgree, R!Uuid
    <3>2. CASE k = l
      BY <1>1, <2>2, <2>5, <3>2 DEF BInv, TypeOK, RegType, R!TypeOK
    <3>3. CASE k # l
      <4>1. uuidBySecLevel'[k] = uuidBySecLevel[k] /\ devicesByUuid'[k] = devicesByUuid[k]
        BY <2>2, <3>3
      <4>2. QED
        BY <4>1 DEF BInv, R!MapsAgree, R!Uuid
    <3>4. QED
      BY <3>2, <3>3
  <2>7. TiersCached' /\ RegisterCount' /\ GcMissesOnlyBeforeService'
        /\ BootType'
    <3>1. TiersCached'
      BY <1>2, <1>3, <2>4 DEF BInv, TiersCached
    <3>2. RegisterCount' /\ GcMissesOnlyBeforeService' /\ BootType'
      BY <1>2 DEF BInv, TypeOK, BootType, RegisterCount,
         GcMissesOnlyBeforeService, bootVars
    <3>3. QED
      BY <3>1, <3>2
  <2>8. MainCallShape' /\ GcCallShape'
    BY <1>2, <1>3, <1>7 DEF BInv, MainCallShape, GcCallShape
  <2>9. MainResultSettled'
    BY <1>1, <1>2, <1>3, <1>7, <1>8, <2>5 DEF MainResultSettled
  <2>10. QED
    BY <2>3, <2>6, <2>7, <2>8, <2>9 DEF BInv, TypeOK, RegType, BootType
<1>11. QED
  BY <1>9, <1>10

(* get_keymint_device returned to KeystoreService: main() moves on to the  *)
(* next tier or to registering the services, or panics and restarts.       *)
LEMMA ResolveDoneStep == ASSUME BInv, ResolveDone PROVE BInv'
<1>1. mainPc \in {"teeWait", "sbWait"} /\ pc[Main] = "idle"
  BY DEF ResolveDone
<1>2. /\ res[Main] # R!NoResult
      /\ res[Main] \notin R!Errors => devicesByUuid[PhaseLevel[mainPc]] # R!NoEntry
      /\ res[Main] = R!Err("HwUnavailable") => ~Present(PhaseLevel[mainPc])
  BY <1>1 DEF BInv, MainResultSettled
<1>3. CASE \/ res[Main] \notin R!Errors
           \/ mainPc = "sbWait" /\ res[Main] = R!Err("HwUnavailable")
  <2>1. /\ mainPc' = IF mainPc = "teeWait" THEN "sb" ELSE "register"
        /\ UNCHANGED <<regVars, bootProp, bootFlag, registered, watchPc,
                       gcNotified, gcPc, gcBlob, superseded, gcMisses>>
    BY <1>3 DEF ResolveDone
  <2>2. RegType' /\ R!MapsAgree' /\ \A l : Present(l)' = Present(l)
    BY <2>1, RegUnchanged
  <2>3. BootType'
    BY <2>1 DEF BInv, TypeOK, BootType, MainPcs
  <2>4. RegisterCount'
    BY <1>1, <2>1 DEF BInv, RegisterCount, NumServices
  <2>5. MainCallShape' /\ GcCallShape' /\ MainResultSettled'
        /\ GcMissesOnlyBeforeService'
    BY <1>1, <2>1, <2>2 DEF BInv, regVars, MainCallShape, GcCallShape,
       MainResultSettled, GcMissesOnlyBeforeService
  <2>6. ASSUME mainPc = "teeWait" PROVE TiersCached'
    <3>1. devicesByUuid["TEE"] # R!NoEntry
      BY <1>2, <1>3, <2>6 DEF PhaseLevel
    <3>2. mainPc' = "sb" /\ devicesByUuid' = devicesByUuid
      BY <2>1, <2>6 DEF regVars
    <3>3. QED
      BY <3>1, <3>2 DEF TiersCached
  <2>7. ASSUME mainPc = "sbWait" PROVE TiersCached'
    <3>1. devicesByUuid["TEE"] # R!NoEntry
      BY <2>7 DEF BInv, TiersCached
    <3>2. Present("STRONGBOX") => devicesByUuid["STRONGBOX"] # R!NoEntry
      BY <1>2, <1>3, <2>7 DEF PhaseLevel
    <3>3. mainPc' = "register" /\ devicesByUuid' = devicesByUuid
      BY <2>1, <2>7 DEF regVars
    <3>4. QED
      BY <2>2, <3>1, <3>2, <3>3 DEF TiersCached
  <2>8. TiersCached'
    BY <1>1, <2>6, <2>7, Zenon
  <2>9. QED
    BY <2>2, <2>3, <2>4, <2>5, <2>8 DEF BInv, TypeOK, RegType, BootType
<1>4. CASE ~(\/ res[Main] \notin R!Errors
             \/ mainPc = "sbWait" /\ res[Main] = R!Err("HwUnavailable"))
  BY <1>4, RestartStep DEF ResolveDone
<1>5. QED
  BY <1>3, <1>4

(* The GC takes a superseded blob and calls get_keymint_dev_by_uuid.      *)
LEMMA GcStartStep ==
    ASSUME BInv, NEW l \in KmLevels, GcStart(l) PROVE BInv'
<1>1. l \in SecLevels /\ Present(l) /\ gcPc = "idle"
  BY DEF GcStart, BInv, GcCallShape
<1>2. /\ pc[GcThread] = "idle"
      /\ pc' = [pc EXCEPT ![GcThread] = "waiting"]
      /\ req' = [req EXCEPT ![GcThread] = l]
      /\ byUuid' = [byUuid EXCEPT ![GcThread] = TRUE]
      /\ res' = [res EXCEPT ![GcThread] = R!NoResult]
      /\ UNCHANGED <<hal, devicesByUuid, uuidBySecLevel, lock, conns>>
      /\ gcPc' = "lookup" /\ gcBlob' = l
      /\ UNCHANGED <<bootProp, bootFlag, mainPc, registered, watchPc, gcNotified,
                     superseded, gcMisses>>
  BY DEF GcStart, R!Call
<1>3. \A k : Present(k)' = Present(k)
  BY <1>2, PresentUnchanged
<1>4. RegType'
  <2>1. R!NoResult \in R!Entry \cup R!Errors \cup {R!NoResult}
    OBVIOUS
  <2>2. QED
    BY <1>1, <1>2, <2>1 DEF BInv, TypeOK, RegType, R!TypeOK
<1>5. BootType'
  BY <1>2 DEF BInv, TypeOK, BootType
<1>6. R!MapsAgree' /\ TiersCached' /\ RegisterCount'
      /\ GcMissesOnlyBeforeService'
  BY <1>2, <1>3 DEF BInv, R!MapsAgree, TiersCached, RegisterCount,
     GcMissesOnlyBeforeService
<1>7. MainCallShape' /\ MainResultSettled'
  BY <1>2, <1>3 DEF BInv, TypeOK, RegType, R!TypeOK, MainCallShape,
     MainResultSettled
<1>8. GcCallShape'
  BY <1>1, <1>2, <1>3 DEF BInv, TypeOK, RegType, R!TypeOK, GcCallShape
<1>9. QED
  BY <1>4, <1>5, <1>6, <1>7, <1>8 DEF BInv, TypeOK, RegType, BootType

(* get_keymint_dev_by_uuid reads the cache; a miss is Error::sys(), which  *)
(* cannot happen once main() has resolved its tiers.                       *)
LEMMA GcLookupStep == ASSUME BInv, GcLookup PROVE BInv'
<1> DEFINE l == req[GcThread]
<1>1. gcPc = "lookup" /\ l = gcBlob /\ Present(gcBlob) /\ l \in KmLevels
  BY DEF GcLookup, BInv, GcCallShape, TypeOK, BootType
<1>2. /\ res' = [res EXCEPT ![GcThread] = IF devicesByUuid[l] = R!NoEntry
                                          THEN R!Err("SysError")
                                          ELSE devicesByUuid[l]]
      /\ pc' = [pc EXCEPT ![GcThread] = "idle"]
      /\ UNCHANGED <<hal, devicesByUuid, uuidBySecLevel, lock, req, byUuid, conns>>
      /\ gcPc' = "invalidate"
      /\ gcMisses' = IF res'[GcThread] = R!Err("SysError")
                         THEN gcMisses \cup {mainPc} ELSE gcMisses
      /\ UNCHANGED <<bootProp, bootFlag, mainPc, registered, watchPc, gcNotified,
                     gcBlob, superseded>>
  BY DEF GcLookup, R!LookupByUuid
<1>3. \A k : Present(k)' = Present(k)
  BY <1>2, PresentUnchanged
<1>4. res'[GcThread] \in R!Entry \cup R!Errors
  BY <1>1, <1>2 DEF BInv, TypeOK, RegType, R!TypeOK, R!Errors
<1>5. RegType'
  BY <1>2, <1>4 DEF BInv, TypeOK, RegType, R!TypeOK
<1>6. BootType'
  BY <1>2 DEF BInv, TypeOK, BootType, MainPcs
<1>7. R!MapsAgree' /\ TiersCached' /\ RegisterCount'
  BY <1>2, <1>3 DEF BInv, R!MapsAgree, TiersCached, RegisterCount
<1>8. MainCallShape' /\ MainResultSettled'
  BY <1>2, <1>3 DEF BInv, TypeOK, RegType, R!TypeOK, MainCallShape,
     MainResultSettled
<1>9. GcCallShape'
  BY <1>2, <1>3 DEF BInv, TypeOK, RegType, R!TypeOK, GcCallShape
<1>10. GcMissesOnlyBeforeService'
  <2>1. CASE mainPc \in {"register", "serving"}
    <3>1. devicesByUuid[l] # R!NoEntry
      BY <1>1, <2>1 DEF BInv, TiersCached
    <3>2. devicesByUuid[l] \in R!Entry
      BY <1>1, <3>1 DEF BInv, TypeOK, RegType, R!TypeOK
    <3>3. res'[GcThread] = devicesByUuid[l]
      BY <1>2, <3>1 DEF BInv, TypeOK, RegType, R!TypeOK
    <3>4. res'[GcThread] # R!Err("SysError")
      BY <3>2, <3>3, ErrNotEntry
    <3>5. QED
      BY <1>2, <3>4 DEF BInv, GcMissesOnlyBeforeService
  <2>2. CASE mainPc \notin {"register", "serving"}
    BY <1>2, <2>2 DEF BInv, GcMissesOnlyBeforeService
  <2>3. QED
    BY <2>1, <2>2
<1>11. QED
  BY <1>5, <1>6, <1>7, <1>8, <1>9, <1>10 DEF BInv, TypeOK, RegType, BootType

-----------------------------------------------------------------------------
(* The initial state: nothing cached, main() at its start, the GC idle,    *)
(* and only blobs of tiers that can be connected in the database.          *)
LEMMA InitBInv == Init => BInv
<1> SUFFICES ASSUME Init PROVE BInv
  OBVIOUS
<1>1. R!Init
  BY DEF Init
<1>2. RegType
  <2>1. R!NoResult \in R!Entry \cup R!Errors \cup {R!NoResult}
    OBVIOUS
  <2>2. 0 \in 0..MaxConn
    OBVIOUS
  <2>3. QED
    BY <1>1, <2>1, <2>2 DEF R!Init, RegType, R!TypeOK
<1>3. BootType
  <2>1. superseded \subseteq KmLevels
    BY DEF Init
  <2>2. /\ bootProp = FALSE /\ bootFlag = FALSE /\ mainPc = "start"
        /\ registered = 0 /\ watchPc = "none" /\ gcNotified = FALSE
        /\ gcPc = "idle" /\ gcBlob \in KmLevels /\ gcMisses = {}
    BY DEF Init
  <2>3. bootProp \in BOOLEAN /\ bootFlag \in BOOLEAN /\ gcNotified \in BOOLEAN
    BY <2>2
  <2>4. mainPc \in MainPcs /\ registered \in 0..NumServices
    BY <2>2 DEF MainPcs, NumServices
  <2>5. gcMisses \subseteq MainPcs
    BY <2>2
  <2>6. QED
    BY <2>1, <2>2, <2>3, <2>4, <2>5 DEF BootType
<1>4. R!MapsAgree
  BY <1>1 DEF R!Init, R!MapsAgree, R!Uuid
<1>5. MainCallShape /\ GcCallShape
  <2>1. \A l \in superseded : Present(l)
    BY DEF Init
  <2>2. QED
    BY <1>1, <2>1 DEF Init, R!Init, MainCallShape, GcCallShape
<1>6. RegisterCount /\ MainResultSettled /\ TiersCached
      /\ GcMissesOnlyBeforeService
  BY DEF Init, RegisterCount, MainResultSettled, TiersCached,
     GcMissesOnlyBeforeService
<1>7. QED
  BY <1>2, <1>3, <1>4, <1>5, <1>6 DEF BInv, TypeOK, RegType, BootType

(* A step of keystore2 that changes nothing keeps BInv.                    *)
LEMMA StutterStep == ASSUME BInv, UNCHANGED vars PROVE BInv'
<1>1. UNCHANGED <<regVars, mainPc, registered, gcPc, gcBlob, superseded,
                  gcMisses>>
  BY DEF vars, bootVars
<1>2. BootType'
  BY DEF vars, bootVars, BInv, TypeOK, BootType
<1>3. RegisterCount'
  BY <1>1 DEF BInv, RegisterCount
<1>4. QED
  BY <1>1, <1>2, <1>3, QuietStep

(* Every step of keystore2 keeps BInv.                                     *)
LEMMA NextStep == BInv /\ [Next]_vars => BInv'
<1> SUFFICES ASSUME BInv, [Next]_vars PROVE BInv'
  OBVIOUS
<1>1. CASE MainRegistry
  BY <1>1, MainLookupStep, MainConnectStep DEF MainRegistry
<1>2. CASE Register
  <2>1. CASE Restart
    BY <2>1, RestartStep
  <2>2. CASE ~Restart
    BY <1>2, <2>2, RegisterStep DEF Register
  <2>3. QED
    BY <2>1, <2>2
<1>3. ASSUME NEW l \in KmLevels, Supersede(l) \/ GcStart(l) PROVE BInv'
  BY <1>3, SupersedeStep, GcStartStep
<1>4. CASE UNCHANGED vars
  BY <1>4, StutterStep
<1>5. QED
  BY <1>1, <1>2, <1>3, <1>4, MainStartStep, MainNegotiateStep,
     ResolveCallStep, ResolveDoneStep, WatchStep, GcLookupStep,
     GcInvalidateStep, RestartStep DEF Next

(* BInv holds in every state keystore2 reaches.                            *)
THEOREM BInvThm == Spec => []BInv
BY InitBInv, NextStep, PTL DEF Spec

(* The variables of keystore2's start-up keep their types: the registry's, *)
(* main()'s phase and service count, the watcher and the GC.               *)
THEOREM TypeCorrect == Spec => []TypeOK
BY BInvThm, PTL DEF BInv

(* main() registers its services only on a TEE that dev_by_sec_level finds *)
(* in KEY_MINT_DEVICES: KeystoreService::new_native_binder panics on any   *)
(* TEE failure, and a restart empties cache and phase together.            *)
THEOREM ServingImpliesTeeThm == Spec => []ServingImpliesTee
<1>1. BInv => ServingImpliesTee
  BY TeeFound DEF BInv, TypeOK, RegType
<1>2. QED
  BY BInvThm, <1>1, PTL

(* Once registration has begun, no invalidate closure of the GC gets       *)
(* "No KeyMint instance found" from get_keymint_dev_by_uuid: every tier    *)
(* with blobs was connected by KeystoreService before.                     *)
THEOREM GcMissesOnlyBeforeServiceThm == Spec => []GcMissesOnlyBeforeService
BY BInvThm, PTL DEF BInv
====
