--------------------------- MODULE RegistryProofs ---------------------------
(***************************************************************************)
(* Proofs about the KeyMint device registry (Registry.tla): the type       *)
(* invariant, and that every handle a thread holds is the cached one, for  *)
(* every number of threads, levels, versions and connections.             *)
(***************************************************************************)
EXTENDS Registry, TLAPS

USE RegistryAssumption

(* A result that is an error is never a device entry.                      *)
LEMMA ErrNotEntry == \A k : Err(k) \notin Entry
BY DEF Err, Entry

(* What one connect_keymint call can return: an error, or an entry for the *)
(* requested level whose handle is the new connection.                     *)
LEMMA ConnectResult ==
    ASSUME TypeOK, NEW l \in SecLevels, NEW d \in 1..MaxConn,
           NEW r \in ConnectKeymint(l, d)
    PROVE  \/ r \in Errors
           \/ r \in Entry /\ r.uuid = l
<1> DEFINE hv == HalVersion(l)
<1>1. CASE l \notin KmLevels
  BY <1>1 DEF ConnectKeymint, Errors
<1>2. CASE l \in KmLevels /\ ~ServiceDeclared(l) /\ hal[l].legacy = NotFound
  BY <1>2 DEF ConnectKeymint, Errors
<1>3. CASE l \in KmLevels /\ ~(~ServiceDeclared(l) /\ hal[l].legacy = NotFound)
  <2>1. r \in {Adapt(l, d), Err("ConnFailed")}
    BY <1>3 DEF ConnectKeymint
  <2>2. CASE r = Err("ConnFailed")
    BY <2>2 DEF Errors
  <2>3. hal[l] \in [native : AidlVersions \cup {NotDeclared},
                    legacy : LegacyVersions \cup {NotFound},
                    reported : ImplVersions]
    BY <1>3 DEF TypeOK, HalConfigs
  <2>4. CASE r = Adapt(l, d) /\ ServiceDeclared(l)
    <3>1. hv = hal[l].native * 100 /\ hal[l].native \in Nat
      BY <2>3, <2>4 DEF HalVersion, ServiceDeclared
    <3>2. hv \in Nat /\ hv # NotDeclared
      BY <3>1
    <3>3. QED
      BY <2>4, <3>2 DEF Adapt, Entry, Errors, Uuid
  <2>5. CASE r = Adapt(l, d) /\ ~ServiceDeclared(l)
    <3>1. hv = NotDeclared /\ hal[l].legacy \in LegacyVersions
      BY <1>3, <2>3, <2>5 DEF HalVersion
    <3>2. hal[l].legacy \in 0..99
      BY <3>1, RegistryAssumption, Zenon
    <3>3. hal[l].legacy \in Nat
      BY <3>2, SMT
    <3>4. QED
      BY <2>5, <3>1, <3>3 DEF Adapt, Entry, Uuid
  <2>6. QED
    BY <2>1, <2>2, <2>4, <2>5
<1>4. QED
  BY <1>1, <1>2, <1>3

-----------------------------------------------------------------------------
(* Every step keeps the type invariant.                                    *)
LEMMA TypeStep == TypeOK /\ [Next]_vars => TypeOK'
<1> SUFFICES ASSUME TypeOK, [Next]_vars PROVE TypeOK'
  OBVIOUS
<1>1. ASSUME NEW t \in Threads, NEW l \in SecLevels, NEW b \in BOOLEAN,
             Call(t, l, b)
      PROVE TypeOK'
  BY <1>1 DEF Call, TypeOK, NoResult, Errors, Err
<1>2. ASSUME NEW t \in Threads, Lookup(t) PROVE TypeOK'
  <2>1. DevBySecLevel(req[t]) \in Entry \cup {NoEntry}
    BY DEF DevBySecLevel, TypeOK
  <2>2. QED
    BY <1>2, <2>1 DEF Lookup, TypeOK
<1>3. ASSUME NEW t \in Threads, Connect(t) PROVE TypeOK'
  <2>1. PICK r \in ConnectKeymint(req[t], conns + 1) :
           /\ res' = [res EXCEPT ![t] = r]
           /\ IF r \in Errors
                THEN UNCHANGED <<devicesByUuid, uuidBySecLevel, conns>>
                ELSE /\ devicesByUuid' = [devicesByUuid EXCEPT ![Uuid(req[t])] = r]
                     /\ uuidBySecLevel' = [uuidBySecLevel EXCEPT ![req[t]] = Uuid(req[t])]
                     /\ conns' = conns + 1
    BY <1>3 DEF Connect
  <2>2. (r \in Errors) \/ (r \in Entry /\ r.uuid = req[t])
    BY <1>3, ConnectResult DEF Connect, TypeOK
  <2>3. QED
    BY <1>3, <2>1, <2>2 DEF Connect, TypeOK, Uuid
<1>4. ASSUME NEW t \in Threads, LookupByUuid(t) PROVE TypeOK'
  BY <1>4 DEF LookupByUuid, TypeOK, Errors, Err
<1>5. CASE Restart
  BY <1>5 DEF Restart, TypeOK, NoResult, Errors, Err
<1>6. CASE UNCHANGED vars
  BY <1>6 DEF vars, TypeOK
<1>7. QED
  BY <1>1, <1>2, <1>3, <1>4, <1>5, <1>6 DEF Next

(* The type invariant of the registry.                                     *)
THEOREM TypeCorrect == Spec => []TypeOK
<1>1. Init => TypeOK
  BY DEF Init, TypeOK, NoResult, NoEntry, Errors, Err
<1>2. QED
  BY <1>1, TypeStep, PTL DEF Spec

-----------------------------------------------------------------------------
(* Every device handle a binder thread was given by get_keymint_device or  *)
(* get_keymint_dev_by_uuid is the connection cached for its uuid, in every *)
(* process life and for every configuration: the mutex held across         *)
(* connect_keymint means a connection is never replaced once handed out.   *)
THEOREM HandleIsCachedThm == Spec => []HandleIsCached
<1> USE DEF IInv
<1>1. Init => IInv
  BY ErrNotEntry DEF Init, TypeOK, NoResult, NoEntry, Errors, Err,
     LockHeldByConnecting, ConnectingMisses, MapsAgree, EntriesOwnUuid,
     HandleIsCached, Uuid
<1>2. IInv /\ [Next]_vars => IInv'
  <2> SUFFICES ASSUME IInv, [Next]_vars PROVE IInv'
    OBVIOUS
  <2>0. TypeOK'
    BY TypeStep
  <2> USE DEF LockHeldByConnecting, ConnectingMisses, MapsAgree,
              EntriesOwnUuid, HandleIsCached, Uuid
  <2>1. ASSUME NEW t \in Threads, NEW l \in SecLevels, NEW b \in BOOLEAN,
               Call(t, l, b)
        PROVE IInv'
    BY <2>0, <2>1, ErrNotEntry DEF Call, TypeOK, NoResult
  <2>2. ASSUME NEW t \in Threads, Lookup(t) PROVE IInv'
    <3>1. CASE DevBySecLevel(req[t]) # NoEntry
      <4>1. uuidBySecLevel[req[t]] = req[t]
            /\ DevBySecLevel(req[t]) = devicesByUuid[req[t]]
        BY <3>1 DEF DevBySecLevel, TypeOK
      <4>2. QED
        BY <2>0, <2>2, <3>1, <4>1 DEF Lookup, TypeOK
    <3>2. CASE DevBySecLevel(req[t]) = NoEntry
      <4>1. devicesByUuid[req[t]] = NoEntry
        BY <3>2 DEF DevBySecLevel, TypeOK
      <4>2. \A s \in Threads : pc[s] # "connecting"
        BY <2>2, RegistryAssumption DEF Lookup
      <4>3. QED
        BY <2>0, <2>2, <3>2, <4>1, <4>2 DEF Lookup, TypeOK
    <3>3. QED
      BY <3>1, <3>2
  <2>3. ASSUME NEW t \in Threads, Connect(t) PROVE IInv'
    <3> DEFINE l == req[t]
    <3>1. PICK r \in ConnectKeymint(l, conns + 1) :
             /\ res' = [res EXCEPT ![t] = r]
             /\ IF r \in Errors
                  THEN UNCHANGED <<devicesByUuid, uuidBySecLevel, conns>>
                  ELSE /\ devicesByUuid' = [devicesByUuid EXCEPT ![Uuid(l)] = r]
                       /\ uuidBySecLevel' = [uuidBySecLevel EXCEPT ![l] = Uuid(l)]
                       /\ conns' = conns + 1
      BY <2>3 DEF Connect
    <3>2. (r \in Errors) \/ (r \in Entry /\ r.uuid = l)
      BY <2>3, ConnectResult DEF Connect, TypeOK
    <3>3. lock = t /\ \A s \in Threads \ {t} : pc[s] # "connecting"
      BY <2>3 DEF Connect
    <3>4. devicesByUuid[l] = NoEntry
      BY <2>3 DEF Connect
    <3>5. CASE r \in Errors
      <4>1. r \notin Entry
        BY <3>5, ErrNotEntry DEF Errors
      <4>2. QED
        BY <2>0, <2>3, <3>1, <3>3, <3>5, <4>1, RegistryAssumption
           DEF Connect, TypeOK
    <3>6. CASE r \in Entry /\ r.uuid = l /\ r \notin Errors
      <4>1. r # NoEntry
        BY <3>6, ErrNotEntry DEF NoEntry
      <4>2. \A s \in Threads : res[s] \in Entry => res[s].uuid # l
        BY <3>4, ErrNotEntry DEF NoEntry, TypeOK
      <4>3. /\ devicesByUuid' = [devicesByUuid EXCEPT ![l] = r]
            /\ uuidBySecLevel' = [uuidBySecLevel EXCEPT ![l] = l]
            /\ res' = [res EXCEPT ![t] = r]
            /\ pc' = [pc EXCEPT ![t] = "idle"]
            /\ lock' = NoThread /\ req' = req
        BY <2>3, <3>1, <3>6 DEF Connect
      <4>4. l \in SecLevels
        BY DEF TypeOK
      <4>5. LockHeldByConnecting' /\ ConnectingMisses'
        BY <3>3, <4>3, RegistryAssumption DEF TypeOK
      <4>6. MapsAgree'
        BY <4>1, <4>3, <4>4 DEF TypeOK
      <4>7. EntriesOwnUuid'
        BY <3>6, <4>3, <4>4 DEF TypeOK
      <4>8. HandleIsCached'
        BY <3>6, <4>2, <4>3, <4>4 DEF TypeOK
      <4>9. QED
        BY <2>0, <4>5, <4>6, <4>7, <4>8
    <3>7. QED
      BY <3>2, <3>5, <3>6
  <2>4. ASSUME NEW t \in Threads, LookupByUuid(t) PROVE IInv'
    <3>1. res'[t] \in Entry => devicesByUuid[res'[t].uuid] = res'[t]
      BY <2>4, ErrNotEntry DEF LookupByUuid, TypeOK, NoEntry
    <3>2. QED
      BY <2>0, <2>4, <3>1 DEF LookupByUuid, TypeOK
  <2>5. CASE Restart
    BY <2>0, <2>5, ErrNotEntry, RegistryAssumption DEF Restart, TypeOK, NoResult, NoEntry
  <2>6. CASE UNCHANGED vars
    BY <2>0, <2>6 DEF vars
  <2>7. QED
    BY <2>1, <2>2, <2>3, <2>4, <2>5, <2>6 DEF Next
<1>3. IInv => HandleIsCached
  OBVIOUS
<1>4. QED
  BY <1>1, <1>2, <1>3, PTL DEF Spec

-----------------------------------------------------------------------------
(* A connection connect_keymint caches is of a KeyMint level, and its      *)
(* versionNumber and wrapping follow the HAL kind of that level.           *)
LEMMA ConnectNormalized ==
    ASSUME TypeOK, NEW l \in SecLevels, NEW d \in 1..MaxConn,
           NEW r \in ConnectKeymint(l, d), r \notin Errors
    PROVE  /\ l \in KmLevels
           /\ ServiceDeclared(l) => r.version = hal[l].native * 100
           /\ ~ServiceDeclared(l) => r.version = hal[l].legacy
           /\ r.wrapped = (r.version < 200)
<1>1. l \in KmLevels /\ r = Adapt(l, d)
  BY DEF ConnectKeymint, Errors
<1>2. hal[l] \in [native : AidlVersions \cup {NotDeclared},
                  legacy : LegacyVersions \cup {NotFound},
                  reported : ImplVersions]
  BY <1>1 DEF TypeOK, HalConfigs
<1>3. CASE ServiceDeclared(l)
  <2>1. HalVersion(l) = hal[l].native * 100 /\ hal[l].native \in Nat
    BY <1>2, <1>3 DEF HalVersion, ServiceDeclared
  <2>2. HalVersion(l) \in {100, 200, 300, 400}
    BY <1>1, <2>1 DEF Adapt, Errors, Err
  <2>3. CASE HalVersion(l) \in {200, 300, 400}
    <3>1. r = [dev |-> d, version |-> HalVersion(l), wrapped |-> FALSE, uuid |-> Uuid(l)]
      BY <1>1, <2>3 DEF Adapt
    <3>2. r.version = hal[l].native * 100 BY <2>1, <3>1
    <3>3. r.version \in {200, 300, 400} /\ r.wrapped = FALSE BY <2>3, <3>1
    <3>6. (r.version < 200) = FALSE BY <3>3, SMT
    <3>4. r.wrapped = (r.version < 200) BY <3>3, <3>6, Zenon
    <3>5. QED BY <1>1, <1>3, <3>2, <3>4
  <2>4. CASE HalVersion(l) = 100
    <3>1. r = [dev |-> d, version |-> HalVersion(l), wrapped |-> TRUE, uuid |-> Uuid(l)]
      BY <1>1, <2>4 DEF Adapt
    <3>2. r.version = hal[l].native * 100 BY <2>1, <3>1
    <3>3. r.version = 100 /\ r.wrapped = TRUE BY <2>4, <3>1
    <3>6. r.version < 200 BY <3>3
    <3>4. r.wrapped = (r.version < 200) BY <3>3, <3>6, Zenon
    <3>5. QED BY <1>1, <1>3, <3>2, <3>4
  <2>5. QED BY <2>2, <2>3, <2>4
<1>4. CASE ~ServiceDeclared(l)
  <2>1. HalVersion(l) = NotDeclared BY <1>4 DEF HalVersion
  <2>2. NotDeclared \notin {100, 200, 300, 400} BY RegistryAssumption
  <2>3. r = [dev |-> d, version |-> hal[l].legacy, wrapped |-> TRUE, uuid |-> Uuid(l)]
    BY <1>1, <2>1, <2>2 DEF Adapt
  <2>4. hal[l].legacy \in LegacyVersions
    <3>1. hal[l].legacy # NotFound
      <4>1. SUFFICES ASSUME hal[l].legacy = NotFound PROVE FALSE OBVIOUS
      <4>2. ConnectKeymint(l, d) = {Err("HwUnavailable"), Err("ConnFailed")}
        BY <1>1, <1>4, <4>1 DEF ConnectKeymint
      <4>3. r \in Errors BY <4>2 DEF Errors
      <4>4. QED BY <4>3
    <3>2. QED BY <1>2, <3>1
  <2>5. hal[l].legacy \in 0..99 BY <2>4, RegistryAssumption, Zenon
  <2>6. r.version = hal[l].legacy /\ r.wrapped = TRUE BY <2>3
  <2>7. r.version < 200 BY <2>5, <2>6
  <2>8. r.wrapped = (r.version < 200) BY <2>6, <2>7, Zenon
  <2>9. QED BY <1>1, <1>4, <2>6, <2>8
<1>5. QED BY <1>1, <1>3, <1>4

(* Every cached KeyMint handle has versionNumber version*100 of its AIDL   *)
(* interface, every legacy Keymaster handle the wrapper's number below     *)
(* 100, and BacklevelKeyMintWrapper sits on exactly the handles below      *)
(* KeyMint V2, in every process life and for every HAL configuration.      *)
THEOREM VersionNormalizedThm == Spec => []VersionNormalized
<1> USE DEF VInv, EntriesAreKmLevels, VersionNormalized
<1>1. Init => VInv
  BY DEF Init, TypeOK, NoResult, NoEntry, Errors, Err
<1>2. VInv /\ [Next]_vars => VInv'
  <2> SUFFICES ASSUME VInv, [Next]_vars PROVE VInv'
    OBVIOUS
  <2>0. TypeOK' BY TypeStep
  <2>1. ASSUME NEW t \in Threads, NEW l \in SecLevels, NEW b \in BOOLEAN,
               Call(t, l, b)
        PROVE VInv'
    BY <2>0, <2>1 DEF Call, ServiceDeclared
  <2>2. ASSUME NEW t \in Threads, Lookup(t) PROVE VInv'
    BY <2>0, <2>2 DEF Lookup, ServiceDeclared
  <2>3. ASSUME NEW t \in Threads, Connect(t) PROVE VInv'
    <3> DEFINE l == req[t]
    <3>1. PICK r \in ConnectKeymint(l, conns + 1) :
             /\ IF r \in Errors
                  THEN UNCHANGED <<devicesByUuid, uuidBySecLevel, conns>>
                  ELSE devicesByUuid' = [devicesByUuid EXCEPT ![Uuid(l)] = r]
      BY <2>3 DEF Connect
    <3>2. UNCHANGED hal BY <2>3 DEF Connect
    <3>3. CASE r \in Errors BY <2>0, <3>1, <3>2, <3>3 DEF ServiceDeclared
    <3>4. CASE r \notin Errors
      <4>1. l \in SecLevels /\ conns + 1 \in 1..MaxConn BY <2>3 DEF Connect, TypeOK
      <4>2. /\ l \in KmLevels
            /\ ServiceDeclared(l) => r.version = hal[l].native * 100
            /\ ~ServiceDeclared(l) => r.version = hal[l].legacy
            /\ r.wrapped = (r.version < 200)
        BY <3>4, <4>1, ConnectNormalized
      <4>3. devicesByUuid' = [devicesByUuid EXCEPT ![l] = r]
        BY <3>1, <3>4 DEF Uuid
      <4>4. r # NoEntry
        <5>1. r \in Entry BY <3>4, <4>1, ConnectResult
        <5>2. QED BY <5>1, ErrNotEntry DEF NoEntry
      <4>5. QED BY <2>0, <3>2, <4>1, <4>2, <4>3, <4>4 DEF TypeOK, ServiceDeclared
    <3>5. QED BY <3>3, <3>4
  <2>4. ASSUME NEW t \in Threads, LookupByUuid(t) PROVE VInv'
    BY <2>0, <2>4 DEF LookupByUuid, ServiceDeclared
  <2>5. CASE Restart
    BY <2>0, <2>5 DEF Restart
  <2>6. CASE UNCHANGED vars
    BY <2>0, <2>6 DEF vars, ServiceDeclared
  <2>7. QED
    BY <2>1, <2>2, <2>3, <2>4, <2>5, <2>6 DEF Next
<1>3. QED
  BY <1>1, <1>2, PTL DEF Spec
=============================================================================
