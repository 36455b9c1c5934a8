------------------------ MODULE SecureClockProofs -------------------------
(***************************************************************************)
(* Proofs about the secure clock cache: for every number of threads and   *)
(* every connection bound, a handle a caller of get_timestamp_service got  *)
(* is the cached one, and a process life connects to the clock once.      *)
(***************************************************************************)
EXTENDS SecureClock, TLAPS

USE SecureClockAssumption

(* Init: TIME_STAMP_DEVICE starts empty and no thread holds its mutex.    *)
LEMMA InitIInv == Init => IInv
BY DEF Init, IInv, TypeOK, Results, Err, Handles, NoDev, LockHeldByConnecting,
       ConnectingMisses, CacheCountsConnection, ClockHandleIsCached,
       SingleClockConnection, None

(* Entering get_timestamp_service only clears the caller's result.        *)
LEMMA CallStep ==
    ASSUME IInv, NEW t \in Threads, Call(t) PROVE IInv'
BY DEF Call, IInv, TypeOK, Results, Err, NoDev, LockHeldByConnecting,
       ConnectingMisses, CacheCountsConnection, ClockHandleIsCached,
       SingleClockConnection, None

(* Taking the mutex: a hit returns the cached handle, a miss makes the    *)
(* caller the one connecting thread while the cache is empty.             *)
LEMMA LockStep ==
    ASSUME IInv, NEW t \in Threads, Lock(t) PROVE IInv'
<1> USE DEF IInv, TypeOK
<1>1. CASE cache # None
  BY <1>1 DEF Lock, Results, Ok, Handles, NoDev, LockHeldByConnecting,
     ConnectingMisses, CacheCountsConnection, ClockHandleIsCached,
     SingleClockConnection
<1>2. CASE cache = None
  BY <1>2 DEF Lock, LockHeldByConnecting, ConnectingMisses,
     CacheCountsConnection, ClockHandleIsCached, SingleClockConnection
<1>3. QED BY <1>1, <1>2

(* connect_secureclock returns to the lock holder: the cache was empty, so *)
(* no caller holds a handle and none was connected; a handle becomes      *)
(* connection 1 and the cache, an error leaves both alone.                *)
LEMMA ConnectStep ==
    ASSUME IInv, NEW t \in Threads, Connect(t) PROVE IInv'
<1> USE DEF IInv, TypeOK
<1>1. lock = t /\ cache = None /\ conns = 0
  BY DEF Connect, LockHeldByConnecting, ConnectingMisses, CacheCountsConnection
<1>2. \A s \in Threads : res[s].st = "ok" => FALSE
  BY <1>1 DEF ClockHandleIsCached, None, Err
<1>3. PICK r \in ConnectSecureclock(conns + 1) :
        /\ res' = [res EXCEPT ![t] = r]
        /\ IF r.st \in Errors THEN UNCHANGED <<cache, conns>>
           ELSE cache' = r /\ conns' = conns + 1
  BY DEF Connect
<1>4. r = Ok(1) \/ (r.st \in Errors /\ r.dev = NoDev)
  BY <1>1, <1>3 DEF ConnectSecureclock, Ok, Err, Errors
<1>5. lock' = NoThread /\ pc' = [pc EXCEPT ![t] = "idle"]
  BY DEF Connect
<1>6. CASE r = Ok(1)
  <2>1. cache' = Ok(1) /\ conns' = 1 /\ 1 \in Handles
    <3>1. r.st \notin Errors BY <1>6 DEF Ok, Errors
    <3>2. 1 \in Handles BY <1>1 DEF Handles, Connect
    <3>3. QED BY <1>1, <1>3, <1>6, <3>1, <3>2
  <2>2. TypeOK' BY <1>3, <1>5, <1>6, <2>1 DEF Connect, Results, Ok, NoDev,
                   Handles
  <2>3. LockHeldByConnecting' BY <1>1, <1>5 DEF LockHeldByConnecting
  <2>4. ConnectingMisses' BY <1>5 DEF ConnectingMisses
  <2>5. CacheCountsConnection' BY <2>1 DEF CacheCountsConnection, None, Ok, Err
  <2>6. ClockHandleIsCached' BY <1>2, <1>3, <1>6, <2>1 DEF ClockHandleIsCached
  <2>7. SingleClockConnection' BY <2>1 DEF SingleClockConnection
  <2>8. QED BY <2>2, <2>3, <2>4, <2>5, <2>6, <2>7
<1>7. CASE r.st \in Errors /\ r.dev = NoDev
  <2>1. UNCHANGED <<cache, conns>> BY <1>3, <1>7
  <2>2. TypeOK'
    <3>1. r \in Results BY <1>1, <1>3, <1>7 DEF ConnectSecureclock, Err, Ok,
                          Handles, Errors, Results, NoDev
    <3>2. QED BY <1>3, <1>5, <2>1, <3>1 DEF Connect
  <2>4. LockHeldByConnecting' BY <1>1, <1>5 DEF LockHeldByConnecting
  <2>5. ConnectingMisses' BY <1>5 DEF ConnectingMisses
  <2>6. CacheCountsConnection' BY <2>1 DEF CacheCountsConnection
  <2>7. ClockHandleIsCached' BY <1>2, <1>3, <1>7 DEF ClockHandleIsCached,
                                 Errors
  <2>8. SingleClockConnection' BY <2>1 DEF SingleClockConnection
  <2>9. QED BY <2>2, <2>4, <2>5, <2>6, <2>7, <2>8
<1>8. QED BY <1>4, <1>6, <1>7

(* A restart empties the cache and forgets every caller.                  *)
LEMMA RestartStep == ASSUME IInv, Restart PROVE IInv'
BY DEF Restart, IInv, TypeOK, Results, Err, NoDev, LockHeldByConnecting,
       ConnectingMisses, CacheCountsConnection, ClockHandleIsCached,
       SingleClockConnection, None

(* A stuttering step changes none of the variables IInv reads.            *)
LEMMA StutterStep == ASSUME IInv, UNCHANGED vars PROVE IInv'
BY DEF vars, IInv, TypeOK, LockHeldByConnecting, ConnectingMisses,
       CacheCountsConnection, ClockHandleIsCached, SingleClockConnection

(* IInv is an inductive invariant of the secure clock cache.              *)
THEOREM IInvThm == Spec => []IInv
<1>1. IInv /\ [Next]_vars => IInv'
  BY CallStep, LockStep, ConnectStep, RestartStep, StutterStep DEF Next
<1>2. QED BY InitIInv, <1>1, PTL DEF Spec

(* Every caller's result, the cache and the mutex keep their types: the   *)
(* cache holds a handle or nothing, and the mutex a thread or nobody.      *)
THEOREM TypeCorrect == Spec => []TypeOK
BY IInvThm, PTL DEF IInv

(* Every handle get_timestamp_service returned is the one TIME_STAMP_DEVICE *)
(* holds, because the mutex is held across connect_secureclock.           *)
THEOREM ClockHandleIsCachedThm == Spec => []ClockHandleIsCached
BY IInvThm, PTL DEF IInv

(* At most one secure clock connection succeeds per process life.        *)
THEOREM SingleClockConnectionThm == Spec => []SingleClockConnection
BY IInvThm, PTL DEF IInv
=============================================================================
