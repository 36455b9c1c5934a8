----------------------------- MODULE SecureClock -----------------------------
(***************************************************************************)
(* The secure clock cache of keystore2 (src/keystore2/src/globals.rs).     *)
(*                                                                         *)
(* TIME_STAMP_DEVICE is an Option behind one Mutex.  get_timestamp_service *)
(* takes the lock; a cached handle is returned, otherwise                  *)
(* connect_secureclock runs -- still under the lock -- and a handle it    *)
(* returns is cached for the rest of the process life.  An error is        *)
(* returned and not cached, so the next call connects again.               *)
(*                                                                         *)
(* connect_secureclock uses the declared "default" ISecureClock instance   *)
(* if there is one; otherwise it starts the km_compat service and asks it  *)
(* for the legacy clock, NAME_NOT_FOUND becoming HARDWARE_TYPE_UNAVAILABLE.*)
(* Which of the two the device has is chosen in Init and never changes.    *)
(***************************************************************************)
EXTENDS Naturals

CONSTANTS
    Threads,     \* binder threads asking for the timestamp service
    MaxConn,     \* bound on secure clock connections made in one process life
    NoThread

ASSUME SecureClockAssumption ==
    /\ MaxConn \in Nat
    /\ NoThread \notin Threads

(* A handle is the number of the connection that produced it.  A result   *)
(* is Ok(handle) or an error; None is the empty Option of TIME_STAMP_DEVICE *)
(* and also a call that has not returned yet.                              *)
NoDev == 0
Handles == 1..MaxConn
Errors == {"HwUnavailable", "ConnFailed"}
Ok(d) == [st |-> "ok", dev |-> d]
Err(e) == [st |-> e, dev |-> NoDev]
None == Err("none")
Results == [st : {"ok", "none"} \cup Errors, dev : Handles \cup {NoDev}]

VARIABLES
    native,    \* a "default" ISecureClock instance is declared
    legacy,    \* the km_compat Keymaster provides a legacy secure clock
    cache,     \* TIME_STAMP_DEVICE
    lock,      \* the thread holding its mutex
    pc,
    res,       \* what each thread's last call returned
    conns      \* connections made in this process life

vars == <<native, legacy, cache, lock, pc, res, conns>>

TypeOK ==
    /\ native \in BOOLEAN
    /\ legacy \in BOOLEAN
    /\ cache \in {None} \cup {Ok(d) : d \in Handles}
    /\ lock \in Threads \cup {NoThread}
    /\ pc \in [Threads -> {"idle", "waiting", "connecting"}]
    /\ res \in [Threads -> Results]
    /\ conns \in 0..MaxConn

(* What connect_secureclock can return as connection number d: the native *)
(* clock or a get_interface failure; without one, a failure to reach the   *)
(* compat service, the legacy clock, or HARDWARE_TYPE_UNAVAILABLE.         *)
ConnectSecureclock(d) ==
    IF native \/ legacy THEN {Ok(d), Err("ConnFailed")}
    ELSE {Err("HwUnavailable"), Err("ConnFailed")}

-----------------------------------------------------------------------------
Init ==
    /\ native \in BOOLEAN
    /\ legacy \in BOOLEAN
    /\ cache = None
    /\ lock = NoThread
    /\ pc = [t \in Threads |-> "idle"]
    /\ res = [t \in Threads |-> None]
    /\ conns = 0

(* A thread enters get_timestamp_service.                                  *)
Call(t) ==
    /\ pc[t] = "idle"
    /\ pc' = [pc EXCEPT ![t] = "waiting"]
    /\ res' = [res EXCEPT ![t] = None]
    /\ UNCHANGED <<native, legacy, cache, lock, conns>>

(* Mutant: the lock covers the lookup only and is dropped before           *)
(* connect_secureclock.                                                    *)
LockUnlocked(t) ==
    /\ pc[t] = "waiting"
    /\ lock = NoThread
    /\ IF cache # None
         THEN /\ res' = [res EXCEPT ![t] = cache]
              /\ pc' = [pc EXCEPT ![t] = "idle"]
         ELSE /\ pc' = [pc EXCEPT ![t] = "connecting"]
              /\ UNCHANGED res
    /\ UNCHANGED <<native, legacy, cache, lock, conns>>

(* TIME_STAMP_DEVICE.lock(): a cached handle is cloned and returned, the   *)
(* guard dropping the lock; on None the guard is kept for the connection.  *)
Lock(t) ==
    /\ pc[t] = "waiting"
    /\ lock = NoThread
    /\ IF cache # None
         THEN /\ res' = [res EXCEPT ![t] = cache]
              /\ pc' = [pc EXCEPT ![t] = "idle"]
              /\ UNCHANGED lock
         ELSE /\ lock' = t
              /\ pc' = [pc EXCEPT ![t] = "connecting"]
              /\ UNCHANGED res
    /\ UNCHANGED <<native, legacy, cache, conns>>

(* Mutant: the whole Result of connect_secureclock is cached, an error     *)
(* included.                                                               *)
ConnectCachingErrors(t) ==
    /\ pc[t] = "connecting"
    /\ conns < MaxConn
    /\ \E r \in ConnectSecureclock(conns + 1) :
         /\ res' = [res EXCEPT ![t] = r]
         /\ cache' = r
         /\ conns' = IF r.st \in Errors THEN conns ELSE conns + 1
    /\ lock' = NoThread
    /\ pc' = [pc EXCEPT ![t] = "idle"]
    /\ UNCHANGED <<native, legacy>>

(* Mutant: the `*ts_device = Some(dev.clone())` store is lost, so the      *)
(* handle is returned but never cached.                                    *)
ConnectNoStore(t) ==
    /\ pc[t] = "connecting"
    /\ conns < MaxConn
    /\ \E r \in ConnectSecureclock(conns + 1) :
         /\ res' = [res EXCEPT ![t] = r]
         /\ conns' = IF r.st \in Errors THEN conns ELSE conns + 1
    /\ lock' = NoThread
    /\ pc' = [pc EXCEPT ![t] = "idle"]
    /\ UNCHANGED <<native, legacy, cache>>

(* connect_secureclock returns under the lock: a handle is stored in       *)
(* TIME_STAMP_DEVICE and returned, an error is returned (the ? leaves the  *)
(* Option empty); the guard then drops the lock.                           *)
Connect(t) ==
    /\ pc[t] = "connecting"
    /\ conns < MaxConn
    /\ \E r \in ConnectSecureclock(conns + 1) :
         /\ res' = [res EXCEPT ![t] = r]
         /\ IF r.st \in Errors
              THEN UNCHANGED <<cache, conns>>
              ELSE /\ cache' = r
                   /\ conns' = conns + 1
    /\ lock' = NoThread
    /\ pc' = [pc EXCEPT ![t] = "idle"]
    /\ UNCHANGED <<native, legacy>>

(* keystore2 dies -- a panic anywhere, get_declared_instances(..).unwrap() *)
(* inside connect_secureclock included -- and init restarts it with an     *)
(* empty TIME_STAMP_DEVICE.                                                *)
Restart ==
    /\ cache' = None
    /\ lock' = NoThread
    /\ pc' = [t \in Threads |-> "idle"]
    /\ res' = [t \in Threads |-> None]
    /\ conns' = 0
    /\ UNCHANGED <<native, legacy>>

Next ==
    \/ \E t \in Threads : Call(t) \/ Lock(t) \/ Connect(t)
    \/ Restart

Spec == Init /\ [][Next]_vars

-----------------------------------------------------------------------------
(* Every secure clock handle a thread was given is the one cached in       *)
(* TIME_STAMP_DEVICE: the mutex held across connect_secureclock means a    *)
(* second connection never replaces a handle already handed out, so auth  *)
(* tokens are timestamped by one clock per process life.                   *)
ClockHandleIsCached ==
    \A t \in Threads : res[t].st = "ok" => res[t] = cache

(* One process life makes at most one secure clock connection that         *)
(* succeeds, however many threads miss the cache at once.                  *)
SingleClockConnection ==
    conns <= 1

(* The facts the two properties rest on: the lock holder is the one        *)
(* connecting thread, and while it connects the cache is empty; the cache  *)
(* is filled exactly when one connection succeeded.                        *)
LockHeldByConnecting ==
    \A t \in Threads : pc[t] = "connecting" <=> lock = t

ConnectingMisses ==
    lock # NoThread => cache = None

CacheCountsConnection ==
    /\ cache = None <=> conns = 0
    /\ cache # None => cache = Ok(conns)

IInv ==
    /\ TypeOK
    /\ LockHeldByConnecting
    /\ ConnectingMisses
    /\ CacheCountsConnection
    /\ ClockHandleIsCached
    /\ SingleClockConnection
=============================================================================
