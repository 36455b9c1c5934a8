---------------------------- MODULE KeyCreation ----------------------------
(***************************************************************************)
(* The key-creation and raw-blob entry points of one KeystoreSecurityLevel *)
(* (src/keystore2/src/security_level.rs): generate_key, import_key,        *)
(* import_wrapped_key, convert_storage_key_to_ephemeral and delete_key,   *)
(* called through their IKeystoreSecurityLevel binder wrappers by          *)
(* concurrent binder threads.                                              *)
(*                                                                         *)
(* A call validates its descriptor, checks its permission, and then:      *)
(*  - generate_key looks up an attestation key -- a database key loaded   *)
(*    under its KeyIdGuard, or an RKPD-provisioned one -- adds the        *)
(*    required parameters and calls generateKey through the upgrade       *)
(*    wrapper on the attestation key's blob;                               *)
(*  - import_key adds the required parameters, derives the key format     *)
(*    from the ALGORITHM tag and calls importKey;                          *)
(*  - import_wrapped_key loads the wrapping key under its KeyIdGuard and   *)
(*    calls importWrappedKey through the upgrade wrapper;                 *)
(*  - the three end in store_new_key, which binds the alias to the new    *)
(*    blob unless the key is a caller-held Domain::BLOB key;               *)
(*  - convert_storage_key_to_ephemeral calls convertStorageKeyToEphemeral *)
(*    on the caller's blob and, on KEY_REQUIRES_UPGRADE, upgrades it once  *)
(*    and calls again, returning the upgraded blob;                       *)
(*  - delete_key calls deleteKey on the caller's blob.                     *)
(*                                                                         *)
(* Blobs are abstracted to their format version; KeyMint answers           *)
(* KEY_REQUIRES_UPGRADE to a blob older than its firmware.  Permission     *)
(* checks, the database, super-encryption and KeyMint itself may fail at   *)
(* every call, and keystore2 may restart (after an OTA) at any time.       *)
(*                                                                         *)
(* crate::utils::upgrade_keyblob_if_required_with, the database and RKPD  *)
(* are not in this repository; the wrapper's contract is taken from        *)
(* spec.md 4.2.                                                            *)
(***************************************************************************)
EXTENDS Naturals

CONSTANTS
    Threads,     \* binder threads
    Aliases,     \* key descriptors of the database (domain APP or SELINUX)
    MaxFw,       \* highest blob format (firmware) version the device reaches
    NoThread

ASSUME KeyCreationAssumption ==
    /\ Aliases # {}
    /\ MaxFw \in Nat \ {0}
    /\ NoThread \notin Threads

Fw == 1..MaxFw

Ops == {"generate", "import", "wrapped", "convert", "delete"}

(* What a call was asked: its operation; the key descriptor's domain and   *)
(* whether it has an alias and a blob; for generate_key which attestation  *)
(* key it names; the ALGORITHM tag of import_key's parameters; whether the *)
(* wrapping key descriptor is Domain::BLOB; the alias the new key gets     *)
(* (target) and the attestation or wrapping key's alias (aux); the format  *)
(* version of a caller-supplied raw blob.                                   *)
Req == [op : Ops, domain : {"APP", "SELINUX", "BLOB"}, alias : BOOLEAN,
        blob : BOOLEAN, attest : {"none", "user", "rkpd"},
        alg : {"AES", "RSA", "OTHER"}, auxBlob : BOOLEAN,
        target : Aliases, aux : Aliases, ver : Fw]

(* The requests clients send, each with the fields its operation reads;   *)
(* a SELINUX descriptor behaves as an APP one except in import_wrapped_key.*)
Requests ==
    [op : {"generate"}, domain : {"APP", "BLOB"}, alias : BOOLEAN, blob : {FALSE},
     attest : {"none", "user", "rkpd"}, alg : {"RSA"}, auxBlob : {FALSE},
     target : Aliases, aux : Aliases, ver : {1}]
    \cup
    [op : {"import"}, domain : {"APP", "BLOB"}, alias : BOOLEAN, blob : {FALSE},
     attest : {"none"}, alg : {"AES", "RSA", "OTHER"}, auxBlob : {FALSE},
     target : Aliases, aux : {CHOOSE a \in Aliases : TRUE}, ver : {1}]
    \cup
    {r \in [op : {"wrapped"}, domain : {"APP", "SELINUX", "BLOB"}, alias : BOOLEAN,
            blob : BOOLEAN, attest : {"none"}, alg : {"AES"}, auxBlob : BOOLEAN,
            target : Aliases, aux : Aliases, ver : {1}] : r.blob = r.alias}
    \cup
    [op : {"convert", "delete"}, domain : {"APP", "BLOB"}, alias : {FALSE},
     blob : BOOLEAN, attest : {"none"}, alg : {"AES"}, auxBlob : {FALSE},
     target : {CHOOSE a \in Aliases : TRUE}, aux : {CHOOSE a \in Aliases : TRUE},
     ver : Fw]

Results == {"none", "ok", "error", "KEY_REQUIRES_UPGRADE"}

(* A call in progress: its request, the version of the blob it hands to    *)
(* KeyMint, whether it holds the KeyIdGuard of req.aux, whether it has     *)
(* upgraded, the blob version its ephemeral key came from, the upgraded    *)
(* blob convert returns (0 for None), and its result.                      *)
Call == [req : Requests, blob : 0..MaxFw, guard : BOOLEAN, upgraded : BOOLEAN,
         eph : 0..MaxFw, upg : 0..MaxFw, res : Results]

VARIABLES
    fw,        \* blob version the KeyMint firmware produces and requires
    db,        \* version of the key blob bound to each alias, 0 for none
    rkpd,      \* version of the attestation key RKPD holds for this KeyMint
    keyLock,   \* KEY_ID_LOCK: the thread holding each key's KeyIdGuard
    pc,        \* where each thread is
    th         \* each thread's call

vars == <<fw, db, rkpd, keyLock, pc, th>>

PCs == {"idle", "validate", "perm", "attest", "params", "format", "loadWrap",
        "km", "upgrade", "store"}

TypeOK ==
    /\ fw \in Fw
    /\ db \in [Aliases -> 0..MaxFw]
    /\ rkpd \in Fw
    /\ keyLock \in [Aliases -> Threads \cup {NoThread}]
    /\ pc \in [Threads -> PCs]
    /\ th \in [Threads -> Call]

-----------------------------------------------------------------------------
(* The early returns before the permission check.  generate_key and        *)
(* import_key need an alias unless the key is Domain::BLOB;                *)
(* import_wrapped_key needs an APP or SELINUX key with alias and wrapped   *)
(* blob, and a wrapping key that is not Domain::BLOB; the raw-blob calls   *)
(* need a Domain::BLOB descriptor carrying a blob.                         *)
CreationValid(r) == r.domain = "BLOB" \/ r.alias

WrappedValid(r) ==
    /\ r.domain \in {"APP", "SELINUX"}
    /\ r.alias /\ r.blob
    /\ ~r.auxBlob

RawBlobValid(r) == r.domain = "BLOB" /\ r.blob

Valid(r) ==
    \/ r.op \in {"generate", "import"} /\ CreationValid(r)
    \/ r.op = "wrapped" /\ WrappedValid(r)
    \/ r.op \in {"convert", "delete"} /\ RawBlobValid(r)

(* The calls that hand KeyMint a stored or caller-held blob.               *)
UsesBlob(r) ==
    \/ r.op \in {"wrapped", "convert"}
    \/ r.op = "generate" /\ r.domain # "BLOB" /\ r.attest # "none"

(* Where a call goes once check_key_permission passed.  A Domain::BLOB    *)
(* generate_key never looks for an attestation key.                        *)
AfterPerm(r) ==
    [generate |-> IF r.domain # "BLOB" /\ r.attest # "none" THEN "attest"
                  ELSE "params",
     import |-> "params", wrapped |-> "loadWrap", convert |-> "km",
     delete |-> "km"][r.op]

(* Returning from the call: the KeyIdGuard, if still held, is dropped      *)
(* with the stack.                                                         *)
Leave(t) ==
    /\ pc' = [pc EXCEPT ![t] = "idle"]
    /\ keyLock' = [a \in Aliases |-> IF keyLock[a] = t THEN NoThread ELSE keyLock[a]]

Fail(t) ==
    /\ Leave(t)
    /\ th' = [th EXCEPT ![t].res = "error", ![t].guard = FALSE]

(* Moving on to step p, with or without a change to the call.             *)
Move(t, p) ==
    /\ pc' = [pc EXCEPT ![t] = p]
    /\ UNCHANGED keyLock

Goto(t, p) ==
    /\ Move(t, p)
    /\ UNCHANGED th

-----------------------------------------------------------------------------
Init ==
    /\ fw = 1
    /\ db \in [Aliases -> 0..1]
    /\ rkpd = 1
    /\ keyLock = [a \in Aliases |-> NoThread]
    /\ pc = [t \in Threads |-> "idle"]
    /\ th = [t \in Threads |-> [req |-> CHOOSE r \in Requests : TRUE, blob |-> 0,
                                guard |-> FALSE, upgraded |-> FALSE, eph |-> 0,
                                upg |-> 0, res |-> "none"]]

(* A binder call arrives on thread t.  A caller-held raw blob was made by  *)
(* this KeyMint, so it is no newer than the firmware.                      *)
Request(t, r) ==
    /\ pc[t] = "idle"
    /\ r.op \in {"convert", "delete"} => r.ver <= fw
    /\ pc' = [pc EXCEPT ![t] = "validate"]
    /\ th' = [th EXCEPT ![t] = [req |-> r,
                                blob |-> IF r.op \in {"convert", "delete"}
                                           THEN r.ver ELSE 0,
                                guard |-> FALSE, upgraded |-> FALSE,
                                eph |-> 0, upg |-> 0, res |-> "none"]]
    /\ UNCHANGED <<fw, db, rkpd, keyLock>>

Validate(t) ==
    /\ pc[t] = "validate"
    /\ IF Valid(th[t].req) THEN Goto(t, "perm") ELSE Fail(t)
    /\ UNCHANGED <<fw, db, rkpd>>

(* check_key_permission: Rebind for the creating calls,                    *)
(* ConvertStorageKeyToEphemeral or Delete for the raw-blob ones.  A denial *)
(* is returned at once.                                                    *)
Permission(t) ==
    /\ pc[t] = "perm"
    /\ \/ Fail(t)
       \/ Goto(t, AfterPerm(th[t].req))
    /\ UNCHANGED <<fw, db, rkpd>>

(* get_attest_key_info.  A database attestation key is loaded by           *)
(* load_key_entry, which fails with KEY_NOT_FOUND for a missing key and    *)
(* otherwise waits for the key's KeyIdGuard and checks Use; an RKPD key is *)
(* fetched from RKPD, which may fail.                                      *)
Attest(t) ==
    LET r == th[t].req IN
    /\ pc[t] = "attest"
    /\ \/ /\ r.attest = "user"
          /\ \/ /\ db[r.aux] = 0
                /\ Fail(t)
             \/ /\ db[r.aux] # 0
                /\ keyLock[r.aux] = NoThread
                /\ \/ Fail(t)
                   \/ /\ keyLock' = [keyLock EXCEPT ![r.aux] = t]
                      /\ th' = [th EXCEPT ![t].blob = db[r.aux], ![t].guard = TRUE]
                      /\ pc' = [pc EXCEPT ![t] = "params"]
       \/ /\ r.attest = "rkpd"
          /\ \/ Fail(t)
             \/ /\ th' = [th EXCEPT ![t].blob = rkpd]
                /\ Move(t, "params")
    /\ UNCHANGED <<fw, db, rkpd>>

(* add_required_parameters rejects a caller's CREATION_DATETIME, a failed  *)
(* attestation id lookup and missing unique-id or device-id attestation    *)
(* permissions (module KeyParams); import_key then derives the format.     *)
Params(t) ==
    /\ pc[t] = "params"
    /\ \/ Fail(t)
       \/ Goto(t, IF th[t].req.op = "import" THEN "format" ELSE "km")
    /\ UNCHANGED <<fw, db, rkpd>>

(* AES, HMAC and 3DES are imported RAW, RSA and EC as PKCS8; a missing or  *)
(* other algorithm is INVALID_ARGUMENT.                                    *)
Format(t) ==
    /\ pc[t] = "format"
    /\ IF th[t].req.alg = "OTHER" THEN Fail(t) ELSE Goto(t, "km")
    /\ UNCHANGED <<fw, db, rkpd>>

(* import_wrapped_key loads the wrapping key through                       *)
(* LEGACY_IMPORTER.with_try_import and load_key_entry (KEY_NOT_FOUND, or   *)
(* wait for its KeyIdGuard and check Use), then unwraps its super-         *)
(* encryption; each step may fail.                                         *)
LoadWrap(t) ==
    LET a == th[t].req.aux IN
    /\ pc[t] = "loadWrap"
    /\ \/ /\ db[a] = 0
          /\ Fail(t)
       \/ /\ db[a] # 0
          /\ keyLock[a] = NoThread
          /\ \/ Fail(t)
             \/ /\ keyLock' = [keyLock EXCEPT ![a] = t]
                /\ th' = [th EXCEPT ![t].blob = db[a], ![t].guard = TRUE]
                /\ pc' = [pc EXCEPT ![t] = "km"]
    /\ UNCHANGED <<fw, db, rkpd>>

(* What KeyMint answers a call: an old-format blob is KEY_REQUIRES_UPGRADE, *)
(* anything may fail.                                                      *)
KmAnswers(t) ==
    IF UsesBlob(th[t].req) /\ th[t].blob < fw
      THEN {"KEY_REQUIRES_UPGRADE", "error"}
      ELSE {"ok", "error"}

(* The creating KeyMint call inside upgrade_keyblob_if_required_with       *)
(* (spec.md 4.2): success leaves the wrapper -- dropping a KeyIdGuard the  *)
(* upgrade did not take, after the forced re-encryption store, a no-op     *)
(* like every store_upgraded_keyblob -- and goes on to store_new_key; the  *)
(* first KEY_REQUIRES_UPGRADE goes to the upgrade, a second one is         *)
(* returned like any other error.  A call without a blob is not wrapped.   *)
KmCreate(t) ==
    \E a \in KmAnswers(t) :
       \/ /\ a = "ok"
          /\ pc' = [pc EXCEPT ![t] = "store"]
          /\ keyLock' = [x \in Aliases |-> IF keyLock[x] = t THEN NoThread ELSE keyLock[x]]
          /\ th' = [th EXCEPT ![t].guard = FALSE]
       \/ a = "error" /\ Fail(t)
       \/ /\ a = "KEY_REQUIRES_UPGRADE"
          /\ IF th[t].upgraded
               THEN /\ Leave(t)
                    /\ th' = [th EXCEPT ![t].res = a, ![t].guard = FALSE]
               ELSE Goto(t, "upgrade")

(* generate_key: generateKey with the database attestation key, with the   *)
(* RKPD one (whose certificate chain is appended or post-processed), or    *)
(* with none.                                                               *)
KmGenerate(t) ==
    /\ pc[t] = "km"
    /\ th[t].req.op = "generate"
    /\ KmCreate(t)
    /\ UNCHANGED <<fw, db, rkpd>>

(* import_key: importKey with the derived format, no attestation key.      *)
KmImport(t) ==
    /\ pc[t] = "km"
    /\ th[t].req.op = "import"
    /\ KmCreate(t)
    /\ UNCHANGED <<fw, db, rkpd>>

(* import_wrapped_key: the password and fingerprint sids, the masking key, *)
(* then importWrappedKey on the wrapping key's blob inside the wrapper.    *)
KmWrapped(t) ==
    /\ pc[t] = "km"
    /\ th[t].req.op = "wrapped"
    /\ KmCreate(t)
    /\ UNCHANGED <<fw, db, rkpd>>

(* convertStorageKeyToEphemeral on the caller's blob: success returns the  *)
(* ephemeral key, with the upgraded blob if there was one; the first      *)
(* KEY_REQUIRES_UPGRADE goes to upgradeKey; an error of the call after     *)
(* the upgrade is returned as it is.                                       *)
KmConvert(t) ==
    /\ pc[t] = "km"
    /\ th[t].req.op = "convert"
    /\ \E a \in KmAnswers(t) :
         \/ /\ a = "ok"
            /\ Leave(t)
            /\ th' = [th EXCEPT ![t].res = "ok", ![t].eph = th[t].blob]
         \/ a = "error" /\ Fail(t)
         \/ /\ a = "KEY_REQUIRES_UPGRADE"
            /\ IF th[t].upgraded
                 THEN /\ Leave(t)
                      /\ th' = [th EXCEPT ![t].res = a]
                 ELSE Goto(t, "upgrade")
    /\ UNCHANGED <<fw, db, rkpd>>

(* deleteKey on the caller's blob; its result is returned.                 *)
KmDelete(t) ==
    /\ pc[t] = "km"
    /\ th[t].req.op = "delete"
    /\ Leave(t)
    /\ \E a \in {"ok", "error"} : th' = [th EXCEPT ![t].res = a]
    /\ UNCHANGED <<fw, db, rkpd>>

(* The upgrade of a database key's blob in upgrade_keyblob_if_required_with:*)
(* upgradeKey, which may fail; then the new-blob handler moves the         *)
(* KeyIdGuard into store_upgraded_keyblob, whose db.set_blob is commented  *)
(* out -- the database keeps the old blob -- and which drops the guard on  *)
(* return; the KeyMint call is retried with the upgraded blob.             *)
UpgradeWrapped(t) ==
    /\ \/ Fail(t)
       \/ /\ th' = [th EXCEPT ![t].blob = fw, ![t].upgraded = TRUE, ![t].guard = FALSE]
          /\ keyLock' = [keyLock EXCEPT ![th[t].req.aux] = NoThread]
          /\ pc' = [pc EXCEPT ![t] = "km"]
    /\ UNCHANGED <<fw, db, rkpd>>

(* upgrade_rkpd_keyblob_if_required_with: upgradeKey, then                 *)
(* store_rkpd_attestation_key hands the upgraded key back to RKPD; a      *)
(* failure of either is returned.                                          *)
UpgradeRkpd(t) ==
    /\ \/ /\ Fail(t)
          /\ UNCHANGED rkpd
       \/ /\ rkpd' = fw
          /\ th' = [th EXCEPT ![t].blob = fw, ![t].upgraded = TRUE]
          /\ Move(t, "km")
    /\ UNCHANGED <<fw, db>>

(* Mutant: the upgraded blob is not returned (upgradedBlob: None).         *)
UpgradeConvertNoBlob(t) ==
    /\ \/ Fail(t)
       \/ /\ th' = [th EXCEPT ![t].blob = fw, ![t].upgraded = TRUE]
          /\ Move(t, "km")
    /\ UNCHANGED <<fw, db, rkpd>>

(* Mutant: the second convertStorageKeyToEphemeral is given key_blob       *)
(* instead of the upgraded blob.                                           *)
UpgradeConvertKeepsBlob(t) ==
    /\ \/ Fail(t)
       \/ /\ th' = [th EXCEPT ![t].upgraded = TRUE, ![t].upg = fw]
          /\ Move(t, "km")
    /\ UNCHANGED <<fw, db, rkpd>>

(* convert_storage_key_to_ephemeral's own upgrade: upgradeKey on the       *)
(* caller's blob, whose failure is returned, and the second call with the  *)
(* upgraded blob, which the response will carry.  Nothing is stored.       *)
UpgradeConvert(t) ==
    /\ \/ Fail(t)
       \/ /\ th' = [th EXCEPT ![t].blob = fw, ![t].upgraded = TRUE, ![t].upg = fw]
          /\ Move(t, "km")
    /\ UNCHANGED <<fw, db, rkpd>>

Upgrade(t) ==
    LET r == th[t].req IN
    /\ pc[t] = "upgrade"
    /\ \/ r.op = "convert" /\ UpgradeConvert(t)
       \/ r.op = "generate" /\ r.attest = "rkpd" /\ UpgradeRkpd(t)
       \/ (r.op = "wrapped" \/ r.attest = "user") /\ UpgradeWrapped(t)

(* store_new_key: the certificate chain is unified, the creation date      *)
(* taken; a Domain::BLOB key goes back to the caller as its blob, any      *)
(* other is super-encrypted and stored with KmUuid metadata, binding the   *)
(* alias to the new blob.  The clock, super-encryption and the database    *)
(* may fail, leaving the database as it was.                               *)
Store(t) ==
    LET r == th[t].req IN
    /\ pc[t] = "store"
    /\ \/ /\ Fail(t)
          /\ UNCHANGED db
       \/ /\ Leave(t)
          /\ th' = [th EXCEPT ![t].res = "ok"]
          /\ db' = IF r.domain = "BLOB" THEN db ELSE [db EXCEPT ![r.target] = fw]
    /\ UNCHANGED <<fw, rkpd>>

(* keystore2 dies and init restarts it, possibly after an OTA that raised  *)
(* the KeyMint firmware: calls and locks are gone; the database and RKPD's *)
(* keys stay.                                                              *)
Restart ==
    /\ fw' \in fw..MaxFw
    /\ keyLock' = [a \in Aliases |-> NoThread]
    /\ pc' = [t \in Threads |-> "idle"]
    /\ th' = [t \in Threads |-> [th[t] EXCEPT !.res = "none", !.guard = FALSE]]
    /\ UNCHANGED <<db, rkpd>>

Step(t) ==
    \/ Validate(t) \/ Permission(t) \/ Attest(t) \/ Params(t) \/ Format(t)
    \/ LoadWrap(t) \/ KmGenerate(t) \/ KmImport(t) \/ KmWrapped(t)
    \/ KmConvert(t) \/ KmDelete(t) \/ Upgrade(t) \/ Store(t)

Next ==
    \/ \E t \in Threads, r \in Requests : Request(t, r)
    \/ \E t \in Threads : Step(t)
    \/ Restart

Spec == Init /\ [][Next]_vars

-----------------------------------------------------------------------------
(* The result of thread t's call, if it was a successful convert, and    *)
(* whether it was KEY_REQUIRES_UPGRADE.                                    *)
ConvertResult(t) ==
    th[t].req.op = "convert" /\ th[t].res = "ok" =>
       /\ th[t].eph = fw
       /\ th[t].upg = IF th[t].req.ver < fw THEN fw ELSE 0

UpgradeRecovered(t) == th[t].res # "KEY_REQUIRES_UPGRADE"

(* convert_storage_key_to_ephemeral that succeeds returns an ephemeral key *)
(* derived from a blob of the current firmware, and returns an upgraded    *)
(* blob exactly when the caller's blob was of an older firmware -- so a    *)
(* caller that stores what it is given never keeps a stale blob.           *)
ConvertReturnsCurrent == \A t \in Threads : ConvertResult(t)

(* KEY_REQUIRES_UPGRADE is recovered inside keystore2 (spec.md 7, error    *)
(* kind 4): no generate_key, import_key, import_wrapped_key or            *)
(* convert_storage_key_to_ephemeral call returns it to its caller, the     *)
(* single upgrade-and-retry always sufficing.                              *)
UpgradeRequiredRecovered == \A t \in Threads : UpgradeRecovered(t)

(* The facts the two invariants rest on, per thread: a call in progress    *)
(* has no result yet; a convert in progress holds the caller's blob, or    *)
(* after its one upgrade the current one, and the caller's blob is no      *)
(* newer than the firmware, and older when it is being upgraded; a call    *)
(* that has upgraded is past the upgrade and, back at KeyMint, hands it a *)
(* current blob.                                                           *)
BusyNoResult(t) == pc[t] # "idle" => th[t].res = "none"

ConvertState(t) ==
    th[t].req.op = "convert" /\ pc[t] # "idle" =>
       /\ pc[t] \in {"validate", "perm", "km", "upgrade"}
       /\ th[t].req.ver <= fw
       /\ pc[t] = "upgrade" => th[t].req.ver < fw
       /\ IF th[t].upgraded
            THEN th[t].blob = fw /\ th[t].upg = fw /\ th[t].req.ver < fw
            ELSE th[t].blob = th[t].req.ver /\ th[t].upg = 0

UpgradedState(t) ==
    th[t].upgraded =>
       /\ pc[t] \in {"idle", "km", "store"}
       /\ pc[t] = "km" => th[t].blob = fw

ThreadInv(t) ==
    /\ BusyNoResult(t)
    /\ ConvertState(t)
    /\ UpgradedState(t)
    /\ ConvertResult(t)
    /\ UpgradeRecovered(t)

IInv == TypeOK /\ \A t \in Threads : ThreadInv(t)
=============================================================================
