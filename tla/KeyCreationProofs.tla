------------------------ MODULE KeyCreationProofs -------------------------
(***************************************************************************)
(* Proofs about the key-creation entry points of a KeystoreSecurityLevel,  *)
(* for every number of threads and aliases and every firmware bound: the   *)
(* state stays well typed, convert_storage_key_to_ephemeral returns a      *)
(* current key with the upgraded blob exactly when one was needed,         *)
(* and KEY_REQUIRES_UPGRADE never reaches a caller.                        *)
(***************************************************************************)
EXTENDS KeyCreation, TLAPS

USE KeyCreationAssumption

(* The default request of Init, and every request a client sends, are of  *)
(* type Req.                                                               *)
LEMMA SomeAlias == (CHOOSE a \in Aliases : TRUE) \in Aliases
BY KeyCreationAssumption

LEMMA OneFw == 1 \in Fw
BY DEF Fw

LEMMA RequestsType == Requests \subseteq Req
<1> DEFINE A == CHOOSE a \in Aliases : TRUE
<1>0. A \in Aliases BY SomeAlias DEF A
<1>1. [op : {"generate"}, domain : {"APP", "BLOB"}, alias : BOOLEAN, blob : {FALSE},
       attest : {"none", "user", "rkpd"}, alg : {"RSA"}, auxBlob : {FALSE},
       target : Aliases, aux : Aliases, ver : {1}] \subseteq Req
  BY OneFw DEF Req, Ops
<1>2. [op : {"import"}, domain : {"APP", "BLOB"}, alias : BOOLEAN, blob : {FALSE},
       attest : {"none"}, alg : {"AES", "RSA", "OTHER"}, auxBlob : {FALSE},
       target : Aliases, aux : {A}, ver : {1}] \subseteq Req
  BY <1>0, OneFw DEF Req, Ops
<1>3. [op : {"wrapped"}, domain : {"APP", "SELINUX", "BLOB"}, alias : BOOLEAN,
       blob : BOOLEAN, attest : {"none"}, alg : {"AES"}, auxBlob : BOOLEAN,
       target : Aliases, aux : Aliases, ver : {1}] \subseteq Req
  BY OneFw DEF Req, Ops
<1>4. [op : {"convert", "delete"}, domain : {"APP", "BLOB"}, alias : {FALSE},
       blob : BOOLEAN, attest : {"none"}, alg : {"AES"}, auxBlob : {FALSE},
       target : {A}, aux : {A}, ver : Fw] \subseteq Req
  BY <1>0 DEF Req, Ops
<1>5. QED BY <1>1, <1>2, <1>3, <1>4 DEF Requests

LEMMA RequestsNonEmpty == (CHOOSE r \in Requests : TRUE) \in Requests
<1>1. [op |-> "generate", domain |-> "APP", alias |-> TRUE, blob |-> FALSE,
       attest |-> "none", alg |-> "RSA", auxBlob |-> FALSE,
       target |-> CHOOSE a \in Aliases : TRUE, aux |-> CHOOSE a \in Aliases : TRUE,
       ver |-> 1] \in Requests
  BY SomeAlias DEF Requests
<1>2. QED BY <1>1

(* In Init no call is in progress.                                         *)
LEMMA InitIInv == Init => IInv
<1> SUFFICES ASSUME Init PROVE IInv OBVIOUS
<1>1. TypeOK
  <2>1. fw \in Fw /\ rkpd \in Fw BY OneFw DEF Init
  <2>2. db \in [Aliases -> 0..MaxFw]
    <3>1. 0..1 \subseteq 0..MaxFw BY KeyCreationAssumption
    <3>2. db \in [Aliases -> 0..1] BY DEF Init
    <3>3. QED BY <3>1, <3>2
  <2>3. keyLock \in [Aliases -> Threads \cup {NoThread}] /\ pc \in [Threads -> PCs]
    BY DEF Init, PCs
  <2>4. th \in [Threads -> Call]
    <3>1. (CHOOSE r \in Requests : TRUE) \in Requests BY RequestsNonEmpty
    <3>2. 0 \in 0..MaxFw BY KeyCreationAssumption
    <3>3. [req |-> CHOOSE r \in Requests : TRUE, blob |-> 0, guard |-> FALSE,
           upgraded |-> FALSE, eph |-> 0, upg |-> 0, res |-> "none"] \in Call
      BY <3>1, <3>2 DEF Call, Results
    <3>4. QED BY <3>3 DEF Init
  <2>5. QED BY <2>1, <2>2, <2>3, <2>4 DEF TypeOK
<1>2. \A t \in Threads : ThreadInv(t)
  BY DEF Init, ThreadInv, BusyNoResult, ConvertState, UpgradedState,
         ConvertResult, UpgradeRecovered
<1>3. QED BY <1>1, <1>2 DEF IInv

-----------------------------------------------------------------------------
(* What the requests of each operation carry: a convert names no           *)
(* attestation key, and every request's aliases are aliases.               *)
LEMMA RequestFields ==
    ASSUME NEW r \in Requests
    PROVE  /\ r.op \in Ops
           /\ r.target \in Aliases /\ r.aux \in Aliases
           /\ r.ver \in Fw
           /\ r.op = "convert" => r.attest = "none"
BY RequestsType DEF Requests, Req

(* Where a call goes after its permission check.                           *)
LEMMA AfterPermPc ==
    ASSUME NEW r \in Requests
    PROVE  /\ AfterPerm(r) \in {"attest", "params", "loadWrap", "km"}
           /\ r.op = "convert" => AfterPerm(r) = "km"
BY RequestFields DEF AfterPerm, Ops

(* A thread whose variables a step leaves alone keeps its facts.           *)
LEMMA FrameThread ==
    ASSUME NEW s \in Threads, ThreadInv(s),
           th'[s] = th[s], pc'[s] = pc[s], fw' = fw
    PROVE  ThreadInv(s)'
BY DEF ThreadInv, BusyNoResult, ConvertState, UpgradedState, ConvertResult,
       UpgradeRecovered

(* A thread that returns keeps its facts when its result is neither        *)
(* KEY_REQUIRES_UPGRADE nor a wrong convert result.                        *)
LEMMA IdleThread ==
    ASSUME NEW t \in Threads, pc'[t] = "idle",
           UpgradeRecovered(t)', ConvertResult(t)'
    PROVE  ThreadInv(t)'
BY DEF ThreadInv, BusyNoResult, ConvertState, UpgradedState

(* Leaving a call releases the KeyIdGuards the thread holds.               *)
LEMMA LeaveType ==
    ASSUME TypeOK, NEW t \in Threads, Leave(t)
    PROVE  /\ pc' \in [Threads -> PCs]
           /\ keyLock' \in [Aliases -> Threads \cup {NoThread}]
           /\ pc'[t] = "idle"
           /\ \A s \in Threads \ {t} : pc'[s] = pc[s]
BY DEF TypeOK, Leave, PCs

(* A failing call returns "error" and only changes its own thread.         *)
LEMMA FailStep ==
    ASSUME IInv, NEW t \in Threads, Fail(t), UNCHANGED <<fw, db, rkpd>>
    PROVE  IInv'
<1> USE DEF IInv
<1>1. /\ pc' \in [Threads -> PCs]
      /\ keyLock' \in [Aliases -> Threads \cup {NoThread}]
      /\ pc'[t] = "idle"
      /\ \A s \in Threads \ {t} : pc'[s] = pc[s]
  BY LeaveType DEF Fail
<1>2. th' = [th EXCEPT ![t].res = "error", ![t].guard = FALSE] BY DEF Fail
<1>3. th' \in [Threads -> Call]
  <2>1. th[t] \in Call BY DEF TypeOK
  <2>2. [th[t] EXCEPT !.res = "error", !.guard = FALSE] \in Call
    BY <2>1 DEF Call, Results
  <2>3. QED BY <1>2, <2>2 DEF TypeOK
<1>4. TypeOK' BY <1>1, <1>3 DEF TypeOK
<1>5. ThreadInv(t)'
  <2>1. th'[t].res = "error" BY <1>2 DEF TypeOK
  <2>2. QED BY <1>1, <2>1, IdleThread DEF UpgradeRecovered, ConvertResult
<1>6. ASSUME NEW s \in Threads \ {t} PROVE ThreadInv(s)'
  BY <1>1, <1>2, FrameThread DEF TypeOK
<1>7. QED BY <1>4, <1>5, <1>6

(* Moving a busy thread on to step p without touching its call keeps the   *)
(* facts, provided a convert stays on its own path and an upgraded call    *)
(* only moves to KeyMint with a current blob or to the store.              *)
LEMMA GotoStep ==
    ASSUME IInv, NEW t \in Threads, NEW p \in PCs \ {"idle"},
           Goto(t, p), UNCHANGED <<fw, db, rkpd>>,
           pc[t] # "idle",
           th[t].req.op = "convert" => p \in {"validate", "perm", "km", "upgrade"},
           th[t].upgraded => p \in {"km", "store"} /\ (p = "km" => th[t].blob = fw),
           p = "upgrade" /\ th[t].req.op = "convert" => th[t].req.ver < fw
    PROVE  IInv'
<1> USE DEF IInv
<1>1. pc' = [pc EXCEPT ![t] = p] /\ UNCHANGED <<keyLock, th>> BY DEF Goto, Move
<1>2. TypeOK' BY <1>1 DEF TypeOK
<1>3. ThreadInv(t)'
  BY <1>1 DEF TypeOK, ThreadInv, BusyNoResult, ConvertState, UpgradedState,
         ConvertResult, UpgradeRecovered
<1>4. ASSUME NEW s \in Threads \ {t} PROVE ThreadInv(s)'
  BY <1>1, FrameThread DEF TypeOK
<1>5. QED BY <1>2, <1>3, <1>4

(* Facts of a thread at a step before KeyMint: it has not upgraded.        *)
LEMMA NotUpgraded ==
    ASSUME IInv, NEW t \in Threads,
           pc[t] \in {"validate", "perm", "attest", "params", "format", "loadWrap", "upgrade"}
    PROVE  ~th[t].upgraded
BY DEF IInv, ThreadInv, UpgradedState

(* A call arrives on an idle thread.                                       *)
LEMMA RequestStep ==
    ASSUME IInv, NEW t \in Threads, NEW r \in Requests, Request(t, r)
    PROVE  IInv'
<1> USE DEF IInv
<1>1. r.ver \in Fw /\ r.target \in Aliases BY RequestFields
<1>2. (IF r.op \in {"convert", "delete"} THEN r.ver ELSE 0) \in 0..MaxFw
  BY <1>1 DEF Fw
<1>3. TypeOK' BY <1>2 DEF Request, TypeOK, Call, Results, PCs
<1>4. ThreadInv(t)'
  BY DEF Request, TypeOK, ThreadInv, BusyNoResult, ConvertState, UpgradedState,
         ConvertResult, UpgradeRecovered
<1>5. ASSUME NEW s \in Threads \ {t} PROVE ThreadInv(s)'
  BY FrameThread DEF Request, TypeOK
<1>6. QED BY <1>3, <1>4, <1>5

LEMMA ValidateStep == ASSUME IInv, NEW t \in Threads, Validate(t) PROVE IInv'
<1>1. ~th[t].upgraded BY NotUpgraded DEF Validate
<1>2. CASE Valid(th[t].req) BY <1>1, <1>2, GotoStep DEF Validate, PCs
<1>3. CASE ~Valid(th[t].req) BY <1>3, FailStep DEF Validate
<1>4. QED BY <1>2, <1>3

LEMMA PermissionStep == ASSUME IInv, NEW t \in Threads, Permission(t) PROVE IInv'
<1>1. ~th[t].upgraded BY NotUpgraded DEF Permission
<1>2. th[t].req \in Requests BY DEF IInv, TypeOK, Call
<1>3. CASE Fail(t) BY <1>3, FailStep DEF Permission
<1>4. CASE Goto(t, AfterPerm(th[t].req))
  BY <1>1, <1>2, <1>4, AfterPermPc, GotoStep DEF Permission, PCs
<1>5. QED BY <1>3, <1>4 DEF Permission

LEMMA ParamsStep == ASSUME IInv, NEW t \in Threads, Params(t) PROVE IInv'
<1>1. ~th[t].upgraded BY NotUpgraded DEF Params
<1>2. th[t].req.op # "convert"
  BY DEF Params, IInv, ThreadInv, ConvertState
<1>3. CASE Fail(t) BY <1>3, FailStep DEF Params
<1>4. CASE Goto(t, IF th[t].req.op = "import" THEN "format" ELSE "km")
  BY <1>1, <1>2, <1>4, GotoStep DEF Params, PCs
<1>5. QED BY <1>3, <1>4 DEF Params

LEMMA FormatStep == ASSUME IInv, NEW t \in Threads, Format(t) PROVE IInv'
<1>1. ~th[t].upgraded BY NotUpgraded DEF Format
<1>2. th[t].req.op # "convert"
  BY DEF Format, IInv, ThreadInv, ConvertState
<1>3. CASE th[t].req.alg = "OTHER" BY <1>3, FailStep DEF Format
<1>4. CASE th[t].req.alg # "OTHER" BY <1>1, <1>2, <1>4, GotoStep DEF Format, PCs
<1>5. QED BY <1>3, <1>4

(* Taking a key's KeyIdGuard and its blob: the attestation key of          *)
(* generate_key or the wrapping key of import_wrapped_key.                 *)
LEMMA LoadKeyStep ==
    ASSUME IInv, NEW t \in Threads, NEW a \in Aliases, NEW p \in {"params", "km"},
           pc[t] # "idle", th[t].req.op # "convert", ~th[t].upgraded,
           keyLock' = [keyLock EXCEPT ![a] = t],
           th' = [th EXCEPT ![t].blob = db[a], ![t].guard = TRUE],
           pc' = [pc EXCEPT ![t] = p],
           UNCHANGED <<fw, db, rkpd>>
    PROVE  IInv'
<1> USE DEF IInv
<1>1. TypeOK' BY DEF TypeOK, Call, PCs
<1>2. ThreadInv(t)'
  BY DEF TypeOK, ThreadInv, BusyNoResult, ConvertState, UpgradedState,
         ConvertResult, UpgradeRecovered
<1>3. ASSUME NEW s \in Threads \ {t} PROVE ThreadInv(s)'
  BY FrameThread DEF TypeOK
<1>4. QED BY <1>1, <1>2, <1>3

LEMMA AttestStep == ASSUME IInv, NEW t \in Threads, Attest(t) PROVE IInv'
<1> DEFINE r == th[t].req
<1>1. ~th[t].upgraded BY NotUpgraded DEF Attest
<1>2. r.op # "convert" BY DEF Attest, IInv, ThreadInv, ConvertState
<1>3. r.aux \in Aliases BY RequestFields DEF IInv, TypeOK, Call
<1>4. CASE Fail(t) BY <1>4, FailStep DEF Attest
<1>5. CASE /\ keyLock' = [keyLock EXCEPT ![r.aux] = t]
           /\ th' = [th EXCEPT ![t].blob = db[r.aux], ![t].guard = TRUE]
           /\ pc' = [pc EXCEPT ![t] = "params"]
  BY <1>1, <1>2, <1>3, <1>5, LoadKeyStep DEF Attest, PCs
<1>6. CASE /\ th' = [th EXCEPT ![t].blob = rkpd]
           /\ Move(t, "params")
  <2> USE DEF IInv
  <2>1. pc' = [pc EXCEPT ![t] = "params"] /\ UNCHANGED <<keyLock, fw, db, rkpd>>
    BY <1>6 DEF Move, Attest
  <2>2. TypeOK' BY <1>6, <2>1 DEF TypeOK, Call, PCs, Fw
  <2>3. ThreadInv(t)'
    BY <1>1, <1>2, <1>6, <2>1 DEF Attest, TypeOK, ThreadInv, BusyNoResult, ConvertState,
       UpgradedState, ConvertResult, UpgradeRecovered
  <2>4. ASSUME NEW s \in Threads \ {t} PROVE ThreadInv(s)'
    BY <1>6, <2>1, FrameThread DEF TypeOK
  <2>5. QED BY <2>2, <2>3, <2>4
<1>7. QED BY <1>4, <1>5, <1>6 DEF Attest

LEMMA LoadWrapStep == ASSUME IInv, NEW t \in Threads, LoadWrap(t) PROVE IInv'
<1> DEFINE a == th[t].req.aux
<1>1. ~th[t].upgraded BY NotUpgraded DEF LoadWrap
<1>2. th[t].req.op # "convert" BY DEF LoadWrap, IInv, ThreadInv, ConvertState
<1>3. a \in Aliases BY RequestFields DEF IInv, TypeOK, Call
<1>4. CASE Fail(t) BY <1>4, FailStep DEF LoadWrap
<1>5. CASE /\ keyLock' = [keyLock EXCEPT ![a] = t]
           /\ th' = [th EXCEPT ![t].blob = db[a], ![t].guard = TRUE]
           /\ pc' = [pc EXCEPT ![t] = "km"]
  BY <1>1, <1>2, <1>3, <1>5, LoadKeyStep DEF LoadWrap, PCs
<1>6. QED BY <1>4, <1>5 DEF LoadWrap

(* KeyMint answers KEY_REQUIRES_UPGRADE only to an old blob.               *)
LEMMA KmAnswersFacts ==
    ASSUME NEW t \in Threads, NEW a \in KmAnswers(t)
    PROVE  /\ a \in {"ok", "error", "KEY_REQUIRES_UPGRADE"}
           /\ a = "KEY_REQUIRES_UPGRADE" => th[t].blob < fw
           /\ a = "ok" /\ th[t].req.op = "convert" => ~(th[t].blob < fw)
BY DEF KmAnswers, UsesBlob

(* A call that has upgraded gets no second KEY_REQUIRES_UPGRADE: it hands  *)
(* KeyMint a current blob.                                                 *)
LEMMA NoSecondUpgrade ==
    ASSUME IInv, NEW t \in Threads, pc[t] = "km", th[t].upgraded,
           NEW a \in KmAnswers(t)
    PROVE  a # "KEY_REQUIRES_UPGRADE"
<1>1. th[t].blob = fw BY DEF IInv, ThreadInv, UpgradedState
<1>2. fw \in Nat BY DEF IInv, TypeOK, Fw
<1>3. QED BY <1>1, <1>2, KmAnswersFacts

(* The creating KeyMint calls of generate_key, import_key and              *)
(* import_wrapped_key.                                                     *)
LEMMA KmCreateStep ==
    ASSUME IInv, NEW t \in Threads, pc[t] = "km", th[t].req.op # "convert",
           KmCreate(t), UNCHANGED <<fw, db, rkpd>>
    PROVE  IInv'
<1> USE DEF IInv
<1>1. PICK a \in KmAnswers(t) :
        \/ /\ a = "ok"
           /\ pc' = [pc EXCEPT ![t] = "store"]
           /\ keyLock' = [x \in Aliases |-> IF keyLock[x] = t THEN NoThread ELSE keyLock[x]]
           /\ th' = [th EXCEPT ![t].guard = FALSE]
        \/ a = "error" /\ Fail(t)
        \/ /\ a = "KEY_REQUIRES_UPGRADE"
           /\ IF th[t].upgraded
                THEN /\ Leave(t)
                     /\ th' = [th EXCEPT ![t].res = a, ![t].guard = FALSE]
                ELSE Goto(t, "upgrade")
  BY DEF KmCreate
<1>2. CASE a = "ok"
  <2>1. /\ pc' = [pc EXCEPT ![t] = "store"]
        /\ keyLock' = [x \in Aliases |-> IF keyLock[x] = t THEN NoThread ELSE keyLock[x]]
        /\ th' = [th EXCEPT ![t].guard = FALSE]
    BY <1>1, <1>2
  <2>2. TypeOK' BY <2>1 DEF TypeOK, Call, PCs
  <2>3. ThreadInv(t)'
    BY <2>1 DEF TypeOK, ThreadInv, BusyNoResult, ConvertState, UpgradedState,
       ConvertResult, UpgradeRecovered
  <2>4. ASSUME NEW s \in Threads \ {t} PROVE ThreadInv(s)'
    BY <2>1, FrameThread DEF TypeOK
  <2>5. QED BY <2>2, <2>3, <2>4
<1>3. CASE a = "error" BY <1>1, <1>3, FailStep
<1>4. CASE a = "KEY_REQUIRES_UPGRADE"
  <2>1. ~th[t].upgraded BY <1>4, NoSecondUpgrade
  <2>2. Goto(t, "upgrade") BY <1>1, <1>4, <2>1
  <2>3. QED BY <2>1, <2>2, GotoStep DEF PCs
<1>5. QED BY <1>1, <1>2, <1>3, <1>4

LEMMA KmGenerateStep == ASSUME IInv, NEW t \in Threads, KmGenerate(t) PROVE IInv'
BY KmCreateStep DEF KmGenerate

LEMMA KmImportStep == ASSUME IInv, NEW t \in Threads, KmImport(t) PROVE IInv'
BY KmCreateStep DEF KmImport

LEMMA KmWrappedStep == ASSUME IInv, NEW t \in Threads, KmWrapped(t) PROVE IInv'
BY KmCreateStep DEF KmWrapped

(* convertStorageKeyToEphemeral succeeds only on a current blob: the       *)
(* caller's own one, then of the running firmware, or the upgraded one,    *)
(* which the response carries.                                             *)
LEMMA KmConvertStep == ASSUME IInv, NEW t \in Threads, KmConvert(t) PROVE IInv'
<1> USE DEF IInv
<1>1. /\ pc[t] = "km" /\ th[t].req.op = "convert"
      /\ UNCHANGED <<fw, db, rkpd>>
  BY DEF KmConvert
<1>2. PICK a \in KmAnswers(t) :
        \/ /\ a = "ok"
           /\ Leave(t)
           /\ th' = [th EXCEPT ![t].res = "ok", ![t].eph = th[t].blob]
        \/ a = "error" /\ Fail(t)
        \/ /\ a = "KEY_REQUIRES_UPGRADE"
           /\ IF th[t].upgraded
                THEN /\ Leave(t)
                     /\ th' = [th EXCEPT ![t].res = a]
                ELSE Goto(t, "upgrade")
  BY DEF KmConvert
<1>3. /\ th[t].req.ver <= fw
      /\ IF th[t].upgraded
           THEN th[t].blob = fw /\ th[t].upg = fw /\ th[t].req.ver < fw
           ELSE th[t].blob = th[t].req.ver /\ th[t].upg = 0
  BY <1>1 DEF ThreadInv, ConvertState
<1>4. fw \in Nat /\ th[t].req.ver \in Nat
  BY <1>1, RequestFields DEF TypeOK, Call, Fw
<1>5. CASE a = "ok"
  <2>1. Leave(t) /\ th' = [th EXCEPT ![t].res = "ok", ![t].eph = th[t].blob]
    BY <1>2, <1>5
  <2>2. /\ pc' \in [Threads -> PCs]
        /\ keyLock' \in [Aliases -> Threads \cup {NoThread}]
        /\ pc'[t] = "idle"
        /\ \A s \in Threads \ {t} : pc'[s] = pc[s]
    BY <2>1, LeaveType
  <2>3. th[t].blob = fw
    <3>1. ~(th[t].blob < fw) BY <1>1, <1>5, KmAnswersFacts
    <3>2. QED BY <1>3, <1>4, <3>1
  <2>4. th[t].upg = IF th[t].req.ver < fw THEN fw ELSE 0
    BY <1>3, <1>4, <2>3
  <2>5. TypeOK'
    <3>1. th[t] \in Call BY DEF TypeOK
    <3>2. [th[t] EXCEPT !.res = "ok", !.eph = th[t].blob] \in Call
      BY <3>1 DEF Call, Results
    <3>3. th' \in [Threads -> Call] BY <2>1, <3>2 DEF TypeOK
    <3>4. QED BY <1>1, <2>2, <3>3 DEF TypeOK
  <2>6. ThreadInv(t)'
    <3>1. th'[t].res = "ok" /\ th'[t].eph = fw /\ th'[t].upg = th[t].upg
          /\ th'[t].req = th[t].req
      BY <2>1, <2>3 DEF TypeOK
    <3>2. QED BY <1>1, <2>2, <2>4, <3>1, IdleThread DEF ConvertResult,
                 UpgradeRecovered
  <2>7. ASSUME NEW s \in Threads \ {t} PROVE ThreadInv(s)'
    BY <1>1, <2>1, <2>2, FrameThread DEF TypeOK
  <2>8. QED BY <2>5, <2>6, <2>7
<1>6. CASE a = "error" BY <1>1, <1>2, <1>6, FailStep
<1>7. CASE a = "KEY_REQUIRES_UPGRADE"
  <2>1. ~th[t].upgraded BY <1>1, <1>7, NoSecondUpgrade
  <2>2. Goto(t, "upgrade") BY <1>2, <1>7, <2>1
  <2>3. th[t].req.ver < fw
    <3>1. th[t].blob < fw BY <1>7, KmAnswersFacts
    <3>2. QED BY <1>3, <2>1, <3>1
  <2>4. QED BY <1>1, <2>1, <2>2, <2>3, GotoStep DEF PCs
<1>8. QED BY <1>2, <1>5, <1>6, <1>7

(* deleteKey returns its result and changes nothing else.                  *)
LEMMA KmDeleteStep == ASSUME IInv, NEW t \in Threads, KmDelete(t) PROVE IInv'
<1> USE DEF IInv
<1>1. /\ th[t].req.op = "delete" /\ Leave(t) /\ UNCHANGED <<fw, db, rkpd>>
  BY DEF KmDelete
<1>2. PICK a \in {"ok", "error"} : th' = [th EXCEPT ![t].res = a] BY DEF KmDelete
<1>3. /\ pc' \in [Threads -> PCs]
      /\ keyLock' \in [Aliases -> Threads \cup {NoThread}]
      /\ pc'[t] = "idle"
      /\ \A s \in Threads \ {t} : pc'[s] = pc[s]
  BY <1>1, LeaveType
<1>4. TypeOK' BY <1>1, <1>2, <1>3 DEF TypeOK, Call, Results
<1>5. ThreadInv(t)'
  <2>1. th'[t].res = a /\ th'[t].req.op = "delete" BY <1>1, <1>2 DEF TypeOK
  <2>2. QED BY <1>3, <2>1, IdleThread DEF ConvertResult, UpgradeRecovered
<1>6. ASSUME NEW s \in Threads \ {t} PROVE ThreadInv(s)'
  BY <1>1, <1>2, <1>3, FrameThread DEF TypeOK
<1>7. QED BY <1>4, <1>5, <1>6

(* The upgrade of a call's blob: the call goes back to KeyMint with a blob *)
(* of the running firmware; convert also keeps it to return.               *)
LEMMA UpgradeStep == ASSUME IInv, NEW t \in Threads, Upgrade(t) PROVE IInv'
<1> USE DEF IInv
<1> DEFINE r == th[t].req
<1>1. pc[t] = "upgrade" /\ ~th[t].upgraded BY NotUpgraded DEF Upgrade
<1>2. th[t].res = "none" BY <1>1 DEF ThreadInv, BusyNoResult
<1>3. r \in Requests BY DEF TypeOK, Call
<1>4. fw \in 0..MaxFw BY DEF TypeOK, Fw
<1>5. CASE r.op = "convert" /\ UpgradeConvert(t)
  <2>1. CASE Fail(t) BY <1>5, <2>1, FailStep DEF UpgradeConvert
  <2>2. CASE /\ th' = [th EXCEPT ![t].blob = fw, ![t].upgraded = TRUE, ![t].upg = fw]
             /\ Move(t, "km")
    <3>1. pc' = [pc EXCEPT ![t] = "km"] /\ UNCHANGED <<keyLock, fw, db, rkpd>>
      BY <1>5, <2>2 DEF Move, UpgradeConvert
    <3>2. TypeOK' BY <1>4, <2>2, <3>1 DEF TypeOK, Call, PCs
    <3>3. r.ver < fw BY <1>1, <1>5 DEF ThreadInv, ConvertState
    <3>4. r.ver <= fw BY <1>1, <1>5 DEF ThreadInv, ConvertState
    <3>5. ThreadInv(t)'
      BY <1>2, <1>5, <2>2, <3>1, <3>3, <3>4 DEF TypeOK, ThreadInv, BusyNoResult,
         ConvertState, UpgradedState, ConvertResult, UpgradeRecovered
    <3>6. ASSUME NEW s \in Threads \ {t} PROVE ThreadInv(s)'
      BY <2>2, <3>1, FrameThread DEF TypeOK
    <3>7. QED BY <3>2, <3>5, <3>6
  <2>3. QED BY <1>5, <2>1, <2>2 DEF UpgradeConvert
<1>6. CASE r.op = "generate" /\ r.attest = "rkpd" /\ UpgradeRkpd(t)
  <2>1. CASE Fail(t) /\ UNCHANGED rkpd BY <1>6, <2>1, FailStep DEF UpgradeRkpd
  <2>2. CASE /\ rkpd' = fw
             /\ th' = [th EXCEPT ![t].blob = fw, ![t].upgraded = TRUE]
             /\ Move(t, "km")
    <3>1. pc' = [pc EXCEPT ![t] = "km"] /\ UNCHANGED <<keyLock, fw, db>>
      BY <1>6, <2>2 DEF Move, UpgradeRkpd
    <3>2. TypeOK' BY <1>4, <2>2, <3>1 DEF TypeOK, Call, PCs
    <3>3. ThreadInv(t)'
      BY <1>2, <1>6, <2>2, <3>1 DEF TypeOK, ThreadInv, BusyNoResult,
         ConvertState, UpgradedState, ConvertResult, UpgradeRecovered
    <3>4. ASSUME NEW s \in Threads \ {t} PROVE ThreadInv(s)'
      BY <2>2, <3>1, FrameThread DEF TypeOK
    <3>5. QED BY <3>2, <3>3, <3>4
  <2>3. QED BY <1>6, <2>1, <2>2 DEF UpgradeRkpd
<1>7. CASE (r.op = "wrapped" \/ r.attest = "user") /\ UpgradeWrapped(t)
  <2>0. r.op # "convert" /\ r.aux \in Aliases BY <1>3, <1>7, RequestFields
  <2>1. CASE Fail(t) BY <1>7, <2>1, FailStep DEF UpgradeWrapped
  <2>2. CASE /\ th' = [th EXCEPT ![t].blob = fw, ![t].upgraded = TRUE, ![t].guard = FALSE]
             /\ keyLock' = [keyLock EXCEPT ![r.aux] = NoThread]
             /\ pc' = [pc EXCEPT ![t] = "km"]
    <3>1. UNCHANGED <<fw, db, rkpd>> BY <1>7 DEF UpgradeWrapped
    <3>2. TypeOK' BY <1>4, <2>0, <2>2, <3>1 DEF TypeOK, Call, PCs
    <3>3. ThreadInv(t)'
      BY <1>2, <2>0, <2>2, <3>1 DEF TypeOK, ThreadInv, BusyNoResult,
         ConvertState, UpgradedState, ConvertResult, UpgradeRecovered
    <3>4. ASSUME NEW s \in Threads \ {t} PROVE ThreadInv(s)'
      BY <2>2, <3>1, FrameThread DEF TypeOK
    <3>5. QED BY <3>2, <3>3, <3>4
  <2>3. QED BY <1>7, <2>1, <2>2 DEF UpgradeWrapped
<1>8. QED BY <1>5, <1>6, <1>7 DEF Upgrade

(* store_new_key binds the alias to a blob of the running firmware, or     *)
(* fails and leaves the database alone.                                    *)
LEMMA StoreStep == ASSUME IInv, NEW t \in Threads, Store(t) PROVE IInv'
<1> USE DEF IInv
<1> DEFINE r == th[t].req
<1>1. pc[t] = "store" /\ UNCHANGED <<fw, rkpd>> BY DEF Store
<1>2. r.op # "convert" BY <1>1 DEF ThreadInv, ConvertState
<1>3. r.target \in Aliases BY RequestFields DEF TypeOK, Call
<1>4. CASE Fail(t) /\ UNCHANGED db BY <1>1, <1>4, FailStep
<1>5. CASE /\ Leave(t)
           /\ th' = [th EXCEPT ![t].res = "ok"]
           /\ db' = IF r.domain = "BLOB" THEN db ELSE [db EXCEPT ![r.target] = fw]
  <2>1. /\ pc' \in [Threads -> PCs]
        /\ keyLock' \in [Aliases -> Threads \cup {NoThread}]
        /\ pc'[t] = "idle"
        /\ \A s \in Threads \ {t} : pc'[s] = pc[s]
    BY <1>5, LeaveType
  <2>2. db' \in [Aliases -> 0..MaxFw] BY <1>3, <1>5 DEF TypeOK, Fw
  <2>3. th' \in [Threads -> Call] BY <1>5 DEF TypeOK, Call, Results
  <2>4. ThreadInv(t)'
    <3>1. th'[t].res = "ok" /\ th'[t].req = r BY <1>5 DEF TypeOK
    <3>2. QED BY <1>2, <2>1, <3>1, IdleThread DEF ConvertResult, UpgradeRecovered
  <2>5. ASSUME NEW s \in Threads \ {t} PROVE ThreadInv(s)'
    BY <1>1, <1>5, <2>1, FrameThread DEF TypeOK
  <2>6. TypeOK' BY <1>1, <2>1, <2>2, <2>3 DEF TypeOK
  <2>7. QED BY <2>4, <2>5, <2>6
<1>6. QED BY <1>4, <1>5 DEF Store

(* A restart forgets every call; the firmware may have risen.              *)
LEMMA RestartStep == ASSUME IInv, Restart PROVE IInv'
<1> USE DEF IInv
<1>1. fw' \in Fw
  <2>1. fw \in Fw /\ fw' \in fw..MaxFw BY DEF Restart, TypeOK
  <2>2. QED BY <2>1 DEF Fw
<1>2. th' \in [Threads -> Call]
  <2>1. ASSUME NEW t \in Threads
        PROVE  [th[t] EXCEPT !.res = "none", !.guard = FALSE] \in Call
    <3>1. th[t] \in Call BY DEF TypeOK
    <3>2. QED BY <3>1 DEF Call, Results
  <2>2. QED BY <2>1 DEF Restart
<1>3. TypeOK' BY <1>1, <1>2 DEF Restart, TypeOK, PCs
<1>4. ASSUME NEW t \in Threads PROVE ThreadInv(t)'
  <2>1. pc'[t] = "idle" /\ th'[t].res = "none" BY DEF Restart, TypeOK, Call
  <2>2. QED BY <2>1, IdleThread DEF ConvertResult, UpgradeRecovered
<1>5. QED BY <1>3, <1>4

(* A stuttering step changes none of the variables IInv reads.            *)
LEMMA StutterStep == ASSUME IInv, UNCHANGED vars PROVE IInv'
BY DEF vars, IInv, TypeOK, ThreadInv, BusyNoResult, ConvertState,
       UpgradedState, ConvertResult, UpgradeRecovered

LEMMA NextStep == ASSUME IInv, [Next]_vars PROVE IInv'
<1>1. CASE \E t \in Threads, r \in Requests : Request(t, r) BY <1>1, RequestStep
<1>2. ASSUME NEW t \in Threads, Step(t) PROVE IInv'
  BY <1>2, ValidateStep, PermissionStep, AttestStep, ParamsStep, FormatStep,
     LoadWrapStep, KmGenerateStep, KmImportStep, KmWrappedStep, KmConvertStep,
     KmDeleteStep, UpgradeStep, StoreStep DEF Step
<1>3. CASE Restart BY <1>3, RestartStep
<1>4. CASE UNCHANGED vars BY <1>4, StutterStep
<1>5. QED BY <1>1, <1>2, <1>3, <1>4 DEF Next

(* IInv is an inductive invariant of the key-creation calls.               *)
THEOREM IInvThm == Spec => []IInv
BY InitIInv, NextStep, PTL DEF Spec

(* The state stays well typed: blobs, firmware and RKPD versions in range, *)
(* every KeyIdGuard held by a thread or by none.                           *)
THEOREM TypeCorrect == Spec => []TypeOK
BY IInvThm, PTL DEF IInv

(* convert_storage_key_to_ephemeral that succeeds returns an ephemeral key *)
(* of the running firmware, and the upgraded blob exactly when the         *)
(* caller's blob was older, for every firmware bound and thread count.     *)
THEOREM ConvertReturnsCurrentThm == Spec => []ConvertReturnsCurrent
<1>1. IInv => ConvertReturnsCurrent BY DEF IInv, ThreadInv, ConvertReturnsCurrent
<1>2. QED BY IInvThm, <1>1, PTL

(* No call returns KEY_REQUIRES_UPGRADE to its caller: the single upgrade  *)
(* and retry of upgrade_keyblob_if_required_with, of                       *)
(* upgrade_rkpd_keyblob_if_required_with and of convert always suffices.   *)
THEOREM UpgradeRequiredRecoveredThm == Spec => []UpgradeRequiredRecovered
<1>1. IInv => UpgradeRequiredRecovered
  BY DEF IInv, ThreadInv, UpgradeRequiredRecovered
<1>2. QED BY IInvThm, <1>1, PTL

=============================================================================
