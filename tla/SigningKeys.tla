----------------------------- MODULE SigningKeys -----------------------------
(***************************************************************************)
(* The receipt-signing keys of the backend: settings every process reads   *)
(* once at its start, the registry of public keys, the yearly task that    *)
(* registers the next key before the operator cuts over, receipts signed   *)
(* by the workers, and their verification by the API servers, each with a  *)
(* cache of public keys that never expires.  A key pair and its public PEM *)
(* are one number; operators give every id its own pair.  Sources:         *)
(* services/receipt_signer.py, utils/crypto.py, utils/canonical_json.py,   *)
(* workers/tasks/key_rotation_tasks.py, services/key_rotation_service.py,  *)
(* api/v1/public_keys.py, api/v1/receipts.py, main.py.                     *)
(***************************************************************************)
EXTENDS Integers, FiniteSets, Sequences

CONSTANTS
  MaxSigningKeys, \* bound on key ids, numbered in the order of their use
  Servers,        \* API processes: they register and verify
  Signers,        \* worker processes: they sign and run the rotation task
  KeyMaxAge,      \* SIGNING_KEY_MAX_AGE_DAYS
  SecretMaxAge,   \* JWT_SECRET_MAX_AGE_DAYS
  MaxKeyTime,     \* bound on the clock
  MaxReceipts,    \* bound on receipts
  MaxOperations   \* bound on restarts, revocations, alterations and checks of ages

ASSUME KeysAssumption ==
  /\ {KeyMaxAge, SecretMaxAge, MaxReceipts, MaxOperations} \subseteq Nat
  /\ {MaxSigningKeys, MaxKeyTime} \subseteq Nat \ {0}

KeyIds == 1 .. MaxSigningKeys
Procs == Servers \cup Signers
None == 0
Off == [id |-> None, next |-> None]

VARIABLES
  env,         \* the deployed settings: id of the signing key and of the next
  conf,        \* per process: the settings it runs with
  registry,    \* signing_keys: pem (or None), created and revoked, per id
  keyCache,    \* per server: _PUBLIC_KEY_CACHE
  rotating,    \* per worker: the key its rotation task is about to insert
  rotations,   \* key_rotation_log, receipt_signing_key rows: new, previous, at
  rotatedAt,   \* key_rotation_log, last jwt_secret_key row: its time, or None
  alerts,      \* key_rotation.warn rows: the age they report
  receipts,    \* receipts in order: key id stamped, signature, payload
  keyNow,      \* the clock
  operations

keyVars == <<env, conf, registry, keyCache, rotating, rotations, rotatedAt, alerts,
             receipts, keyNow, operations>>

KeysInit ==
  /\ env = [id |-> 1, next |-> None]
  /\ conf = [p \in Procs |-> Off]
  /\ registry = [k \in KeyIds |-> [pem |-> None, created |-> 0, revoked |-> FALSE]]
  /\ keyCache = [s \in Servers |-> [k \in KeyIds |-> None]]
  /\ rotating = [w \in Signers |-> Off]
  /\ rotations = <<>> /\ rotatedAt = None /\ alerts = {}
  /\ receipts = <<>>
  /\ keyNow = 1 /\ operations = 0

Running(p) == conf[p] # Off
Operates == operations < MaxOperations /\ operations' = operations + 1

-----------------------------------------------------------------------------
(* Operators, outside the program: they put the next key's secret beside   *)
(* the current one, cut over once the next key is registered, and mark a   *)
(* key revoked.                                                            *)
StageNext ==
  /\ env.next = None /\ env.id < MaxSigningKeys
  /\ env' = [env EXCEPT !.next = env.id + 1]
  /\ UNCHANGED <<conf, registry, keyCache, rotating, rotations, rotatedAt, alerts,
                 receipts, keyNow, operations>>

Cutover ==
  /\ env.next # None /\ registry[env.next].pem # None
  /\ env' = [id |-> env.next, next |-> None]
  /\ UNCHANGED <<conf, registry, keyCache, rotating, rotations, rotatedAt, alerts,
                 receipts, keyNow, operations>>

RevokeSigningKey(k) ==
  /\ Operates /\ registry[k].pem # None
  /\ registry' = [registry EXCEPT ![k].revoked = TRUE]
  /\ UNCHANGED <<env, conf, keyCache, rotating, rotations, rotatedAt, alerts, receipts, keyNow>>

(* A server's start: bootstrap_signing_key caches the row of the           *)
(* configured key, revoked or not, and inserts it when there is none.  A   *)
(* bootstrap that fails is logged and the server runs without it.          *)
StartServer(s, reachable) ==
  LET k == env.id  row == registry[k].pem IN
  /\ Operates
  /\ conf' = [conf EXCEPT ![s] = env]
  /\ registry' = IF reachable /\ row = None
                 THEN [registry EXCEPT ![k] = [@ EXCEPT !.pem = k, !.created = keyNow]]
                 ELSE registry
  /\ keyCache' = [keyCache EXCEPT ![s] =
       [i \in KeyIds |-> IF ~reachable \/ i # k THEN None ELSE IF row # None THEN row ELSE k]]
  /\ UNCHANGED <<env, rotating, rotations, rotatedAt, alerts, receipts, keyNow>>

(* A worker's restart ends the task it was running.                        *)
StartSigner(w) ==
  /\ Operates
  /\ conf' = [conf EXCEPT ![w] = env]
  /\ rotating' = [rotating EXCEPT ![w] = Off]
  /\ UNCHANGED <<env, registry, keyCache, rotations, rotatedAt, alerts, receipts, keyNow>>

-----------------------------------------------------------------------------
(* The newest key that is not revoked; rows of one instant tie.            *)
Active ==
  LET live == {k \in KeyIds : registry[k].pem # None /\ ~registry[k].revoked} IN
  {k \in live : \A j \in live : registry[j].created <= registry[k].created}

(* _run_rotate_signing_key up to its insert: skipped below the threshold,  *)
(* handed off without a next key, ready when that key is registered.       *)
RotateReads(w) ==
  LET next == conf[w].next IN
  /\ Running(w) /\ rotating[w] = Off
  /\ \E active \in Active :
       /\ keyNow - registry[active].created >= KeyMaxAge
       /\ next # None /\ registry[next].pem = None
       /\ rotating' = [rotating EXCEPT ![w] = [id |-> active, next |-> next]]
  /\ UNCHANGED <<env, conf, registry, keyCache, rotations, rotatedAt, alerts, receipts,
                 keyNow, operations>>

(* derive_public_pem of the next private key.                              *)
NextPem(w) == rotating[w].next

(* The primary key refuses the second of two tasks.                        *)
Inserts(w) == registry[rotating[w].next].pem = None

(* The key, its rotation record and the audit row commit together or, when *)
(* another task was first, not at all.                                     *)
RotateCommits(w) ==
  LET next == rotating[w].next IN
  /\ rotating[w] # Off
  /\ rotating' = [rotating EXCEPT ![w] = Off]
  /\ IF Inserts(w)
     THEN /\ registry' = [registry EXCEPT ![next] = [@ EXCEPT !.pem = NextPem(w), !.created = keyNow]]
          /\ rotations' = Append(rotations, [new |-> next, previous |-> rotating[w].id, at |-> keyNow])
     ELSE UNCHANGED <<registry, rotations>>
  /\ UNCHANGED <<env, conf, keyCache, rotatedAt, alerts, receipts, keyNow, operations>>

(* The secrets that are rotated by hand: an operator records a rotation,   *)
(* and the daily task reports an age at or over the threshold, or none.    *)
RecordRotation ==
  /\ Operates
  /\ rotatedAt' = keyNow
  /\ UNCHANGED <<env, conf, registry, keyCache, rotating, rotations, alerts, receipts, keyNow>>

Overdue(age) == age = None \/ age - 1 >= SecretMaxAge

(* Ages are counted from 1, None standing for no history.                  *)
WarnSecretAge(w) ==
  LET age == IF rotatedAt = None THEN None ELSE keyNow - rotatedAt + 1 IN
  /\ Running(w) /\ Operates
  /\ alerts' = IF Overdue(age) THEN alerts \cup {age} ELSE alerts
  /\ UNCHANGED <<env, conf, registry, keyCache, rotating, rotations, rotatedAt, receipts, keyNow>>

-----------------------------------------------------------------------------
(* sign_receipt: the configured key signs the RFC 8785 bytes and its id is *)
(* stamped.  plain tells a payload both encoders write alike.  legacy is a *)
(* receipt of before the encoder was changed, of the first key.            *)
SignReceipt(w, plain, legacy) ==
  /\ Running(w) /\ Len(receipts) < MaxReceipts
  /\ legacy => conf[w].id = 1 /\ receipts = <<>>
  /\ receipts' = Append(receipts,
       [key |-> conf[w].id, plain |-> plain, intact |-> TRUE,
        sig |-> [by |-> conf[w].id,
                 over |-> IF plain THEN "same" ELSE IF legacy THEN "legacy" ELSE "rfc8785"]])
  /\ UNCHANGED <<env, conf, registry, keyCache, rotating, rotations, rotatedAt, alerts,
                 keyNow, operations>>

(* Someone alters the stored payload of a receipt.                         *)
Alter(r) ==
  /\ Operates /\ r \in DOMAIN receipts
  /\ receipts' = [receipts EXCEPT ![r].intact = FALSE]
  /\ UNCHANGED <<env, conf, registry, keyCache, rotating, rotations, rotatedAt, alerts, keyNow>>

(* verify_canonical_match: the RFC 8785 bytes, then the legacy ones when   *)
(* they differ, against the signature.                                     *)
VerifyCanonicalMatch(pem, receipt) ==
  /\ pem = receipt.sig.by /\ receipt.intact
  /\ receipt.sig.over \in IF receipt.plain THEN {"same"} ELSE {"rfc8785", "legacy"}

(* load_signing_key_into_cache: the cache, a row that is not revoked, the  *)
(* process's own key.                                                      *)
LoadSigningKey(s, k) ==
  CASE keyCache[s][k] # None -> keyCache[s][k]
    [] keyCache[s][k] = None /\ registry[k].pem # None /\ ~registry[k].revoked -> registry[k].pem
    [] OTHER -> IF k = conf[s].id THEN k ELSE None

Remembered(s, k) ==
  IF keyCache[s][k] = None /\ registry[k].pem # None /\ ~registry[k].revoked
  THEN registry[k].pem ELSE keyCache[s][k]

(* verify_receipt's answer; _verify_receipt_public reports it.             *)
BackendVerifies(s, r) ==
  LET pem == LoadSigningKey(s, receipts[r].key) IN
  pem # None /\ VerifyCanonicalMatch(pem, receipts[r])

VerifyReceipt(s, r) ==
  /\ Running(s) /\ r \in DOMAIN receipts
  /\ keyCache' = [keyCache EXCEPT ![s][receipts[r].key] = Remembered(s, receipts[r].key)]
  /\ UNCHANGED <<env, conf, registry, rotating, rotations, rotatedAt, alerts, receipts,
                 keyNow, operations>>

KeyTick ==
  /\ keyNow < MaxKeyTime
  /\ keyNow' = keyNow + 1
  /\ UNCHANGED <<env, conf, registry, keyCache, rotating, rotations, rotatedAt, alerts,
                 receipts, operations>>

-----------------------------------------------------------------------------
KeysNext ==
  \/ StageNext \/ Cutover \/ RecordRotation \/ KeyTick
  \/ \E k \in KeyIds : RevokeSigningKey(k)
  \/ \E s \in Servers, reachable \in BOOLEAN : StartServer(s, reachable)
  \/ \E w \in Signers :
       \/ StartSigner(w) \/ RotateReads(w) \/ RotateCommits(w) \/ WarnSecretAge(w)
       \/ \E plain, legacy \in BOOLEAN : SignReceipt(w, plain, legacy)
  \/ \E r \in 1 .. MaxReceipts : Alter(r) \/ \E s \in Servers : VerifyReceipt(s, r)

-----------------------------------------------------------------------------
(* Types.                                                                  *)
KeysTypeOK ==
  /\ conf \in [Procs -> [id : 0 .. MaxSigningKeys, next : 0 .. MaxSigningKeys]]
  /\ \A k \in KeyIds : registry[k].pem \in {None, k} /\ registry[k].created \in 0 .. MaxKeyTime
  /\ \A s \in Servers, k \in KeyIds : keyCache[s][k] \in {None, registry[k].pem}

(* The key is rotated under the receipts: through rolling restarts, a      *)
(* bootstrap that failed and tasks that raced, a receipt nobody altered    *)
(* verifies at every server while its key is not revoked, those of the     *)
(* earlier encoder included, and no altered receipt verifies anywhere.     *)
ReceiptsVerify ==
  \A s \in Servers, r \in DOMAIN receipts :
    /\ Running(s) /\ receipts[r].intact /\ ~registry[receipts[r].key].revoked
         => BackendVerifies(s, r)
    /\ ~receipts[r].intact => ~BackendVerifies(s, r)

(* The rotation task run twice, or by two workers at once, registers one   *)
(* key: every key has at most one rotation record, and two rotations lie   *)
(* KeyMaxAge apart unless the newer key was revoked in between.            *)
RotationsSpaced ==
  \A i, j \in DOMAIN rotations : i < j =>
    /\ rotations[i].new # rotations[j].new
    /\ rotations[j].at - rotations[i].at < KeyMaxAge => registry[rotations[i].new].revoked

(* "so historical receipts can still be verified": revocation of a key     *)
(* takes nothing from the receipts it signed.  The backend leaves revoked  *)
(* rows out of its lookup.                                                 *)
HistoricalReceiptsVerify ==
  \A s \in Servers, r \in DOMAIN receipts :
    Running(s) /\ receipts[r].intact /\ registry[receipts[r].key].pem # None
      => BackendVerifies(s, r)
=============================================================================
