--------------------------- MODULE ReceiptVerifier ---------------------------
(***************************************************************************)
(* The public verifier service beside the backend of SigningKeys.  A       *)
(* verification fetches the receipt, resolves the public key of the id     *)
(* stamped on it (the configured key, a cache with a time to live, the     *)
(* backend's registry) and checks the signature; other verifications run   *)
(* between the fetches, and either fetch can fail.  Sources:               *)
(* verifier/app/main.py, verifier/app/canonical.py, verifier/app/views.py, *)
(* api/v1/public_keys.py, api/v1/receipts.py.                              *)
(***************************************************************************)
EXTENDS SigningKeys

CONSTANTS
  Checks,         \* verifications in flight at a time
  StaticKey,      \* id whose PEM the verifier is configured with, or None
  PublicKeyTtl,   \* public_key_cache_ttl_sec
  PublicKeyMax,   \* _PUBLIC_KEY_CACHE_MAX
  MaxChecks       \* bound on verifications

ASSUME VerifierAssumption ==
  /\ {PublicKeyTtl, PublicKeyMax, MaxChecks} \subseteq Nat \ {0}
  /\ StaticKey \in 0 .. MaxSigningKeys

VARIABLES
  check,     \* per verification: where it is and what it holds
  publicKeys,\* the cached entries: [key, pem, ends]
  checks     \* verifications so far

verifierVars == <<check, publicKeys, checks>>
trustVars == <<keyVars, verifierVars>>

NotChecking == [at |-> "idle"]

VerifierInit ==
  /\ check = [c \in Checks |-> NotChecking]
  /\ publicKeys = {}
  /\ checks = 0

-----------------------------------------------------------------------------
Verdict(c, verdict) ==
  check' = [check EXCEPT ![c] = [@ EXCEPT !.at = "done", !.verdict = verdict]]

(* _fetch_receipt: the backend answers with the receipt's row, having      *)
(* verified it itself, with an error, or not at all.  An id without a row  *)
(* is 404.                                                                 *)
FetchReceipt(c, s, r, reachable) ==
  /\ check[c] = NotChecking /\ checks < MaxChecks
  /\ checks' = checks + 1
  /\ IF reachable /\ r \in DOMAIN receipts
     THEN /\ VerifyReceipt(s, r)
          /\ check' = [check EXCEPT ![c] =
               [at |-> "fetched", receipt |-> receipts[r], pem |-> None, verdict |-> ""]]
     ELSE /\ UNCHANGED keyVars
          /\ \E verdict \in IF reachable THEN {"not_found"} ELSE {"not_found", "error"} :
               check' = [check EXCEPT ![c] = [at |-> "done", verdict |-> verdict, receipt |-> None]]
  /\ UNCHANGED publicKeys

(* _cache_get drops an entry at the end of its time to live.               *)
CacheGet(k) == {e \in publicKeys : e.key = k /\ e.ends > keyNow}
Expired(k) == {e \in publicKeys : e.key = k /\ e.ends <= keyNow}

(* The configured key, or an entry that has not expired.                   *)
KnownPem(k) ==
  IF k = StaticKey THEN {k} ELSE {e.pem : e \in CacheGet(k)}

ResolveKnown(c) ==
  /\ check[c].at = "fetched"
  /\ \E pem \in KnownPem(check[c].receipt.key) :
       check' = [check EXCEPT ![c] = [@ EXCEPT !.at = "resolved", !.pem = pem]]
  /\ UNCHANGED <<publicKeys, checks, keyVars>>

(* The key has to be fetched: a lookup that misses forgets the entry that  *)
(* expired.                                                                *)
AskForKey(c) ==
  /\ check[c].at = "fetched" /\ KnownPem(check[c].receipt.key) = {}
  /\ check' = [check EXCEPT ![c].at = "asking"]
  /\ publicKeys' = publicKeys \ Expired(check[c].receipt.key)
  /\ UNCHANGED <<checks, keyVars>>

EvictsFrom == PublicKeyMax

(* _cache_put: a full cache loses the entry that would end first.          *)
CachePut(k, pem) ==
  LET full == Cardinality(publicKeys) >= EvictsFrom
      first == {e \in publicKeys : \A f \in publicKeys : e.ends <= f.ends} IN
  \E e \in IF full THEN first ELSE {[key |-> None]} :
    publicKeys' = {f \in publicKeys \ {e} : f.key # k}
                    \cup {[key |-> k, pem |-> pem, ends |-> keyNow + PublicKeyTtl]}

(* get_public_key serves every row, the revoked ones too.                  *)
FetchKey(c, reachable) ==
  LET k == check[c].receipt.key IN
  /\ check[c].at = "asking"
  /\ IF reachable /\ registry[k].pem # None
     THEN /\ check' = [check EXCEPT ![c] = [@ EXCEPT !.at = "resolved", !.pem = registry[k].pem]]
          /\ CachePut(k, registry[k].pem)
     ELSE Verdict(c, "error") /\ UNCHANGED publicKeys
  /\ UNCHANGED <<checks, keyVars>>

(* Mutant: a fault of the check is told as a bad signature.                *)
FaultIsInvalid(c) == {"invalid"}

(* What a failure inside the check is reported as.                         *)
FaultVerdict(c) == {"error"}

(* The signature is checked; an unexpected failure of the check is an      *)
(* error, not an invalid signature.                                        *)
CheckSignature(c) ==
  /\ check[c].at = "resolved"
  /\ \E verdict \in FaultVerdict(c)
                      \cup {IF VerifyCanonicalMatch(check[c].pem, check[c].receipt)
                            THEN "verified" ELSE "invalid"} :
       Verdict(c, verdict)
  /\ UNCHANGED <<publicKeys, checks, keyVars>>

(* The verdict is rendered as JSON, HTML, badge or card and forgotten.     *)
Render(c) ==
  /\ check[c].at = "done"
  /\ check' = [check EXCEPT ![c] = NotChecking]
  /\ UNCHANGED <<publicKeys, checks, keyVars>>

-----------------------------------------------------------------------------
VerifierNext ==
  \E c \in Checks :
    \/ \E s \in Servers, r \in 1 .. MaxReceipts, reachable \in BOOLEAN :
         FetchReceipt(c, s, r, reachable)
    \/ ResolveKnown(c) \/ AskForKey(c) \/ CheckSignature(c) \/ Render(c)
    \/ \E reachable \in BOOLEAN : FetchKey(c, reachable)

TrustInit == KeysInit /\ VerifierInit
TrustNext == (KeysNext /\ UNCHANGED verifierVars) \/ VerifierNext
TrustSpec == TrustInit /\ [][TrustNext]_trustVars

-----------------------------------------------------------------------------
(* A verdict is about the receipt and nothing else: "verified" means       *)
(* nobody altered it, "invalid" that somebody did, whatever was revoked,   *)
(* rotated, expired, evicted, unreachable or broken on the way.            *)
VerdictHonest ==
  \A c \in Checks : check[c].at = "done" =>
    /\ check[c].verdict = "verified" => check[c].receipt.intact
    /\ check[c].verdict = "invalid" => ~check[c].receipt.intact

(* The cache keeps one entry an id and never more than its limit, and no   *)
(* entry outlives its time to live, however fetches interleave.            *)
PublicKeysBounded ==
  /\ Cardinality(publicKeys) <= PublicKeyMax
  /\ \A e, f \in publicKeys : e.key = f.key => e = f
  /\ \A e \in publicKeys : e.ends <= keyNow + PublicKeyTtl

\* A receipt's verdict depends on the receipt alone: through rotations,
\* restarts, races, caches and outages, at the backend and at the public
\* verifier (verify_receipt, _run_rotate_signing_key,
\* perform_verification).
ReceiptsSound ==
    /\ KeysTypeOK
    /\ ReceiptsVerify
    /\ RotationsSpaced
    /\ VerdictHonest
    /\ PublicKeysBounded
=============================================================================
