------------------------------- MODULE MCTrust -------------------------------
(***************************************************************************)
(* Instances for TLC of what third parties rely on: the verifier's API     *)
(* keys, its limit by address, the rotation of the signing keys, the ages  *)
(* of the other secrets and the public verifier.  part names the one a     *)
(* behaviour explores: keys and addresses share nothing but the clock; the *)
(* verifier's behaviours begin in the middle of a rotation, with one       *)
(* worker still on the first key and a receipt of either key.              *)
(***************************************************************************)
EXTENDS VerifierQuota, ReceiptVerifier

VARIABLE part
mcTrustVars == <<part, quotaVars, trustVars>>

MCCapRequests == {-1, 0, 2}
MCLimits == <<[n |-> 2, window |-> 3], [n |-> 1, window |-> 1]>>

Rotated ==
  /\ env = [id |-> 2, next |-> None]
  /\ conf = [p \in Procs |-> IF p = CHOOSE w \in Signers : TRUE
                             THEN [id |-> 1, next |-> None] ELSE env]
  /\ registry = [k \in KeyIds |-> [pem |-> IF k <= 2 THEN k ELSE None,
                                   created |-> IF k <= 2 THEN k - 1 ELSE 0, revoked |-> FALSE]]
  /\ keyCache = [s \in Servers |-> [k \in KeyIds |-> IF k = 2 THEN 2 ELSE None]]
  /\ rotating = [w \in Signers |-> Off]
  /\ rotations = <<[new |-> 2, previous |-> 1, at |-> 1]>>
  /\ rotatedAt = None /\ alerts = {}
  /\ receipts = <<[key |-> 1, plain |-> FALSE, intact |-> TRUE, sig |-> [by |-> 1, over |-> "legacy"]],
                  [key |-> 2, plain |-> FALSE, intact |-> TRUE, sig |-> [by |-> 2, over |-> "rfc8785"]]>>
  /\ keyNow = 1 /\ operations = MaxOperations - 2

MCTrustInit ==
  /\ part \in {"quota", "address", "rotation", "ages", "verifier"}
  /\ QuotaInit /\ VerifierInit
  /\ part # "quota" => token = "agreed"
  /\ IF part = "verifier" THEN Rotated ELSE KeysInit

MCTrustNext ==
  /\ UNCHANGED part
  /\ \/ part = "quota" /\ UNCHANGED <<processes, trustVars>> /\ QuotaNext
     \/ part = "address" /\ UNCHANGED <<vkeys, trustVars>> /\ QuotaNext
     \/ /\ part = "rotation" /\ KeysNext /\ Len(receipts') <= 1
        /\ UNCHANGED <<quotaVars, verifierVars, rotatedAt, alerts>>
     \/ /\ part = "ages" /\ KeysNext
        /\ UNCHANGED <<quotaVars, verifierVars, env, registry, receipts>>
     \/ /\ part = "verifier" /\ TrustNext
        /\ UNCHANGED <<quotaVars, env, conf, rotating, rotatedAt, alerts>>

MCTrustSpec ==
  MCTrustInit /\ [][MCTrustNext]_mcTrustVars
              /\ WF_mcTrustVars(part = "quota" /\ QuotaWorks /\ UNCHANGED <<part, trustVars>>)
=============================================================================
