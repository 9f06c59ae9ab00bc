--------------------------- MODULE MCAuditExports ---------------------------
(***************************************************************************)
(* Instances of the audit evidence for TLC: signed exports, the nightly     *)
(* digests and the listings.  They share no state a property relates, so a  *)
(* behaviour explores one of them, named by part.                           *)
(***************************************************************************)
EXTENDS AuditExports, AuditDigests, Listings

VARIABLE part
evidenceVars == <<part, exportVars, digestVars, listVars>>

AllExportFaults == ExportFaultKinds

EvidenceInit ==
  /\ part \in {"exports", "digests", "listings"}
  /\ ExportInit /\ DigestInit /\ ListInit
  /\ part # "listings" => stored = {}

EvidenceNext ==
  /\ UNCHANGED part
  /\ \/ part = "exports" /\ ExportNext /\ UNCHANGED <<digestVars, listVars>>
     \/ part = "digests" /\ DigestNext /\ UNCHANGED <<exportVars, listVars>>
     \/ part = "listings" /\ ListNext /\ UNCHANGED <<exportVars, digestVars>>

EvidenceSpec == EvidenceInit /\ [][EvidenceNext]_evidenceVars /\ ExportFairness /\ DigestFairness

\* Evidence comes about and stays: exports and nightly runs that were begun
\* end, a stored digest is never replaced, and "verified" is said only of the
\* rows it was made of (_generate_export, _run_for_all_tenants).
EvidenceLasts ==
    /\ GeneratingEnds
    /\ NightliesEnd
    /\ DigestKept
    /\ VerifiedIsUntouched
=============================================================================
