-------------------------- MODULE SubmitterContract --------------------------
(***************************************************************************)
(* What the submission pipeline relies on when it calls a submitter: one   *)
(* attempt either ends before the portal has taken the form, or the portal *)
(* takes it once and the attempt then captures the confirmation or fails   *)
(* with an error of one of the three families the pipeline tells apart.    *)
(***************************************************************************)
CONSTANT Families   \* of errors: _classify_failure tells them apart

VARIABLES phase, family

Init == phase = "submit" /\ family = "none"

Files == phase = "submit" /\ phase' = "filed" /\ UNCHANGED family

Fails ==
    /\ phase \in {"submit", "filed"}
    /\ phase' = "failing"
    /\ family' \in Families

Captures == phase = "filed" /\ phase' = "sign" /\ UNCHANGED family

Next == Files \/ Fails \/ Captures

Spec == Init /\ [][Next]_<<phase, family>>
=============================================================================
