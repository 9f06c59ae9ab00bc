------------------------ MODULE MCSubmissionPipeline ------------------------
(* Instances of SubmissionPipeline for TLC: the sets a .cfg cannot write.   *)
EXTENDS SubmissionPipeline, TLC

NoErrors == {}
AllErrors == PortalErrors
OnlyTransient == {"transient"}
OnlyPermanent == {"permanent"}

ApiOnly == {"api"}
AllEntries == {"api", "onboarding", "inbound"}

NoFaults == {}
OnlyCrashes == {"crash"}
AllFaults == FaultKinds
ServerFaults == FaultKinds \ {"standing"}

WorkerSymmetry == Permutations(Workers)
=============================================================================
