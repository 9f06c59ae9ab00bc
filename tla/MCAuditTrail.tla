---------------------------- MODULE MCAuditTrail ----------------------------
(* Instances of AuditTrail for TLC: the sets a .cfg cannot write.           *)
EXTENDS AuditTrail

NoFaults == {}
AllFaults == {"database", "alter", "lose"}

AskedPositions == 1..5
=============================================================================
