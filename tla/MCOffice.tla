------------------------------- MODULE MCOffice ------------------------------
(***************************************************************************)
(* Instances of the back office for TLC: billing, the operators' cockpit,  *)
(* the erasure of a tenant, the extraction of documents, the sessions with *)
(* the carrier portals and their monitor.  They share no state a property  *)
(* relates, so a behaviour explores one of them, named by part.            *)
(***************************************************************************)
EXTENDS Billing, Cockpit, TenantDeletion, Extractions, PortalSession, PortalMonitor

VARIABLE part
clerkVars == <<billVars, cockpitVars, deletionVars>>
carrierVars == <<extVars, portalVars, monitorVars>>
officeVars == <<part, clerkVars, carrierVars>>

Ev(type, status) ==
  [type |-> type, signed |-> TRUE, tenant |-> "t1", cust |-> "c1", sub |-> "s1",
   status |-> status, inv |-> "none", email |-> "none"]
Billed(type, status) == [Ev(type, status) EXCEPT !.inv = "i1"]

MCEvent ==
  [checkout |-> [Ev("checkout", "none") EXCEPT !.email = "a"],
   again    |-> [Ev("checkout", "none") EXCEPT !.sub = "s2"],
   expired  |-> Ev("subscription", "incomplete_expired"),
   stale    |-> Ev("subscription", "past_due"),
   deleted  |-> Ev("deleted", "none"),
   paid     |-> Billed("invoice.paid", "paid"),
   failed   |-> Billed("invoice.failed", "open"),
   refailed |-> Billed("invoice.failed", "open"),
   forged   |-> [Billed("invoice.paid", "paid") EXCEPT !.signed = FALSE],
   mail     |-> [Ev("customer.updated", "none") EXCEPT !.email = "b"]]
MCEvents == DOMAIN MCEvent
MCHistories ==
  {{"checkout", "failed", "refailed", "paid"}, {"checkout", "deleted", "paid", "stale"},
   {"checkout", "expired", "mail", "forged"}, {"checkout", "deleted", "again"}}

Policy(number, eff, exp) == [number |-> number, eff |-> eff, exp |-> exp]
Coi(insurer, policies) ==
  [kind |-> "coi", blob |-> "pdf", size |-> 1, pages |-> 1, insurer |-> insurer, policies |-> policies]
Eo(carrier, number, dates, eff, exp) ==
  [kind |-> "eo_certificate", blob |-> "pdf", size |-> 1, pages |-> 1, insurer |-> "known",
   carrier |-> carrier, number |-> number, dates |-> dates, eff |-> eff, exp |-> exp]
Lic(number, state, exp) ==
  [kind |-> "producer_license", blob |-> "pdf", size |-> 1, pages |-> 1, name |-> "line",
   number |-> number, state |-> state, dates |-> "below", eff |-> 2, exp |-> exp]
MCDocument ==
  [coi       |-> Coi("other", <<Policy(FALSE, 0, 3), Policy(TRUE, 1, 2)>>),
   reversed  |-> Coi("known", <<Policy(TRUE, 2, 2)>>),
   mentioned |-> Coi("mentioned", <<Policy(TRUE, 1, 2)>>),
   eo        |-> Eo("below", "line", "line", 1, 2),
   eoback    |-> Eo("below", "line", "line", 2, 1),
   loose     |-> Eo("line", "loose", "below", 1, 2),
   license   |-> Lic("below", "loose", 3),
   late      |-> Lic("line", "line", 1),
   locked    |-> [Coi("known", <<>>) EXCEPT !.blob = "encrypted"],
   blank     |-> [Coi("known", <<>>) EXCEPT !.pages = 0]]

MCDocuments == DOMAIN MCDocument

MCRegistered == <<"amtrust", "markel">>

OfficeInit ==
  /\ part \in {"billing", "cockpit", "deletion", "extraction", "portal", "monitor"}
  /\ BillInit /\ CockpitInit /\ DeletionInit /\ ExtInit /\ PortalInit /\ MonitorInit
  /\ part # "billing" => sent = {"checkout", "deleted", "again"}
  /\ part # "portal" => portal = "vertafore_sircon" /\ payload["npn"] = "none"

OfficeNext ==
  /\ UNCHANGED part
  /\ \/ part = "billing" /\ BillNext /\ UNCHANGED <<cockpitVars, deletionVars, carrierVars>>
     \/ part = "cockpit" /\ CockpitNext /\ UNCHANGED <<billVars, deletionVars, carrierVars>>
     \/ part = "deletion" /\ DeletionNext /\ UNCHANGED <<billVars, cockpitVars, carrierVars>>
     \/ part = "extraction" /\ ExtNext /\ UNCHANGED <<clerkVars, portalVars, monitorVars>>
     \/ part = "portal" /\ PortalNext /\ UNCHANGED <<clerkVars, extVars, monitorVars>>
     \/ part = "monitor" /\ MonitorNext /\ UNCHANGED <<clerkVars, extVars, portalVars>>

OfficeSpec ==
  /\ OfficeInit /\ [][OfficeNext]_officeVars
  /\ WF_officeVars(\/ part = "billing" /\ BillWorks /\ UNCHANGED <<part, cockpitVars, deletionVars, carrierVars>>
                   \/ part = "extraction" /\ ExtWorks /\ UNCHANGED <<part, clerkVars, portalVars, monitorVars>>)

\* What no step may do: bring a spent recovery code or a revoked session back
\* (refresh_operator_session, the endpoints of mfa.py), or page twice within a cooldown
\* for one outage (SmokeStateTracker.observe).
OfficeSteps ==
    /\ RevocationLasts
    /\ AlertsSpaced

\* Work that was taken gets done: Stripe's events are recorded in the end and
\* extractions leave "pending" (process_webhook, extract_document).
OfficeEnds ==
    /\ EventsRecorded
    /\ PendingEnds
=============================================================================
