------------------------------- MODULE Billing -------------------------------
(***************************************************************************)
(* The billing projection: Stripe's webhooks are ledgered by event id,     *)
(* dispatched to a handler and folded into cached customers, subscriptions *)
(* and invoices; a subscription's status gates its tenant.  A transaction  *)
(* reads the tables, computes and writes back only the columns it changed, *)
(* so two that overlap can mix.  Sources: services/billing_webhooks.py,    *)
(* services/billing_service.py, utils/idempotent_event.py,                 *)
(* services/stripe_client.py, api/webhooks/stripe.py, api/v1/billing.py.   *)
(***************************************************************************)
EXTENDS Integers, FiniteSets, FiniteSetsExt

CONSTANTS
  Tenants,          \* the tenants, all active at first
  Events,           \* Stripe's events
  Histories,        \* sets of events one of which Stripe sends, in any order
  Event,            \* [Events -> record]: what each event says, below
  BillHandlers,     \* requests served at a time
  PricesConfigured, \* both prices are known to the application
  Grace,            \* settings.billing_grace_period_days
  MaxBillTime,      \* bound on the clock
  MaxBillFaults,    \* bound on failed requests
  MaxDuplicates     \* bound on deliveries of an acknowledged event

SubscriptionStatus ==
  {"incomplete", "trialing", "active", "past_due", "canceled", "unpaid", "paused"}
InvoiceStatus == {"draft", "open", "paid", "uncollectible", "void"}

(* What an event carries.  A field that it has not, or that its type does   *)
(* not use, is "none".                                                     *)
EventShape ==
  [type : {"checkout", "subscription", "deleted", "invoice", "invoice.paid",
           "invoice.failed", "customer.updated", "other"},
   signed : BOOLEAN, tenant : Tenants, cust : STRING, sub : STRING,
   status : STRING, inv : STRING, email : STRING]

InvoiceEvents == {"invoice", "invoice.paid", "invoice.failed"}

(* Stripe's invoices have one of the five statuses of its interface.       *)
ASSUME BillingAssumption ==
  /\ "none" \notin Events /\ "none" \notin Tenants
  /\ IsFiniteSet({Event[e].sub : e \in Events})
  /\ Event \in [Events -> EventShape]
  /\ \A e \in Events : Event[e].type \in InvoiceEvents => Event[e].status \in InvoiceStatus \cup {"none"}
  /\ Histories \subseteq SUBSET Events
  /\ PricesConfigured \in BOOLEAN
  /\ {Grace, MaxBillFaults, MaxDuplicates} \subseteq Nat
  /\ MaxBillTime \in Nat \ {0}

Subs == {Event[e].sub : e \in Events} \ {"none"}
Invoices == {Event[e].inv : e \in Events} \ {"none"}

VARIABLES
  sent,       \* the events Stripe sends in this behaviour
  tables,     \* the committed rows: cust, sub, inv, active
  ledger,     \* billing_events: the events recorded
  acked,      \* the events Stripe has had a 2xx answer for
  tx,         \* per handler: the transaction it is in
  opened,     \* tenants that created a checkout session
  billNow,    \* the clock, in days
  billFaults, \* failures so far
  duplicates, \* deliveries of acknowledged events so far
  applied,    \* how often an event's effect was committed
  fell,       \* when a subscription last became past due
  overlapped  \* two transactions have been open at once

billVars == <<sent, tables, ledger, acked, tx, opened, billNow, billFaults,
              duplicates, applied, fell, overlapped>>

SubRow(t, canceled, born) ==
  [tenant |-> t, status |-> "incomplete", since |-> 0, canceled |-> canceled, setup |-> FALSE,
   born |-> born]
NoSub == SubRow("none", FALSE, 0)
NoCustomer == [id |-> "none", email |-> "none"]
NoInvoice == [tenant |-> "none", status |-> "open", paidAt |-> FALSE]
Closed == [open |-> FALSE]

-----------------------------------------------------------------------------
(* The state machine of a subscription.  A time of 0 is a null column.     *)

(* ALLOWED_TRANSITIONS, of which the webhooks only log a breach.           *)
AllowedTransitions ==
  [s \in SubscriptionStatus |-> {s} \cup
     CASE s = "incomplete" -> {"trialing", "active", "canceled"}
       [] s = "trialing"   -> {"active", "past_due", "canceled"}
       [] s = "active"     -> {"past_due", "canceled", "paused", "unpaid"}
       [] s = "past_due"   -> {"active", "unpaid", "canceled"}
       [] s = "unpaid"     -> {"active", "canceled"}
       [] s = "paused"     -> {"active", "canceled"}
       [] s = "canceled"   -> {}]

(* The tables with one row written.                                        *)
WithCustomer(d, t, row) == [d EXCEPT !.cust[t] = row]
WithSub(d, s, row) == [d EXCEPT !.sub[s] = row]
WithInvoice(d, i, row) == [d EXCEPT !.inv[i] = row]
WithGate(d, t, b) == [d EXCEPT !.active[t] = b]

Gated(d, t, status) ==
  IF status = "canceled" THEN WithGate(d, t, FALSE)
  ELSE IF status \in {"active", "trialing"} THEN WithGate(d, t, TRUE)
  ELSE d

MovedTo(row, to) ==
  [tenant |-> row.tenant, status |-> to,
   since |-> IF to = "past_due" /\ row.status # to THEN billNow
             ELSE IF to = "active" THEN 0 ELSE row.since,
   canceled |-> row.canceled \/ to = "canceled", setup |-> row.setup, born |-> row.born]

TransitionStatus(d, s, to) ==
  Gated(WithSub(d, s, MovedTo(d.sub[s], to)), d.sub[s].tenant, to)

(* The row an upsert works on: the one there, or a new one.                *)
Upserted(d, t, s, canceled) ==
  IF d.sub[s].tenant = "none"
  THEN SubRow(t, canceled, 1 + Cardinality({r \in Subs : d.sub[r].tenant # "none"}))
  ELSE [d.sub[s] EXCEPT !.canceled = @ \/ canceled]

UpsertSubscription(d, t, s, status, canceled) ==
  LET row == Upserted(d, t, s, canceled)
      read == WithSub(d, s, row)
  IN IF status # row.status THEN TransitionStatus(read, s, status)
                            ELSE Gated(read, row.tenant, row.status)

UpsertCustomer(d, t, id, email) ==
  WithCustomer(d, t, [id |-> id, email |-> IF email = "none" THEN d.cust[t].email ELSE email])

UpsertInvoice(d, t, i, status) ==
  WithInvoice(d, i, [tenant |-> IF d.inv[i].tenant = "none" THEN t ELSE d.inv[i].tenant,
                     status |-> status, paidAt |-> d.inv[i].paidAt \/ status = "paid"])

(* get_subscription_by_tenant: the newest, or "none".                      *)
NewestSub(d, t) ==
  LET mine == {s \in Subs : d.sub[s].tenant = t}
  IN IF mine = {} THEN "none"
     ELSE CHOOSE s \in mine : \A r \in mine : d.sub[r].born <= d.sub[s].born

-----------------------------------------------------------------------------
(* The handlers, each from the tables it read to the tables it wants.      *)

ResolveTenant(d, cust) ==
  IF cust = "none" THEN {} ELSE {t \in Tenants : d.cust[t].id = cust}

(* The status an event says, or its type's default.                        *)
StatusOf(e) ==
  IF e.type = "deleted" THEN "canceled"
  ELSE IF e.status # "none" THEN e.status
  ELSE IF e.type = "subscription" THEN "incomplete" ELSE "open"

HandleCheckout(d, e) ==
  LET withCustomer == IF e.cust = "none" THEN d ELSE UpsertCustomer(d, e.tenant, e.cust, e.email)
      withSub == UpsertSubscription(withCustomer, e.tenant, e.sub, "active", FALSE)
  IN IF e.sub = "none" THEN withCustomer
     ELSE WithSub(withSub, e.sub, [withSub.sub[e.sub] EXCEPT !.setup = TRUE])

(* The tenant of the customer, or else of the subscription.                *)
Owner(d, e) ==
  IF ResolveTenant(d, e.cust) # {} THEN ResolveTenant(d, e.cust)
  ELSE {d.sub[e.sub].tenant} \ {"none"}

HandleSubscription(d, e) ==
  IF e.sub = "none" \/ Owner(d, e) = {} THEN d
  ELSE UpsertSubscription(d, CHOOSE t \in Owner(d, e) : TRUE, e.sub, StatusOf(e), e.type = "deleted")

HandleInvoice(d, e) ==
  LET owner == ResolveTenant(d, e.cust)
      with == UpsertInvoice(d, CHOOSE t \in owner : TRUE, e.inv, StatusOf(e))
      known == e.sub # "none" /\ d.sub[e.sub].tenant # "none"
  IN IF e.inv = "none" \/ owner = {} THEN d
     ELSE IF known /\ e.type = "invoice.paid" THEN TransitionStatus(with, e.sub, "active")
     ELSE IF known /\ e.type = "invoice.failed" THEN TransitionStatus(with, e.sub, "past_due")
     ELSE with

HandleCustomerUpdated(d, e) ==
  [cust |-> [t \in Tenants |->
               IF d.cust[t].id = e.cust /\ e.cust # "none" /\ e.email # "none"
               THEN [id |-> e.cust, email |-> e.email] ELSE d.cust[t]],
   sub |-> d.sub, inv |-> d.inv, active |-> d.active]

Dispatch(d, e) ==
  IF e.type = "checkout" THEN HandleCheckout(d, e)
  ELSE IF e.type \in {"subscription", "deleted"} THEN HandleSubscription(d, e)
  ELSE IF e.type \in InvoiceEvents THEN HandleInvoice(d, e)
  ELSE IF e.type = "customer.updated" THEN HandleCustomerUpdated(d, e)
  ELSE d

(* Mutant: a transition outside the table is refused.                      *)
RaisesStrict(d, e) ==
  /\ e.type = "subscription" /\ e.sub # "none" /\ d.sub[e.sub].tenant # "none"
  /\ StatusOf(e) \notin AllowedTransitions[d.sub[e.sub].status]

(* transition_status raises on a status it does not know.                  *)
Raises(d, e) ==
  /\ e.type = "subscription" /\ StatusOf(e) \notin SubscriptionStatus
  /\ e.sub # "none" /\ Owner(d, e) # {}

(* apply_grace_period on the tenant's newest subscription.                 *)
Lapses(d, t) ==
  LET s == NewestSub(d, t)
  IN s # "none" /\ d.sub[s].status = "past_due" /\ d.sub[s].since # 0
            /\ billNow >= d.sub[s].since + Grace

-----------------------------------------------------------------------------
(* A transaction's writes: the columns it changed, over what is there now. *)

Column(now, read, wanted) == IF wanted # read THEN wanted ELSE now

Merged(now, read, wanted) ==
  [cust |-> [t \in Tenants |->
     LET C(f) == Column(now.cust[t][f], read.cust[t][f], wanted.cust[t][f])
     IN [id |-> C("id"), email |-> C("email")]],
   sub |-> [s \in Subs |->
     LET C(f) == Column(now.sub[s][f], read.sub[s][f], wanted.sub[s][f])
     IN [tenant |-> C("tenant"), status |-> C("status"), since |-> C("since"),
         canceled |-> C("canceled"), setup |-> C("setup"), born |-> C("born")]],
   inv |-> [i \in Invoices |->
     LET C(f) == Column(now.inv[i][f], read.inv[i][f], wanted.inv[i][f])
     IN [tenant |-> C("tenant"), status |-> C("status"), paidAt |-> C("paidAt")]],
   active |-> [t \in Tenants |-> Column(now.active[t], read.active[t], wanted.active[t])]]

(* It inserts a row whose unique key another one has inserted meanwhile,   *)
(* or gives a customer an id that another one has.                         *)
Conflict(now, read, wanted) ==
  LET Inserted(n, r, w) == n # "none" /\ r = "none" /\ w # "none"
  IN \/ \E t \in Tenants : Inserted(now.cust[t].id, read.cust[t].id, wanted.cust[t].id)
     \/ \E s \in Subs : Inserted(now.sub[s].tenant, read.sub[s].tenant, wanted.sub[s].tenant)
     \/ \E i \in Invoices : Inserted(now.inv[i].tenant, read.inv[i].tenant, wanted.inv[i].tenant)
     \/ \E t, u \in Tenants : /\ t # u /\ wanted.cust[t].id # read.cust[t].id
                              /\ wanted.cust[t].id = now.cust[u].id

Opens(h, event, wanted) ==
  /\ ~tx[h].open
  /\ tx' = [tx EXCEPT ![h] = [open |-> TRUE, event |-> event, day |-> billNow,
                                read |-> tables, wanted |-> wanted]]
  /\ overlapped' = (overlapped \/ \E g \in BillHandlers : tx[g].open)

BillInit ==
  /\ sent \in Histories
  /\ tables = [cust |-> [t \in Tenants |-> NoCustomer], sub |-> [s \in Subs |-> NoSub],
               inv |-> [i \in Invoices |-> NoInvoice], active |-> [t \in Tenants |-> TRUE]]
  /\ ledger = {} /\ acked = {} /\ opened = {}
  /\ tx = [h \in BillHandlers |-> Closed]
  /\ billNow = 1 /\ billFaults = 0 /\ duplicates = 0
  /\ applied = [e \in Events |-> 0]
  /\ fell = [s \in Subs |-> 0]
  /\ overlapped = FALSE

(* POST /billing/checkout: a session at Stripe, which may lead to events.  *)
CreateCheckout(t) ==
  /\ PricesConfigured /\ t \notin opened
  /\ opened' = opened \cup {t}
  /\ UNCHANGED <<sent, tables, ledger, acked, tx, billNow, billFaults, duplicates,
                 applied, fell, overlapped>>

VerifySignature(e) == Event[e].signed

(* Mutant: two deliveries of one event do not wait for each other.         *)
ClaimsUnlocked(e) == e \notin ledger

(* claim_event: a row there short-cuts; one being inserted makes it wait.  *)
Claims(e) ==
  /\ e \notin ledger
  /\ \A g \in BillHandlers : tx[g].open => tx[g].event # e

(* process_webhook up to the commit.                                       *)
ReceiveWebhook(h, e) ==
  /\ Event[e].tenant \in opened
  /\ VerifySignature(e) /\ Claims(e) /\ ~Raises(tables, Event[e])
  /\ Opens(h, e, Dispatch(tables, Event[e]))
  /\ UNCHANGED <<sent, tables, ledger, acked, opened, billNow, billFaults, duplicates,
                 applied, fell>>

(* A second delivery: answered already_processed.                          *)
Redelivered(e) ==
  /\ e \in ledger
  /\ e \in acked => duplicates < MaxDuplicates
  /\ duplicates' = duplicates + IF e \in acked THEN 1 ELSE 0
  /\ acked' = acked \cup {e}
  /\ UNCHANGED <<sent, tables, ledger, tx, opened, billNow, billFaults, applied, fell,
                 overlapped>>

(* The handler raises; mark_failed is rolled back with everything else.    *)
HandlerRaises(e) ==
  /\ Event[e].tenant \in opened /\ VerifySignature(e) /\ Claims(e)
  /\ Raises(tables, Event[e]) /\ billFaults < MaxBillFaults
  /\ billFaults' = billFaults + 1
  /\ UNCHANGED <<sent, tables, ledger, acked, tx, opened, billNow, duplicates, applied,
                 fell, overlapped>>

(* GET /billing/subscription, when it has something to write.              *)
GetSubscription(h, t) ==
  /\ Lapses(tables, t)
  /\ Opens(h, "none", TransitionStatus(tables, NewestSub(tables, t), "unpaid"))
  /\ UNCHANGED <<sent, tables, ledger, acked, opened, billNow, billFaults, duplicates,
                 applied, fell>>

(* The commit of get_db.  The answer may be lost: then Stripe asks again.  *)
Commits(h) ==
  /\ tx[h].open /\ ~Conflict(tables, tx[h].read, tx[h].wanted)
  /\ tables' = Merged(tables, tx[h].read, tx[h].wanted)
  /\ tx' = [tx EXCEPT ![h] = Closed]
  /\ fell' = [s \in Subs |-> IF /\ tables'.sub[s].status = "past_due"
                                /\ tables.sub[s].status # "past_due"
                             THEN tx[h].day ELSE fell[s]]
  /\ IF tx[h].event = "none" THEN UNCHANGED <<ledger, acked, applied, billFaults>>
     ELSE /\ ledger' = ledger \cup {tx[h].event}
          /\ applied' = [applied EXCEPT ![tx[h].event] = @ + 1]
          /\ \/ acked' = acked \cup {tx[h].event} /\ UNCHANGED billFaults
             \/ /\ billFaults < MaxBillFaults /\ billFaults' = billFaults + 1
                /\ UNCHANGED acked
  /\ UNCHANGED <<sent, opened, billNow, duplicates, overlapped>>

(* The rollback of get_db: a unique key, or a failure of the database.     *)
RollsBack(h) ==
  /\ tx[h].open
  /\ \/ Conflict(tables, tx[h].read, tx[h].wanted) /\ UNCHANGED billFaults
     \/ billFaults < MaxBillFaults /\ billFaults' = billFaults + 1
  /\ tx' = [tx EXCEPT ![h] = Closed]
  /\ UNCHANGED <<sent, tables, ledger, acked, opened, billNow, duplicates, applied, fell,
                 overlapped>>

BillDay ==
  /\ billNow < MaxBillTime
  /\ billNow' = billNow + 1
  /\ UNCHANGED <<sent, tables, ledger, acked, tx, opened, billFaults, duplicates, applied,
                 fell, overlapped>>

BillWorks ==
  \/ \E h \in BillHandlers : Commits(h) \/ RollsBack(h)
  \/ \E h \in BillHandlers, e \in sent : ReceiveWebhook(h, e)
  \/ \E e \in sent \ acked : Redelivered(e)

BillNext ==
  \/ BillWorks
  \/ \E t \in Tenants : CreateCheckout(t)
  \/ \E e \in sent : Redelivered(e) \/ HandlerRaises(e)
  \/ \E h \in BillHandlers, t \in Tenants : GetSubscription(h, t)
  \/ BillDay

(* Stripe sends an event again until it has an answer, and a request that  *)
(* was begun ends.                                                         *)
BillSpec == BillInit /\ [][BillNext]_billVars /\ WF_billVars(BillWorks)

-----------------------------------------------------------------------------
(* The tables keep their shape, and every subscription and every invoice   *)
(* belongs to a tenant.                                                    *)
BillingTypeOK ==
  /\ ledger \subseteq sent /\ acked \subseteq ledger /\ opened \subseteq Tenants
  /\ \A s \in Subs :
       /\ tables.sub[s].status \in SubscriptionStatus
       /\ tables.sub[s].since \in 0 .. MaxBillTime
       /\ tables.sub[s].tenant = "none" => tables.sub[s] = NoSub
  /\ \A i \in Invoices : /\ tables.inv[i].tenant \in Tenants \cup {"none"}
                          /\ tables.inv[i].status \in InvoiceStatus
  /\ tables.active \in [Tenants -> BOOLEAN]

(* However often an event is delivered, at once or again after a lost      *)
(* answer or a rollback, its effect is committed exactly once if it is in  *)
(* the ledger and not at all otherwise, and only signed events get there.  *)
LedgerExact ==
  \A e \in Events : applied[e] = IF e \in ledger /\ Event[e].signed THEN 1 ELSE 0

(* While transactions do not overlap, the grace period of a subscription   *)
(* that is past due counts from the day it became so, however many         *)
(* payments fail after that, and one that is active has no day to count.   *)
ClockFromFirstFailure ==
  ~overlapped => \A s \in Subs :
    /\ tables.sub[s].status = "past_due" => tables.sub[s].since = fell[s] /\ fell[s] # 0
    /\ tables.sub[s].status = "active" => tables.sub[s].since = 0

(* While transactions do not overlap, a tenant whose subscriptions have    *)
(* all been canceled is locked out, in whatever order the events came, and *)
(* one whose only subscription is active is let in.                        *)
GateFollowsStatus ==
  ~overlapped => \A t \in Tenants :
    LET mine == {s \in Subs : tables.sub[s].tenant = t}
        All(status) == mine # {} /\ \A s \in mine : tables.sub[s].status = status
    IN /\ All("canceled") => ~tables.active[t]
       /\ All("active") /\ Cardinality(mine) = 1 => tables.active[t]

(* Every signed event whose status the application knows is recorded in    *)
(* the end, for Stripe sends it again until it is answered.                *)
EventsRecorded ==
  []<>(\A e \in sent :
         /\ Event[e].tenant \in opened /\ Event[e].signed
         /\ Event[e].type = "subscription" => StatusOf(Event[e]) \in SubscriptionStatus
         => e \in ledger)

(* A canceled subscription stays canceled: the module's table of allowed   *)
(* transitions calls the status terminal.                                  *)
CanceledIsTerminal ==
  [][\A s \in Subs : tables.sub[s].status = "canceled" => tables'.sub[s].status = "canceled"]_billVars

\* Stripe's events take effect once, and access and grace follow from them
\* (process_webhook, transition_status).
BillingSound ==
    /\ BillingTypeOK
    /\ LedgerExact
    /\ ClockFromFirstFailure
    /\ GateFollowsStatus
=============================================================================
