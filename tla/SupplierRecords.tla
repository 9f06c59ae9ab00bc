--------------------------- MODULE SupplierRecords ---------------------------
(***************************************************************************)
(* The records a tenant keeps about its suppliers: the suppliers           *)
(* themselves, producer licenses, E&O certificates, loss runs, risk        *)
(* schedules and ACORD forms.  Each endpoint is one transaction: it reads  *)
(* the row (or the supplier the row is for), lays the payload over what it *)
(* read, flushes the columns whose value changed, adds an audit row,       *)
(* validates the answer and commits.  Another request may commit between   *)
(* the read and the flush.                                                 *)
(*                                                                         *)
(* A behaviour is about records of one kind.  A row keeps the columns its  *)
(* kind has constraints or derived values for; dates and amounts are       *)
(* numbers and 0 is null.  A JSON document is the sequence of its values,  *)
(* and payload_sha256 an injection on documents.                           *)
(***************************************************************************)
EXTENDS Naturals, Sequences, FiniteSets

CONSTANTS
    Tenants,
    SupplierIds, RecordIds,     \* primary keys, as numbers
    FirstSuppliers,             \* the rows of suppliers at first
    FirstRecord,                \* by kind, a record there at first
    Inputs,                     \* by kind, the requests clients send
    MaxRequests                 \* bound: requests of a behaviour

VARIABLES
    kind,       \* the kind of record the behaviour is about
    rows,       \* the tables, by primary key
    trail,      \* audit_logs rows the endpoints wrote
    calls,      \* the requests, numbered as they arrive
    disturbed,  \* history: rows whose items two overlapping updates both changed
    retyped     \* history: rows given a document Python finds equal to theirs

recordVars == <<kind, rows, trail, calls, disturbed, retyped>>

Kinds == {"license", "certificate", "loss_run", "schedule", "form"}
NullJson == <<"null">>
Sha(doc) == <<"sha", doc>>

NoRow == [tenant |-> "none"]
NoInput == [kind |-> "none", op |-> "none", id |-> 0, tenant |-> "none", p |-> NoRow]
IdleCall == [pc |-> "idle", x |-> NoInput, loaded |-> NoRow, answer |-> 0]

Live == {i \in DOMAIN rows : rows[i] # NoRow}
FirstId == 1 + Cardinality(SupplierIds)
TableIds(k) == IF k = "supplier" THEN SupplierIds ELSE RecordIds

\* The columns of a row of each kind.
ColumnsOf(k) ==
    CASE k = "supplier"    -> {"tenant", "name"}
      [] k = "license"     -> {"tenant", "supplier", "key", "from", "to"}
      [] k = "certificate" -> {"tenant", "supplier", "from", "to", "coverage", "aggregate"}
      [] k = "loss_run"    -> {"tenant", "supplier", "from", "to"}
      [] k = "schedule"    -> {"tenant", "supplier", "from", "to", "content", "hash", "count"}
      [] k = "form"        -> {"tenant", "supplier", "from", "to", "content", "hash", "status", "next"}

\* Primary keys are fresh (_uuid), never those of a row that was deleted.
Unused(k) ==
    (TableIds(k) \ (DOMAIN FirstSuppliers \cup {FirstId}))
        \ {e.id : e \in {g \in trail : g.op = "create"}}

Payload(q) == calls[q].x.p
Given(p, f) == f \in DOMAIN p

\* model_dump(exclude_unset=True) laid over the attributes of the row.
Overlay(old, p) == [f \in DOMAIN old |-> IF Given(p, f) THEN p[f] ELSE old[f]]

\* What SQLAlchemy compares with == to decide that a column did not change:
\* in Python 1 == True, and so are lists and dicts of them.
PyEqual(f, a, b) == a = b \/ (f = "content" /\ {a, b} = {<<"1">>, <<"true">>})

\* The rows at first are in order, and a request names rows of its own table.
ASSUME RecordsAssumption ==
    /\ SupplierIds \cap RecordIds = {} /\ 0 \notin SupplierIds \cup RecordIds /\ FirstId \in RecordIds
    /\ DOMAIN FirstSuppliers \subseteq SupplierIds
    /\ \A i \in DOMAIN FirstSuppliers :
          DOMAIN FirstSuppliers[i] = ColumnsOf("supplier") /\ FirstSuppliers[i].tenant \in Tenants
    /\ \A k \in Kinds :
          /\ DOMAIN FirstRecord[k] = ColumnsOf(k)
          /\ FirstRecord[k].supplier \in DOMAIN FirstSuppliers
          /\ FirstRecord[k].tenant = FirstSuppliers[FirstRecord[k].supplier].tenant
          /\ k # "form" => FirstRecord[k].from # 0 /\ FirstRecord[k].to > FirstRecord[k].from
          /\ k \in {"schedule", "form"} =>
                FirstRecord[k].content # NullJson /\ FirstRecord[k].hash = Sha(FirstRecord[k].content)
          /\ k = "schedule" => FirstRecord[k].count = Len(FirstRecord[k].content)
          /\ k = "form" => FirstRecord[k].next = 0
    /\ \A k \in Kinds : \A x \in Inputs[k] :
          /\ x.kind \in {k, "supplier"} /\ x.op \in {"create", "update", "delete"}
          /\ x.id \in TableIds(x.kind) \cup {0} /\ x.tenant \in Tenants
          /\ Given(x.p, "supplier") => x.p.supplier \in SupplierIds

\* Documents RFC 8785 has no encoding for, such as an integer beyond 2^53.
Encodable(p) == Given(p, "content") => p.content # <<"huge">>

-----------------------------------------------------------------------------
(* What the request schemas accept.  Unknown fields are refused, and the     *)
(* supplier of a record is given when it is created and never after.        *)

Columns(op, p) == IF op = "create" THEN DOMAIN p \ {"supplier"} ELSE DOMAIN p

DatesOrdered(p) ==
    Given(p, "from") /\ Given(p, "to") /\ p.from # 0 /\ p.to # 0 => p.to > p.from

\* SupplierCreate, SupplierUpdate
SupplierValid(op, p) ==
    /\ DOMAIN p \subseteq {"name"}
    /\ op = "create" => Given(p, "name") /\ p.name # "null"

\* ProducerLicenseCreate, ProducerLicenseUpdate; "key" is (state, license_number).
LicenseValid(op, p) ==
    /\ Columns(op, p) \subseteq {"key", "from", "to"}
    /\ DatesOrdered(p)
    /\ op = "create" => DOMAIN p = {"supplier", "key", "from", "to"} /\ 0 \notin {p.from, p.to}

\* EOCertificateCreate, EOCertificateUpdate: only create compares the amounts.
CertificateValid(op, p) ==
    /\ Columns(op, p) \subseteq {"from", "to", "coverage", "aggregate"}
    /\ DatesOrdered(p)
    /\ op = "create" =>
         /\ DOMAIN p = {"supplier", "from", "to", "coverage", "aggregate"}
         /\ 0 \notin {p.from, p.to}
         /\ p.coverage # 0
         /\ p.aggregate = 0 \/ p.aggregate >= p.coverage

\* LossRunCreate, LossRunUpdate
LossRunValid(op, p) ==
    /\ Columns(op, p) \subseteq {"from", "to"}
    /\ DatesOrdered(p)
    /\ op = "create" => DOMAIN p = {"supplier", "from", "to"} /\ 0 \notin {p.from, p.to}

\* RiskScheduleCreate, RiskScheduleUpdate: the expiration may be null.
ScheduleValid(op, p) ==
    /\ Columns(op, p) \subseteq {"from", "to", "content"}
    /\ DatesOrdered(p)
    /\ op = "create" =>
         {"supplier", "from", "content"} \subseteq DOMAIN p /\ p.from # 0 /\ p.content # NullJson

\* AcordFormCreate, AcordFormUpdate: an empty payload is refused.
FormValid(op, p) ==
    /\ Columns(op, p) \subseteq {"from", "to", "content", "status", "next"}
    /\ DatesOrdered(p)
    /\ Given(p, "content") => p.content # <<>>
    /\ op = "create" => {"supplier", "content"} \subseteq DOMAIN p /\ p.content # NullJson

Valid(x) ==
    x.op # "delete" =>
      CASE x.kind = "supplier"       -> SupplierValid(x.op, x.p)
        [] x.kind = "license"        -> LicenseValid(x.op, x.p)
        [] x.kind = "certificate"    -> CertificateValid(x.op, x.p)
        [] x.kind = "loss_run"       -> LossRunValid(x.op, x.p)
        [] x.kind = "schedule"       -> ScheduleValid(x.op, x.p)
        [] x.kind = "form"           -> FormValid(x.op, x.p)

-----------------------------------------------------------------------------
(* The rows the services build. *)

SupplierCreated(t, p) == Overlay([tenant |-> t, name |-> "null"], p)
SupplierUpdated(old, p) == Overlay(old, p)

LicenseCreated(t, p) ==
    Overlay([tenant |-> t, supplier |-> 0, key |-> "null", from |-> 0, to |-> 0], p)
LicenseUpdated(old, p) == Overlay(old, p)

CertificateCreated(t, p) ==
    Overlay([tenant |-> t, supplier |-> 0, from |-> 0, to |-> 0, coverage |-> 0, aggregate |-> 0], p)
CertificateUpdated(old, p) == Overlay(old, p)

LossRunCreated(t, p) == Overlay([tenant |-> t, supplier |-> 0, from |-> 0, to |-> 0], p)
LossRunUpdated(old, p) == Overlay(old, p)

\* items_hash and item_count come from the items of the request.
ScheduleCreated(t, p) ==
    Overlay([tenant |-> t, supplier |-> 0, from |-> 0, to |-> 0, content |-> NullJson,
             hash |-> Sha(p.content), count |-> Len(p.content)], p)

\* Mutant: an update keeps the hash and the count of the earlier items.
ScheduleUpdatedItems(old, p) == Overlay(old, p)

ScheduleUpdated(old, p) ==
    LET row == Overlay(old, p)
    IN  IF Given(p, "content") /\ p.content # NullJson
        THEN Overlay(row, [hash |-> Sha(p.content), count |-> Len(p.content)])
        ELSE row

FormCreated(t, p) ==
    Overlay([tenant |-> t, supplier |-> 0, from |-> 0, to |-> 0, content |-> NullJson,
             hash |-> Sha(p.content), status |-> "draft", next |-> 0], p)

\* Naming a successor marks the form itself as superseded
\* (_mark_predecessor_superseded finds the row just updated).
FormUpdated(old, p) ==
    LET row == Overlay(old, p)
        hashed == IF Given(p, "content") /\ p.content # NullJson
                  THEN Overlay(row, [hash |-> Sha(p.content)]) ELSE row
    IN  IF Given(p, "next") /\ p.next # 0
        THEN Overlay(hashed, [status |-> "superseded"]) ELSE hashed

-----------------------------------------------------------------------------
(* What the tables accept, for a row with key i.  A column that is NOT NULL *)
(* refuses null; a JSON null is a value.                                    *)

LossRunHolds(i, row) == row.from # 0 /\ row.to > row.from

LicenseHolds(i, row) ==
    /\ row.key # "null" /\ row.from # 0 /\ row.to > row.from
    /\ \A j \in RecordIds \ {i} :
         rows[j] # NoRow => <<rows[j].tenant, rows[j].supplier, rows[j].key>>
                              # <<row.tenant, row.supplier, row.key>>

CertificateHolds(i, row) == row.from # 0 /\ row.to > row.from /\ row.coverage # 0
ScheduleHolds(i, row) == row.from # 0 /\ (row.to = 0 \/ row.to > row.from) /\ row.count >= 0
FormHolds(i, row) == row.next # 0 => row.next \in Live
SupplierHolds(i, row) == row.name # "null"

\* The foreign key to suppliers, of every table but suppliers.
SupplierKeyHolds(row) == "supplier" \in DOMAIN row => row.supplier \in Live

\* The constraints of the table that keeps records of kind k.
Holds(k, i, row) ==
    /\ SupplierKeyHolds(row)
    /\ CASE k = "supplier" -> SupplierHolds(i, row)
         [] k = "license" -> LicenseHolds(i, row)
         [] k = "certificate" -> CertificateHolds(i, row)
         [] k = "loss_run" -> LossRunHolds(i, row)
         [] k = "schedule" -> ScheduleHolds(i, row)
         [] k = "form" -> FormHolds(i, row)

\* Deleting a supplier deletes its records (ON DELETE CASCADE), deleting a
\* form clears the references to it (ON DELETE SET NULL).
Removed(i) == {j \in DOMAIN rows : j = i \/ ("supplier" \in DOMAIN rows[j] /\ rows[j].supplier = i)}
Without(i) ==
    [j \in DOMAIN rows |->
        CASE j \in Removed(i) -> NoRow
          [] j \notin Removed(i) /\ "next" \in DOMAIN rows[j] /\ rows[j].next \in Removed(i) ->
                [rows[j] EXCEPT !.next = 0]
          [] OTHER -> rows[j]]

-----------------------------------------------------------------------------
RecordsInit ==
    /\ kind \in Kinds
    /\ rows = [i \in SupplierIds \cup RecordIds |->
                 CASE i \in DOMAIN FirstSuppliers -> FirstSuppliers[i]
                   [] i = FirstId -> FirstRecord[kind]
                   [] OTHER -> NoRow]
    /\ trail = {}
    /\ calls = [q \in 1..MaxRequests |-> IdleCall]
    /\ disturbed = {}
    /\ retyped = {}

\* _assert_supplier_in_tenant
SupplierFound(x) == x.p.supplier \in Live /\ rows[x.p.supplier].tenant = x.tenant

\* get, get_supplier
RowFound(x) == x.id \in Live /\ rows[x.id].tenant = x.tenant

\* The reads a handler begins with; a request the schema refuses is a 422, and
\* one for a supplier or a row the tenant does not have a 404.
Receive(q, x) ==
    /\ calls[q].pc = "idle"
    /\ \A r \in 1..(q - 1) : calls[r].pc # "idle"
    /\ LET refusal ==
             IF ~Valid(x) THEN 422
             ELSE IF \/ x.op = "create" /\ x.kind # "supplier" /\ ~SupplierFound(x)
                     \/ x.op # "create" /\ ~RowFound(x) THEN 404
             ELSE IF ~Encodable(x.p) THEN 500 ELSE 0
       IN  calls' = [calls EXCEPT ![q] =
             [pc |-> IF refusal # 0 THEN "done" ELSE IF x.kind = "form" THEN "target" ELSE "write",
              x |-> x,
              loaded |-> IF refusal = 0 /\ x.op # "create" THEN rows[x.id] ELSE NoRow,
              answer |-> refusal]]
    /\ UNCHANGED <<kind, rows, trail, disturbed, retyped>>

\* _assert_supersede_target_in_tenant
TargetInTenant(t, i) == i \in RecordIds /\ i \in Live /\ rows[i].tenant = t

\* The request of call q is answered.
Answers(q, code) ==
    calls' = [calls EXCEPT ![q] =
        [pc |-> "done", x |-> calls[q].x, loaded |-> NoRow, answer |-> code]]

\* The successor a form's request names, checked unless the row has it
\* already; a form may not follow itself.
CheckTarget(q) ==
    LET x == calls[q].x
        asks == /\ x.op # "delete" /\ Given(x.p, "next") /\ x.p.next # 0
                /\ x.op = "create" \/ x.p.next # calls[q].loaded.next
        refused == asks /\ (x.p.next = x.id \/ ~TargetInTenant(x.tenant, x.p.next))
    IN  /\ calls[q].pc = "target"
        /\ IF refused THEN Answers(q, 422)
           ELSE calls' = [calls EXCEPT ![q].pc = "write"]
        /\ UNCHANGED <<kind, rows, trail, disturbed, retyped>>

\* The request raises and get_db rolls the session back.
Fails(q, code) ==
    /\ Answers(q, code)
    /\ UNCHANGED <<kind, rows, trail, disturbed, retyped>>

\* _audit and the commit of get_db: the row and its audit row together.
Commits(q, id, code) ==
    /\ Answers(q, code)
    /\ trail' = trail \cup {[q |-> q, op |-> calls[q].x.op, id |-> id, tenant |-> calls[q].x.tenant]}
    /\ UNCHANGED kind

At(q, k, op) == calls[q].pc = "write" /\ calls[q].x.kind = k /\ calls[q].x.op = op

\* The Read schemas: a null document is no document, and the endpoint raises.
Readable(row) == "content" \in DOMAIN row => row.content # NullJson

\* flush, refresh and answer of a create; "broken" is the answer an
\* IntegrityError leads to.
Insert(q, row, broken) ==
    \E i \in Unused(calls[q].x.kind) :
        /\ \A j \in Unused(calls[q].x.kind) : i <= j
        /\ IF Holds(calls[q].x.kind, i, row)
           THEN /\ Commits(q, i, 201)
                /\ rows' = [rows EXCEPT ![i] = row]
                /\ UNCHANGED <<disturbed, retyped>>
           ELSE Fails(q, broken)

\* History: the document of a row became another one.
Rewrites(old, new) == "content" \in DOMAIN old /\ new.content # old.content

\* flush, refresh and answer of an update: only columns that differ from what
\* was loaded are written.  A row deleted meanwhile makes the UPDATE or the
\* refresh fail.
Store(q, wanted, broken) ==
    LET i == calls[q].x.id
        loaded == calls[q].loaded
        row == [f \in DOMAIN wanted |->
                  IF PyEqual(f, loaded[f], wanted[f]) THEN rows[i][f] ELSE wanted[f]]
    IN  IF rows[i] = NoRow THEN Fails(q, 500)
        ELSE IF ~Holds(calls[q].x.kind, i, row) THEN Fails(q, broken)
        ELSE IF ~Readable(row) THEN Fails(q, 500)
        ELSE
          /\ Commits(q, i, 200)
          /\ rows' = [rows EXCEPT ![i] = row]
          /\ disturbed' = IF Rewrites(loaded, wanted) /\ Rewrites(loaded, rows[i])
                          THEN disturbed \cup {i} ELSE disturbed
          /\ retyped' = IF \E f \in DOMAIN wanted :
                             wanted[f] # loaded[f] /\ PyEqual(f, loaded[f], wanted[f])
                        THEN retyped \cup {i} ELSE retyped

\* flush and answer of a delete; a DELETE that matches no row is only warned of.
Erase(q) ==
    /\ Commits(q, calls[q].x.id, 204)
    /\ rows' = Without(calls[q].x.id)
    /\ UNCHANGED <<disturbed, retyped>>

-----------------------------------------------------------------------------
(* The writing half of the endpoints. *)

Caller(q) == calls[q].x.tenant
Loaded(q) == calls[q].loaded

CreateSupplier(q) ==
    At(q, "supplier", "create") /\ Insert(q, SupplierCreated(Caller(q), Payload(q)), 500)
UpdateSupplier(q) ==
    /\ At(q, "supplier", "update")
    /\ IF DOMAIN Payload(q) = {}
       THEN Commits(q, calls[q].x.id, 200) /\ UNCHANGED <<rows, disturbed, retyped>>
       ELSE Store(q, SupplierUpdated(Loaded(q), Payload(q)), 500)
DeleteSupplier(q) == At(q, "supplier", "delete") /\ Erase(q)

\* Every IntegrityError of a license is answered 409, license_already_exists.
CreateLicense(q) ==
    At(q, "license", "create") /\ Insert(q, LicenseCreated(Caller(q), Payload(q)), 409)
UpdateLicense(q) ==
    At(q, "license", "update") /\ Store(q, LicenseUpdated(Loaded(q), Payload(q)), 409)
DeleteLicense(q) == At(q, "license", "delete") /\ Erase(q)

CreateCertificate(q) ==
    At(q, "certificate", "create")
        /\ Insert(q, CertificateCreated(Caller(q), Payload(q)), 500)
UpdateCertificate(q) ==
    At(q, "certificate", "update")
        /\ Store(q, CertificateUpdated(Loaded(q), Payload(q)), 500)
DeleteCertificate(q) == At(q, "certificate", "delete") /\ Erase(q)

CreateLossRun(q) ==
    At(q, "loss_run", "create") /\ Insert(q, LossRunCreated(Caller(q), Payload(q)), 500)
UpdateLossRun(q) ==
    At(q, "loss_run", "update") /\ Store(q, LossRunUpdated(Loaded(q), Payload(q)), 500)
DeleteLossRun(q) == At(q, "loss_run", "delete") /\ Erase(q)

CreateSchedule(q) ==
    At(q, "schedule", "create") /\ Insert(q, ScheduleCreated(Caller(q), Payload(q)), 500)
UpdateSchedule(q) ==
    At(q, "schedule", "update") /\ Store(q, ScheduleUpdated(Loaded(q), Payload(q)), 500)
DeleteSchedule(q) == At(q, "schedule", "delete") /\ Erase(q)

CreateForm(q) ==
    At(q, "form", "create") /\ Insert(q, FormCreated(Caller(q), Payload(q)), 500)
UpdateForm(q) ==
    At(q, "form", "update") /\ Store(q, FormUpdated(Loaded(q), Payload(q)), 500)
DeleteForm(q) == At(q, "form", "delete") /\ Erase(q)

RecordsNext ==
    \E q \in 1..MaxRequests :
        \/ \E x \in Inputs[kind] : Receive(q, x)
        \/ CheckTarget(q)
        \/ CreateSupplier(q) \/ UpdateSupplier(q) \/ DeleteSupplier(q)
        \/ CreateLicense(q) \/ UpdateLicense(q) \/ DeleteLicense(q)
        \/ CreateCertificate(q) \/ UpdateCertificate(q) \/ DeleteCertificate(q)
        \/ CreateLossRun(q) \/ UpdateLossRun(q) \/ DeleteLossRun(q)
        \/ CreateSchedule(q) \/ UpdateSchedule(q) \/ DeleteSchedule(q)
        \/ CreateForm(q) \/ UpdateForm(q) \/ DeleteForm(q)

RecordsSpec == RecordsInit /\ [][RecordsNext]_recordVars

-----------------------------------------------------------------------------
Records == RecordIds \cap Live

\* Type invariant of the module.  A date a table declares NOT NULL is there,
\* though an update may ask for null and a form has no such column.
RecordsTypeOK ==
    /\ kind \in Kinds
    /\ \A i \in Live : rows[i].tenant \in Tenants
    /\ \A i \in Records : DOMAIN rows[i] = ColumnsOf(kind)
    /\ kind # "form" => \A i \in Records : rows[i].from # 0
    /\ \A q \in 1..MaxRequests :
         /\ calls[q].pc \in {"idle", "target", "write", "done"}
         /\ calls[q].answer \in {0, 200, 201, 204, 404, 409, 422, 500}
    /\ \A e \in trail : e.q \in 1..MaxRequests /\ e.id \in SupplierIds \cup RecordIds
    /\ disturbed \cup retyped \subseteq SupplierIds \cup RecordIds

\* Every record is kept by the tenant of the supplier it is for, and a form
\* follows only forms of its tenant that exist, though the supplier or the
\* successor may be deleted between the check and the write.
ReferencesInTenant ==
    \A i \in Records :
        /\ rows[i].supplier \in Live /\ rows[rows[i].supplier].tenant = rows[i].tenant
        /\ kind = "form" /\ rows[i].next # 0 =>
             /\ rows[i].next \in Records
             /\ rows[rows[i].next].tenant = rows[i].tenant

\* Updates that are each in order and overlap, or give one date alone, never
\* leave a window that ends before it begins, nor two licenses of a supplier
\* with one number (forms have no such constraint).
RowsConsistent ==
    /\ kind # "form" =>
         \A i \in Records : rows[i].to > rows[i].from \/ (kind = "schedule" /\ rows[i].to = 0)
    /\ kind = "license" =>
         \A i, j \in Records :
            rows[i].supplier = rows[j].supplier /\ rows[i].key = rows[j].key => i = j

\* The stored hash is the hash of the stored document, and the count the
\* number of its items: except in a row once given a document that Python
\* finds equal to the one it had (the document is then not written and its
\* hash is), and, for the count, in a row whose items two overlapping updates
\* both changed.  Other overlapping updates of a row do no harm.
DerivedFollowContent ==
    kind \in {"schedule", "form"} =>
        \A i \in Records \ retyped :
            /\ rows[i].hash = Sha(rows[i].content)
            /\ kind = "schedule" /\ i \notin disturbed => rows[i].count = Len(rows[i].content)

\* No row is stored that its own Read schema refuses, which every later GET
\* and every list holding it would answer with a 500: an update to null is
\* undone because the answer is validated before the commit.
RowsReadable ==
    \A i \in Records : kind \in {"schedule", "form"} => rows[i].content # NullJson

\* The audit trail explains the tables: it has one row for every request
\* answered 2xx and none for the others, a record is gone only if it or its
\* supplier was deleted, and no tenant appears in the trail of another's row.
TrailExplainsRows ==
    /\ {e.q : e \in trail} = {q \in 1..MaxRequests : calls[q].answer \in {200, 201, 204}}
    /\ \A e, g \in trail : e.q = g.q => e = g
    /\ \A i \in Live : i \in DOMAIN FirstSuppliers \/ i = FirstId
                         \/ \E e \in trail : e.op = "create" /\ e.id = i
    /\ \A e \in trail : e.op = "create" /\ e.id \notin Live =>
         \E g \in trail :
            /\ g.op = "delete"
            /\ g.id = e.id \/ (Given(Payload(e.q), "supplier") /\ g.id = Payload(e.q).supplier)
    /\ FirstId \notin Live =>
         \E g \in trail : g.op = "delete" /\ g.id \in {FirstId, FirstRecord[kind].supplier}
    /\ \A e \in trail : e.id \in DOMAIN FirstSuppliers => e.tenant = FirstSuppliers[e.id].tenant
    /\ \A e \in trail : e.id \in Live => e.tenant = rows[e.id].tenant

\* The tables of a tenant's records stay consistent, with each other, with
\* what is derived from them, with their schemas and with the audit trail,
\* under overlapping partial updates and deletions (the six services).
RecordsSound ==
    /\ RecordsTypeOK
    /\ ReferencesInTenant
    /\ RowsConsistent
    /\ DerivedFollowContent
    /\ RowsReadable
    /\ TrailExplainsRows
=============================================================================
