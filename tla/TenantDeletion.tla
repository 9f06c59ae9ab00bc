--------------------------- MODULE TenantDeletion ----------------------------
(***************************************************************************)
(* The erasure of a tenant by a founder while its users, and operators who *)
(* act as it, still write.  The service reads the tenant, counts its rows  *)
(* table by table, deletes what it counted and then the tenant, whose      *)
(* foreign keys cascade, and leaves one system-level audit row.  Sources:  *)
(* services/tenant_deletion_service.py, api/cockpit/tenants.py,            *)
(* middleware/operator_act_as.py, models/operator.py.                      *)
(***************************************************************************)
EXTENDS Integers, FiniteSets, FiniteSetsExt

CONSTANTS
  ScopedTables, \* tables with a tenant_id column
  Founders,     \* founders who ask for the erasure
  Supporters,   \* operators who act as the tenant by a grant
  MaxRows       \* bound on rows written to a table

ASSUME DeletionAssumption ==
  MaxRows \in Nat /\ {"idle", "validated"} \cap ScopedTables = {}

VARIABLES
  tenantRow,  \* "active", "disabled" or "gone"
  grants,     \* operators with a grant for the tenant
  rows,       \* per table: the tenant's committed rows
  inserted,   \* per table: rows ever committed
  writer,     \* per operator: "idle", "validated", or the table it wrote to
  erasure,    \* per founder: how far the deletion has come
  receipts,   \* the tenant.deleted rows: what each says it removed
  removed,    \* per table: rows actually removed
  raced       \* a row was committed, or another erasure ran, during one

deletionVars == <<tenantRow, grants, rows, inserted, writer, erasure, receipts, removed,
                  raced>>

Zero == [n \in ScopedTables |-> 0]
NotErasing == [step |-> "idle", counts |-> Zero, left |-> {}]

DeletionInit ==
  /\ tenantRow = "active" /\ grants = Supporters
  /\ rows = Zero /\ inserted = Zero /\ removed = Zero
  /\ writer = [o \in Supporters |-> "idle"]
  /\ erasure = [f \in Founders |-> NotErasing]
  /\ receipts = {} /\ raced = FALSE

-----------------------------------------------------------------------------
(* _validate_act_as, in a session of its own, before the request runs.     *)
ValidateActAs(o) ==
  /\ writer[o] = "idle"
  /\ tenantRow = "active" /\ o \in grants
  /\ writer' = [writer EXCEPT ![o] = "validated"]
  /\ UNCHANGED <<tenantRow, grants, rows, inserted, erasure, receipts, removed, raced>>

(* The request inserts a row: the foreign key holds the tenant's row.      *)
Inserts(o, n) ==
  /\ writer[o] = "validated" /\ tenantRow # "gone" /\ inserted[n] < MaxRows
  /\ writer' = [writer EXCEPT ![o] = n]
  /\ UNCHANGED <<tenantRow, grants, rows, inserted, erasure, receipts, removed, raced>>

(* The tenant is gone: the foreign key refuses the insert.                 *)
InsertRefused(o) ==
  /\ writer[o] = "validated" /\ tenantRow = "gone"
  /\ writer' = [writer EXCEPT ![o] = "idle"]
  /\ UNCHANGED <<tenantRow, grants, rows, inserted, erasure, receipts, removed, raced>>

WriterCommits(o) ==
  /\ writer[o] \in ScopedTables
  /\ rows' = [rows EXCEPT ![writer[o]] = @ + 1]
  /\ inserted' = [inserted EXCEPT ![writer[o]] = @ + 1]
  /\ writer' = [writer EXCEPT ![o] = "idle"]
  /\ raced' = (raced \/ \E f \in Founders : erasure[f].step # "idle")
  /\ UNCHANGED <<tenantRow, grants, erasure, receipts, removed>>

-----------------------------------------------------------------------------
(* delete_tenant: the tenant is there and its slug was repeated.           *)
DeleteTenant(f) ==
  /\ erasure[f].step = "idle" /\ tenantRow # "gone"
  /\ erasure' = [erasure EXCEPT ![f] =
       [step |-> "delete", counts |-> Zero, left |-> ScopedTables]]
  /\ raced' = (raced \/ \E g \in Founders : erasure[g].step # "idle")
  /\ UNCHANGED <<tenantRow, grants, rows, inserted, writer, receipts, removed>>

(* _count_rows of one table.                                               *)
CountAll(n) == rows[n]

(* The tables are counted one statement after the other.                   *)
CountRows(f, n) ==
  LET e == erasure[f] IN
  /\ n \in e.left
  /\ erasure' = [erasure EXCEPT ![f] =
       [e EXCEPT !.counts = [e.counts EXCEPT ![n] = CountAll(n)], !.left = e.left \ {n}]]
  /\ UNCHANGED <<tenantRow, grants, rows, inserted, writer, receipts, removed, raced>>

(* Mutant: a table counted empty is skipped and nothing cascades.          *)
CascadeNothing(counts) == [n \in ScopedTables |-> IF counts[n] = 0 THEN rows[n] ELSE 0]

(* The foreign keys of the tenant's row: ON DELETE CASCADE.                *)
Cascade(counts) == Zero

(* The deletes, the tenant's row, which waits for writers that hold it,    *)
(* the audit row and the commit.                                           *)
DeleteRows(f) ==
  /\ erasure[f].step = "delete" /\ erasure[f].left = {}
  /\ tenantRow # "gone" => \A o \in Supporters : writer[o] \notin ScopedTables
  /\ rows' = Cascade(erasure[f].counts)
  /\ removed' = [n \in ScopedTables |-> removed[n] + rows[n]]
  /\ grants' = {}
  /\ tenantRow' = "gone"
  /\ receipts' = receipts \cup {[by |-> f, counts |-> erasure[f].counts]}
  /\ erasure' = [erasure EXCEPT ![f] = NotErasing]
  /\ UNCHANGED <<inserted, writer, raced>>

(* A failure anywhere before the commit takes the audit row back as well.  *)
EraseFails(f) ==
  /\ erasure[f].step # "idle"
  /\ erasure' = [erasure EXCEPT ![f] = NotErasing]
  /\ UNCHANGED <<tenantRow, grants, rows, inserted, writer, receipts, removed, raced>>

(* Billing disables the tenant; an administrator withdraws a grant.        *)
Withdraw ==
  /\ tenantRow # "gone"
  /\ \/ tenantRow' \in {"active", "disabled"} \ {tenantRow} /\ UNCHANGED grants
     \/ \E o \in grants : grants' = grants \ {o} /\ UNCHANGED tenantRow
  /\ UNCHANGED <<rows, inserted, writer, erasure, receipts, removed, raced>>

DeletionNext ==
  \/ \E o \in Supporters :
       \/ ValidateActAs(o) \/ InsertRefused(o) \/ WriterCommits(o)
       \/ \E n \in ScopedTables : Inserts(o, n)
  \/ \E f \in Founders :
       \/ DeleteTenant(f) \/ DeleteRows(f) \/ EraseFails(f)
       \/ \E n \in ScopedTables : CountRows(f, n)
  \/ Withdraw

DeletionSpec == DeletionInit /\ [][DeletionNext]_deletionVars

-----------------------------------------------------------------------------
(* Once the tenant is gone nothing of it is left, also not a row that was  *)
(* written while it was being deleted or the grant of an operator who was  *)
(* acting as it, and what is left instead is a record of the erasure.      *)
ErasureComplete ==
  tenantRow = "gone" =>
    /\ rows = Zero /\ grants = {}
    /\ \A o \in Supporters : writer[o] \notin ScopedTables
    /\ receipts # {}

(* When nothing was written and nobody else erased it meanwhile, the       *)
(* record counts exactly the rows that were removed.                       *)
ReceiptHonest ==
  ~raced => \A r \in receipts : r.counts = removed

(* The rows the record counts are the rows that were removed.              *)
ReceiptCountsMatch == \A r \in receipts : r.counts = removed

\* A deleted tenant is gone, whatever was written meanwhile, and the record of
\* its erasure is right when nothing was (delete_tenant).
DeletionSound ==
    /\ ErasureComplete
    /\ ReceiptHonest
=============================================================================
