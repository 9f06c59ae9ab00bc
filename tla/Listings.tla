------------------------------ MODULE Listings -------------------------------
(***************************************************************************)
(* Reading a table page by page while it changes: the compliance export of *)
(* audit_logs (iter_audit_rows), the cursor pages of paginate, and the      *)
(* offset pages of paginate and GET /v1/audit.  Every page is a statement   *)
(* of its own and sees what is committed when it runs.                      *)
(*                                                                         *)
(* A row is its key <<created_at, id>>; two rows may share the time.  The   *)
(* filters of a listing keep the rows of a half-open window of time.        *)
(***************************************************************************)
EXTENDS Naturals, Sequences, FiniteSets

CONSTANTS
    Times, Ids,         \* keys are drawn from Times \X Ids
    WindowStart, WindowEnd,
    PageSize,           \* PAGE_SIZE of the export
    DefaultLimit, MaxLimit,
    Limits,             \* limits clients ask for; 0 stands for an absent one
    MaxChanges          \* bound: rows added or deleted during a behaviour

ASSUME ListingAssumption ==
    /\ Times \subseteq Nat /\ Ids \subseteq Nat
    /\ IsFiniteSet(Times) /\ IsFiniteSet(Ids)
    /\ PageSize \in Nat \ {0} /\ MaxLimit \in Nat /\ DefaultLimit \in 1..MaxLimit
    /\ Limits \subseteq Nat /\ MaxChanges \in Nat

VARIABLES
    stored,         \* rows of the table
    walk,           \* the reader
    changes         \* rows added or deleted so far

listVars == <<stored, walk, changes>>

Keys == Times \X Ids
Modes == {"export", "cursor", "offset"}
NoCursor == <<>>

\* "stayed" and "quiet" are history: the rows there all along, and whether
\* nothing changed since the walk began.
Walk == [mode: Modes \cup {"none"}, pc: {"idle", "reading", "done", "refused"},
         limit: 0..MaxLimit \cup {PageSize}, cursor: Keys \cup {NoCursor}, out: Seq(Keys),
         stayed: SUBSET Keys, quiet: BOOLEAN]
Begun(mode, pc, limit, rows) ==
    [mode |-> mode, pc |-> pc, limit |-> limit, cursor |-> NoCursor, out |-> <<>>,
     stayed |-> rows, quiet |-> TRUE]
NoWalk == Begun("none", "idle", 0, {})

ListTypeOK ==
    /\ stored \subseteq Keys
    /\ walk \in Walk
    /\ changes \in 0..MaxChanges

ListInit ==
    /\ stored \in SUBSET Keys
    /\ walk = NoWalk
    /\ changes = 0

\* (created_at, id), the id breaking ties.
Less(k, l) == k[1] < l[1] \/ (k[1] = l[1] /\ k[2] < l[2])

\* The rows the listing selects.
Selected == {k \in stored : k[1] >= WindowStart /\ k[1] < WindowEnd}

\* The first n of a set of rows in the order the listing reads them.
Ascends(mode) == mode = "export"
Before(mode, k, l) == IF Ascends(mode) THEN Less(k, l) ELSE Less(l, k)
Rank(mode, K, k) == Cardinality({l \in K : Before(mode, l, k)})
InOrder(mode, K) == [i \in 1..Cardinality(K) |-> CHOOSE k \in K : Rank(mode, K, k) = i - 1]
FirstOf(s, n) == SubSeq(s, 1, IF Len(s) < n THEN Len(s) ELSE n)

\* normalize_limit: 0 here for an absent value; out of range is a ValueError.
LimitOk(n) == n <= MaxLimit
normalize_limit(n) == IF n = 0 THEN DefaultLimit ELSE n

-----------------------------------------------------------------------------

\* A client asks for a listing; a limit out of range is refused.
BeginWalk(mode, n) ==
    /\ walk.pc = "idle"
    /\ walk' = IF LimitOk(n)
                 THEN Begun(mode, "reading", IF mode = "export" THEN PageSize ELSE normalize_limit(n), Selected)
                 ELSE Begun(mode, "refused", 0, {})
    /\ UNCHANGED <<stored, changes>>

\* Mutant: the time alone is compared.
BeyondTime(k) ==
    walk.cursor = NoCursor \/ (IF Ascends(walk.mode) THEN k[1] > walk.cursor[1] ELSE k[1] < walk.cursor[1])

\* Rows strictly beyond the boundary row of the page before.
Beyond(k) ==
    walk.cursor = NoCursor \/ Before(walk.mode, walk.cursor, k)

\* Adds a page to what the client has; the walk goes on from its last row.
Reads(page, more) ==
    /\ walk' = [mode |-> walk.mode, pc |-> IF more THEN "reading" ELSE "done", limit |-> walk.limit,
                cursor |-> IF page = <<>> THEN walk.cursor ELSE page[Len(page)],
                out |-> walk.out \o page, stayed |-> walk.stayed, quiet |-> walk.quiet]
    /\ UNCHANGED <<stored, changes>>

\* iter_audit_rows: a full page asks for another, which may be empty.
ExportPage ==
    LET page == FirstOf(InOrder("export", {k \in Selected : Beyond(k)}), PageSize) IN
    /\ walk.pc = "reading" /\ walk.mode = "export"
    /\ Reads(page, Len(page) = PageSize)

\* paginate in cursor mode reads one row more than the page; next_cursor is
\* there when that row is.
CursorPage ==
    LET rows == FirstOf(InOrder("cursor", {k \in Selected : Beyond(k)}), walk.limit + 1) IN
    /\ walk.pc = "reading" /\ walk.mode = "cursor"
    /\ Reads(FirstOf(rows, walk.limit), Len(rows) > walk.limit)

\* Offset pages: the client asks from where it is until it has the total.
OffsetPage ==
    LET rows == InOrder("offset", Selected)
        at == Len(walk.out)
        page == FirstOf(SubSeq(rows, at + 1, Len(rows)), walk.limit)
    IN
    /\ walk.pc = "reading" /\ walk.mode = "offset"
    /\ Reads(page, page # <<>> /\ at + Len(page) < Len(rows))

\* The client is done with the answer.
EndWalk ==
    /\ walk.pc \in {"done", "refused"}
    /\ walk' = NoWalk
    /\ UNCHANGED <<stored, changes>>

\* The table changed under the reader.
Unquiet(rows) ==
    [mode |-> walk.mode, pc |-> walk.pc, limit |-> walk.limit, cursor |-> walk.cursor,
     out |-> walk.out, stayed |-> rows, quiet |-> FALSE]

\* Other sessions commit: a row may arrive with a time long past, and the
\* erasure of a tenant deletes rows.
AddRow(k) ==
    /\ changes < MaxChanges
    /\ k \notin stored
    /\ stored' = stored \cup {k}
    /\ walk' = Unquiet(walk.stayed)
    /\ changes' = changes + 1

DeleteRow(k) ==
    /\ changes < MaxChanges
    /\ k \in stored
    /\ stored' = stored \ {k}
    /\ walk' = Unquiet(walk.stayed \ {k})
    /\ changes' = changes + 1

ListNext ==
    \/ \E mode \in Modes, n \in Limits : BeginWalk(mode, n)
    \/ ExportPage \/ CursorPage \/ OffsetPage \/ EndWalk
    \/ \E k \in Keys : AddRow(k) \/ DeleteRow(k)

ListSpec == ListInit /\ [][ListNext]_listVars

-----------------------------------------------------------------------------

\* Keyset pages lose nothing and repeat nothing although rows come and go
\* between them, with equal timestamps included: what a finished walk has
\* read is in strict order and holds every row that was there all along.
\* Offset pages promise it only while nothing changes ("pages drift").
\* (iter_audit_rows, paginate, list_audit_rows)
EveryRowOnce ==
    walk.mode \in {"export", "cursor"} \/ walk.quiet =>
        /\ \A i \in 1..(Len(walk.out) - 1) :
             LET k == walk.out[i]
                 l == walk.out[i + 1]
             IN IF walk.mode = "export" THEN Less(k, l) ELSE Less(l, k)
        /\ walk.pc = "done" => \A k \in walk.stayed : \E i \in 1..Len(walk.out) : walk.out[i] = k

\* The pages of every listing, put together, are the table (iter_audit_rows,
\* paginate, list_audit_rows).
PagesSound ==
    /\ ListTypeOK
    /\ EveryRowOnce
=============================================================================
