----------------------------- MODULE AuditTrail -----------------------------
(***************************************************************************)
(* The chain-hashed audit trail: the audit middleware appends one row per  *)
(* mutating request to its tenant's chain (record_audit_event), and        *)
(* verify_chain replays the chain.                                         *)
(*                                                                         *)
(* A hash is the sequence of everything that was hashed into it, so SHA-256 *)
(* is taken to be free of collisions.  The core of a row stands for the    *)
(* fields canonicalise_core selects; it contains the row's fresh ULID, so  *)
(* the event identifies it.  Requests the middleware does not audit (reads, *)
(* skipped prefixes, no tenant) change nothing here.                       *)
(***************************************************************************)
EXTENDS Naturals, Sequences, FiniteSets

CONSTANTS
    Tenants,
    Writers,        \* requests whose audit row is being written
    Events,         \* mutating requests that happen in a behaviour
    None,           \* "no value"
    Altered,        \* the core of a row somebody changed in place
    Asked,          \* from_position and to_position of verification requests
    Faults,         \* which faults the run allows
    MaxCorruptions  \* bound: rows changed or lost behind the application

ASSUME AuditAssumption ==
    /\ None \notin Tenants \cup Events
    /\ Altered \notin Events
    /\ Asked \subseteq Nat \ {0}
    /\ None \notin Asked
    /\ Faults \subseteq {"database", "alter", "lose"}
    /\ MaxCorruptions \in Nat

VARIABLES
    trail,          \* committed audit_trail rows: tenant, chain_position
    writer,         \* record_audit_event calls in progress
    served,         \* requests that have reached the middleware
    written,        \* every row a commit ever added, with its place
    corruptions     \* rows changed or lost so far

vars == <<trail, writer, served, written, corruptions>>

-----------------------------------------------------------------------------
(* Rows and their hashes *)

Hash == Seq(Tenants \cup Events \cup {Altered})

genesis_hash(t) == <<t>>

compute_chain_hash(prev, core) == Append(prev, core)

Entry == [core: Events \cup {Altered}, prev_hash: Hash, this_hash: Hash]

WriterPC == {"idle", "insert", "inserted"}
Call == [pc: WriterPC, tenant: Tenants \cup {None}, event: Events \cup {None},
         prev_hash: Hash, position: Nat]
NoCall == [pc |-> "idle", tenant |-> None, event |-> None, prev_hash |-> <<>>, position |-> 0]

TypeOK ==
    /\ DOMAIN trail = Tenants
    /\ \A t \in Tenants : \A p \in DOMAIN trail[t] : p \in Nat \ {0} /\ trail[t][p] \in Entry
    /\ writer \in [Writers -> Call]
    /\ served \subseteq Events
    /\ written \subseteq Tenants \X Nat \X Entry
    /\ corruptions \in 0..MaxCorruptions

Init ==
    /\ trail = [t \in Tenants |-> <<>>]
    /\ writer = [w \in Writers |-> NoCall]
    /\ served = {}
    /\ written = {}
    /\ corruptions = 0

\* The greatest of a set of positions.
Last(P) == CHOOSE p \in P : \A q \in P : q <= p

Positions(t) == DOMAIN trail[t]

\* A chain with the row e added at position p.
Extended(chain, p, e) == [q \in DOMAIN chain \cup {p} |-> IF q = p THEN e ELSE chain[q]]

-----------------------------------------------------------------------------
(* Appending *)

\* _tail: (prev_hash, next_position), read without any lock.
TailHash(t) == IF Positions(t) = {} THEN genesis_hash(t) ELSE trail[t][Last(Positions(t))].this_hash

NextPosition(t) == IF Positions(t) = {} THEN 1 ELSE Last(Positions(t)) + 1

\* dispatch, _append_async and record_audit_event up to the tail it read.
ReadTail(w, t, e) ==
    /\ writer[w].pc = "idle"
    /\ e \notin served
    /\ served' = served \cup {e}
    /\ writer' = [writer EXCEPT ![w] = [pc |-> "insert", tenant |-> t, event |-> e,
                                        prev_hash |-> TailHash(t), position |-> NextPosition(t)]]
    /\ UNCHANGED <<trail, written, corruptions>>

\* The row the call w adds.
NewEntry(w) ==
    [core |-> writer[w].event, prev_hash |-> writer[w].prev_hash,
     this_hash |-> compute_chain_hash(writer[w].prev_hash, writer[w].event)]

\* An uncommitted row of another session at the same place: INSERT waits.
InsertWaits(w) ==
    \E v \in Writers : /\ writer[v].pc = "inserted"
                       /\ writer[v].tenant = writer[w].tenant
                       /\ writer[v].position = writer[w].position

\* Mutant: no unique index on (tenant_id, chain_position).
InsertAnyway(w) ==
    /\ writer[w].pc = "insert"
    /\ writer' = [writer EXCEPT ![w].pc = "inserted"]
    /\ UNCHANGED <<trail, served, written, corruptions>>

\* The flush of record_audit_event: the INSERT goes through.
Insert(w) ==
    /\ writer[w].pc = "insert"
    /\ ~InsertWaits(w)
    /\ writer[w].position \notin Positions(writer[w].tenant)
    /\ writer' = [writer EXCEPT ![w].pc = "inserted"]
    /\ UNCHANGED <<trail, served, written, corruptions>>

\* Mutant: the refused call starts over from the position it already has.
RefusedTriesAgain(w) ==
    /\ writer[w].pc = "insert"
    /\ writer[w].position \in Positions(writer[w].tenant)
    /\ writer' = [writer EXCEPT ![w].pc = "insert"]
    /\ UNCHANGED <<trail, served, written, corruptions>>

\* The unique index refuses the row: record_audit_event logs and returns
\* None, the commit of the doomed session raises, _append_async rolls back
\* and swallows it.  The response is sent all the same.
Refused(w) ==
    /\ writer[w].pc = "insert"
    /\ writer[w].position \in Positions(writer[w].tenant)
    /\ writer' = [writer EXCEPT ![w] = NoCall]
    /\ UNCHANGED <<trail, served, written, corruptions>>

\* session.commit of _append_async.
CommitRow(w) ==
    LET t == writer[w].tenant
        p == writer[w].position
    IN
    /\ writer[w].pc = "inserted"
    /\ trail' = [trail EXCEPT ![t] = Extended(@, p, NewEntry(w))]
    /\ written' = written \cup {<<t, p, NewEntry(w)>>}
    /\ writer' = [writer EXCEPT ![w] = NoCall]
    /\ UNCHANGED <<served, corruptions>>

\* Any other exception while the row is written, or the end of the process.
AppendFails(w) ==
    /\ "database" \in Faults
    /\ writer[w].pc # "idle"
    /\ writer' = [writer EXCEPT ![w] = NoCall]
    /\ UNCHANGED <<trail, served, written, corruptions>>

-----------------------------------------------------------------------------
(* What happens to the table behind the application *)

\* Somebody changes a row in place and leaves its hashes alone.
AlterRow(t, p) ==
    /\ "alter" \in Faults
    /\ corruptions < MaxCorruptions
    /\ p \in Positions(t)
    /\ trail[t][p].core # Altered
    /\ trail' = [trail EXCEPT ![t] = Extended(@, p, [@[p] EXCEPT !.core = Altered])]
    /\ corruptions' = corruptions + 1
    /\ UNCHANGED <<writer, served, written>>

\* A row is lost: deleted, or missing after a restore.
LoseRow(t, p) ==
    /\ "lose" \in Faults
    /\ corruptions < MaxCorruptions
    /\ p \in Positions(t)
    /\ trail' = [trail EXCEPT ![t] = [q \in DOMAIN @ \ {p} |-> @[q]]]
    /\ corruptions' = corruptions + 1
    /\ UNCHANGED <<writer, served, written>>

-----------------------------------------------------------------------------
(* verify_chain.  After every row the loop re-synchronises expected_prev and *)
(* expected_position with that row, so what it finds at a row depends on    *)
(* the row and on the one before it only.                                   *)

Window(t, from, to) == {p \in Positions(t) : p >= from /\ (to = None \/ p <= to)}
Below(t, p) == {q \in Positions(t) : q < p}

\* expected_prev at position p; rows before the window count too (prev_stmt).
ExpectedPrev(t, p) ==
    IF Below(t, p) = {} THEN genesis_hash(t) ELSE trail[t][Last(Below(t, p))].this_hash

\* p is not expected_position: neither the window's start nor one more than
\* the row before it in the window.
PositionGap(t, p, from) == p # from /\ ~(p > from /\ p - 1 \in Positions(t))

\* Mutant: the stored hash is compared without being computed again.
HashMismatchUnchecked(t, p) == trail[t][p].prev_hash # ExpectedPrev(t, p)

\* prev_hash_mismatch or this_hash_mismatch.
HashMismatch(t, p) ==
    \/ trail[t][p].prev_hash # ExpectedPrev(t, p)
    \/ trail[t][p].this_hash # compute_chain_hash(trail[t][p].prev_hash, trail[t][p].core)

Breaks(t, from, to) ==
    {p \in Window(t, from, to) : PositionGap(t, p, from) \/ HashMismatch(t, p)}

verify_chain(t, from, to) == Breaks(t, from, to) = {}

-----------------------------------------------------------------------------

WriterStep(w) == Insert(w) \/ Refused(w) \/ CommitRow(w)

Next ==
    \/ \E w \in Writers :
         \/ \E t \in Tenants, e \in Events : ReadTail(w, t, e)
         \/ WriterStep(w)
         \/ AppendFails(w)
    \/ \E t \in Tenants : \E p \in Positions(t) : AlterRow(t, p) \/ LoseRow(t, p)

Spec == Init /\ [][Next]_vars

\* A handler that has started runs to its end.
FairSpec == Spec /\ \A w \in Writers : WF_vars(WriterStep(w))

-----------------------------------------------------------------------------
(* Properties *)

\* Without interference verify_chain never reports a break, whatever window is
\* asked for and however many requests append to the chain at once
\* (record_audit_event against verify_chain).
NoFalseAlarm ==
    corruptions = 0 =>
        \A t \in Tenants : \A from \in Asked, to \in Asked \cup {None} : verify_chain(t, from, to)

\* A chain verify_chain accepts from its start holds only rows that were
\* committed at that place with that content, and no row is missing before
\* the last one it holds (verify_chain).
TamperEvident ==
    \A t \in Tenants : verify_chain(t, 1, None) =>
        \A p \in Positions(t) : /\ <<t, p, trail[t][p]>> \in written
                                /\ p = 1 \/ p - 1 \in Positions(t)

\* The response waits for the audit row (dispatch awaits _append_async), so
\* writing it must end: no two appends wait for each other.
AppendsEnd == \A w \in Writers : writer[w].pc # "idle" ~> writer[w].pc = "idle"

\* audit_middleware: the inline write "is exactly-once-per-request".
RowPerRequest ==
    (\A w \in Writers : writer[w].pc = "idle") =>
        \A e \in served : \E t \in Tenants : \E p \in Positions(t) : trail[t][p].core = e

=============================================================================
