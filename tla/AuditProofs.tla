---------------------------- MODULE AuditProofs -----------------------------
(***************************************************************************)
(* Proofs about AuditTrail, AuditExports, AuditDigests and Listings, for    *)
(* every set of tenants, writers, exports, workers, rows and page sizes.    *)
(*                                                                         *)
(* The chain.  Linked is the heart of it: a call that has read the tail     *)
(* carries the hash of the row just below the position it will insert at,   *)
(* and as long as that position is free nobody can have changed that row.   *)
(*                                                                         *)
(* Exports.  Single says that the message of an export delivered once is in *)
(* one place, with the request, in the queue or with one task; FilesFollow, *)
(* that its files are then of the generation that task is at.               *)
(*                                                                         *)
(* Digests.  Fits says of every digest, stored, flushed or about to be      *)
(* inserted, that it is what its day hashes to unless the day was disturbed *)
(* since; FlushedHold, that no two runs have flushed the same one;          *)
(* VerdictsHold, that every tenant of a run has a verdict that is so.       *)
(*                                                                         *)
(* Listings.  The rank of a row is a bijection of a finite set of rows to   *)
(* its places, so InOrder sorts it.  KeysetHolds says that a walk has read  *)
(* in order all that stayed, or has it still beyond its cursor; OffsetHolds,*)
(* that undisturbed offset pages are a beginning of the listing.            *)
(***************************************************************************)
EXTENDS AuditTrail, AuditExports, AuditDigests, Listings,
        FiniteSetTheorems, WellFoundedInduction, TLAPS

\* Every non-empty set of naturals has a least element.
LEMMA LeastNumber ==
    ASSUME NEW U, U \subseteq Nat, U # {}
    PROVE  \E m \in U : \A k \in U : m <= k
<1> DEFINE R == OpToRel(<, Nat)
<1>1. \E m \in U : \A k \in U : ~(<<k, m>> \in R)
  BY WFMin, NatLessThanWellFounded, Zenon
<1>2. \A k, m \in Nat : k < m => <<k, m>> \in R
  BY DEF OpToRel
<1> HIDE DEF R
<1>3. PICK m \in U : \A k \in U : ~(<<k, m>> \in R)
  BY <1>1
<1>4. ASSUME NEW k \in U PROVE m <= k
  <2>1. k \in Nat /\ m \in Nat
    OBVIOUS
  <2>2. ~(k < m)
    BY <1>2, <1>3, <2>1
  <2> QED BY <2>1, <2>2
<1> QED BY <1>4

\* Last picks the greatest of a bounded set of positions.
LEMMA LastExists ==
    ASSUME NEW P \in SUBSET Nat, P # {}, NEW n \in Nat, \A p \in P : p <= n
    PROVE  Last(P) \in P /\ \A q \in P : q <= Last(P)
<1> DEFINE U == {m \in Nat : \A p \in P : p <= m}
<1>1. U \subseteq Nat /\ n \in U
  OBVIOUS
<1>2. PICK m \in U : \A k \in U : m <= k
  BY <1>1, LeastNumber
<1>3. m \in P
  <2> SUFFICES ASSUME m \notin P PROVE FALSE
    OBVIOUS
  <2>1. \A p \in P : p < m
    OBVIOUS
  <2>2. m # 0
    <3>1. PICK p \in P : TRUE
      OBVIOUS
    <3>2. p < m /\ p \in Nat /\ m \in Nat
      BY <2>1, <3>1
    <3> QED BY <3>2
  <2>3. m - 1 \in U
    BY <2>1, <2>2
  <2> QED BY <2>3, <1>2
<1> QED BY <1>2, <1>3 DEF Last

-----------------------------------------------------------------------------
(* Types *)

\* A call in progress names a tenant, an event and a position.
Busy ==
    \A w \in Writers : writer[w].pc # "idle" =>
        /\ writer[w].tenant \in Tenants
        /\ writer[w].event \in Events
        /\ writer[w].position \in Nat \ {0}

\* A chain has a last row.
Bounded == \A t \in Tenants : \E n \in Nat : \A p \in Positions(t) : p <= n

Typed == TypeOK /\ Busy /\ Bounded

LEMMA NoCallType == NoCall \in Call
<1>1. <<>> \in Hash
  BY DEF Hash
<1> QED
  BY <1>1 DEF NoCall, Call, WriterPC

\* Hashing a core onto a hash gives a hash.
LEMMA HashType ==
    ASSUME NEW h \in Hash, NEW c \in Events \cup {Altered}
    PROVE  compute_chain_hash(h, c) \in Hash
BY DEF Hash, compute_chain_hash

LEMMA GenesisType == ASSUME NEW t \in Tenants PROVE genesis_hash(t) \in Hash
BY DEF Hash, genesis_hash

\* What _tail returns has the types of a call's fields.
LEMMA TailType ==
    ASSUME Typed, NEW t \in Tenants
    PROVE  TailHash(t) \in Hash /\ NextPosition(t) \in Nat \ {0}
<1>1. CASE Positions(t) = {}
  BY <1>1, GenesisType DEF TailHash, NextPosition
<1>2. CASE Positions(t) # {}
  <2>1. Positions(t) \in SUBSET Nat
    BY DEF Typed, TypeOK, Positions
  <2>2. PICK n \in Nat : \A p \in Positions(t) : p <= n
    BY DEF Typed, Bounded
  <2>3. Last(Positions(t)) \in Positions(t)
    BY <1>2, <2>1, <2>2, LastExists
  <2>4. trail[t][Last(Positions(t))] \in Entry
    BY <2>3 DEF Typed, TypeOK, Positions
  <2> QED
    BY <1>2, <2>1, <2>3, <2>4 DEF TailHash, NextPosition, Entry
<1> QED
  BY <1>1, <1>2

\* The row a call is about to add.
LEMMA NewEntryType ==
    ASSUME Typed, NEW w \in Writers, writer[w].pc # "idle"
    PROVE  /\ NewEntry(w) \in Entry
           /\ NewEntry(w).core = writer[w].event
           /\ NewEntry(w).prev_hash = writer[w].prev_hash
           /\ NewEntry(w).this_hash = compute_chain_hash(writer[w].prev_hash, writer[w].event)
<1>1. writer[w].event \in Events /\ writer[w].prev_hash \in Hash
  BY DEF Typed, TypeOK, Busy, Call
<1>2. compute_chain_hash(writer[w].prev_hash, writer[w].event) \in Hash
  BY <1>1, HashType
<1> QED
  BY <1>1, <1>2 DEF NewEntry, Entry

\* What Extended does to a chain.
LEMMA ExtendedRows ==
    ASSUME NEW chain, NEW p, NEW e
    PROVE  /\ DOMAIN Extended(chain, p, e) = DOMAIN chain \cup {p}
           /\ Extended(chain, p, e)[p] = e
           /\ \A q \in DOMAIN chain : q # p => Extended(chain, p, e)[q] = chain[q]
BY DEF Extended

\* A call that ends or moves on leaves the other calls alone.
LEMMA WriterMoves ==
    ASSUME Typed, NEW w \in Writers, NEW r \in Call
    PROVE  LET after == [writer EXCEPT ![w] = r] IN
           /\ after \in [Writers -> Call]
           /\ after[w] = r
           /\ \A v \in Writers : v # w => after[v] = writer[v]
BY DEF Typed, TypeOK

LEMMA WriterInserts ==
    ASSUME Typed, NEW w \in Writers
    PROVE  LET after == [writer EXCEPT ![w].pc = "inserted"] IN
           /\ after \in [Writers -> Call]
           /\ after[w].pc = "inserted"
           /\ after[w].tenant = writer[w].tenant
           /\ after[w].event = writer[w].event
           /\ after[w].prev_hash = writer[w].prev_hash
           /\ after[w].position = writer[w].position
           /\ \A v \in Writers : v # w => after[v] = writer[v]
BY DEF Typed, TypeOK, Call, WriterPC

-----------------------------------------------------------------------------
(* What each action does to the trail, and that it keeps the types *)

\* Tenant t's chain becomes c, the other chains stay.
Becomes(t, c) == DOMAIN trail' = Tenants /\ trail'[t] = c /\ \A u \in Tenants \ {t} : trail'[u] = trail[u]

LEMMA TrailMoves ==
    ASSUME Typed, NEW t \in Tenants, NEW c, trail' = [trail EXCEPT ![t] = c]
    PROVE  Becomes(t, c)
BY DEF Becomes, Typed, TypeOK

\* A chain whose rows are entries at positive positions, with an end.
GoodChain(c) ==
    /\ \A p \in DOMAIN c : p \in Nat \ {0} /\ c[p] \in Entry
    /\ \E n \in Nat : \A p \in DOMAIN c : p <= n

LEMMA ExtendedGood ==
    ASSUME NEW c, GoodChain(c), NEW p \in Nat \ {0}, NEW e \in Entry
    PROVE  GoodChain(Extended(c, p, e))
<1> DEFINE d == Extended(c, p, e)
<1>1. DOMAIN d = DOMAIN c \cup {p} /\ d[p] = e /\ \A q \in DOMAIN c : q # p => d[q] = c[q]
  BY ExtendedRows
<1> HIDE DEF d
<1>2. \A q \in DOMAIN d : q \in Nat \ {0} /\ d[q] \in Entry
  BY <1>1 DEF GoodChain
<1>3. PICK n \in Nat : \A q \in DOMAIN c : q <= n
  BY DEF GoodChain
<1>4. \A q \in DOMAIN d : q <= n + p
  BY <1>1, <1>2, <1>3 DEF GoodChain
<1> QED
  BY <1>2, <1>4, n + p \in Nat DEF GoodChain, d

LEMMA TrailTyped ==
    ASSUME Typed, NEW t \in Tenants, NEW c, GoodChain(c), Becomes(t, c)
    PROVE  /\ DOMAIN trail' = Tenants
           /\ \A u \in Tenants : \A p \in DOMAIN trail'[u] : p \in Nat \ {0} /\ trail'[u][p] \in Entry
           /\ Bounded'
BY DEF Typed, TypeOK, Bounded, Positions, GoodChain, Becomes

LEMMA ChainsGood == ASSUME Typed, NEW t \in Tenants PROVE GoodChain(trail[t])
BY DEF Typed, TypeOK, Bounded, Positions, GoodChain

LEMMA ReadTailTyped ==
    ASSUME Typed, NEW w \in Writers, NEW t \in Tenants, NEW e \in Events, ReadTail(w, t, e)
    PROVE  Typed'
<1> DEFINE r == [pc |-> "insert", tenant |-> t, event |-> e,
                 prev_hash |-> TailHash(t), position |-> NextPosition(t)]
<1>1. r \in Call /\ r.tenant = t /\ r.event = e /\ r.position \in Nat \ {0}
  BY TailType DEF Call, WriterPC
<1> HIDE DEF r
<1>2. writer' = [writer EXCEPT ![w] = r]
  BY DEF ReadTail, r
<1>3. writer' \in [Writers -> Call] /\ writer'[w] = r /\ \A v \in Writers : v # w => writer'[v] = writer[v]
  BY <1>1, <1>2, WriterMoves
<1>4. Busy'
  BY <1>1, <1>3 DEF Busy, Typed
<1>5. TypeOK' /\ Bounded'
  BY <1>3 DEF ReadTail, Typed, TypeOK, Bounded, Positions
<1> QED
  BY <1>4, <1>5 DEF Typed

LEMMA InsertTyped ==
    ASSUME Typed, NEW w \in Writers, Insert(w)
    PROVE  Typed'
<1>1. writer' = [writer EXCEPT ![w].pc = "inserted"]
  BY DEF Insert
<1>2. Busy' /\ writer' \in [Writers -> Call]
  BY <1>1, WriterInserts DEF Insert, Busy, Typed
<1>3. TypeOK' /\ Bounded'
  BY <1>2 DEF Insert, Typed, TypeOK, Bounded, Positions
<1> QED
  BY <1>2, <1>3 DEF Typed

\* The call w ends without a trace.
LEMMA DroppedTyped ==
    ASSUME Typed, NEW w \in Writers, writer' = [writer EXCEPT ![w] = NoCall],
           UNCHANGED <<trail, served, written, corruptions>>
    PROVE  Typed'
<1>1. /\ writer' \in [Writers -> Call]
      /\ writer'[w] = NoCall
      /\ \A v \in Writers : v # w => writer'[v] = writer[v]
  BY NoCallType, WriterMoves
<1>2. Busy'
  BY <1>1 DEF Busy, Typed, NoCall
<1>3. TypeOK' /\ Bounded'
  BY <1>1 DEF Typed, TypeOK, Bounded, Positions
<1> QED
  BY <1>2, <1>3 DEF Typed

LEMMA CommitRowTyped ==
    ASSUME Typed, NEW w \in Writers, CommitRow(w)
    PROVE  /\ Typed'
           /\ Becomes(writer[w].tenant,
                      Extended(trail[writer[w].tenant], writer[w].position, NewEntry(w)))
<1> DEFINE t == writer[w].tenant
           p == writer[w].position
           e == NewEntry(w)
           c == Extended(trail[t], p, e)
<1>1. writer[w].pc = "inserted" /\ t \in Tenants /\ p \in Nat \ {0} /\ e \in Entry
  BY NewEntryType DEF CommitRow, Typed, Busy
<1>2. trail' = [trail EXCEPT ![t] = c] /\ written' = written \cup {<<t, p, e>>}
  BY <1>1 DEF CommitRow, Typed, TypeOK
<1>3. writer' = [writer EXCEPT ![w] = NoCall]
  BY DEF CommitRow
<1>4. GoodChain(c)
  BY <1>1, ChainsGood, ExtendedGood
<1> HIDE DEF t, p, e, c
<1>5. Becomes(t, c)
  BY <1>1, <1>2, TrailMoves
<1>6. /\ DOMAIN trail' = Tenants
      /\ \A u \in Tenants : \A q \in DOMAIN trail'[u] : q \in Nat \ {0} /\ trail'[u][q] \in Entry
      /\ Bounded'
  BY <1>1, <1>4, <1>5, TrailTyped
<1>7. /\ writer' \in [Writers -> Call]
      /\ writer'[w] = NoCall
      /\ \A v \in Writers : v # w => writer'[v] = writer[v]
  BY <1>3, NoCallType, WriterMoves
<1>8. Busy'
  BY <1>7 DEF Busy, Typed, NoCall
<1>9. TypeOK'
  BY <1>1, <1>2, <1>6, <1>7 DEF CommitRow, Typed, TypeOK
<1> QED
  BY <1>5, <1>6, <1>8, <1>9 DEF Typed, t, p, e, c

LEMMA AlterRowTyped ==
    ASSUME Typed, NEW t \in Tenants, NEW p \in Positions(t), AlterRow(t, p)
    PROVE  /\ Typed'
           /\ Becomes(t, Extended(trail[t], p, [trail[t][p] EXCEPT !.core = Altered]))
<1> DEFINE e == [trail[t][p] EXCEPT !.core = Altered]
           c == Extended(trail[t], p, e)
<1>1. p \in Nat \ {0} /\ e \in Entry
  BY DEF Typed, TypeOK, Positions, Entry
<1>2. trail' = [trail EXCEPT ![t] = c]
  BY DEF AlterRow, Typed, TypeOK
<1>3. GoodChain(c)
  BY <1>1, ChainsGood, ExtendedGood
<1> HIDE DEF e, c
<1>4. Becomes(t, c)
  BY <1>2, TrailMoves
<1>5. /\ DOMAIN trail' = Tenants
      /\ \A u \in Tenants : \A q \in DOMAIN trail'[u] : q \in Nat \ {0} /\ trail'[u][q] \in Entry
      /\ Bounded'
  BY <1>3, <1>4, TrailTyped
<1>6. corruptions' \in 0..MaxCorruptions
  BY AuditAssumption DEF AlterRow, Typed, TypeOK
<1>7. TypeOK' /\ Busy'
  BY <1>5, <1>6 DEF AlterRow, Typed, TypeOK, Busy
<1> QED
  BY <1>4, <1>5, <1>7 DEF Typed, e, c

LEMMA LoseRowTyped ==
    ASSUME Typed, NEW t \in Tenants, NEW p \in Positions(t), LoseRow(t, p)
    PROVE  /\ Typed'
           /\ Becomes(t, [q \in DOMAIN trail[t] \ {p} |-> trail[t][q]])
<1> DEFINE c == [q \in DOMAIN trail[t] \ {p} |-> trail[t][q]]
<1>1. trail' = [trail EXCEPT ![t] = c]
  BY DEF LoseRow, Typed, TypeOK
<1>2. GoodChain(c)
  BY ChainsGood DEF GoodChain
<1> HIDE DEF c
<1>3. Becomes(t, c)
  BY <1>1, TrailMoves
<1>4. /\ DOMAIN trail' = Tenants
      /\ \A u \in Tenants : \A q \in DOMAIN trail'[u] : q \in Nat \ {0} /\ trail'[u][q] \in Entry
      /\ Bounded'
  BY <1>2, <1>3, TrailTyped
<1>5. corruptions' \in 0..MaxCorruptions
  BY AuditAssumption DEF LoseRow, Typed, TypeOK
<1>6. TypeOK' /\ Busy'
  BY <1>4, <1>5 DEF LoseRow, Typed, TypeOK, Busy
<1> QED
  BY <1>3, <1>4, <1>6 DEF Typed, c

LEMMA StepTyped == ASSUME Typed, [Next]_vars PROVE Typed'
<1>1. CASE UNCHANGED vars
  BY <1>1 DEF vars, Typed, TypeOK, Busy, Bounded, Positions
<1>2. ASSUME NEW w \in Writers, NEW t \in Tenants, NEW e \in Events, ReadTail(w, t, e) PROVE Typed'
  BY <1>2, ReadTailTyped
<1>3. ASSUME NEW w \in Writers, Insert(w) PROVE Typed'
  BY <1>3, InsertTyped
<1>4. ASSUME NEW w \in Writers, Refused(w) \/ AppendFails(w) PROVE Typed'
  BY <1>4, DroppedTyped DEF Refused, AppendFails
<1>5. ASSUME NEW w \in Writers, CommitRow(w) PROVE Typed'
  BY <1>5, CommitRowTyped
<1>6. ASSUME NEW t \in Tenants, NEW p \in Positions(t), AlterRow(t, p) PROVE Typed'
  BY <1>6, AlterRowTyped
<1>7. ASSUME NEW t \in Tenants, NEW p \in Positions(t), LoseRow(t, p) PROVE Typed'
  BY <1>7, LoseRowTyped
<1> QED
  BY <1>1, <1>2, <1>3, <1>4, <1>5, <1>6, <1>7 DEF Next, WriterStep

LEMMA InitTyped == Init => Typed
<1> SUFFICES ASSUME Init PROVE Typed
  OBVIOUS
<1>1. \A t \in Tenants : DOMAIN trail[t] = {}
  BY DEF Init
<1>2. TypeOK /\ Busy
  BY <1>1, NoCallType, AuditAssumption DEF Init, TypeOK, Busy, NoCall
<1>3. Bounded
  BY <1>1 DEF Bounded, Positions
<1> QED
  BY <1>2, <1>3 DEF Typed

\* The audit trail and the calls that append to it stay within their types
\* (AuditLogEntry, record_audit_event).
THEOREM AuditTypeCorrectness == Spec => []TypeOK
<1>1. Typed => TypeOK
  BY DEF Typed
<1> QED
  BY <1>1, InitTyped, StepTyped, PTL DEF Spec

-----------------------------------------------------------------------------
(* The chain stays linked *)

\* The hash of the row just below position p of tenant t's chain.
HashBelow(t, p) == IF p = 1 THEN genesis_hash(t) ELSE trail[t][p - 1].this_hash

\* Rows 1..n, without a hole.
Contiguous == \A t \in Tenants : \E n \in Nat : Positions(t) = 1..n

\* Every row carries the hash of the row below it and its own.
RowsLinked ==
    \A t \in Tenants : \A p \in Positions(t) :
        /\ trail[t][p].prev_hash = HashBelow(t, p)
        /\ trail[t][p].this_hash = compute_chain_hash(trail[t][p].prev_hash, trail[t][p].core)

\* What a call read is still the hash of the row below its position.
CallsLinked ==
    \A w \in Writers : writer[w].pc # "idle" =>
        /\ writer[w].prev_hash = HashBelow(writer[w].tenant, writer[w].position)
        /\ writer[w].position = 1 \/ writer[w].position - 1 \in Positions(writer[w].tenant)

\* An inserted row is the only one at its place.
PlaceReserved ==
    \A w \in Writers : writer[w].pc = "inserted" =>
        /\ writer[w].position \notin Positions(writer[w].tenant)
        /\ \A v \in Writers : /\ writer[v].pc = "inserted"
                              /\ writer[v].tenant = writer[w].tenant
                              /\ writer[v].position = writer[w].position
                              => v = w

Linked == corruptions = 0 => Contiguous /\ RowsLinked /\ CallsLinked /\ PlaceReserved

\* Rows and calls do not change their links when the trail does not change.
LEMMA SameTrail ==
    ASSUME trail' = trail
    PROVE  /\ Contiguous => Contiguous'
           /\ RowsLinked => RowsLinked'
           /\ \A t, p : HashBelow(t, p)' = HashBelow(t, p)
           /\ \A t : Positions(t)' = Positions(t)
BY DEF Contiguous, RowsLinked, HashBelow, Positions

\* The tail of a contiguous chain is the row below the next position.
LEMMA TailIsBelow ==
    ASSUME Typed, Contiguous, NEW t \in Tenants
    PROVE  /\ TailHash(t) = HashBelow(t, NextPosition(t))
           /\ NextPosition(t) = 1 \/ NextPosition(t) - 1 \in Positions(t)
<1>1. PICK n \in Nat : Positions(t) = 1..n
  BY DEF Contiguous
<1>2. CASE n = 0
  BY <1>1, <1>2 DEF TailHash, NextPosition, HashBelow
<1>3. CASE n # 0
  <2>1. n \in Positions(t) /\ \A p \in Positions(t) : p <= n
    BY <1>1, <1>3
  <2>2. Positions(t) \in SUBSET Nat /\ Positions(t) # {}
    BY <1>1, <2>1
  <2>3. Last(Positions(t)) \in Positions(t) /\ n <= Last(Positions(t))
    BY <2>1, <2>2, LastExists
  <2>4. Last(Positions(t)) = n
    BY <1>1, <2>1, <2>2, <2>3
  <2> QED
    BY <1>3, <2>1, <2>2, <2>4 DEF TailHash, NextPosition, HashBelow
<1> QED
  BY <1>2, <1>3

LEMMA ReadTailLinked ==
    ASSUME Typed, Linked, NEW w \in Writers, NEW t \in Tenants, NEW e \in Events, ReadTail(w, t, e)
    PROVE  Linked'
<1> SUFFICES ASSUME corruptions' = 0 PROVE (Contiguous /\ RowsLinked /\ CallsLinked /\ PlaceReserved)'
  BY DEF Linked
<1>1. corruptions = 0 /\ trail' = trail
  BY DEF ReadTail
<1>2. Contiguous /\ RowsLinked /\ CallsLinked /\ PlaceReserved
  BY <1>1 DEF Linked
<1> DEFINE r == [pc |-> "insert", tenant |-> t, event |-> e,
                 prev_hash |-> TailHash(t), position |-> NextPosition(t)]
<1>3. r \in Call /\ r.pc = "insert" /\ r.tenant = t /\ r.prev_hash = TailHash(t) /\ r.position = NextPosition(t)
  BY TailType DEF Call, WriterPC
<1>4. writer' = [writer EXCEPT ![w] = r]
  BY DEF ReadTail
<1> HIDE DEF r
<1>5. writer'[w] = r /\ \A v \in Writers : v # w => writer'[v] = writer[v]
  BY <1>3, <1>4, WriterMoves
<1>6. CallsLinked'
  BY <1>1, <1>2, <1>3, <1>5, TailIsBelow, SameTrail DEF CallsLinked
<1>7. PlaceReserved'
  BY <1>1, <1>2, <1>3, <1>5, SameTrail DEF PlaceReserved
<1> QED
  BY <1>1, <1>2, <1>6, <1>7, SameTrail

LEMMA InsertLinked ==
    ASSUME Typed, Linked, NEW w \in Writers, Insert(w)
    PROVE  Linked'
<1> SUFFICES ASSUME corruptions' = 0 PROVE (Contiguous /\ RowsLinked /\ CallsLinked /\ PlaceReserved)'
  BY DEF Linked
<1>1. corruptions = 0 /\ trail' = trail
  BY DEF Insert
<1>2. Contiguous /\ RowsLinked /\ CallsLinked /\ PlaceReserved
  BY <1>1 DEF Linked
<1>3. writer' = [writer EXCEPT ![w].pc = "inserted"] /\ writer[w].pc = "insert"
  BY DEF Insert
<1>4. /\ writer'[w].tenant = writer[w].tenant
      /\ writer'[w].prev_hash = writer[w].prev_hash
      /\ writer'[w].position = writer[w].position
      /\ \A v \in Writers : v # w => writer'[v] = writer[v]
  BY <1>3, WriterInserts
<1>5. CallsLinked'
  BY <1>1, <1>2, <1>3, <1>4, SameTrail DEF CallsLinked
<1>6. PlaceReserved'
  BY <1>1, <1>2, <1>3, <1>4, SameTrail DEF PlaceReserved, Insert, InsertWaits
<1> QED
  BY <1>1, <1>2, <1>5, <1>6, SameTrail

LEMMA DroppedLinked ==
    ASSUME Typed, Linked, NEW w \in Writers, writer' = [writer EXCEPT ![w] = NoCall],
           UNCHANGED <<trail, served, written, corruptions>>
    PROVE  Linked'
<1> SUFFICES ASSUME corruptions' = 0 PROVE (Contiguous /\ RowsLinked /\ CallsLinked /\ PlaceReserved)'
  BY DEF Linked
<1>1. Contiguous /\ RowsLinked /\ CallsLinked /\ PlaceReserved
  BY DEF Linked
<1>2. writer'[w] = NoCall /\ NoCall.pc = "idle" /\ \A v \in Writers : v # w => writer'[v] = writer[v]
  BY NoCallType, WriterMoves DEF NoCall
<1>3. CallsLinked'
  BY <1>1, <1>2, SameTrail DEF CallsLinked
<1>4. PlaceReserved'
  BY <1>1, <1>2, SameTrail DEF PlaceReserved
<1> QED
  BY <1>1, <1>3, <1>4, SameTrail

LEMMA CommitRowLinked ==
    ASSUME Typed, Linked, NEW w \in Writers, CommitRow(w)
    PROVE  Linked'
<1> SUFFICES ASSUME corruptions' = 0 PROVE (Contiguous /\ RowsLinked /\ CallsLinked /\ PlaceReserved)'
  BY DEF Linked
<1>1. corruptions = 0 /\ writer[w].pc = "inserted" /\ writer' = [writer EXCEPT ![w] = NoCall]
  BY DEF CommitRow
<1>2. Contiguous /\ RowsLinked /\ CallsLinked /\ PlaceReserved
  BY <1>1 DEF Linked
<1>3. writer[w].tenant \in Tenants /\ writer[w].position \in Nat \ {0}
  BY <1>1 DEF Typed, Busy
<1>4. PICK t \in Tenants, p \in Nat \ {0}, e \in {NewEntry(w)} :
        t = writer[w].tenant /\ p = writer[w].position /\ e = NewEntry(w)
  BY <1>3
<1>5. Becomes(t, Extended(trail[t], p, e))
  BY <1>4, CommitRowTyped DEF Becomes
<1>6. /\ e.this_hash = compute_chain_hash(e.prev_hash, e.core)
      /\ e.prev_hash = HashBelow(t, p)
      /\ p = 1 \/ p - 1 \in Positions(t)
      /\ p \notin Positions(t)
  BY <1>1, <1>2, <1>4, NewEntryType DEF CallsLinked, PlaceReserved
<1>7. \A v \in Writers \ {w} : writer[v].pc = "inserted" /\ writer[v].tenant = t => writer[v].position # p
  BY <1>1, <1>2, <1>4 DEF PlaceReserved
<1>8. /\ Positions(t)' = Positions(t) \cup {p}
      /\ trail'[t][p] = e
      /\ \A q \in Positions(t) : trail'[t][q] = trail[t][q]
      /\ \A u \in Tenants \ {t} : trail'[u] = trail[u] /\ Positions(u)' = Positions(u)
  BY <1>5, <1>6 DEF Becomes, Extended, Positions
<1>9. PICK n \in Nat : Positions(t) = 1..n
  BY <1>2, <1>3 DEF Contiguous
<1>10. p = n + 1 /\ Positions(t)' = 1..(n + 1)
  BY <1>3, <1>6, <1>8, <1>9
<1>11. Contiguous'
  <2> SUFFICES ASSUME NEW u \in Tenants PROVE \E m \in Nat : Positions(u)' = 1..m
    BY DEF Contiguous
  <2>1. CASE u = t
    BY <1>10, <2>1, n + 1 \in Nat
  <2>2. CASE u # t
    BY <1>2, <1>8, <2>2 DEF Contiguous
  <2> QED
    BY <2>1, <2>2
<1>12. \A u \in Tenants : \A q \in Nat : q = 1 \/ q - 1 \in Positions(u) => HashBelow(u, q)' = HashBelow(u, q)
  BY <1>8 DEF HashBelow
<1>13. RowsLinked'
  <2> SUFFICES ASSUME NEW u \in Tenants, NEW q \in Positions(u)'
               PROVE  /\ trail'[u][q].prev_hash = HashBelow(u, q)'
                      /\ trail'[u][q].this_hash = compute_chain_hash(trail'[u][q].prev_hash, trail'[u][q].core)
    BY DEF RowsLinked
  <2>1. CASE u = t /\ q = p
    BY <1>6, <1>8, <1>12, <2>1
  <2>2. CASE u # t \/ q # p
    <3>1. q \in Positions(u) /\ trail'[u][q] = trail[u][q]
      BY <1>8, <2>2
    <3>2. PICK m \in Nat : Positions(u) = 1..m
      BY <1>2 DEF Contiguous
    <3>3. q \in Nat /\ (q = 1 \/ q - 1 \in Positions(u))
      BY <3>1, <3>2
    <3> QED
      BY <1>2, <1>12, <3>1, <3>3 DEF RowsLinked
  <2> QED
    BY <2>1, <2>2
<1>14. writer'[w] = NoCall /\ NoCall.pc = "idle" /\ \A v \in Writers : v # w => writer'[v] = writer[v]
  BY <1>1, NoCallType, WriterMoves DEF NoCall
<1>15. CallsLinked'
  <2> SUFFICES ASSUME NEW v \in Writers, writer'[v].pc # "idle", NEW u, u = writer'[v].tenant,
                      NEW q, q = writer'[v].position
               PROVE  /\ writer'[v].prev_hash = HashBelow(u, q)'
                      /\ q = 1 \/ q - 1 \in Positions(u)'
    BY DEF CallsLinked, HashBelow, Positions
  <2>1. v # w /\ writer'[v] = writer[v] /\ u \in Tenants /\ q \in Nat
    BY <1>14 DEF Typed, Busy
  <2>2. writer'[v].prev_hash = HashBelow(u, q) /\ (q = 1 \/ q - 1 \in Positions(u))
    BY <1>2, <2>1 DEF CallsLinked
  <2>3. Positions(u) \subseteq Positions(u)'
    BY <1>8, <2>1
  <2> QED
    BY <1>12, <2>1, <2>2, <2>3
<1>16. PlaceReserved'
  <2> SUFFICES ASSUME NEW v \in Writers, writer'[v].pc = "inserted", NEW u, u = writer'[v].tenant,
                      NEW q, q = writer'[v].position
               PROVE  /\ q \notin Positions(u)'
                      /\ \A x \in Writers :
                           writer'[x].pc = "inserted" /\ writer'[x].tenant = u /\ writer'[x].position = q
                           => x = v
    BY DEF PlaceReserved, Positions
  <2>1. v # w /\ writer'[v] = writer[v] /\ u \in Tenants
    BY <1>14 DEF Typed, Busy
  <2>2. q \notin Positions(u)'
    BY <1>2, <1>7, <1>8, <2>1 DEF PlaceReserved
  <2>3. \A x \in Writers : writer'[x].pc = "inserted" => writer'[x] = writer[x]
    BY <1>14
  <2> QED
    BY <1>2, <2>1, <2>2, <2>3 DEF PlaceReserved
<1> QED
  BY <1>11, <1>13, <1>15, <1>16

LEMMA StepLinked == ASSUME Typed, Linked, [Next]_vars PROVE Linked'
<1>1. CASE UNCHANGED vars
  BY <1>1, SameTrail DEF vars, Linked, CallsLinked, PlaceReserved
<1>2. ASSUME NEW w \in Writers, NEW t \in Tenants, NEW e \in Events, ReadTail(w, t, e) PROVE Linked'
  BY <1>2, ReadTailLinked
<1>3. ASSUME NEW w \in Writers, Insert(w) PROVE Linked'
  BY <1>3, InsertLinked
<1>4. ASSUME NEW w \in Writers, Refused(w) \/ AppendFails(w) PROVE Linked'
  BY <1>4, DroppedLinked DEF Refused, AppendFails
<1>5. ASSUME NEW w \in Writers, CommitRow(w) PROVE Linked'
  BY <1>5, CommitRowLinked
<1>6. ASSUME NEW t \in Tenants, NEW p \in Positions(t), AlterRow(t, p) \/ LoseRow(t, p) PROVE Linked'
  <2>1. corruptions' # 0
    BY <1>6 DEF AlterRow, LoseRow, Typed, TypeOK
  <2> QED
    BY <2>1 DEF Linked
<1> QED
  BY <1>1, <1>2, <1>3, <1>4, <1>5, <1>6 DEF Next, WriterStep

LEMMA InitLinked == Init => Linked
<1> SUFFICES ASSUME Init PROVE Linked
  OBVIOUS
<1>1. \A t \in Tenants : Positions(t) = {} /\ {} = 1..0
  BY DEF Init, Positions
<1>2. \A w \in Writers : writer[w].pc = "idle"
  BY DEF Init, NoCall
<1> QED
  BY <1>1, <1>2 DEF Linked, Contiguous, RowsLinked, CallsLinked, PlaceReserved

\* A linked chain has no break in any window.
LEMMA LinkedVerifies ==
    ASSUME Typed, Contiguous, RowsLinked, NEW t \in Tenants, NEW from \in Nat \ {0}, NEW to
    PROVE  verify_chain(t, from, to)
<1> SUFFICES ASSUME NEW p \in Window(t, from, to) PROVE ~PositionGap(t, p, from) /\ ~HashMismatch(t, p)
  BY DEF verify_chain, Breaks
<1>1. PICK n \in Nat : Positions(t) = 1..n
  BY DEF Contiguous
<1>2. p \in 1..n /\ p >= from
  BY <1>1 DEF Window
<1>3. ~PositionGap(t, p, from)
  BY <1>1, <1>2 DEF PositionGap
<1>4. ExpectedPrev(t, p) = HashBelow(t, p)
  <2>1. Below(t, p) = 1..(p - 1)
    BY <1>1, <1>2 DEF Below
  <2>2. CASE p = 1
    BY <2>1, <2>2 DEF ExpectedPrev, HashBelow
  <2>3. CASE p # 1
    <3>1. /\ Below(t, p) \in SUBSET Nat
          /\ p - 1 \in Below(t, p)
          /\ \A q \in Below(t, p) : q <= p - 1
      BY <1>2, <2>1, <2>3
    <3>2. Last(Below(t, p)) \in Below(t, p) /\ p - 1 <= Last(Below(t, p))
      BY <1>2, <3>1, p - 1 \in Nat, LastExists
    <3>3. Last(Below(t, p)) = p - 1
      BY <1>2, <2>1, <3>2
    <3> QED
      BY <2>3, <3>1, <3>3 DEF ExpectedPrev, HashBelow
  <2> QED
    BY <2>2, <2>3
<1>5. ~HashMismatch(t, p)
  BY <1>1, <1>2, <1>4 DEF HashMismatch, RowsLinked
<1> QED
  BY <1>3, <1>5

\* However many requests append to a chain at once, verify_chain accepts it,
\* in every window, as long as nobody touches the table behind the
\* application (record_audit_event, verify_chain).
THEOREM ChainsVerify == Spec => []NoFalseAlarm
<1>1. Typed /\ Linked => NoFalseAlarm
  BY LinkedVerifies, AuditAssumption DEF Linked, NoFalseAlarm
<1> QED
  BY <1>1, InitTyped, InitLinked, StepTyped, StepLinked, PTL DEF Spec


-----------------------------------------------------------------------------
(* Tampering is evident *)

\* A committed row carries the hash of its own content.
Genuine ==
    \A x \in written : x[3].core \in Events /\ x[3].this_hash = compute_chain_hash(x[3].prev_hash, x[3].core)

\* A row of the table was committed as it is, or its content was changed
\* under the hash it was committed with.
CommittedOrAltered(t, p, r) ==
    \/ <<t, p, r>> \in written
    \/ r.core = Altered /\ \E e \in Events : r.this_hash = compute_chain_hash(r.prev_hash, e)

Provenance ==
    Genuine /\ \A t \in Tenants : \A p \in Positions(t) : CommittedOrAltered(t, p, trail[t][p])

LEMMA CommitRowProvenance ==
    ASSUME Typed, Provenance, NEW w \in Writers, CommitRow(w)
    PROVE  Provenance'
<1>1. writer[w].pc = "inserted" /\ writer[w].tenant \in Tenants /\ writer[w].event \in Events
  BY DEF CommitRow, Typed, Busy
<1>2. PICK t \in Tenants, p \in {writer[w].position}, e \in {NewEntry(w)} :
        t = writer[w].tenant /\ p = writer[w].position /\ e = NewEntry(w)
  BY <1>1
<1>3. e.core \in Events /\ e.this_hash = compute_chain_hash(e.prev_hash, e.core)
  BY <1>1, <1>2, NewEntryType
<1>4. written' = written \cup {<<t, p, e>>}
  BY <1>2 DEF CommitRow
<1>5. Genuine'
  BY <1>3, <1>4 DEF Provenance, Genuine
<1>6. Becomes(t, Extended(trail[t], p, e))
  BY <1>2, CommitRowTyped DEF Becomes
<1>7. ASSUME NEW u \in Tenants, NEW q \in Positions(u)' PROVE CommittedOrAltered(u, q, trail[u][q])'
  <2>1. CASE u = t /\ q = p
    BY <1>4, <1>6, <2>1 DEF Becomes, Extended, Positions, CommittedOrAltered
  <2>2. CASE ~(u = t /\ q = p)
    <3>1. q \in Positions(u) /\ trail'[u][q] = trail[u][q]
      BY <1>6, <2>2 DEF Becomes, Extended, Positions
    <3> QED
      BY <1>4, <3>1 DEF Provenance, CommittedOrAltered
  <2> QED
    BY <2>1, <2>2
<1> QED
  BY <1>5, <1>7 DEF Provenance

LEMMA AlterRowProvenance ==
    ASSUME Typed, Provenance, NEW t \in Tenants, NEW p \in Positions(t), AlterRow(t, p)
    PROVE  Provenance'
<1> DEFINE r == trail[t][p]
<1>1. PICK e : e = [r EXCEPT !.core = Altered]
  OBVIOUS
<1>2. Becomes(t, Extended(trail[t], p, e))
  BY <1>1, AlterRowTyped DEF Becomes
<1>3. written' = written /\ r.core # Altered
  BY DEF AlterRow
<1>4. <<t, p, r>> \in written /\ r \in Entry
  BY <1>3 DEF Provenance, CommittedOrAltered, Typed, TypeOK, Positions
<1>5. r.core \in Events /\ r.this_hash = compute_chain_hash(r.prev_hash, r.core)
  BY <1>4 DEF Provenance, Genuine
<1>6. e.core = Altered /\ e.this_hash = r.this_hash /\ e.prev_hash = r.prev_hash
  BY <1>1, <1>4 DEF Entry
<1>7. ASSUME NEW u \in Tenants, NEW q \in Positions(u)' PROVE CommittedOrAltered(u, q, trail[u][q])'
  <2>1. CASE u = t /\ q = p
    BY <1>2, <1>5, <1>6, <2>1 DEF Becomes, Extended, Positions, CommittedOrAltered
  <2>2. CASE ~(u = t /\ q = p)
    <3>1. q \in Positions(u) /\ trail'[u][q] = trail[u][q]
      BY <1>2, <2>2 DEF Becomes, Extended, Positions
    <3> QED
      BY <1>3, <3>1 DEF Provenance, CommittedOrAltered
  <2> QED
    BY <2>1, <2>2
<1> QED
  BY <1>3, <1>7 DEF Provenance, Genuine

LEMMA LoseRowProvenance ==
    ASSUME Typed, Provenance, NEW t \in Tenants, NEW p \in Positions(t), LoseRow(t, p)
    PROVE  Provenance'
<1>1. Becomes(t, [q \in DOMAIN trail[t] \ {p} |-> trail[t][q]]) /\ written' = written
  BY LoseRowTyped DEF LoseRow
<1>2. ASSUME NEW u \in Tenants, NEW q \in Positions(u)' PROVE CommittedOrAltered(u, q, trail[u][q])'
  <2>1. q \in Positions(u) /\ trail'[u][q] = trail[u][q]
    BY <1>1 DEF Becomes, Positions
  <2> QED
    BY <1>1, <2>1 DEF Provenance, CommittedOrAltered
<1> QED
  BY <1>1, <1>2 DEF Provenance, Genuine

LEMMA StepProvenance == ASSUME Typed, Provenance, [Next]_vars PROVE Provenance'
<1>1. CASE UNCHANGED <<trail, written>>
  BY <1>1 DEF Provenance, Genuine, CommittedOrAltered, Positions
<1>2. ASSUME NEW w \in Writers, CommitRow(w) PROVE Provenance'
  BY <1>2, CommitRowProvenance
<1>3. ASSUME NEW t \in Tenants, NEW p \in Positions(t), AlterRow(t, p) PROVE Provenance'
  BY <1>3, AlterRowProvenance
<1>4. ASSUME NEW t \in Tenants, NEW p \in Positions(t), LoseRow(t, p) PROVE Provenance'
  BY <1>4, LoseRowProvenance
<1> QED
  BY <1>1, <1>2, <1>3, <1>4 DEF Next, WriterStep, ReadTail, Insert, Refused, AppendFails, vars

\* What was hashed last can be told from the hash.
LEMMA HashesDiffer ==
    ASSUME NEW h \in Hash, NEW e \in Events
    PROVE  compute_chain_hash(h, e) # compute_chain_hash(h, Altered)
<1>1. Append(h, e)[Len(h) + 1] = e /\ Append(h, Altered)[Len(h) + 1] = Altered
  BY DEF Hash
<1> QED
  BY <1>1, AuditAssumption DEF compute_chain_hash

\* If verify_chain accepts a tenant's chain, every row in it was committed at
\* that place with that content and no row is missing before the last one,
\* whatever was changed or lost behind the application (verify_chain).
THEOREM TamperingIsEvident == Spec => []TamperEvident
<1>1. Init => Provenance
  BY DEF Init, Provenance, Genuine, Positions
<1>2. Typed /\ Provenance => TamperEvident
  <2> SUFFICES ASSUME Typed, Provenance, NEW t \in Tenants, verify_chain(t, 1, None), NEW p \in Positions(t)
               PROVE  <<t, p, trail[t][p]>> \in written /\ (p = 1 \/ p - 1 \in Positions(t))
    BY DEF TamperEvident
  <2>1. p \in Nat \ {0} /\ trail[t][p] \in Entry
    BY DEF Typed, TypeOK, Positions
  <2>2. ~PositionGap(t, p, 1) /\ ~HashMismatch(t, p)
    BY <2>1 DEF verify_chain, Breaks, Window
  <2>3. p = 1 \/ p - 1 \in Positions(t)
    BY <2>1, <2>2 DEF PositionGap
  <2>4. trail[t][p].core # Altered \/ ~\E e \in Events :
          trail[t][p].this_hash = compute_chain_hash(trail[t][p].prev_hash, e)
    BY <2>1, <2>2, HashesDiffer DEF HashMismatch, Entry
  <2> QED
    BY <2>3, <2>4 DEF Provenance, CommittedOrAltered
<1> QED
  BY <1>1, <1>2, InitTyped, StepTyped, StepProvenance, PTL DEF Spec

-----------------------------------------------------------------------------
(* AuditExports *)

\* Where a task works on the rows and the files of its export.
Rendering == {"read", "verify", "pdf", "envelope", "commit"}

\* A request holds an export nobody else drew, whose row is not visible yet.
RequestHolds(c) ==
    /\ req[c].pc = "idle" <=> req[c].export = NoExport
    /\ req[c].pc # "idle" => export[req[c].export].status = "void"
    /\ \A d \in ExportClients : req[c].export = req[d].export /\ req[c].pc # "idle" => c = d

\* A task renders rows that verified, of an export that was committed.
TaskHolds(w) ==
    /\ job[w].pc = "idle" <=> job[w].export = NoExport
    /\ job[w].pc # "idle" => export[job[w].export].status # "absent"
    /\ job[w].pc \in Rendering => export[job[w].export].status # "void"
    /\ job[w].pc \in {"pdf", "envelope", "commit"} => job[w].clean /\ job[w].generation # 0

\* An export nobody asked for has no message.
Unasked(x) == export[x].status = "absent" => queue[x] = 0

\* The message of an export that was delivered once is in one place: with the
\* request that will send it, in the queue, or with one task.
Single(x) ==
    /\ queue[x] \in {0, 1}
    /\ \A c \in ExportClients : req[c].export = x /\ req[c].pc = "flushed" =>
          queue[x] = 0 /\ \A w \in ExportWorkers : job[w].export # x
    /\ \A w \in ExportWorkers : job[w].export = x =>
          queue[x] = 0 /\ \A v \in ExportWorkers : job[v].export = x => v = w

\* So its files are of the generation its task is at, or of the one committed.
FilesFollow(x) ==
    /\ \A w \in ExportWorkers : job[w].export = x =>
          /\ job[w].pc \in Rendering => export[x].status = "generating"
          /\ job[w].pc \in {"envelope", "commit"} => file[x].pdf = job[w].generation
          /\ job[w].pc = "commit" => file[x].envelope = job[w].generation
    /\ export[x].status = "ready" =>
          export[x].sha # 0 /\ file[x].pdf = export[x].sha /\ file[x].envelope = export[x].sha

\* The inductive invariant.
ExportInv ==
    /\ ExportTypeOK
    /\ \A c \in ExportClients : RequestHolds(c)
    /\ \A w \in ExportWorkers : TaskHolds(w)
    /\ \A x \in Exports : Unasked(x)
    /\ ReadyIsClean
    /\ \A x \in Exports \ repeated : Single(x) /\ FilesFollow(x)

\* A step of a task, from what it writes to its row and its files.
LEMMA TaskMoves ==
    ASSUME ExportInv, NEW w \in ExportWorkers, job[w].pc # "idle",
           NEW x, x = job[w].export,
           job' \in [ExportWorkers -> Job], \A v \in ExportWorkers \ {w} : job'[v] = job[v],
           export' \in [Exports -> ExportRow], \A y \in Exports \ {x} : export'[y] = export[y],
           file' \in [Exports -> Files], \A y \in Exports \ {x} : file'[y] = file[y],
           UNCHANGED <<req, queue, repeated>>,
           intact' \in BOOLEAN, generation' \in Nat, faults' \in 0..MaxExportFaults,
           abandoned' \subseteq Exports,
           job'[w].export = x, job'[w].pc # "idle",
           export'[x].status # "absent",
           export'[x].status = "void" <=> export[x].status = "void",
           job'[w].pc \in Rendering => export'[x].status # "void",
           job'[w].pc \in {"pdf", "envelope", "commit"} => job'[w].clean /\ job'[w].generation # 0,
           export'[x].status = "ready" => export'[x].clean,
           x \notin repeated =>
              /\ job'[w].pc \in Rendering => export'[x].status = "generating"
              /\ job'[w].pc \in {"envelope", "commit"} => file'[x].pdf = job'[w].generation
              /\ job'[w].pc = "commit" => file'[x].envelope = job'[w].generation
              /\ export'[x].status = "ready" =>
                    /\ export'[x].sha # 0
                    /\ file'[x].pdf = export'[x].sha /\ file'[x].envelope = export'[x].sha
    PROVE  ExportInv'
<1> USE DEF ExportInv
<1>1. x \in Exports /\ x # NoExport /\ export[x].status # "absent"
  BY ExportAssumption DEF ExportTypeOK, Job, TaskHolds, ExportAssumption
<1>2. ExportTypeOK'
  BY <1>1 DEF ExportTypeOK
<1>3. \A v \in ExportWorkers : job'[v].export = job[v].export
  OBVIOUS
<1>4. ASSUME NEW c \in ExportClients PROVE RequestHolds(c)'
  <2>1. RequestHolds(c) /\ req[c].export \in Exports \cup {NoExport}
    BY DEF ExportTypeOK, Request
  <2>2. req[c].pc # "idle" => req[c].export \in Exports
    BY <2>1 DEF RequestHolds
  <2> QED
    BY <1>1, <1>3, <2>1, <2>2 DEF RequestHolds
<1>5. ASSUME NEW v \in ExportWorkers PROVE TaskHolds(v)'
  <2>1. CASE v = w
    BY <1>1, <1>3, <2>1 DEF TaskHolds
  <2>2. CASE v # w
    <3>1. TaskHolds(v) /\ job'[v] = job[v] /\ job[v].export \in Exports \cup {NoExport}
      BY <1>3, <2>2 DEF ExportTypeOK, Job
    <3>2. job[v].pc # "idle" => job[v].export \in Exports
      BY <3>1 DEF TaskHolds
    <3>3. CASE job[v].export = x
      BY <1>1, <1>3, <3>1, <3>3 DEF TaskHolds, Rendering
    <3>4. CASE job[v].export # x
      BY <1>3, <3>1, <3>2, <3>4 DEF TaskHolds, Rendering
    <3> QED
      BY <3>3, <3>4
  <2> QED
    BY <2>1, <2>2
<1>6. ASSUME NEW y \in Exports PROVE Unasked(y)'
  BY <1>1, <1>3 DEF Unasked
<1>7. ReadyIsClean'
  BY <1>1, <1>3 DEF ReadyIsClean
<1>8. ASSUME NEW y \in Exports \ repeated' PROVE Single(y)'
  <2>1. Single(y)
    OBVIOUS
  <2> QED
    BY <1>3, <2>1 DEF Single
<1>9. ASSUME NEW y \in Exports \ repeated' PROVE FilesFollow(y)'
  <2>1. FilesFollow(y) /\ Single(y) /\ y \notin repeated
    OBVIOUS
  <2>2. CASE y = x
    <3>1. \A v \in ExportWorkers : job[v].export = x => v = w
      BY <2>1, <2>2 DEF Single
    <3> QED
      BY <1>1, <1>3, <2>1, <2>2, <3>1 DEF FilesFollow
  <2>3. CASE y # x
    <3>1. \A v \in ExportWorkers : job'[v].export = y => job'[v] = job[v]
      BY <1>3, <2>3
    <3> QED
      BY <1>3, <2>1, <2>3, <3>1 DEF FilesFollow
  <2> QED
    BY <2>2, <2>3
<1> QED
  BY <1>2, <1>4, <1>5, <1>6, <1>7, <1>8, <1>9

\* The steps of generate_audit_export_task.
LEMMA TaskSteps ==
    ASSUME ExportInv, NEW w \in ExportWorkers,
           \/ Missing(w) \/ Start(w) \/ ReadRows(w) \/ Verified(w) \/ ChainInvalid(w)
           \/ WritePdf(w) \/ WriteEnvelope(w) \/ CommitReady(w)
           \/ GenerationFails(w) \/ DatabaseGone(w)
    PROVE  ExportInv'
<1>1. SUFFICES ASSUME NEW x, x = job[w].export PROVE ExportInv'
  OBVIOUS
<1>2. /\ job[w] \in Job /\ TaskHolds(w)
      /\ job[w].pc # "idle"
  BY DEF ExportInv, ExportTypeOK, Missing, Start, ReadRows, Verified, ChainInvalid, WritePdf, WriteEnvelope,
         CommitReady, GenerationFails, DatabaseGone
<1>3. /\ x \in Exports /\ export[x] \in ExportRow /\ file[x] \in Files
      /\ export[x].status # "absent"
  BY <1>1, <1>2 DEF ExportInv, ExportTypeOK, Job, TaskHolds
<1>4. /\ export \in [Exports -> ExportRow] /\ file \in [Exports -> Files]
      /\ job \in [ExportWorkers -> Job]
  BY DEF ExportInv, ExportTypeOK
<1>5. /\ intact \in BOOLEAN /\ generation \in Nat /\ faults \in 0..MaxExportFaults
      /\ abandoned \subseteq Exports
  BY DEF ExportInv, ExportTypeOK
<1>6. export[x].status = "ready" => export[x].clean
  BY <1>3 DEF ExportInv, ReadyIsClean
<1>7. x \notin repeated =>
        /\ job[w].pc \in Rendering => export[x].status = "generating"
        /\ job[w].pc \in {"envelope", "commit"} => file[x].pdf = job[w].generation
        /\ job[w].pc = "commit" => file[x].envelope = job[w].generation
        /\ export[x].status = "ready" =>
              export[x].sha # 0 /\ file[x].pdf = export[x].sha /\ file[x].envelope = export[x].sha
  BY <1>1, <1>3 DEF ExportInv, FilesFollow
<1>8. ASSUME NEW pc \in JobPC
      PROVE  LET r == [job[w] EXCEPT !.pc = pc]
             IN  /\ r \in Job /\ r.pc = pc /\ r.export = x
                 /\ r.generation = job[w].generation /\ r.clean = job[w].clean
  BY <1>1, <1>2 DEF Job
<1>9. ASSUME NEW st \in AuditExportStatus
      PROVE  LET row == [export[x] EXCEPT !.status = st]
             IN  /\ row \in ExportRow /\ row.status = st
                 /\ row.sha = export[x].sha /\ row.clean = export[x].clean
  BY <1>3 DEF ExportRow
<1>10. CASE Missing(w)
  <2> DEFINE r == [job[w] EXCEPT !.pc = "done"]
  <2>1. /\ r \in Job /\ r.pc = "done" /\ r.export = x /\ job' = [job EXCEPT ![w] = r]
    BY <1>8, <1>10 DEF JobPC, Missing, Moves
  <2> HIDE DEF r
  <2>2. /\ job' \in [ExportWorkers -> Job] /\ job'[w] = r
        /\ \A v \in ExportWorkers \ {w} : job'[v] = job[v]
    BY <1>4, <2>1
  <2>3. /\ export' \in [Exports -> ExportRow] /\ export'[x] = export[x]
        /\ \A y \in Exports \ {x} : export'[y] = export[y]
    BY <1>4, <1>10 DEF Missing
  <2>4. /\ file' \in [Exports -> Files] /\ file'[x] = file[x]
        /\ \A y \in Exports \ {x} : file'[y] = file[y]
    BY <1>4, <1>10 DEF Missing
  <2>5. /\ UNCHANGED <<req, queue, repeated>>
        /\ intact' \in BOOLEAN /\ generation' \in Nat /\ faults' \in 0..MaxExportFaults
        /\ abandoned' \subseteq Exports
    BY <1>5, <1>10 DEF Missing
  <2> QED
    BY <1>1, <1>2, <1>3, <1>6, <1>7, <2>1, <2>2, <2>3, <2>4, <2>5,
       TaskMoves DEF Rendering
<1>11. CASE DatabaseGone(w)
  <2> DEFINE r == [job[w] EXCEPT !.pc = "done"]
  <2>1. /\ r \in Job /\ r.pc = "done" /\ r.export = x /\ job' = [job EXCEPT ![w] = r]
    BY <1>8, <1>11 DEF JobPC, DatabaseGone, Moves
  <2>2. abandoned' \subseteq Exports
    BY <1>1, <1>3, <1>5, <1>11 DEF DatabaseGone
  <2> HIDE DEF r
  <2>3. /\ job' \in [ExportWorkers -> Job] /\ job'[w] = r
        /\ \A v \in ExportWorkers \ {w} : job'[v] = job[v]
    BY <1>4, <2>1
  <2>4. /\ export' \in [Exports -> ExportRow] /\ export'[x] = export[x]
        /\ \A y \in Exports \ {x} : export'[y] = export[y]
    BY <1>4, <1>11 DEF DatabaseGone
  <2>5. /\ file' \in [Exports -> Files] /\ file'[x] = file[x]
        /\ \A y \in Exports \ {x} : file'[y] = file[y]
    BY <1>4, <1>11 DEF DatabaseGone
  <2>6. /\ UNCHANGED <<req, queue, repeated>>
        /\ intact' \in BOOLEAN /\ generation' \in Nat /\ faults' \in 0..MaxExportFaults
        /\ abandoned' \subseteq Exports
    BY <1>5, <1>11, <2>2 DEF DatabaseGone
  <2> QED
    BY <1>1, <1>2, <1>3, <1>6, <1>7, <2>1, <2>2, <2>3, <2>4, <2>5, <2>6,
       TaskMoves DEF Rendering
<1>12. CASE Start(w)
  <2> DEFINE r == [job[w] EXCEPT !.pc = "read"]
             row == [export[x] EXCEPT !.status = "generating"]
  <2>1. /\ r \in Job /\ r.pc = "read" /\ r.export = x /\ job' = [job EXCEPT ![w] = r]
    BY <1>8, <1>12 DEF JobPC, Start, Moves
  <2>2. /\ row \in ExportRow /\ row.status = "generating" /\ export' = [export EXCEPT ![x] = row]
    BY <1>1, <1>9, <1>12 DEF AuditExportStatus, Start
  <2>3. export[x].status # "void"
    BY <1>1, <1>12 DEF Start, AuditExportStatus
  <2> HIDE DEF r, row
  <2>4. /\ job' \in [ExportWorkers -> Job] /\ job'[w] = r
        /\ \A v \in ExportWorkers \ {w} : job'[v] = job[v]
    BY <1>4, <2>1
  <2>5. /\ export' \in [Exports -> ExportRow] /\ export'[x] = row
        /\ \A y \in Exports \ {x} : export'[y] = export[y]
    BY <1>3, <1>4, <2>2
  <2>6. /\ file' \in [Exports -> Files] /\ file'[x] = file[x]
        /\ \A y \in Exports \ {x} : file'[y] = file[y]
    BY <1>4, <1>12 DEF Start
  <2>7. /\ UNCHANGED <<req, queue, repeated>>
        /\ intact' \in BOOLEAN /\ generation' \in Nat /\ faults' \in 0..MaxExportFaults
        /\ abandoned' \subseteq Exports
    BY <1>5, <1>12 DEF Start
  <2> QED
    BY <1>1, <1>2, <1>3, <1>6, <1>7, <2>1, <2>2, <2>3, <2>4, <2>5, <2>6, <2>7,
       TaskMoves DEF Rendering
<1>13. CASE ReadRows(w)
  <2> DEFINE r == JobAt("verify", x, job[w].generation, intact)
  <2>1. /\ r \in Job /\ r.pc = "verify" /\ r.export = x
    BY <1>2, <1>3, <1>5 DEF JobAt, Job, JobPC
  <2>2. /\ job' = [job EXCEPT ![w] = r] /\ job[w].pc = "read"
    BY <1>1, <1>13 DEF ReadRows
  <2>3. export[x].status # "void"
    BY <1>1, <1>2, <2>2 DEF TaskHolds, Rendering
  <2> HIDE DEF r
  <2>4. /\ job' \in [ExportWorkers -> Job] /\ job'[w] = r
        /\ \A v \in ExportWorkers \ {w} : job'[v] = job[v]
    BY <1>4, <2>1, <2>2
  <2>5. /\ export' \in [Exports -> ExportRow] /\ export'[x] = export[x]
        /\ \A y \in Exports \ {x} : export'[y] = export[y]
    BY <1>4, <1>13 DEF ReadRows
  <2>6. /\ file' \in [Exports -> Files] /\ file'[x] = file[x]
        /\ \A y \in Exports \ {x} : file'[y] = file[y]
    BY <1>4, <1>13 DEF ReadRows
  <2>7. /\ UNCHANGED <<req, queue, repeated>>
        /\ intact' \in BOOLEAN /\ generation' \in Nat /\ faults' \in 0..MaxExportFaults
        /\ abandoned' \subseteq Exports
    BY <1>5, <1>13, <2>2 DEF ReadRows
  <2> QED
    BY <1>1, <1>2, <1>3, <1>6, <1>7, <2>1, <2>2, <2>3, <2>4, <2>5, <2>6, <2>7,
       TaskMoves DEF Rendering
<1>14. CASE Verified(w)
  <2> DEFINE r == JobAt("pdf", x, generation + 1, job[w].clean)
  <2>1. /\ r \in Job /\ r.pc = "pdf" /\ r.export = x /\ r.clean = job[w].clean
        /\ r.generation = generation + 1
    BY <1>2, <1>3, <1>5 DEF JobAt, Job, JobPC
  <2>2. /\ job' = [job EXCEPT ![w] = r] /\ job[w].pc = "verify" /\ job[w].clean
    BY <1>1, <1>14 DEF Verified
  <2>3. export[x].status # "void"
    BY <1>1, <1>2, <2>2 DEF TaskHolds, Rendering
  <2>4. generation + 1 # 0 /\ generation' \in Nat
    BY <1>5, <1>14 DEF Verified
  <2> HIDE DEF r
  <2>5. /\ job' \in [ExportWorkers -> Job] /\ job'[w] = r
        /\ \A v \in ExportWorkers \ {w} : job'[v] = job[v]
    BY <1>4, <2>1, <2>2
  <2>6. /\ export' \in [Exports -> ExportRow] /\ export'[x] = export[x]
        /\ \A y \in Exports \ {x} : export'[y] = export[y]
    BY <1>4, <1>14 DEF Verified
  <2>7. /\ file' \in [Exports -> Files] /\ file'[x] = file[x]
        /\ \A y \in Exports \ {x} : file'[y] = file[y]
    BY <1>4, <1>14 DEF Verified
  <2>8. /\ UNCHANGED <<req, queue, repeated>>
        /\ intact' \in BOOLEAN /\ generation' \in Nat /\ faults' \in 0..MaxExportFaults
        /\ abandoned' \subseteq Exports
    BY <1>5, <1>14, <2>2, <2>4 DEF Verified
  <2>9. job'[w].clean = TRUE /\ job'[w].generation # 0
    BY <1>2, <2>1, <2>2, <2>4, <2>5 DEF Job
  <2> QED
    BY <1>1, <1>2, <1>3, <1>6, <1>7, <2>1, <2>2, <2>3, <2>4, <2>5, <2>6, <2>7, <2>8,
       <2>9, TaskMoves DEF Rendering
<1>15. CASE ChainInvalid(w) \/ GenerationFails(w)
  <2> DEFINE r == [job[w] EXCEPT !.pc = "done"]
             row == [export[x] EXCEPT !.status = "failed"]
  <2>1. Fail(w) /\ job[w].pc \in Rendering
    BY <1>15 DEF ChainInvalid, GenerationFails, Rendering
  <2>2. /\ r \in Job /\ r.pc = "done" /\ r.export = x /\ job' = [job EXCEPT ![w] = r]
    BY <1>8, <2>1 DEF JobPC, Fail, Moves
  <2>3. /\ row \in ExportRow /\ row.status = "failed" /\ export' = [export EXCEPT ![x] = row]
    BY <1>1, <1>9, <2>1 DEF AuditExportStatus, Fail
  <2>4. export[x].status # "void"
    BY <1>1, <1>2, <2>1 DEF TaskHolds
  <2> HIDE DEF r, row
  <2>5. /\ job' \in [ExportWorkers -> Job] /\ job'[w] = r
        /\ \A v \in ExportWorkers \ {w} : job'[v] = job[v]
    BY <1>4, <2>2
  <2>6. /\ export' \in [Exports -> ExportRow] /\ export'[x] = row
        /\ \A y \in Exports \ {x} : export'[y] = export[y]
    BY <1>3, <1>4, <2>3
  <2>7. /\ file' \in [Exports -> Files] /\ file'[x] = file[x]
        /\ \A y \in Exports \ {x} : file'[y] = file[y]
    BY <1>4, <1>15 DEF ChainInvalid, GenerationFails, Fail
  <2>8. /\ UNCHANGED <<req, queue, repeated>>
        /\ intact' \in BOOLEAN /\ generation' \in Nat /\ faults' \in 0..MaxExportFaults
        /\ abandoned' \subseteq Exports
    BY <1>5, <1>15 DEF ChainInvalid, GenerationFails, Fail
  <2> QED
    BY <1>1, <1>2, <1>3, <1>6, <1>7, <2>1, <2>2, <2>3, <2>4, <2>5, <2>6, <2>7, <2>8,
       TaskMoves DEF Rendering
<1>16. CASE WritePdf(w)
  <2> DEFINE r == [job[w] EXCEPT !.pc = "envelope"]
             files == [file[x] EXCEPT !.pdf = job[w].generation]
  <2>1. /\ r \in Job /\ r.pc = "envelope" /\ r.export = x /\ job' = [job EXCEPT ![w] = r]
        /\ r.generation = job[w].generation /\ r.clean = job[w].clean
    BY <1>8, <1>16 DEF JobPC, WritePdf, Moves
  <2>2. /\ files \in Files /\ files.pdf = job[w].generation /\ file' = [file EXCEPT ![x] = files]
    BY <1>1, <1>2, <1>3, <1>16 DEF WritePdf, Files, Job
  <2>3. /\ job[w].pc = "pdf" /\ export[x].status # "void" /\ job[w].clean /\ job[w].generation # 0
    BY <1>1, <1>2, <1>16 DEF WritePdf, TaskHolds, Rendering
  <2> HIDE DEF r, files
  <2>4. /\ job' \in [ExportWorkers -> Job] /\ job'[w] = r
        /\ \A v \in ExportWorkers \ {w} : job'[v] = job[v]
    BY <1>4, <2>1
  <2>5. /\ export' \in [Exports -> ExportRow] /\ export'[x] = export[x]
        /\ \A y \in Exports \ {x} : export'[y] = export[y]
    BY <1>4, <1>16 DEF WritePdf
  <2>6. /\ file' \in [Exports -> Files] /\ file'[x] = files
        /\ \A y \in Exports \ {x} : file'[y] = file[y]
    BY <1>3, <1>4, <2>2
  <2>7. /\ UNCHANGED <<req, queue, repeated>>
        /\ intact' \in BOOLEAN /\ generation' \in Nat /\ faults' \in 0..MaxExportFaults
        /\ abandoned' \subseteq Exports
    BY <1>5, <1>16 DEF WritePdf
  <2>8. job'[w].clean = TRUE /\ job'[w].generation # 0
    BY <1>2, <2>1, <2>2, <2>3, <2>4 DEF Job
  <2> QED
    BY <1>1, <1>2, <1>3, <1>6, <1>7, <2>1, <2>2, <2>3, <2>4, <2>5, <2>6, <2>7,
       <2>8, TaskMoves DEF Rendering
<1>17. CASE WriteEnvelope(w)
  <2> DEFINE r == [job[w] EXCEPT !.pc = "commit"]
             files == [file[x] EXCEPT !.envelope = job[w].generation]
  <2>1. /\ r \in Job /\ r.pc = "commit" /\ r.export = x /\ job' = [job EXCEPT ![w] = r]
        /\ r.generation = job[w].generation /\ r.clean = job[w].clean
    BY <1>8, <1>17 DEF JobPC, WriteEnvelope, Moves
  <2>2. /\ files \in Files /\ files.envelope = job[w].generation /\ files.pdf = file[x].pdf
        /\ file' = [file EXCEPT ![x] = files]
    BY <1>1, <1>2, <1>3, <1>17 DEF WriteEnvelope, Files, Job
  <2>3. /\ job[w].pc = "envelope" /\ export[x].status # "void" /\ job[w].clean
        /\ job[w].generation # 0
    BY <1>1, <1>2, <1>17 DEF WriteEnvelope, TaskHolds, Rendering
  <2> HIDE DEF r, files
  <2>4. /\ job' \in [ExportWorkers -> Job] /\ job'[w] = r
        /\ \A v \in ExportWorkers \ {w} : job'[v] = job[v]
    BY <1>4, <2>1
  <2>5. /\ export' \in [Exports -> ExportRow] /\ export'[x] = export[x]
        /\ \A y \in Exports \ {x} : export'[y] = export[y]
    BY <1>4, <1>17 DEF WriteEnvelope
  <2>6. /\ file' \in [Exports -> Files] /\ file'[x] = files
        /\ \A y \in Exports \ {x} : file'[y] = file[y]
    BY <1>3, <1>4, <2>2
  <2>7. /\ UNCHANGED <<req, queue, repeated>>
        /\ intact' \in BOOLEAN /\ generation' \in Nat /\ faults' \in 0..MaxExportFaults
        /\ abandoned' \subseteq Exports
    BY <1>5, <1>17 DEF WriteEnvelope
  <2>8. job'[w].clean = TRUE /\ job'[w].generation # 0
    BY <1>2, <2>1, <2>2, <2>3, <2>4 DEF Job
  <2> QED
    BY <1>1, <1>2, <1>3, <1>6, <1>7, <2>1, <2>2, <2>3, <2>4, <2>5, <2>6, <2>7,
       <2>8, TaskMoves DEF Rendering
<1>18. CASE CommitReady(w)
  <2> DEFINE r == [job[w] EXCEPT !.pc = "done"]
             row == [status |-> "ready", sha |-> job[w].generation, clean |-> job[w].clean]
  <2>1. /\ r \in Job /\ r.pc = "done" /\ r.export = x /\ job' = [job EXCEPT ![w] = r]
    BY <1>8, <1>18 DEF JobPC, CommitReady, Moves
  <2>2. /\ row \in ExportRow /\ row.status = "ready" /\ row.sha = job[w].generation
        /\ row.clean = job[w].clean /\ export' = [export EXCEPT ![x] = row]
    BY <1>1, <1>2, <1>18 DEF AuditExportStatus, CommitReady, ExportRow, Job
  <2>3. /\ job[w].pc = "commit" /\ export[x].status # "void" /\ job[w].clean
        /\ job[w].generation # 0
    BY <1>1, <1>2, <1>18 DEF CommitReady, TaskHolds, Rendering
  <2> HIDE DEF r, row
  <2>4. /\ job' \in [ExportWorkers -> Job] /\ job'[w] = r
        /\ \A v \in ExportWorkers \ {w} : job'[v] = job[v]
    BY <1>4, <2>1
  <2>5. /\ export' \in [Exports -> ExportRow] /\ export'[x] = row
        /\ \A y \in Exports \ {x} : export'[y] = export[y]
    BY <1>3, <1>4, <2>2
  <2>6. /\ file' \in [Exports -> Files] /\ file'[x] = file[x]
        /\ \A y \in Exports \ {x} : file'[y] = file[y]
    BY <1>4, <1>18 DEF CommitReady
  <2>7. /\ UNCHANGED <<req, queue, repeated>>
        /\ intact' \in BOOLEAN /\ generation' \in Nat /\ faults' \in 0..MaxExportFaults
        /\ abandoned' \subseteq Exports
    BY <1>5, <1>18 DEF CommitReady
  <2>8. export'[x].clean = TRUE
    BY <1>2, <2>2, <2>3, <2>5 DEF Job
  <2> QED
    BY <1>1, <1>2, <1>3, <1>6, <1>7, <2>1, <2>2, <2>3, <2>4, <2>5, <2>6, <2>7,
       <2>8, TaskMoves DEF Rendering
<1> QED
  BY <1>10, <1>11, <1>12, <1>13, <1>14, <1>15, <1>16, <1>17, <1>18

\* A task that begins or ends: its message leaves or enters the queue.
LEMMA DeliverySteps ==
    ASSUME ExportInv, NEW w \in ExportWorkers,
           Delivery(w) \/ Acknowledge(w) \/ WorkerCrash(w) \/ Redeliver(w)
    PROVE  ExportInv'
<1> USE DEF ExportInv
<1>1. ASSUME NEW x \in Exports, Deliver(w, x) PROVE ExportInv'
  <2>1. /\ JobAt("start", x, 0, TRUE) \in Job
        /\ JobAt("start", x, 0, TRUE).pc = "start" /\ JobAt("start", x, 0, TRUE).export = x
    BY DEF JobAt, Job, JobPC
  <2>2. /\ job' \in [ExportWorkers -> Job]
        /\ job'[w].pc = "start" /\ job'[w].export = x
        /\ \A v \in ExportWorkers \ {w} : job'[v] = job[v]
    BY <1>1, <2>1 DEF Deliver, ExportTypeOK
  <2>3. /\ queue[x] \in Nat /\ queue[x] > 0 /\ queue'[x] = queue[x] - 1
        /\ queue' \in [Exports -> Nat] /\ \A y \in Exports \ {x} : queue'[y] = queue[y]
    BY <1>1 DEF Deliver, ExportTypeOK
  <2>4. /\ UNCHANGED <<export, file, intact, req, generation, faults, repeated, abandoned>>
        /\ job[w].pc = "idle"
    BY <1>1 DEF Deliver
  <2>5. ExportTypeOK'
    BY <2>2, <2>3, <2>4 DEF ExportTypeOK
  <2>6. export[x].status # "absent"
    BY <2>3 DEF Unasked
  <2>7. \A c \in ExportClients : RequestHolds(c)'
    BY <2>4 DEF RequestHolds
  <2>8. ASSUME NEW v \in ExportWorkers PROVE TaskHolds(v)'
    <3>1. TaskHolds(v)
      OBVIOUS
    <3>2. x # NoExport
      BY ExportAssumption DEF ExportAssumption
    <3> QED
      BY <2>2, <2>4, <2>6, <3>1, <3>2 DEF TaskHolds, Rendering
  <2>9. \A y \in Exports : Unasked(y)'
    BY <2>3, <2>4, <2>6 DEF Unasked
  <2>10. ReadyIsClean'
    BY <2>4 DEF ReadyIsClean
  <2>11. ASSUME NEW y \in Exports \ repeated' PROVE Single(y)' /\ FilesFollow(y)'
    <3>1. Single(y) /\ FilesFollow(y) /\ TaskHolds(w)
      BY <2>4
    <3>2. job[w].export # y
      BY <2>4, ExportAssumption DEF TaskHolds, ExportAssumption
    <3>3. CASE y = x
      <4>1. queue[x] = 1 /\ queue'[x] = 0
        BY <2>3, <3>1, <3>3 DEF Single
      <4>2. \A v \in ExportWorkers : job[v].export # x
        BY <3>1, <3>3, <4>1 DEF Single
      <4> QED
        BY <2>2, <2>4, <3>1, <3>3, <4>1, <4>2 DEF Single, FilesFollow, Rendering
    <3>4. CASE y # x
      BY <2>2, <2>3, <2>4, <3>1, <3>2, <3>4 DEF Single, FilesFollow, Rendering
    <3> QED
      BY <3>3, <3>4
  <2> QED
    BY <2>5, <2>7, <2>8, <2>9, <2>10, <2>11
<1>2. CASE Acknowledge(w) \/ WorkerCrash(w)
  <2>1. SUFFICES ASSUME NEW x, x = job[w].export PROVE ExportInv'
    OBVIOUS
  <2>2. /\ NoJob \in Job /\ NoJob.pc = "idle" /\ NoJob.export = NoExport
    BY DEF NoJob, JobAt, Job, JobPC
  <2>3. /\ job' \in [ExportWorkers -> Job]
        /\ job'[w].pc = "idle" /\ job'[w].export = NoExport
        /\ \A v \in ExportWorkers \ {w} : job'[v] = job[v]
    BY <1>2, <2>2 DEF Acknowledge, WorkerCrash, ExportTypeOK
  <2>4. /\ x \in Exports /\ export[x].status # "absent" /\ x # NoExport
    <3>1. job[w] \in Job /\ TaskHolds(w) /\ job[w].pc # "idle"
      BY <1>2 DEF Acknowledge, WorkerCrash, ExportTypeOK
    <3> QED
      BY <2>1, <3>1, ExportAssumption DEF TaskHolds, Job, ExportAssumption
  <2>5. /\ queue' \in [Exports -> Nat] /\ queue'[x] \in {queue[x], queue[x] + 1}
        /\ \A y \in Exports \ {x} : queue'[y] = queue[y]
    BY <1>2, <2>1, <2>4 DEF Acknowledge, WorkerCrash, ExportTypeOK
  <2>6. /\ UNCHANGED <<export, file, intact, req, generation, repeated, abandoned>>
        /\ faults' \in 0..MaxExportFaults
    BY <1>2, ExportAssumption DEF Acknowledge, WorkerCrash, ExportTypeOK, ExportAssumption
  <2>7. ExportTypeOK'
    BY <2>3, <2>5, <2>6 DEF ExportTypeOK
  <2>8. \A c \in ExportClients : RequestHolds(c)'
    BY <2>6 DEF RequestHolds
  <2>9. ASSUME NEW v \in ExportWorkers PROVE TaskHolds(v)'
    BY <2>3, <2>6 DEF TaskHolds, Rendering
  <2>10. \A y \in Exports : Unasked(y)'
    BY <2>4, <2>5, <2>6 DEF Unasked
  <2>11. ReadyIsClean'
    BY <2>6 DEF ReadyIsClean
  <2>12. ASSUME NEW y \in Exports \ repeated' PROVE Single(y)' /\ FilesFollow(y)'
    <3>1. Single(y) /\ FilesFollow(y)
      BY <2>6
    <3>2. NoExport # y
      BY ExportAssumption DEF ExportAssumption
    <3>3. CASE y = x
      <4>1. /\ queue[x] = 0 /\ \A v \in ExportWorkers : job[v].export = x => v = w
            /\ \A c \in ExportClients : ~ (req[c].export = x /\ req[c].pc = "flushed")
        BY <2>1, <3>1, <3>3 DEF Single
      <4>2. \A v \in ExportWorkers : job'[v].export # x
        BY <2>3, <3>2, <3>3, <4>1
      <4> QED
        BY <2>5, <2>6, <3>1, <3>3, <4>1, <4>2 DEF Single, FilesFollow
    <3>4. CASE y # x
      BY <2>3, <2>5, <2>6, <3>1, <3>2, <3>4 DEF Single, FilesFollow
    <3> QED
      BY <3>3, <3>4
  <2> QED
    BY <2>7, <2>8, <2>9, <2>10, <2>11, <2>12
<1>3. CASE Redeliver(w)
  <2>1. SUFFICES ASSUME NEW x, x = job[w].export PROVE ExportInv'
    OBVIOUS
  <2>2. /\ x \in Exports /\ export[x].status # "absent"
    <3>1. job[w] \in Job /\ TaskHolds(w) /\ job[w].pc # "idle"
      BY <1>3 DEF Redeliver, ExportTypeOK
    <3> QED
      BY <2>1, <3>1, ExportAssumption DEF TaskHolds, Job, ExportAssumption
  <2>3. /\ queue' \in [Exports -> Nat] /\ \A y \in Exports \ {x} : queue'[y] = queue[y]
    BY <1>3, <2>1, <2>2 DEF Redeliver, ExportTypeOK
  <2>4. /\ UNCHANGED <<export, file, intact, req, job, generation, abandoned>>
        /\ repeated' = repeated \cup {x} /\ faults' \in 0..MaxExportFaults
    BY <1>3, <2>1, ExportAssumption DEF Redeliver, ExportTypeOK, ExportAssumption
  <2>5. ExportTypeOK'
    BY <2>2, <2>3, <2>4 DEF ExportTypeOK
  <2>6. /\ \A c \in ExportClients : RequestHolds(c)'
        /\ \A v \in ExportWorkers : TaskHolds(v)'
        /\ ReadyIsClean'
    BY <2>4 DEF RequestHolds, TaskHolds, ReadyIsClean
  <2>7. \A y \in Exports : Unasked(y)'
    BY <2>2, <2>3, <2>4 DEF Unasked
  <2>8. ASSUME NEW y \in Exports \ repeated' PROVE Single(y)' /\ FilesFollow(y)'
    <3>1. Single(y) /\ FilesFollow(y) /\ y # x
      BY <2>4
    <3> QED
      BY <2>3, <2>4, <3>1 DEF Single, FilesFollow
  <2> QED
    BY <2>5, <2>6, <2>7, <2>8
<1> QED
  BY <1>1, <1>2, <1>3 DEF Delivery

\* POST /v1/audit/exports: a request draws an export nobody else has.
LEMMA RequestSteps ==
    ASSUME ExportInv, NEW c \in ExportClients,
           (\E x \in Exports : CreateFlush(c, x)) \/ RequestStep(c) \/ RequestFails(c)
    PROVE  ExportInv'
<1> USE DEF ExportInv
<1>1. ASSUME NEW x \in Exports, CreateFlush(c, x) PROVE ExportInv'
  <2>1. /\ req' \in [ExportClients -> Request]
        /\ req'[c].pc = "flushed" /\ req'[c].export = x /\ req[c].pc = "idle"
        /\ \A d \in ExportClients \ {c} : req'[d] = req[d]
    BY <1>1 DEF CreateFlush, ExportTypeOK, Request
  <2>2. /\ export' \in [Exports -> ExportRow]
        /\ export'[x].status = "void" /\ export[x].status = "absent"
        /\ \A y \in Exports \ {x} : export'[y] = export[y]
    <3>1. export[x] \in ExportRow
      BY DEF ExportTypeOK
    <3>2. [export[x] EXCEPT !.status = "void"] \in ExportRow
          /\ [export[x] EXCEPT !.status = "void"].status = "void"
      BY <3>1 DEF ExportRow
    <3> QED
      BY <1>1, <3>2 DEF CreateFlush, ExportTypeOK
  <2>3. UNCHANGED <<file, intact, queue, job, generation, faults, repeated, abandoned>>
    BY <1>1 DEF CreateFlush
  <2>4. /\ \A d \in ExportClients : req[d].pc # "idle" => req[d].export # x
        /\ \A w \in ExportWorkers : job[w].pc # "idle" => job[w].export # x
        /\ \A w \in ExportWorkers : job[w].export # x
        /\ x # NoExport /\ queue[x] = 0
    BY <2>2, ExportAssumption DEF RequestHolds, TaskHolds, Unasked, ExportAssumption
  <2>5. ExportTypeOK'
    BY <2>1, <2>2, <2>3 DEF ExportTypeOK
  <2>6. ASSUME NEW d \in ExportClients PROVE RequestHolds(d)'
    <3>1. RequestHolds(d) /\ req[d] \in Request
      BY DEF ExportTypeOK
    <3>2. CASE d = c
      <4>1. \A e \in ExportClients : req'[e].export = x => e = c
        BY <2>1, <2>4 DEF RequestHolds
      <4> QED
        BY <2>1, <2>2, <2>4, <3>2, <4>1 DEF RequestHolds
    <3>3. CASE d # c
      <4>1. req'[d] = req[d]
        BY <2>1, <3>3
      <4>2. req[d].pc # "idle" => req[d].export \in Exports \ {x}
        BY <2>4, <3>1 DEF RequestHolds, Request
      <4> QED
        BY <2>1, <2>2, <2>4, <3>1, <3>3, <4>1, <4>2 DEF RequestHolds
    <3> QED
      BY <3>2, <3>3
  <2>7. ASSUME NEW w \in ExportWorkers PROVE TaskHolds(w)'
    <3>1. TaskHolds(w) /\ job[w] \in Job /\ job[w].export # x
      BY <2>4 DEF ExportTypeOK
    <3>2. job[w].pc # "idle" => job[w].export \in Exports \ {x}
      BY <3>1 DEF TaskHolds, Job
    <3> QED
      BY <2>2, <2>3, <3>1, <3>2 DEF TaskHolds, Rendering
  <2>8. \A y \in Exports : Unasked(y)'
    BY <2>2, <2>3 DEF Unasked
  <2>9. ReadyIsClean'
    BY <2>2 DEF ReadyIsClean
  <2>10. ASSUME NEW y \in Exports \ repeated' PROVE Single(y)' /\ FilesFollow(y)'
    <3>1. Single(y) /\ FilesFollow(y)
      BY <2>3
    <3>2. CASE y = x
      BY <2>1, <2>2, <2>3, <2>4, <3>1, <3>2 DEF Single, FilesFollow
    <3>3. CASE y # x
      BY <2>1, <2>2, <2>3, <3>1, <3>3 DEF Single, FilesFollow
    <3> QED
      BY <3>2, <3>3
  <2> QED
    BY <2>5, <2>6, <2>7, <2>8, <2>9, <2>10
<1>2. CASE Enqueue(c)
  <2>1. SUFFICES ASSUME NEW x, x = req[c].export PROVE ExportInv'
    OBVIOUS
  <2>2. /\ req[c] \in Request /\ RequestHolds(c) /\ req[c].pc = "flushed"
    BY <1>2 DEF Enqueue, ExportTypeOK
  <2>3. /\ x \in Exports /\ export[x].status = "void"
    BY <2>1, <2>2 DEF RequestHolds, Request
  <2>4. /\ req' \in [ExportClients -> Request]
        /\ req'[c].pc = "enqueued" /\ req'[c].export = x
        /\ \A d \in ExportClients \ {c} : req'[d] = req[d]
    <3>1. /\ [req[c] EXCEPT !.pc = "enqueued"] \in Request
          /\ [req[c] EXCEPT !.pc = "enqueued"].pc = "enqueued"
          /\ [req[c] EXCEPT !.pc = "enqueued"].export = x
      BY <2>1, <2>2 DEF Request
    <3> QED
      BY <1>2, <3>1 DEF Enqueue, ExportTypeOK
  <2>5. /\ queue' \in [Exports -> Nat] /\ queue'[x] \in {queue[x], queue[x] + 1}
        /\ \A y \in Exports \ {x} : queue'[y] = queue[y]
    BY <1>2, <2>1, <2>3 DEF Enqueue, ExportTypeOK
  <2>6. UNCHANGED <<export, file, intact, job, generation, faults, repeated, abandoned>>
    BY <1>2 DEF Enqueue
  <2>7. ExportTypeOK'
    BY <2>4, <2>5, <2>6 DEF ExportTypeOK
  <2>8. ASSUME NEW d \in ExportClients PROVE RequestHolds(d)'
    <3>1. RequestHolds(d) /\ \A e \in ExportClients : req'[e].export = req[e].export
      BY <2>1, <2>4
    <3>2. (req'[d].pc = "idle") <=> (req[d].pc = "idle")
      BY <2>2, <2>4
    <3> QED
      BY <2>6, <3>1, <3>2 DEF RequestHolds
  <2>9. /\ \A w \in ExportWorkers : TaskHolds(w)'
        /\ ReadyIsClean'
    BY <2>6 DEF TaskHolds, ReadyIsClean
  <2>10. \A y \in Exports : Unasked(y)'
    BY <2>3, <2>5, <2>6 DEF Unasked
  <2>11. ASSUME NEW y \in Exports \ repeated' PROVE Single(y)'
    <3>1. Single(y)
      BY <2>6
    <3>2. CASE y = x
      <4>1. queue[x] = 0 /\ \A w \in ExportWorkers : job[w].export # x
        BY <2>1, <2>2, <3>1, <3>2 DEF Single
      <4>2. \A d \in ExportClients : ~ (req'[d].export = x /\ req'[d].pc = "flushed")
        BY <2>1, <2>2, <2>4 DEF RequestHolds
      <4> QED
        BY <2>5, <2>6, <3>2, <4>1, <4>2 DEF Single
    <3>3. CASE y # x
      BY <2>4, <2>5, <2>6, <3>1, <3>3 DEF Single
    <3> QED
      BY <3>2, <3>3
  <2>12. ASSUME NEW y \in Exports \ repeated' PROVE FilesFollow(y)'
    BY <2>6 DEF FilesFollow
  <2> QED
    BY <2>7, <2>8, <2>9, <2>10, <2>11, <2>12
<1>3. CASE Commit(c) \/ RequestFails(c)
  <2>1. SUFFICES ASSUME NEW x, x = req[c].export PROVE ExportInv'
    OBVIOUS
  <2>2. /\ req[c] \in Request /\ RequestHolds(c) /\ req[c].pc # "idle"
    BY <1>3 DEF Commit, RequestFails, ExportTypeOK
  <2>3. /\ x \in Exports /\ export[x].status = "void"
    BY <2>1, <2>2 DEF RequestHolds, Request
  <2>4. /\ req' \in [ExportClients -> Request]
        /\ req'[c].pc = "idle" /\ req'[c].export = NoExport
        /\ \A d \in ExportClients \ {c} : req'[d] = req[d]
    BY <1>3 DEF Commit, RequestFails, ExportTypeOK, Request, NoRequest
  <2>5. /\ export' \in [Exports -> ExportRow]
        /\ export'[x].status \in {"void", "pending"}
        /\ \A y \in Exports \ {x} : export'[y] = export[y]
    <3>1. export[x] \in ExportRow
      BY <2>3 DEF ExportTypeOK
    <3>2. [export[x] EXCEPT !.status = "pending"] \in ExportRow
          /\ [export[x] EXCEPT !.status = "pending"].status = "pending"
      BY <3>1 DEF ExportRow, AuditExportStatus
    <3>3. CASE Commit(c)
      BY <2>1, <2>3, <3>2, <3>3 DEF Commit, ExportTypeOK
    <3>4. CASE RequestFails(c)
      BY <2>3, <3>4 DEF RequestFails, ExportTypeOK
    <3> QED
      BY <1>3, <3>3, <3>4
  <2>6. UNCHANGED <<file, intact, queue, job, generation, faults, repeated, abandoned>>
    BY <1>3 DEF Commit, RequestFails
  <2>7. ExportTypeOK'
    BY <2>4, <2>5, <2>6 DEF ExportTypeOK
  <2>8. ASSUME NEW d \in ExportClients PROVE RequestHolds(d)'
    <3>1. CASE d = c
      BY <2>4, <3>1 DEF RequestHolds
    <3>2. CASE d # c
      <4>1. /\ req'[d] = req[d] /\ RequestHolds(d) /\ req[d] \in Request
        BY <2>4, <3>2 DEF ExportTypeOK
      <4>2. req[d].pc # "idle" => req[d].export \in Exports \ {x}
        BY <2>1, <2>2, <3>2, <4>1 DEF RequestHolds, Request
      <4>3. \A e \in ExportClients : req'[e].export = req[d].export /\ req[d].pc # "idle" => d = e
        <5>1. req[d].pc # "idle" => req[d].export # NoExport
          BY <4>1 DEF RequestHolds
        <5> QED
          BY <2>4, <4>1, <5>1 DEF RequestHolds
      <4> QED
        BY <2>5, <4>1, <4>2, <4>3 DEF RequestHolds
    <3> QED
      BY <3>1, <3>2
  <2>9. ASSUME NEW w \in ExportWorkers PROVE TaskHolds(w)'
    <3>1. TaskHolds(w) /\ job[w] \in Job
      BY DEF ExportTypeOK
    <3>2. job[w].pc # "idle" => job[w].export \in Exports
      BY <3>1 DEF TaskHolds, Job
    <3>3. job[w].pc \in Rendering => job[w].export # x
      BY <2>3, <3>1 DEF TaskHolds
    <3> QED
      BY <2>5, <2>6, <3>1, <3>2, <3>3 DEF TaskHolds, Rendering
  <2>10. \A y \in Exports : Unasked(y)'
    BY <2>5, <2>6 DEF Unasked
  <2>11. ReadyIsClean'
    BY <2>5 DEF ReadyIsClean
  <2>12. ASSUME NEW y \in Exports \ repeated' PROVE Single(y)' /\ FilesFollow(y)'
    <3>1. Single(y) /\ FilesFollow(y)
      BY <2>6
    <3>2. Single(y)'
      BY <2>4, <2>6, <3>1 DEF Single
    <3>3. CASE y = x
      <4>1. \A w \in ExportWorkers : job[w].export = x => job[w].pc \notin Rendering
        BY <2>3 DEF TaskHolds
      <4> QED
        BY <2>5, <2>6, <3>1, <3>2, <3>3, <4>1 DEF FilesFollow, Rendering
    <3>4. CASE y # x
      BY <2>5, <2>6, <3>1, <3>2, <3>4 DEF FilesFollow
    <3> QED
      BY <3>3, <3>4
  <2> QED
    BY <2>7, <2>8, <2>9, <2>10, <2>11, <2>12
<1> QED
  BY <1>1, <1>2, <1>3 DEF RequestStep

\* The invariant holds at first.
LEMMA ExportStart == ASSUME ExportInit PROVE ExportInv
<1>1. ExportTypeOK
  BY ExportAssumption
  DEF ExportInit, ExportTypeOK, ExportRow, Files, Request, NoRequest, Job, JobPC, NoJob, JobAt,
      ExportAssumption
<1>2. /\ \A x \in Exports : export[x].status = "absent" /\ queue[x] = 0
      /\ \A c \in ExportClients : req[c].pc = "idle" /\ req[c].export = NoExport
      /\ \A w \in ExportWorkers : job[w].pc = "idle" /\ job[w].export = NoExport
  BY DEF ExportInit, NoRequest, NoJob, JobAt
<1>3. \A x \in Exports : x # NoExport
  BY ExportAssumption DEF ExportAssumption
<1> QED
  BY <1>1, <1>2, <1>3
  DEF ExportInv, RequestHolds, TaskHolds, Rendering, Unasked, ReadyIsClean, Single, FilesFollow

\* An export that can be downloaded shows rows that verified, and the files
\* are the ones whose hashes were committed, for every number of requests,
\* workers, crashes and redeliveries (_generate_export).
THEOREM ExportsAreEvidence == ExportSpec => []ExportsSound
<1>1. ExportInit => ExportInv
  BY ExportStart
<1>2. ExportInv /\ [ExportNext]_exportVars => ExportInv'
  <2> SUFFICES ASSUME ExportInv, [ExportNext]_exportVars PROVE ExportInv'
    OBVIOUS
  <2>1. CASE Corrupt
    <3>1. ExportTypeOK'
      BY <2>1 DEF Corrupt, ExportInv, ExportTypeOK
    <3> QED
      BY <2>1, <3>1 DEF Corrupt, ExportInv, RequestHolds, TaskHolds, Unasked, ReadyIsClean, Single,
                        FilesFollow
  <2>2. CASE UNCHANGED exportVars
    BY <2>2 DEF exportVars, ExportInv, ExportTypeOK, RequestHolds, TaskHolds, Unasked,
                ReadyIsClean, Single, FilesFollow
  <2> QED
    BY <2>1, <2>2, RequestSteps, DeliverySteps, TaskSteps DEF ExportNext, TaskStep
<1>3. ExportInv => ExportsSound
  BY DEF ExportInv, ExportsSound, DownloadMatches, DownloadPdf, DownloadEnvelope, FilesFollow
<1> QED
  BY <1>1, <1>2, <1>3, PTL DEF ExportSpec

-----------------------------------------------------------------------------
(* AuditDigests *)

\* The digest a tenant's day would get from the rows and the link there are.
Fitting(t, d) == <<DayRows(t, d)>> \o (IF d = 0 THEN <<>> ELSE digest[t][d - 1])

\* A digest fits unless what it was made of has changed since.
Fits(s, t, d) == s # <<>> => <<t, d>> \in disturbed \/ s = Fitting(t, d)

\* Where a run is in its loop.
LoopHolds(w) ==
    /\ nightly[w].pc # "idle" => nightly[w].day + 1 \in Days
    /\ nightly[w].pc \in {"idle", "ended"} => nightly[w].flushed = NoneFlushed
    /\ nightly[w].pc \in {"idle", "loop", "ended"} => nightly[w].current = {}
    /\ nightly[w].pc \in {"ensure", "insert"} => \E t \in nightly[w].todo : nightly[w].current = {t}
    /\ nightly[w].pc = "insert" => nightly[w].computed # <<>>
    /\ nightly[w].pc = "ended" => nightly[w].todo = {}

\* Every tenant is to be visited or has a verdict, and the verdict is so.
VerdictsHold(w) ==
    \A t \in DigestTenants :
        /\ nightly[w].pc # "idle" => t \in nightly[w].todo \/ \E f \in Verdicts : t \in nightly[w].summary[f]
        /\ t \in nightly[w].summary["new"] /\ nightly[w].summary["failed"] = {} /\ ~nightly[w].raced =>
              nightly[w].flushed[t] # <<>> \/ digest[t][nightly[w].day] # <<>>
        /\ t \in nightly[w].summary["verified"] => digest[t][nightly[w].day] # <<>>
        /\ t \in nightly[w].summary["mismatched"] => <<t, nightly[w].day>> \in disturbed

\* What a run flushed or is about to insert fits, and nobody else has it.
FlushedHold(w) ==
    \A t \in DigestTenants :
        /\ Fits(nightly[w].flushed[t], t, nightly[w].day)
        /\ nightly[w].pc = "insert" /\ nightly[w].current = {t} => Fits(nightly[w].computed, t, nightly[w].day)
        /\ nightly[w].flushed[t] # <<>> =>
              /\ digest[t][nightly[w].day] = <<>>
              /\ \A v \in Nightlies \ {w} : nightly[v].day = nightly[w].day => nightly[v].flushed[t] = <<>>

\* The inductive invariant.
DigestInv ==
    /\ DigestTypeOK
    /\ \A w \in Nightlies : LoopHolds(w) /\ VerdictsHold(w) /\ FlushedHold(w)
    /\ \A t \in DigestTenants, d \in Days : Fits(digest[t][d], t, d)

-----------------------------------------------------------------------------

LEMMA DigestBounds ==
    /\ MaxInstant \in Nat /\ MaxInstant >= 1 /\ MaxNightlyFaults \in Nat
    /\ Day(MaxInstant) \in Nat /\ Days = 0..Day(MaxInstant) /\ Days \subseteq Nat /\ 0 \in Days
<1>1. MaxInstant \in Nat /\ MaxInstant >= 1 /\ MaxNightlyFaults \in Nat
  BY DigestAssumption DEF DigestAssumption
<1>2. Day(MaxInstant) \in Nat
  BY <1>1 DEF Day
<1> QED
  BY <1>1, <1>2 DEF Days

LEMMA DayOf ==
    ASSUME NEW i \in 0..MaxInstant
    PROVE  /\ Day(i) \in Days
           /\ \A d \in Nat : (i >= 2 * d /\ i < 2 * d + 2) <=> Day(i) = d
<1>1. Day(i) \in Nat /\ Day(i) <= Day(MaxInstant)
  BY DigestBounds DEF Day
<1>2. \A d \in Nat : (i >= 2 * d /\ i < 2 * d + 2) <=> Day(i) = d
  BY DigestBounds DEF Day
<1> QED
  BY <1>1, <1>2, DigestBounds

\* What is hashed first is what a digest begins with.
LEMMA Linking ==
    ASSUME NEW rows \in SUBSET Content, NEW link \in Digests
    PROVE  /\ <<rows>> \o link \in Digests
           /\ <<rows>> \o link # <<>>
           /\ (<<rows>> \o link)[1] = rows
<1>1. link \in Seq(SUBSET Content)
  BY DEF Digests
<1>2. DEFINE S == SUBSET Content
<1>3. link \in Seq(S) /\ rows \in S
  BY <1>1
<1> HIDE DEF S
<1>4. <<rows>> \in Seq(S) /\ Len(<<rows>>) = 1
  BY <1>3
<1>5. <<rows>> \o link \in Seq(S) /\ Len(<<rows>> \o link) = 1 + Len(link) /\ Len(link) \in Nat
  BY <1>3, <1>4
<1>6. (<<rows>> \o link)[1] = rows
  BY <1>3, <1>4
<1>7. <<rows>> \o link # <<>>
  BY <1>5
<1> QED
  BY <1>5, <1>6, <1>7 DEF Digests, S

LEMMA NoDigest == <<>> \in Digests /\ NoneFlushed \in [DigestTenants -> Digests]
BY DEF Digests, NoneFlushed

LEMMA DayRowsType ==
    ASSUME NEW t, NEW d PROVE DayRows(t, d) \in SUBSET Content
BY DEF DayRows, Between, Content

LEMMA FreshType ==
    ASSUME NEW pc \in {"idle", "loop"}, NEW d \in Days, NEW todo \in SUBSET DigestTenants
    PROVE  /\ Fresh(pc, d, todo) \in Nightly
           /\ Fresh(pc, d, todo).pc = pc /\ Fresh(pc, d, todo).day = d /\ Fresh(pc, d, todo).todo = todo
           /\ Fresh(pc, d, todo).current = {}
           /\ Fresh(pc, d, todo).flushed = NoneFlushed
           /\ \A f \in Verdicts : Fresh(pc, d, todo).summary[f] = {}
BY NoDigest DEF Fresh, Nightly

\* Only a step on a row of the day changes what a day hashes.
LEMMA RowsKept ==
    ASSUME DigestTypeOK, DigestTypeOK', NEW t \in DigestTenants, NEW d \in Days,
           \A r \in LogRows :
              \/ log'[r] = log[r]
              \/ log[r].state \notin {"kept", "altered"} /\ log'[r].state \notin {"kept", "altered"}
              \/ /\ log'[r].tenant = log[r].tenant /\ log'[r].at = log[r].at
                 /\ <<log[r].tenant, Day(log[r].at)>> # <<t, d>>
    PROVE  DayRows(t, d)' = DayRows(t, d)
<1> DEFINE In(r) == log[r].state \in {"kept", "altered"} /\ log[r].tenant = t /\ log[r].at >= 2 * d /\ log[r].at < 2 * d + 2
<1>1. ASSUME NEW r \in LogRows PROVE In(r)' <=> In(r)
  <2>1. log[r].at \in 0..MaxInstant /\ log'[r].at \in 0..MaxInstant /\ d \in Nat
    BY DigestBounds DEF DigestTypeOK, LogRow
  <2>2. CASE log'[r] = log[r]
    BY <2>2
  <2>3. CASE log[r].state \notin {"kept", "altered"} /\ log'[r].state \notin {"kept", "altered"}
    BY <2>3
  <2>4. CASE /\ log'[r].tenant = log[r].tenant /\ log'[r].at = log[r].at
             /\ <<log[r].tenant, Day(log[r].at)>> # <<t, d>>
    <3>1. ~(log[r].tenant = t /\ Day(log[r].at) = d)
      BY <2>4
    <3>2. (log[r].at >= 2 * d /\ log[r].at < 2 * d + 2) <=> Day(log[r].at) = d
      BY <2>1, DayOf
    <3> QED
      BY <2>4, <3>1, <3>2
  <2> QED
    BY <2>2, <2>3, <2>4
<1>2. ASSUME NEW r \in LogRows, In(r) PROVE log'[r].state = log[r].state
  <2>1. log[r].at \in 0..MaxInstant /\ d \in Nat
    BY DigestBounds DEF DigestTypeOK, LogRow
  <2>2. Day(log[r].at) = d /\ log[r].tenant = t
    BY <1>2, <2>1, DayOf
  <2> QED
    BY <1>2, <2>2
<1>3. DayRows(t, d) = {<<r, log[r].state>> : r \in {s \in LogRows : In(s)}}
  BY DEF DayRows, Between
<1>4. DayRows(t, d)' = {<<r, log'[r].state>> : r \in {s \in LogRows : In(s)'}}
  BY DEF DayRows, Between
<1> HIDE DEF In
<1>5. {s \in LogRows : In(s)'} = {s \in LogRows : In(s)}
  BY <1>1
<1> QED
  BY <1>2, <1>3, <1>4, <1>5

-----------------------------------------------------------------------------
(* Steps of a run *)

LEMMA FitsKept ==
    ASSUME UNCHANGED <<log, digest, disturbed>>, NEW s, NEW t, NEW d
    PROVE  Fits(s, t, d)' <=> Fits(s, t, d)
BY DEF Fits, Fitting, DayRows, Between

\* A step of one run that neither commits nor meets a change of the rows.
LEMMA NightlyMoves ==
    ASSUME DigestInv, NEW w \in Nightlies, UNCHANGED <<log, digest, disturbed>>,
           now' \in 0..MaxInstant, due' \in Nat, mishaps' \in 0..MaxNightlyFaults,
           nightly' \in [Nightlies -> Nightly],
           \A v \in Nightlies \ {w} : nightly'[v] = nightly[v],
           LoopHolds(w)', VerdictsHold(w)',
           \A t \in DigestTenants :
              /\ Fits(nightly'[w].flushed[t], t, nightly'[w].day)
              /\ nightly'[w].pc = "insert" /\ nightly'[w].current = {t} =>
                    Fits(nightly'[w].computed, t, nightly'[w].day)
              /\ nightly'[w].flushed[t] # <<>> =>
                    /\ digest[t][nightly'[w].day] = <<>>
                    /\ \A v \in Nightlies \ {w} : nightly[v].day = nightly'[w].day => nightly[v].flushed[t] = <<>>
    PROVE  DigestInv'
<1>1. DigestTypeOK'
  BY DEF DigestInv, DigestTypeOK
<1>2. \A t \in DigestTenants, d \in Days : Fits(digest[t][d], t, d)'
  BY FitsKept DEF DigestInv
<1>3. ASSUME NEW v \in Nightlies PROVE LoopHolds(v)' /\ VerdictsHold(v)'
  <2>1. CASE v = w
    BY <2>1
  <2>2. CASE v # w
    BY <2>2 DEF DigestInv, LoopHolds, VerdictsHold
  <2> QED
    BY <2>1, <2>2
<1>4. ASSUME NEW v \in Nightlies PROVE FlushedHold(v)'
  <2>1. CASE v = w
    BY <2>1, FitsKept DEF FlushedHold
  <2>2. CASE v # w
    <3>1. FlushedHold(v) /\ nightly'[v] = nightly[v]
      BY <2>2 DEF DigestInv
    <3> SUFFICES ASSUME NEW t \in DigestTenants
                 PROVE  /\ Fits(nightly[v].flushed[t], t, nightly[v].day)'
                        /\ nightly'[v].pc = "insert" /\ nightly'[v].current = {t} =>
                               Fits(nightly[v].computed, t, nightly[v].day)'
                        /\ nightly'[v].flushed[t] # <<>> =>
                              /\ digest'[t][nightly'[v].day] = <<>>
                              /\ \A u \in Nightlies \ {v} : nightly'[u].day = nightly'[v].day => nightly'[u].flushed[t] = <<>>
      BY DEF FlushedHold
    <3>2. /\ Fits(nightly[v].flushed[t], t, nightly[v].day)
          /\ nightly[v].pc = "insert" /\ nightly[v].current = {t} => Fits(nightly[v].computed, t, nightly[v].day)
      BY <3>1 DEF FlushedHold
    <3>3. Fits(nightly[v].flushed[t], t, nightly[v].day)'
      BY <3>1, <3>2, FitsKept
    <3>4. nightly'[v].pc = "insert" /\ nightly'[v].current = {t} => Fits(nightly[v].computed, t, nightly[v].day)'
      BY <3>1, <3>2, FitsKept
    <3>5. ASSUME nightly[v].flushed[t] # <<>>, NEW u \in Nightlies \ {v}, nightly'[u].day = nightly[v].day
          PROVE  nightly'[u].flushed[t] = <<>>
      BY <3>1, <3>5, <2>2 DEF FlushedHold
    <3>6. nightly[v].flushed[t] # <<>> => digest'[t][nightly[v].day] = <<>>
      BY <3>1 DEF FlushedHold
    <3> QED
      BY <3>1, <3>3, <3>4, <3>5, <3>6
  <2> QED
    BY <2>1, <2>2
<1> QED
  BY <1>1, <1>2, <1>3, <1>4 DEF DigestInv

\* A run at one tenant, or done with it.
LEMMA VisitType ==
    ASSUME NEW n \in Nightly, NEW t \in DigestTenants, NEW pc \in {"ensure", "insert"}, NEW s \in Digests
    PROVE  LET m == Visiting(n, pc, t, s) IN
           /\ m \in Nightly /\ m.pc = pc /\ m.current = {t} /\ m.computed = s
           /\ m.day = n.day /\ m.todo = n.todo /\ m.flushed = n.flushed /\ m.raced = n.raced /\ m.summary = n.summary
BY DEF Visiting, Nightly

LEMMA VisitedType ==
    ASSUME NEW n \in Nightly, NEW t \in DigestTenants, NEW f \in Verdicts,
           NEW flushed \in [DigestTenants -> Digests], NEW doomed \in BOOLEAN, NEW raced \in BOOLEAN
    PROVE  LET m == Visited(n, t, f, flushed, doomed, raced) IN
           /\ m \in Nightly /\ m.pc = "loop" /\ m.current = {} /\ m.day = n.day /\ m.todo = n.todo \ {t}
           /\ m.flushed = flushed /\ m.raced = raced
           /\ m.summary[f] = n.summary[f] \cup {t}
           /\ \A g \in Verdicts \ {f} : m.summary[g] = n.summary[g]
<1>1. n.summary \in [Verdicts -> SUBSET DigestTenants] /\ n.todo \in SUBSET DigestTenants /\ n.day \in Days
  BY DEF Nightly
<1>2. [n.summary EXCEPT ![f] = @ \cup {t}] \in [Verdicts -> SUBSET DigestTenants]
  BY <1>1
<1> QED
  BY <1>1, <1>2, NoDigest DEF Visited, Nightly

\* What a run is after it is done with a tenant, but for what it flushed.
DoneWith(w, t, f) ==
    /\ nightly' \in [Nightlies -> Nightly]
    /\ \A v \in Nightlies \ {w} : nightly'[v] = nightly[v]
    /\ nightly'[w].pc = "loop" /\ nightly'[w].current = {} /\ nightly'[w].day = nightly[w].day
    /\ nightly'[w].todo = nightly[w].todo \ {t}
    /\ nightly'[w].summary[f] = nightly[w].summary[f] \cup {t}
    /\ \A g \in Verdicts \ {f} : nightly'[w].summary[g] = nightly[w].summary[g]

\* One run turns into m.
Turns(w, m) == nightly' = [nightly EXCEPT ![w] = m]

LEMMA VisitedDone ==
    ASSUME DigestInv, NEW w \in Nightlies, NEW t \in DigestTenants, NEW f \in Verdicts,
           NEW flushed \in [DigestTenants -> Digests], NEW doomed \in BOOLEAN, NEW raced \in BOOLEAN,
           Turns(w, Visited(nightly[w], t, f, flushed, doomed, raced))
    PROVE  DoneWith(w, t, f) /\ nightly'[w].flushed = flushed /\ nightly'[w].raced = raced
<1>1. nightly[w] \in Nightly /\ nightly \in [Nightlies -> Nightly]
  BY DEF DigestInv, DigestTypeOK
<1>2. nightly'[w] = Visited(nightly[w], t, f, flushed, doomed, raced)
  BY <1>1 DEF Turns
<1>3. Visited(nightly[w], t, f, flushed, doomed, raced) \in Nightly
  BY <1>1, VisitedType
<1>4. nightly' \in [Nightlies -> Nightly] /\ \A v \in Nightlies \ {w} : nightly'[v] = nightly[v]
  BY <1>1, <1>3 DEF Turns
<1> QED
  BY <1>1, <1>2, <1>4, VisitedType DEF DoneWith

\* A tenant done with under a verdict that is so.
LEMMA VisitedHolds ==
    ASSUME DigestInv, NEW w \in Nightlies, NEW t \in DigestTenants, NEW f \in Verdicts,
           UNCHANGED <<now, log, digest, due, disturbed>>, mishaps' \in 0..MaxNightlyFaults,
           nightly[w].pc \in {"loop", "ensure", "insert"},
           DoneWith(w, t, f),
           f = "verified" => digest[t][nightly[w].day] # <<>>,
           f = "mismatched" => <<t, nightly[w].day>> \in disturbed,
           f = "new" /\ ~nightly'[w].raced => nightly'[w].flushed[t] # <<>> \/ digest[t][nightly[w].day] # <<>>,
           nightly[w].raced => nightly'[w].raced,
           \A u \in DigestTenants :
              \/ nightly'[w].flushed[u] = nightly[w].flushed[u]
              \/ nightly'[w].flushed[u] = <<>> /\ (f = "failed" \/ nightly'[w].raced)
              \/ /\ nightly'[w].flushed[u] # <<>>
                 /\ Fits(nightly'[w].flushed[u], u, nightly[w].day) /\ digest[u][nightly[w].day] = <<>>
                 /\ \A v \in Nightlies \ {w} : nightly[v].day = nightly[w].day => nightly[v].flushed[u] = <<>>
    PROVE  DigestInv'
<1> SUFFICES ASSUME NEW n, n = nightly[w], NEW m, m = nightly'[w]
             PROVE  DigestInv'
  OBVIOUS
<1>1. n \in Nightly /\ nightly \in [Nightlies -> Nightly]
  BY DEF DigestInv, DigestTypeOK
<1>2. /\ m \in Nightly /\ m.pc = "loop" /\ m.current = {} /\ m.day = n.day /\ m.todo = n.todo \ {t}
      /\ m.summary[f] = n.summary[f] \cup {t}
      /\ \A g \in Verdicts \ {f} : m.summary[g] = n.summary[g]
  BY DEF DoneWith
<1>3. nightly' \in [Nightlies -> Nightly] /\ nightly'[w] = m /\ \A v \in Nightlies \ {w} : nightly'[v] = nightly[v]
  BY <1>2 DEF DoneWith
<1>4. LoopHolds(w) /\ VerdictsHold(w) /\ FlushedHold(w) /\ n.pc # "idle"
  BY DEF DigestInv
<1>5. LoopHolds(w)'
  BY <1>2, <1>3, <1>4 DEF LoopHolds
<1>6. VerdictsHold(w)'
  <2> SUFFICES ASSUME NEW u \in DigestTenants
               PROVE  /\ u \in m.todo \/ \E g \in Verdicts : u \in m.summary[g]
                      /\ u \in m.summary["new"] /\ m.summary["failed"] = {} /\ ~m.raced =>
                            m.flushed[u] # <<>> \/ digest[u][m.day] # <<>>
                      /\ u \in m.summary["verified"] => digest[u][m.day] # <<>>
                      /\ u \in m.summary["mismatched"] => <<u, m.day>> \in disturbed
    BY <1>3 DEF VerdictsHold
  <2>1. \A g \in Verdicts : u \in m.summary[g] => (g = f /\ u = t) \/ u \in n.summary[g]
    BY <1>2
  <2>2. u \in m.todo \/ \E g \in Verdicts : u \in m.summary[g]
    <3>1. u \in n.todo \/ \E g \in Verdicts : u \in n.summary[g]
      BY <1>4 DEF VerdictsHold
    <3>2. \A g \in Verdicts : u \in n.summary[g] => u \in m.summary[g]
      BY <1>2
    <3> QED
      BY <1>2, <3>1, <3>2
  <2>3. ASSUME u \in m.summary["new"], m.summary["failed"] = {}, ~m.raced
        PROVE  m.flushed[u] # <<>> \/ digest[u][m.day] # <<>>
    <3>1. f # "failed" /\ n.summary["failed"] = {} /\ ~n.raced
      BY <1>2, <2>3 DEF Verdicts
    <3>2. u \in n.summary["new"] => n.flushed[u] # <<>> \/ digest[u][n.day] # <<>>
      BY <1>4, <3>1 DEF VerdictsHold
    <3>3. (f = "new" /\ u = t) \/ u \in n.summary["new"]
      BY <2>1, <2>3 DEF Verdicts
    <3>4. CASE f = "new" /\ u = t
      BY <1>2, <2>3, <3>1, <3>4
    <3>5. CASE u \in n.summary["new"]
      BY <1>2, <2>3, <3>1, <3>2, <3>5
    <3> QED
      BY <3>3, <3>4, <3>5
  <2>4. ASSUME u \in m.summary["verified"] PROVE digest[u][m.day] # <<>>
    <3>1. (f = "verified" /\ u = t) \/ u \in n.summary["verified"]
      BY <2>1, <2>4 DEF Verdicts
    <3>2. u \in n.summary["verified"] => digest[u][n.day] # <<>>
      BY <1>4 DEF VerdictsHold
    <3> QED
      BY <1>2, <3>1, <3>2
  <2>5. u \in m.summary["mismatched"] => <<u, m.day>> \in disturbed
    BY <1>2, <1>4, <2>1 DEF VerdictsHold, Verdicts
  <2> QED
    BY <2>2, <2>3, <2>4, <2>5
<1>7. ASSUME NEW u \in DigestTenants
      PROVE  /\ Fits(m.flushed[u], u, m.day)
             /\ m.flushed[u] # <<>> =>
                  /\ digest[u][m.day] = <<>>
                  /\ \A v \in Nightlies \ {w} : nightly[v].day = m.day => nightly[v].flushed[u] = <<>>
  <2>1. /\ Fits(n.flushed[u], u, n.day)
        /\ n.flushed[u] # <<>> =>
                  /\ digest[u][n.day] = <<>>
                  /\ \A v \in Nightlies \ {w} : nightly[v].day = n.day => nightly[v].flushed[u] = <<>>
    BY <1>4 DEF FlushedHold
  <2>2. CASE m.flushed[u] = <<>>
    BY <1>2, <2>2 DEF Fits
  <2>3. CASE m.flushed[u] # <<>>
    BY <1>2, <2>1, <2>3
  <2> QED
    BY <2>2, <2>3
<1>8. now' \in 0..MaxInstant /\ due' \in Nat
  BY DEF DigestInv, DigestTypeOK
<1> QED
  BY <1>2, <1>3, <1>5, <1>6, <1>7, <1>8, NightlyMoves

\* What a run computes for its day is what fits.
LEMMA ComputedFits ==
    ASSUME DigestInv, NEW w \in Nightlies, NEW t \in DigestTenants, NEW d \in Days, nightly[w].day = d
    PROVE  Computed(w, t, d) = Fitting(t, d) /\ Fitting(t, d) \in Digests /\ Fitting(t, d) # <<>>
           /\ Fitting(t, d)[1] = DayRows(t, d)
<1>1. d \in Nat /\ (d # 0 => d - 1 \in Days /\ d - 1 # d)
  BY DigestBounds
<1>2. (IF d = 0 THEN <<>> ELSE digest[t][d - 1]) \in Digests
  BY <1>1, NoDigest DEF DigestInv, DigestTypeOK
<1>3. PrevDigest(w, t, d) = (IF d = 0 THEN <<>> ELSE digest[t][d - 1])
  BY <1>1 DEF PrevDigest, Seen
<1> QED
  BY <1>2, <1>3, DayRowsType, Linking DEF Computed, Fitting

LEMMA VerifyHolds ==
    ASSUME DigestInv, NEW w \in Nightlies, NEW t \in DigestTenants, Verify(w, t) PROVE DigestInv'
<1> SUFFICES ASSUME NEW n, n = nightly[w], NEW d, d = n.day PROVE DigestInv'
  OBVIOUS
<1>1. n \in Nightly /\ d \in Days /\ n.flushed \in [DigestTenants -> Digests] /\ n.doomed \in BOOLEAN /\ n.raced \in BOOLEAN
  BY DEF DigestInv, DigestTypeOK, Nightly
<1>2. digest[t][d] # <<>> /\ n.pc = "loop" /\ UNCHANGED <<now, log, digest, due, mishaps, disturbed>>
  BY DEF Verify
<1>3. mishaps' \in 0..MaxNightlyFaults
  BY <1>2 DEF DigestInv, DigestTypeOK
<1>4. CASE Matches(w, t)
  <2>1. Turns(w, Visited(n, t, "verified", n.flushed, n.doomed, n.raced))
    BY <1>4 DEF Verify, Tallied, Turns
  <2>2. "verified" \in Verdicts
    BY DEF Verdicts
  <2>3. DoneWith(w, t, "verified") /\ nightly'[w].flushed = n.flushed /\ nightly'[w].raced = n.raced
    BY <1>1, <2>1, <2>2, VisitedDone
  <2> QED
    BY <1>1, <1>2, <1>3, <2>2, <2>3, VisitedHolds
<1>5. CASE ~Matches(w, t)
  <2>1. Turns(w, Visited(n, t, "mismatched", n.flushed, n.doomed, n.raced))
    BY <1>5 DEF Verify, Tallied, Turns
  <2>2. "mismatched" \in Verdicts
    BY DEF Verdicts
  <2>3. digest[t][d] # Fitting(t, d)
    BY <1>1, <1>5, ComputedFits DEF Matches
  <2>4. <<t, d>> \in disturbed
    BY <1>1, <1>2, <2>3 DEF DigestInv, Fits
  <2>5. DoneWith(w, t, "mismatched") /\ nightly'[w].flushed = n.flushed /\ nightly'[w].raced = n.raced
    BY <1>1, <2>1, <2>2, VisitedDone
  <2> QED
    BY <1>1, <1>2, <1>3, <2>2, <2>4, <2>5, VisitedHolds
<1> QED
  BY <1>4, <1>5

\* A run turns to a tenant it has to visit.
LEMMA VisitingHolds ==
    ASSUME DigestInv, NEW w \in Nightlies, NEW t \in DigestTenants, t \in nightly[w].todo,
           nightly[w].pc \in {"loop", "ensure"},
           NEW pc \in {"ensure", "insert"}, NEW s \in Digests,
           nightly' = [nightly EXCEPT ![w] = Visiting(nightly[w], pc, t, s)],
           pc = "insert" => s # <<>> /\ Fits(s, t, nightly[w].day),
           UNCHANGED <<now, log, digest, due, mishaps, disturbed>>
    PROVE  DigestInv'
<1> SUFFICES ASSUME NEW n, n = nightly[w], NEW m, m = Visiting(n, pc, t, s)
             PROVE  DigestInv'
  OBVIOUS
<1>1. n \in Nightly /\ nightly \in [Nightlies -> Nightly]
  BY DEF DigestInv, DigestTypeOK
<1>2. /\ m \in Nightly /\ m.pc = pc /\ m.current = {t} /\ m.computed = s
      /\ m.day = n.day /\ m.todo = n.todo /\ m.flushed = n.flushed /\ m.raced = n.raced /\ m.summary = n.summary
  BY <1>1, VisitType
<1>3. nightly' \in [Nightlies -> Nightly] /\ nightly'[w] = m /\ \A v \in Nightlies \ {w} : nightly'[v] = nightly[v]
  BY <1>1, <1>2
<1>4. LoopHolds(w) /\ VerdictsHold(w) /\ FlushedHold(w) /\ n.pc # "idle"
  BY DEF DigestInv
<1>5. LoopHolds(w)'
  BY <1>2, <1>3, <1>4 DEF LoopHolds
<1>6. VerdictsHold(w)'
  BY <1>2, <1>3, <1>4 DEF VerdictsHold
<1>7. ASSUME NEW u \in DigestTenants
      PROVE  /\ Fits(m.flushed[u], u, m.day)
             /\ m.pc = "insert" /\ m.current = {u} => Fits(m.computed, u, m.day)
             /\ m.flushed[u] # <<>> =>
                  /\ digest[u][m.day] = <<>>
                  /\ \A v \in Nightlies \ {w} : nightly[v].day = m.day => nightly[v].flushed[u] = <<>>
  BY <1>2, <1>4 DEF FlushedHold
<1>8. now' \in 0..MaxInstant /\ due' \in Nat /\ mishaps' \in 0..MaxNightlyFaults
  BY DEF DigestInv, DigestTypeOK
<1> QED
  BY <1>3, <1>5, <1>6, <1>7, <1>8, NightlyMoves

LEMMA EnsureHolds ==
    ASSUME DigestInv, NEW w \in Nightlies, NEW t \in DigestTenants, VerifyMissing(w, t) \/ Ensure(w, t)
    PROVE  DigestInv'
<1> SUFFICES ASSUME NEW n, n = nightly[w], NEW d, d = n.day PROVE DigestInv'
  OBVIOUS
<1>1. n \in Nightly /\ d \in Days /\ n.flushed \in [DigestTenants -> Digests] /\ n.doomed \in BOOLEAN /\ n.raced \in BOOLEAN
  BY DEF DigestInv, DigestTypeOK, Nightly
<1>2. UNCHANGED <<now, log, digest, due, mishaps, disturbed>>
  BY DEF VerifyMissing, Ensure
<1>3. mishaps' \in 0..MaxNightlyFaults
  BY <1>2 DEF DigestInv, DigestTypeOK
<1>4. CASE VerifyMissing(w, t)
  BY <1>2, <1>4, NoDigest, VisitingHolds DEF VerifyMissing
<1>5. CASE Ensure(w, t) /\ digest[t][d] # <<>>
  <2>1. Turns(w, Visited(n, t, "new", n.flushed, n.doomed, n.raced)) /\ n.pc = "ensure"
    BY <1>5 DEF Ensure, Tallied, Turns
  <2>2. "new" \in Verdicts
    BY DEF Verdicts
  <2>3. DoneWith(w, t, "new") /\ nightly'[w].flushed = n.flushed /\ nightly'[w].raced = n.raced
    BY <1>1, <2>1, <2>2, VisitedDone
  <2> QED
    BY <1>1, <1>2, <1>3, <1>5, <2>1, <2>2, <2>3, VisitedHolds
<1>6. CASE Ensure(w, t) /\ digest[t][d] = <<>>
  <2>1. nightly' = [nightly EXCEPT ![w] = Visiting(n, "insert", t, Computed(w, t, d))] /\ n.pc = "ensure" /\ n.current = {t}
    BY <1>6 DEF Ensure
  <2>2. t \in n.todo
    BY <2>1 DEF DigestInv, LoopHolds
  <2>3. Computed(w, t, d) \in Digests /\ Computed(w, t, d) # <<>> /\ Fits(Computed(w, t, d), t, d)
    BY <1>1, ComputedFits DEF Fits
  <2> QED
    BY <1>2, <2>1, <2>2, <2>3, VisitingHolds
<1> QED
  BY <1>4, <1>5, <1>6

LEMMA InsertDigestHolds ==
    ASSUME DigestInv, NEW w \in Nightlies, NEW t \in DigestTenants, InsertDigest(w, t) PROVE DigestInv'
<1> SUFFICES ASSUME NEW n, n = nightly[w], NEW d, d = n.day,
                    NEW flushed, flushed = [n.flushed EXCEPT ![t] = n.computed]
             PROVE  DigestInv'
  OBVIOUS
<1>1. /\ n \in Nightly /\ d \in Days /\ n.flushed \in [DigestTenants -> Digests] /\ n.doomed \in BOOLEAN
      /\ n.raced \in BOOLEAN /\ n.computed \in Digests
  BY DEF DigestInv, DigestTypeOK, Nightly
<1>2. UNCHANGED <<now, log, digest, due, mishaps, disturbed>> /\ n.pc = "insert" /\ n.current = {t} /\ digest[t][d] = <<>>
  BY DEF InsertDigest
<1>3. mishaps' \in 0..MaxNightlyFaults
  BY <1>2 DEF DigestInv, DigestTypeOK
<1>4. Turns(w, Visited(n, t, "new", flushed, n.doomed, n.raced))
  BY DEF InsertDigest, Turns
<1>5. flushed \in [DigestTenants -> Digests] /\ flushed[t] = n.computed
      /\ \A u \in DigestTenants \ {t} : flushed[u] = n.flushed[u]
  BY <1>1
<1>6. n.computed # <<>> /\ Fits(n.computed, t, d)
  BY <1>2 DEF DigestInv, LoopHolds, FlushedHold
<1>7. \A v \in Nightlies \ {w} : nightly[v].day = d => nightly[v].flushed[t] = <<>>
  BY <1>2 DEF InsertDigest, Waits
<1>8. "new" \in Verdicts
  BY DEF Verdicts
<1>9. DoneWith(w, t, "new") /\ nightly'[w].flushed = flushed /\ nightly'[w].raced = n.raced
  BY <1>1, <1>4, <1>5, <1>8, VisitedDone
<1>10. ASSUME NEW u \in DigestTenants
       PROVE  \/ nightly'[w].flushed[u] = nightly[w].flushed[u]
              \/ nightly'[w].flushed[u] = <<>> /\ ("new" = "failed" \/ nightly'[w].raced)
              \/ /\ nightly'[w].flushed[u] # <<>>
                 /\ Fits(nightly'[w].flushed[u], u, nightly[w].day) /\ digest[u][nightly[w].day] = <<>>
                 /\ \A v \in Nightlies \ {w} : nightly[v].day = nightly[w].day => nightly[v].flushed[u] = <<>>
  <2>1. CASE u = t
    BY <1>2, <1>5, <1>6, <1>7, <1>9, <2>1
  <2>2. CASE u # t
    BY <1>5, <1>9, <2>2
  <2> QED
    BY <2>1, <2>2
<1>11. nightly'[w].flushed[t] # <<>>
  BY <1>5, <1>6, <1>9
<1> QED
  BY <1>1, <1>2, <1>3, <1>8, <1>9, <1>10, <1>11, VisitedHolds

LEMMA LoseRaceHolds ==
    ASSUME DigestInv, NEW w \in Nightlies, NEW t \in DigestTenants, LoseRace(w, t) PROVE DigestInv'
<1> SUFFICES ASSUME NEW n, n = nightly[w] PROVE DigestInv'
  OBVIOUS
<1>1. n.doomed \in BOOLEAN
  BY DEF DigestInv, DigestTypeOK, Nightly
<1>2. UNCHANGED <<now, log, digest, due, mishaps, disturbed>> /\ n.pc = "insert"
  BY DEF LoseRace
<1>3. mishaps' \in 0..MaxNightlyFaults
  BY <1>2 DEF DigestInv, DigestTypeOK
<1>4. Turns(w, Visited(n, t, "new", NoneFlushed, n.doomed, TRUE))
  BY DEF LoseRace, Turns
<1>5. "new" \in Verdicts
  BY DEF Verdicts
<1>6. DoneWith(w, t, "new") /\ nightly'[w].flushed = NoneFlushed /\ nightly'[w].raced = TRUE
  BY <1>1, <1>4, <1>5, NoDigest, VisitedDone
<1>7. \A u \in DigestTenants : nightly'[w].flushed[u] = <<>>
  BY <1>6 DEF NoneFlushed
<1> QED
  BY <1>2, <1>3, <1>5, <1>6, <1>7, VisitedHolds

LEMMA FailingHolds ==
    ASSUME DigestInv, NEW w \in Nightlies, NEW t \in DigestTenants,
           TenantFails(w, t) \/ Deadlock(w, t) \/ DoomedTenant(w, t)
    PROVE  DigestInv'
<1> SUFFICES ASSUME NEW n, n = nightly[w] PROVE DigestInv'
  OBVIOUS
<1>1. n.raced \in BOOLEAN /\ n.pc \in {"idle", "loop", "ensure", "insert", "ended"}
  BY DEF DigestInv, DigestTypeOK, Nightly
<1>2. UNCHANGED <<now, log, digest, due, disturbed>>
  BY DEF TenantFails, Deadlock, DoomedTenant
<1>3. mishaps' \in 0..MaxNightlyFaults
  BY DigestBounds DEF DigestInv, DigestTypeOK, TenantFails, Deadlock, DoomedTenant
<1>4. n.pc \in {"loop", "ensure", "insert"}
  <2>1. n.pc \in {"idle", "ended"} => n.current = {}
    BY DEF DigestInv, LoopHolds
  <2>2. n.pc = "loop" \/ n.current = {t}
    BY DEF TenantFails, Deadlock, DoomedTenant
  <2> QED
    BY <1>1, <2>1, <2>2
<1>5. Turns(w, Visited(n, t, "failed", NoneFlushed, TRUE, n.raced))
  BY DEF TenantFails, Deadlock, DoomedTenant, Failing, Turns
<1>6. "failed" \in Verdicts
  BY DEF Verdicts
<1>7. DoneWith(w, t, "failed") /\ nightly'[w].flushed = NoneFlushed /\ nightly'[w].raced = n.raced
  BY <1>1, <1>5, <1>6, NoDigest, VisitedDone
<1>8. \A u \in DigestTenants : nightly'[w].flushed[u] = <<>>
  BY <1>7 DEF NoneFlushed
<1> QED
  BY <1>2, <1>3, <1>4, <1>6, <1>7, <1>8, VisitedHolds

\* A run begins, or is gone with all it flushed.
LEMMA FreshHolds ==
    ASSUME DigestInv, NEW w \in Nightlies, BeginNightly(w) \/ Return(w) \/ NightlyCrash(w)
    PROVE  DigestInv'
<1>1. nightly \in [Nightlies -> Nightly] /\ now \in 0..MaxInstant /\ due \in Nat /\ mishaps \in 0..MaxNightlyFaults
  BY DEF DigestInv, DigestTypeOK
<1>2. UNCHANGED <<log, digest, disturbed, now>> /\ due' \in Nat /\ mishaps' \in 0..MaxNightlyFaults
  BY <1>1, DigestBounds DEF BeginNightly, Return, NightlyCrash
<1>3. PICK pc \in {"idle", "loop"}, d \in Days, todo \in SUBSET DigestTenants :
        /\ nightly' = [nightly EXCEPT ![w] = Fresh(pc, d, todo)]
        /\ pc = "loop" => d + 1 \in Days /\ todo = DigestTenants
  <2>1. CASE BeginNightly(w)
    <3>1. Day(now) \in Days /\ Day(now) > 0
      BY <1>1, <2>1, DayOf DEF BeginNightly
    <3>2. Day(now) - 1 \in Days /\ (Day(now) - 1) + 1 \in Days
      BY <3>1, DigestBounds
    <3>3. nightly' = [nightly EXCEPT ![w] = Fresh("loop", Day(now) - 1, DigestTenants)]
      BY <2>1 DEF BeginNightly
    <3> QED
      BY <3>2, <3>3
  <2>2. CASE Return(w) \/ NightlyCrash(w)
    <3>1. nightly' = [nightly EXCEPT ![w] = Fresh("idle", 0, {})]
      BY <2>2 DEF Return, NightlyCrash, NoNightly
    <3>2. "idle" \in {"idle", "loop"} /\ 0 \in Days /\ {} \in SUBSET DigestTenants
      BY DigestBounds
    <3> QED
      BY <3>1, <3>2
  <2> QED
    BY <2>1, <2>2
<1> SUFFICES ASSUME NEW m, m = Fresh(pc, d, todo) PROVE DigestInv'
  OBVIOUS
<1>4. /\ m \in Nightly /\ m.pc = pc /\ m.day = d /\ m.todo = todo /\ m.current = {}
      /\ m.flushed = NoneFlushed /\ \A f \in Verdicts : m.summary[f] = {}
  BY FreshType
<1>5. nightly' \in [Nightlies -> Nightly] /\ nightly'[w] = m /\ \A v \in Nightlies \ {w} : nightly'[v] = nightly[v]
  BY <1>1, <1>3, <1>4
<1>6. LoopHolds(w)'
  BY <1>3, <1>4, <1>5 DEF LoopHolds
<1>7. m.summary["new"] = {} /\ m.summary["verified"] = {} /\ m.summary["mismatched"] = {}
  BY <1>4 DEF Verdicts
<1>8. VerdictsHold(w)'
  BY <1>3, <1>4, <1>5, <1>7 DEF VerdictsHold
<1>9. \A t \in DigestTenants : m.flushed[t] = <<>>
  BY <1>4 DEF NoneFlushed
<1>10. \A t \in DigestTenants : Fits(m.flushed[t], t, m.day)
  BY <1>9 DEF Fits
<1>11. m.pc # "insert" /\ now' \in 0..MaxInstant
  BY <1>1, <1>2, <1>4
<1> QED
  BY <1>2, <1>5, <1>6, <1>8, <1>9, <1>10, <1>11, NightlyMoves

LEMMA ClockHolds ==
    ASSUME DigestInv, PassTime \/ \E w \in Nightlies : SecondDelivery(w) PROVE DigestInv'
<1>1. UNCHANGED <<log, digest, disturbed, nightly>>
  BY DEF PassTime, SecondDelivery
<1>2. now' \in 0..MaxInstant /\ due' \in Nat /\ mishaps' \in 0..MaxNightlyFaults
  BY DigestBounds DEF DigestInv, DigestTypeOK, PassTime, SecondDelivery
<1>3. DigestTypeOK'
  BY <1>1, <1>2 DEF DigestInv, DigestTypeOK
<1>4. \A t \in DigestTenants, d \in Days : Fits(digest[t][d], t, d)'
  BY <1>1, FitsKept DEF DigestInv
<1>5. \A w \in Nightlies : LoopHolds(w)' /\ VerdictsHold(w)'
  BY <1>1 DEF DigestInv, LoopHolds, VerdictsHold
<1>6. ASSUME NEW w \in Nightlies PROVE FlushedHold(w)'
  <2>1. FlushedHold(w)
    BY DEF DigestInv
  <2>2. ASSUME NEW s, NEW t, NEW d PROVE Fits(s, t, d)' <=> Fits(s, t, d)
    BY <1>1, FitsKept
  <2>3. ASSUME NEW t \in DigestTenants
        PROVE  /\ Fits(nightly[w].flushed[t], t, nightly[w].day)'
               /\ nightly[w].pc = "insert" /\ nightly[w].current = {t} => Fits(nightly[w].computed, t, nightly[w].day)'
    BY <1>1, <2>1, <2>2 DEF FlushedHold
  <2> QED
    BY <1>1, <2>1, <2>3 DEF FlushedHold
<1> QED
  BY <1>3, <1>4, <1>5, <1>6 DEF DigestInv

-----------------------------------------------------------------------------
(* Rows that change, and the commit of a run *)

LEMMA FitsStep ==
    ASSUME NEW s, NEW t, NEW d, Fits(s, t, d), disturbed \subseteq disturbed',
           s = <<>> \/ <<t, d>> \in disturbed' \/ Fitting(t, d)' = Fitting(t, d)
    PROVE  Fits(s, t, d)'
BY DEF Fits

\* Where no digest was computed there is none that could fail to fit.
LEMMA NotDigested ==
    ASSUME DigestInv, NEW t \in DigestTenants, NEW d \in Days, ~Digested(t, d)
    PROVE  /\ digest[t][d] = <<>>
           /\ \A w \in Nightlies : nightly[w].day = d =>
                /\ nightly[w].flushed[t] = <<>>
                /\ ~(nightly[w].pc = "insert" /\ nightly[w].current = {t})
<1>1. digest[t][d] = <<>>
  BY DEF Digested
<1>2. ASSUME NEW w \in Nightlies, nightly[w].day = d
      PROVE  nightly[w].flushed[t] = <<>> /\ ~(nightly[w].pc = "insert" /\ nightly[w].current = {t})
  <2>1. CASE nightly[w].pc = "idle"
    BY <2>1 DEF DigestInv, LoopHolds, NoneFlushed
  <2>2. CASE nightly[w].pc # "idle"
    BY <1>2, <2>2 DEF Digested
  <2> QED
    BY <2>1, <2>2
<1> QED
  BY <1>1, <1>2

LEMMA RowsChange ==
    ASSUME DigestInv, DigestTypeOK', UNCHANGED <<digest, nightly>>, disturbed \subseteq disturbed',
           \A t \in DigestTenants, d \in Days :
              DayRows(t, d)' = DayRows(t, d) \/ <<t, d>> \in disturbed' \/ ~Digested(t, d)
    PROVE  DigestInv'
<1>1. ASSUME NEW t \in DigestTenants, NEW d \in Days
      PROVE  <<t, d>> \in disturbed' \/ Fitting(t, d)' = Fitting(t, d) \/ ~Digested(t, d)
  BY DEF Fitting
<1>2. ASSUME NEW t \in DigestTenants, NEW d \in Days PROVE Fits(digest[t][d], t, d)'
  <2>1. digest[t][d] = <<>> \/ <<t, d>> \in disturbed' \/ Fitting(t, d)' = Fitting(t, d)
    BY <1>1, NotDigested
  <2>2. Fits(digest[t][d], t, d)
    BY DEF DigestInv
  <2> SUFFICES ASSUME NEW s, s = digest[t][d] PROVE Fits(s, t, d)'
    BY DEF Fits
  <2> QED
    BY <2>1, <2>2, FitsStep
<1>3. \A w \in Nightlies : LoopHolds(w)' /\ VerdictsHold(w)'
  BY DEF DigestInv, LoopHolds, VerdictsHold
<1>4. ASSUME NEW w \in Nightlies PROVE FlushedHold(w)'
  <2>1. FlushedHold(w) /\ nightly[w].day \in Days
    BY DEF DigestInv, DigestTypeOK, Nightly
  <2>2. ASSUME NEW t \in DigestTenants, NEW s, NEW d, d = nightly[w].day,
               s = nightly[w].flushed[t] \/ (nightly[w].pc = "insert" /\ nightly[w].current = {t} /\ s = nightly[w].computed)
        PROVE  Fits(s, t, d)'
    <3>1. Fits(s, t, d)
      BY <2>1, <2>2 DEF FlushedHold
    <3>2. s = <<>> \/ <<t, d>> \in disturbed' \/ Fitting(t, d)' = Fitting(t, d)
      BY <1>1, <2>1, <2>2, NotDigested
    <3> QED
      BY <3>1, <3>2, FitsStep
  <2>3. ASSUME NEW t \in DigestTenants
        PROVE  /\ Fits(nightly[w].flushed[t], t, nightly[w].day)'
               /\ nightly[w].pc = "insert" /\ nightly[w].current = {t} => Fits(nightly[w].computed, t, nightly[w].day)'
    BY <2>2 DEF Fits
  <2> QED
    BY <2>1, <2>3 DEF FlushedHold
<1> QED
  BY <1>2, <1>3, <1>4 DEF DigestInv

LEMMA LogHolds ==
    ASSUME DigestInv, NEW r \in LogRows,
           (\E t \in DigestTenants : OpenLogRow(r, t)) \/ CommitLogRow(r) \/ AlterLogRow(r)
    PROVE  DigestInv'
<1>1. log \in [LogRows -> LogRow] /\ log[r] \in LogRow /\ now \in 0..MaxInstant /\ disturbed \subseteq DigestTenants \X Days
  BY DEF DigestInv, DigestTypeOK
<1>2. UNCHANGED <<now, digest, nightly, due, mishaps>>
  BY DEF OpenLogRow, CommitLogRow, AlterLogRow
<1>3. CASE \E t \in DigestTenants : OpenLogRow(r, t)
  <2>1. PICK t \in DigestTenants : OpenLogRow(r, t)
    BY <1>3
  <2>2. [state |-> "open", tenant |-> t, at |-> now] \in LogRow
    BY <1>1 DEF LogRow
  <2>3. log' \in [LogRows -> LogRow] /\ disturbed' = disturbed
    BY <1>1, <2>1, <2>2 DEF OpenLogRow
  <2>4. DigestTypeOK'
    BY <1>2, <2>3 DEF DigestInv, DigestTypeOK
  <2>5. ASSUME NEW q \in LogRows
        PROVE  log'[q] = log[q] \/ (log[q].state \notin {"kept", "altered"} /\ log'[q].state \notin {"kept", "altered"})
    BY <1>1, <2>1 DEF OpenLogRow
  <2>6. ASSUME NEW u \in DigestTenants, NEW d \in Days PROVE DayRows(u, d)' = DayRows(u, d)
    BY <2>4, <2>5, RowsKept DEF DigestInv
  <2> QED
    BY <1>2, <2>3, <2>4, <2>6, RowsChange
<1>4. CASE CommitLogRow(r) \/ AlterLogRow(r)
  <2>1. PICK state \in {"kept", "altered"} : log' = [log EXCEPT ![r].state = state]
    BY <1>4 DEF CommitLogRow, AlterLogRow
  <2>2. [log[r] EXCEPT !.state = state] \in LogRow
    BY <1>1 DEF LogRow
  <2>3. log' \in [LogRows -> LogRow] /\ log'[r].tenant = log[r].tenant /\ log'[r].at = log[r].at
        /\ \A q \in LogRows \ {r} : log'[q] = log[q]
    BY <1>1, <2>1, <2>2 DEF LogRow
  <2>4. log[r].tenant \in DigestTenants /\ Day(log[r].at) \in Days
    BY <1>1, DayOf DEF LogRow
  <2>5. disturbed \subseteq disturbed' /\ disturbed' \subseteq DigestTenants \X Days
        /\ (Digested(log[r].tenant, Day(log[r].at)) => <<log[r].tenant, Day(log[r].at)>> \in disturbed')
    BY <1>1, <1>4, <2>4 DEF CommitLogRow, AlterLogRow, Disturbs
  <2>6. DigestTypeOK'
    BY <1>2, <2>3, <2>5 DEF DigestInv, DigestTypeOK
  <2>7. ASSUME NEW u \in DigestTenants, NEW d \in Days
        PROVE  DayRows(u, d)' = DayRows(u, d) \/ <<u, d>> \in disturbed' \/ ~Digested(u, d)
    <3>1. CASE <<log[r].tenant, Day(log[r].at)>> = <<u, d>>
      <4>1. log[r].tenant = u /\ Day(log[r].at) = d
        BY <3>1
      <4> QED
        BY <2>5, <4>1
    <3>2. CASE <<log[r].tenant, Day(log[r].at)>> # <<u, d>>
      BY <2>3, <2>6, <3>2, RowsKept DEF DigestInv
    <3> QED
      BY <3>1, <3>2
  <2> QED
    BY <1>2, <2>5, <2>6, <2>7, RowsChange
<1> QED
  BY <1>3, <1>4

LEMMA FinishHolds ==
    ASSUME DigestInv, NEW w \in Nightlies, Finish(w) PROVE DigestInv'
<1> SUFFICES ASSUME NEW n, n = nightly[w], NEW d, d = n.day,
                    NEW kept, kept = {t \in DigestTenants : n.flushed[t] # <<>>}
             PROVE  DigestInv'
  OBVIOUS
<1>1. /\ n \in Nightly /\ d \in Days /\ n.flushed \in [DigestTenants -> Digests]
      /\ nightly \in [Nightlies -> Nightly] /\ digest \in [DigestTenants -> [Days -> Digests]]
  BY DEF DigestInv, DigestTypeOK, Nightly
<1>2. /\ n.pc = "loop" /\ n.todo = {} /\ UNCHANGED <<now, log, due, mishaps>>
      /\ digest' = [t \in DigestTenants |-> IF t \in kept THEN [digest[t] EXCEPT ![d] = n.flushed[t]] ELSE digest[t]]
      /\ disturbed' = disturbed \cup {<<t, d + 1>> : t \in {s \in kept : Digested(s, d + 1)}}
      /\ nightly' = [nightly EXCEPT ![w] = Committed(n)]
  BY DEF Finish
<1>3. LoopHolds(w) /\ VerdictsHold(w) /\ FlushedHold(w) /\ d + 1 \in Days
  BY <1>2 DEF DigestInv, LoopHolds
<1> SUFFICES ASSUME NEW m, m = Committed(n) PROVE DigestInv'
  OBVIOUS
<1>4. /\ m \in Nightly /\ m.pc = "ended" /\ m.day = d /\ m.todo = {} /\ m.current = n.current
      /\ m.flushed = NoneFlushed /\ m.raced = n.raced /\ m.summary = n.summary
  BY <1>1, <1>2, NoDigest DEF Committed, Nightly
<1>5. nightly' \in [Nightlies -> Nightly] /\ nightly'[w] = m /\ \A v \in Nightlies \ {w} : nightly'[v] = nightly[v]
  BY <1>1, <1>2, <1>4
<1>6. \A t \in DigestTenants : m.flushed[t] = <<>>
  BY <1>4 DEF NoneFlushed
<1>7. ASSUME NEW t \in DigestTenants, NEW e \in Days
      PROVE  digest'[t][e] = (IF t \in kept /\ e = d THEN n.flushed[t] ELSE digest[t][e])
  <2>1. digest'[t] = IF t \in kept THEN [digest[t] EXCEPT ![d] = n.flushed[t]] ELSE digest[t]
    BY <1>2
  <2>2. digest[t] \in [Days -> Digests]
    BY <1>1
  <2> QED
    BY <1>1, <2>1, <2>2
<1>8. digest' \in [DigestTenants -> [Days -> Digests]]
  <2>1. ASSUME NEW t \in DigestTenants
        PROVE  (IF t \in kept THEN [digest[t] EXCEPT ![d] = n.flushed[t]] ELSE digest[t]) \in [Days -> Digests]
    <3>1. digest[t] \in [Days -> Digests] /\ n.flushed[t] \in Digests
      BY <1>1
    <3> QED
      BY <1>1, <3>1
  <2> QED
    BY <1>2, <2>1
<1>9. disturbed \subseteq disturbed' /\ disturbed' \subseteq DigestTenants \X Days
  BY <1>2, <1>3 DEF DigestInv, DigestTypeOK
<1>10. DigestTypeOK'
  BY <1>2, <1>5, <1>8, <1>9 DEF DigestInv, DigestTypeOK
<1>11. ASSUME NEW t \in DigestTenants, NEW e \in Days, digest[t][e] # <<>> PROVE digest'[t][e] = digest[t][e]
  <2>1. n.flushed[t] # <<>> => digest[t][d] = <<>>
    BY <1>3 DEF FlushedHold
  <2> QED
    BY <1>7, <1>11, <2>1
<1>12. ASSUME NEW t \in DigestTenants, NEW e \in Days
       PROVE  <<t, e>> \in disturbed' \/ Fitting(t, e)' = Fitting(t, e) \/ ~Digested(t, e)
  <2>1. DayRows(t, e)' = DayRows(t, e)
    BY <1>2 DEF DayRows, Between
  <2>2. CASE t \in kept /\ e = d + 1
    BY <1>2, <2>2
  <2>3. CASE ~(t \in kept /\ e = d + 1)
    <3>1. e # 0 => e - 1 \in Days /\ (e - 1 = d => e = d + 1)
      BY <1>1, DigestBounds
    <3>2. e # 0 => digest'[t][e - 1] = digest[t][e - 1]
      BY <1>7, <2>3, <3>1
    <3> QED
      BY <2>1, <3>2 DEF Fitting
  <2> QED
    BY <2>2, <2>3
<1>13. ASSUME NEW v \in Nightlies, NEW t \in DigestTenants, NEW s, NEW e, e = nightly[v].day,
              s = nightly[v].flushed[t] \/ (nightly[v].pc = "insert" /\ nightly[v].current = {t} /\ s = nightly[v].computed)
       PROVE  Fits(s, t, e)'
  <2>1. FlushedHold(v) /\ e \in Days
    BY <1>13 DEF DigestInv, DigestTypeOK, Nightly
  <2>2. Fits(s, t, e)
    BY <1>13, <2>1 DEF FlushedHold
  <2>3. s = <<>> \/ <<t, e>> \in disturbed' \/ Fitting(t, e)' = Fitting(t, e)
    BY <1>12, <1>13, <2>1, NotDigested
  <2> QED
    BY <1>9, <2>2, <2>3, FitsStep
<1>14. ASSUME NEW t \in DigestTenants, NEW e \in Days PROVE Fits(digest[t][e], t, e)'
  <2> SUFFICES ASSUME NEW s, s = digest'[t][e] PROVE Fits(s, t, e)'
    BY DEF Fits
  <2>1. CASE t \in kept /\ e = d
    BY <1>7, <1>13, <2>1
  <2>2. CASE ~(t \in kept /\ e = d)
    <3>1. s = digest[t][e] /\ Fits(s, t, e)
      BY <1>7, <2>2 DEF DigestInv
    <3>2. s = <<>> \/ <<t, e>> \in disturbed' \/ Fitting(t, e)' = Fitting(t, e)
      BY <1>12, <3>1, NotDigested
    <3> QED
      BY <1>9, <3>1, <3>2, FitsStep
  <2> QED
    BY <2>1, <2>2
<1>15. ASSUME NEW v \in Nightlies PROVE LoopHolds(v)'
  <2>1. CASE v = w
    BY <1>2, <1>3, <1>4, <1>5, <2>1 DEF LoopHolds
  <2>2. CASE v # w
    BY <1>5, <2>2 DEF DigestInv, LoopHolds
  <2> QED
    BY <2>1, <2>2
<1>16. ASSUME NEW v \in Nightlies PROVE VerdictsHold(v)'
  <2>1. CASE v = w
    <3> SUFFICES ASSUME NEW u \in DigestTenants
                 PROVE  /\ u \in m.todo \/ \E g \in Verdicts : u \in m.summary[g]
                        /\ u \in m.summary["new"] /\ m.summary["failed"] = {} /\ ~m.raced => digest'[u][d] # <<>>
                        /\ u \in m.summary["verified"] => digest'[u][d] # <<>>
                        /\ u \in m.summary["mismatched"] => <<u, d>> \in disturbed'
      BY <1>4, <1>5, <2>1 DEF VerdictsHold
    <3>1. /\ u \in n.todo \/ \E g \in Verdicts : u \in n.summary[g]
          /\ u \in n.summary["new"] /\ n.summary["failed"] = {} /\ ~n.raced => n.flushed[u] # <<>> \/ digest[u][d] # <<>>
          /\ u \in n.summary["verified"] => digest[u][d] # <<>>
          /\ u \in n.summary["mismatched"] => <<u, d>> \in disturbed
      BY <1>2, <1>3 DEF VerdictsHold
    <3>2. n.flushed[u] # <<>> \/ digest[u][d] # <<>> => digest'[u][d] # <<>>
      <4>1. n.flushed[u] # <<>> => digest'[u][d] = n.flushed[u]
        BY <1>1, <1>7
      <4>2. digest[u][d] # <<>> => digest'[u][d] = digest[u][d]
        BY <1>1, <1>11
      <4> QED
        BY <4>1, <4>2
    <3> QED
      BY <1>2, <1>4, <1>9, <3>1, <3>2
  <2>2. CASE v # w
    <3>1. nightly'[v] = nightly[v] /\ VerdictsHold(v) /\ nightly[v].day \in Days
      BY <1>5, <2>2 DEF DigestInv, DigestTypeOK, Nightly
    <3>2. \A u \in DigestTenants : digest[u][nightly[v].day] # <<>> => digest'[u][nightly[v].day] # <<>>
      BY <1>11, <3>1
    <3> QED
      BY <1>9, <3>1, <3>2 DEF VerdictsHold
  <2> QED
    BY <2>1, <2>2
<1>17. ASSUME NEW v \in Nightlies PROVE FlushedHold(v)'
  <2>1. CASE v = w
    BY <1>4, <1>5, <1>6, <2>1 DEF FlushedHold, Fits
  <2>2. CASE v # w
    <3>1. nightly'[v] = nightly[v] /\ FlushedHold(v) /\ nightly[v].day \in Days
      BY <1>5, <2>2 DEF DigestInv, DigestTypeOK, Nightly
    <3>2. ASSUME NEW t \in DigestTenants
          PROVE  /\ Fits(nightly[v].flushed[t], t, nightly[v].day)'
                 /\ nightly'[v].pc = "insert" /\ nightly'[v].current = {t} => Fits(nightly[v].computed, t, nightly[v].day)'
      <4>1. ASSUME NEW s, NEW e, s = nightly[v].flushed[t], e = nightly[v].day PROVE Fits(s, t, e)'
        BY <1>13, <4>1
      <4>2. ASSUME NEW s, NEW e, s = nightly[v].computed, e = nightly[v].day,
                   nightly[v].pc = "insert", nightly[v].current = {t}
            PROVE  Fits(s, t, e)'
        BY <1>13, <4>2
      <4>3. Fits(nightly[v].flushed[t], t, nightly[v].day)'
        BY <3>1, <4>1 DEF Fits
      <4>4. nightly[v].pc = "insert" /\ nightly[v].current = {t} => Fits(nightly[v].computed, t, nightly[v].day)'
        BY <3>1, <4>2 DEF Fits
      <4> QED
        BY <3>1, <4>3, <4>4
    <3>3. ASSUME NEW t \in DigestTenants, nightly[v].flushed[t] # <<>>
          PROVE  /\ digest'[t][nightly[v].day] = <<>>
                 /\ \A u \in Nightlies \ {v} : nightly'[u].day = nightly[v].day => nightly'[u].flushed[t] = <<>>
      <4>1. /\ digest[t][nightly[v].day] = <<>>
            /\ \A u \in Nightlies \ {v} : nightly[u].day = nightly[v].day => nightly[u].flushed[t] = <<>>
        BY <3>1, <3>3 DEF FlushedHold
      <4>2. digest'[t][nightly[v].day] = <<>>
        BY <1>7, <2>2, <3>1, <4>1
      <4>3. ASSUME NEW u \in Nightlies \ {v}, nightly'[u].day = nightly[v].day PROVE nightly'[u].flushed[t] = <<>>
        <5>1. CASE u = w
          BY <1>5, <1>6, <5>1
        <5>2. CASE u # w
          BY <1>5, <4>1, <4>3, <5>2
        <5> QED
          BY <5>1, <5>2
      <4> QED
        BY <4>2, <4>3
    <3> QED
      BY <3>1, <3>2, <3>3 DEF FlushedHold
  <2> QED
    BY <2>1, <2>2
<1> QED
  BY <1>10, <1>14, <1>15, <1>16, <1>17 DEF DigestInv

LEMMA DigestStart == DigestInit => DigestInv
<1> SUFFICES ASSUME DigestInit PROVE DigestInv
  OBVIOUS
<1>1. /\ NoNightly \in Nightly /\ NoNightly.pc = "idle" /\ NoNightly.current = {}
      /\ NoNightly.flushed = NoneFlushed
      /\ NoNightly.summary["new"] = {} /\ NoNightly.summary["verified"] = {} /\ NoNightly.summary["mismatched"] = {}
  BY FreshType, DigestBounds DEF NoNightly, Verdicts
<1>2. (CHOOSE t \in DigestTenants : TRUE) \in DigestTenants
  BY DigestAssumption DEF DigestAssumption
<1>3. log \in [LogRows -> LogRow]
  BY <1>2, DigestBounds DEF DigestInit, LogRow
<1>4. digest \in [DigestTenants -> [Days -> Digests]] /\ nightly \in [Nightlies -> Nightly]
  BY <1>1, NoDigest DEF DigestInit
<1>5. DigestTypeOK
  BY <1>3, <1>4, DigestBounds DEF DigestInit, DigestTypeOK
<1>6. ASSUME NEW w \in Nightlies PROVE LoopHolds(w) /\ VerdictsHold(w) /\ FlushedHold(w)
  <2>1. nightly[w] = NoNightly
    BY DEF DigestInit
  <2>2. \A t \in DigestTenants : NoNightly.flushed[t] = <<>>
    BY <1>1 DEF NoneFlushed
  <2> QED
    BY <1>1, <2>1, <2>2 DEF LoopHolds, VerdictsHold, FlushedHold, Fits
<1>7. \A t \in DigestTenants, d \in Days : Fits(digest[t][d], t, d)
  BY DEF DigestInit, Fits
<1> QED
  BY <1>5, <1>6, <1>7 DEF DigestInv

LEMMA DigestSteps == ASSUME DigestInv, [DigestNext]_digestVars PROVE DigestInv'
<1>1. CASE UNCHANGED digestVars
  BY <1>1 DEF digestVars, DigestInv, DigestTypeOK, LoopHolds, VerdictsHold, FlushedHold, Fits, Fitting, DayRows, Between
<1>2. CASE DigestNext
  BY <1>2, LogHolds, ClockHolds, FreshHolds, VerifyHolds, EnsureHolds, InsertDigestHolds, LoseRaceHolds,
     FailingHolds, FinishHolds DEF DigestNext, NightlyStep
<1> QED
  BY <1>1, <1>2

\* What the nightly task reports is so (_run_for_all_tenants): however runs of
\* the same night overlap, fail, crash and are repeated, a mismatch is reported
\* only for a day whose rows or link changed after its digest was computed, and
\* a run that returned "ok" without losing a race left a digest of every tenant.
THEOREM DigestsTruthful == DigestSpec => []DigestsSound
<1>1. DigestInv => DigestsSound
  <2> SUFFICES ASSUME DigestInv PROVE DigestsSound
    OBVIOUS
  <2>1. MismatchIsReal
    <3> SUFFICES ASSUME NEW w \in Nightlies, NEW t \in nightly[w].summary["mismatched"]
                 PROVE  <<t, nightly[w].day>> \in disturbed
      BY DEF MismatchIsReal
    <3>1. nightly[w].summary \in [Verdicts -> SUBSET DigestTenants] /\ "mismatched" \in Verdicts
      BY DEF DigestInv, DigestTypeOK, Nightly, Verdicts
    <3>2. t \in DigestTenants
      BY <3>1
    <3> QED
      BY <3>2 DEF DigestInv, VerdictsHold
  <2>2. OkMeansDigested
    <3> SUFFICES ASSUME NEW w \in Nightlies, nightly[w].pc = "ended", StatusOk(w), ~nightly[w].raced,
                        NEW t \in DigestTenants
                 PROVE  digest[t][nightly[w].day] # <<>>
      BY DEF OkMeansDigested
    <3>1. LoopHolds(w) /\ VerdictsHold(w)
      BY DEF DigestInv
    <3>2. nightly[w].todo = {} /\ nightly[w].flushed = NoneFlushed
      BY <3>1 DEF LoopHolds
    <3>3. PICK f \in Verdicts : t \in nightly[w].summary[f]
      BY <3>1, <3>2 DEF VerdictsHold
    <3>4. f \in {"new", "verified"} /\ nightly[w].summary["failed"] = {}
      BY <3>3 DEF StatusOk, Verdicts
    <3>5. nightly[w].flushed[t] = <<>>
      BY <3>2 DEF NoneFlushed
    <3> QED
      BY <3>1, <3>3, <3>4, <3>5 DEF VerdictsHold
  <2> QED
    BY <2>1, <2>2 DEF DigestsSound, DigestInv
<1> QED
  BY <1>1, DigestStart, DigestSteps, PTL DEF DigestSpec

\* Only verify_daily_digest says "verified".
LEMMA OthersVerifyNothing ==
    ASSUME DigestInv, NEW w \in Nightlies, NEW t \in DigestTenants,
           \/ VerifyMissing(w, t) \/ Ensure(w, t) \/ InsertDigest(w, t) \/ LoseRace(w, t)
           \/ Deadlock(w, t) \/ DoomedTenant(w, t) \/ TenantFails(w, t)
           \/ Finish(w) \/ Return(w) \/ BeginNightly(w) \/ NightlyCrash(w),
           NEW v \in Nightlies
    PROVE  nightly'[v].summary["verified"] \subseteq nightly[v].summary["verified"]
<1> SUFFICES ASSUME NEW n, n = nightly[w] PROVE nightly'[v].summary["verified"] \subseteq nightly[v].summary["verified"]
  OBVIOUS
<1>1. /\ nightly \in [Nightlies -> Nightly] /\ n \in Nightly /\ n.summary \in [Verdicts -> SUBSET DigestTenants]
      /\ {"new", "verified", "failed"} \subseteq Verdicts
  BY DEF DigestInv, DigestTypeOK, Nightly, Verdicts
<1>2. ASSUME NEW m, nightly' = [nightly EXCEPT ![w] = m], m.summary["verified"] \subseteq n.summary["verified"]
      PROVE  nightly'[v].summary["verified"] \subseteq nightly[v].summary["verified"]
  BY <1>1, <1>2
<1>3. ASSUME NEW f \in {"new", "failed"}, NEW flushed, NEW doomed, NEW raced,
             nightly' = [nightly EXCEPT ![w] = Visited(n, t, f, flushed, doomed, raced)]
      PROVE  nightly'[v].summary["verified"] \subseteq nightly[v].summary["verified"]
  <2>1. Visited(n, t, f, flushed, doomed, raced).summary["verified"] = n.summary["verified"]
    BY <1>1 DEF Visited
  <2> QED
    BY <1>2, <1>3, <2>1
<1>4. ASSUME NEW pc, NEW s, nightly' = [nightly EXCEPT ![w] = Visiting(n, pc, t, s)]
      PROVE  nightly'[v].summary["verified"] \subseteq nightly[v].summary["verified"]
  <2>1. Visiting(n, pc, t, s).summary["verified"] = n.summary["verified"]
    BY DEF Visiting
  <2> QED
    BY <1>2, <1>4, <2>1
<1>5. ASSUME NEW pc, NEW d, NEW todo, nightly' = [nightly EXCEPT ![w] = Fresh(pc, d, todo)]
      PROVE  nightly'[v].summary["verified"] \subseteq nightly[v].summary["verified"]
  <2>1. Fresh(pc, d, todo).summary["verified"] = {}
    BY DEF Fresh, Verdicts
  <2> QED
    BY <1>2, <1>5, <2>1
<1>6. CASE VerifyMissing(w, t)
  BY <1>4, <1>6 DEF VerifyMissing
<1>7. CASE Ensure(w, t)
  <2>1. CASE digest[t][n.day] # <<>>
    <3>1. nightly' = [nightly EXCEPT ![w] = Visited(n, t, "new", n.flushed, n.doomed, n.raced)]
      BY <1>7, <2>1 DEF Ensure, Tallied
    <3> QED
      BY <1>3, <3>1
  <2>2. CASE digest[t][n.day] = <<>>
    <3>1. nightly' = [nightly EXCEPT ![w] = Visiting(n, "insert", t, Computed(w, t, n.day))]
      BY <1>7, <2>2 DEF Ensure
    <3> QED
      BY <1>4, <3>1
  <2> QED
    BY <2>1, <2>2
<1>8. CASE InsertDigest(w, t)
  <2>1. nightly' = [nightly EXCEPT ![w] = Visited(n, t, "new", [n.flushed EXCEPT ![t] = n.computed], n.doomed, n.raced)]
    BY <1>8 DEF InsertDigest
  <2> QED
    BY <1>3, <2>1
<1>9. CASE LoseRace(w, t)
  <2>1. nightly' = [nightly EXCEPT ![w] = Visited(n, t, "new", NoneFlushed, n.doomed, TRUE)]
    BY <1>9 DEF LoseRace
  <2> QED
    BY <1>3, <2>1
<1>10. CASE Deadlock(w, t) \/ DoomedTenant(w, t) \/ TenantFails(w, t)
  <2>1. nightly' = [nightly EXCEPT ![w] = Visited(n, t, "failed", NoneFlushed, TRUE, n.raced)]
    BY <1>10 DEF Deadlock, DoomedTenant, TenantFails, Failing
  <2> QED
    BY <1>3, <2>1
<1>11. CASE Finish(w)
  <2>1. nightly' = [nightly EXCEPT ![w] = Committed(n)] /\ Committed(n).summary = n.summary
    BY <1>11 DEF Finish, Committed
  <2> QED
    BY <1>2, <2>1
<1>12. CASE Return(w) \/ NightlyCrash(w)
  <2>1. nightly' = [nightly EXCEPT ![w] = Fresh("idle", 0, {})]
    BY <1>12 DEF Return, NightlyCrash, NoNightly
  <2> QED
    BY <1>5, <2>1
<1>13. CASE BeginNightly(w)
  <2>1. nightly' = [nightly EXCEPT ![w] = Fresh("loop", Day(now) - 1, DigestTenants)]
    BY <1>13 DEF BeginNightly
  <2> QED
    BY <1>5, <2>1
<1> QED
  BY <1>6, <1>7, <1>8, <1>9, <1>10, <1>11, <1>12, <1>13

\* A stored digest is evidence: no run, repeated, overlapping or restarted,
\* changes or removes it, and a run that says a day is verified looked at the
\* very rows its digest was made of (_run_for_all_tenants,
\* verify_daily_digest).
THEOREM DigestsLast == DigestSpec => DigestKept /\ VerifiedIsUntouched
<1> DEFINE Kept == \A t \in DigestTenants, d \in Days : digest[t][d] # <<>> => digest'[t][d] = digest[t][d]
           Untouched == \A w \in Nightlies, t \in DigestTenants :
                           t \in nightly'[w].summary["verified"] \ nightly[w].summary["verified"] =>
                               digest[t][nightly[w].day][1] = Between(t, 2 * nightly[w].day, 2 * nightly[w].day + 2)
<1>1. ASSUME DigestInv, [DigestNext]_digestVars PROVE Kept
  <2>1. CASE \E w \in Nightlies : Finish(w)
    <3>1. PICK w \in Nightlies : Finish(w)
      BY <2>1
    <3> SUFFICES ASSUME NEW t \in DigestTenants, NEW d \in Days, digest[t][d] # <<>> PROVE digest'[t][d] = digest[t][d]
      OBVIOUS
    <3>2. nightly[w].flushed[t] # <<>> => d # nightly[w].day
      BY <1>1 DEF DigestInv, FlushedHold
    <3>3. digest[t] \in [Days -> Digests]
      BY <1>1 DEF DigestInv, DigestTypeOK
    <3>4. digest'[t] = IF nightly[w].flushed[t] # <<>> THEN [digest[t] EXCEPT ![nightly[w].day] = nightly[w].flushed[t]] ELSE digest[t]
      BY <3>1 DEF Finish
    <3> QED
      BY <3>2, <3>3, <3>4
  <2>2. CASE digest' = digest
    BY <2>2
  <2>3. (\E w \in Nightlies : Finish(w)) \/ digest' = digest
    <3>1. ASSUME NEW w \in Nightlies, NEW t \in DigestTenants,
                 \/ Verify(w, t) \/ VerifyMissing(w, t) \/ Ensure(w, t) \/ InsertDigest(w, t)
                 \/ LoseRace(w, t) \/ Deadlock(w, t) \/ DoomedTenant(w, t) \/ TenantFails(w, t)
          PROVE  digest' = digest
      BY <3>1 DEF Verify, VerifyMissing, Ensure, InsertDigest, LoseRace, Deadlock, DoomedTenant, TenantFails
    <3>2. ASSUME NEW w \in Nightlies, BeginNightly(w) \/ Return(w) \/ NightlyCrash(w) \/ SecondDelivery(w)
          PROVE  digest' = digest
      BY <3>2 DEF BeginNightly, Return, NightlyCrash, SecondDelivery
    <3>3. ASSUME NEW r \in LogRows, (\E t \in DigestTenants : OpenLogRow(r, t)) \/ CommitLogRow(r) \/ AlterLogRow(r)
          PROVE  digest' = digest
      BY <3>3 DEF OpenLogRow, CommitLogRow, AlterLogRow
    <3>4. PassTime => digest' = digest
      BY DEF PassTime
    <3>5. UNCHANGED digestVars => digest' = digest
      BY DEF digestVars
    <3> QED
      BY <1>1, <3>1, <3>2, <3>3, <3>4, <3>5 DEF DigestNext, NightlyStep
  <2> QED
    BY <2>1, <2>2, <2>3
<1>2. ASSUME DigestInv, [DigestNext]_digestVars PROVE Untouched
  <2>1. CASE \E w \in Nightlies, t \in DigestTenants : Verify(w, t)
    <3>1. PICK w \in Nightlies, t \in DigestTenants : Verify(w, t)
      BY <2>1
    <3> SUFFICES ASSUME NEW v \in Nightlies, NEW u \in DigestTenants,
                        u \in nightly'[v].summary["verified"], u \notin nightly[v].summary["verified"],
                        NEW n, n = nightly[w], NEW f, f = IF Matches(w, t) THEN "verified" ELSE "mismatched"
                 PROVE  digest[u][nightly[v].day][1] = Between(u, 2 * nightly[v].day, 2 * nightly[v].day + 2)
      OBVIOUS
    <3>2. /\ nightly \in [Nightlies -> Nightly] /\ n.summary \in [Verdicts -> SUBSET DigestTenants]
          /\ n.day \in Days /\ {"verified", "mismatched"} \subseteq Verdicts
      BY <1>2 DEF DigestInv, DigestTypeOK, Nightly, Verdicts
    <3>3. nightly' = [nightly EXCEPT ![w] = Visited(n, t, f, n.flushed, n.doomed, n.raced)]
      BY <3>1 DEF Verify, Tallied
    <3>4. Visited(n, t, f, n.flushed, n.doomed, n.raced).summary = [n.summary EXCEPT ![f] = @ \cup {t}]
      BY DEF Visited
    <3>5. v = w /\ f = "verified" /\ u = t
      BY <3>2, <3>3, <3>4
    <3>6. digest[t][n.day] = Fitting(t, n.day) /\ Fitting(t, n.day)[1] = DayRows(t, n.day)
      BY <1>2, <3>2, <3>5, ComputedFits DEF Matches
    <3> QED
      BY <3>5, <3>6 DEF DayRows
  <2>2. CASE \A v \in Nightlies : nightly'[v].summary["verified"] \subseteq nightly[v].summary["verified"]
    BY <2>2
  <2>3. \/ \E w \in Nightlies, t \in DigestTenants : Verify(w, t)
        \/ \A v \in Nightlies : nightly'[v].summary["verified"] \subseteq nightly[v].summary["verified"]
    <3>1. CASE nightly' = nightly
      BY <3>1
    <3>2. PICK t \in DigestTenants : TRUE
      BY DigestAssumption DEF DigestAssumption
    <3>3. CASE \E w \in Nightlies : BeginNightly(w) \/ NightlyCrash(w) \/ Finish(w) \/ Return(w)
      BY <1>2, <3>2, <3>3, OthersVerifyNothing
    <3>4. CASE \E w \in Nightlies, u \in DigestTenants :
                  \/ VerifyMissing(w, u) \/ Ensure(w, u) \/ InsertDigest(w, u) \/ LoseRace(w, u)
                  \/ Deadlock(w, u) \/ DoomedTenant(w, u) \/ TenantFails(w, u)
      BY <1>2, <3>4, OthersVerifyNothing
    <3>5. \/ nightly' = nightly
          \/ \E w \in Nightlies, u \in DigestTenants : Verify(w, u)
          \/ \E w \in Nightlies : BeginNightly(w) \/ NightlyCrash(w) \/ Finish(w) \/ Return(w)
          \/ \E w \in Nightlies, u \in DigestTenants :
                  \/ VerifyMissing(w, u) \/ Ensure(w, u) \/ InsertDigest(w, u) \/ LoseRace(w, u)
                  \/ Deadlock(w, u) \/ DoomedTenant(w, u) \/ TenantFails(w, u)
      BY <1>2 DEF DigestNext, NightlyStep, digestVars, OpenLogRow, CommitLogRow, AlterLogRow, PassTime, SecondDelivery
    <3> QED
      BY <3>1, <3>3, <3>4, <3>5
  <2> QED
    BY <2>1, <2>2, <2>3
<1>3. ASSUME DigestInv, [DigestNext]_digestVars PROVE [Kept]_digestVars /\ [Untouched]_digestVars
  BY <1>1, <1>2, <1>3
<1> HIDE DEF Kept, Untouched
<1>4. DigestSpec => [][Kept]_digestVars /\ [][Untouched]_digestVars
  BY <1>3, DigestStart, DigestSteps, PTL DEF DigestSpec
<1> QED
  BY <1>4 DEF DigestKept, VerifiedIsUntouched, Kept, Untouched

-----------------------------------------------------------------------------
(* Listings *)

LEMMA ListBounds ==
    /\ MaxLimit \in Nat /\ DefaultLimit \in 1..MaxLimit /\ PageSize \in Nat /\ PageSize >= 1
    /\ Limits \subseteq Nat /\ MaxChanges \in Nat /\ Times \subseteq Nat /\ Ids \subseteq Nat
BY ListingAssumption DEF ListingAssumption

LEMMA FiniteKeys == ASSUME NEW K \in SUBSET Keys PROVE IsFiniteSet(K) /\ Cardinality(K) \in Nat
<1>1. IsFiniteSet(Keys)
  BY ListingAssumption, FS_Product DEF ListingAssumption, Keys
<1> QED
  BY <1>1, FS_Subset, FS_CardinalityType

\* The order of a listing is total.
LEMMA TotalOrder ==
    ASSUME NEW mode, NEW k \in Keys, NEW l \in Keys
    PROVE  /\ ~Before(mode, k, k)
           /\ k # l => Before(mode, k, l) \/ Before(mode, l, k)
           /\ Before(mode, k, l) => \A m \in Keys : Before(mode, m, k) => Before(mode, m, l)
           /\ Before(mode, k, l) => ~Before(mode, l, k)
<1>1. ASSUME NEW m \in Keys PROVE m = <<m[1], m[2]>> /\ m[1] \in Nat /\ m[2] \in Nat
  <2>1. PICK a \in Times, b \in Ids : m = <<a, b>>
    BY DEF Keys
  <2> QED
    BY <2>1, ListBounds
<1>2. k # l => k[1] # l[1] \/ k[2] # l[2]
  BY <1>1
<1> QED
  BY <1>1, <1>2 DEF Before, Less

LEMMA RankType ==
    ASSUME NEW mode, NEW K \in SUBSET Keys, NEW k \in K
    PROVE  Rank(mode, K, k) \in 0..(Cardinality(K) - 1)
<1> DEFINE P == {l \in K : Before(mode, l, k)}
<1>1. P \in SUBSET (K \ {k}) /\ K \ {k} \in SUBSET Keys
  BY TotalOrder
<1>2. Cardinality(K \ {k}) = Cardinality(K) - 1
  BY FiniteKeys, FS_RemoveElement
<1>3. IsFiniteSet(K \ {k}) /\ IsFiniteSet(P) /\ Cardinality(P) \in Nat
  BY <1>1, FiniteKeys
<1>4. Cardinality(P) <= Cardinality(K \ {k})
  BY <1>1, <1>3, FS_Subset
<1> QED
  BY <1>2, <1>3, <1>4, FiniteKeys DEF Rank

\* A row before another has the smaller rank.
LEMMA RankGrows ==
    ASSUME NEW mode, NEW K \in SUBSET Keys, NEW k \in K, NEW l \in K, Before(mode, k, l)
    PROVE  Rank(mode, K, k) < Rank(mode, K, l)
<1> DEFINE P == {m \in K : Before(mode, m, k)}
           Q == {m \in K : Before(mode, m, l)}
<1>1. P \in SUBSET Q /\ k \in Q /\ k \notin P /\ P \in SUBSET Keys /\ Q \in SUBSET Keys
  BY TotalOrder
<1>2. IsFiniteSet(Q) /\ Cardinality(Q) \in Nat /\ Cardinality(P) \in Nat
  BY <1>1, FiniteKeys
<1> HIDE DEF P, Q
<1>3. Cardinality(P) <= Cardinality(Q) /\ Cardinality(P) # Cardinality(Q)
  BY <1>1, <1>2, FS_Subset
<1> QED
  BY <1>2, <1>3 DEF Rank, P, Q

\* Every place in the order is taken by exactly one row.
LEMMA RankOnto ==
    ASSUME NEW mode, NEW K \in SUBSET Keys, NEW i \in 0..(Cardinality(K) - 1)
    PROVE  \E k \in K : Rank(mode, K, k) = i
<1> DEFINE T == 0..(Cardinality(K) - 1)
           f == [k \in K |-> Rank(mode, K, k)]
<1>1. Cardinality(K) \in Nat /\ IsFiniteSet(K)
  BY FiniteKeys
<1>2. IsFiniteSet(T) /\ Cardinality(T) = Cardinality(K)
  <2>1. 0 \in Int /\ Cardinality(K) - 1 \in Int
    BY <1>1
  <2>2. IsFiniteSet(T) /\ Cardinality(T) = IF 0 > Cardinality(K) - 1 THEN 0 ELSE (Cardinality(K) - 1) - 0 + 1
    BY <2>1, FS_Interval
  <2> QED
    BY <1>1, <2>2
<1>3. f \in [K -> T]
  BY RankType
<1>4. ASSUME NEW k \in K, NEW l \in K, f[k] = f[l] PROVE k = l
  <2>1. Rank(mode, K, k) \in T /\ Rank(mode, K, l) \in T /\ Rank(mode, K, k) = Rank(mode, K, l)
    BY <1>4, RankType
  <2> QED
    BY <1>1, <2>1, TotalOrder, RankGrows
<1>5. f \in Injection(K, T)
  BY <1>3, <1>4 DEF Injection, IsInjective
<1>6. f \in Surjection(K, T)
  BY <1>2, <1>5, FS_Injection
<1> QED
  BY <1>6 DEF Surjection

\* The rows in order: all of them, each once, each before the next ones.
LEMMA Ordered ==
    ASSUME NEW mode, NEW K \in SUBSET Keys, NEW s, s = InOrder(mode, K), NEW n, n = Cardinality(K)
    PROVE  /\ n \in Nat /\ s \in [1..n -> K] /\ s \in Seq(Keys) /\ Len(s) = n
           /\ \A i, j \in 1..n : i < j => Before(mode, s[i], s[j])
           /\ \A k \in K : \E i \in 1..n : s[i] = k
<1>1. n \in Nat
  BY FiniteKeys
<1>2. ASSUME NEW i \in 1..n PROVE s[i] \in K /\ Rank(mode, K, s[i]) = i - 1
  <2>1. i - 1 \in 0..(Cardinality(K) - 1)
    BY <1>1
  <2>2. \E k \in K : Rank(mode, K, k) = i - 1
    BY <2>1, RankOnto
  <2>3. s[i] = CHOOSE k \in K : Rank(mode, K, k) = i - 1
    BY DEF InOrder
  <2> QED
    BY <2>2, <2>3
<1>3. s \in [1..n -> K]
  BY <1>2 DEF InOrder
<1>4. s \in Seq(Keys) /\ Len(s) = n
  BY <1>1, <1>3
<1>5. ASSUME NEW i \in 1..n, NEW j \in 1..n, i < j PROVE Before(mode, s[i], s[j])
  <2>1. s[i] \in K /\ s[j] \in K /\ Rank(mode, K, s[i]) = i - 1 /\ Rank(mode, K, s[j]) = j - 1
    BY <1>2
  <2>2. s[i] # s[j]
    BY <1>1, <1>5, <2>1
  <2>3. Before(mode, s[i], s[j]) \/ Before(mode, s[j], s[i])
    BY <2>1, <2>2, TotalOrder
  <2>4. Before(mode, s[j], s[i]) => j - 1 < i - 1
    BY <2>1, RankGrows
  <2> QED
    BY <1>1, <1>5, <2>3, <2>4
<1>6. ASSUME NEW k \in K PROVE \E i \in 1..n : s[i] = k
  <2>1. Rank(mode, K, k) \in 0..(n - 1)
    BY RankType
  <2>2. PICK i \in 1..n : i - 1 = Rank(mode, K, k)
    BY <1>1, <2>1
  <2>3. s[i] \in K /\ Rank(mode, K, s[i]) = Rank(mode, K, k) /\ Rank(mode, K, k) \in Nat
    BY <1>2, <2>1, <2>2
  <2>4. s[i] # k => Before(mode, s[i], k) \/ Before(mode, k, s[i])
    BY <2>3, TotalOrder
  <2> QED
    BY <2>3, <2>4, RankGrows
<1> QED
  BY <1>1, <1>3, <1>4, <1>5, <1>6

-----------------------------------------------------------------------------
(* Pages *)

LEMMA KeyIsNoCursor == \A k \in Keys : k # NoCursor
<1> SUFFICES ASSUME NEW k \in Keys PROVE k # NoCursor
  OBVIOUS
<1>1. PICK a \in Times, b \in Ids : k = <<a, b>>
  BY DEF Keys
<1>2. Len(<<a, b>>) = 2 /\ Len(<<>>) = 0
  OBVIOUS
<1> QED
  BY <1>1, <1>2 DEF NoCursor

\* p is the first m rows of s, or all of them.
IsFirst(p, s, m) ==
    /\ p \in Seq(Keys) /\ Len(p) \in Nat /\ Len(p) = (IF Len(s) < m THEN Len(s) ELSE m)
    /\ \A i \in 1..Len(p) : p[i] = s[i]

LEMMA Firsts == ASSUME NEW s \in Seq(Keys), NEW m \in Nat PROVE IsFirst(FirstOf(s, m), s, m)
<1> DEFINE q == IF Len(s) < m THEN Len(s) ELSE m
<1>1. q \in Nat /\ q <= Len(s) /\ Len(s) \in Nat
  OBVIOUS
<1>2. FirstOf(s, m) = SubSeq(s, 1, q)
  BY DEF FirstOf
<1> HIDE DEF q
<1>3. SubSeq(s, 1, q) \in Seq(Keys)
  BY <1>1
<1>4. Len(SubSeq(s, 1, q)) = q
  BY <1>1
<1>5. \A i \in 1..q : SubSeq(s, 1, q)[i] = s[i]
  BY <1>1
<1> QED
  BY <1>1, <1>2, <1>3, <1>4, <1>5 DEF q, IsFirst

LEMMA Rest ==
    ASSUME NEW s \in Seq(Keys), NEW a \in Nat, a <= Len(s), NEW r, r = SubSeq(s, a + 1, Len(s))
    PROVE  Len(r) = Len(s) - a /\ \A i \in 1..(Len(s) - a) : r[i] = s[a + i]
<1>1. Len(s) \in Nat /\ a + 1 \in 1..(Len(s) + 1)
  OBVIOUS
<1>2. Len(r) = IF a + 1 <= Len(s) THEN Len(s) - (a + 1) + 1 ELSE 0
  BY <1>1
<1>3. Len(r) = Len(s) - a
  BY <1>1, <1>2
<1>4. \A i \in 1..Len(r) : r[i] = s[(a + 1) + i - 1]
  BY <1>1
<1>5. \A i \in 1..(Len(s) - a) : (a + 1) + i - 1 = a + i
  BY <1>1
<1> QED
  BY <1>3, <1>4, <1>5

LEMMA NextPlace == ASSUME NEW a \in Nat, NEW j \in Nat PROVE (a + j) + 1 = a + (j + 1)
OBVIOUS

LEMMA Joined ==
    ASSUME NEW s \in Seq(Keys), NEW p \in Seq(Keys)
    PROVE  /\ s \o p \in Seq(Keys) /\ Len(s) \in Nat /\ Len(p) \in Nat /\ Len(s \o p) = Len(s) + Len(p)
           /\ \A i \in 1..Len(s) : (s \o p)[i] = s[i]
           /\ \A i \in 1..Len(p) : (s \o p)[Len(s) + i] = p[i]
<1>1. s \o p \in Seq(Keys) /\ Len(s) \in Nat /\ Len(p) \in Nat
  OBVIOUS
<1>2. Len(s \o p) = Len(s) + Len(p)
  OBVIOUS
<1>3. \A i \in 1..Len(s) : (s \o p)[i] = s[i]
  OBVIOUS
<1>4. \A i \in 1..Len(p) : (s \o p)[Len(s) + i] = p[i]
  OBVIOUS
<1> QED
  BY <1>1, <1>2, <1>3, <1>4

\* The first rows of an ordered set: what a page leaves out comes after it.
LEMMA PageOf ==
    ASSUME NEW mode, NEW K \in SUBSET Keys, NEW p \in Seq(Keys), Len(p) <= Cardinality(K),
           \A i \in 1..Len(p) : p[i] = InOrder(mode, K)[i]
    PROVE  /\ \A i \in 1..Len(p) : p[i] \in K
           /\ \A i, j \in 1..Len(p) : i < j => Before(mode, p[i], p[j])
           /\ \A k \in K : (\E i \in 1..Len(p) : p[i] = k) \/ (Len(p) < Cardinality(K) /\ (Len(p) > 0 => Before(mode, p[Len(p)], k)))
<1> SUFFICES ASSUME NEW s, s = InOrder(mode, K), NEW n, n = Cardinality(K), NEW q, q = Len(p)
             PROVE  /\ \A i \in 1..q : p[i] \in K
                    /\ \A i, j \in 1..q : i < j => Before(mode, p[i], p[j])
                    /\ \A k \in K : (\E i \in 1..q : p[i] = k) \/ (q < n /\ (q > 0 => Before(mode, p[q], k)))
  OBVIOUS
<1>1. /\ n \in Nat /\ s \in [1..n -> K]
      /\ \A i, j \in 1..n : i < j => Before(mode, s[i], s[j])
      /\ \A k \in K : \E i \in 1..n : s[i] = k
  BY Ordered
<1>2. q \in Nat /\ q <= n /\ \A i \in 1..q : i \in 1..n /\ p[i] = s[i]
  BY <1>1
<1>3. \A i \in 1..q : p[i] \in K
  BY <1>1, <1>2
<1>4. \A i, j \in 1..q : i < j => Before(mode, p[i], p[j])
  BY <1>1, <1>2
<1>5. ASSUME NEW k \in K PROVE (\E i \in 1..q : p[i] = k) \/ (q < n /\ (q > 0 => Before(mode, p[q], k)))
  <2>1. PICK i \in 1..n : s[i] = k
    BY <1>1
  <2>2. CASE i <= q
    <3>1. i \in 1..q
      BY <1>1, <1>2, <2>2
    <3> QED
      BY <1>2, <2>1, <3>1
  <2>3. CASE i > q
    <3>1. q > 0 => q \in 1..n /\ q \in 1..q /\ q < i
      BY <1>1, <1>2, <2>3
    <3> QED
      BY <1>1, <1>2, <2>1, <2>3, <3>1
  <2> QED
    BY <1>1, <1>2, <2>2, <2>3
<1> QED
  BY <1>3, <1>4, <1>5

-----------------------------------------------------------------------------
(* The walk *)

\* A keyset walk has read in order all that stayed, or has it still before it.
KeysetHolds ==
    walk.mode \in {"export", "cursor"} /\ walk.pc \in {"reading", "done"} =>
        /\ walk.cursor = NoCursor <=> Len(walk.out) = 0
        /\ Len(walk.out) > 0 => walk.cursor = walk.out[Len(walk.out)]
        /\ \A i \in 1..(Len(walk.out) - 1) : Before(walk.mode, walk.out[i], walk.out[i + 1])
        /\ \A k \in walk.stayed :
              (\E i \in 1..Len(walk.out) : walk.out[i] = k) \/ (walk.pc = "reading" /\ Beyond(k))

\* While nothing changes, offset pages are the beginning of the listing.
OffsetHolds ==
    walk.mode = "offset" /\ walk.quiet /\ walk.pc \in {"reading", "done"} =>
        /\ walk.stayed = Selected
        /\ Len(walk.out) <= Cardinality(Selected)
        /\ \A i \in 1..Len(walk.out) : walk.out[i] = InOrder("offset", Selected)[i]
        /\ walk.pc = "done" => Len(walk.out) = Cardinality(Selected)

\* The inductive invariant.
ListInv ==
    /\ ListTypeOK
    /\ walk.stayed \subseteq Selected
    /\ walk.pc = "idle" <=> walk.mode = "none"
    /\ walk.pc \in {"idle", "refused"} => walk.out = <<>>
    /\ walk.pc = "reading" => walk.limit >= 1
    /\ KeysetHolds
    /\ OffsetHolds

LEMMA BegunType ==
    ASSUME NEW mode \in Modes \cup {"none"}, NEW pc \in {"idle", "reading", "done", "refused"},
           NEW n \in 0..MaxLimit \cup {PageSize}, NEW rows \in SUBSET Keys
    PROVE  /\ Begun(mode, pc, n, rows) \in Walk
           /\ Begun(mode, pc, n, rows).mode = mode /\ Begun(mode, pc, n, rows).pc = pc
           /\ Begun(mode, pc, n, rows).limit = n /\ Begun(mode, pc, n, rows).cursor = NoCursor
           /\ Begun(mode, pc, n, rows).out = <<>> /\ Begun(mode, pc, n, rows).stayed = rows
BY DEF Begun, Walk

LEMMA ListStart == ListInit => ListInv
<1> SUFFICES ASSUME ListInit PROVE ListInv
  OBVIOUS
<1>1. 0 \in 0..MaxLimit \cup {PageSize} /\ {} \in SUBSET Keys /\ "none" \in Modes \cup {"none"}
  BY ListBounds
<1>2. walk \in Walk /\ walk.mode = "none" /\ walk.pc = "idle" /\ walk.out = <<>> /\ walk.stayed = {}
  <2>1. walk = Begun("none", "idle", 0, {})
    BY DEF ListInit, NoWalk
  <2> QED
    BY <1>1, <2>1, BegunType
<1>3. ListTypeOK
  BY <1>2, ListBounds DEF ListInit, ListTypeOK
<1> QED
  BY <1>2, <1>3 DEF ListInv, KeysetHolds, OffsetHolds

LEMMA BeginWalkHolds ==
    ASSUME ListInv, NEW mode \in Modes, NEW n \in Limits, BeginWalk(mode, n) PROVE ListInv'
<1>1. UNCHANGED <<stored, changes>> /\ Selected' = Selected /\ Selected \in SUBSET Keys
  BY DEF BeginWalk, Selected, ListInv, ListTypeOK
<1>2. CASE LimitOk(n)
  <2> DEFINE m == IF mode = "export" THEN PageSize ELSE normalize_limit(n)
  <2>1. m \in 0..MaxLimit \cup {PageSize} /\ m >= 1
    BY <1>2, ListBounds DEF LimitOk, normalize_limit
  <2>2. walk' = Begun(mode, "reading", m, Selected)
    BY <1>2 DEF BeginWalk
  <2> HIDE DEF m
  <2>3. /\ walk' \in Walk /\ walk'.mode = mode /\ walk'.pc = "reading" /\ walk'.limit = m /\ walk'.cursor = NoCursor
        /\ walk'.out = <<>> /\ walk'.stayed = Selected
    <3>1. mode \in Modes \cup {"none"} /\ "reading" \in {"idle", "reading", "done", "refused"}
      OBVIOUS
    <3> QED
      BY <1>1, <2>1, <2>2, <3>1, BegunType
  <2>4. ListTypeOK'
    BY <1>1, <2>3 DEF ListInv, ListTypeOK
  <2>5. Len(walk'.out) = 0 /\ Cardinality(Selected) \in Nat
    BY <1>1, <2>3, FiniteKeys
  <2>6. KeysetHolds'
    BY <2>3, <2>5 DEF KeysetHolds, Beyond
  <2>7. OffsetHolds'
    BY <1>1, <2>3, <2>5 DEF OffsetHolds
  <2> QED
    BY <1>1, <2>1, <2>3, <2>4, <2>6, <2>7 DEF ListInv, Modes
<1>3. CASE ~LimitOk(n)
  <2>1. 0 \in 0..MaxLimit \cup {PageSize} /\ {} \in SUBSET Keys
    BY ListBounds
  <2>2. walk' \in Walk /\ walk'.mode = mode /\ walk'.pc = "refused" /\ walk'.out = <<>> /\ walk'.stayed = {}
    BY <1>3, <2>1, BegunType DEF BeginWalk
  <2>3. ListTypeOK'
    BY <1>1, <2>2 DEF ListInv, ListTypeOK
  <2> QED
    BY <1>1, <2>2, <2>3 DEF ListInv, KeysetHolds, OffsetHolds, Modes
<1> QED
  BY <1>2, <1>3

\* The rows a keyset page is taken from.
Ahead == {k \in Selected : Beyond(k)}

\* A page of a keyset walk: the first rows beyond the cursor, and all of them
\* when no more are asked for.
LEMMA KeysetPageHolds ==
    ASSUME ListInv, walk.pc = "reading", walk.mode \in {"export", "cursor"},
           NEW page \in Seq(Keys), NEW more \in BOOLEAN, Reads(page, more),
           Len(page) <= Cardinality(Ahead),
           \A i \in 1..Len(page) : page[i] = InOrder(walk.mode, Ahead)[i],
           ~more => Len(page) = Cardinality(Ahead),
           more => Len(page) > 0
    PROVE  ListInv'
<1> SUFFICES ASSUME NEW K, K = Ahead, NEW mode, mode = walk.mode, NEW out, out = walk.out, NEW a, a = Len(out),
                    NEW p, p = Len(page), NEW b, b = Len(out \o page)
             PROVE  ListInv'
  OBVIOUS
<1>1. /\ walk \in Walk /\ out \in Seq(Keys) /\ Selected \in SUBSET Keys /\ K \in SUBSET Keys
      /\ walk.cursor \in Keys \cup {NoCursor}
  BY DEF ListInv, ListTypeOK, Walk, Selected, Ahead
<1>2. /\ out \o page \in Seq(Keys) /\ a \in Nat /\ p \in Nat /\ b = a + p
      /\ \A i \in 1..a : (out \o page)[i] = out[i]
      /\ \A i \in 1..p : (out \o page)[a + i] = page[i]
  BY <1>1, Joined
<1>3. /\ \A i \in 1..p : page[i] \in K
      /\ \A i, j \in 1..p : i < j => Before(mode, page[i], page[j])
      /\ \A k \in K : (\E i \in 1..p : page[i] = k) \/ (p < Cardinality(K) /\ (p > 0 => Before(mode, page[p], k)))
  BY <1>1, PageOf
<1>4. page = <<>> <=> p = 0
  OBVIOUS
<1>5. /\ UNCHANGED <<stored, changes>> /\ walk'.mode = mode /\ walk'.pc = (IF more THEN "reading" ELSE "done")
      /\ walk'.limit = walk.limit /\ walk'.out = out \o page /\ walk'.stayed = walk.stayed
      /\ walk'.cursor = (IF page = <<>> THEN walk.cursor ELSE page[p]) /\ walk'.quiet = walk.quiet
  BY DEF Reads
<1>6. walk' \in Walk
  <2>1. (IF page = <<>> THEN walk.cursor ELSE page[p]) \in Keys \cup {NoCursor}
    BY <1>1, <1>2, <1>4
  <2>2. (IF more THEN "reading" ELSE "done") \in {"idle", "reading", "done", "refused"}
    OBVIOUS
  <2> QED
    BY <1>1, <1>2, <2>1, <2>2 DEF Reads, Walk
<1>7. Selected' = Selected
  BY <1>5 DEF Selected
<1>8. /\ walk.cursor = NoCursor <=> a = 0
      /\ a > 0 => walk.cursor = out[a]
      /\ \A i \in 1..(a - 1) : Before(mode, out[i], out[i + 1])
      /\ \A k \in walk.stayed : (\E i \in 1..a : out[i] = k) \/ Beyond(k)
  BY DEF ListInv, KeysetHolds
<1>9. walk'.cursor = NoCursor <=> b = 0
  BY <1>1, <1>2, <1>3, <1>4, <1>5, <1>8, KeyIsNoCursor
<1>10. b > 0 => walk'.cursor = (out \o page)[b]
  <2>1. CASE p = 0
    BY <1>2, <1>4, <1>5, <1>8, <2>1
  <2>2. CASE p > 0
    <3>1. p \in 1..p
      BY <1>2, <2>2
    <3> QED
      BY <1>2, <1>4, <1>5, <2>2, <3>1
  <2> QED
    BY <1>2, <2>1, <2>2
<1>11. ASSUME NEW i \in 1..(b - 1) PROVE Before(mode, (out \o page)[i], (out \o page)[i + 1])
  <2>1. i \in Nat /\ a \in Nat /\ p \in Nat
    BY <1>2
  <2>2. CASE i < a
    <3>1. i \in 1..(a - 1) /\ i \in 1..a /\ i + 1 \in 1..a
      BY <1>2, <2>2
    <3> QED
      BY <1>2, <1>8, <3>1
  <2>3. CASE i = a
    <3>1. 1 \in 1..p /\ a > 0 /\ a \in 1..a
      BY <1>2, <2>3
    <3>2. page[1] \in K /\ walk.cursor # NoCursor
      BY <1>3, <1>8, <3>1
    <3>3. Before(mode, walk.cursor, page[1])
      BY <3>2 DEF Beyond, Ahead
    <3> QED
      BY <1>2, <1>8, <2>3, <3>1, <3>3
  <2>4. CASE i > a
    <3>1. PICK j \in 1..p : i = a + j /\ j + 1 \in 1..p
      <4>1. i - a \in 1..p /\ i = a + (i - a) /\ (i - a) + 1 \in 1..p
        BY <1>2, <2>4
      <4> QED
        BY <4>1
    <3>2. j \in Nat
      BY <2>1, <3>1
    <3>3. j < j + 1
      BY <3>2
    <3>4. i + 1 = a + (j + 1)
      <4>1. i = a + j
        BY <3>1
      <4>2. (a + j) + 1 = a + (j + 1)
        BY <2>1, <3>2, NextPlace
      <4> QED
        BY <4>1, <4>2
    <3> QED
      <4>1. (out \o page)[i] = page[j] /\ (out \o page)[i + 1] = page[j + 1]
        BY <1>2, <3>1, <3>4
      <4>2. Before(mode, page[j], page[j + 1])
        BY <1>3, <3>1, <3>3
      <4> QED
        BY <4>1, <4>2
  <2>5. i < a \/ i = a \/ i > a
    BY <2>1
  <2> QED
    BY <2>2, <2>3, <2>4, <2>5
<1>12. ASSUME NEW k \in walk.stayed
       PROVE  (\E i \in 1..b : (out \o page)[i] = k) \/ (more /\ Before(mode, walk'.cursor, k))
  <2>1. CASE \E i \in 1..a : out[i] = k
    <3>1. PICK i \in 1..a : out[i] = k
      BY <2>1
    <3>2. i \in 1..b
      BY <1>2
    <3> QED
      BY <1>2, <3>1, <3>2
  <2>2. CASE Beyond(k)
    <3>1. k \in K
      BY <2>2 DEF ListInv, Ahead
    <3>2. CASE \E i \in 1..p : page[i] = k
      <4>1. PICK i \in 1..p : page[i] = k
        BY <3>2
      <4>2. a + i \in 1..b
        BY <1>2
      <4> QED
        BY <1>2, <4>1, <4>2
    <3>3. CASE p < Cardinality(K) /\ (p > 0 => Before(mode, page[p], k))
      <4>1. more /\ p > 0
        BY <3>3
      <4> QED
        BY <1>4, <1>5, <3>3, <4>1
    <3> QED
      BY <1>3, <3>1, <3>2, <3>3
  <2> QED
    BY <1>8, <2>1, <2>2
<1>13. ListTypeOK'
  BY <1>5, <1>6 DEF ListInv, ListTypeOK
<1>14. ASSUME NEW k PROVE Beyond(k)' <=> (walk'.cursor = NoCursor \/ Before(mode, walk'.cursor, k))
  BY <1>5 DEF Beyond
<1>15. KeysetHolds'
  <2>1. walk'.pc = "reading" <=> more
    BY <1>5
  <2>2. \A k \in walk'.stayed : (\E i \in 1..b : (out \o page)[i] = k) \/ (walk'.pc = "reading" /\ Beyond(k)')
    BY <1>5, <1>12, <1>14, <2>1
  <2>3. b = Len(walk'.out) /\ walk'.out = out \o page
    BY <1>5
  <2>4. \A i \in 1..(Len(walk'.out) - 1) : Before(walk'.mode, walk'.out[i], walk'.out[i + 1])
    BY <1>5, <1>11, <2>3
  <2>5. \A k \in walk'.stayed : (\E i \in 1..Len(walk'.out) : walk'.out[i] = k) \/ (walk'.pc = "reading" /\ Beyond(k)')
    BY <2>2, <2>3
  <2>6. /\ walk'.cursor = NoCursor <=> Len(walk'.out) = 0
        /\ Len(walk'.out) > 0 => walk'.cursor = walk'.out[Len(walk'.out)]
    BY <1>9, <1>10, <2>3
  <2> QED
    BY <2>4, <2>5, <2>6 DEF KeysetHolds
<1>16. OffsetHolds'
  BY <1>5 DEF OffsetHolds
<1> QED
  BY <1>5, <1>7, <1>13, <1>15, <1>16 DEF ListInv

LEMMA ExportPageHolds == ASSUME ListInv, ExportPage PROVE ListInv'
<1> SUFFICES ASSUME NEW K, K = Ahead, NEW s, s = InOrder("export", K),
                    NEW page, page = FirstOf(s, PageSize)
             PROVE  ListInv'
  OBVIOUS
<1>1. K \in SUBSET Keys
  BY DEF ListInv, ListTypeOK, Selected, Ahead
<1>2. walk.pc = "reading" /\ walk.mode = "export" /\ Reads(page, Len(page) = PageSize)
  BY DEF ExportPage, Ahead
<1>3. Cardinality(K) \in Nat /\ s \in Seq(Keys) /\ Len(s) = Cardinality(K)
  BY <1>1, Ordered
<1>4. /\ page \in Seq(Keys) /\ Len(page) = (IF Len(s) < PageSize THEN Len(s) ELSE PageSize)
      /\ \A i \in 1..Len(page) : page[i] = s[i]
  <2>1. IsFirst(page, s, PageSize)
    BY <1>3, ListBounds, Firsts
  <2> QED
    BY <2>1 DEF IsFirst
<1>5. /\ Len(page) <= Cardinality(K) /\ (Len(page) # PageSize => Len(page) = Cardinality(K))
      /\ (Len(page) = PageSize => Len(page) > 0)
  BY <1>3, <1>4, ListBounds
<1>6. (Len(page) = PageSize) \in BOOLEAN
  OBVIOUS
<1> QED
  BY <1>2, <1>4, <1>5, <1>6, KeysetPageHolds

LEMMA CursorPageHolds == ASSUME ListInv, CursorPage PROVE ListInv'
<1> SUFFICES ASSUME NEW K, K = Ahead, NEW s, s = InOrder("cursor", K),
                    NEW n, n = walk.limit,
                    NEW rows, rows = FirstOf(s, n + 1), NEW page, page = FirstOf(rows, n)
             PROVE  ListInv'
  OBVIOUS
<1>1. K \in SUBSET Keys
  BY DEF ListInv, ListTypeOK, Selected, Ahead
<1>2. walk.pc = "reading" /\ walk.mode = "cursor" /\ Reads(page, Len(rows) > n)
  BY DEF CursorPage, Ahead
<1>3. n \in Nat /\ n >= 1
  BY <1>2, ListBounds DEF ListInv, ListTypeOK, Walk
<1>4. Cardinality(K) \in Nat /\ s \in Seq(Keys) /\ Len(s) = Cardinality(K)
  BY <1>1, Ordered
<1>5. n + 1 \in Nat
  BY <1>3
<1>6. /\ rows \in Seq(Keys) /\ Len(rows) \in Nat /\ Len(rows) = (IF Len(s) < n + 1 THEN Len(s) ELSE n + 1)
      /\ \A i \in 1..Len(rows) : rows[i] = s[i]
  <2>1. IsFirst(rows, s, n + 1)
    BY <1>4, <1>5, Firsts
  <2> QED
    BY <2>1 DEF IsFirst
<1>7. /\ page \in Seq(Keys) /\ Len(page) \in Nat /\ Len(page) = (IF Len(rows) < n THEN Len(rows) ELSE n)
      /\ \A i \in 1..Len(page) : page[i] = rows[i]
  <2>1. IsFirst(page, rows, n)
    BY <1>3, <1>6, Firsts
  <2> QED
    BY <2>1 DEF IsFirst
<1>8. Len(page) <= Len(rows)
  BY <1>3, <1>6, <1>7
<1>9. \A i \in 1..Len(page) : page[i] = s[i]
  <2>1. \A i \in 1..Len(page) : i \in 1..Len(rows)
    BY <1>6, <1>7, <1>8
  <2> QED
    BY <1>6, <1>7, <2>1
<1>10. /\ Len(page) <= Cardinality(K) /\ (~(Len(rows) > n) => Len(page) = Cardinality(K))
       /\ (Len(rows) > n => Len(page) > 0)
  BY <1>3, <1>4, <1>6, <1>7
<1>11. \A i \in 1..Len(page) : page[i] = InOrder(walk.mode, Ahead)[i]
  BY <1>2, <1>9
<1>12. SUFFICES ASSUME NEW more, more = (Len(rows) > n) PROVE ListInv'
  OBVIOUS
<1>13. Reads(page, more)
  <2>1. Reads(page, Len(rows) > n)
    BY <1>2
  <2> QED
    BY <1>12, <2>1, Zenon
<1>14. /\ more \in BOOLEAN /\ (~more => Len(page) = Cardinality(Ahead)) /\ (more => Len(page) > 0)
       /\ Len(page) <= Cardinality(Ahead)
  <2>1. more = TRUE \/ more = FALSE
    BY <1>12
  <2>2. more = TRUE => Len(rows) > n
    BY <1>12
  <2>3. more = FALSE => ~(Len(rows) > n)
    BY <1>12
  <2> QED
    BY <1>10, <2>1, <2>2, <2>3
<1> QED
  BY <1>2, <1>7, <1>11, <1>13, <1>14, KeysetPageHolds

LEMMA OffsetPageHolds == ASSUME ListInv, OffsetPage PROVE ListInv'
<1>1. SUFFICES ASSUME NEW K, K = Selected, NEW rows, rows = InOrder("offset", K), NEW N, N = Len(rows),
                    NEW out, out = walk.out, NEW a, a = Len(out), NEW n, n = walk.limit,
                    NEW rest, rest = SubSeq(rows, a + 1, N), NEW page, page = FirstOf(rest, n),
                    NEW p, p = Len(page), NEW more, more = (page # <<>> /\ a + p < N)
             PROVE  ListInv'
  OBVIOUS
<1>2. K \in SUBSET Keys /\ out \in Seq(Keys) /\ walk \in Walk /\ walk.cursor \in Keys \cup {NoCursor}
  BY <1>1 DEF ListInv, ListTypeOK, Selected, Walk
<1>3. walk.pc = "reading" /\ walk.mode = "offset" /\ Reads(page, more)
  BY <1>1 DEF OffsetPage
<1>4. n \in Nat /\ n >= 1
  BY <1>1, <1>3, ListBounds DEF ListInv, ListTypeOK, Walk
<1>5. Cardinality(K) \in Nat /\ rows \in Seq(Keys) /\ N = Cardinality(K) /\ N \in Nat /\ a \in Nat
  BY <1>1, <1>2, Ordered
<1>6. rest \in Seq(Keys) /\ Len(rest) \in Nat
  BY <1>1, <1>5
<1>7. /\ page \in Seq(Keys) /\ p \in Nat /\ p = (IF Len(rest) < n THEN Len(rest) ELSE n)
      /\ \A i \in 1..p : page[i] = rest[i]
  <2>1. IsFirst(page, rest, n) /\ p = Len(page)
    BY <1>1, <1>4, <1>6, Firsts
  <2> QED
    BY <2>1 DEF IsFirst
<1>8. page = <<>> <=> p = 0
  BY <1>1, <1>7
<1>9. /\ UNCHANGED <<stored, changes>> /\ walk'.mode = "offset" /\ walk'.pc = (IF more THEN "reading" ELSE "done")
      /\ walk'.limit = n /\ walk'.out = out \o page /\ walk'.stayed = walk.stayed /\ walk'.quiet = walk.quiet
  BY <1>1, <1>3 DEF Reads
<1>10. walk' \in Walk
  <2>1. (IF page = <<>> THEN walk.cursor ELSE page[p]) \in Keys \cup {NoCursor}
    <3>1. p = Len(page)
      BY <1>1
    <3> QED
      BY <1>2, <1>7, <1>8, <3>1
  <2>2. (IF more THEN "reading" ELSE "done") \in {"idle", "reading", "done", "refused"}
    OBVIOUS
  <2>3. out \o page \in Seq(Keys)
    BY <1>2, <1>7, Joined
  <2> QED
    BY <1>1, <1>2, <1>3, <2>1, <2>2, <2>3 DEF Reads, Walk
<1>11. Selected' = Selected
  BY <1>9 DEF Selected
<1>12. ListTypeOK'
  BY <1>9, <1>10 DEF ListInv, ListTypeOK
<1>13. KeysetHolds'
  BY <1>9 DEF KeysetHolds
<1>14. OffsetHolds'
  <2> SUFFICES ASSUME walk.quiet = TRUE
               PROVE  /\ walk.stayed = K
                      /\ Len(out \o page) <= N
                      /\ \A i \in 1..Len(out \o page) : (out \o page)[i] = rows[i]
                      /\ ~more => Len(out \o page) = N
    <3>1. walk.quiet \in BOOLEAN
      BY <1>2 DEF Walk
    <3>2. K = Selected' /\ rows = InOrder("offset", K) /\ N = Cardinality(K)
      BY <1>1, <1>5, <1>11
    <3>3. rows = InOrder("offset", Selected)'
      BY <3>2 DEF InOrder, Rank, Before, Ascends, Less
    <3> QED
      BY <1>9, <3>1, <3>2, <3>3 DEF OffsetHolds
  <2>1. walk.stayed = K /\ a <= N /\ \A i \in 1..a : out[i] = rows[i]
    BY <1>1, <1>3, <1>5 DEF ListInv, OffsetHolds
  <2>2. Len(rest) = N - a /\ \A i \in 1..(N - a) : rest[i] = rows[a + i]
    <3>1. rest = SubSeq(rows, a + 1, Len(rows)) /\ N = Len(rows)
      BY <1>1
    <3> QED
      BY <1>5, <2>1, <3>1, Rest
  <2>3. more <=> p # 0 /\ a + p < N
    BY <1>1, <1>8
  <2>4. a + p <= N
    BY <1>4, <1>5, <1>7, <2>1, <2>2
  <2>5. ~more => a + p = N
    BY <1>4, <1>5, <1>7, <2>1, <2>2, <2>3, <2>4
  <2>6. /\ Len(out \o page) = a + p
        /\ \A i \in 1..a : (out \o page)[i] = out[i]
        /\ \A i \in 1..p : (out \o page)[a + i] = page[i]
    <3>1. a = Len(out) /\ p = Len(page)
      BY <1>1
    <3>2. out \in Seq(Keys) /\ page \in Seq(Keys)
      BY <1>2, <1>7
    <3> QED
      BY <3>1, <3>2, Joined
  <2>7. ASSUME NEW i \in 1..(a + p) PROVE (out \o page)[i] = rows[i]
    <3>1. i \in Nat /\ a \in Nat
      BY <1>5, <1>7
    <3>2. CASE i <= a
      <4>1. i \in 1..a
        BY <1>5, <3>1, <3>2
      <4> QED
        BY <2>1, <2>6, <4>1
    <3>3. CASE i > a
      <4>1. PICK j \in 1..p : i = a + j
        <5>1. i - a \in 1..p /\ i = a + (i - a)
          BY <1>5, <1>7, <3>1, <3>3
        <5> QED
          BY <5>1
      <4>2. j \in 1..(N - a)
        BY <1>5, <1>7, <2>4, <4>1
      <4> QED
        BY <1>7, <2>2, <2>6, <4>1, <4>2
    <3>4. i <= a \/ i > a
      BY <3>1
    <3> QED
      BY <3>2, <3>3, <3>4
  <2> QED
    BY <2>1, <2>4, <2>5, <2>6, <2>7
<1> QED
  BY <1>3, <1>4, <1>9, <1>11, <1>12, <1>13, <1>14 DEF ListInv

LEMMA EndWalkHolds == ASSUME ListInv, EndWalk PROVE ListInv'
<1>1. 0 \in 0..MaxLimit \cup {PageSize} /\ {} \in SUBSET Keys /\ "none" \in Modes \cup {"none"}
  BY ListBounds
<1>2. walk' = Begun("none", "idle", 0, {})
  BY DEF EndWalk, NoWalk
<1>3. walk' \in Walk /\ walk'.mode = "none" /\ walk'.pc = "idle" /\ walk'.out = <<>> /\ walk'.stayed = {}
  BY <1>1, <1>2, BegunType
<1>4. ListTypeOK'
  BY <1>3 DEF EndWalk, ListInv, ListTypeOK
<1> QED
  BY <1>3, <1>4 DEF ListInv, KeysetHolds, OffsetHolds

\* Rows that come and go leave the walk its place.
LEMMA ChangeHolds ==
    ASSUME ListInv, NEW k \in Keys, AddRow(k) \/ DeleteRow(k) PROVE ListInv'
<1>1. walk \in Walk /\ changes' \in 0..MaxChanges /\ stored' \subseteq Keys
  BY ListBounds DEF ListInv, ListTypeOK, AddRow, DeleteRow
<1>2. PICK rows \in SUBSET Keys : walk' = Unquiet(rows) /\ rows \subseteq walk.stayed /\ rows \subseteq Selected'
  <2>1. walk.stayed \in SUBSET Keys /\ walk.stayed \subseteq Selected
    BY <1>1 DEF Walk, ListInv
  <2>2. CASE AddRow(k)
    BY <2>1, <2>2 DEF AddRow, Selected
  <2>3. CASE DeleteRow(k)
    BY <2>1, <2>3 DEF DeleteRow, Selected
  <2> QED
    BY <2>2, <2>3
<1>3. /\ walk' \in Walk /\ walk'.mode = walk.mode /\ walk'.pc = walk.pc /\ walk'.limit = walk.limit
      /\ walk'.cursor = walk.cursor /\ walk'.out = walk.out /\ walk'.stayed = rows /\ walk'.quiet = FALSE
  BY <1>1, <1>2 DEF Unquiet, Walk
<1>4. ListTypeOK'
  BY <1>1, <1>3 DEF ListTypeOK
<1>5. \A l : Beyond(l)' <=> Beyond(l)
  BY <1>3 DEF Beyond
<1>6. KeysetHolds'
  <2>1. walk.mode \in {"export", "cursor"} /\ walk.pc \in {"reading", "done"} =>
          \A l \in rows : (\E i \in 1..Len(walk.out) : walk.out[i] = l) \/ (walk.pc = "reading" /\ Beyond(l))
    BY <1>2 DEF ListInv, KeysetHolds
  <2>2. walk.mode \in {"export", "cursor"} /\ walk.pc \in {"reading", "done"} =>
          /\ walk.cursor = NoCursor <=> Len(walk.out) = 0
          /\ Len(walk.out) > 0 => walk.cursor = walk.out[Len(walk.out)]
          /\ \A i \in 1..(Len(walk.out) - 1) : Before(walk.mode, walk.out[i], walk.out[i + 1])
    BY DEF ListInv, KeysetHolds
  <2> QED
    BY <1>3, <1>5, <2>1, <2>2 DEF KeysetHolds
<1>7. OffsetHolds'
  BY <1>3 DEF OffsetHolds
<1> QED
  BY <1>2, <1>3, <1>4, <1>6, <1>7 DEF ListInv

LEMMA ListSteps == ASSUME ListInv, [ListNext]_listVars PROVE ListInv'
<1>1. CASE UNCHANGED listVars
  BY <1>1 DEF listVars, ListInv, ListTypeOK, KeysetHolds, OffsetHolds, Selected, Beyond
<1>2. CASE ListNext
  BY <1>2, BeginWalkHolds, ExportPageHolds, CursorPageHolds, OffsetPageHolds, EndWalkHolds, ChangeHolds DEF ListNext
<1> QED
  BY <1>1, <1>2

\* Keyset pages lose nothing and repeat nothing although rows come and go
\* between them, whatever times rows share and whatever the page size; offset
\* pages do so while nothing changes (iter_audit_rows, paginate,
\* list_audit_rows).
THEOREM PagesComplete == ListSpec => []PagesSound
<1>1. ListInv => PagesSound
  <2> SUFFICES ASSUME ListInv PROVE EveryRowOnce
    BY DEF PagesSound, ListInv
  <2> SUFFICES ASSUME walk.mode \in {"export", "cursor"} \/ walk.quiet
               PROVE  /\ \A i \in 1..(Len(walk.out) - 1) : Before(walk.mode, walk.out[i], walk.out[i + 1])
                      /\ walk.pc = "done" => \A k \in walk.stayed : \E i \in 1..Len(walk.out) : walk.out[i] = k
    BY DEF EveryRowOnce, Before, Ascends
  <2>1. walk.pc \in {"idle", "reading", "done", "refused"} /\ walk.mode \in {"export", "cursor", "offset", "none"}
    BY DEF ListInv, ListTypeOK, Walk, Modes
  <2>2. CASE walk.pc \in {"idle", "refused"}
    <3>1. walk.out = <<>> /\ Len(<<>>) = 0
      BY <2>2 DEF ListInv
    <3> QED
      BY <2>2, <3>1
  <2>3. CASE walk.mode \in {"export", "cursor"} /\ walk.pc \in {"reading", "done"}
    BY <2>3 DEF ListInv, KeysetHolds
  <2>4. CASE walk.mode = "offset" /\ walk.quiet /\ walk.pc \in {"reading", "done"}
    <3> SUFFICES ASSUME NEW out, out = walk.out, NEW a, a = Len(out), NEW K, K = Selected, NEW s, s = InOrder("offset", K)
                 PROVE  /\ \A i \in 1..(a - 1) : Before("offset", out[i], out[i + 1])
                        /\ walk.pc = "done" => \A k \in walk.stayed : \E i \in 1..a : out[i] = k
      BY <2>4
    <3>1. out \in Seq(Keys) /\ K \in SUBSET Keys /\ a \in Nat
      BY DEF ListInv, ListTypeOK, Walk, Selected
    <3>2. /\ walk.stayed = K /\ a <= Cardinality(K) /\ \A i \in 1..a : out[i] = s[i]
          /\ walk.pc = "done" => a = Cardinality(K)
      BY <2>4 DEF ListInv, OffsetHolds
    <3>3. /\ \A i, j \in 1..a : i < j => Before("offset", out[i], out[j])
          /\ \A k \in K : (\E i \in 1..a : out[i] = k) \/ a < Cardinality(K)
      <4>1. \A i \in 1..Len(out) : out[i] = InOrder("offset", K)[i]
        BY <3>2
      <4>2. Len(out) <= Cardinality(K)
        BY <3>2
      <4> QED
        BY <3>1, <4>1, <4>2, PageOf
    <3>4. \A i \in 1..(a - 1) : i \in 1..a /\ i + 1 \in 1..a /\ i < i + 1
      BY <3>1
    <3>5. ASSUME walk.pc = "done", NEW k \in walk.stayed PROVE \E i \in 1..a : out[i] = k
      BY <3>1, <3>2, <3>3, <3>5
    <3> QED
      BY <3>3, <3>4, <3>5
  <2>5. walk.mode = "none" <=> walk.pc = "idle"
    BY DEF ListInv
  <2> QED
    BY <2>1, <2>2, <2>3, <2>4, <2>5
<1> QED
  BY <1>1, ListStart, ListSteps, PTL DEF ListSpec
=============================================================================
