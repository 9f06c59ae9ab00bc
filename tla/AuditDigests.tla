---------------------------- MODULE AuditDigests -----------------------------
(***************************************************************************)
(* The nightly digests of audit_logs: one task, in one session, verifies or *)
(* stores yesterday's digest of every tenant, each linked to the digest of  *)
(* the day before.                                                          *)
(*                                                                         *)
(* An instant is half a day, so an even instant is midnight.  A digest is   *)
(* the sequence of what was hashed into it: the rows of its day, then the   *)
(* digest it links to; <<>> is the absence of one.  SHA-256 is free of      *)
(* collisions.                                                              *)
(***************************************************************************)
EXTENDS Naturals, Sequences, FiniteSets

CONSTANTS
    DigestTenants,
    Nightlies,          \* task runs in progress at once
    LogRows,            \* audit_logs rows written in a behaviour
    MaxInstant,         \* bound: how far the clock goes
    MaxNightlyFaults    \* bound: crashes, second deliveries and failures

ASSUME DigestAssumption ==
    /\ MaxInstant \in Nat \ {0} /\ MaxNightlyFaults \in Nat
    /\ DigestTenants # {}

VARIABLES
    now,            \* the clock
    log,            \* audit_logs rows: where, when, and whether committed
    digest,         \* committed audit_hash_digests, by tenant and day
    nightly,        \* task runs
    due,            \* undelivered messages of the schedule
    mishaps,        \* faults so far
    disturbed       \* history: tenant and day whose rows or link changed after a digest was computed

digestVars == <<now, log, digest, nightly, due, mishaps, disturbed>>

Day(i) == i \div 2
Days == 0..Day(MaxInstant)

\* An audit_logs row; "open" is flushed by a request that has not committed.
LogRow == [state: {"none", "open", "kept", "altered"}, tenant: DigestTenants, at: 0..MaxInstant]
Content == LogRows \X {"kept", "altered"}

\* What one task run holds: the tenants it has still to visit, the digest it
\* is about to insert, those it flushed, and its summary.
Digests == Seq(SUBSET Content)
Verdicts == {"new", "verified", "mismatched", "failed"}
Nightly == [pc: {"idle", "loop", "ensure", "insert", "ended"}, day: Days,
            todo: SUBSET DigestTenants, current: SUBSET DigestTenants, computed: Digests,
            flushed: [DigestTenants -> Digests], doomed: BOOLEAN, raced: BOOLEAN,
            summary: [Verdicts -> SUBSET DigestTenants]]

NoneFlushed == [t \in DigestTenants |-> <<>>]
Fresh(pc, day, todo) ==
    [pc |-> pc, day |-> day, todo |-> todo, current |-> {}, computed |-> <<>>,
     flushed |-> NoneFlushed, doomed |-> FALSE, raced |-> FALSE,
     summary |-> [f \in Verdicts |-> {}]]
NoNightly == Fresh("idle", 0, {})

DigestTypeOK ==
    /\ now \in 0..MaxInstant
    /\ log \in [LogRows -> LogRow]
    /\ digest \in [DigestTenants -> [Days -> Digests]]
    /\ nightly \in [Nightlies -> Nightly]
    /\ due \in Nat
    /\ mishaps \in 0..MaxNightlyFaults
    /\ disturbed \subseteq DigestTenants \X Days

DigestInit ==
    /\ now = 1
    /\ log = [r \in LogRows |-> [state |-> "none", tenant |-> CHOOSE t \in DigestTenants : TRUE, at |-> 0]]
    /\ digest = [t \in DigestTenants |-> [d \in Days |-> <<>>]]
    /\ nightly = [w \in Nightlies |-> NoNightly]
    /\ due = 0
    /\ mishaps = 0
    /\ disturbed = {}

\* Rows of one tenant within a half-open interval of instants, as hashed.
Between(t, from, to) ==
    {<<r, log[r].state>> : r \in {s \in LogRows :
        log[s].state \in {"kept", "altered"} /\ log[s].tenant = t /\ log[s].at >= from /\ log[s].at < to}}

\* Mutant: the window includes the next midnight.
DayRowsInclusive(t, d) == Between(t, 2 * d, 2 * d + 3)

\* _load_day_rows.
DayRows(t, d) == Between(t, 2 * d, 2 * d + 2)

\* The digest a run sees: its own flushed row or a committed one.
Seen(w, t, d) ==
    IF nightly[w].day = d /\ nightly[w].flushed[t] # <<>> THEN nightly[w].flushed[t] ELSE digest[t][d]

\* _prev_digest_for: "" when the day before has none.
PrevDigest(w, t, d) == IF d = 0 THEN <<>> ELSE Seen(w, t, d - 1)

\* compute_daily_digest.
Computed(w, t, d) == <<DayRows(t, d)>> \o PrevDigest(w, t, d)

\* Some run holds or has stored a digest of this tenant and day.
Digested(t, d) ==
    \/ digest[t][d] # <<>>
    \/ \E w \in Nightlies : /\ nightly[w].pc # "idle" /\ nightly[w].day = d
                            /\ nightly[w].flushed[t] # <<>> \/ (nightly[w].pc = "insert" /\ nightly[w].current = {t})

-----------------------------------------------------------------------------
(* Rows, the clock and the schedule *)

\* A request flushes an audit row: occurred_at is the time of the flush.
OpenLogRow(r, t) ==
    /\ log[r].state = "none"
    /\ log' = [log EXCEPT ![r] = [state |-> "open", tenant |-> t, at |-> now]]
    /\ UNCHANGED <<now, digest, nightly, due, mishaps, disturbed>>

\* Rows that change under a digest disturb it.
Disturbs(r) ==
    LET k == <<log[r].tenant, Day(log[r].at)>>
    IN disturbed' = IF Digested(k[1], k[2]) THEN disturbed \cup {k} ELSE disturbed

\* Its transaction ends, however late.
CommitLogRow(r) ==
    /\ log[r].state = "open"
    /\ log' = [log EXCEPT ![r].state = "kept"]
    /\ Disturbs(r)
    /\ UNCHANGED <<now, digest, nightly, due, mishaps>>

\* Somebody changes a row behind the application.
AlterLogRow(r) ==
    /\ log[r].state = "kept"
    /\ log' = [log EXCEPT ![r].state = "altered"]
    /\ Disturbs(r)
    /\ UNCHANGED <<now, digest, nightly, due, mishaps>>

\* Time passes; after midnight the schedule sends the task.
PassTime ==
    /\ now < MaxInstant
    /\ now' = now + 1
    /\ due' = IF Day(now') > Day(now) THEN due + 1 ELSE due
    /\ UNCHANGED <<log, digest, nightly, mishaps, disturbed>>

-----------------------------------------------------------------------------
(* _run_for_all_tenants *)

\* previous_utc_day and the list of tenants are read once, at the start.
BeginNightly(w) ==
    /\ nightly[w].pc = "idle"
    /\ due > 0 /\ Day(now) > 0
    /\ due' = due - 1
    /\ nightly' = [nightly EXCEPT ![w] = Fresh("loop", Day(now) - 1, DigestTenants)]
    /\ UNCHANGED <<now, log, digest, mishaps, disturbed>>

\* The loop is at one tenant.
Visiting(n, pc, t, computed) ==
    [pc |-> pc, day |-> n.day, todo |-> n.todo, current |-> {t}, computed |-> computed,
     flushed |-> n.flushed, doomed |-> n.doomed, raced |-> n.raced, summary |-> n.summary]

\* Tenant t is done with: the summary's list f gets it.
Visited(n, t, f, flushed, doomed, raced) ==
    [pc |-> "loop", day |-> n.day, todo |-> n.todo \ {t}, current |-> {}, computed |-> <<>>,
     flushed |-> flushed, doomed |-> doomed, raced |-> raced,
     summary |-> [n.summary EXCEPT ![f] = @ \cup {t}]]
Tallied(n, t, f) == Visited(n, t, f, n.flushed, n.doomed, n.raced)

\* recomputed == stored, and the same link.
Matches(w, t) == digest[t][nightly[w].day] = Computed(w, t, nightly[w].day)

\* verify_daily_digest finds a stored digest; a mismatch is reported and the
\* digest left alone.
Verify(w, t) ==
    LET d == nightly[w].day IN
    /\ nightly[w].pc = "loop" /\ ~nightly[w].doomed /\ t \in nightly[w].todo
    /\ digest[t][d] # <<>>
    /\ nightly' = [nightly EXCEPT ![w] = Tallied(nightly[w], t, IF Matches(w, t) THEN "verified" ELSE "mismatched")]
    /\ UNCHANGED <<now, log, digest, due, mishaps, disturbed>>

\* verify_daily_digest raises "missing".
VerifyMissing(w, t) ==
    /\ nightly[w].pc = "loop" /\ ~nightly[w].doomed /\ t \in nightly[w].todo
    /\ digest[t][nightly[w].day] = <<>>
    /\ nightly' = [nightly EXCEPT ![w] = Visiting(nightly[w], "ensure", t, <<>>)]
    /\ UNCHANGED <<now, log, digest, due, mishaps, disturbed>>

\* ensure_daily_digest looks again: a digest committed meanwhile is returned
\* and counted as new, otherwise the day is hashed.
Ensure(w, t) ==
    LET d == nightly[w].day IN
    /\ nightly[w].pc = "ensure" /\ nightly[w].current = {t}
    /\ nightly' = [nightly EXCEPT ![w] =
                     IF digest[t][d] # <<>> THEN Tallied(nightly[w], t, "new")
                     ELSE Visiting(nightly[w], "insert", t, Computed(w, t, d))]
    /\ UNCHANGED <<now, log, digest, due, mishaps, disturbed>>

\* The INSERT waits for another run's uncommitted digest of the same key.
Waits(w, v) ==
    /\ v # w /\ nightly[w].pc = "insert" /\ nightly[v].day = nightly[w].day
    /\ \E t \in nightly[w].current : nightly[v].flushed[t] # <<>>

InsertDigest(w, t) ==
    /\ nightly[w].pc = "insert" /\ nightly[w].current = {t}
    /\ \A v \in Nightlies : ~Waits(w, v)
    /\ digest[t][nightly[w].day] = <<>>
    /\ nightly' = [nightly EXCEPT ![w] = Visited(nightly[w], t, "new",
                     [nightly[w].flushed EXCEPT ![t] = nightly[w].computed],
                     nightly[w].doomed, nightly[w].raced)]
    /\ UNCHANGED <<now, log, digest, due, mishaps, disturbed>>

\* IntegrityError: session.rollback() takes back every digest this run has
\* flushed, and the other run's row is returned.
LoseRace(w, t) ==
    /\ nightly[w].pc = "insert" /\ nightly[w].current = {t}
    /\ digest[t][nightly[w].day] # <<>>
    /\ nightly' = [nightly EXCEPT ![w] =
                     Visited(nightly[w], t, "new", NoneFlushed, nightly[w].doomed, TRUE)]
    /\ UNCHANGED <<now, log, digest, due, mishaps, disturbed>>

\* A statement fails, or the database breaks a deadlock of two runs: the
\* transaction is gone and the session refuses every statement after it.
Failing(n, t) == Visited(n, t, "failed", NoneFlushed, TRUE, n.raced)

TenantFails(w, t) ==
    /\ mishaps < MaxNightlyFaults
    /\ t \in nightly[w].todo /\ ~nightly[w].doomed
    /\ nightly[w].pc = "loop" \/ nightly[w].current = {t}
    /\ nightly' = [nightly EXCEPT ![w] = Failing(nightly[w], t)]
    /\ mishaps' = mishaps + 1
    /\ UNCHANGED <<now, log, digest, due, disturbed>>

Deadlock(w, t) ==
    /\ nightly[w].current = {t}
    /\ \E v \in Nightlies : Waits(w, v) /\ Waits(v, w)
    /\ nightly' = [nightly EXCEPT ![w] = Failing(nightly[w], t)]
    /\ UNCHANGED <<now, log, digest, due, mishaps, disturbed>>

DoomedTenant(w, t) ==
    /\ nightly[w].pc = "loop" /\ nightly[w].doomed /\ t \in nightly[w].todo
    /\ nightly' = [nightly EXCEPT ![w] = Failing(nightly[w], t)]
    /\ UNCHANGED <<now, log, digest, due, mishaps, disturbed>>

\* The session is empty again.
Committed(n) ==
    [pc |-> "ended", day |-> n.day, todo |-> n.todo, current |-> n.current, computed |-> n.computed,
     flushed |-> NoneFlushed, doomed |-> n.doomed, raced |-> n.raced, summary |-> n.summary]

\* session.commit() once, after the loop.  A digest that arrives after the
\* next day's was computed changes what that one links to.
Finish(w) ==
    LET d == nightly[w].day
        stored == {t \in DigestTenants : nightly[w].flushed[t] # <<>>}
    IN
    /\ nightly[w].pc = "loop" /\ nightly[w].todo = {}
    /\ digest' = [t \in DigestTenants |-> IF t \in stored THEN [digest[t] EXCEPT ![d] = nightly[w].flushed[t]] ELSE digest[t]]
    /\ disturbed' = disturbed \cup {<<t, d + 1>> : t \in {s \in stored : Digested(s, d + 1)}}
    /\ nightly' = [nightly EXCEPT ![w] = Committed(nightly[w])]
    /\ UNCHANGED <<now, log, due, mishaps>>

\* "ok" unless a tenant mismatched or failed.
StatusOk(w) == nightly[w].summary["mismatched"] = {} /\ nightly[w].summary["failed"] = {}

Return(w) ==
    /\ nightly[w].pc = "ended"
    /\ nightly' = [nightly EXCEPT ![w] = NoNightly]
    /\ UNCHANGED <<now, log, digest, due, mishaps, disturbed>>

\* The worker dies and the message is delivered again (acks_late), or the
\* broker delivers it while the run goes on.
NightlyCrash(w) ==
    /\ mishaps < MaxNightlyFaults
    /\ nightly[w].pc # "idle"
    /\ nightly' = [nightly EXCEPT ![w] = NoNightly]
    /\ due' = due + 1
    /\ mishaps' = mishaps + 1
    /\ UNCHANGED <<now, log, digest, disturbed>>

SecondDelivery(w) ==
    /\ mishaps < MaxNightlyFaults
    /\ nightly[w].pc # "idle"
    /\ due' = due + 1
    /\ mishaps' = mishaps + 1
    /\ UNCHANGED <<now, log, digest, nightly, disturbed>>

-----------------------------------------------------------------------------

NightlyStep(w) ==
    \/ \E t \in DigestTenants :
         \/ Verify(w, t) \/ VerifyMissing(w, t) \/ Ensure(w, t) \/ InsertDigest(w, t)
         \/ LoseRace(w, t) \/ Deadlock(w, t) \/ DoomedTenant(w, t)
    \/ Finish(w) \/ Return(w)

DigestNext ==
    \/ \E r \in LogRows : (\E t \in DigestTenants : OpenLogRow(r, t)) \/ CommitLogRow(r) \/ AlterLogRow(r)
    \/ PassTime
    \/ \E w \in Nightlies : \/ BeginNightly(w) \/ NightlyStep(w)
                            \/ \E t \in DigestTenants : TenantFails(w, t)
                            \/ NightlyCrash(w) \/ SecondDelivery(w)

\* A run that has started goes on: some step is taken while one can be.
DigestFairness == WF_digestVars(\E w \in Nightlies : NightlyStep(w))

DigestSpec == DigestInit /\ [][DigestNext]_digestVars /\ DigestFairness

-----------------------------------------------------------------------------
(* Properties *)

\* "Real tampering signal": a mismatch is reported only for a day whose rows
\* or link changed after its digest was computed, whatever runs overlap,
\* crash or are repeated (verify_daily_digest against ensure_daily_digest).
MismatchIsReal ==
    \A w \in Nightlies : \A t \in nightly[w].summary["mismatched"] : <<t, nightly[w].day>> \in disturbed

\* A run that says a day is verified looked at the very rows its digest was
\* made of (verify_daily_digest).
VerifiedIsUntouched ==
    [][\A w \in Nightlies, t \in DigestTenants :
         t \in nightly'[w].summary["verified"] \ nightly[w].summary["verified"] =>
             digest[t][nightly[w].day][1] = Between(t, 2 * nightly[w].day, 2 * nightly[w].day + 2)]_digestVars

\* A stored digest is evidence: no run, repeated, overlapping or restarted,
\* changes or removes it (_run_for_all_tenants: "DO NOT overwrite").
DigestKept ==
    [][\A t \in DigestTenants, d \in Days : digest[t][d] # <<>> => digest'[t][d] = digest[t][d]]_digestVars

\* A run that returned "ok" leaves a committed digest for every tenant, over
\* crashes and failing statements.  A run that lost the race for one tenant
\* is excepted: its rollback took back the digests it had reported as new.
OkMeansDigested ==
    \A w \in Nightlies :
        nightly[w].pc = "ended" /\ StatusOk(w) /\ ~nightly[w].raced =>
            \A t \in DigestTenants : digest[t][nightly[w].day] # <<>>

\* Runs end although their INSERTs wait for each other, in whatever order the
\* tenants were listed.
NightliesEnd == []<>(\A w \in Nightlies : nightly[w].pc = "idle")

\* What the nightly task reports is so: no false mismatch, and no "ok" without
\* the digests (_run_for_all_tenants).
DigestsSound ==
    /\ DigestTypeOK
    /\ MismatchIsReal
    /\ OkMeansDigested
=============================================================================
