-------------------------- MODULE IdempotencyKeys --------------------------
(***************************************************************************)
(* middleware/idempotency.py, wired as main.create_app wires it.           *)
(*                                                                         *)
(* An attempt is one mutating HTTP request; a client's retry is another    *)
(* attempt with the same tenant, key and body.  The handler runs at most   *)
(* once per attempt, so an attempt also names the response its handler     *)
(* produced, and a store entry is the attempt whose 2xx response it keeps  *)
(* (its body hash is the hash of that attempt's body).                     *)
(*                                                                         *)
(* add_middleware is last-added-outermost, and IdempotencyMiddleware is    *)
(* added after TenantScopeMiddleware: dispatch reads                       *)
(* request.state.tenant_id before TenantScopeMiddleware has set it, so the *)
(* scope of a key is "anon" unless OperatorActAsMiddleware, which is added *)
(* later still, has put the tenant an operator acts as there.              *)
(*                                                                         *)
(* Each process picks its store when it starts: Redis if it answers, else  *)
(* a dict of its own that dies with the process.                           *)
(***************************************************************************)
EXTENDS Naturals, FiniteSets

CONSTANTS
    Attempts,       \* mutating requests that are not on an excluded path
    Tenants,
    Keys,           \* well-formed Idempotency-Key values
    Bodies,
    Processes,      \* server processes
    Redis,          \* the store shared by the processes that reach it
    Anon,           \* the scope of a request without a tenant
    NoKey, BadKey,  \* header absent, header malformed
    None,           \* no attempt, no tenant
    Conflict, Rejected, Failed,  \* answers: 422, 400, an error
    KeyRequired,    \* whether a path may be, may not be, under required_path_prefixes
    RedisPings,     \* the answers client.ping() may give at process start
    Faults,         \* processes may crash and Redis commands fail
    MaxUpsets       \* bound on crashes and on entries that expire

ASSUME ConstantTypes ==
    /\ KeyRequired \subseteq BOOLEAN
    /\ RedisPings \subseteq BOOLEAN
    /\ Faults \in BOOLEAN
    /\ MaxUpsets \in Nat

ASSUME DistinctValues ==
    /\ Redis \notin Processes
    /\ Anon \notin Tenants
    /\ None \notin Tenants
    /\ NoKey \notin Keys /\ BadKey \notin Keys
    /\ {None, Conflict, Rejected, Failed} \cap Attempts = {}

VARIABLES
    attempt,    \* what each attempt asks and how far it is
    reply,      \* the answer each attempt got
    ran,        \* attempts whose handler committed its effect
    store,      \* per store and scoped key, the attempt whose response is kept
    onRedis,    \* processes whose store is Redis
    finished,   \* history: attempts that ran and ended, within ttl_seconds
    unshared,   \* history: attempts that read or left nothing in Redis
    upsets      \* crashes and expiries so far

vars == <<attempt, reply, ran, store, onRedis, finished, unshared, upsets>>

Scopes == Tenants \cup {Anon}

Stores == Processes \cup {Redis}

\* Stages: to come, handler running, handler committed, over.
Attempt ==
    [stage : {"new", "running", "ran", "over"},
     process : Processes \cup {None}, tenant : Tenants \cup {None},
     actingAs : Tenants \cup {None},
     key : Keys \cup {NoKey, BadKey}, body : Bodies \cup {None},
     after : SUBSET Attempts]

Answers == Attempts \cup {None, Conflict, Rejected, Failed}

\* _tenant_id: what request.state.tenant_id holds when dispatch reads it.
Scope(q) == IF q.actingAs # None THEN q.actingAs ELSE Anon

\* _scoped_key: neither the path nor the method takes part.
ScopedKey(q) == <<Scope(q), q.key>>

\* MUTANT of StoreOf: the middleware never finds Redis.
OwnStore(p) == p

\* The store build_default_store gave process p.
StoreOf(p) == IF p \in onRedis THEN Redis ELSE p

\* store.get: the attempt whose response is kept for request q, if any.
Kept(q) == store[StoreOf(q.process)][ScopedKey(q)]

\* Requests the client means as one: same tenant, key and body.
SameRequest(q, r) ==
    /\ q.tenant = r.tenant /\ q.actingAs = r.actingAs
    /\ q.key = r.key /\ q.body = r.body

Init ==
    /\ attempt = [a \in Attempts |->
                    [stage |-> "new", process |-> None, tenant |-> None,
                     actingAs |-> None, key |-> NoKey, body |-> None, after |-> {}]]
    /\ reply = [a \in Attempts |-> None]
    /\ ran = {}
    /\ store = [s \in Stores |-> [c \in Scopes \X Keys |-> None]]
    /\ onRedis \in {P \in SUBSET Processes :
                       \A p \in Processes : (p \in P) \in RedisPings}
    /\ finished = {}
    /\ unshared = {}
    /\ upsets = 0

----------------------------------------------------------------------------
(* dispatch up to the handler.                                             *)

\* Attempt a arrives as request q; the client may be retrying any attempt
\* that ran, ended, and is not older than ttl_seconds.
Arrives(a, q, stage, answer) ==
    /\ attempt[a].stage = "new"
    /\ attempt' = [attempt EXCEPT ![a] = [q EXCEPT
                      !.stage = stage,
                      !.after = {b \in finished : SameRequest(attempt[b], q)}]]
    /\ reply' = [reply EXCEPT ![a] = answer]
    /\ unshared' = IF q.process \in onRedis THEN unshared ELSE unshared \cup {a}
    /\ UNCHANGED <<ran, store, onRedis, finished, upsets>>

\* 400: the key is malformed, or absent where it is required.
RejectKey(a, q) ==
    /\ q.key = BadKey \/ (q.key = NoKey /\ TRUE \in KeyRequired)
    /\ Arrives(a, q, "over", Rejected)

\* No key where none is required: call_next, and nothing is kept.
PassThrough(a, q) ==
    /\ q.key = NoKey
    /\ FALSE \in KeyRequired
    /\ Arrives(a, q, "running", None)

\* Nothing is kept under the key: call_next.
Miss(a, q) ==
    /\ q.key \in Keys
    /\ Kept(q) = None
    /\ Arrives(a, q, "running", None)

\* MUTANT of BodyDiffers: the body hash is not compared.
BodyUnchecked(q) == FALSE

\* The kept body_hash is not this request's.
BodyDiffers(q) == attempt[Kept(q)].body # q.body

\* 422: the key was used with another body.
RefuseReuse(a, q) ==
    /\ q.key \in Keys
    /\ Kept(q) # None
    /\ BodyDiffers(q)
    /\ Arrives(a, q, "over", Conflict)

\* The kept response is sent again.
Replay(a, q) ==
    /\ q.key \in Keys
    /\ Kept(q) # None
    /\ ~ BodyDiffers(q)
    /\ Arrives(a, q, "over", Kept(q))

\* Redis raises on GET: the request fails before the handler.
GetFails(a, q) ==
    /\ Faults
    /\ q.key \in Keys
    /\ q.process \in onRedis
    /\ Arrives(a, q, "over", Failed)

----------------------------------------------------------------------------
(* The handler, and what dispatch does with its response.                  *)

\* The handler commits its effect and produces a 2xx response.
HandlerRuns(a) ==
    /\ attempt[a].stage = "running"
    /\ attempt' = [attempt EXCEPT ![a].stage = "ran"]
    /\ ran' = ran \cup {a}
    /\ UNCHANGED <<reply, store, onRedis, finished, unshared, upsets>>

\* The handler changes nothing and answers with an error, which is forwarded
\* and not kept.
HandlerRefuses(a) ==
    /\ attempt[a].stage = "running"
    /\ attempt' = [attempt EXCEPT ![a].stage = "over"]
    /\ reply' = [reply EXCEPT ![a] = Failed]
    /\ UNCHANGED <<ran, store, onRedis, finished, unshared, upsets>>

\* Attempt a, which ran, ends with the given answer.
Ends(a, answer) ==
    /\ attempt[a].stage = "ran"
    /\ attempt' = [attempt EXCEPT ![a].stage = "over"]
    /\ reply' = [reply EXCEPT ![a] = answer]
    /\ finished' = finished \cup {a}
    /\ UNCHANGED <<ran, onRedis, upsets>>

\* store.set overwrites whatever is kept, then the response is sent.
Remember(a) ==
    /\ attempt[a].key \in Keys
    /\ store' = [store EXCEPT
                    ![StoreOf(attempt[a].process)][ScopedKey(attempt[a])] = a]
    /\ Ends(a, a)
    /\ UNCHANGED unshared

\* The response to a request without a key is sent as it is.
Forward(a) ==
    /\ attempt[a].key = NoKey
    /\ Ends(a, a)
    /\ UNCHANGED <<store, unshared>>

\* Redis raises on SET: the effect is committed and the client gets a 500.
SetFails(a) ==
    /\ Faults
    /\ attempt[a].key \in Keys
    /\ attempt[a].process \in onRedis
    /\ Ends(a, Failed)
    /\ unshared' = unshared \cup {a}
    /\ UNCHANGED store

----------------------------------------------------------------------------
(* The environment.                                                        *)

\* Entry c of store s outlives ttl_seconds.
Expire(s, c) ==
    /\ upsets < MaxUpsets
    /\ store[s][c] # None
    /\ store' = [store EXCEPT ![s][c] = None]
    /\ finished' = {a \in finished : ScopedKey(attempt[a]) # c}
    /\ upsets' = upsets + 1
    /\ UNCHANGED <<attempt, reply, ran, onRedis, unshared>>

\* Attempts on process p whose effect is committed and not yet kept.
CommittedOn(p) ==
    {a \in Attempts : attempt[a].process = p /\ attempt[a].stage = "ran"}

\* Process p dies and starts again: its requests are lost (a handler that
\* did not commit is rolled back), its dict is empty, Redis is pinged anew.
Crash(p, ping) ==
    /\ Faults
    /\ upsets < MaxUpsets
    /\ attempt' = [a \in Attempts |->
                      IF attempt[a].process = p
                      THEN [attempt[a] EXCEPT !.stage = "over"] ELSE attempt[a]]
    /\ finished' = finished \cup CommittedOn(p)
    /\ unshared' = unshared \cup CommittedOn(p)
    /\ store' = [store EXCEPT ![p] = [c \in Scopes \X Keys |-> None]]
    /\ onRedis' = IF ping THEN onRedis \cup {p} ELSE onRedis \ {p}
    /\ upsets' = upsets + 1
    /\ UNCHANGED <<reply, ran>>

\* What a client, or an operator acting as the tenant, may send.
Incoming ==
    {q \in [stage : {"new"}, process : Processes, tenant : Tenants,
            actingAs : Tenants \cup {None}, key : Keys \cup {NoKey, BadKey},
            body : Bodies, after : {{}}] :
        q.actingAs \in {None, q.tenant}}

Dispatch(a, q) ==
    \/ RejectKey(a, q)
    \/ PassThrough(a, q)
    \/ Miss(a, q)
    \/ RefuseReuse(a, q)
    \/ Replay(a, q)
    \/ GetFails(a, q)

Respond(a) ==
    \/ HandlerRuns(a)
    \/ HandlerRefuses(a)
    \/ Remember(a)
    \/ Forward(a)
    \/ SetFails(a)

Next ==
    \/ \E a \in Attempts, q \in Incoming : Dispatch(a, q)
    \/ \E a \in Attempts : Respond(a)
    \/ \E s \in Stores, c \in Scopes \X Keys : Expire(s, c)
    \/ \E p \in Processes, ping \in RedisPings : Crash(p, ping)

Spec == Init /\ [][Next]_vars

----------------------------------------------------------------------------
(* Properties.                                                             *)

\* Every variable has its type.
TypeOK ==
    /\ attempt \in [Attempts -> Attempt]
    /\ reply \in [Attempts -> Answers]
    /\ ran \subseteq Attempts
    /\ store \in [Stores -> [Scopes \X Keys -> Attempts \cup {None}]]
    /\ onRedis \subseteq Processes
    /\ finished \subseteq Attempts
    /\ unshared \subseteq Attempts
    /\ upsets \in 0..MaxUpsets

\* Whatever is replayed is the response of a handler that committed, to a
\* request with the same scoped key and the same body, whatever ran at the
\* same time, crashed, expired or overwrote the entry (dispatch).
ReplayMatches ==
    \A a \in Attempts : reply[a] \in Attempts =>
        /\ reply[a] \in ran
        /\ attempt[reply[a]].body = attempt[a].body
        /\ reply[a] # a => ScopedKey(attempt[reply[a]]) = ScopedKey(attempt[a])

\* A retry served by a process that reaches Redis runs nothing once an
\* attempt that took effect has ended, unless that attempt's response never
\* got to Redis: its process had none, crashed after the commit, or SET failed
\* (the module's promise that clients can "safely retry mutating requests ...
\* without producing duplicate side effects", and the limits of it).
RetriesRunOnce ==
    \A a \in ran \ unshared :
        attempt[a].key \in Keys => attempt[a].after \subseteq unshared

\* A tenant is never sent the response to another tenant's request
\* (tests/test_idempotency_correctness.py, item 1).
ReplaySameTenant ==
    \A a \in Attempts : reply[a] \in Attempts =>
        attempt[reply[a]].tenant = attempt[a].tenant
=============================================================================
