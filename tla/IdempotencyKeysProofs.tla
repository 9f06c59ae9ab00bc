----------------------- MODULE IdempotencyKeysProofs -----------------------
(***************************************************************************)
(* Proofs about IdempotencyKeys, for every set of attempts, tenants, keys, *)
(* bodies and processes.                                                   *)
(*                                                                         *)
(* Genuine: every kept entry is an attempt that ran under that scoped key, *)
(* whichever attempt wrote it last; replays inherit it.  Remembered: while *)
(* a finished attempt whose response got to Redis is within its lifetime,  *)
(* something is kept there under its key, so a retry that asks Redis       *)
(* cannot miss.                                                            *)
(***************************************************************************)
EXTENDS IdempotencyKeys, TLAPS

\* What is kept under a scoped key ran under that key.
EntriesGenuine ==
    \A s \in Stores, c \in Scopes \X Keys : store[s][c] # None =>
        store[s][c] \in ran /\ ScopedKey(attempt[store[s][c]]) = c

\* Attempts that ran are past the handler, answered ones are over.
Progressed ==
    /\ \A a \in ran : attempt[a].stage \in {"ran", "over"}
    /\ \A a \in Attempts : attempt[a].stage = "ran" => a \in ran
    /\ \A a \in Attempts : reply[a] \in Attempts => attempt[a].stage = "over"

Genuine == EntriesGenuine /\ Progressed

Inv == TypeOK /\ Genuine /\ ReplayMatches

----------------------------------------------------------------------------

LEMMA InitInv == Init => Inv
  BY ConstantTypes, DistinctValues
  DEF Init, Inv, TypeOK, Genuine, EntriesGenuine, Progressed, ReplayMatches, Attempt,
      Answers, Stores

\* What a step may do to one attempt: it keeps what it asks once it has
\* begun, and no attempt that began becomes new again.
LEMMA ArrivesFacts ==
  ASSUME TypeOK, NEW a \in Attempts, NEW q \in Incoming,
         NEW stage \in {"running", "over"}, NEW answer \in Answers,
         Arrives(a, q, stage, answer)
  PROVE  /\ attempt[a].stage = "new"
         /\ attempt'[a].stage = stage /\ attempt'[a].process = q.process
         /\ attempt'[a].tenant = q.tenant /\ attempt'[a].actingAs = q.actingAs
         /\ attempt'[a].key = q.key /\ attempt'[a].body = q.body
         /\ attempt'[a].after = {b \in finished : SameRequest(attempt[b], q)}
         /\ ScopedKey(attempt'[a]) = ScopedKey(q)
         /\ \A b \in Attempts \ {a} : attempt'[b] = attempt[b] /\ reply'[b] = reply[b]
         /\ reply'[a] = answer
         /\ unshared' = IF q.process \in onRedis THEN unshared ELSE unshared \cup {a}
         /\ TypeOK'
         /\ UNCHANGED <<ran, store, onRedis, finished, upsets>>
<1> DEFINE later == {b \in finished : SameRequest(attempt[b], q)}
           n == [q EXCEPT !.stage = stage, !.after = later]
<1>1. /\ attempt[a].stage = "new"
      /\ attempt' = [attempt EXCEPT ![a] = n]
      /\ reply' = [reply EXCEPT ![a] = answer]
      /\ unshared' = IF q.process \in onRedis THEN unshared ELSE unshared \cup {a}
      /\ UNCHANGED <<ran, store, onRedis, finished, upsets>>
  BY DEF Arrives
<1>2. later \subseteq Attempts
  BY DEF TypeOK
<1> HIDE DEF later
<1>3. /\ n \in Attempt
      /\ n.stage = stage /\ n.process = q.process /\ n.tenant = q.tenant
      /\ n.actingAs = q.actingAs /\ n.key = q.key /\ n.body = q.body /\ n.after = later
  BY <1>2 DEF Attempt, Incoming
<1> HIDE DEF n
<1>4. TypeOK'
  BY <1>1, <1>3 DEF TypeOK
<1>5. /\ attempt'[a] = n /\ reply'[a] = answer
      /\ \A b \in Attempts \ {a} : attempt'[b] = attempt[b] /\ reply'[b] = reply[b]
  BY <1>1 DEF TypeOK
<1>6. ScopedKey(n) = ScopedKey(q)
  BY <1>3 DEF ScopedKey, Scope
<1> QED
  BY <1>1, <1>3, <1>4, <1>5, <1>6 DEF later

\* Two attempts that differ at most in stage ask the same.
Asks(n, o) ==
    /\ n.process = o.process /\ n.tenant = o.tenant /\ n.actingAs = o.actingAs
    /\ n.key = o.key /\ n.body = o.body /\ n.after = o.after
    /\ ScopedKey(n) = ScopedKey(o)

LEMMA StageFacts ==
  ASSUME NEW o \in Attempt, NEW stage \in {"running", "ran", "over"}
  PROVE  /\ [o EXCEPT !.stage = stage] \in Attempt
         /\ [o EXCEPT !.stage = stage].stage = stage
         /\ Asks([o EXCEPT !.stage = stage], o)
  BY DEF Attempt, Asks, ScopedKey, Scope

\* A change of one attempt's stage leaves what every attempt asks alone.
LEMMA AttemptMoves ==
  ASSUME TypeOK, NEW a \in Attempts, NEW stage \in {"ran", "over"},
         attempt' = [attempt EXCEPT ![a].stage = stage]
  PROVE  /\ attempt' \in [Attempts -> Attempt]
         /\ attempt'[a].stage = stage
         /\ \A b \in Attempts : Asks(attempt'[b], attempt[b])
         /\ \A b \in Attempts \ {a} : attempt'[b] = attempt[b]
<1> DEFINE n == [attempt[a] EXCEPT !.stage = stage]
<1>1. attempt' = [attempt EXCEPT ![a] = n]
  OBVIOUS
<1>2. n \in Attempt /\ n.stage = stage /\ Asks(n, attempt[a])
  <2>1. attempt[a] \in Attempt
    BY DEF TypeOK
  <2> QED
    BY <2>1, StageFacts
<1> HIDE DEF n
<1>3. attempt' \in [Attempts -> Attempt] /\ attempt'[a] = n
  BY <1>1, <1>2 DEF TypeOK
<1>4. \A b \in Attempts \ {a} : attempt'[b] = attempt[b]
  BY <1>1 DEF TypeOK
<1> QED
  BY <1>2, <1>3, <1>4 DEF Asks

\* What EXCEPT does to a function.
LEMMA EntryWritten ==
  ASSUME NEW D, NEW R, NEW f \in [D -> R], NEW k, NEW e \in R
  PROVE  /\ [f EXCEPT ![k] = e] \in [D -> R]
         /\ \A c \in D : [f EXCEPT ![k] = e][c] = IF c = k THEN e ELSE f[c]
  OBVIOUS

\* One entry of one store is written.
LEMMA StoreUpdated ==
  ASSUME TypeOK, NEW z, NEW k, NEW e \in Attempts \cup {None},
         store' = [store EXCEPT ![z][k] = e]
  PROVE  /\ store' \in [Stores -> [Scopes \X Keys -> Attempts \cup {None}]]
         /\ \A s \in Stores, c \in Scopes \X Keys :
                store'[s][c] = IF s = z /\ c = k THEN e ELSE store[s][c]
<1>1. \A s \in Stores : store[s] \in [Scopes \X Keys -> Attempts \cup {None}]
  BY DEF TypeOK
<1>2. store' = [s \in Stores |-> IF s = z THEN [store[s] EXCEPT ![k] = e] ELSE store[s]]
  BY DEF TypeOK
<1>3. ASSUME NEW s \in Stores
      PROVE  /\ [store[s] EXCEPT ![k] = e] \in [Scopes \X Keys -> Attempts \cup {None}]
             /\ \A c \in Scopes \X Keys :
                    [store[s] EXCEPT ![k] = e][c] = IF c = k THEN e ELSE store[s][c]
  BY <1>1, EntryWritten
<1>4. store' \in [Stores -> [Scopes \X Keys -> Attempts \cup {None}]]
  <2> DEFINE E == [Scopes \X Keys -> Attempts \cup {None}]
             g(s) == IF s = z THEN [store[s] EXCEPT ![k] = e] ELSE store[s]
  <2>1. \A s \in Stores : g(s) \in E
    BY <1>1, <1>3
  <2>2. store' = [s \in Stores |-> g(s)]
    BY <1>2
  <2> HIDE DEF E, g
  <2>3. store' \in [Stores -> E]
    BY <2>1, <2>2
  <2> QED
    BY <2>3 DEF E
<1> QED
  BY <1>2, <1>3, <1>4

\* An arrival answers only with a kept response to the same body.
LEMMA DispatchInv ==
  ASSUME Inv, NEW a \in Attempts, NEW q \in Incoming, Dispatch(a, q)
  PROVE  Inv'
<1>1. ASSUME NEW stage \in {"running", "over"}, NEW answer \in Answers,
             Arrives(a, q, stage, answer),
             answer \in Attempts =>
                 /\ answer \in ran /\ stage = "over"
                 /\ attempt[answer].body = q.body
                 /\ ScopedKey(attempt[answer]) = ScopedKey(q)
      PROVE  Inv'
  <2>1. TypeOK
    BY DEF Inv
  <2>2. /\ attempt[a].stage = "new"
        /\ attempt'[a].stage = stage /\ attempt'[a].body = q.body
        /\ ScopedKey(attempt'[a]) = ScopedKey(q)
        /\ \A b \in Attempts \ {a} : attempt'[b] = attempt[b] /\ reply'[b] = reply[b]
        /\ reply'[a] = answer
        /\ TypeOK'
        /\ UNCHANGED <<ran, store>>
    BY <1>1, <2>1, ArrivesFacts
  <2>3. a \notin ran
    BY <2>2 DEF Inv, Genuine, Progressed
  <2>4. EntriesGenuine'
    BY <2>2, <2>3 DEF Inv, TypeOK, Genuine, EntriesGenuine
  <2>5. Progressed'
    BY <2>2, <2>3, <1>1 DEF Inv, TypeOK, Genuine, Progressed
  <2>6. ReplayMatches'
    <3> SUFFICES ASSUME NEW b \in Attempts, reply'[b] \in Attempts
                 PROVE  /\ reply'[b] \in ran'
                        /\ attempt'[reply'[b]].body = attempt'[b].body
                        /\ reply'[b] # b
                             => ScopedKey(attempt'[reply'[b]]) = ScopedKey(attempt'[b])
      BY DEF ReplayMatches, ScopedKey, Scope
    <3>1. CASE b = a
      BY <3>1, <2>2, <2>3, <1>1
    <3>2. CASE b # a
      <4>1. reply'[b] = reply[b] /\ attempt'[b] = attempt[b] /\ reply[b] \in ran
        BY <3>2, <2>2 DEF Inv, ReplayMatches
      <4>2. attempt'[reply[b]] = attempt[reply[b]]
        BY <4>1, <2>2, <2>3
      <4> QED
        BY <4>1, <4>2, <2>2 DEF Inv, ReplayMatches
    <3> QED
      BY <3>1, <3>2
  <2> QED
    BY <2>2, <2>4, <2>5, <2>6 DEF Inv, Genuine
<1>2. CASE RejectKey(a, q) \/ PassThrough(a, q) \/ Miss(a, q) \/ RefuseReuse(a, q)
            \/ GetFails(a, q)
  BY <1>1, <1>2, DistinctValues
  DEF RejectKey, PassThrough, Miss, RefuseReuse, GetFails, Answers
<1>3. CASE Replay(a, q)
  <2>1. StoreOf(q.process) \in Stores /\ ScopedKey(q) \in Scopes \X Keys
    BY <1>3, DistinctValues DEF Replay, StoreOf, Stores, ScopedKey, Scope, Scopes, Incoming
  <2>2. /\ Kept(q) \in ran /\ Kept(q) \in Attempts
        /\ ScopedKey(attempt[Kept(q)]) = ScopedKey(q)
        /\ attempt[Kept(q)].body = q.body
    BY <1>3, <2>1 DEF Replay, BodyDiffers, Kept, Inv, TypeOK, Genuine, EntriesGenuine
  <2> QED
    BY <1>1, <1>3, <2>2 DEF Replay, Answers
<1> QED
  BY <1>2, <1>3 DEF Dispatch

\* A step after the arrival keeps entries and answers genuine.
LEMMA RespondInv ==
  ASSUME Inv, NEW a \in Attempts, Respond(a)
  PROVE  Inv'
<1>0. TypeOK
  BY DEF Inv
<1>1. CASE HandlerRuns(a)
  <2>1. /\ attempt' \in [Attempts -> Attempt]
        /\ attempt'[a].stage = "ran"
        /\ \A b \in Attempts : Asks(attempt'[b], attempt[b])
        /\ \A b \in Attempts \ {a} : attempt'[b] = attempt[b]
    BY <1>0, <1>1, AttemptMoves DEF HandlerRuns
  <2>2. /\ ran' = ran \cup {a} /\ attempt[a].stage = "running"
        /\ UNCHANGED <<reply, store, onRedis, finished, unshared, upsets>>
    BY <1>1 DEF HandlerRuns
  <2>3. TypeOK'
    BY <1>0, <2>1, <2>2 DEF TypeOK
  <2>4. EntriesGenuine'
    BY <2>1, <2>2 DEF Inv, TypeOK, Genuine, EntriesGenuine, Asks
  <2>5. Progressed'
    BY <2>1, <2>2 DEF Inv, TypeOK, Genuine, Progressed
  <2>6. ReplayMatches'
    BY <2>1, <2>2 DEF Inv, TypeOK, ReplayMatches, Asks
  <2> QED
    BY <2>3, <2>4, <2>5, <2>6 DEF Inv, Genuine
<1>2. CASE HandlerRefuses(a)
  <2>1. /\ attempt' \in [Attempts -> Attempt]
        /\ attempt'[a].stage = "over"
        /\ \A b \in Attempts : Asks(attempt'[b], attempt[b])
        /\ \A b \in Attempts \ {a} : attempt'[b] = attempt[b]
    BY <1>0, <1>2, AttemptMoves DEF HandlerRefuses
  <2>2. /\ reply' = [reply EXCEPT ![a] = Failed]
        /\ UNCHANGED <<ran, store, onRedis, finished, unshared, upsets>>
    BY <1>2 DEF HandlerRefuses
  <2>3. TypeOK' /\ reply'[a] \notin Attempts
        /\ \A b \in Attempts \ {a} : reply'[b] = reply[b]
    BY <1>0, <2>1, <2>2, DistinctValues DEF TypeOK, Answers
  <2>4. EntriesGenuine'
    BY <2>1, <2>2 DEF Inv, TypeOK, Genuine, EntriesGenuine, Asks
  <2>5. Progressed'
    BY <2>1, <2>2, <2>3 DEF Inv, TypeOK, Genuine, Progressed
  <2>6. ReplayMatches'
    BY <2>1, <2>2, <2>3 DEF Inv, TypeOK, ReplayMatches, Asks
  <2> QED
    BY <2>3, <2>4, <2>5, <2>6 DEF Inv, Genuine
<1>3. CASE Remember(a) \/ Forward(a) \/ SetFails(a)
  <2>1. PICK answer \in {a, Failed} : Ends(a, answer)
    BY <1>3 DEF Remember, Forward, SetFails
  <2>2. /\ attempt' \in [Attempts -> Attempt]
        /\ attempt'[a].stage = "over"
        /\ \A b \in Attempts : Asks(attempt'[b], attempt[b])
        /\ \A b \in Attempts \ {a} : attempt'[b] = attempt[b]
    BY <1>0, <2>1, AttemptMoves DEF Ends
  <2>3. /\ reply' = [reply EXCEPT ![a] = answer] /\ a \in ran
        /\ finished' = finished \cup {a}
        /\ UNCHANGED <<ran, onRedis, upsets>>
    BY <2>1 DEF Ends, Inv, Genuine, Progressed
  <2>10. unshared' \subseteq unshared \cup {a}
    BY <1>3 DEF Remember, Forward, SetFails
  <2>4. reply' \in [Attempts -> Answers] /\ reply'[a] = answer
        /\ \A b \in Attempts \ {a} : reply'[b] = reply[b]
    BY <1>0, <2>3 DEF TypeOK, Answers
  <2>5. /\ store' \in [Stores -> [Scopes \X Keys -> Attempts \cup {None}]]
        /\ \A s \in Stores, c \in Scopes \X Keys :
               \/ store'[s][c] = store[s][c]
               \/ store'[s][c] = a /\ ScopedKey(attempt[a]) = c
    <3>1. CASE Remember(a)
      <4>1. PICK z, k : /\ k = ScopedKey(attempt[a])
                        /\ store' = [store EXCEPT ![z][k] = a]
        BY <3>1 DEF Remember
      <4> QED
        BY <1>0, <4>1, StoreUpdated
    <3>2. CASE store' = store
      BY <1>0, <3>2 DEF TypeOK
    <3> QED
      BY <1>3, <3>1, <3>2 DEF Forward, SetFails
  <2>6. TypeOK'
    BY <1>0, <2>2, <2>3, <2>4, <2>5, <2>10 DEF TypeOK
  <2>7. EntriesGenuine'
    BY <2>2, <2>3, <2>5 DEF Inv, TypeOK, Genuine, EntriesGenuine, Asks
  <2>8. Progressed'
    BY <2>2, <2>3, <2>4 DEF Inv, TypeOK, Genuine, Progressed
  <2>9. ReplayMatches'
    BY <2>2, <2>3, <2>4, DistinctValues DEF Inv, TypeOK, ReplayMatches, Asks
  <2> QED
    BY <2>6, <2>7, <2>8, <2>9 DEF Inv, Genuine
<1> QED
  BY <1>1, <1>2, <1>3 DEF Respond

LEMMA ExpireInv ==
  ASSUME Inv, NEW s \in Stores, NEW c \in Scopes \X Keys, Expire(s, c)
  PROVE  Inv'
<1>1. /\ store' \in [Stores -> [Scopes \X Keys -> Attempts \cup {None}]]
      /\ \A z \in Stores, d \in Scopes \X Keys :
             store'[z][d] = store[z][d] \/ store'[z][d] = None
      /\ UNCHANGED <<attempt, reply, ran, onRedis, unshared>>
      /\ finished' \subseteq finished /\ upsets' \in 0..MaxUpsets
  <2>1. store' = [store EXCEPT ![s][c] = None] /\ TypeOK
    BY DEF Expire, Inv
  <2>2. /\ store' \in [Stores -> [Scopes \X Keys -> Attempts \cup {None}]]
        /\ \A z \in Stores, d \in Scopes \X Keys :
               store'[z][d] = store[z][d] \/ store'[z][d] = None
    BY <2>1, StoreUpdated
  <2>3. finished' \subseteq finished /\ UNCHANGED <<attempt, reply, ran, onRedis, unshared>>
    BY DEF Expire
  <2>4. upsets' \in 0..MaxUpsets
    BY ConstantTypes DEF Expire, Inv, TypeOK
  <2> QED
    BY <2>2, <2>3, <2>4
<1>2. TypeOK'
  BY <1>1 DEF Inv, TypeOK
<1>3. Genuine' /\ ReplayMatches'
  BY <1>1 DEF Inv, Genuine, EntriesGenuine, Progressed, ReplayMatches
<1> QED
  BY <1>2, <1>3 DEF Inv

LEMMA CrashInv ==
  ASSUME Inv, NEW p \in Processes, NEW ping \in RedisPings, Crash(p, ping)
  PROVE  Inv'
<1>1. /\ attempt' \in [Attempts -> Attempt]
      /\ \A b \in Attempts : /\ Asks(attempt'[b], attempt[b])
                             /\ attempt'[b].stage \in {attempt[b].stage, "over"}
  <2>1. \A b \in Attempts :
          LET n == [attempt[b] EXCEPT !.stage = "over"]
          IN  n \in Attempt /\ n.stage = "over" /\ Asks(n, attempt[b])
    BY StageFacts DEF Inv, TypeOK
  <2>2. \A b \in Attempts : attempt[b] \in Attempt /\ Asks(attempt[b], attempt[b])
    BY DEF Inv, TypeOK, Asks
  <2> QED
    BY <2>1, <2>2 DEF Crash
<1>2. /\ store' \in [Stores -> [Scopes \X Keys -> Attempts \cup {None}]]
      /\ \A z \in Stores, d \in Scopes \X Keys :
             store'[z][d] = store[z][d] \/ store'[z][d] = None
      /\ UNCHANGED <<reply, ran>>
      /\ finished' \subseteq Attempts /\ unshared' \subseteq Attempts
      /\ onRedis' \subseteq Processes
  BY DEF Crash, CommittedOn, Inv, TypeOK, Stores
<1>7. upsets' \in 0..MaxUpsets
  BY ConstantTypes DEF Crash, Inv, TypeOK
<1>3. TypeOK'
  BY <1>1, <1>2, <1>7 DEF Inv, TypeOK
<1>4. EntriesGenuine'
  BY <1>1, <1>2 DEF Inv, TypeOK, Genuine, EntriesGenuine, Asks
<1>5. Progressed'
  BY <1>1, <1>2 DEF Inv, TypeOK, Genuine, Progressed
<1>6. ReplayMatches'
  BY <1>1, <1>2 DEF Inv, TypeOK, ReplayMatches, Asks
<1> QED
  BY <1>3, <1>4, <1>5, <1>6 DEF Inv, Genuine

LEMMA NextInv == Inv /\ [Next]_vars => Inv'
<1> SUFFICES ASSUME Inv, [Next]_vars PROVE Inv'
  OBVIOUS
<1>1. CASE UNCHANGED vars
  BY <1>1 DEF vars, Inv, TypeOK, Genuine, EntriesGenuine, Progressed, ReplayMatches
<1>2. CASE Next
  BY <1>2, DispatchInv, RespondInv, ExpireInv, CrashInv DEF Next
<1> QED
  BY <1>1, <1>2

THEOREM Invariance == Spec => []Inv
  BY InitInv, NextInv, PTL DEF Spec

\* Every variable has its type in every reachable state.
THEOREM KeyTypeCorrectness == Spec => []TypeOK
  BY Invariance, PTL DEF Inv

\* dispatch: a replayed response is one a handler gave to the same body
\* under the same scoped key, whatever raced, expired or crashed.
THEOREM ReplaysAreGenuine == Spec => []ReplayMatches
  BY Invariance, PTL DEF Inv

----------------------------------------------------------------------------
(* Retries.                                                                *)

\* Redis keeps something for every finished attempt within its lifetime
\* whose response got there.
Remembered ==
    /\ finished \subseteq ran
    /\ \A a \in finished \ unshared : attempt[a].key \in Keys =>
           store[Redis][ScopedKey(attempt[a])] # None

\* An attempt that is not unshared asks Redis until it is over, and on its
\* way through the handler retries nothing whose response is in Redis.
FirstRuns ==
    \A a \in Attempts \ unshared :
        /\ attempt[a].stage \in {"running", "ran"} => attempt[a].process \in onRedis
        /\ attempt[a].stage = "running" /\ attempt[a].key \in Keys =>
               attempt[a].after \subseteq unshared

RInv == Inv /\ Remembered /\ FirstRuns /\ RetriesRunOnce

LEMMA InitRInv == Init => RInv
  BY InitInv DEF Init, RInv, Remembered, FirstRuns, RetriesRunOnce

LEMMA KeyInStore ==
  ASSUME NEW q, q.actingAs \in Tenants \cup {None}, q.key \in Keys
  PROVE  ScopedKey(q) \in Scopes \X Keys
  BY DEF ScopedKey, Scope, Scopes

\* A keyed request that misses in Redis follows no finished attempt of its
\* kind whose response got there.
LEMMA MissIsFirst ==
  ASSUME RInv, NEW q \in Incoming, q.key \in Keys, q.process \in onRedis, Kept(q) = None
  PROVE  {b \in finished : SameRequest(attempt[b], q)} \subseteq unshared
<1> SUFFICES ASSUME NEW b \in finished \ unshared, SameRequest(attempt[b], q) PROVE FALSE
  OBVIOUS
<1>1. ScopedKey(attempt[b]) = ScopedKey(q) /\ attempt[b].key \in Keys
  BY DEF SameRequest, ScopedKey, Scope
<1>2. StoreOf(q.process) = Redis
  BY DEF StoreOf
<1> QED
  BY <1>1, <1>2 DEF RInv, Remembered, Kept

LEMMA DispatchRInv ==
  ASSUME RInv, NEW a \in Attempts, NEW q \in Incoming, Dispatch(a, q)
  PROVE  RInv'
<1>1. PICK stage \in {"running", "over"}, answer \in Answers : Arrives(a, q, stage, answer)
  <2>1. CASE Replay(a, q)
    <3>1. StoreOf(q.process) \in Stores /\ ScopedKey(q) \in Scopes \X Keys
      BY <2>1, KeyInStore DEF Replay, StoreOf, Stores, Incoming
    <3>2. Kept(q) \in Answers
      BY <3>1 DEF Kept, RInv, Inv, TypeOK, Answers
    <3> QED
      BY <2>1, <3>2 DEF Replay
  <2>2. CASE ~ Replay(a, q)
    BY <2>2 DEF Dispatch, RejectKey, PassThrough, Miss, RefuseReuse, GetFails, Answers
  <2> QED
    BY <2>1, <2>2
<1>2. /\ attempt[a].stage = "new"
      /\ attempt'[a].stage = stage /\ attempt'[a].process = q.process
      /\ attempt'[a].key = q.key
      /\ attempt'[a].after = {b \in finished : SameRequest(attempt[b], q)}
      /\ \A b \in Attempts \ {a} : attempt'[b] = attempt[b]
      /\ unshared' = IF q.process \in onRedis THEN unshared ELSE unshared \cup {a}
      /\ UNCHANGED <<ran, store, onRedis, finished>>
  BY <1>1, ArrivesFacts DEF RInv, Inv
<1>3. a \notin ran
  BY <1>2 DEF RInv, Inv, Genuine, Progressed
<1>4. stage = "running" /\ q.key \in Keys /\ q.process \in onRedis
        => attempt'[a].after \subseteq unshared
  <2> SUFFICES ASSUME stage = "running", q.key \in Keys, q.process \in onRedis
               PROVE  Kept(q) = None
    BY <1>2, MissIsFirst
  <2>1. attempt'[a].stage = "running"
    BY <1>2
  <2>2. CASE Miss(a, q)
    BY <2>2 DEF Miss
  <2>3. CASE \E answer2 \in Answers : Arrives(a, q, "over", answer2)
    BY <2>1, <2>3, ArrivesFacts DEF RInv, Inv
  <2>4. CASE Replay(a, q)
    <3>1. StoreOf(q.process) \in Stores /\ ScopedKey(q) \in Scopes \X Keys
      BY <2>4, KeyInStore DEF Replay, StoreOf, Stores, Incoming
    <3>2. Kept(q) \in Answers
      BY <3>1 DEF Kept, RInv, Inv, TypeOK, Answers
    <3> QED
      BY <2>3, <2>4, <3>2 DEF Replay
  <2> QED
    BY <2>2, <2>3, <2>4, DistinctValues
    DEF Dispatch, RejectKey, PassThrough, RefuseReuse, GetFails, Answers
<1>5. Inv'
  BY DispatchInv DEF RInv
<1>6. Remembered'
  BY <1>2, <1>3 DEF RInv, Inv, TypeOK, Remembered
<1>7. FirstRuns'
  BY <1>2, <1>4 DEF RInv, FirstRuns
<1>8. RetriesRunOnce'
  BY <1>2, <1>3 DEF RInv, Inv, TypeOK, RetriesRunOnce
<1> QED
  BY <1>5, <1>6, <1>7, <1>8 DEF RInv

LEMMA RespondRInv ==
  ASSUME RInv, NEW a \in Attempts, Respond(a)
  PROVE  RInv'
<1>0. TypeOK
  BY DEF RInv, Inv
<1>1. Inv'
  BY RespondInv DEF RInv
<1>2. CASE HandlerRuns(a)
  <2>1. /\ attempt'[a].stage = "ran"
        /\ \A b \in Attempts : Asks(attempt'[b], attempt[b])
        /\ \A b \in Attempts \ {a} : attempt'[b] = attempt[b]
    BY <1>0, <1>2, AttemptMoves DEF HandlerRuns
  <2>2. /\ ran' = ran \cup {a} /\ attempt[a].stage = "running"
        /\ UNCHANGED <<store, onRedis, finished, unshared>>
    BY <1>2 DEF HandlerRuns
  <2>3. Remembered'
    BY <1>0, <2>1, <2>2 DEF RInv, TypeOK, Remembered, Asks
  <2>4. FirstRuns'
    BY <2>1, <2>2 DEF RInv, FirstRuns, Asks
  <2>5. RetriesRunOnce'
    BY <1>0, <2>1, <2>2 DEF RInv, TypeOK, RetriesRunOnce, FirstRuns, Asks
  <2> QED
    BY <1>1, <2>3, <2>4, <2>5 DEF RInv
<1>3. CASE HandlerRefuses(a)
  <2>1. /\ attempt'[a].stage = "over"
        /\ \A b \in Attempts : Asks(attempt'[b], attempt[b])
        /\ \A b \in Attempts \ {a} : attempt'[b] = attempt[b]
    BY <1>0, <1>3, AttemptMoves DEF HandlerRefuses
  <2>2. attempt[a].stage = "running" /\ UNCHANGED <<ran, store, onRedis, finished, unshared>>
    BY <1>3 DEF HandlerRefuses
  <2>3. Remembered' /\ RetriesRunOnce'
    BY <1>0, <2>1, <2>2 DEF RInv, TypeOK, Remembered, RetriesRunOnce, Asks
  <2>4. FirstRuns'
    BY <2>1, <2>2 DEF RInv, FirstRuns, Asks
  <2> QED
    BY <1>1, <2>3, <2>4 DEF RInv
<1>4. CASE Remember(a) \/ Forward(a) \/ SetFails(a)
  <2>1. PICK answer : Ends(a, answer)
    BY <1>4 DEF Remember, Forward, SetFails
  <2>2. /\ attempt'[a].stage = "over"
        /\ \A b \in Attempts : Asks(attempt'[b], attempt[b])
        /\ \A b \in Attempts \ {a} : attempt'[b] = attempt[b]
    BY <1>0, <2>1, AttemptMoves DEF Ends
  <2>3. /\ attempt[a].stage = "ran" /\ a \in ran
        /\ finished' = finished \cup {a} /\ UNCHANGED <<ran, onRedis>>
    BY <2>1 DEF Ends, RInv, Inv, Genuine, Progressed
  <2>4. unshared \subseteq unshared'
    BY <1>4 DEF Remember, Forward, SetFails
  <2>5. \A b \in finished' \ unshared' : attempt[b].key \in Keys =>
           store'[Redis][ScopedKey(attempt[b])] # None
    <3>1. CASE Forward(a)
      BY <3>1, <2>3, DistinctValues DEF Forward, RInv, Remembered
    <3>2. CASE SetFails(a)
      BY <3>2, <2>3 DEF SetFails, RInv, Remembered
    <3>3. CASE Remember(a)
      <4>1. PICK z : /\ z = StoreOf(attempt[a].process)
                     /\ store' = [store EXCEPT ![z][ScopedKey(attempt[a])] = a]
                     /\ unshared' = unshared
        BY <3>3 DEF Remember
      <4>2. a \notin unshared => z = Redis
        BY <4>1, <2>3 DEF RInv, FirstRuns, StoreOf
      <4>3. \A s \in Stores, c \in Scopes \X Keys :
              store'[s][c] = IF s = z /\ c = ScopedKey(attempt[a])
                             THEN a ELSE store[s][c]
        BY <1>0, <4>1, StoreUpdated
      <4>4. \A b \in Attempts : attempt[b].key \in Keys =>
              ScopedKey(attempt[b]) \in Scopes \X Keys
        BY <1>0, KeyInStore DEF TypeOK, Attempt
      <4> QED
        BY <1>0, <2>3, <4>1, <4>2, <4>3, <4>4, DistinctValues
        DEF RInv, Remembered, TypeOK, Stores
    <3> QED
      BY <1>4, <3>1, <3>2, <3>3
  <2>6. Remembered'
    BY <1>0, <2>2, <2>3, <2>5 DEF RInv, TypeOK, Remembered, Asks
  <2>7. FirstRuns'
    BY <2>2, <2>3, <2>4 DEF RInv, FirstRuns, Asks
  <2>8. RetriesRunOnce'
    BY <1>0, <2>2, <2>3, <2>4 DEF RInv, TypeOK, RetriesRunOnce, Asks
  <2> QED
    BY <1>1, <2>6, <2>7, <2>8 DEF RInv
<1> QED
  BY <1>2, <1>3, <1>4 DEF Respond

LEMMA ExpireRInv ==
  ASSUME RInv, NEW s \in Stores, NEW c \in Scopes \X Keys, Expire(s, c)
  PROVE  RInv'
<1>1. Inv'
  BY ExpireInv DEF RInv
<1>2. /\ store' = [store EXCEPT ![s][c] = None]
      /\ finished' = {a \in finished : ScopedKey(attempt[a]) # c}
      /\ UNCHANGED <<attempt, reply, ran, onRedis, unshared>>
  BY DEF Expire
<1>3. \A z \in Stores, d \in Scopes \X Keys :
        store'[z][d] = IF z = s /\ d = c THEN None ELSE store[z][d]
  BY <1>2, StoreUpdated DEF RInv, Inv
<1>4. \A a \in Attempts : attempt[a].key \in Keys =>
        ScopedKey(attempt[a]) \in Scopes \X Keys
  BY KeyInStore DEF RInv, Inv, TypeOK, Attempt
<1>5. Remembered'
  BY <1>2, <1>3, <1>4 DEF RInv, Inv, TypeOK, Remembered, Stores
<1>6. FirstRuns' /\ RetriesRunOnce'
  BY <1>2 DEF RInv, FirstRuns, RetriesRunOnce
<1> QED
  BY <1>1, <1>5, <1>6 DEF RInv

\* A crash ends the attempts of its process, and what they committed without
\* telling Redis becomes unshared; what Redis keeps survives.
LEMMA CrashRInv ==
  ASSUME RInv, NEW p \in Processes, NEW ping \in RedisPings, Crash(p, ping)
  PROVE  RInv'
<1>0. TypeOK
  BY DEF RInv, Inv
<1>1. Inv'
  BY CrashInv DEF RInv
<1>2. \A b \in Attempts :
        /\ Asks(attempt'[b], attempt[b])
        /\ attempt'[b].stage \in {attempt[b].stage, "over"}
        /\ attempt[b].process = p => attempt'[b].stage = "over"
  <2>1. \A b \in Attempts :
          LET n == [attempt[b] EXCEPT !.stage = "over"]
          IN  n.stage = "over" /\ Asks(n, attempt[b])
    BY <1>0, StageFacts DEF TypeOK
  <2>2. \A b \in Attempts : Asks(attempt[b], attempt[b])
    BY DEF Asks
  <2> QED
    BY <2>1, <2>2 DEF Crash
<1>3. /\ ran' = ran /\ unshared' = unshared \cup CommittedOn(p)
      /\ finished' = finished \cup CommittedOn(p)
      /\ onRedis \ {p} \subseteq onRedis'
  BY DEF Crash
<1>4. CommittedOn(p) \subseteq ran
  BY DEF CommittedOn, RInv, Inv, Genuine, Progressed
<1>5. store'[Redis] = store[Redis]
  BY <1>0, DistinctValues DEF Crash, TypeOK, Stores
<1>6. Remembered'
  BY <1>0, <1>2, <1>3, <1>4, <1>5 DEF RInv, TypeOK, Remembered, Asks
<1>7. FirstRuns'
  BY <1>2, <1>3 DEF RInv, FirstRuns, Asks
<1>8. RetriesRunOnce'
  BY <1>0, <1>2, <1>3 DEF RInv, TypeOK, RetriesRunOnce, Asks
<1> QED
  BY <1>1, <1>6, <1>7, <1>8 DEF RInv

LEMMA NextRInv == RInv /\ [Next]_vars => RInv'
<1> SUFFICES ASSUME RInv, [Next]_vars PROVE RInv'
  OBVIOUS
<1>1. CASE UNCHANGED vars
  <2>1. Inv'
    BY <1>1, NextInv DEF RInv
  <2> QED
    BY <1>1, <2>1 DEF vars, RInv, Remembered, FirstRuns, RetriesRunOnce
<1>2. CASE Next
  BY <1>2, DispatchRInv, RespondRInv, ExpireRInv, CrashRInv DEF Next
<1> QED
  BY <1>1, <1>2

\* dispatch: a retry that asks Redis, sent within 24 hours after an attempt
\* that took effect has ended, runs the handler again only if that attempt's
\* response never got to Redis, whatever crashed, failed, raced or expired.
THEOREM RetriesAreSafe == Spec => []RetriesRunOnce
<1>1. RInv => RetriesRunOnce
  BY DEF RInv
<1> QED
  BY InitRInv, NextRInv, <1>1, PTL DEF Spec
=============================================================================
