--------------------------- MODULE RefreshTokens ---------------------------
(***************************************************************************)
(* Refresh-token rotation and logout: auth_service.py, the two endpoints   *)
(* of api/v1/auth.py that call it, and the denylist table whose unique     *)
(* index on jti decides every race.                                        *)
(*                                                                         *)
(* A token is its jti.  Requests run concurrently, each in a READ          *)
(* COMMITTED transaction that get_db commits after the endpoint returns    *)
(* and before the response is sent: a request reads only committed         *)
(* denylist rows, an INSERT of a jti that another transaction inserted and *)
(* not yet committed waits for it, and one that finds the jti committed    *)
(* raises IntegrityError.  A request may die at any point before its       *)
(* commit, and an answer may be lost after it.                             *)
(*                                                                         *)
(* Presenting an expired or malformed token changes nothing (it is         *)
(* refused before any statement), so it is a stuttering step.  No code     *)
(* deletes denylist rows.                                                  *)
(***************************************************************************)
EXTENDS Naturals, FiniteSets

CONSTANTS
    Requests,   \* concurrent HTTP requests; a slot is reused after its answer
    Tokens,     \* refresh-token jtis; their number bounds logins plus rotations
    None,       \* no token
    Fresh       \* the parent of a token issued by a login

ASSUME DistinctMarks ==
    /\ None \notin Tokens
    /\ Fresh \notin Tokens
    /\ None # Fresh

VARIABLES
    denied,     \* jtis with a committed row in revoked_refresh_tokens
    parent,     \* the token each issued token was exchanged for
    session,    \* history: the login each issued token descends from
    held,       \* tokens whose answer reached the client
    loggedOut,  \* history: tokens whose logout was answered 204
    standing,   \* the user is active and a member of the tenant
    call        \* the request in each slot

vars == <<denied, parent, session, held, loggedOut, standing, call>>

Ops == {"refresh", "logout"}

\* A slot without a request.
Idle == [op |-> "none", token |-> None, stage |-> "idle", minted |-> None]

Call ==
    [op : Ops \cup {"none"}, token : Tokens \cup {None},
     stage : {"idle", "checked", "vetted", "inserted"},
     minted : Tokens \cup {None}]

\* Tokens of which some response was, or may have been, sent.
Issued == {t \in Tokens : parent[t] # None}

\* uuid4().hex: a jti nobody has and no request in flight has drawn.
Unused(t) ==
    /\ t \notin Issued
    /\ \A r \in Requests : call[r].minted # t

\* The bound: logins and refreshes begin only while a jti is left for every
\* refresh in flight, so that running out of jtis never stops a request.
Room ==
    Cardinality(Issued)
        + Cardinality({r \in Requests : call[r].op = "refresh"})
    < Cardinality(Tokens)

Init ==
    /\ denied = {}
    /\ parent = [t \in Tokens |-> None]
    /\ session = [t \in Tokens |-> None]
    /\ held = {}
    /\ loggedOut = {}
    /\ standing = TRUE
    /\ call = [r \in Requests |-> Idle]

----------------------------------------------------------------------------
(* Login: authenticate refuses a user that is inactive or a member of      *)
(* nothing, otherwise issue_token_pair draws a fresh jti.  Its only write  *)
(* is last_login_at.                                                       *)

\* The answer that hands token t to the client arrives or is lost.
Answered(t, arrives) == held' = IF arrives THEN held \cup {t} ELSE held

Login(t, arrives) ==
    /\ Room
    /\ standing
    /\ Unused(t)
    /\ parent' = [parent EXCEPT ![t] = Fresh]
    /\ session' = [session EXCEPT ![t] = t]
    /\ Answered(t, arrives)
    /\ UNCHANGED <<denied, loggedOut, standing, call>>

----------------------------------------------------------------------------
(* Refresh and logout.                                                     *)

\* The client presents a token and the denylist is read.  A denied token
\* is refused by refresh, and by logout answered as logged out.
ReadDenylist(r, op, t) ==
    /\ call[r].stage = "idle"
    /\ t \in held
    /\ op = "refresh" => Room
    /\ IF t \in denied
       THEN /\ loggedOut' = IF op = "logout" THEN loggedOut \cup {t} ELSE loggedOut
            /\ UNCHANGED call
       ELSE /\ call' = [call EXCEPT ![r] = [op |-> op, token |-> t,
                                            stage |-> "checked", minted |-> None]]
            /\ UNCHANGED loggedOut
    /\ UNCHANGED <<denied, parent, session, held, standing>>

\* refresh reads the user and the membership; without them it is refused.
Vet(r) ==
    /\ call[r].op = "refresh"
    /\ call[r].stage = "checked"
    /\ call' = [call EXCEPT ![r] =
                    IF standing THEN [@ EXCEPT !.stage = "vetted"] ELSE Idle]
    /\ UNCHANGED <<denied, parent, session, held, loggedOut, standing>>

\* The request has reached the flush of its denylist row.
AtInsert(r) ==
    \/ call[r].op = "refresh" /\ call[r].stage = "vetted"
    \/ call[r].op = "logout" /\ call[r].stage = "checked"

\* MUTANT of InsertWaits: the jti column has no unique index to wait on.
NeverWaits(r) == FALSE

\* Another transaction inserted the same jti and has not ended.
InsertWaits(r) ==
    \E q \in Requests \ {r} :
        call[q].stage = "inserted" /\ call[q].token = call[r].token

\* MUTANT of Insert: nothing waits and nothing is refused.
InsertUnguarded(r, t) ==
    /\ AtInsert(r)
    /\ IF call[r].op = "refresh" THEN t \in Tokens /\ Unused(t) ELSE t = None
    /\ call' = [call EXCEPT ![r].stage = "inserted", ![r].minted = t]
    /\ UNCHANGED <<denied, parent, session, held, loggedOut, standing>>

\* The row is flushed; refresh then draws the jti of the new pair.
Insert(r, t) ==
    /\ AtInsert(r)
    /\ ~ InsertWaits(r)
    /\ call[r].token \notin denied
    /\ IF call[r].op = "refresh" THEN t \in Tokens /\ Unused(t) ELSE t = None
    /\ call' = [call EXCEPT ![r].stage = "inserted", ![r].minted = t]
    /\ UNCHANGED <<denied, parent, session, held, loggedOut, standing>>

\* MUTANT of InsertRefused: the handler starts over on IntegrityError.
RefusedTriesAgain(r) ==
    /\ AtInsert(r)
    /\ ~ InsertWaits(r)
    /\ call[r].token \in denied
    /\ call' = [call EXCEPT ![r].stage = "checked"]
    /\ UNCHANGED <<denied, parent, session, held, loggedOut, standing>>

\* IntegrityError: the transaction is rolled back, refresh is refused and
\* logout answers 204.
InsertRefused(r) ==
    /\ AtInsert(r)
    /\ ~ InsertWaits(r)
    /\ call[r].token \in denied
    /\ loggedOut' = IF call[r].op = "logout"
                    THEN loggedOut \cup {call[r].token} ELSE loggedOut
    /\ call' = [call EXCEPT ![r] = Idle]
    /\ UNCHANGED <<denied, parent, session, held, standing>>

\* MUTANT of CommitRefresh: the pair is issued in one transaction and the
\* old token denied in another that never commits.
CommitWithoutRow(r, arrives) ==
    /\ call[r].stage = "inserted"
    /\ call[r].op = "refresh"
    /\ parent' = [parent EXCEPT ![call[r].minted] = call[r].token]
    /\ session' = [session EXCEPT ![call[r].minted] = session[call[r].token]]
    /\ Answered(call[r].minted, arrives)
    /\ call' = [call EXCEPT ![r] = Idle]
    /\ UNCHANGED <<denied, loggedOut, standing>>

\* get_db commits, then the response is sent: it arrives or is lost.
CommitRefresh(r, arrives) ==
    /\ call[r].stage = "inserted"
    /\ call[r].op = "refresh"
    /\ denied' = denied \cup {call[r].token}
    /\ parent' = [parent EXCEPT ![call[r].minted] = call[r].token]
    /\ session' = [session EXCEPT ![call[r].minted] = session[call[r].token]]
    /\ Answered(call[r].minted, arrives)
    /\ call' = [call EXCEPT ![r] = Idle]
    /\ UNCHANGED <<loggedOut, standing>>

CommitLogout(r) ==
    /\ call[r].stage = "inserted"
    /\ call[r].op = "logout"
    /\ denied' = denied \cup {call[r].token}
    /\ loggedOut' = loggedOut \cup {call[r].token}
    /\ call' = [call EXCEPT ![r] = Idle]
    /\ UNCHANGED <<parent, session, held, standing>>

\* The process dies, the connection is lost or the commit fails: the
\* database rolls the transaction back and the client gets no token.
Abort(r) ==
    /\ call[r].stage # "idle"
    /\ call' = [call EXCEPT ![r] = Idle]
    /\ UNCHANGED <<denied, parent, session, held, loggedOut, standing>>

\* The account is disabled or enabled, the membership removed or restored.
StandingChanges ==
    /\ standing' = ~ standing
    /\ UNCHANGED <<denied, parent, session, held, loggedOut, call>>

Step(r) ==
    \/ Vet(r)
    \/ \E t \in Tokens \cup {None} : Insert(r, t)
    \/ InsertRefused(r)
    \/ \E arrives \in BOOLEAN : CommitRefresh(r, arrives)
    \/ CommitLogout(r)

Next ==
    \/ \E t \in Tokens, arrives \in BOOLEAN : Login(t, arrives)
    \/ \E r \in Requests, op \in Ops, t \in Tokens : ReadDenylist(r, op, t)
    \/ \E r \in Requests : Step(r) \/ Abort(r)
    \/ StandingChanges

Spec == Init /\ [][Next]_vars

\* A request keeps running, and the lock an INSERT waits for is granted in
\* turn, so a waiter is not passed over for ever.
FairSpec == Spec /\ \A r \in Requests : SF_vars(Step(r))

----------------------------------------------------------------------------
(* Properties.                                                             *)

\* Every variable has its type.
TypeOK ==
    /\ denied \subseteq Tokens
    /\ parent \in [Tokens -> Tokens \cup {None, Fresh}]
    /\ session \in [Tokens -> Tokens \cup {None}]
    /\ held \subseteq Tokens
    /\ loggedOut \subseteq Tokens
    /\ standing \in BOOLEAN
    /\ call \in [Requests -> Call]

\* A refresh token is exchanged for at most one pair, however many requests
\* present it at once and whichever of them die (auth_service.refresh:
\* the read of the denylist is stale by the time the row is inserted).
ExchangedOnce ==
    \A s, t \in Tokens : parent[s] = parent[t] /\ parent[s] \in Tokens => s = t

\* A login has at most one usable refresh token at any time: rotation moves
\* the session from the old token to the new one in a single commit, and a
\* request that dies leaves the old one usable instead of both or two.
OneLiveTokenPerLogin ==
    \A s, t \in Issued \ denied : session[s] = session[t] => s = t

\* Once logout has answered 204 for a token, no request gets a pair for it
\* any more, not even one that read the denylist before the logout did.
LogoutIsFinal ==
    [][\A t \in loggedOut, s \in Tokens : parent'[s] = t => parent[s] = t]_vars

\* Every refresh and logout is answered or dies, although their INSERTs
\* wait for each other's transactions.
RequestsEnd ==
    \A r \in Requests : call[r].stage # "idle" ~> call[r].stage = "idle"
=============================================================================
