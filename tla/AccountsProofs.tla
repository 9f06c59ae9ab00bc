--------------------------- MODULE AccountsProofs ----------------------------
(***************************************************************************)
(* Proofs about RefreshTokens, Onboarding, PasswordPolicy and              *)
(* AccountLockout, for every set of requests, visitors, passwords and      *)
(* processes.                                                              *)
(*                                                                         *)
(* Refresh tokens.  That a second exchange cannot commit rests on what the *)
(* transactions in flight hold.  RowsExclusive and MintsFresh state that:  *)
(* an uncommitted row is the only one for its jti and the jti is not       *)
(* denied, and a drawn jti belongs to one request and is not issued.       *)
(* Lineage says that a token with a child is denied and that a child stays *)
(* in its parent's session; then the commit of a refresh moves the         *)
(* session's one live token from the old jti to the new one.               *)
(*                                                                         *)
(* Onboarding.  Whether an account is active says nothing of requests that *)
(* are under way: RequestFacts says of each what it has established when   *)
(* it is where it is (the address is still free, the code it consumed is   *)
(* the committed one, the wizard row it read is still the row unless it is *)
(* marked stale), AccountFacts how far the account can be before its code  *)
(* is consumed, and Bounded counts the rows being created with those that  *)
(* are there.                                                              *)
(*                                                                         *)
(* Passwords.  Counts says that a counter of the scan is the length of the *)
(* longest row of characters that ends where the scan is; then it reaches  *)
(* the limit exactly where the first row that long ends.                   *)
(*                                                                         *)
(* Lockout.  The guesses of a window are those after which no lock was due *)
(* (FewOpen: fewer than the limit, each was in the bucket of the next),    *)
(* those whose lock was lost, and those whose lock is set or about to be   *)
(* (LocksFollow).  A client is past the check only when its earlier locks  *)
(* ran out (ChecksWait), so each has at most one of the last in a window.  *)
(***************************************************************************)
EXTENDS RefreshTokens, Onboarding, PasswordPolicy, AccountLockout, FiniteSetTheorems, TLAPS

-----------------------------------------------------------------------------
(* Refresh tokens *)

\* A request in flight works on an issued token.
CallsPresentIssued ==
    \A r \in Requests : call[r].stage # "idle" =>
        /\ call[r].op \in Ops
        /\ call[r].token \in Issued

\* An uncommitted row is the only one for its jti, which is not denied.
RowsExclusive ==
    \A r \in Requests : call[r].stage = "inserted" =>
        /\ call[r].token \notin denied
        /\ \A q \in Requests : call[q].stage = "inserted" /\ call[q].token = call[r].token
                                   => q = r

\* A jti drawn for a pair is new, and drawn by one request.
MintsFresh ==
    \A r \in Requests :
        /\ call[r].minted # None =>
               /\ call[r].minted \notin Issued
               /\ \A q \in Requests : call[q].minted = call[r].minted => q = r
        /\ call[r].stage = "inserted" /\ call[r].op = "refresh" => call[r].minted \in Tokens

\* Only issued tokens are held or denied, and tokens logged out are denied.
Known ==
    /\ held \subseteq Issued
    /\ denied \subseteq Issued
    /\ loggedOut \subseteq denied

\* A token with a child is denied, and the child is of its session.
ChildrenOfDenied ==
    \A s \in Tokens : parent[s] \in Tokens =>
        parent[s] \in denied /\ session[s] = session[parent[s]]

\* The session of an issued token is an issued token.
SessionsRooted == \A s \in Issued : session[s] \in Issued

Held == CallsPresentIssued /\ RowsExclusive /\ MintsFresh

Lineage == Known /\ ChildrenOfDenied /\ SessionsRooted

TokenInv == TypeOK /\ Held /\ Lineage /\ ExchangedOnce /\ OneLiveTokenPerLogin

----------------------------------------------------------------------------

LEMMA TokenInvStart == Init => TokenInv
  BY DistinctMarks
  DEF Init, TokenInv, TypeOK, Held, Lineage, CallsPresentIssued, RowsExclusive, MintsFresh,
      Known, ChildrenOfDenied, SessionsRooted, ExchangedOnce, OneLiveTokenPerLogin,
      Issued, Idle, Call, Ops

\* A login starts a session of its own with one live token.
LEMMA LoginStep ==
  ASSUME TokenInv, NEW t \in Tokens, NEW arrives \in BOOLEAN, Login(t, arrives)
  PROVE  TokenInv'
<1>1. TypeOK'
  BY DEF TokenInv, TypeOK, Login, Answered
<1>2. /\ parent'[t] = Fresh /\ session'[t] = t /\ parent[t] = None
      /\ \A s \in Tokens \ {t} : parent'[s] = parent[s] /\ session'[s] = session[s]
  BY DEF TokenInv, TypeOK, Login, Unused, Issued
<1>3. Issued' = Issued \cup {t}
  BY <1>2, DistinctMarks DEF Issued
<1>4. Held'
  BY <1>3 DEF TokenInv, Held, CallsPresentIssued, RowsExclusive, MintsFresh, Login, Unused,
              TypeOK, Call
<1>5. Known'
  BY <1>3 DEF TokenInv, Lineage, Known, Login, Answered
<1>6. \A s \in Tokens : session[s] = t => s \notin Issued
  BY <1>2 DEF TokenInv, Lineage, SessionsRooted, Issued
<1>7. ChildrenOfDenied'
  <2> SUFFICES ASSUME NEW s \in Tokens, parent'[s] \in Tokens
               PROVE  parent'[s] \in denied' /\ session'[s] = session'[parent'[s]]
    BY DEF ChildrenOfDenied
  <2>1. s # t /\ parent[s] = parent'[s] /\ session'[s] = session[s]
    BY <1>2, DistinctMarks
  <2>2. parent[s] \in denied /\ session[s] = session[parent[s]]
    BY <2>1 DEF TokenInv, Lineage, ChildrenOfDenied
  <2>3. parent[s] # t
    BY <2>2, <1>2 DEF TokenInv, Lineage, Known, Issued
  <2> QED
    BY <2>1, <2>2, <2>3, <1>2 DEF Login
<1>8. SessionsRooted'
  BY <1>2, <1>3 DEF TokenInv, Lineage, SessionsRooted, Issued
<1>9. ExchangedOnce'
  BY <1>2, DistinctMarks DEF TokenInv, ExchangedOnce
<1>10. OneLiveTokenPerLogin'
  BY <1>2, <1>3, <1>6 DEF TokenInv, OneLiveTokenPerLogin, Login, Issued
<1> QED
  BY <1>1, <1>4, <1>5, <1>7, <1>8, <1>9, <1>10 DEF TokenInv, Lineage

\* What concerns only tokens survives a step that leaves them alone.
LEMMA TokensUntouched ==
  ASSUME TokenInv, UNCHANGED <<denied, parent, session, held>>
  PROVE  /\ ChildrenOfDenied' /\ SessionsRooted'
         /\ ExchangedOnce' /\ OneLiveTokenPerLogin'
         /\ Issued' = Issued
  BY DEF TokenInv, Lineage, ChildrenOfDenied, SessionsRooted, ExchangedOnce,
         OneLiveTokenPerLogin, Issued

\* Steps of a request before its commit, and its death, leave tokens alone.
LEMMA TokenQuiet ==
  ASSUME TokenInv, NEW r \in Requests,
         \/ \E op \in Ops, t \in Tokens : ReadDenylist(r, op, t)
         \/ Vet(r)
         \/ \E t \in Tokens \cup {None} : Insert(r, t)
         \/ InsertRefused(r)
         \/ Abort(r)
  PROVE  TokenInv'
<1>0. Idle \in Call /\ Idle.stage = "idle" /\ Idle.minted = None /\ Idle.op = "none"
  BY DEF Idle, Call
<1>1. CASE \E op \in Ops, t \in Tokens : ReadDenylist(r, op, t)
  <2> PICK op \in Ops, t \in Tokens : ReadDenylist(r, op, t)
    BY <1>1
  <2>1. UNCHANGED <<denied, parent, session, held, standing>>
    BY DEF ReadDenylist
  <2>2. CASE t \in denied
    BY <2>1, <2>2, TokensUntouched
    DEF ReadDenylist, TokenInv, TypeOK, Held, Lineage, CallsPresentIssued, RowsExclusive,
        MintsFresh, Known
  <2>3. CASE t \notin denied
    <3> DEFINE c == [op |-> op, token |-> t, stage |-> "checked", minted |-> None]
    <3>1. /\ call' = [call EXCEPT ![r] = c] /\ UNCHANGED loggedOut
          /\ t \in Issued
      BY <2>3 DEF ReadDenylist, TokenInv, Lineage, Known
    <3>2. c \in Call /\ c.stage = "checked" /\ c.minted = None /\ c.op = op /\ c.token = t
      BY DEF Call
    <3>3. TypeOK'
      BY <2>1, <3>1, <3>2 DEF TokenInv, TypeOK
    <3>4. call'[r] = c /\ \A q \in Requests \ {r} : call'[q] = call[q]
      BY <3>1 DEF TokenInv, TypeOK
    <3> HIDE DEF c
    <3>5. Held'
      BY <2>1, <3>1, <3>2, <3>4, TokensUntouched
      DEF TokenInv, Held, CallsPresentIssued, RowsExclusive, MintsFresh
    <3> QED
      BY <2>1, <3>1, <3>3, <3>5, TokensUntouched DEF TokenInv, Lineage, Known
  <2> QED
    BY <2>2, <2>3
<1>2. CASE Vet(r)
  <2>1. UNCHANGED <<denied, parent, session, held, loggedOut, standing>>
    BY <1>2 DEF Vet
  <2>2. PICK c \in Call :
          /\ call' = [call EXCEPT ![r] = c]
          /\ c.stage \in {"idle", "vetted"}
          /\ c.minted \in {None, call[r].minted}
          /\ c.stage # "idle" => c.op = call[r].op /\ c.token = call[r].token
    <3>1. CASE standing
      <4> DEFINE c == [call[r] EXCEPT !.stage = "vetted"]
      <4>1. call' = [call EXCEPT ![r] = c]
        BY <1>2, <3>1 DEF Vet
      <4>2. /\ c \in Call /\ c.stage = "vetted" /\ c.op = call[r].op
            /\ c.token = call[r].token /\ c.minted = call[r].minted
        BY DEF TokenInv, TypeOK, Call
      <4> QED
        BY <4>1, <4>2
    <3>2. CASE ~ standing
      BY <1>0, <1>2, <3>2 DEF Vet
    <3> QED
      BY <3>1, <3>2
  <2>3. call'[r] = c /\ \A q \in Requests \ {r} : call'[q] = call[q]
    BY <2>2 DEF TokenInv, TypeOK
  <2>4. TypeOK'
    BY <2>1, <2>2 DEF TokenInv, TypeOK
  <2>5. Held'
    BY <1>2, <2>1, <2>2, <2>3, TokensUntouched
    DEF Vet, TokenInv, Held, CallsPresentIssued, RowsExclusive, MintsFresh
  <2> QED
    BY <2>1, <2>4, <2>5, TokensUntouched DEF TokenInv, Lineage, Known
<1>3. CASE \E t \in Tokens \cup {None} : Insert(r, t)
  <2> PICK t \in Tokens \cup {None} : Insert(r, t)
    BY <1>3
  <2>g. /\ call[r].token \notin denied
        /\ \A q \in Requests \ {r} :
               ~ (call[q].stage = "inserted" /\ call[q].token = call[r].token)
        /\ call[r].op = "refresh" => t \in Tokens
        /\ t # None => t \notin Issued /\ \A q \in Requests : call[q].minted # t
    BY DEF Insert, InsertWaits, Unused
  <2> DEFINE c == [call[r] EXCEPT !.stage = "inserted", !.minted = t]
  <2>1. UNCHANGED <<denied, parent, session, held, loggedOut, standing>>
    BY DEF Insert
  <2>2. call' = [call EXCEPT ![r] = c]
    BY DEF Insert
  <2>3. /\ c \in Call /\ c.stage = "inserted" /\ c.op = call[r].op
        /\ c.token = call[r].token /\ c.minted = t
    BY DEF TokenInv, TypeOK, Call
  <2>4. call'[r] = c /\ \A q \in Requests \ {r} : call'[q] = call[q]
    BY <2>2 DEF TokenInv, TypeOK
  <2>5. TypeOK'
    BY <2>1, <2>2, <2>3 DEF TokenInv, TypeOK
  <2> HIDE DEF c
  <2>6. CallsPresentIssued'
    BY <2>3, <2>4, <2>1, TokensUntouched
    DEF TokenInv, Held, CallsPresentIssued, Insert, AtInsert
  <2>7. RowsExclusive'
    BY <2>3, <2>4, <2>1, <2>g DEF TokenInv, Held, RowsExclusive
  <2>8. MintsFresh'
    BY <2>3, <2>4, <2>1, <2>g, TokensUntouched, DistinctMarks DEF TokenInv, Held, MintsFresh
  <2> QED
    BY <2>1, <2>5, <2>6, <2>7, <2>8, TokensUntouched DEF TokenInv, Held, Lineage, Known
<1>4. CASE InsertRefused(r) \/ Abort(r)
  <2>1. UNCHANGED <<denied, parent, session, held, standing>>
    BY <1>4 DEF InsertRefused, Abort
  <2>2. call' = [call EXCEPT ![r] = Idle]
    BY <1>4 DEF InsertRefused, Abort
  <2>3. loggedOut' \subseteq loggedOut \cup denied
    BY <1>4 DEF InsertRefused, Abort
  <2>4. call'[r] = Idle /\ \A q \in Requests \ {r} : call'[q] = call[q]
    BY <2>2 DEF TokenInv, TypeOK
  <2>5. TypeOK'
    BY <1>0, <2>1, <2>2, <2>3 DEF TokenInv, TypeOK
  <2>6. Held'
    BY <1>0, <2>1, <2>4, TokensUntouched
    DEF TokenInv, Held, CallsPresentIssued, RowsExclusive, MintsFresh
  <2> QED
    BY <2>1, <2>3, <2>5, <2>6, TokensUntouched DEF TokenInv, Lineage, Known
<1> QED
  BY <1>1, <1>2, <1>3, <1>4

\* A refresh commits: the session's live token moves from old to new.
LEMMA CommitRefreshStep ==
  ASSUME TokenInv, NEW r \in Requests, NEW arrives \in BOOLEAN, CommitRefresh(r, arrives)
  PROVE  TokenInv'
<1>1. PICK old \in Tokens, new \in Tokens :
        /\ call[r].token = old /\ call[r].minted = new
        /\ old \in Issued /\ old \notin denied
        /\ new \notin Issued /\ new # old
        /\ \A q \in Requests \ {r} :
               /\ call[q].minted # new
               /\ call[q].stage = "inserted" => call[q].token # old
  BY DistinctMarks
  DEF TokenInv, Held, CallsPresentIssued, RowsExclusive, MintsFresh, CommitRefresh, Issued
<1>2. /\ denied' = denied \cup {old}
      /\ parent' = [parent EXCEPT ![new] = old]
      /\ session' = [session EXCEPT ![new] = session[old]]
      /\ held' \subseteq held \cup {new}
      /\ call' = [call EXCEPT ![r] = Idle]
      /\ UNCHANGED <<loggedOut, standing>>
  BY <1>1 DEF CommitRefresh, Answered
<1>3. Idle \in Call /\ Idle.stage = "idle" /\ Idle.minted = None /\ Idle.op = "none"
  BY DEF Idle, Call
<1>4. TypeOK'
  BY <1>2, <1>3 DEF TokenInv, TypeOK
<1>5. /\ parent'[new] = old /\ session'[new] = session[old] /\ parent[new] = None
      /\ \A s \in Tokens \ {new} : parent'[s] = parent[s] /\ session'[s] = session[s]
      /\ call'[r] = Idle /\ \A q \in Requests \ {r} : call'[q] = call[q]
  BY <1>1, <1>2 DEF TokenInv, TypeOK, Issued
<1>6. Issued' = Issued \cup {new}
  BY <1>5, DistinctMarks DEF Issued
<1>7. Held'
  BY <1>1, <1>2, <1>3, <1>5, <1>6
  DEF TokenInv, Held, CallsPresentIssued, RowsExclusive, MintsFresh
<1>8. Known'
  BY <1>1, <1>2, <1>6 DEF TokenInv, Lineage, Known
<1>9. ChildrenOfDenied'
  <2> SUFFICES ASSUME NEW s \in Tokens, parent'[s] \in Tokens
               PROVE  parent'[s] \in denied' /\ session'[s] = session'[parent'[s]]
    BY DEF ChildrenOfDenied
  <2>1. CASE s = new
    BY <2>1, <1>1, <1>2, <1>5
  <2>2. CASE s # new
    <3>1. parent[s] \in denied /\ session[s] = session[parent[s]] /\ parent'[s] = parent[s]
      BY <2>2, <1>5 DEF TokenInv, Lineage, ChildrenOfDenied
    <3>2. parent[s] # new
      BY <3>1, <1>1 DEF TokenInv, Lineage, Known
    <3> QED
      BY <2>2, <3>1, <3>2, <1>2, <1>5
  <2> QED
    BY <2>1, <2>2
<1>10. SessionsRooted'
  BY <1>1, <1>5, <1>6 DEF TokenInv, Lineage, SessionsRooted, Issued
<1>11. \A s \in Tokens : parent[s] # old
  BY <1>1 DEF TokenInv, Lineage, ChildrenOfDenied
<1>12. ExchangedOnce'
  BY <1>5, <1>11 DEF TokenInv, ExchangedOnce
<1>13. \A s \in Issued \ denied : session[s] = session[old] => s = old
  BY <1>1 DEF TokenInv, OneLiveTokenPerLogin
<1>14. OneLiveTokenPerLogin'
  BY <1>1, <1>2, <1>5, <1>6, <1>13 DEF TokenInv, OneLiveTokenPerLogin, Issued
<1> QED
  BY <1>4, <1>7, <1>8, <1>9, <1>10, <1>12, <1>14 DEF TokenInv, Lineage

\* A logout commits: one more token is denied, none is issued.
LEMMA CommitLogoutStep ==
  ASSUME TokenInv, NEW r \in Requests, CommitLogout(r)
  PROVE  TokenInv'
<1>1. PICK old \in Tokens :
        /\ old = call[r].token /\ old \in Issued
        /\ \A q \in Requests \ {r} : call[q].stage = "inserted" => call[q].token # old
  BY DEF TokenInv, Held, CallsPresentIssued, RowsExclusive, CommitLogout, Issued
<1>2. /\ denied' = denied \cup {old}
      /\ loggedOut' = loggedOut \cup {old}
      /\ call' = [call EXCEPT ![r] = Idle]
      /\ UNCHANGED <<parent, session, held, standing>>
  BY <1>1 DEF CommitLogout
<1>3. Idle \in Call /\ Idle.stage = "idle" /\ Idle.minted = None /\ Idle.op = "none"
  BY DEF Idle, Call
<1>4. TypeOK'
  BY <1>2, <1>3 DEF TokenInv, TypeOK
<1>5. /\ Issued' = Issued
      /\ call'[r] = Idle /\ \A q \in Requests \ {r} : call'[q] = call[q]
  BY <1>2 DEF TokenInv, TypeOK, Issued
<1>6. Held'
  BY <1>1, <1>2, <1>3, <1>5 DEF TokenInv, Held, CallsPresentIssued, RowsExclusive, MintsFresh
<1>7. Lineage'
  BY <1>1, <1>2, <1>5 DEF TokenInv, Lineage, Known, ChildrenOfDenied, SessionsRooted
<1>8. ExchangedOnce' /\ OneLiveTokenPerLogin'
  BY <1>2, <1>5 DEF TokenInv, ExchangedOnce, OneLiveTokenPerLogin
<1> QED
  BY <1>4, <1>6, <1>7, <1>8 DEF TokenInv

LEMMA TokenInvNext == TokenInv /\ [Next]_vars => TokenInv'
<1> SUFFICES ASSUME TokenInv, [Next]_vars PROVE TokenInv'
  OBVIOUS
<1>1. CASE UNCHANGED vars
  BY <1>1
  DEF vars, TokenInv, TypeOK, Held, Lineage, CallsPresentIssued, RowsExclusive, MintsFresh,
      Known, ChildrenOfDenied, SessionsRooted, ExchangedOnce, OneLiveTokenPerLogin, Issued
<1>2. CASE StandingChanges
  BY <1>2
  DEF StandingChanges, TokenInv, TypeOK, Held, Lineage, CallsPresentIssued, RowsExclusive,
      MintsFresh, Known, ChildrenOfDenied, SessionsRooted, ExchangedOnce,
      OneLiveTokenPerLogin, Issued
<1>3. CASE \E t \in Tokens, arrives \in BOOLEAN : Login(t, arrives)
  BY <1>3, LoginStep
<1>4. ASSUME NEW r \in Requests,
             \/ \E op \in Ops, t \in Tokens : ReadDenylist(r, op, t)
             \/ Step(r) \/ Abort(r)
      PROVE  TokenInv'
  BY <1>4, TokenQuiet, CommitRefreshStep, CommitLogoutStep DEF Step
<1> QED
  BY <1>1, <1>2, <1>3, <1>4 DEF Next

\* The invariant holds throughout.
THEOREM TokensInvariant == Spec => []TokenInv
  BY TokenInvStart, TokenInvNext, PTL DEF Spec

\* Every variable has its type in every reachable state.
THEOREM TokenTypeCorrectness == Spec => []TypeOK
  BY TokensInvariant, PTL DEF TokenInv

\* auth_service.refresh: a refresh token is exchanged for at most one pair,
\* whatever requests race for it and whichever of them die.
THEOREM RotationIsExclusive == Spec => []ExchangedOnce
  BY TokensInvariant, PTL DEF TokenInv

\* A login has at most one usable refresh token at any time, so rotation
\* neither forks a session nor leaves an old token usable beside a new one.
THEOREM SessionsStayLinear == Spec => []OneLiveTokenPerLogin
  BY TokensInvariant, PTL DEF TokenInv

\* No step gives a pair for a token whose logout has been answered.
THEOREM LogoutHolds == Spec => LogoutIsFinal
<1>1. TokenInv /\ [Next]_vars
        => [\A t \in loggedOut, s \in Tokens : parent'[s] = t => parent[s] = t]_vars
  <2> SUFFICES ASSUME TokenInv, Next, NEW t \in loggedOut, NEW s \in Tokens,
                      parent'[s] = t, parent[s] # t
               PROVE  FALSE
    BY DEF vars
  <2>1. t \in denied /\ t \in Tokens
    BY DEF TokenInv, Lineage, Known, TypeOK
  <2>2. parent' # parent
    OBVIOUS
  <2>3. CASE \E u \in Tokens, arrives \in BOOLEAN : Login(u, arrives)
    BY <2>1, <2>3, DistinctMarks DEF Login, TokenInv, TypeOK
  <2>4. ASSUME NEW r \in Requests, NEW arrives \in BOOLEAN, CommitRefresh(r, arrives)
        PROVE  FALSE
    <3>1. call[r].token \notin denied
      BY <2>4 DEF CommitRefresh, TokenInv, Held, RowsExclusive
    <3> QED
      BY <2>1, <2>4, <3>1 DEF CommitRefresh, TokenInv, TypeOK
  <2> QED
    BY <2>2, <2>3, <2>4
    DEF Next, Step, ReadDenylist, Vet, Insert, InsertRefused, CommitLogout, Abort,
        StandingChanges
<1> QED
  BY <1>1, TokensInvariant, PTL DEF Spec, LogoutIsFinal

-----------------------------------------------------------------------------
(* Signing up *)

\* The rows and the requests.
WizardData == [profile : BOOLEAN, portal : BOOLEAN,
               supplier : 0..MaxSuppliers, submission : 0..MaxFirst]
WizardRow == [step : Steps, completed : SUBSET Steps, skipped : SUBSET Skippable,
              data : WizardData, profile : BOOLEAN, completedAt : BOOLEAN]
CodeRow == [id : 0..MaxCodes, expired : BOOLEAN, consumed : BOOLEAN, attempts : 0..MaxAttempts]
AccountRow == [via : Signups \cup {"none"}, active : BOOLEAN]
VisitRow == [op : Signups \cup WizardOps \cup {"none", "verify"},
             stage : {"idle", "read", "inserted", "mailed", "consumed", "skipping", "stepping"},
             guess : 0..MaxCodes, read : WizardRow, stale : BOOLEAN]

\* Every row and every request has its type, and so has what they count.
Typed ==
    /\ account \in AccountRow
    /\ code \in CodeRow
    /\ wizard \in WizardRow
    /\ visit \in [Visitors -> VisitRow]
    /\ suppliers \in Nat
    /\ submissions \in Nat
    /\ mailed \subseteq 1..MaxCodes
    /\ misses \in 0..MaxMisses
    /\ crossed \in BOOLEAN
    /\ proven \in BOOLEAN

\* What the wizard created and is creating stays within the bounds.
Bounded ==
    /\ suppliers + Stepping("supplier") <= MaxSuppliers
    /\ submissions + Stepping("submission") <= MaxFirst

\* Requests that read a wizard row.
Working(v) == visit[v].stage \in {"skipping", "stepping"}
\* Requests that hold the address.
Holding(v) == visit[v].stage \in {"inserted", "mailed"}

\* What a request has established when it is where it is.
RequestFacts(v) ==
    /\ Holding(v) => account.via = "none"
    /\ visit[v].stage = "mailed" => visit[v].guess \in mailed
    /\ visit[v].stage = "consumed" =>
          account.via = "start" /\ visit[v].guess = code.id
    /\ visit[v].op = "verify" => account.via = "start"
    /\ Working(v) => account.via = "start" /\ account.active
    /\ visit[v].stage = "skipping" => visit[v].op \in Skippable
    /\ visit[v].stage = "stepping" =>
          /\ visit[v].op \in {"profile", "portal", "supplier", "submission", "complete"}
          /\ visit[v].op = "complete" \/ ~ Refuses(visit[v].read, TargetOf(visit[v].op))
    /\ Working(v) /\ ~ visit[v].stale => visit[v].read = wizard

\* One request holds the address at a time.
OneHolder == \A v, w \in Visitors : Holding(v) /\ Holding(w) => v = w

\* How far the account is: nothing before it is committed, the code waits
\* until it is active, and an active one is past the email steps.
AccountFacts ==
    /\ account.via # "start" => wizard = NoWizard /\ suppliers = 0 /\ submissions = 0
    /\ account.via = "start" => code.id \in mailed
    /\ account.via = "start" /\ ~ account.active =>
          /\ wizard = Moved(NoWizard, "email_pending", {"start"})
          /\ suppliers = 0 /\ submissions = 0
          /\ code.attempts = 0
    /\ account.via = "start" /\ account.active =>
          /\ StepIndex(wizard.step) >= 4
          /\ proven /\ code.consumed

\* The inductive invariant.
OnboardInv ==
    /\ Typed
    /\ Bounded
    /\ \A v \in Visitors : RequestFacts(v)
    /\ OneHolder
    /\ AccountFacts
    /\ WizardCoherent

\* The place of every step (STEP_ORDER).
LEMMA StepNumbers ==
    /\ Steps = {"start", "email_pending", "email_verified", "profile", "plan",
                "portal", "supplier", "submission", "done"}
    /\ StepIndex("start") = 1
    /\ StepIndex("email_pending") = 2
    /\ StepIndex("email_verified") = 3
    /\ StepIndex("profile") = 4
    /\ StepIndex("plan") = 5
    /\ StepIndex("portal") = 6
    /\ StepIndex("supplier") = 7
    /\ StepIndex("submission") = 8
    /\ StepIndex("done") = 9
<1>1. DOMAIN StepOrder = 1..9
  BY DEF StepOrder
<1>2. /\ StepOrder[1] = "start" /\ StepOrder[2] = "email_pending"
      /\ StepOrder[3] = "email_verified" /\ StepOrder[4] = "profile"
      /\ StepOrder[5] = "plan" /\ StepOrder[6] = "portal"
      /\ StepOrder[7] = "supplier" /\ StepOrder[8] = "submission"
      /\ StepOrder[9] = "done"
  BY DEF StepOrder
<1>3. \A n \in 1..9 : n \in {1, 2, 3, 4, 5, 6, 7, 8, 9}
  OBVIOUS
<1>4. ASSUME NEW n \in 1..9
      PROVE  StepIndex(StepOrder[n]) = n
  <2>1. \A m \in 1..9 : StepOrder[m] = StepOrder[n] => m = n
    BY <1>2, <1>3, <1>4
  <2>2. \E m \in DOMAIN StepOrder : StepOrder[m] = StepOrder[n]
    BY <1>1, <1>4
  <2>3. /\ StepIndex(StepOrder[n]) \in DOMAIN StepOrder
        /\ StepOrder[StepIndex(StepOrder[n])] = StepOrder[n]
    BY <2>2, Zenon DEF StepIndex
  <2> QED
    BY <1>1, <2>1, <2>3
<1>5. Steps = {"start", "email_pending", "email_verified", "profile", "plan",
               "portal", "supplier", "submission", "done"}
  BY <1>1, <1>2, <1>3 DEF Steps
<1> QED
  BY <1>2, <1>4, <1>5

\* The bounds are numbers.
LEMMA OnboardBounds ==
    ASSUME OnboardingAssumption
    PROVE  /\ MaxCodes \in Nat /\ MaxMisses \in Nat /\ MaxSuppliers \in Nat /\ MaxFirst \in Nat
           /\ MaxAttempts \in Nat /\ 1 \in 0..MaxAttempts /\ 0 \in 0..MaxCodes
           /\ 0 \in 0..MaxAttempts
BY DEF OnboardingAssumption

\* Fewer requests create what op creates.
LEMMA SteppingShrinks ==
    ASSUME NEW op, OnboardingAssumption,
           \A v \in Visitors : (visit[v].op = op /\ visit[v].stage = "stepping")'
                                => visit[v].op = op /\ visit[v].stage = "stepping"
    PROVE  /\ Stepping(op) \in Nat /\ Stepping(op)' \in Nat
           /\ Stepping(op)' <= Stepping(op)
<1> DEFINE Doing == {v \in Visitors : visit[v].op = op /\ visit[v].stage = "stepping"}
<1>1. /\ IsFiniteSet(Doing) /\ IsFiniteSet(Doing')
      /\ Doing' \subseteq Doing
  BY FS_Subset DEF OnboardingAssumption
<1>2. Cardinality(Doing) \in Nat /\ Cardinality(Doing') \in Nat
  BY <1>1, FS_CardinalityType
<1>3. Cardinality(Doing') <= Cardinality(Doing)
  BY <1>1, FS_Subset
<1> QED
  BY <1>2, <1>3 DEF Stepping

\* A request that is over and a wizard not begun have their types.
LEMMA NoVisitTyped ==
    ASSUME OnboardingAssumption
    PROVE  NoVisit \in VisitRow /\ NoWizard \in WizardRow
<1>1. NoWizard.data \in WizardData
  BY DEF NoWizard, WizardData, OnboardingAssumption
<1>2. NoWizard \in WizardRow
  BY <1>1, StepNumbers DEF NoWizard, WizardRow
<1> QED
  BY <1>2 DEF NoVisit, Visit, VisitRow, OnboardingAssumption

\* A request that goes on without a wizard row, or ends.
LEMMA RequestMoves ==
    ASSUME OnboardInv, OnboardingAssumption, NEW v \in Visitors, NEW r \in VisitRow,
           visit' = [visit EXCEPT ![v] = r],
           UNCHANGED <<account, code, wizard, suppliers, submissions, proven, crossed>>,
           mailed \subseteq mailed', mailed' \subseteq 1..MaxCodes, misses' \in 0..MaxMisses,
           r.stage \notin {"stepping", "skipping"},
           r.stage \in {"inserted", "mailed"} =>
               account.via = "none" /\ \A w \in Visitors \ {v} : ~ Holding(w),
           r.stage = "mailed" => r.guess \in mailed',
           r.stage = "consumed" => account.via = "start" /\ r.guess = code.id,
           r.op = "verify" => account.via = "start"
    PROVE  OnboardInv'
<1> USE DEF OnboardInv
<1>1. Typed'
  BY DEF Typed
<1>2. Bounded'
  <2>1. ASSUME NEW op
        PROVE  /\ Stepping(op) \in Nat /\ Stepping(op)' \in Nat
               /\ Stepping(op)' <= Stepping(op)
    BY SteppingShrinks DEF Typed
  <2> QED
    BY <2>1 DEF Bounded, Typed, OnboardingAssumption
<1>3. ASSUME NEW w \in Visitors
      PROVE  RequestFacts(w)'
  <2>1. CASE w = v
    BY <2>1 DEF RequestFacts, Holding, Working, Typed
  <2>2. CASE w # v
    <3>1. visit'[w] = visit[w]
      BY <2>2 DEF Typed
    <3>2. RequestFacts(w)
      OBVIOUS
    <3> QED
      BY <3>1, <3>2 DEF RequestFacts, Holding, Working, Refuses
  <2> QED
    BY <2>1, <2>2
<1>4. OneHolder'
  BY DEF OneHolder, Holding, Typed
<1>5. AccountFacts'
  BY DEF AccountFacts
<1>6. WizardCoherent'
  BY DEF WizardCoherent
<1> QED
  BY <1>1, <1>2, <1>3, <1>4, <1>5, <1>6

\* Requests up to the commit keep the invariant, and so does one that ends.
LEMMA QuietSteps ==
    ASSUME OnboardInv, OnboardingAssumption, NEW v \in Visitors,
           \/ \E op \in Signups : SignupReads(v, op)
           \/ \E guess \in mailed \cup {0} : VerifyReads(v, guess)
           \/ SignupInserts(v)
           \/ StartMails(v)
           \/ VerifyMisses(v)
           \/ VerifyConsumes(v)
           \/ VisitAborts(v)
    PROVE  OnboardInv'
<1>0. /\ NoVisit \in VisitRow /\ NoWizard \in WizardRow
      /\ NoVisit.stage = "idle" /\ NoVisit.op = "none"
  BY NoVisitTyped DEF NoVisit, Visit
<1>1. ASSUME NEW op \in Signups, SignupReads(v, op) PROVE OnboardInv'
  <2>1. Visit(op, "read", 0) \in VisitRow
    BY <1>0 DEF Visit, VisitRow, OnboardingAssumption
  <2> QED
    BY <1>1, <2>1, RequestMoves DEF SignupReads, OnboardInv, Typed, Visit, Signups
<1>2. ASSUME NEW guess \in mailed \cup {0}, VerifyReads(v, guess) PROVE OnboardInv'
  <2>1. Visit("verify", "read", guess) \in VisitRow
    <3>1. guess \in 0..MaxCodes
      BY DEF OnboardingAssumption, OnboardInv, Typed
    <3> QED
      BY <1>0, <3>1 DEF Visit, VisitRow
  <2> QED
    BY <1>2, <2>1, RequestMoves DEF VerifyReads, TokenHolder, OnboardInv, Typed, Visit
<1>3. CASE SignupInserts(v)
  <2>1. visit[v] \in VisitRow
    BY DEF OnboardInv, Typed
  <2>2. CASE EmailTaken
    BY <1>0, <1>3, <2>2, RequestMoves DEF SignupInserts, OnboardInv, Typed
  <2>3. CASE ~ EmailTaken
    <3> DEFINE r == [visit[v] EXCEPT !.stage = "inserted"]
    <3>1. r \in VisitRow /\ r.stage = "inserted" /\ r.op = visit[v].op /\ r.op \in Signups
      BY <1>3, <2>1 DEF VisitRow, SignupInserts
    <3>2. visit' = [visit EXCEPT ![v] = r]
      BY <1>3, <2>3 DEF SignupInserts, OnboardInv, Typed
    <3> HIDE DEF r
    <3> QED
      BY <1>3, <2>3, <3>1, <3>2, RequestMoves
      DEF SignupInserts, EmailTaken, Holding, OnboardInv, Typed, Signups
  <2> QED
    BY <2>2, <2>3
<1>4. CASE StartMails(v)
  <2>1. IsFiniteSet(mailed) /\ Cardinality(mailed) \in Nat
    <3>1. IsFiniteSet(1..MaxCodes)
      <4>1. MaxCodes \in Int
        BY OnboardBounds
      <4> QED
        BY <4>1, FS_Interval
    <3>2. mailed \subseteq 1..MaxCodes
      BY DEF OnboardInv, Typed
    <3> QED
      BY <3>1, <3>2, FS_Subset, FS_CardinalityType
  <2> DEFINE id == Cardinality(mailed) + 1
  <2>2. id \in 1..MaxCodes
    BY <1>4, <2>1 DEF StartMails, OnboardingAssumption
  <2>3. Visit("start", "mailed", id) \in VisitRow
    BY <1>0, <2>2 DEF Visit, VisitRow, Signups, OnboardingAssumption
  <2>4. mailed' = mailed \cup {id} /\ visit' = [visit EXCEPT ![v] = Visit("start", "mailed", id)]
    BY <1>4 DEF StartMails
  <2>5. RequestFacts(v) /\ Holding(v)
    BY <1>4 DEF OnboardInv, StartMails, Holding
  <2> HIDE DEF id
  <2>6. \A w \in Visitors \ {v} : ~ Holding(w)
    BY <2>5 DEF OnboardInv, OneHolder
  <2>7. account.via = "none"
    BY <2>5 DEF RequestFacts
  <2>8. /\ UNCHANGED <<account, code, wizard, suppliers, submissions, proven, crossed>>
        /\ mailed \subseteq mailed' /\ mailed' \subseteq 1..MaxCodes /\ misses' \in 0..MaxMisses
    BY <1>4, <2>2, <2>4 DEF StartMails, OnboardInv, Typed
  <2> QED
    BY <2>3, <2>4, <2>6, <2>7, <2>8, RequestMoves DEF Visit
<1>5. CASE VerifyMisses(v)
  <2>1. misses' \in 0..MaxMisses
    BY <1>5 DEF VerifyMisses, OnboardInv, Typed, OnboardingAssumption
  <2> QED
    BY <1>0, <1>5, <2>1, RequestMoves DEF VerifyMisses, OnboardInv, Typed
<1>6. CASE VerifyConsumes(v)
  <2>1. visit[v] \in VisitRow /\ RequestFacts(v)
    BY DEF OnboardInv, Typed
  <2> DEFINE r == [visit[v] EXCEPT !.stage = "consumed"]
  <2>2. r \in VisitRow /\ r.stage = "consumed" /\ r.op = "verify" /\ r.guess = code.id
    BY <1>6, <2>1 DEF VisitRow, VerifyConsumes, CodeMatches
  <2>3. visit' = [visit EXCEPT ![v] = r]
    BY <1>6 DEF VerifyConsumes, OnboardInv, Typed
  <2>4. account.via = "start"
    BY <1>6, <2>1 DEF VerifyConsumes, RequestFacts
  <2> HIDE DEF r
  <2> QED
    BY <1>6, <2>2, <2>3, <2>4, RequestMoves DEF VerifyConsumes, OnboardInv, Typed
<1>7. CASE VisitAborts(v)
  BY <1>0, <1>7, RequestMoves DEF VisitAborts, OnboardInv, Typed
<1> QED
  BY <1>1, <1>2, <1>3, <1>4, <1>5, <1>6, <1>7

\* So does the commit of a signup, which holds the address alone.
LEMMA CommitSteps ==
    ASSUME OnboardInv, OnboardingAssumption, NEW v \in Visitors,
           StartCommits(v) \/ RegisterCommits(v)
    PROVE  OnboardInv'
<1> USE DEF OnboardInv
<1>0. /\ NoVisit \in VisitRow /\ NoWizard \in WizardRow
      /\ NoVisit.stage = "idle" /\ NoVisit.op = "none"
  BY NoVisitTyped DEF NoVisit, Visit
<1>1. /\ account.via = "none" /\ Holding(v)
      /\ \A w \in Visitors \ {v} : ~ Holding(w)
  <2>1. Holding(v) /\ RequestFacts(v)
    BY DEF StartCommits, RegisterCommits, Holding
  <2> QED
    BY <2>1 DEF RequestFacts, OneHolder
<1>2. wizard = NoWizard /\ suppliers = 0 /\ submissions = 0
  BY <1>1 DEF AccountFacts
<1>3. visit' = [visit EXCEPT ![v] = NoVisit]
  BY DEF StartCommits, RegisterCommits
<1>4. \A w \in Visitors : visit'[w] = IF w = v THEN NoVisit ELSE visit[w]
  BY <1>3 DEF Typed
<1>5. \A w \in Visitors : /\ ~ Working(w) /\ visit[w].op # "verify"
                          /\ visit[w].stage # "consumed"
  BY <1>1 DEF RequestFacts
<1>6. Typed'
  <2>1. CASE StartCommits(v)
    <3>1. visit[v].guess \in 0..MaxCodes
      BY DEF Typed, VisitRow
    <3>2. code' \in CodeRow
      BY <2>1, <3>1, OnboardBounds DEF StartCommits, CodeRow, NoCode
    <3>3. account' \in AccountRow
      BY <2>1 DEF StartCommits, AccountRow, Signups
    <3>4. wizard' \in WizardRow
      BY <2>1, <1>0, StepNumbers DEF StartCommits, WizardRow, Moved
    <3>5. visit' \in [Visitors -> VisitRow]
      BY <1>0, <1>3 DEF Typed
    <3> QED
      BY <2>1, <3>2, <3>3, <3>4, <3>5 DEF StartCommits, Typed
  <2>2. CASE RegisterCommits(v)
    <3>3. account' \in AccountRow
      BY <2>2 DEF RegisterCommits, AccountRow, Signups
    <3>5. visit' \in [Visitors -> VisitRow]
      BY <1>0, <1>3 DEF Typed
    <3> QED
      BY <2>2, <3>3, <3>5 DEF RegisterCommits, Typed
  <2> QED
    BY <2>1, <2>2
<1>7. Bounded'
  <2>1. ASSUME NEW op
        PROVE  /\ Stepping(op) \in Nat /\ Stepping(op)' \in Nat
               /\ Stepping(op)' <= Stepping(op)
    BY <1>0, <1>4, SteppingShrinks
  <2>2. UNCHANGED <<suppliers, submissions>>
    BY DEF StartCommits, RegisterCommits
  <2> QED
    BY <2>1, <2>2 DEF Bounded, Typed, OnboardingAssumption
<1>8. ASSUME NEW w \in Visitors
      PROVE  RequestFacts(w)'
  <2>1. CASE w = v
    BY <1>0, <1>4, <2>1 DEF RequestFacts, Holding, Working
  <2>2. CASE w # v
    <3>1. visit'[w] = visit[w]
      BY <1>4, <2>2
    <3> QED
      BY <1>1, <1>5, <2>2, <3>1 DEF RequestFacts, Holding, Working
  <2> QED
    BY <2>1, <2>2
<1>9. OneHolder'
  BY <1>0, <1>4 DEF OneHolder, Holding
<1>10. AccountFacts'
  <2>1. CASE StartCommits(v)
    <3>1. /\ account'.via = "start" /\ account'.active = FALSE
          /\ code'.id = visit[v].guess /\ code'.attempts = 0
          /\ wizard' = Moved(NoWizard, "email_pending", {"start"})
          /\ UNCHANGED <<suppliers, submissions, mailed>>
      BY <2>1 DEF StartCommits, NoCode
    <3>2. visit[v].guess \in mailed
      BY <2>1 DEF StartCommits, RequestFacts
    <3> QED
      BY <1>2, <3>1, <3>2 DEF AccountFacts
  <2>2. CASE RegisterCommits(v)
    BY <1>2, <2>2 DEF RegisterCommits, AccountFacts
  <2> QED
    BY <2>1, <2>2
<1>11. WizardCoherent'
  <2>1. CASE StartCommits(v)
    BY <1>2, <2>1 DEF StartCommits, WizardCoherent, Moved, NoWizard
  <2>2. CASE RegisterCommits(v)
    BY <2>2 DEF RegisterCommits, WizardCoherent
  <2> QED
    BY <2>1, <2>2
<1> QED
  BY <1>6, <1>7, <1>8, <1>9, <1>10, <1>11

\* So does a verification: a wizard past the email steps refuses it, so the
\* account was not active.
LEMMA VerifyStep ==
    ASSUME OnboardInv, OnboardingAssumption, NEW v \in Visitors, VerifyCommits(v)
    PROVE  OnboardInv'
<1> USE DEF OnboardInv
<1>0. /\ NoVisit \in VisitRow /\ NoWizard \in WizardRow
      /\ NoVisit.stage = "idle" /\ NoVisit.op = "none"
  BY NoVisitTyped DEF NoVisit, Visit
<1>1. CASE Refuses(wizard, "email_verified")
  BY <1>0, <1>1, RequestMoves DEF VerifyCommits, Typed
<1>2. CASE ~ Refuses(wizard, "email_verified")
  <2>1. account.via = "start" /\ visit[v].guess = code.id /\ code.id \in mailed
    BY DEF VerifyCommits, RequestFacts, AccountFacts
  <2>2. ~ account.active
    BY <1>2, <2>1, StepNumbers DEF AccountFacts, Refuses, Typed, WizardRow
  <2>3. /\ wizard = Moved(NoWizard, "email_pending", {"start"})
        /\ suppliers = 0 /\ submissions = 0 /\ code.attempts = 0
    BY <2>1, <2>2 DEF AccountFacts
  <2>4. \A w \in Visitors : ~ Working(w) /\ ~ Holding(w)
    BY <2>1, <2>2 DEF RequestFacts
  <2>5. \A w \in Visitors : visit'[w] = IF w = v THEN NoVisit ELSE visit[w]
    BY DEF VerifyCommits, Typed
  <2>6. account'.via = "start" /\ account'.active = TRUE /\ account' \in AccountRow
    BY <1>2, <2>1 DEF VerifyCommits, Typed, AccountRow
  <2>7. /\ code' \in CodeRow /\ code'.id = code.id /\ code'.consumed = TRUE
    <3>1. code' = [id |-> code.id, expired |-> code.expired, consumed |-> TRUE, attempts |-> 1]
      BY <1>2, <2>3 DEF VerifyCommits
    <3> QED
      BY <3>1, OnboardBounds DEF Typed, CodeRow
  <2>8. /\ wizard'.step = "profile" /\ "profile" \in wizard'.completed
        /\ wizard'.data = wizard.data /\ wizard' \in WizardRow
    BY <1>2, StepNumbers DEF VerifyCommits, Moved, Typed, WizardRow
  <2>9. /\ UNCHANGED <<suppliers, submissions, mailed, misses, wizardOps, crossed>>
        /\ proven' = TRUE
    BY <1>2, <2>1 DEF VerifyCommits, Typed
  <2>10. Typed'
    <3>1. visit' \in [Visitors -> VisitRow]
      BY <1>0 DEF VerifyCommits, Typed
    <3> QED
      BY <2>6, <2>7, <2>8, <2>9, <3>1 DEF Typed
  <2>11. Bounded'
    <3>1. ASSUME NEW op
          PROVE  /\ Stepping(op) \in Nat /\ Stepping(op)' \in Nat
                 /\ Stepping(op)' <= Stepping(op)
      BY <1>0, <2>5, SteppingShrinks
    <3> QED
      BY <2>9, <3>1 DEF Bounded, Typed, OnboardingAssumption
  <2>12. ASSUME NEW w \in Visitors
         PROVE  RequestFacts(w)'
    <3>1. CASE w = v
      BY <1>0, <2>5, <3>1 DEF RequestFacts, Holding, Working
    <3>2. CASE w # v
      <4>1. visit'[w] = visit[w] /\ RequestFacts(w)
        BY <2>5, <3>2
      <4> QED
        BY <2>1, <2>4, <2>6, <2>7, <2>9, <3>2, <4>1 DEF RequestFacts, Holding, Working
    <3> QED
      BY <3>1, <3>2
  <2>13. OneHolder'
    BY <1>0, <2>4, <2>5 DEF OneHolder, Holding
  <2>14. AccountFacts'
    BY <2>1, <2>6, <2>7, <2>8, <2>9, StepNumbers DEF AccountFacts
  <2>15. WizardCoherent'
    BY <2>3, <2>8, <2>9 DEF WizardCoherent, Moved, NoWizard
  <2> QED
    BY <2>10, <2>11, <2>12, <2>13, <2>14, <2>15
<1> QED
  BY <1>1, <1>2

\* So does the expiry of the code.
LEMMA ExpiryStep ==
    ASSUME OnboardInv, CodeExpires
    PROVE  OnboardInv'
<1> USE DEF OnboardInv
<1>1. /\ code' \in CodeRow /\ code'.id = code.id /\ code'.attempts = code.attempts
      /\ code'.consumed = code.consumed
  BY DEF CodeExpires, Typed, CodeRow
<1>2. UNCHANGED <<account, wizard, suppliers, submissions, visit, mailed, proven,
                  misses, wizardOps, crossed>>
  BY DEF CodeExpires
<1>3. Typed'
  BY <1>1, <1>2 DEF Typed
<1>4. Bounded' /\ OneHolder' /\ WizardCoherent'
  BY <1>2 DEF Bounded, Stepping, OneHolder, Holding, WizardCoherent
<1>5. \A w \in Visitors : RequestFacts(w)'
  BY <1>1, <1>2 DEF RequestFacts, Holding, Working, Refuses
<1>6. AccountFacts'
  BY <1>1, <1>2 DEF AccountFacts
<1> QED
  BY <1>3, <1>4, <1>5, <1>6

\* One request more may create what op creates.
LEMMA SteppingGrows ==
    ASSUME NEW op, OnboardingAssumption, NEW v \in Visitors,
           \A w \in Visitors \ {v} : (visit[w].op = op /\ visit[w].stage = "stepping")'
                                => visit[w].op = op /\ visit[w].stage = "stepping"
    PROVE  /\ Stepping(op) \in Nat /\ Stepping(op)' \in Nat
           /\ Stepping(op)' <= Stepping(op) + 1
<1> DEFINE Doing == {w \in Visitors : visit[w].op = op /\ visit[w].stage = "stepping"}
<1>1. /\ IsFiniteSet(Doing) /\ IsFiniteSet(Doing') /\ IsFiniteSet(Doing \cup {v})
      /\ Doing' \subseteq Doing \cup {v}
  <2>1. IsFiniteSet(Doing) /\ IsFiniteSet(Doing')
    BY FS_Subset DEF OnboardingAssumption
  <2>2. IsFiniteSet(Doing \cup {v})
    BY <2>1, FS_AddElement
  <2> QED
    BY <2>1, <2>2
<1>2. Cardinality(Doing) \in Nat /\ Cardinality(Doing') \in Nat
  BY <1>1, FS_CardinalityType
<1>3. Cardinality(Doing') <= Cardinality(Doing \cup {v})
  BY <1>1, FS_Subset
<1>4. Cardinality(Doing \cup {v}) \in {Cardinality(Doing), Cardinality(Doing) + 1}
  BY <1>1, FS_AddElement
<1> QED
  BY <1>2, <1>3, <1>4 DEF Stepping

\* A request that created its row creates no other.
LEMMA SteppingEnds ==
    ASSUME NEW op, OnboardingAssumption, NEW v \in Visitors,
           visit[v].op = op, visit[v].stage = "stepping",
           \A w \in Visitors : (visit[w].op = op /\ visit[w].stage = "stepping")'
                                => w # v /\ visit[w].op = op /\ visit[w].stage = "stepping"
    PROVE  /\ Stepping(op) \in Nat /\ Stepping(op)' \in Nat
           /\ Stepping(op)' + 1 <= Stepping(op)
<1> DEFINE Doing == {w \in Visitors : visit[w].op = op /\ visit[w].stage = "stepping"}
<1>1. /\ IsFiniteSet(Doing) /\ IsFiniteSet(Doing') /\ IsFiniteSet(Doing \ {v})
      /\ v \in Doing /\ Doing' \subseteq Doing \ {v}
  <2>1. IsFiniteSet(Doing) /\ IsFiniteSet(Doing')
    BY FS_Subset DEF OnboardingAssumption
  <2>2. IsFiniteSet(Doing \ {v})
    BY <2>1, FS_RemoveElement
  <2> QED
    BY <2>1, <2>2
<1>2. Cardinality(Doing) \in Nat /\ Cardinality(Doing') \in Nat
  BY <1>1, FS_CardinalityType
<1>3. Cardinality(Doing') <= Cardinality(Doing \ {v})
  BY <1>1, FS_Subset
<1>4. Cardinality(Doing \ {v}) = Cardinality(Doing) - 1
  BY <1>1, FS_RemoveElement
<1> QED
  BY <1>2, <1>3, <1>4 DEF Stepping

\* So does a request that reads the wizard row.
LEMMA ReadStep ==
    ASSUME OnboardInv, OnboardingAssumption, NEW v \in Visitors,
           NEW op \in WizardOps, NEW skip \in BOOLEAN, WizardReads(v, op, skip)
    PROVE  OnboardInv'
<1> USE DEF OnboardInv
<1> DEFINE r == [op |-> op, stage |-> IF skip THEN "skipping" ELSE "stepping",
                 guess |-> 0, read |-> wizard, stale |-> FALSE]
<1>1. /\ r \in VisitRow /\ r.op = op /\ r.read = wizard /\ r.stale = FALSE
      /\ r.stage = IF skip THEN "skipping" ELSE "stepping"
  BY OnboardBounds DEF VisitRow, Typed
<1>2. visit' = [visit EXCEPT ![v] = r]
  BY DEF WizardReads
<1>3. UNCHANGED <<account, code, wizard, suppliers, submissions, mailed, proven, misses, crossed>>
  BY DEF WizardReads
<1>4. account.active /\ account.via = "start" /\ ~ Declines(wizard, op, skip)
  BY DEF WizardReads, Member
<1>5. /\ skip => op \in Skippable
      /\ ~ skip => op \in {"profile", "portal", "supplier", "submission", "complete"}
      /\ op = "supplier" /\ ~ skip => suppliers + Stepping(op) < MaxSuppliers
      /\ op = "submission" /\ ~ skip => submissions + Stepping(op) < MaxFirst
  BY DEF WizardReads
<1> HIDE DEF r
<1>6. \A w \in Visitors : visit'[w] = IF w = v THEN r ELSE visit[w]
  BY <1>2 DEF Typed
<1>7. Typed'
  BY <1>1, <1>2, <1>3 DEF Typed
<1>8. Bounded'
  <2>1. ASSUME NEW o, o # op \/ skip
        PROVE  /\ Stepping(o) \in Nat /\ Stepping(o)' \in Nat
               /\ Stepping(o)' <= Stepping(o)
    BY <1>1, <1>6, <2>1, SteppingShrinks
  <2>2. /\ Stepping(op) \in Nat /\ Stepping(op)' \in Nat
        /\ Stepping(op)' <= Stepping(op) + 1
    BY <1>6, SteppingGrows
  <2>3. suppliers' + Stepping("supplier")' <= MaxSuppliers
    <3>1. CASE op = "supplier" /\ ~ skip
      BY <1>3, <1>5, <2>2, <3>1, OnboardBounds DEF Typed
    <3>2. CASE ~ (op = "supplier" /\ ~ skip)
      BY <1>3, <2>1, <3>2, OnboardBounds DEF Typed, Bounded
    <3> QED
      BY <3>1, <3>2
  <2>4. submissions' + Stepping("submission")' <= MaxFirst
    <3>1. CASE op = "submission" /\ ~ skip
      BY <1>3, <1>5, <2>2, <3>1, OnboardBounds DEF Typed
    <3>2. CASE ~ (op = "submission" /\ ~ skip)
      BY <1>3, <2>1, <3>2, OnboardBounds DEF Typed, Bounded
    <3> QED
      BY <3>1, <3>2
  <2> QED
    BY <2>3, <2>4 DEF Bounded
<1>9. ASSUME NEW w \in Visitors
      PROVE  RequestFacts(w)'
  <2>1. CASE w = v
    <3>1. /\ visit'[w].op = op /\ visit'[w].read = wizard
          /\ visit'[w].stage = IF skip THEN "skipping" ELSE "stepping"
      BY <1>1, <1>6, <2>1
    <3>2. ~ skip => op = "complete" \/ ~ Refuses(wizard, TargetOf(op))
      BY <1>4, <1>5 DEF Declines
    <3>3. op # "verify"
      BY DEF WizardOps, Skippable
    <3> QED
      BY <1>3, <1>4, <1>5, <3>1, <3>2, <3>3 DEF RequestFacts, Holding, Working, Refuses, TargetOf
  <2>2. CASE w # v
    <3>1. visit'[w] = visit[w] /\ RequestFacts(w)
      BY <1>6, <2>2
    <3> QED
      BY <1>3, <3>1 DEF RequestFacts, Holding, Working, Refuses
  <2> QED
    BY <2>1, <2>2
<1>10. OneHolder'
  BY <1>1, <1>6 DEF OneHolder, Holding
<1>11. AccountFacts' /\ WizardCoherent'
  BY <1>3 DEF AccountFacts, WizardCoherent
<1> QED
  BY <1>7, <1>8, <1>9, <1>10, <1>11

\* What a request that writes the wizard row leaves of the invariant to show.
LEMMA WizardWritten ==
    ASSUME OnboardInv, OnboardingAssumption, NEW v \in Visitors, WritesWizard(v),
           account.via = "start", account.active,
           wizard' \in WizardRow, StepIndex(wizard'.step) >= 4,
           UNCHANGED <<account, code, mailed, proven, misses>>,
           suppliers' \in Nat, submissions' \in Nat, crossed' \in BOOLEAN,
           Bounded', WizardCoherent'
    PROVE  OnboardInv'
<1> USE DEF OnboardInv
<1>0. /\ NoVisit \in VisitRow /\ NoVisit.stage = "idle" /\ NoVisit.op = "none"
  BY NoVisitTyped DEF NoVisit, Visit
<1>1. /\ visit'[v] = NoVisit
      /\ \A w \in Visitors \ {v} :
            visit'[w] = [visit[w] EXCEPT !.stale = Working(w)]
  BY DEF WritesWizard, Working
<1>2. ASSUME NEW w \in Visitors \ {v}
      PROVE  /\ visit'[w] \in VisitRow /\ visit'[w].op = visit[w].op
             /\ visit'[w].stage = visit[w].stage /\ visit'[w].guess = visit[w].guess
             /\ visit'[w].read = visit[w].read /\ visit'[w].stale = Working(w)
  <2>1. visit[w] \in VisitRow /\ Working(w) \in BOOLEAN
    BY DEF Typed, Working
  <2> QED
    BY <1>1, <2>1 DEF VisitRow
<1>3. visit' \in [Visitors -> VisitRow]
  BY <1>0, <1>1, <1>2 DEF WritesWizard
<1>4. Typed'
  BY <1>3 DEF Typed
<1>5. ASSUME NEW w \in Visitors
      PROVE  RequestFacts(w)'
  <2>1. CASE w = v
    BY <1>0, <1>1, <2>1 DEF RequestFacts, Holding, Working
  <2>2. CASE w # v
    <3>1. RequestFacts(w)
      OBVIOUS
    <3>2. Working(w)' => visit'[w].stale
      BY <1>2, <2>2 DEF Working
    <3> QED
      BY <1>2, <2>2, <3>1, <3>2 DEF RequestFacts, Holding, Working, Refuses
  <2> QED
    BY <2>1, <2>2
<1>6. OneHolder'
  <2>1. ASSUME NEW w \in Visitors PROVE Holding(w)' => Holding(w)
    BY <1>0, <1>1, <1>2 DEF Holding
  <2> QED
    BY <2>1 DEF OneHolder
<1>7. AccountFacts'
  BY DEF AccountFacts
<1> QED
  BY <1>4, <1>5, <1>6, <1>7

\* It ends, and the others are where they were.
LEMMA OthersKeep ==
    ASSUME OnboardInv, NEW v \in Visitors, WritesWizard(v)
    PROVE  /\ visit'[v].stage = "idle"
           /\ \A w \in Visitors \ {v} :
                 visit'[w].op = visit[w].op /\ visit'[w].stage = visit[w].stage
<1>1. ASSUME NEW w \in Visitors, w # v
      PROVE  visit'[w].op = visit[w].op /\ visit'[w].stage = visit[w].stage
  <2>1. visit[w] \in VisitRow /\ visit'[w] = [visit[w] EXCEPT !.stale = Working(w)]
    BY <1>1 DEF OnboardInv, Typed, WritesWizard, Working
  <2> QED
    BY <2>1 DEF VisitRow
<1>2. visit'[v] = NoVisit
  BY DEF WritesWizard
<1> QED
  BY <1>1, <1>2 DEF NoVisit, Visit

\* The steps a request that writes the wizard ends with: past the email ones.
LEMMA TargetPast ==
    ASSUME NEW op \in {"profile", "portal", "supplier", "submission", "complete"}
    PROVE  /\ TargetOf(op) \in Steps
           /\ StepIndex(TargetOf(op)) >= 4
           /\ op = "complete" <=> TargetOf(op) = "done"
BY StepNumbers DEF TargetOf

\* A skip goes forward, to the step after the skipped one (skip_step).
LEMMA SkipPast ==
    ASSUME NEW row \in WizardRow, NEW op \in Skippable
    PROVE  /\ SkipTo(row, op) \in Steps
           /\ StepIndex(SkipTo(row, op)) >= StepIndex(row.step)
           /\ SkipTo(row, op) # row.step =>
                /\ StepIndex(SkipTo(row, op)) >= 4
                /\ StepOrder[StepIndex(SkipTo(row, op)) - 1] = op
                /\ SkipTo(row, op) = "done" => op = "submission"
<1>1. /\ StepOrder[5] = "plan" /\ StepOrder[6] = "portal"
      /\ StepOrder[7] = "supplier" /\ StepOrder[8] = "submission"
      /\ StepOrder[9] = "done"
  BY DEF StepOrder
<1>2. row.step \in Steps
  BY DEF WizardRow
<1>3. StepIndex(row.step) \in Nat
  BY <1>2, StepNumbers
<1>4. CASE op = "plan"
  BY <1>1, <1>2, <1>3, <1>4, StepNumbers DEF SkipTo
<1>5. CASE op = "portal"
  BY <1>1, <1>2, <1>3, <1>5, StepNumbers DEF SkipTo
<1>6. CASE op = "supplier"
  BY <1>1, <1>2, <1>3, <1>6, StepNumbers DEF SkipTo
<1>7. CASE op = "submission"
  BY <1>1, <1>2, <1>3, <1>7, StepNumbers DEF SkipTo
<1> QED
  BY <1>4, <1>5, <1>6, <1>7 DEF Skippable

\* A skipped step keeps the invariant.
LEMMA SkipStep ==
    ASSUME OnboardInv, OnboardingAssumption, NEW v \in Visitors, SkipCommits(v)
    PROVE  OnboardInv'
<1> USE DEF OnboardInv
<1> DEFINE read == visit[v].read
           op == visit[v].op
           step == SkipTo(read, op)
<1>1. /\ visit[v] \in VisitRow /\ read \in WizardRow /\ op \in Skippable
      /\ account.via = "start" /\ account.active
      /\ ~ visit[v].stale => read = wizard
  BY DEF SkipCommits, RequestFacts, Working, Typed, VisitRow
<1>2. /\ step \in Steps
      /\ step # read.step => /\ StepIndex(step) >= 4
                             /\ StepOrder[StepIndex(step) - 1] = op
                             /\ step = "done" => op = "submission"
  BY <1>1, SkipPast
<1>3. /\ wizard'.step = IF step # read.step THEN step ELSE wizard.step
      /\ wizard'.completed = wizard.completed
      /\ wizard'.skipped = read.skipped \cup {op}
      /\ wizard'.data = wizard.data
      /\ wizard'.completedAt = wizard.completedAt
      /\ wizard' = [step |-> wizard'.step, completed |-> wizard.completed,
                    skipped |-> read.skipped \cup {op}, data |-> wizard.data,
                    profile |-> wizard.profile, completedAt |-> wizard.completedAt]
  BY DEF SkipCommits
<1>4. wizard' \in WizardRow
  <2>1. wizard'.step \in Steps
    BY <1>2, <1>3 DEF Typed, WizardRow
  <2>2. read.skipped \cup {op} \subseteq Skippable
    BY <1>1 DEF WizardRow
  <2>3. /\ wizard.completed \subseteq Steps /\ wizard.data \in WizardData
        /\ wizard.profile \in BOOLEAN /\ wizard.completedAt \in BOOLEAN
    BY DEF Typed, WizardRow
  <2> QED
    BY <1>3, <2>1, <2>2, <2>3 DEF WizardRow
<1>5. StepIndex(wizard'.step) >= 4
  BY <1>1, <1>2, <1>3 DEF AccountFacts
<1>6. /\ UNCHANGED <<account, code, suppliers, submissions, mailed, proven, misses>>
      /\ crossed' = (crossed \/ read.skipped # wizard.skipped)
      /\ WritesWizard(v)
  BY DEF SkipCommits, Overwrites
<1> HIDE DEF read, op, step
<1>7. /\ suppliers' \in Nat /\ submissions' \in Nat /\ crossed' \in BOOLEAN
  BY <1>1, <1>6 DEF Typed, VisitRow
<1>8. Bounded'
  <2>1. ASSUME NEW o
        PROVE  /\ Stepping(o) \in Nat /\ Stepping(o)' \in Nat
               /\ Stepping(o)' <= Stepping(o)
    BY <1>6, OthersKeep, SteppingShrinks
  <2> QED
    BY <1>6, <2>1, OnboardBounds DEF Bounded, Typed
<1>9. WizardCoherent'
  <2>1. SUFFICES ASSUME ~ crossed'
                 PROVE  WizardCoherent'
    BY DEF WizardCoherent
  <2>2. ~ crossed /\ read.skipped = wizard.skipped
    BY <1>6, <2>1
  <2>3. /\ wizard'.skipped = wizard.skipped \cup {op}
        /\ UNCHANGED <<suppliers, submissions>>
        /\ account'.via = "start"
    BY <1>1, <1>3, <1>6, <2>2
  <2>4. CASE step = read.step
    BY <1>1, <1>3, <2>2, <2>3, <2>4 DEF WizardCoherent
  <2>5. CASE step # read.step
    BY <1>1, <1>2, <1>3, <2>2, <2>3, <2>5 DEF WizardCoherent
  <2> QED
    BY <2>4, <2>5
<1> QED
  BY <1>1, <1>4, <1>5, <1>6, <1>7, <1>8, <1>9, WizardWritten

\* So does a step that was taken, with the row it created.
LEMMA StepStep ==
    ASSUME OnboardInv, OnboardingAssumption, NEW v \in Visitors, StepCommits(v)
    PROVE  OnboardInv'
<1> USE DEF OnboardInv
<1>0. SUFFICES ASSUME NEW op, NEW read, op = visit[v].op, read = visit[v].read
               PROVE  OnboardInv'
  OBVIOUS
<1> DEFINE finished == op = "complete" /\ read.step = "done"
<1>1. /\ visit[v] \in VisitRow /\ read \in WizardRow
      /\ visit[v].stage = "stepping"
      /\ op \in {"profile", "portal", "supplier", "submission", "complete"}
      /\ account.via = "start" /\ account.active
      /\ op = "complete" \/ ~ Refuses(read, TargetOf(op))
      /\ ~ visit[v].stale => read = wizard
  BY <1>0 DEF StepCommits, RequestFacts, Working, Typed, VisitRow
<1>2. CASE finished
  <2>1. /\ NoVisit \in VisitRow /\ NoVisit.stage = "idle" /\ NoVisit.op = "none"
    BY NoVisitTyped DEF NoVisit, Visit
  <2>2. /\ visit' = [visit EXCEPT ![v] = NoVisit]
        /\ UNCHANGED <<account, code, wizard, mailed, proven, misses>>
        /\ crossed' = (crossed \/ FALSE)
    BY <1>0, <1>2 DEF StepCommits
  <2>3. suppliers' = suppliers /\ submissions' = submissions /\ crossed' = crossed
    BY <1>0, <1>2, <2>2 DEF StepCommits, Typed
  <2> QED
    BY <2>1, <2>2, <2>3, RequestMoves DEF Typed
<1>3. CASE ~ finished
  <2> DEFINE data == IF op = "complete" THEN wizard.data ELSE MergedData(read, op)
  <2>1. /\ wizard' = [step |-> IF TargetOf(op) # read.step THEN TargetOf(op) ELSE wizard.step,
                      completed |-> read.completed \cup {TargetOf(op)},
                      skipped |-> wizard.skipped, data |-> data,
                      profile |-> wizard.profile \/ op = "profile",
                      completedAt |-> wizard.completedAt \/ op = "complete"]
        /\ suppliers' = suppliers + (IF op = "supplier" THEN 1 ELSE 0)
        /\ submissions' = submissions + (IF op = "submission" THEN 1 ELSE 0)
        /\ crossed' = (crossed \/ Overwrites(v))
        /\ WritesWizard(v)
        /\ UNCHANGED <<account, code, mailed, proven, misses>>
    BY <1>0, <1>3 DEF StepCommits
  <2>2. /\ TargetOf(op) \in Steps /\ StepIndex(TargetOf(op)) >= 4
        /\ op = "complete" <=> TargetOf(op) = "done"
    BY <1>1, TargetPast
  <2>3. /\ suppliers' \in Nat /\ submissions' \in Nat /\ crossed' \in BOOLEAN
    BY <1>1, <2>1 DEF Typed, VisitRow
  <2>4. ASSUME NEW o, o # op
        PROVE  /\ Stepping(o) \in Nat /\ Stepping(o)' \in Nat
               /\ Stepping(o)' <= Stepping(o)
    BY <2>1, OthersKeep, SteppingShrinks
  <2>5. /\ Stepping(op) \in Nat /\ Stepping(op)' \in Nat
        /\ Stepping(op)' + 1 <= Stepping(op)
    BY <1>0, <1>1, <2>1, OthersKeep, SteppingEnds
  <2>6. Bounded'
    <3>1. suppliers' + Stepping("supplier")' <= MaxSuppliers
      BY <2>1, <2>4, <2>5, OnboardBounds DEF Typed, Bounded
    <3>2. submissions' + Stepping("submission")' <= MaxFirst
      BY <2>1, <2>4, <2>5, OnboardBounds DEF Typed, Bounded
    <3> QED
      BY <3>1, <3>2 DEF Bounded
  <2>7. /\ op = "supplier" => suppliers + 1 \in 0..MaxSuppliers
        /\ op = "submission" => submissions + 1 \in 0..MaxFirst
    BY <2>5, OnboardBounds DEF Typed, Bounded
  <2>8. read.data \in WizardData /\ wizard.data \in WizardData
    BY <1>1 DEF Typed, WizardRow
  <2>9. /\ data \in WizardData
        /\ data.supplier = IF op = "supplier" THEN suppliers + 1
                           ELSE IF op = "complete" THEN wizard.data.supplier ELSE read.data.supplier
        /\ data.submission = IF op = "submission" THEN submissions + 1
                             ELSE IF op = "complete" THEN wizard.data.submission ELSE read.data.submission
    <3>1. CASE op = "profile"
      BY <2>8, <3>1 DEF WizardData, MergedData
    <3>2. CASE op = "portal"
      BY <2>8, <3>2 DEF WizardData, MergedData
    <3>3. CASE op = "supplier"
      BY <2>7, <2>8, <3>3 DEF WizardData, MergedData
    <3>4. CASE op = "submission"
      BY <2>7, <2>8, <3>4 DEF WizardData, MergedData
    <3>5. CASE op = "complete"
      BY <2>8, <3>5
    <3> QED
      BY <1>1, <3>1, <3>2, <3>3, <3>4, <3>5
  <2> HIDE DEF data
  <2>10. /\ wizard'.step = IF TargetOf(op) # read.step THEN TargetOf(op) ELSE wizard.step
         /\ wizard'.completed = read.completed \cup {TargetOf(op)}
         /\ wizard'.skipped = wizard.skipped /\ wizard'.data = data
         /\ wizard'.completedAt = (wizard.completedAt \/ op = "complete")
    BY <2>1
  <2>11. wizard' \in WizardRow
    <3>1. wizard'.step \in Steps
      BY <2>2, <2>10 DEF Typed, WizardRow
    <3>2. read.completed \cup {TargetOf(op)} \subseteq Steps
      BY <1>1, <2>2 DEF WizardRow
    <3>3. /\ wizard.skipped \subseteq Skippable
          /\ wizard.profile \in BOOLEAN /\ wizard.completedAt \in BOOLEAN
      BY DEF Typed, WizardRow
    <3> QED
      BY <2>1, <2>9, <2>10, <3>1, <3>2, <3>3 DEF WizardRow
  <2>12. StepIndex(wizard'.step) >= 4
    BY <1>1, <2>2, <2>10 DEF AccountFacts
  <2>13. WizardCoherent'
    <3>1. SUFFICES ASSUME ~ crossed'
                   PROVE  WizardCoherent'
      BY DEF WizardCoherent
    <3>2. /\ ~ crossed /\ read.completed = wizard.completed
          /\ op # "complete" => read.data = wizard.data
      <4>1. ~ crossed /\ ~ Overwrites(v)
        BY <2>1, <3>1
      <4> QED
        BY <1>0, <1>1, <4>1 DEF Overwrites
    <3>3. wizard'.step = wizard.step \/ (wizard'.step = TargetOf(op) /\ wizard'.step \in wizard'.completed)
      BY <2>10
    <3>4. wizard'.step = "done" => wizard'.completedAt \/ "submission" \in wizard'.skipped
      BY <1>1, <2>2, <2>10, <3>2, <3>3 DEF WizardCoherent
    <3>5. wizard'.data.supplier = suppliers' /\ wizard'.data.submission = submissions'
      BY <1>1, <2>1, <2>9, <2>10, <3>2 DEF WizardCoherent, Typed
    <3> QED
      BY <1>1, <2>10, <3>2, <3>3, <3>4, <3>5 DEF WizardCoherent
  <2> QED
    BY <1>1, <2>1, <2>3, <2>6, <2>11, <2>12, <2>13, WizardWritten
<1> QED
  BY <1>2, <1>3

\* The invariant holds at first.
LEMMA OnboardStart == ASSUME OnboardInit, OnboardingAssumption PROVE OnboardInv
<1>1. NoVisit \in VisitRow /\ NoWizard \in WizardRow /\ NoVisit.stage = "idle" /\ NoVisit.op = "none"
  BY NoVisitTyped DEF NoVisit, Visit
<1>2. \A v \in Visitors : visit[v] = NoVisit
  BY DEF OnboardInit
<1>3. Typed
  <2>1. account \in AccountRow /\ code \in CodeRow
    BY OnboardBounds DEF OnboardInit, AccountRow, CodeRow, NoCode
  <2>2. visit \in [Visitors -> VisitRow]
    BY <1>1 DEF OnboardInit
  <2> QED
    <3>1. misses \in 0..MaxMisses /\ suppliers \in Nat /\ submissions \in Nat
      BY OnboardBounds DEF OnboardInit
    <3> QED
      BY <1>1, <2>1, <2>2, <3>1 DEF OnboardInit, Typed
<1>4. Bounded
  <2>1. ASSUME NEW op PROVE Stepping(op) = 0
    <3>1. {v \in Visitors : visit[v].op = op /\ visit[v].stage = "stepping"} = {}
      BY <1>1, <1>2
    <3> QED
      BY <3>1, FS_EmptySet DEF Stepping
  <2> QED
    BY <2>1, OnboardBounds DEF Bounded, OnboardInit
<1>5. \A v \in Visitors : RequestFacts(v)
  BY <1>1, <1>2 DEF RequestFacts, Holding, Working
<1>6. OneHolder
  BY <1>1, <1>2 DEF OneHolder, Holding
<1>7. account.via = "none"
  BY DEF OnboardInit
<1>8. AccountFacts /\ WizardCoherent
  BY <1>7 DEF OnboardInit, AccountFacts, WizardCoherent
<1> QED
  BY <1>3, <1>4, <1>5, <1>6, <1>8 DEF OnboardInv

\* Every step keeps it.
LEMMA OnboardStep ==
    ASSUME OnboardInv, OnboardingAssumption, [OnboardNext]_onboardVars
    PROVE  OnboardInv'
<1>1. CASE CodeExpires
  BY <1>1, ExpiryStep
<1>2. ASSUME NEW v \in Visitors,
             \/ \E op \in Signups : SignupReads(v, op)
             \/ \E guess \in mailed \cup {0} : VerifyReads(v, guess)
             \/ \E op \in WizardOps, skip \in BOOLEAN : WizardReads(v, op, skip)
             \/ VisitStep(v)
             \/ VisitAborts(v)
      PROVE  OnboardInv'
  BY <1>2, QuietSteps, CommitSteps, VerifyStep, ReadStep, SkipStep, StepStep DEF VisitStep
<1>3. CASE UNCHANGED onboardVars
  BY <1>3 DEF onboardVars, OnboardInv, Typed, Bounded, Stepping, RequestFacts, Holding, Working,
              Refuses, OneHolder, AccountFacts, WizardCoherent
<1> QED
  BY <1>1, <1>2, <1>3 DEF OnboardNext

\* An account does nothing before its address is proven, and while requests
\* do not overlap its wizard row says what happened, for every number of
\* visitors (verify_code, advance_to, skip_step).
THEOREM AccountsFollowProof == OnboardSpec => []OnboardingSound
<1>1. OnboardInit => OnboardInv
  BY OnboardStart, OnboardingAssumption
<1>2. OnboardInv /\ [OnboardNext]_onboardVars => OnboardInv'
  BY OnboardStep, OnboardingAssumption
<1>3. OnboardInv => OnboardingSound
  <2> SUFFICES ASSUME OnboardInv PROVE OnboardingSound
    OBVIOUS
  <2>1. OnboardTypeOK
    BY DEF OnboardInv, Typed, AccountRow, CodeRow, WizardRow, WizardData, OnboardTypeOK
  <2>2. NothingBeforeProof
    <3>1. StepIndex("email_pending") = 2
      BY StepNumbers
    <3>2. ~ (0 > 0)
      OBVIOUS
    <3> QED
      BY <3>1, <3>2 DEF OnboardInv, AccountFacts, NothingBeforeProof, Moved
  <2> QED
    BY <2>1, <2>2 DEF OnboardInv, OnboardingSound
<1> QED
  BY <1>1, <1>2, <1>3, PTL DEF OnboardSpec

\* What a step does to the account and to the wizard.
LEMMA StepKeeps ==
    ASSUME OnboardInv, OnboardingAssumption, [OnboardNext]_onboardVars
    PROVE  /\ account.via # "none" => account'.via = account.via /\ code'.id = code.id
           /\ StepIndex(wizard'.step) < StepIndex(wizard.step) =>
                 \E v \in Visitors : CommitsStale(v)
<1> USE DEF OnboardInv
<1>0. StepIndex(wizard.step) \in Nat
  <2>1. wizard.step \in Steps
    BY DEF Typed, WizardRow
  <2> QED
    BY <2>1, StepNumbers
<1>1. ASSUME NEW v \in Visitors, StartCommits(v) \/ RegisterCommits(v)
      PROVE  /\ account.via = "none"
             /\ StepIndex(wizard'.step) >= StepIndex(wizard.step)
  <2>1. Holding(v) /\ RequestFacts(v)
    BY <1>1 DEF StartCommits, RegisterCommits, Holding
  <2>2. account.via = "none" /\ wizard = NoWizard
    BY <2>1 DEF RequestFacts, AccountFacts
  <2>3. wizard'.step \in {"start", "email_pending"} /\ wizard.step = "start"
    BY <1>1, <2>2 DEF StartCommits, RegisterCommits, NoWizard, Moved
  <2> QED
    BY <2>2, <2>3, StepNumbers
<1>2. ASSUME NEW v \in Visitors, VerifyCommits(v)
      PROVE  /\ account'.via = account.via /\ code'.id = code.id
             /\ StepIndex(wizard'.step) >= StepIndex(wizard.step)
  <2>1. CASE Refuses(wizard, "email_verified")
    BY <1>0, <1>2, <2>1 DEF VerifyCommits
  <2>2. CASE ~ Refuses(wizard, "email_verified")
    <3>1. account'.via = account.via /\ code'.id = code.id /\ wizard'.step = "profile"
      BY <1>2, <2>2 DEF VerifyCommits, Typed, AccountRow, Moved
    <3>2. StepIndex(wizard.step) <= 3
      BY <1>0, <2>2, StepNumbers DEF Refuses
    <3> QED
      BY <1>0, <3>1, <3>2, StepNumbers
  <2> QED
    BY <2>1, <2>2
<1>3. ASSUME NEW v \in Visitors, SkipCommits(v), ~ visit[v].stale
      PROVE  StepIndex(wizard'.step) >= StepIndex(wizard.step)
  <2>1. Working(v) /\ RequestFacts(v)
    BY <1>3 DEF SkipCommits, Working
  <2>2. visit[v].read = wizard /\ visit[v].op \in Skippable /\ wizard \in WizardRow
    BY <1>3, <2>1 DEF RequestFacts, SkipCommits, Typed
  <2>3. wizard'.step = SkipTo(wizard, visit[v].op)
    BY <1>3, <2>2 DEF SkipCommits
  <2> QED
    BY <2>2, <2>3, SkipPast
<1>4. ASSUME NEW v \in Visitors, StepCommits(v), ~ visit[v].stale
      PROVE  StepIndex(wizard'.step) >= StepIndex(wizard.step)
  <2>1. CASE visit[v].op = "complete" /\ visit[v].read.step = "done"
    BY <1>0, <1>4, <2>1 DEF StepCommits
  <2>2. CASE ~ (visit[v].op = "complete" /\ visit[v].read.step = "done")
    <3>2. Working(v) /\ RequestFacts(v)
      BY <1>4 DEF StepCommits, Working
    <3>3. /\ visit[v].read = wizard
          /\ visit[v].op \in {"profile", "portal", "supplier", "submission", "complete"}
          /\ visit[v].op = "complete" \/ ~ Refuses(wizard, TargetOf(visit[v].op))
      BY <1>4, <3>2 DEF RequestFacts, StepCommits
    <3>4. wizard'.step = TargetOf(visit[v].op)
      BY <1>4, <2>2, <3>3 DEF StepCommits
    <3>5. wizard.step \in Steps
      BY DEF Typed, WizardRow
    <3>6. CASE visit[v].op = "complete"
      BY <3>4, <3>5, <3>6, StepNumbers DEF TargetOf
    <3>7. CASE visit[v].op # "complete"
      <4>1. TargetOf(visit[v].op) \in {"plan", "supplier", "submission"}
        BY <3>3, <3>7 DEF TargetOf
      <4> QED
        BY <1>0, <3>3, <3>4, <3>7, <4>1, StepNumbers DEF Refuses
    <3> QED
      BY <3>6, <3>7
  <2> QED
    BY <2>1, <2>2
<1>5. ASSUME CodeExpires \/ UNCHANGED onboardVars
      PROVE  account' = account /\ code'.id = code.id /\ wizard' = wizard
  BY <1>5 DEF CodeExpires, onboardVars, Typed, CodeRow
<1>6. wizard' = wizard => StepIndex(wizard'.step) >= StepIndex(wizard.step)
  BY <1>0
<1>7. ASSUME NEW v \in Visitors,
             \/ \E op \in Signups : SignupReads(v, op)
             \/ \E guess \in mailed \cup {0} : VerifyReads(v, guess)
             \/ \E op \in WizardOps, skip \in BOOLEAN : WizardReads(v, op, skip)
             \/ SignupInserts(v) \/ StartMails(v) \/ VerifyMisses(v) \/ VerifyConsumes(v)
             \/ VisitAborts(v)
      PROVE  UNCHANGED <<account, code, wizard>>
  BY <1>7 DEF SignupReads, VerifyReads, WizardReads, SignupInserts, StartMails, VerifyMisses,
              VerifyConsumes, VisitAborts
<1>8. ASSUME NEW v \in Visitors, SkipCommits(v) \/ StepCommits(v)
      PROVE  UNCHANGED <<account, code>>
  BY <1>8 DEF SkipCommits, StepCommits
<1>9. ASSUME NEW v \in Visitors, SkipCommits(v) \/ StepCommits(v), visit[v].stale
      PROVE  CommitsStale(v)
  BY <1>9 DEF SkipCommits, StepCommits, WritesWizard, CommitsStale, Typed
<1>10. StepIndex(wizard'.step) \in Nat
  <2>1. wizard'.step \in Steps
    BY OnboardStep DEF Typed, WizardRow
  <2> QED
    BY <2>1, StepNumbers
<1>11. account.via # "none" => account'.via = account.via /\ code'.id = code.id
  BY <1>1, <1>2, <1>5, <1>7, <1>8 DEF OnboardNext, VisitStep
<1>12. \/ StepIndex(wizard'.step) >= StepIndex(wizard.step)
       \/ \E v \in Visitors : CommitsStale(v)
  <2>1. SUFFICES ASSUME ~ \E v \in Visitors : CommitsStale(v)
                 PROVE  StepIndex(wizard'.step) >= StepIndex(wizard.step)
    OBVIOUS
  <2>2. ASSUME NEW v \in Visitors, SkipCommits(v) \/ StepCommits(v)
        PROVE  StepIndex(wizard'.step) >= StepIndex(wizard.step)
    BY <1>3, <1>4, <1>9, <2>1, <2>2
  <2> QED
    BY <1>1, <1>2, <1>5, <1>6, <1>7, <2>2 DEF OnboardNext, VisitStep
<1> QED
  BY <1>0, <1>10, <1>11, <1>12

\* No request replaces the account of an address, and only a request that
\* commits what it decided on an older row takes the wizard back
\* (start_onboarding, register_user_and_tenant, advance_to).
THEOREM AccountsNeverReplaced == OnboardSpec => OnboardingSteps
<1>1. OnboardInit => OnboardInv
  BY OnboardStart, OnboardingAssumption
<1>2. OnboardInv /\ [OnboardNext]_onboardVars => OnboardInv'
  BY OnboardStep, OnboardingAssumption
<1>3. OnboardInv /\ [OnboardNext]_onboardVars =>
        /\ [account.via # "none" => account'.via = account.via /\ code'.id = code.id]_onboardVars
        /\ [StepIndex(wizard'.step) < StepIndex(wizard.step) =>
               \E v \in Visitors : CommitsStale(v)]_onboardVars
  BY StepKeeps, OnboardingAssumption
<1> QED
  BY <1>1, <1>2, <1>3, PTL DEF OnboardSpec, OnboardingSteps, OneAccount, WizardForward

-----------------------------------------------------------------------------
(* The password policy *)

\* L places in a row within the first at, all but the last in S.
Found(S, at, L) ==
    \E n \in 1..at : n + L - 1 <= at /\ \A k \in n..(n + L - 2) : k \in S

\* c counts the places in a row that end at at: as many as there are.
Counts(S, at, c) ==
    /\ c \in 1..at
    /\ \A k \in (at - c + 1)..(at - 1) : k \in S
    /\ c < at => at - c \notin S

\* A counter that counts right goes on to count right, and reaches L exactly
\* where the first L in a row end.
LEMMA CounterStep ==
    ASSUME NEW S, NEW at \in Nat \ {0}, NEW c \in Nat, NEW L \in Nat \ {0, 1}, Counts(S, at, c)
    PROVE  /\ Counts(S, at + 1, Counted(c, at \in S))
           /\ Found(S, at + 1, L) <=> Found(S, at, L) \/ Counted(c, at \in S) >= L
<1> DEFINE d == Counted(c, at \in S)
<1>1. d = IF at \in S THEN c + 1 ELSE 1
  BY DEF Counted
<1>2. Counts(S, at + 1, d)
  <2>1. CASE at \in S
    <3>1. d = c + 1
      BY <1>1, <2>1
    <3>2. ASSUME NEW k \in (at + 1 - d + 1)..(at + 1 - 1) PROVE k \in S
      <4>1. k = at \/ k \in (at - c + 1)..(at - 1)
        BY <3>1
      <4> QED
        BY <2>1, <4>1 DEF Counts
    <3>3. at + 1 - d = at - c
      BY <3>1
    <3> QED
      BY <3>1, <3>2, <3>3 DEF Counts
  <2>2. CASE at \notin S
    BY <1>1, <2>2 DEF Counts
  <2> QED
    BY <2>1, <2>2
<1>3. ASSUME Found(S, at, L) PROVE Found(S, at + 1, L)
  BY <1>3 DEF Found
<1>4. ASSUME d >= L PROVE Found(S, at + 1, L)
  <2> DEFINE n == at + 1 - L + 1
  <2>1. d \in 1..(at + 1)
    BY <1>2 DEF Counts
  <2>2. n \in 1..(at + 1) /\ n + L - 1 <= at + 1
    BY <1>4, <2>1
  <2>3. ASSUME NEW k \in n..(n + L - 2) PROVE k \in S
    <3>1. k \in (at + 1 - d + 1)..(at + 1 - 1)
      BY <1>4, <2>1
    <3> QED
      BY <1>2, <3>1 DEF Counts
  <2> QED
    BY <2>2, <2>3 DEF Found
<1>5. ASSUME Found(S, at + 1, L), ~ (d >= L) PROVE Found(S, at, L)
  <2>1. PICK n \in 1..(at + 1) : n + L - 1 <= at + 1 /\ \A k \in n..(n + L - 2) : k \in S
    BY <1>5 DEF Found
  <2>2. CASE n + L - 1 <= at
    BY <2>1, <2>2 DEF Found
  <2>3. CASE n + L - 1 = at + 1
    <3>1. d \in 1..(at + 1) /\ d < L
      BY <1>2, <1>5 DEF Counts
    <3>2. at + 1 - d \in n..(n + L - 2) /\ d < at + 1
      BY <2>3, <3>1
    <3>3. at + 1 - d \notin S
      BY <1>2, <3>2 DEF Counts
    <3> QED
      BY <2>1, <3>2, <3>3
  <2> QED
    BY <2>1, <2>2, <2>3
<1> QED
  BY <1>2, <1>3, <1>4, <1>5

\* The places a character is followed by the one d above it.
Places(p, d) == {k \in 1..(Len(p) - 1) : p[k + 1] = p[k] + d}

\* The scans have passed the characters up to scan.at.
ScanTyped ==
    /\ password \in Seq(Nat)
    /\ scan.at \in Nat \ {0}
    /\ scan.at > Len(password) => Len(password) = 0 /\ scan.at = 1
    /\ scan.streak \in Nat /\ scan.up \in Nat /\ scan.down \in Nat
    /\ scan.run \in BOOLEAN /\ scan.sequence \in BOOLEAN

\* What their counters know of them.
ScanKnows ==
    /\ Counts(Places(password, 0), scan.at, scan.streak)
    /\ Counts(Places(password, 1), scan.at, scan.up)
    /\ Counts(Places(password, -1), scan.at, scan.down)
    /\ scan.run <=> Found(Places(password, 0), scan.at, RunLength)
    /\ scan.sequence <=> \/ Found(Places(password, 1), scan.at, SeqLength)
                         \/ Found(Places(password, -1), scan.at, SeqLength)

\* The inductive invariant.
PolicyInv == ScanTyped /\ ScanKnows /\ PolicyExact

\* At the end of the password, what was found is what stands in it.
LEMMA FoundIsInARow ==
    ASSUME NEW p \in Seq(Nat), NEW at \in Nat \ {0}, NEW L \in Nat \ {0, 1}, NEW d \in Int,
           at >= Len(p), at > Len(p) => Len(p) = 0 /\ at = 1
    PROVE  Found(Places(p, d), at, L) <=> InARow(p, L, d)
<1>1. Len(p) \in Nat
  OBVIOUS
<1>2. CASE Len(p) = 0
  BY <1>2 DEF Found, InARow
<1>3. CASE Len(p) = at
  <2>1. ASSUME NEW n \in 1..at, n + L - 1 <= at, NEW k \in n..(n + L - 2)
        PROVE  k \in 1..(Len(p) - 1)
    BY <1>3, <2>1
  <2> QED
    BY <1>3, <2>1 DEF Found, Places, InARow
<1>4. Len(p) = 0 \/ Len(p) = at
  BY <1>1
<1> QED
  BY <1>2, <1>3, <1>4

\* A character further, the counters still count right.
LEMMA ScanStep == ASSUME PolicyInv, ScanNext PROVE PolicyInv'
<1>1. SUFFICES ASSUME NEW at, NEW p, at = scan.at, p = password PROVE PolicyInv'
  OBVIOUS
<1>2. /\ p \in Seq(Nat) /\ at \in Nat \ {0} /\ Len(p) \in Nat
      /\ scan.streak \in Nat /\ scan.up \in Nat /\ scan.down \in Nat
  BY <1>1 DEF PolicyInv, ScanTyped
<1>3. at < Len(p)
  BY <1>1 DEF ScanNext
<1>4. at \in 1..(Len(p) - 1) /\ at \in 1..Len(p) /\ at + 1 \in 1..Len(p)
  BY <1>2, <1>3
<1>5. p[at] \in Nat /\ p[at + 1] \in Nat
  BY <1>2, <1>4
<1>6. /\ at \in Places(p, 0) <=> p[at + 1] = p[at]
      /\ at \in Places(p, 1) <=> p[at + 1] = p[at] + 1
      /\ at \in Places(p, -1) <=> p[at + 1] + 1 = p[at]
  BY <1>4, <1>5 DEF Places
<1> DEFINE streak == Counted(scan.streak, at \in Places(p, 0))
           up == Counted(scan.up, at \in Places(p, 1))
           down == Counted(scan.down, at \in Places(p, -1))
<1>7. scan' = [at |-> at + 1, streak |-> streak, up |-> up, down |-> down,
               run |-> scan.run \/ streak >= RunLength,
               sequence |-> scan.sequence \/ up >= SeqLength \/ down >= SeqLength]
  BY <1>1, <1>6 DEF ScanNext, Counted
<1>8. password' = p /\ verdict' = verdict /\ verdict = "none"
  BY <1>1 DEF ScanNext
<1>9. RunLength \in Nat \ {0, 1} /\ SeqLength \in Nat \ {0, 1}
  BY PolicyAssumption DEF PolicyAssumption
<1>10. /\ Counts(Places(p, 0), at, scan.streak)
       /\ Counts(Places(p, 1), at, scan.up)
       /\ Counts(Places(p, -1), at, scan.down)
       /\ scan.run <=> Found(Places(p, 0), at, RunLength)
       /\ scan.sequence <=> \/ Found(Places(p, 1), at, SeqLength)
                            \/ Found(Places(p, -1), at, SeqLength)
  BY <1>1 DEF PolicyInv, ScanKnows
<1>11. /\ Counts(Places(p, 0), at + 1, streak)
       /\ Found(Places(p, 0), at + 1, RunLength) <=>
             Found(Places(p, 0), at, RunLength) \/ streak >= RunLength
  BY <1>2, <1>9, <1>10, CounterStep
<1>12. /\ Counts(Places(p, 1), at + 1, up)
       /\ Found(Places(p, 1), at + 1, SeqLength) <=>
             Found(Places(p, 1), at, SeqLength) \/ up >= SeqLength
  BY <1>2, <1>9, <1>10, CounterStep
<1>13. /\ Counts(Places(p, -1), at + 1, down)
       /\ Found(Places(p, -1), at + 1, SeqLength) <=>
             Found(Places(p, -1), at, SeqLength) \/ down >= SeqLength
  BY <1>2, <1>9, <1>10, CounterStep
<1>14. streak \in Nat /\ up \in Nat /\ down \in Nat
  BY <1>2 DEF Counted
<1> HIDE DEF streak, up, down
<1>15. /\ scan'.at = at + 1 /\ scan'.streak = streak /\ scan'.up = up /\ scan'.down = down
       /\ scan'.run = (scan.run \/ streak >= RunLength)
       /\ scan'.sequence = (scan.sequence \/ up >= SeqLength \/ down >= SeqLength)
  BY <1>7
<1>16. ScanTyped'
  <2>1. scan'.run \in BOOLEAN /\ scan'.sequence \in BOOLEAN
    BY <1>15
  <2>2. at + 1 \in Nat \ {0} /\ ~ (at + 1 > Len(p))
    BY <1>2, <1>3
  <2> QED
    BY <1>2, <1>8, <1>14, <1>15, <2>1, <2>2 DEF ScanTyped
<1>17. ScanKnows'
  BY <1>8, <1>10, <1>11, <1>12, <1>13, <1>15 DEF ScanKnows
<1>18. PolicyExact'
  BY <1>8 DEF PolicyExact
<1> QED
  BY <1>16, <1>17, <1>18 DEF PolicyInv

\* The verdict is the one of the definition without counters.
LEMMA ValidateStep == ASSUME PolicyInv, Validate PROVE PolicyInv'
<1>1. /\ verdict' = IF scan.run \/ scan.sequence \/ PlainlyRefused(password)
                    THEN "refused" ELSE "valid"
      /\ UNCHANGED <<password, scan>> /\ scan.at >= Len(password)
  BY DEF Validate
<1>2. RunLength \in Nat \ {0, 1} /\ SeqLength \in Nat \ {0, 1}
  BY PolicyAssumption DEF PolicyAssumption
<1>3. ASSUME NEW L \in Nat \ {0, 1}, NEW d \in Int
      PROVE  Found(Places(password, d), scan.at, L) <=> InARow(password, L, d)
  BY <1>1, FoundIsInARow DEF PolicyInv, ScanTyped
<1>4. /\ scan.run <=> InARow(password, RunLength, 0)
      /\ scan.sequence <=> \/ InARow(password, SeqLength, 1)
                           \/ InARow(password, SeqLength, -1)
  BY <1>2, <1>3 DEF PolicyInv, ScanKnows
<1>5. verdict' = "valid" <=> ~ (scan.run \/ scan.sequence \/ PlainlyRefused(password))
  BY <1>1
<1>6. (verdict' = "valid"
          <=> /\ ~ PlainlyRefused(password)
              /\ ~ InARow(password, RunLength, 0)
              /\ ~ InARow(password, SeqLength, 1)
              /\ ~ InARow(password, SeqLength, -1))
  BY <1>4, <1>5
<1>7. PolicyExact'
  <2>1. PlainlyRefused(password)' <=> PlainlyRefused(password)
    BY <1>1 DEF PlainlyRefused, Lowered, Stripped, Categories, Within
  <2>2. ASSUME NEW L, NEW d PROVE InARow(password, L, d)' <=> InARow(password, L, d)
    BY <1>1 DEF InARow
  <2> QED
    BY <1>6, <2>1, <2>2 DEF PolicyExact
<1>8. ScanTyped' /\ ScanKnows'
  BY <1>1 DEF PolicyInv, ScanTyped, ScanKnows, Places
<1> QED
  BY <1>7, <1>8 DEF PolicyInv

\* The scans miss nothing and find nothing that is not there, in every
\* password of any length (_has_long_run, _is_sequence, validate_password).
THEOREM PasswordsJudgedExactly == PolicySpec => []PolicyExact
<1>1. ASSUME PolicyInit PROVE PolicyInv
  <2>1. /\ password \in Seq(Nat) /\ Len(password) \in Nat
        /\ scan = ScanStart /\ verdict = "none"
    BY <1>1, PolicyAssumption DEF PolicyInit, PolicyAssumption
  <2>2. ASSUME NEW S PROVE Counts(S, 1, 1)
    BY DEF Counts
  <2>3. ASSUME NEW S, NEW L \in Nat \ {0, 1} PROVE ~ Found(S, 1, L)
    BY DEF Found
  <2>4. /\ ~ Found(Places(password, 0), 1, RunLength)
        /\ ~ Found(Places(password, 1), 1, SeqLength)
        /\ ~ Found(Places(password, -1), 1, SeqLength)
    BY <2>3, PolicyAssumption DEF PolicyAssumption
  <2>5. PolicyExact
    BY <2>1 DEF PolicyExact
  <2>6. ScanTyped
    BY <2>1 DEF ScanTyped, ScanStart
  <2>7. ScanKnows
    BY <2>1, <2>2, <2>4 DEF ScanKnows, ScanStart
  <2> QED
    BY <2>5, <2>6, <2>7 DEF PolicyInv
<1>2. ASSUME PolicyInv, UNCHANGED policyVars PROVE PolicyInv'
  <2>1. ScanTyped' /\ ScanKnows'
    BY <1>2 DEF policyVars, PolicyInv, ScanTyped, ScanKnows, Places
  <2>2. PolicyExact'
    <3>1. PlainlyRefused(password)' <=> PlainlyRefused(password)
      BY <1>2 DEF policyVars, PlainlyRefused, Lowered, Stripped, Categories, Within
    <3>2. ASSUME NEW L, NEW d PROVE InARow(password, L, d)' <=> InARow(password, L, d)
      BY <1>2 DEF policyVars, InARow
    <3> QED
      BY <1>2, <3>1, <3>2 DEF policyVars, PolicyInv, PolicyExact
  <2> QED
    BY <2>1, <2>2 DEF PolicyInv
<1>3. PolicyInv /\ [PolicyNext]_policyVars => PolicyInv'
  BY <1>2, ScanStep, ValidateStep DEF PolicyNext
<1>4. PolicyInv => PolicyExact
  BY DEF PolicyInv
<1> QED
  BY <1>1, <1>3, <1>4, PTL DEF PolicySpec

-----------------------------------------------------------------------------
(* The lockout *)

Guess == [at : 1 .. MaxLockClock, store : LockStores, ip : Ips, by : Clients \cup {"none"},
          forgotten : BOOLEAN, unlocked : BOOLEAN]
AttemptRow == [stage : {"idle", "checked", "locking"}, process : Processes \cup {"none"},
               ip : Ips \cup {"none"}]

LockTypes ==
  /\ tracker \in [Processes -> Backings]
  /\ failures \in [LockStores -> [Ips -> SUBSET Nat]]
  /\ lock \in [LockStores -> [Ips -> Nat]]
  /\ attempt \in [Clients -> AttemptRow]
  /\ lockClock \in 1 .. MaxLockClock /\ lockFaults \in 0 .. MaxLockFaults
  /\ wrong \in Seq(Guess)

\* A login under way has a process whose tracker is built.
Underway ==
  \A c \in Clients : attempt[c].stage # "idle" =>
    attempt[c].process \in Processes /\ attempt[c].ip \in Ips /\ tracker[attempt[c].process] # "unbuilt"

\* A bucket has every guess of the window that nobody told it to forget.
BucketsTell ==
  /\ \A s \in LockStores, i \in Ips : \A n \in failures[s][i] :
       n \in DOMAIN wrong /\ wrong[n].store = s /\ wrong[n].ip = i
  /\ \A n \in DOMAIN wrong :
       /\ wrong[n].at <= lockClock
       /\ ~wrong[n].forgotten /\ wrong[n].at + Window > lockClock =>
            n \in failures[wrong[n].store][wrong[n].ip]

\* The guesses of a window after which no lock was due.
Open(s, i, t) == {n \in Guesses(s, i, t) : ~wrong[n].forgotten /\ wrong[n].by = "none"}
FewOpen ==
  \A s \in LockStores, i \in Ips, t \in 1 .. MaxLockClock : Cardinality(Open(s, i, t)) <= MaxFails - 1

\* A guess whose lock was due and was not lost: it is set, or its login is
\* about to set it.
Due(n) == wrong[n].by \in Clients /\ ~wrong[n].forgotten /\ ~wrong[n].unlocked
AboutTo(c, n) == attempt[c].stage = "locking" /\ LastOf(c, n)
LocksFollow ==
  \A n \in DOMAIN wrong : Due(n) =>
    lock[wrong[n].store][wrong[n].ip] >= wrong[n].at + LockFor \/ AboutTo(wrong[n].by, n)

\* A client that got past the check did so after its earlier locks.
ChecksWait ==
  \A n \in DOMAIN wrong : LET c == wrong[n].by IN
    Due(n) /\ attempt[c].stage = "checked" /\ attempt[c].ip = wrong[n].ip
      /\ AttemptStore(c) = wrong[n].store
    => wrong[n].at + LockFor <= lockClock

\* So one client has one such guess in a window.
GuessesApart ==
  \A m, n \in DOMAIN wrong :
    /\ m < n /\ Due(m) /\ Due(n)
    /\ wrong[m].by = wrong[n].by /\ wrong[m].store = wrong[n].store /\ wrong[m].ip = wrong[n].ip
    => wrong[m].at + Window <= wrong[n].at

\* The guesses of a window that count for a lock.
Reasons(s, i, t) ==
  {n \in DOMAIN wrong : /\ wrong[n].store = s /\ wrong[n].ip = i
                        /\ wrong[n].at <= t /\ t <= wrong[n].at + Window}
Reasoned(s, i, by) ==
  \E t \in 1 .. MaxLockClock : t + LockFor <= by /\ Cardinality(Reasons(s, i, t)) >= MaxFails
LocksReasoned ==
  /\ \A s \in LockStores, i \in Ips :
       /\ lock[s][i] <= lockClock + LockFor
       /\ lock[s][i] > 0 => Reasoned(s, i, lock[s][i])
  /\ \A c \in Clients : attempt[c].stage = "locking" =>
       Reasoned(AttemptStore(c), attempt[c].ip, lockClock + LockFor)

LockInv ==
  /\ LockTypes /\ Underway /\ BucketsTell /\ FewOpen /\ LocksFollow /\ ChecksWait
  /\ GuessesApart /\ LocksReasoned

-----------------------------------------------------------------------------
LEMMA LockNumbers ==
  /\ MaxFails \in Nat /\ MaxFails > 0 /\ Window \in Nat /\ Window > 0
  /\ LockFor \in Nat /\ Window <= LockFor
  /\ MaxLockClock \in Nat /\ MaxLockClock > 0 /\ MaxLockFaults \in Nat
<1>1. /\ MaxFails \in Nat \ {0} /\ Window \in Nat \ {0} /\ LockFor \in Nat /\ Window <= LockFor
      /\ MaxLockClock \in Nat \ {0} /\ MaxLockFaults \in Nat
  BY LockoutAssumption, Zenon
<1> QED
  BY <1>1

LEMMA LockClients == IsFiniteSet(Clients) /\ "none" \notin Clients
  BY LockoutAssumption, Zenon

\* Sets of guesses are finite.
LEMMA GuessesFinite ==
  ASSUME LockTypes PROVE DOMAIN wrong = 1 .. Len(wrong) /\ Len(wrong) \in Nat /\ IsFiniteSet(DOMAIN wrong)
<1>1. DOMAIN wrong = 1 .. Len(wrong) /\ Len(wrong) \in Nat
  BY DEF LockTypes
<1>2. IsFiniteSet(1 .. Len(wrong))
  BY <1>1, FS_Interval
<1> QED
  BY <1>1, <1>2

LEMMA LockStart == LockInit => LockInv
<1> SUFFICES ASSUME LockInit PROVE LockInv
  OBVIOUS
<1> USE LockNumbers
<1>1. NoAttempt \in AttemptRow /\ NoAttempt.stage = "idle"
  BY DEF NoAttempt, AttemptRow
<1>2. LockTypes
  <2>1. wrong \in Seq(Guess)
    BY DEF LockInit
  <2>2. tracker \in [Processes -> Backings] /\ attempt \in [Clients -> AttemptRow]
    BY <1>1 DEF LockInit, Backings
  <2>3. failures \in [LockStores -> [Ips -> SUBSET Nat]] /\ lock \in [LockStores -> [Ips -> Nat]]
    BY DEF LockInit
  <2>4. lockClock \in 1 .. MaxLockClock /\ lockFaults \in 0 .. MaxLockFaults
    BY DEF LockInit
  <2> QED
    BY <2>1, <2>2, <2>3, <2>4 DEF LockTypes
<1>3. DOMAIN wrong = {} /\ \A c \in Clients : attempt[c].stage = "idle"
  BY <1>1 DEF LockInit
<1>4. Underway
  BY <1>3 DEF Underway
<1>5. BucketsTell
  BY <1>3 DEF BucketsTell, LockInit
<1>6. FewOpen
  <2>1. \A s, i, t : Open(s, i, t) = {}
    BY <1>3 DEF Open, Guesses
  <2> QED
    BY <2>1, FS_EmptySet DEF FewOpen
<1>7. LocksFollow /\ ChecksWait /\ GuessesApart
  BY <1>3 DEF LocksFollow, ChecksWait, GuessesApart
<1>8. LocksReasoned
  <2>1. \A s \in LockStores, i \in Ips : lock[s][i] = 0
    BY DEF LockInit
  <2>2. lockClock = 1
    BY DEF LockInit
  <2> QED
    BY <1>3, <2>1, <2>2 DEF LocksReasoned
<1> QED
  BY <1>2, <1>4, <1>5, <1>6, <1>7, <1>8 DEF LockInv

-----------------------------------------------------------------------------
\* No guess is added, and none that was forgotten or went without its lock
\* stops being one.
SameGuesses ==
  /\ wrong' \in Seq(Guess) /\ DOMAIN wrong' = DOMAIN wrong
  /\ \A n \in DOMAIN wrong :
       /\ wrong'[n].at = wrong[n].at /\ wrong'[n].store = wrong[n].store
       /\ wrong'[n].ip = wrong[n].ip /\ wrong'[n].by \in {wrong[n].by, "none"}
       /\ wrong'[n].forgotten \/ (/\ wrong'[n].by = wrong[n].by /\ ~wrong[n].forgotten
                                 /\ (wrong[n].unlocked => wrong'[n].unlocked))

LEMMA GuessesUnchanged == ASSUME LockTypes, UNCHANGED wrong PROVE SameGuesses
  BY DEF LockTypes, SameGuesses

LEMMA FewStay ==
  ASSUME LockTypes, SameGuesses, FewOpen PROVE FewOpen'
<1> SUFFICES ASSUME NEW s \in LockStores, NEW i \in Ips, NEW t \in 1 .. MaxLockClock
             PROVE  Cardinality(Open(s, i, t)') <= MaxFails - 1
  BY DEF FewOpen
<1>1. Open(s, i, t)' \subseteq Open(s, i, t)
  BY DEF Open, Guesses, SameGuesses
<1>2. Open(s, i, t) \subseteq DOMAIN wrong
  BY DEF Open, Guesses
<1>3. IsFiniteSet(Open(s, i, t))
  BY <1>2, GuessesFinite, FS_Subset
<1>4. Cardinality(Open(s, i, t)') <= Cardinality(Open(s, i, t))
  BY <1>1, <1>3, FS_Subset
<1>5. IsFiniteSet(Open(s, i, t)')
  BY <1>1, <1>3, FS_Subset
<1>6. Cardinality(Open(s, i, t)') \in Nat /\ Cardinality(Open(s, i, t)) \in Nat
  BY <1>3, <1>5, FS_CardinalityType
<1>7. Cardinality(Open(s, i, t)) <= MaxFails - 1
  BY DEF FewOpen
<1> QED
  BY <1>4, <1>6, <1>7, LockNumbers

LEMMA DueStays == ASSUME SameGuesses, NEW n \in DOMAIN wrong, Due(n)' PROVE Due(n)
  BY DEF SameGuesses, Due

LEMMA ApartStay == ASSUME SameGuesses, GuessesApart PROVE GuessesApart'
  BY DEF SameGuesses, GuessesApart, Due

LEMMA ReasonsStay ==
  ASSUME SameGuesses, NEW s, NEW i, NEW by, Reasoned(s, i, by) PROVE Reasoned(s, i, by)'
<1>1. \A t \in 1 .. MaxLockClock : Reasons(s, i, t)' = Reasons(s, i, t)
  BY DEF Reasons, SameGuesses
<1> QED
  BY <1>1 DEF Reasoned

LEMMA ReasonedLater ==
  ASSUME NEW s, NEW i, NEW by \in Nat, NEW later \in Nat, by <= later, Reasoned(s, i, by)
  PROVE  Reasoned(s, i, later)
  BY LockNumbers DEF Reasoned

\* What a step that adds no guess has to keep.
LEMMA LockStepKeeps ==
  ASSUME LockInv, SameGuesses, LockTypes', Underway', BucketsTell', LocksFollow', ChecksWait',
         LocksReasoned'
  PROVE  LockInv'
<1>1. FewOpen'
  BY FewStay DEF LockInv
<1>2. GuessesApart'
  BY ApartStay DEF LockInv
<1> QED
  BY <1>1, <1>2 DEF LockInv

-----------------------------------------------------------------------------
LEMMA StoreTyped ==
  ASSUME Underway, NEW c \in Clients, attempt[c].stage # "idle"
  PROVE  AttemptStore(c) \in LockStores /\ attempt[c].ip \in Ips
  BY DEF Underway, AttemptStore, LockStore, LockStores

\* A guess in numbers.
LEMMA GuessTyped ==
  ASSUME LockTypes, NEW n \in DOMAIN wrong
  PROVE  /\ wrong[n] \in Guess /\ wrong[n].at \in Nat /\ wrong[n].at > 0 /\ wrong[n].store \in LockStores
         /\ wrong[n].ip \in Ips /\ wrong[n].by \in Clients \cup {"none"}
         /\ lock[wrong[n].store][wrong[n].ip] \in Nat
<1>1. wrong[n] \in Guess
  BY DEF LockTypes
<1>2. /\ wrong[n].at \in 1 .. MaxLockClock /\ wrong[n].store \in LockStores
      /\ wrong[n].ip \in Ips /\ wrong[n].by \in Clients \cup {"none"}
  BY <1>1 DEF Guess
<1>3. lock[wrong[n].store][wrong[n].ip] \in Nat
  BY <1>2 DEF LockTypes
<1> QED
  BY <1>1, <1>2, <1>3, LockNumbers

LEMMA ClockTyped == ASSUME LockTypes PROVE lockClock \in Nat /\ lockClock >= 1 /\ lockClock <= MaxLockClock
  BY LockNumbers DEF LockTypes

\* Client c is where it was.
Stays(c) == attempt'[c] = attempt[c] /\ (attempt[c].stage # "idle" => AttemptStore(c)' = AttemptStore(c))

\* Client c comes past the check.
Arrives(c) ==
  /\ attempt[c].stage = "idle" /\ attempt'[c].stage = "checked"
  /\ lock[AttemptStore(c)'][attempt'[c].ip] <= lockClock

\* A step after which a client is idle, just past the check, or where it was,
\* and that sets no lock back but one whose guesses are forgotten.
LEMMA ClientsMove ==
  ASSUME LockInv, SameGuesses, LockTypes', lockClock' = lockClock,
         \A c \in Clients : Stays(c) \/ attempt'[c].stage = "idle" \/ Arrives(c),
         \A n \in DOMAIN wrong : Due(n)' =>
           \/ lock'[wrong[n].store][wrong[n].ip] >= lock[wrong[n].store][wrong[n].ip] /\ Stays(wrong[n].by)
           \/ lock'[wrong[n].store][wrong[n].ip] >= wrong[n].at + LockFor
  PROVE  LocksFollow' /\ ChecksWait'
<1>1. LockTypes /\ LocksFollow /\ ChecksWait
  BY DEF LockInv
<1>2. ASSUME NEW n \in DOMAIN wrong, Due(n)'
      PROVE  lock'[wrong[n].store][wrong[n].ip] >= wrong[n].at + LockFor \/ AboutTo(wrong[n].by, n)'
  <2>1. Due(n)
    BY <1>2, DueStays
  <2>2. CASE lock'[wrong[n].store][wrong[n].ip] >= wrong[n].at + LockFor
    BY <2>2
  <2>3. CASE lock'[wrong[n].store][wrong[n].ip] >= lock[wrong[n].store][wrong[n].ip] /\ Stays(wrong[n].by)
    <3>1. CASE lock[wrong[n].store][wrong[n].ip] >= wrong[n].at + LockFor
      <4>1. lock'[wrong[n].store][wrong[n].ip] \in Nat
        BY GuessTyped, <1>1 DEF LockTypes
      <4> QED
        BY <2>3, <3>1, <4>1, <1>1, GuessTyped, LockNumbers
    <3>2. CASE AboutTo(wrong[n].by, n)
      <4> SUFFICES ASSUME NEW d, d = wrong[n].by PROVE AboutTo(d, n)' /\ wrong'[n].by = d
        BY <3>2
      <4>1. wrong'[n].by = d
        BY <1>2 DEF SameGuesses, Due
      <4>2. attempt'[d] = attempt[d] /\ attempt[d].stage = "locking" /\ LastOf(d, n) /\ AttemptStore(d)' = AttemptStore(d)
        <5>1. AboutTo(d, n) /\ Stays(d)
          BY <2>3, <3>2
        <5> QED
          BY <5>1 DEF AboutTo, Stays
      <4>3. \A k \in DOMAIN wrong : wrong'[k].by = d => wrong[k].by = d \/ d = "none"
        BY DEF SameGuesses
      <4>4. d \in Clients
        BY <2>1 DEF Due
      <4>5. LastOf(d, n)'
        BY <4>1, <4>2, <4>3, <4>4, LockClients DEF LastOf, SameGuesses
      <4> QED
        BY <4>1, <4>2, <4>5 DEF AboutTo
    <3> QED
      BY <1>1, <2>1, <3>1, <3>2 DEF LocksFollow
  <2> QED
    BY <1>2, <2>2, <2>3
<1>3. LocksFollow'
  BY <1>2 DEF LocksFollow, SameGuesses
<1>4. ASSUME NEW n \in DOMAIN wrong, Due(n)', NEW c \in Clients, c = wrong[n].by,
             attempt'[c].stage = "checked", attempt'[c].ip = wrong[n].ip, AttemptStore(c)' = wrong[n].store
      PROVE  wrong[n].at + LockFor <= lockClock
  <2>1. Due(n)
    BY <1>4, DueStays
  <2>2. CASE Stays(c)
    BY <1>1, <1>4, <2>1, <2>2 DEF ChecksWait, Stays
  <2>3. CASE Arrives(c)
    <3>1. lock[wrong[n].store][wrong[n].ip] <= lockClock /\ ~AboutTo(c, n)
      BY <1>4, <2>3 DEF Arrives, AboutTo
    <3>2. lock[wrong[n].store][wrong[n].ip] >= wrong[n].at + LockFor
      BY <1>1, <1>4, <2>1, <3>1 DEF LocksFollow
    <3> QED
      BY <1>1, <3>1, <3>2, GuessTyped, ClockTyped, LockNumbers
  <2> QED
    BY <1>4, <2>2, <2>3
<1>5. ChecksWait'
  BY <1>4 DEF ChecksWait, SameGuesses, Due
<1> QED
  BY <1>3, <1>5

LEMMA BucketsStay ==
  ASSUME LockInv, SameGuesses, lockClock' = lockClock,
         \A s \in LockStores, i \in Ips : failures'[s][i] \subseteq failures[s][i],
         \A n \in DOMAIN wrong :
           n \in failures[wrong[n].store][wrong[n].ip] /\ ~wrong'[n].forgotten /\ wrong[n].at + Window > lockClock
           => n \in failures'[wrong[n].store][wrong[n].ip]
  PROVE  BucketsTell'
<1>1. BucketsTell
  BY DEF LockInv
<1>2. ASSUME NEW s \in LockStores, NEW i \in Ips, NEW n \in failures'[s][i]
      PROVE  n \in DOMAIN wrong' /\ wrong'[n].store = s /\ wrong'[n].ip = i
  BY <1>1, <1>2 DEF BucketsTell, SameGuesses
<1>3. ASSUME NEW n \in DOMAIN wrong
      PROVE  /\ wrong'[n].at <= lockClock
             /\ ~wrong'[n].forgotten /\ wrong'[n].at + Window > lockClock =>
                  n \in failures'[wrong'[n].store][wrong'[n].ip]
  BY <1>1, <1>3 DEF BucketsTell, SameGuesses
<1> QED
  BY <1>2, <1>3 DEF BucketsTell, SameGuesses

LEMMA ReasonedStay ==
  ASSUME LockInv, SameGuesses, lockClock' = lockClock,
         \A c \in Clients : Stays(c) \/ attempt'[c].stage # "locking",
         \A s \in LockStores, i \in Ips :
           \/ lock'[s][i] = lock[s][i] \/ lock'[s][i] = 0
           \/ lock'[s][i] = lockClock + LockFor /\ Reasoned(s, i, lockClock + LockFor)
  PROVE  LocksReasoned'
<1>1. LocksReasoned /\ lockClock \in Nat /\ LockFor \in Nat
  BY ClockTyped, LockNumbers DEF LockInv
<1>2. ASSUME NEW s \in LockStores, NEW i \in Ips
      PROVE  (lock[s][i] <= lockClock + LockFor /\ (lock[s][i] > 0 => Reasoned(s, i, lock[s][i])))'
  <2> SUFFICES ASSUME NEW l, l = lock'[s][i]
               PROVE  l <= lockClock + LockFor /\ (l > 0 => Reasoned(s, i, l)')
    OBVIOUS
  <2>1. CASE l = lock[s][i]
    <3>1. l <= lockClock + LockFor /\ (l > 0 => Reasoned(s, i, l))
      BY <1>1, <2>1 DEF LocksReasoned
    <3> QED
      BY <3>1, ReasonsStay
  <2>2. CASE l = 0
    BY <1>1, <2>2
  <2>3. CASE l = lockClock + LockFor /\ Reasoned(s, i, lockClock + LockFor)
    BY <1>1, <2>3, ReasonsStay
  <2> QED
    BY <2>1, <2>2, <2>3
<1>3. ASSUME NEW c \in Clients, attempt'[c].stage = "locking"
      PROVE  Reasoned(AttemptStore(c), attempt[c].ip, lockClock + LockFor)'
  <2> SUFFICES ASSUME NEW s, s = AttemptStore(c)', NEW i, i = attempt'[c].ip, NEW by, by = lockClock' + LockFor
               PROVE  Reasoned(s, i, by)'
    OBVIOUS
  <2>1. s = AttemptStore(c) /\ i = attempt[c].ip /\ by = lockClock + LockFor /\ attempt[c].stage = "locking"
    BY <1>3 DEF Stays
  <2>2. Reasoned(s, i, by)
    BY <1>1, <2>1 DEF LocksReasoned
  <2> QED
    BY <2>2, ReasonsStay
<1> QED
  BY <1>2, <1>3 DEF LocksReasoned

LEMMA UnderwayStays ==
  ASSUME LockInv,
         \A c \in Clients : \/ attempt'[c].stage = "idle"
                            \/ attempt'[c] = attempt[c] /\ tracker'[attempt[c].process] = tracker[attempt[c].process]
  PROVE  Underway'
  BY DEF LockInv, Underway

-----------------------------------------------------------------------------
\* The end of client c's login, counted or not.
LEMMA IdleTyped == NoAttempt \in AttemptRow /\ NoAttempt.stage = "idle"
  BY DEF NoAttempt, AttemptRow

LEMMA EndsTyped ==
  ASSUME LockTypes, NEW c \in Clients, attempt' = [attempt EXCEPT ![c] = NoAttempt]
  PROVE  /\ attempt' \in [Clients -> AttemptRow] /\ attempt'[c].stage = "idle"
         /\ \A d \in Clients \ {c} : attempt'[d] = attempt[d]
  BY IdleTyped DEF LockTypes

LEMMA UncountedKeeps ==
  ASSUME LockInv, NEW c \in Clients, Uncounted(c) PROVE LockInv'
<1>1. LockTypes /\ LocksFollow /\ Underway
  BY DEF LockInv
<1>2. /\ attempt' = [attempt EXCEPT ![c] = NoAttempt] /\ attempt[c].stage = "checked"
      /\ UNCHANGED <<tracker, failures, lock, lockClock, lockFaults, wrong>>
  BY DEF Uncounted
<1>3. /\ attempt' \in [Clients -> AttemptRow] /\ attempt'[c].stage = "idle"
      /\ \A d \in Clients \ {c} : attempt'[d] = attempt[d]
  BY <1>1, <1>2, EndsTyped
<1>4. SameGuesses
  BY <1>1, <1>2, GuessesUnchanged
<1>5. LockTypes'
  BY <1>1, <1>2, <1>3 DEF LockTypes
<1>6. \A d \in Clients : Stays(d) \/ attempt'[d].stage = "idle"
  BY <1>2, <1>3 DEF Stays, AttemptStore
<1>7. Underway'
  BY <1>2, <1>3, UnderwayStays
<1>8. BucketsTell'
  BY <1>2, <1>4, BucketsStay
<1>9. LocksFollow' /\ ChecksWait'
  <2>1. ASSUME NEW n \in DOMAIN wrong, Due(n)'
        PROVE  \/ lock'[wrong[n].store][wrong[n].ip] >= lock[wrong[n].store][wrong[n].ip] /\ Stays(wrong[n].by)
               \/ lock'[wrong[n].store][wrong[n].ip] >= wrong[n].at + LockFor
    <3>1. Due(n) /\ wrong[n].by \in Clients
      BY <1>4, <2>1, DueStays DEF Due
    <3>2. lock'[wrong[n].store][wrong[n].ip] >= lock[wrong[n].store][wrong[n].ip]
      BY <1>1, <1>2, GuessTyped
    <3>3. CASE wrong[n].by = c
      BY <1>1, <1>2, <3>1, <3>3 DEF LocksFollow, AboutTo
    <3>4. CASE wrong[n].by # c
      BY <1>2, <1>3, <3>1, <3>2, <3>4 DEF Stays, AttemptStore
    <3> QED
      BY <3>3, <3>4
  <2> QED
    BY <1>2, <1>4, <1>5, <1>6, <2>1, ClientsMove
<1>10. LocksReasoned'
  BY <1>2, <1>4, <1>6, ReasonedStay
<1> QED
  BY <1>4, <1>5, <1>7, <1>8, <1>9, <1>10, LockStepKeeps

LEMMA SetLockKeeps ==
  ASSUME LockInv, NEW c \in Clients, SetLock(c) PROVE LockInv'
<1> SUFFICES ASSUME NEW s, s = AttemptStore(c), NEW i, i = attempt[c].ip PROVE LockInv'
  OBVIOUS
<1>1. LockTypes /\ LocksFollow /\ Underway /\ BucketsTell /\ LocksReasoned
  BY DEF LockInv
<1>2. /\ attempt' = [attempt EXCEPT ![c] = NoAttempt] /\ attempt[c].stage = "locking"
      /\ lock' = [lock EXCEPT ![s][i] = lockClock + LockFor]
      /\ UNCHANGED <<tracker, failures, lockClock, lockFaults, wrong>>
  BY DEF SetLock
<1>3. /\ attempt' \in [Clients -> AttemptRow] /\ attempt'[c].stage = "idle"
      /\ \A d \in Clients \ {c} : attempt'[d] = attempt[d]
  BY <1>1, <1>2, EndsTyped
<1>4. SameGuesses
  BY <1>1, <1>2, GuessesUnchanged
<1>5. s \in LockStores /\ i \in Ips /\ lockClock + LockFor \in Nat
  BY <1>1, <1>2, StoreTyped, ClockTyped, LockNumbers
<1>6. /\ lock' \in [LockStores -> [Ips -> Nat]] /\ lock'[s][i] = lockClock + LockFor
      /\ \A q \in LockStores, k \in Ips : <<q, k>> # <<s, i>> => lock'[q][k] = lock[q][k]
  BY <1>1, <1>2, <1>5 DEF LockTypes
<1>7. LockTypes'
  BY <1>1, <1>2, <1>3, <1>6 DEF LockTypes
<1>8. \A d \in Clients : Stays(d) \/ attempt'[d].stage = "idle"
  BY <1>2, <1>3 DEF Stays, AttemptStore
<1>9. Underway'
  BY <1>2, <1>3, UnderwayStays
<1>10. BucketsTell'
  BY <1>2, <1>4, BucketsStay
<1>11. LocksFollow' /\ ChecksWait'
  <2>1. ASSUME NEW n \in DOMAIN wrong, Due(n)'
        PROVE  \/ lock'[wrong[n].store][wrong[n].ip] >= lock[wrong[n].store][wrong[n].ip] /\ Stays(wrong[n].by)
               \/ lock'[wrong[n].store][wrong[n].ip] >= wrong[n].at + LockFor
    <3>1. Due(n) /\ wrong[n].by \in Clients
      BY <1>4, <2>1, DueStays DEF Due
    <3>2. wrong[n].store \in LockStores /\ wrong[n].ip \in Ips /\ wrong[n].at \in Nat /\ wrong[n].at <= lockClock
      BY <1>1, GuessTyped DEF BucketsTell
    <3>3. CASE wrong[n].store = s /\ wrong[n].ip = i
      BY <1>1, <1>6, <3>2, <3>3, ClockTyped, LockNumbers
    <3>4. CASE ~(wrong[n].store = s /\ wrong[n].ip = i)
      <4>1. lock'[wrong[n].store][wrong[n].ip] = lock[wrong[n].store][wrong[n].ip]
        BY <1>6, <3>2, <3>4
      <4>2. CASE wrong[n].by = c
        BY <1>1, <3>1, <3>4, <4>1, <4>2 DEF LocksFollow, AboutTo, LastOf
      <4>3. CASE wrong[n].by # c
        <5>1. Stays(wrong[n].by)
          BY <1>2, <1>3, <3>1, <4>3 DEF Stays, AttemptStore
        <5> QED
          BY <1>1, <4>1, <5>1, GuessTyped
      <4> QED
        BY <4>2, <4>3
    <3> QED
      BY <3>3, <3>4
  <2> QED
    BY <1>2, <1>4, <1>7, <1>8, <2>1, ClientsMove
<1>12. LocksReasoned'
  <2>1. Reasoned(s, i, lockClock + LockFor)
    BY <1>1, <1>2 DEF LocksReasoned
  <2>2. ASSUME NEW q \in LockStores, NEW k \in Ips
        PROVE  \/ lock'[q][k] = lock[q][k] \/ lock'[q][k] = 0
               \/ lock'[q][k] = lockClock + LockFor /\ Reasoned(q, k, lockClock + LockFor)
    <3>1. CASE q = s /\ k = i
      BY <1>6, <2>1, <3>1
    <3>2. CASE ~(q = s /\ k = i)
      BY <1>6, <3>2
    <3> QED
      BY <3>1, <3>2
  <2> QED
    BY <1>2, <1>4, <1>8, <2>2, ReasonedStay
<1> QED
  BY <1>4, <1>7, <1>9, <1>10, <1>11, <1>12, LockStepKeeps

LEMMA LockLostKeeps ==
  ASSUME LockInv, NEW c \in Clients, LockLost(c) PROVE LockInv'
<1>1. LockTypes /\ LocksFollow /\ Underway
  BY DEF LockInv
<1>2. /\ attempt' = [attempt EXCEPT ![c] = NoAttempt] /\ attempt[c].stage = "locking"
      /\ wrong' = [n \in DOMAIN wrong |-> [wrong[n] EXCEPT !.unlocked = @ \/ LastOf(c, n)]]
      /\ lockFaults < MaxLockFaults /\ lockFaults' = lockFaults + 1
      /\ UNCHANGED <<tracker, failures, lock, lockClock>>
  BY DEF LockLost
<1>3. /\ attempt' \in [Clients -> AttemptRow] /\ attempt'[c].stage = "idle"
      /\ \A d \in Clients \ {c} : attempt'[d] = attempt[d]
  BY <1>1, <1>2, EndsTyped
<1>4. /\ DOMAIN wrong' = DOMAIN wrong
      /\ \A n \in DOMAIN wrong : /\ wrong'[n] \in Guess
                                 /\ wrong'[n].at = wrong[n].at /\ wrong'[n].store = wrong[n].store
                                 /\ wrong'[n].ip = wrong[n].ip /\ wrong'[n].by = wrong[n].by
                                 /\ wrong'[n].forgotten = wrong[n].forgotten
                                 /\ (wrong'[n].unlocked <=> wrong[n].unlocked \/ LastOf(c, n))
  <2>1. ASSUME NEW n \in DOMAIN wrong
        PROVE  /\ wrong'[n] \in Guess
               /\ wrong'[n].at = wrong[n].at /\ wrong'[n].store = wrong[n].store
               /\ wrong'[n].ip = wrong[n].ip /\ wrong'[n].by = wrong[n].by
               /\ wrong'[n].forgotten = wrong[n].forgotten
               /\ (wrong'[n].unlocked <=> wrong[n].unlocked \/ LastOf(c, n))
    <3>1. wrong[n] \in Guess
      BY <1>1, GuessTyped
    <3> DEFINE u == wrong[n].unlocked \/ LastOf(c, n)
    <3>2. wrong'[n] = [wrong[n] EXCEPT !.unlocked = u] /\ u \in BOOLEAN
      BY <1>2
    <3> HIDE DEF u
    <3>3. /\ wrong'[n] \in Guess
          /\ wrong'[n].at = wrong[n].at /\ wrong'[n].store = wrong[n].store
          /\ wrong'[n].ip = wrong[n].ip /\ wrong'[n].by = wrong[n].by
          /\ wrong'[n].forgotten = wrong[n].forgotten /\ wrong'[n].unlocked = u
      BY <3>1, <3>2 DEF Guess
    <3> QED
      BY <3>3 DEF u
  <2> QED
    BY <1>2, <2>1
<1>5. wrong' \in Seq(Guess)
  <2>1. wrong' = [n \in 1 .. Len(wrong) |-> wrong'[n]] /\ Len(wrong) \in Nat
    BY <1>1, <1>2, GuessesFinite
  <2> QED
    BY <1>1, <1>4, <2>1, GuessesFinite
<1>6. SameGuesses
  BY <1>4, <1>5 DEF SameGuesses
<1>7. LockTypes'
  BY <1>1, <1>2, <1>3, <1>5, LockNumbers DEF LockTypes
<1>8. \A d \in Clients : Stays(d) \/ attempt'[d].stage = "idle"
  BY <1>2, <1>3 DEF Stays, AttemptStore
<1>9. Underway'
  BY <1>2, <1>3, UnderwayStays
<1>10. BucketsTell'
  BY <1>2, <1>6, BucketsStay
<1>11. LocksFollow' /\ ChecksWait'
  <2>1. ASSUME NEW n \in DOMAIN wrong, Due(n)'
        PROVE  \/ lock'[wrong[n].store][wrong[n].ip] >= lock[wrong[n].store][wrong[n].ip] /\ Stays(wrong[n].by)
               \/ lock'[wrong[n].store][wrong[n].ip] >= wrong[n].at + LockFor
    <3>1. Due(n) /\ wrong[n].by \in Clients /\ ~LastOf(c, n)
      BY <1>4, <1>6, <2>1, DueStays DEF Due
    <3>2. lock'[wrong[n].store][wrong[n].ip] >= lock[wrong[n].store][wrong[n].ip]
      BY <1>1, <1>2, GuessTyped
    <3>3. CASE wrong[n].by = c
      BY <1>1, <1>2, <3>1, <3>3 DEF LocksFollow, AboutTo
    <3>4. CASE wrong[n].by # c
      <4>1. wrong'[n].by = wrong[n].by /\ attempt'[wrong[n].by] = attempt[wrong[n].by]
        BY <1>3, <1>4, <3>1, <3>4
      <4> QED
        BY <1>2, <3>2, <4>1 DEF Stays, AttemptStore
    <3> QED
      BY <3>3, <3>4
  <2> QED
    BY <1>2, <1>6, <1>7, <1>8, <2>1, ClientsMove
<1>12. LocksReasoned'
  BY <1>2, <1>6, <1>8, ReasonedStay
<1> QED
  BY <1>6, <1>7, <1>9, <1>10, <1>11, <1>12, LockStepKeeps

-----------------------------------------------------------------------------
\* Guesses of which some are forgotten.
LEMMA Forgotten ==
  ASSUME LockTypes, NEW Told,
         wrong' = [n \in DOMAIN wrong |-> IF n \in Told THEN Forgot(wrong[n]) ELSE wrong[n]]
  PROVE  SameGuesses /\ \A n \in DOMAIN wrong : n \in Told => wrong'[n].forgotten
<1>1. ASSUME NEW n \in DOMAIN wrong, n \in Told
      PROVE  /\ wrong'[n] \in Guess
             /\ wrong'[n].at = wrong[n].at /\ wrong'[n].store = wrong[n].store
             /\ wrong'[n].ip = wrong[n].ip /\ wrong'[n].by = "none" /\ wrong'[n].forgotten
  <2>1. wrong[n] \in Guess /\ wrong'[n] = Forgot(wrong[n])
    BY <1>1, GuessTyped
  <2> QED
    BY <2>1 DEF Guess, Forgot
<1>2. DOMAIN wrong' = DOMAIN wrong /\ \A n \in DOMAIN wrong : n \notin Told => wrong'[n] = wrong[n]
  OBVIOUS
<1>3. wrong' \in Seq(Guess)
  <2>1. wrong' = [n \in 1 .. Len(wrong) |-> wrong'[n]] /\ Len(wrong) \in Nat
    BY GuessesFinite
  <2>2. \A n \in DOMAIN wrong : wrong'[n] \in Guess
    BY <1>1, <1>2, GuessTyped
  <2> QED
    BY <2>1, <2>2, GuessesFinite
<1> QED
  BY <1>1, <1>2, <1>3 DEF SameGuesses

\* store.clear, by the login of client c or by an operator.
LEMMA ClearKeeps ==
  ASSUME LockInv, NEW s \in LockStores, NEW i \in Ips, Clear(s, i), lockClock' = lockClock,
         lockFaults' \in 0 .. MaxLockFaults, tracker' \in [Processes -> Backings],
         attempt' \in [Clients -> AttemptRow],
         \A c \in Clients : \/ attempt'[c] = attempt[c] /\ tracker'[attempt[c].process] = tracker[attempt[c].process]
                            \/ attempt'[c].stage = "idle" /\ attempt[c].stage # "locking"
  PROVE  LockInv'
<1> DEFINE Told == {n \in DOMAIN wrong : wrong[n].store = s /\ wrong[n].ip = i}
<1>1. LockTypes /\ LocksFollow /\ Underway
  BY DEF LockInv
<1>2. wrong' = [n \in DOMAIN wrong |-> IF n \in Told THEN Forgot(wrong[n]) ELSE wrong[n]]
  BY DEF Clear
<1>3. SameGuesses /\ \A n \in DOMAIN wrong : wrong[n].store = s /\ wrong[n].ip = i => wrong'[n].forgotten
  <2> HIDE DEF Told
  <2>1. SameGuesses /\ \A n \in DOMAIN wrong : n \in Told => wrong'[n].forgotten
    BY <1>1, <1>2, Forgotten
  <2> QED
    BY <2>1 DEF Told
<1> HIDE DEF Told
<1>4. /\ failures' = [failures EXCEPT ![s][i] = {}] /\ lock' = [lock EXCEPT ![s][i] = 0]
  BY DEF Clear
<1>5. /\ failures' \in [LockStores -> [Ips -> SUBSET Nat]] /\ lock' \in [LockStores -> [Ips -> Nat]]
      /\ failures'[s][i] = {} /\ lock'[s][i] = 0
      /\ \A q \in LockStores, k \in Ips : ~(q = s /\ k = i) =>
            failures'[q][k] = failures[q][k] /\ lock'[q][k] = lock[q][k]
  BY <1>1, <1>4 DEF LockTypes
<1>6. LockTypes'
  BY <1>1, <1>3, <1>5 DEF LockTypes, SameGuesses
<1>7. \A c \in Clients : Stays(c) \/ attempt'[c].stage = "idle"
  BY DEF Stays, AttemptStore
<1>8. Underway'
  BY UnderwayStays
<1>9. BucketsTell'
  <2>1. \A q \in LockStores, k \in Ips : failures'[q][k] \subseteq failures[q][k]
    BY <1>5
  <2>2. ASSUME NEW n \in DOMAIN wrong, n \in failures[wrong[n].store][wrong[n].ip], ~wrong'[n].forgotten
        PROVE  n \in failures'[wrong[n].store][wrong[n].ip]
    BY <1>1, <1>3, <1>5, <2>2, GuessTyped
  <2> QED
    BY <1>3, <2>1, <2>2, BucketsStay
<1>10. LocksFollow' /\ ChecksWait'
  <2>1. ASSUME NEW n \in DOMAIN wrong, Due(n)'
        PROVE  \/ lock'[wrong[n].store][wrong[n].ip] >= lock[wrong[n].store][wrong[n].ip] /\ Stays(wrong[n].by)
               \/ lock'[wrong[n].store][wrong[n].ip] >= wrong[n].at + LockFor
    <3>1. Due(n) /\ wrong[n].by \in Clients /\ wrong'[n].by = wrong[n].by /\ ~wrong'[n].forgotten
      BY <1>3, <2>1, DueStays DEF Due, SameGuesses
    <3>2. lock'[wrong[n].store][wrong[n].ip] = lock[wrong[n].store][wrong[n].ip]
      BY <1>1, <1>3, <1>5, <3>1, GuessTyped
    <3>3. CASE attempt'[wrong[n].by] = attempt[wrong[n].by]
               /\ tracker'[attempt[wrong[n].by].process] = tracker[attempt[wrong[n].by].process]
      <4>1. lock'[wrong[n].store][wrong[n].ip] >= lock[wrong[n].store][wrong[n].ip]
        BY <1>1, <3>2, GuessTyped
      <4> QED
        BY <3>1, <3>3, <4>1 DEF Stays, AttemptStore
    <3>4. CASE attempt[wrong[n].by].stage # "locking"
      BY <1>1, <3>1, <3>2, <3>4 DEF LocksFollow, AboutTo
    <3> QED
      BY <3>1, <3>3, <3>4
  <2> QED
    BY <1>3, <1>6, <1>7, <2>1, ClientsMove
<1>11. LocksReasoned'
  BY <1>3, <1>5, <1>7, ReasonedStay
<1> QED
  BY <1>3, <1>6, <1>8, <1>9, <1>10, <1>11, LockStepKeeps

LEMMA RightKeeps ==
  ASSUME LockInv, NEW c \in Clients, RightPassword(c) PROVE LockInv'
<1> SUFFICES ASSUME NEW s, s = AttemptStore(c), NEW i, i = attempt[c].ip PROVE LockInv'
  OBVIOUS
<1>1. LockTypes /\ Underway
  BY DEF LockInv
<1>2. /\ attempt' = [attempt EXCEPT ![c] = NoAttempt] /\ attempt[c].stage = "checked"
      /\ Clear(s, i) /\ UNCHANGED <<tracker, lockClock, lockFaults>>
  BY DEF RightPassword
<1>3. /\ attempt' \in [Clients -> AttemptRow] /\ attempt'[c].stage = "idle"
      /\ \A d \in Clients \ {c} : attempt'[d] = attempt[d]
  BY <1>1, <1>2, EndsTyped
<1>4. s \in LockStores /\ i \in Ips
  BY <1>1, <1>2, StoreTyped
<1>5. lockFaults' \in 0 .. MaxLockFaults /\ tracker' \in [Processes -> Backings]
  BY <1>1, <1>2 DEF LockTypes
<1> QED
  BY <1>2, <1>3, <1>4, <1>5, ClearKeeps

LEMMA UnlockKeeps ==
  ASSUME LockInv, NEW p \in Processes, NEW i \in Ips, NEW backing \in Backings, Unlock(p, i, backing)
  PROVE  LockInv'
<1> SUFFICES ASSUME NEW s, s = LockStore(p, backing) PROVE LockInv'
  OBVIOUS
<1>1. LockTypes /\ Underway
  BY DEF LockInv
<1>2. /\ UNCHANGED <<attempt, lockClock>> /\ Clear(s, i)
      /\ tracker' = [tracker EXCEPT ![p] = backing] /\ (tracker[p] # "unbuilt" => backing = tracker[p])
      /\ lockFaults < MaxLockFaults /\ lockFaults' = lockFaults + 1
  BY DEF Unlock
<1>3. s \in LockStores
  BY DEF LockStore, LockStores
<1>4. lockFaults' \in 0 .. MaxLockFaults /\ tracker' \in [Processes -> Backings]
  BY <1>1, <1>2, LockNumbers DEF LockTypes
<1>5. attempt' \in [Clients -> AttemptRow]
  BY <1>1, <1>2 DEF LockTypes
<1>6. ASSUME NEW c \in Clients
      PROVE  \/ attempt'[c] = attempt[c] /\ tracker'[attempt[c].process] = tracker[attempt[c].process]
             \/ attempt'[c].stage = "idle" /\ attempt[c].stage # "locking"
  BY <1>1, <1>2 DEF LockTypes, Underway
<1> QED
  BY <1>2, <1>3, <1>4, <1>5, <1>6, ClearKeeps

-----------------------------------------------------------------------------
LEMMA CheckKeeps ==
  ASSUME LockInv, NEW c \in Clients, NEW p \in Processes, NEW i \in LoginIps, NEW backing \in Backings,
         CheckLock(c, p, i, backing)
  PROVE  LockInv'
<1> SUFFICES ASSUME NEW s, s = LockStore(p, backing) PROVE LockInv'
  OBVIOUS
<1> DEFINE row == [stage |-> "checked", process |-> p, ip |-> i]
<1>1. LockTypes /\ Underway /\ LocksFollow /\ LocksReasoned
  BY DEF LockInv
<1>2. /\ UNCHANGED <<lock, lockClock, lockFaults, wrong>> /\ attempt[c].stage = "idle"
      /\ tracker' = [tracker EXCEPT ![p] = backing]
      /\ (tracker[p] # "unbuilt" => backing = tracker[p]) /\ backing # "unbuilt"
      /\ failures' = [failures EXCEPT ![s][i] = Recent(s, @)]
      /\ attempt' = IF Locked(s, i) THEN attempt ELSE [attempt EXCEPT ![c] = row]
  BY DEF CheckLock
<1>3. s \in LockStores /\ i \in Ips
  BY DEF LockStore, LockStores, Ips
<1>4. row \in AttemptRow
  BY <1>3 DEF AttemptRow
<1>5. SameGuesses
  BY <1>1, <1>2, GuessesUnchanged
<1>6. tracker' \in [Processes -> Backings] /\ attempt' \in [Clients -> AttemptRow] /\ tracker'[p] = backing
  BY <1>1, <1>2, <1>4 DEF LockTypes
<1>7. Recent(s, failures[s][i]) \subseteq failures[s][i]
  BY DEF Recent
<1>8. /\ failures' \in [LockStores -> [Ips -> SUBSET Nat]]
      /\ failures'[s][i] = Recent(s, failures[s][i])
      /\ \A q \in LockStores, k \in Ips : ~(q = s /\ k = i) => failures'[q][k] = failures[q][k]
  <2> HIDE DEF row
  <2>1. failures[s][i] \in SUBSET Nat
    BY <1>1, <1>3 DEF LockTypes
  <2>2. Recent(s, failures[s][i]) \in SUBSET Nat
    BY <1>7, <2>1
  <2> QED
    BY <1>1, <1>2, <1>3, <2>2 DEF LockTypes
<1>9. LockTypes'
  BY <1>1, <1>2, <1>6, <1>8 DEF LockTypes
<1>10. ASSUME NEW d \in Clients, attempt[d].stage # "idle"
       PROVE  attempt'[d] = attempt[d] /\ tracker'[attempt[d].process] = tracker[attempt[d].process]
  BY <1>1, <1>2, <1>10 DEF LockTypes, Underway
<1>11. CASE attempt' = attempt
  <2>1. \A d \in Clients : Stays(d)
    BY <1>10, <1>11 DEF Stays, AttemptStore
  <2>2. Underway'
    BY <1>10, <1>11, UnderwayStays
  <2>3. BucketsTell'
    <3>1. \A q \in LockStores, k \in Ips : failures'[q][k] \subseteq failures[q][k]
      BY <1>7, <1>8
    <3>2. ASSUME NEW n \in DOMAIN wrong, n \in failures[wrong[n].store][wrong[n].ip],
                 wrong[n].at + Window > lockClock
          PROVE  n \in failures'[wrong[n].store][wrong[n].ip]
      BY <1>1, <1>8, <3>2, GuessTyped, ClockTyped, LockNumbers DEF Recent
    <3> QED
      BY <1>2, <1>5, <3>1, <3>2, BucketsStay
  <2>4. LocksFollow' /\ ChecksWait'
    <3>1. ASSUME NEW n \in DOMAIN wrong, Due(n)'
          PROVE  \/ lock'[wrong[n].store][wrong[n].ip] >= lock[wrong[n].store][wrong[n].ip] /\ Stays(wrong[n].by)
                 \/ lock'[wrong[n].store][wrong[n].ip] >= wrong[n].at + LockFor
      <4>1. lock'[wrong[n].store][wrong[n].ip] >= lock[wrong[n].store][wrong[n].ip]
        BY <1>1, <1>2, GuessTyped
      <4>2. wrong[n].by \in Clients
        BY <1>2, <3>1 DEF Due
      <4> QED
        BY <1>2, <1>10, <1>11, <4>1, <4>2 DEF Stays, AttemptStore
    <3> QED
      BY <1>2, <1>5, <1>9, <2>1, <3>1, ClientsMove
  <2>5. LocksReasoned'
    BY <1>2, <1>5, <2>1, ReasonedStay
  <2> QED
    BY <1>5, <1>9, <2>2, <2>3, <2>4, <2>5, LockStepKeeps
<1>12. CASE attempt' = [attempt EXCEPT ![c] = row] /\ ~Locked(s, i)
  <2>1. attempt'[c] = row /\ row.stage = "checked" /\ row.process = p /\ row.ip = i
        /\ \A d \in Clients \ {c} : attempt'[d] = attempt[d]
    BY <1>1, <1>12 DEF LockTypes
  <2>2. AttemptStore(c)' = s
    BY <1>6, <2>1 DEF AttemptStore
  <2>3. Arrives(c)
    <3>1. lock[s][i] <= lockClock
      BY <1>1, <1>3, <1>12, ClockTyped DEF Locked, LockTypes
    <3> QED
      BY <1>2, <2>1, <2>2, <3>1 DEF Arrives
  <2>4. \A d \in Clients : Stays(d) \/ attempt'[d].stage = "idle" \/ Arrives(d)
    BY <1>10, <2>1, <2>3 DEF Stays, AttemptStore
  <2>5. Underway'
    <3>1. ASSUME NEW d \in Clients, attempt'[d].stage # "idle"
          PROVE  attempt'[d].process \in Processes /\ attempt'[d].ip \in Ips
                 /\ tracker'[attempt'[d].process] # "unbuilt"
      <4>1. CASE d = c
        BY <1>2, <1>3, <1>6, <2>1, <4>1
      <4>2. CASE d # c
        BY <1>1, <1>10, <2>1, <3>1, <4>2 DEF Underway
      <4> QED
        BY <4>1, <4>2
    <3> QED
      BY <3>1 DEF Underway
  <2>6. BucketsTell'
    <3>1. \A q \in LockStores, k \in Ips : failures'[q][k] \subseteq failures[q][k]
      BY <1>7, <1>8
    <3>2. ASSUME NEW n \in DOMAIN wrong, n \in failures[wrong[n].store][wrong[n].ip],
                 wrong[n].at + Window > lockClock
          PROVE  n \in failures'[wrong[n].store][wrong[n].ip]
      BY <1>1, <1>8, <3>2, GuessTyped, ClockTyped, LockNumbers DEF Recent
    <3> QED
      BY <1>2, <1>5, <3>1, <3>2, BucketsStay
  <2>7. LocksFollow' /\ ChecksWait'
    <3>1. ASSUME NEW n \in DOMAIN wrong, Due(n)'
          PROVE  \/ lock'[wrong[n].store][wrong[n].ip] >= lock[wrong[n].store][wrong[n].ip] /\ Stays(wrong[n].by)
                 \/ lock'[wrong[n].store][wrong[n].ip] >= wrong[n].at + LockFor
      <4>1. lock'[wrong[n].store][wrong[n].ip] >= lock[wrong[n].store][wrong[n].ip]
        BY <1>1, <1>2, GuessTyped
      <4>2. wrong[n].by \in Clients /\ Due(n) /\ wrong'[n].by = wrong[n].by
        BY <1>2, <1>5, <3>1, DueStays DEF Due
      <4>3. CASE wrong[n].by = c
        BY <1>1, <1>2, <4>2, <4>3 DEF LocksFollow, AboutTo
      <4>4. CASE wrong[n].by # c
        BY <1>10, <2>1, <4>1, <4>2, <4>4 DEF Stays, AttemptStore
      <4> QED
        BY <4>3, <4>4
    <3> QED
      BY <1>2, <1>5, <1>9, <2>4, <3>1, ClientsMove
  <2>8. LocksReasoned'
    <3>1. \A d \in Clients : Stays(d) \/ attempt'[d].stage # "locking"
      BY <2>1, <2>4 DEF Arrives
    <3> QED
      BY <1>2, <1>5, <3>1, ReasonedStay
  <2> QED
    BY <1>5, <1>9, <2>5, <2>6, <2>7, <2>8, LockStepKeeps
<1> QED
  BY <1>2, <1>11, <1>12

LEMMA RestartKeeps ==
  ASSUME LockInv, NEW p \in Processes, RestartProcess(p) PROVE LockInv'
<1> DEFINE Told == {n \in DOMAIN wrong : wrong[n].store = p}
<1>1. LockTypes /\ LocksFollow /\ Underway /\ p \in LockStores
  BY DEF LockInv, LockStores
<1>2. wrong' = [n \in DOMAIN wrong |-> IF n \in Told THEN Forgot(wrong[n]) ELSE wrong[n]]
  BY DEF RestartProcess
<1>3. SameGuesses /\ \A n \in DOMAIN wrong : wrong[n].store = p => wrong'[n].forgotten
  <2> HIDE DEF Told
  <2>1. SameGuesses /\ \A n \in DOMAIN wrong : n \in Told => wrong'[n].forgotten
    BY <1>1, <1>2, Forgotten
  <2> QED
    BY <2>1 DEF Told
<1> HIDE DEF Told
<1>4. /\ tracker' = [tracker EXCEPT ![p] = "unbuilt"]
      /\ failures' = [failures EXCEPT ![p] = [i \in Ips |-> {}]]
      /\ lock' = [lock EXCEPT ![p] = [i \in Ips |-> 0]]
      /\ attempt' = [c \in Clients |-> IF attempt[c].process = p THEN NoAttempt ELSE attempt[c]]
      /\ lockClock' = lockClock /\ lockFaults < MaxLockFaults /\ lockFaults' = lockFaults + 1
      /\ ~Blocked(p)
  BY DEF RestartProcess
<1>5. /\ failures' \in [LockStores -> [Ips -> SUBSET Nat]] /\ lock' \in [LockStores -> [Ips -> Nat]]
      /\ \A k \in Ips : failures'[p][k] = {} /\ lock'[p][k] = 0
      /\ \A q \in LockStores \ {p}, k \in Ips : failures'[q][k] = failures[q][k] /\ lock'[q][k] = lock[q][k]
  <2>1. [i \in Ips |-> {}] \in [Ips -> SUBSET Nat] /\ [i \in Ips |-> 0] \in [Ips -> Nat]
    OBVIOUS
  <2>2. failures' \in [LockStores -> [Ips -> SUBSET Nat]] /\ lock' \in [LockStores -> [Ips -> Nat]]
    BY <1>1, <1>4, <2>1 DEF LockTypes
  <2>3. \A k \in Ips : failures'[p][k] = {} /\ lock'[p][k] = 0
    BY <1>1, <1>4 DEF LockTypes
  <2>4. \A q \in LockStores \ {p} : failures'[q] = failures[q] /\ lock'[q] = lock[q]
    BY <1>1, <1>4 DEF LockTypes
  <2> QED
    BY <2>2, <2>3, <2>4
<1>6. attempt' \in [Clients -> AttemptRow] /\ tracker' \in [Processes -> Backings]
      /\ lockFaults' \in 0 .. MaxLockFaults
  <2>1. attempt' \in [Clients -> AttemptRow]
    BY <1>1, <1>4, IdleTyped DEF LockTypes
  <2>2. tracker' \in [Processes -> Backings]
    BY <1>1, <1>4 DEF LockTypes, Backings
  <2>3. lockFaults' \in 0 .. MaxLockFaults
    BY <1>1, <1>4, LockNumbers DEF LockTypes
  <2> QED
    BY <2>1, <2>2, <2>3
<1>7. LockTypes'
  BY <1>1, <1>3, <1>4, <1>5, <1>6 DEF LockTypes, SameGuesses
<1>8. ASSUME NEW c \in Clients
      PROVE  \/ attempt'[c] = attempt[c] /\ tracker'[attempt[c].process] = tracker[attempt[c].process]
             \/ attempt'[c].stage = "idle" /\ attempt[c].stage # "locking"
  <2>1. CASE attempt[c].process = p
    BY <1>4, <2>1, IdleTyped DEF Blocked
  <2>2. CASE attempt[c].process # p
    BY <1>1, <1>4, <2>2 DEF LockTypes
  <2> QED
    BY <2>1, <2>2
<1>9. \A c \in Clients : Stays(c) \/ attempt'[c].stage = "idle"
  BY <1>8 DEF Stays, AttemptStore
<1>10. Underway'
  BY <1>8, UnderwayStays
<1>11. BucketsTell'
  <2>1. \A q \in LockStores, k \in Ips : failures'[q][k] \subseteq failures[q][k]
    BY <1>5
  <2>2. ASSUME NEW n \in DOMAIN wrong, n \in failures[wrong[n].store][wrong[n].ip], ~wrong'[n].forgotten
        PROVE  n \in failures'[wrong[n].store][wrong[n].ip]
    BY <1>1, <1>3, <1>5, <2>2, GuessTyped
  <2> QED
    BY <1>3, <1>4, <2>1, <2>2, BucketsStay
<1>12. LocksFollow' /\ ChecksWait'
  <2>1. ASSUME NEW n \in DOMAIN wrong, Due(n)'
        PROVE  \/ lock'[wrong[n].store][wrong[n].ip] >= lock[wrong[n].store][wrong[n].ip] /\ Stays(wrong[n].by)
               \/ lock'[wrong[n].store][wrong[n].ip] >= wrong[n].at + LockFor
    <3>1. Due(n) /\ wrong[n].by \in Clients /\ wrong'[n].by = wrong[n].by /\ ~wrong'[n].forgotten
      BY <1>3, <2>1, DueStays DEF Due, SameGuesses
    <3>2. lock'[wrong[n].store][wrong[n].ip] = lock[wrong[n].store][wrong[n].ip]
      BY <1>1, <1>3, <1>5, <3>1, GuessTyped
    <3>3. CASE attempt'[wrong[n].by] = attempt[wrong[n].by]
               /\ tracker'[attempt[wrong[n].by].process] = tracker[attempt[wrong[n].by].process]
      <4>1. lock'[wrong[n].store][wrong[n].ip] >= lock[wrong[n].store][wrong[n].ip]
        BY <1>1, <3>2, GuessTyped
      <4> QED
        BY <3>1, <3>3, <4>1 DEF Stays, AttemptStore
    <3>4. CASE attempt[wrong[n].by].stage # "locking"
      BY <1>1, <3>1, <3>2, <3>4 DEF LocksFollow, AboutTo
    <3> QED
      BY <1>8, <3>1, <3>3, <3>4
  <2> QED
    BY <1>3, <1>4, <1>7, <1>9, <2>1, ClientsMove
<1>13. LocksReasoned'
  <2>1. \A q \in LockStores, k \in Ips : lock'[q][k] = lock[q][k] \/ lock'[q][k] = 0
    BY <1>5
  <2> QED
    BY <1>3, <1>4, <1>9, <2>1, ReasonedStay
<1> QED
  BY <1>3, <1>7, <1>10, <1>11, <1>12, <1>13, LockStepKeeps

LEMMA LockTickKeeps ==
  ASSUME LockInv, LockTick PROVE LockInv'
<1>1. /\ LockTypes /\ LocksFollow /\ Underway /\ BucketsTell /\ ChecksWait /\ LocksReasoned
      /\ UNCHANGED <<tracker, failures, lock, attempt, lockFaults, wrong>> /\ lockClock' = lockClock + 1
      /\ lockClock < MaxLockClock
  BY DEF LockInv, LockTick
<1>2. lockClock \in Nat /\ lockClock' \in Nat /\ lockClock <= lockClock'
  BY <1>1, ClockTyped
<1>3. SameGuesses
  BY <1>1, GuessesUnchanged
<1>4. LockTypes'
  BY <1>1, ClockTyped, LockNumbers DEF LockTypes
<1>5. Underway' /\ LocksFollow'
  BY <1>1 DEF Underway, LocksFollow, Due, AboutTo, LastOf, AttemptStore
<1>6. ChecksWait'
  <2>1. ASSUME NEW n \in DOMAIN wrong, wrong[n].at + LockFor <= lockClock
        PROVE  wrong[n].at + LockFor <= lockClock'
    BY <1>1, <1>2, <2>1, GuessTyped, LockNumbers
  <2> QED
    BY <1>1, <2>1 DEF ChecksWait, Due, AttemptStore
<1>7. BucketsTell'
  <2>1. ASSUME NEW n \in DOMAIN wrong
        PROVE  /\ wrong[n].at <= lockClock'
               /\ ~wrong[n].forgotten /\ wrong[n].at + Window > lockClock' =>
                    n \in failures[wrong[n].store][wrong[n].ip]
    BY <1>1, <1>2, GuessTyped, LockNumbers DEF BucketsTell
  <2> QED
    BY <1>1, <2>1 DEF BucketsTell
<1>8. LocksReasoned'
  <2>1. ASSUME NEW s, NEW i, Reasoned(s, i, lockClock + LockFor)
        PROVE  Reasoned(s, i, lockClock' + LockFor)
    <3>1. lockClock + LockFor \in Nat /\ (lockClock + 1) + LockFor \in Nat
          /\ lockClock + LockFor <= (lockClock + 1) + LockFor
      BY <1>2, LockNumbers
    <3> QED
      BY <1>1, <2>1, <3>1, ReasonedLater
  <2>2. ASSUME NEW s \in LockStores, NEW i \in Ips
        PROVE  lock[s][i] <= lockClock' + LockFor
    <3>1. lock[s][i] \in Nat /\ lock[s][i] <= lockClock + LockFor
      BY <1>1 DEF LockTypes, LocksReasoned
    <3> QED
      BY <1>2, <3>1, LockNumbers
  <2>3. ASSUME NEW s, NEW i, NEW t PROVE Reasoned(s, i, t)' <=> Reasoned(s, i, t)
    BY <1>1 DEF Reasoned, Reasons
  <2>4. ASSUME NEW s \in LockStores, NEW i \in Ips, lock[s][i] > 0 PROVE Reasoned(s, i, lock[s][i])'
    BY <1>1, <2>3, <2>4 DEF LocksReasoned
  <2>5. ASSUME NEW c \in Clients, attempt[c].stage = "locking"
        PROVE  Reasoned(AttemptStore(c), attempt[c].ip, lockClock' + LockFor)
    <3>1. Reasoned(AttemptStore(c), attempt[c].ip, lockClock + LockFor)
      BY <1>1, <2>5 DEF LocksReasoned
    <3> QED
      BY <2>1, <3>1
  <2>6. \A c : AttemptStore(c)' = AttemptStore(c)
    BY <1>1 DEF AttemptStore
  <2> QED
    BY <1>1, <2>2, <2>3, <2>4, <2>5, <2>6 DEF LocksReasoned
<1> QED
  BY <1>3, <1>4, <1>5, <1>6, <1>7, <1>8, LockStepKeeps

-----------------------------------------------------------------------------
\* A wrong password adds one guess to those there are.
OneMore(g) ==
  /\ wrong' \in Seq(Guess) /\ DOMAIN wrong' = DOMAIN wrong \cup {Len(wrong) + 1}
  /\ Len(wrong) + 1 \notin DOMAIN wrong /\ wrong'[Len(wrong) + 1] = g
  /\ \A n \in DOMAIN wrong : wrong'[n] = wrong[n] /\ n < Len(wrong) + 1

LEMMA GuessAdded ==
  ASSUME LockTypes, NEW g \in Guess, wrong' = Append(wrong, g) PROVE OneMore(g)
<1>1. wrong \in Seq(Guess) /\ Len(wrong) \in Nat
  BY DEF LockTypes
<1>2. wrong' \in Seq(Guess) /\ Len(wrong') = Len(wrong) + 1 /\ wrong'[Len(wrong) + 1] = g
  BY <1>1
<1>3. \A n \in 1 .. Len(wrong) : wrong'[n] = wrong[n]
  BY <1>1
<1>4. DOMAIN wrong = 1 .. Len(wrong) /\ DOMAIN wrong' = 1 .. (Len(wrong) + 1)
  BY <1>1, <1>2
<1> QED
  BY <1>1, <1>2, <1>3, <1>4 DEF OneMore

LEMMA ReasonsGrow ==
  ASSUME LockTypes, LockTypes', NEW g, OneMore(g), NEW s, NEW i, NEW by, Reasoned(s, i, by)
  PROVE  Reasoned(s, i, by)'
<1>1. PICK t \in 1 .. MaxLockClock : t + LockFor <= by /\ Cardinality(Reasons(s, i, t)) >= MaxFails
  BY DEF Reasoned
<1>2. Reasons(s, i, t) \subseteq Reasons(s, i, t)' /\ Reasons(s, i, t)' \subseteq DOMAIN wrong'
  BY DEF Reasons, OneMore
<1>3. IsFiniteSet(DOMAIN wrong') /\ IsFiniteSet(DOMAIN wrong)
  <2>1. Len(wrong') \in Nat /\ DOMAIN wrong' = 1 .. Len(wrong')
    BY DEF LockTypes
  <2> QED
    BY <2>1, FS_Interval, GuessesFinite
<1>4. IsFiniteSet(Reasons(s, i, t)') /\ IsFiniteSet(Reasons(s, i, t))
  <2>1. IsFiniteSet(Reasons(s, i, t)')
    BY <1>2, <1>3, FS_Subset
  <2> QED
    BY <1>2, <2>1, FS_Subset
<1>5. Cardinality(Reasons(s, i, t)) <= Cardinality(Reasons(s, i, t)')
  BY <1>2, <1>4, FS_Subset
<1>6. Cardinality(Reasons(s, i, t)) \in Nat /\ Cardinality(Reasons(s, i, t)') \in Nat
  BY <1>4, FS_CardinalityType
<1>7. Cardinality(Reasons(s, i, t)') >= MaxFails
  BY <1>1, <1>5, <1>6, LockNumbers
<1> QED
  BY <1>1, <1>7 DEF Reasoned

LEMMA WrongKeeps ==
  ASSUME LockInv, NEW c \in Clients, WrongPassword(c) PROVE LockInv'
<1> SUFFICES ASSUME NEW s, s = AttemptStore(c), NEW i, i = attempt[c].ip, NEW counted, counted = Recorded(s, i),
                    NEW n0, n0 = Len(wrong) + 1, NEW by, by = IF Cardinality(counted) >= MaxFails THEN c ELSE "none"
             PROVE  LockInv'
  OBVIOUS
<1> DEFINE g == [at |-> lockClock, store |-> s, ip |-> i, by |-> by, forgotten |-> FALSE, unlocked |-> FALSE]
<1>1. LockTypes /\ Underway /\ BucketsTell /\ FewOpen /\ LocksFollow /\ ChecksWait /\ GuessesApart /\ LocksReasoned
  BY DEF LockInv
<1>2. /\ UNCHANGED <<tracker, lock, lockClock, lockFaults>> /\ attempt[c].stage = "checked"
      /\ failures' = [failures EXCEPT ![s][i] = counted]
      /\ attempt' = [attempt EXCEPT ![c] = IF Cardinality(counted) >= MaxFails
                                           THEN [@ EXCEPT !.stage = "locking"] ELSE NoAttempt]
      /\ wrong' = Append(wrong, g)
  BY DEF WrongPassword
<1>3. s \in LockStores /\ i \in Ips /\ lockClock \in 1 .. MaxLockClock /\ by \in Clients \cup {"none"}
  BY <1>1, <1>2, StoreTyped DEF LockTypes
<1>4. g \in Guess
  BY <1>3 DEF Guess
<1>5. OneMore(g)
  BY <1>1, <1>2, <1>4, GuessAdded
<1>6. /\ g.at = lockClock /\ g.store = s /\ g.ip = i /\ g.by = by /\ ~g.forgotten /\ ~g.unlocked
  OBVIOUS
<1> HIDE DEF g
<1>7. /\ DOMAIN wrong' = DOMAIN wrong \cup {n0} /\ n0 \notin DOMAIN wrong /\ n0 \in Nat
      /\ wrong'[n0] = g /\ wrong' \in Seq(Guess)
      /\ \A n \in DOMAIN wrong : wrong'[n] = wrong[n] /\ n < n0 /\ n \in Nat
  BY <1>1, <1>5, GuessesFinite DEF OneMore
<1>8. Recent(s, failures[s][i]) \subseteq failures[s][i] /\ failures[s][i] \subseteq DOMAIN wrong
  BY <1>1, <1>3 DEF Recent, BucketsTell
<1>9. counted = Recent(s, failures[s][i]) \cup {n0} /\ counted \subseteq DOMAIN wrong'
  BY <1>7, <1>8 DEF Recorded
<1>10. /\ failures' \in [LockStores -> [Ips -> SUBSET Nat]] /\ failures'[s][i] = counted
       /\ \A q \in LockStores, k \in Ips : ~(q = s /\ k = i) => failures'[q][k] = failures[q][k]
  <2>1. counted \in SUBSET Nat
    BY <1>7, <1>9
  <2> QED
    BY <1>1, <1>2, <1>3, <2>1 DEF LockTypes
<1>11. /\ attempt' \in [Clients -> AttemptRow]
       /\ \A d \in Clients \ {c} : attempt'[d] = attempt[d]
       /\ \/ attempt'[c].stage = "idle" /\ by = "none" /\ Cardinality(counted) < MaxFails
          \/ /\ attempt'[c].stage = "locking" /\ by = c /\ Cardinality(counted) >= MaxFails
             /\ attempt'[c].process = attempt[c].process /\ attempt'[c].ip = attempt[c].ip
  <2>1. attempt[c] \in AttemptRow
    BY <1>1 DEF LockTypes
  <2>2. CASE Cardinality(counted) >= MaxFails
    <3>1. attempt' = [attempt EXCEPT ![c] = [attempt[c] EXCEPT !.stage = "locking"]]
      BY <1>2, <2>2
    <3>2. /\ [attempt[c] EXCEPT !.stage = "locking"] \in AttemptRow
          /\ [attempt[c] EXCEPT !.stage = "locking"].stage = "locking"
          /\ [attempt[c] EXCEPT !.stage = "locking"].process = attempt[c].process
          /\ [attempt[c] EXCEPT !.stage = "locking"].ip = attempt[c].ip
      BY <2>1 DEF AttemptRow
    <3> QED
      BY <1>1, <2>2, <3>1, <3>2 DEF LockTypes
  <2>3. CASE ~(Cardinality(counted) >= MaxFails)
    <3>1. attempt' = [attempt EXCEPT ![c] = NoAttempt]
      BY <1>2, <2>3
    <3>2. Cardinality(counted) < MaxFails
      <4>1. IsFiniteSet(counted)
        <5>1. IsFiniteSet(DOMAIN wrong \cup {n0})
          BY <1>1, GuessesFinite, FS_AddElement
        <5> QED
          BY <1>7, <1>9, <5>1, FS_Subset
      <4> QED
        BY <2>3, <4>1, FS_CardinalityType, LockNumbers
    <3> QED
      BY <1>1, <2>3, <3>1, <3>2, EndsTyped
  <2> QED
    BY <2>2, <2>3
<1>12. LockTypes'
  BY <1>1, <1>2, <1>7, <1>10, <1>11 DEF LockTypes
<1>13. Underway'
  BY <1>1, <1>2, <1>11 DEF Underway
<1>14. \A d \in Clients : attempt'[d].process = attempt[d].process => AttemptStore(d)' = AttemptStore(d)
  BY <1>2 DEF AttemptStore
<1>15. BucketsTell'
  <2>1. ASSUME NEW q \in LockStores, NEW k \in Ips, NEW n \in failures'[q][k]
        PROVE  n \in DOMAIN wrong' /\ wrong'[n].store = q /\ wrong'[n].ip = k
    <3>1. CASE q = s /\ k = i
      <4>1. n \in failures[s][i] \/ n = n0
        BY <1>8, <1>9, <1>10, <2>1, <3>1
      <4> QED
        BY <1>1, <1>3, <1>6, <1>7, <3>1, <4>1 DEF BucketsTell
    <3>2. CASE ~(q = s /\ k = i)
      BY <1>1, <1>7, <1>10, <2>1, <3>2 DEF BucketsTell
    <3> QED
      BY <3>1, <3>2
  <2>2. ASSUME NEW n \in DOMAIN wrong
        PROVE  /\ wrong[n].at <= lockClock
               /\ ~wrong[n].forgotten /\ wrong[n].at + Window > lockClock =>
                    n \in failures'[wrong[n].store][wrong[n].ip]
    <3>1. /\ wrong[n].at <= lockClock /\ wrong[n].store \in LockStores /\ wrong[n].ip \in Ips
          /\ ~wrong[n].forgotten /\ wrong[n].at + Window > lockClock =>
               n \in failures[wrong[n].store][wrong[n].ip]
      BY <1>1, GuessTyped DEF BucketsTell
    <3>2. n \in failures[s][i] /\ wrong[n].at + Window > lockClock => n \in counted
      BY <1>1, <1>9, GuessTyped, ClockTyped, LockNumbers DEF Recent
    <3> QED
      BY <1>10, <3>1, <3>2
  <2>3. n0 \in failures'[s][i]
    BY <1>9, <1>10
  <2>4. ASSUME NEW n \in DOMAIN wrong'
        PROVE  /\ wrong'[n].at <= lockClock'
               /\ ~wrong'[n].forgotten /\ wrong'[n].at + Window > lockClock' =>
                    n \in failures'[wrong'[n].store][wrong'[n].ip]
    <3>1. CASE n = n0
      BY <1>1, <1>2, <1>6, <1>7, <2>3, <3>1, ClockTyped
    <3>2. CASE n # n0
      BY <1>2, <1>7, <2>2, <3>2
    <3> QED
      BY <3>1, <3>2
  <2> QED
    BY <2>1, <2>4 DEF BucketsTell
<1>16. FewOpen'
  <2> SUFFICES ASSUME NEW q \in LockStores, NEW k \in Ips, NEW t \in 1 .. MaxLockClock
               PROVE  Cardinality(Open(q, k, t)') <= MaxFails - 1
    BY DEF FewOpen
  <2>1. Cardinality(Open(q, k, t)) <= MaxFails - 1
    BY <1>1 DEF FewOpen
  <2>2. CASE n0 \notin Open(q, k, t)'
    <3>1. Open(q, k, t)' \subseteq Open(q, k, t)
      BY <1>7, <2>2 DEF Open, Guesses
    <3>2. Open(q, k, t) \subseteq Open(q, k, t)'
      BY <1>7 DEF Open, Guesses
    <3>3. Open(q, k, t)' = Open(q, k, t)
      BY <3>1, <3>2
    <3> QED
      BY <2>1, <3>3
  <2>3. CASE n0 \in Open(q, k, t)'
    <3>1. q = s /\ k = i /\ by = "none" /\ lockClock <= t
      BY <1>6, <1>7, <2>3 DEF Open, Guesses
    <3>2. ASSUME NEW m \in Open(q, k, t)' PROVE m \in counted
      <4>1. CASE m = n0
        BY <1>9, <4>1
      <4>2. CASE m # n0
        <5>1. /\ m \in DOMAIN wrong /\ wrong[m].store = s /\ wrong[m].ip = i /\ ~wrong[m].forgotten
              /\ t < wrong[m].at + Window
          BY <1>7, <3>1, <4>2 DEF Open, Guesses
        <5>2. lockClock < wrong[m].at + Window
          BY <1>1, <3>1, <5>1, GuessTyped, ClockTyped, LockNumbers
        <5>3. m \in failures[s][i]
          BY <1>1, <5>1, <5>2, GuessTyped, ClockTyped, LockNumbers DEF BucketsTell
        <5>4. m \in Recent(s, failures[s][i])
          BY <1>1, <5>1, <5>2, <5>3, GuessTyped, ClockTyped, LockNumbers DEF Recent
        <5> QED
          BY <1>9, <5>4
      <4> QED
        BY <4>1, <4>2
    <3>3. IsFiniteSet(counted)
      <4>1. IsFiniteSet(DOMAIN wrong \cup {n0})
        BY <1>1, GuessesFinite, FS_AddElement
      <4> QED
        BY <1>7, <1>9, <4>1, FS_Subset
    <3>4. Open(q, k, t)' \subseteq counted
      BY <3>2
    <3>5. Cardinality(Open(q, k, t)') <= Cardinality(counted) /\ IsFiniteSet(Open(q, k, t)')
      BY <3>3, <3>4, FS_Subset
    <3>6. Cardinality(Open(q, k, t)') \in Nat /\ Cardinality(counted) \in Nat
      BY <3>3, <3>5, FS_CardinalityType
    <3>7. Cardinality(counted) < MaxFails
      BY <1>3, <1>11, <3>1, LockClients
    <3> QED
      BY <3>5, <3>6, <3>7, LockNumbers
  <2> QED
    BY <2>2, <2>3
<1>17. LocksFollow'
  <2>1. ASSUME NEW n \in DOMAIN wrong, Due(n)
        PROVE  lock[wrong[n].store][wrong[n].ip] >= wrong[n].at + LockFor \/ AboutTo(wrong[n].by, n)'
    <3>1. lock[wrong[n].store][wrong[n].ip] >= wrong[n].at + LockFor \/ AboutTo(wrong[n].by, n)
      BY <1>1, <2>1 DEF LocksFollow
    <3>2. ASSUME NEW d, d = wrong[n].by, AboutTo(d, n) PROVE AboutTo(d, n)'
      <4>1. d \in Clients \ {c} /\ attempt'[d] = attempt[d]
        BY <1>2, <1>11, <2>1, <3>2 DEF AboutTo, Due
      <4>2. AttemptStore(d)' = AttemptStore(d) /\ by # d
        BY <1>11, <1>14, <4>1, LockClients
      <4>3. LastOf(d, n)'
        BY <1>6, <1>7, <3>2, <4>1, <4>2 DEF AboutTo, LastOf
      <4> QED
        BY <1>7, <3>2, <4>1, <4>2, <4>3 DEF AboutTo
    <3>3. wrong'[n].by = wrong[n].by
      BY <1>7
    <3> QED
      BY <3>1, <3>2, <3>3
  <2>2. Due(n0)' => AboutTo(by, n0)'
    <3> SUFFICES ASSUME Due(n0)' PROVE AboutTo(by, n0)'
      OBVIOUS
    <3>1. by = c /\ attempt'[c].stage = "locking" /\ attempt'[c].process = attempt[c].process
          /\ attempt'[c].ip = attempt[c].ip
      BY <1>6, <1>7, <1>11, LockClients DEF Due
    <3>2. AttemptStore(c)' = s
      BY <1>14, <3>1
    <3>3. LastOf(by, n0)'
      BY <1>6, <1>7, <3>1, <3>2 DEF LastOf
    <3> QED
      BY <1>6, <1>7, <3>1, <3>2, <3>3 DEF AboutTo
  <2>3. ASSUME NEW n \in DOMAIN wrong', Due(n)'
        PROVE  lock'[wrong'[n].store][wrong'[n].ip] >= wrong'[n].at + LockFor \/ AboutTo(wrong[n].by, n)'
    <3>1. CASE n = n0
      <4>1. AboutTo(by, n0)' /\ wrong'[n0].by = by
        BY <1>6, <1>7, <2>2, <2>3, <3>1
      <4> QED
        BY <3>1, <4>1 DEF AboutTo
    <3>2. CASE n # n0
      <4>1. n \in DOMAIN wrong /\ wrong'[n] = wrong[n] /\ Due(n)
        BY <1>7, <2>3, <3>2 DEF Due
      <4> QED
        BY <1>2, <2>1, <4>1
    <3> QED
      BY <3>1, <3>2
  <2> QED
    BY <2>3 DEF LocksFollow
<1>18. ChecksWait'
  <2>1. ASSUME NEW n \in DOMAIN wrong', NEW d, d = wrong'[n].by, Due(n)', attempt'[d].stage = "checked",
               attempt'[d].ip = wrong'[n].ip, AttemptStore(d)' = wrong'[n].store
        PROVE  wrong'[n].at + LockFor <= lockClock'
    <3>1. d \in Clients \ {c} /\ attempt'[d] = attempt[d] /\ AttemptStore(d)' = AttemptStore(d)
      BY <1>11, <1>14, <2>1 DEF Due
    <3>2. n # n0
      BY <1>6, <1>7, <1>11, <2>1, <3>1, LockClients
    <3>3. n \in DOMAIN wrong /\ wrong'[n] = wrong[n] /\ Due(n)
      BY <1>7, <2>1, <3>2 DEF Due
    <3> QED
      BY <1>1, <1>2, <2>1, <3>1, <3>3 DEF ChecksWait
  <2> QED
    BY <2>1 DEF ChecksWait
<1>19. GuessesApart'
  <2>1. ASSUME NEW m \in DOMAIN wrong', NEW n \in DOMAIN wrong', m < n, Due(m)', Due(n)',
               wrong'[m].by = wrong'[n].by, wrong'[m].store = wrong'[n].store, wrong'[m].ip = wrong'[n].ip
        PROVE  wrong'[m].at + Window <= wrong'[n].at
    <3>1. m # n0 /\ m \in DOMAIN wrong /\ wrong'[m] = wrong[m] /\ Due(m)
      BY <1>7, <2>1 DEF Due
    <3>2. CASE n = n0
      <4>1. wrong[m].by = c /\ wrong[m].store = s /\ wrong[m].ip = i
        BY <1>6, <1>7, <1>11, <2>1, <3>1, <3>2, LockClients DEF Due
      <4>2. wrong[m].at + LockFor <= lockClock
        BY <1>1, <1>2, <3>1, <4>1 DEF ChecksWait
      <4> QED
        BY <1>1, <1>6, <1>7, <3>1, <3>2, <4>2, GuessTyped, ClockTyped, LockNumbers
    <3>3. CASE n # n0
      <4>1. n \in DOMAIN wrong /\ wrong'[n] = wrong[n] /\ Due(n)
        BY <1>7, <2>1, <3>3 DEF Due
      <4> QED
        BY <1>1, <2>1, <3>1, <4>1 DEF GuessesApart
    <3> QED
      BY <3>2, <3>3
  <2> QED
    BY <2>1 DEF GuessesApart
<1>20. LocksReasoned'
  <2>1. ASSUME NEW q \in LockStores, NEW k \in Ips
        PROVE  (lock[q][k] <= lockClock + LockFor /\ (lock[q][k] > 0 => Reasoned(q, k, lock[q][k])))'
    <3> SUFFICES ASSUME NEW l, l = lock[q][k]
                 PROVE  l <= lockClock + LockFor /\ (l > 0 => Reasoned(q, k, l)')
      BY <1>2
    <3>1. l <= lockClock + LockFor /\ (l > 0 => Reasoned(q, k, l))
      BY <1>1 DEF LocksReasoned
    <3> QED
      BY <1>1, <1>5, <1>12, <3>1, ReasonsGrow
  <2>2. ASSUME NEW d \in Clients, attempt'[d].stage = "locking"
        PROVE  Reasoned(AttemptStore(d), attempt[d].ip, lockClock + LockFor)'
    <3> SUFFICES ASSUME NEW q, q = AttemptStore(d)', NEW k, k = attempt'[d].ip, NEW l, l = lockClock + LockFor
                 PROVE  Reasoned(q, k, l)'
      BY <1>2
    <3>1. CASE d # c
      <4>1. q = AttemptStore(d) /\ k = attempt[d].ip /\ attempt[d].stage = "locking"
        BY <1>11, <1>14, <2>2, <3>1
      <4>2. Reasoned(q, k, l)
        BY <1>1, <4>1 DEF LocksReasoned
      <4> QED
        BY <1>1, <1>5, <1>12, <4>2, ReasonsGrow
    <3>2. CASE d = c
      <4>1. q = s /\ k = i /\ Cardinality(counted) >= MaxFails
        BY <1>11, <1>14, <2>2, <3>2
      <4>2. counted \subseteq Reasons(s, i, lockClock)'
        <5>1. ASSUME NEW m \in Recent(s, failures[s][i])
              PROVE  /\ m \in DOMAIN wrong /\ wrong[m].store = s /\ wrong[m].ip = i
                     /\ wrong[m].at <= lockClock /\ lockClock <= wrong[m].at + Window
          <6>1. m \in failures[s][i] /\ m \in DOMAIN wrong /\ wrong[m].store = s /\ wrong[m].ip = i
            BY <1>1, <1>3, <1>8, <5>1 DEF BucketsTell
          <6>2. wrong[m].at <= lockClock
            BY <1>1, <6>1 DEF BucketsTell
          <6>3. lockClock <= wrong[m].at + Window
            BY <1>1, <5>1, <6>1, GuessTyped, ClockTyped, LockNumbers DEF Recent
          <6> QED
            BY <6>1, <6>2, <6>3
        <5>2. ASSUME NEW m \in counted PROVE m \in Reasons(s, i, lockClock)'
          <6>1. CASE m = n0
            BY <1>1, <1>2, <1>6, <1>7, <6>1, ClockTyped, LockNumbers DEF Reasons
          <6>2. CASE m # n0
            <7>1. m \in Recent(s, failures[s][i])
              BY <1>9, <5>2, <6>2
            <7> QED
              BY <1>2, <1>7, <5>1, <7>1 DEF Reasons
          <6> QED
            BY <6>1, <6>2
        <5> QED
          BY <5>2
      <4>3. IsFiniteSet(Reasons(s, i, lockClock)')
        <5>1. Reasons(s, i, lockClock)' \subseteq DOMAIN wrong \cup {n0}
          BY <1>7 DEF Reasons
        <5>2. IsFiniteSet(DOMAIN wrong \cup {n0})
          BY <1>1, GuessesFinite, FS_AddElement
        <5> QED
          BY <5>1, <5>2, FS_Subset
      <4>4. Cardinality(counted) <= Cardinality(Reasons(s, i, lockClock)') /\ IsFiniteSet(counted)
        BY <4>2, <4>3, FS_Subset
      <4>5. Cardinality(counted) \in Nat /\ Cardinality(Reasons(s, i, lockClock)') \in Nat
        BY <4>3, <4>4, FS_CardinalityType
      <4>6. Cardinality(Reasons(s, i, lockClock)') >= MaxFails
        BY <4>1, <4>4, <4>5, LockNumbers
      <4>7. lockClock \in 1 .. MaxLockClock /\ lockClock' = lockClock /\ lockClock + LockFor <= l
        BY <1>1, <1>2, <1>3, ClockTyped, LockNumbers
      <4> QED
        BY <4>1, <4>6, <4>7 DEF Reasoned
    <3> QED
      BY <3>1, <3>2
  <2> QED
    BY <2>1, <2>2 DEF LocksReasoned
<1> QED
  BY <1>12, <1>13, <1>15, <1>16, <1>17, <1>18, <1>19, <1>20 DEF LockInv

-----------------------------------------------------------------------------
LEMMA LockStutter == ASSUME LockInv, UNCHANGED lockVars PROVE LockInv'
<1>1. /\ tracker' = tracker /\ failures' = failures /\ lock' = lock /\ attempt' = attempt
      /\ lockClock' = lockClock /\ lockFaults' = lockFaults /\ wrong' = wrong
  BY DEF lockVars
<1>2. LockTypes' /\ SameGuesses
  BY <1>1, GuessesUnchanged DEF LockInv, LockTypes
<1>3. Underway' /\ BucketsTell'
  BY <1>1 DEF LockInv, Underway, BucketsTell
<1>4. LocksFollow' /\ ChecksWait'
  BY <1>1 DEF LockInv, LocksFollow, ChecksWait, Due, AboutTo, LastOf, AttemptStore
<1>5. LocksReasoned'
  <2>1. \A s, i, by : Reasoned(s, i, by)' <=> Reasoned(s, i, by)
    BY <1>1 DEF Reasoned, Reasons
  <2> QED
    BY <1>1, <2>1 DEF LockInv, LocksReasoned, AttemptStore
<1> QED
  BY <1>2, <1>3, <1>4, <1>5, LockStepKeeps

LEMMA LockStep == LockInv /\ [LockNext]_lockVars => LockInv'
<1> SUFFICES ASSUME LockInv, [LockNext]_lockVars PROVE LockInv'
  OBVIOUS
<1>1. CASE UNCHANGED lockVars
  BY <1>1, LockStutter
<1>2. ASSUME NEW p \in Processes, NEW backing \in Backings, NEW c \in Clients, NEW i \in LoginIps,
             CheckLock(c, p, i, backing)
      PROVE  LockInv'
  BY <1>2, CheckKeeps
<1>3. ASSUME NEW p \in Processes, NEW backing \in Backings, NEW i \in Ips, Unlock(p, i, backing)
      PROVE  LockInv'
  BY <1>3, UnlockKeeps
<1>4. ASSUME NEW c \in Clients, WrongPassword(c) PROVE LockInv'
  BY <1>4, WrongKeeps
<1>5. ASSUME NEW c \in Clients, SetLock(c) PROVE LockInv'
  BY <1>5, SetLockKeeps
<1>6. ASSUME NEW c \in Clients, RightPassword(c) PROVE LockInv'
  BY <1>6, RightKeeps
<1>7. ASSUME NEW c \in Clients, Uncounted(c) PROVE LockInv'
  BY <1>7, UncountedKeeps
<1>8. ASSUME NEW c \in Clients, LockLost(c) PROVE LockInv'
  BY <1>8, LockLostKeeps
<1>9. ASSUME NEW p \in Processes, RestartProcess(p) PROVE LockInv'
  BY <1>9, RestartKeeps
<1>10. CASE LockTick
  BY <1>10, LockTickKeeps
<1> QED
  BY <1>1, <1>2, <1>3, <1>4, <1>5, <1>6, <1>7, <1>8, <1>9, <1>10 DEF LockNext

-----------------------------------------------------------------------------
LEMMA LockTypesTell == LockInv => LockTypeOK
<1> SUFFICES ASSUME LockInv PROVE LockTypeOK
  OBVIOUS
<1>1. LockTypes /\ BucketsTell /\ LocksReasoned
  BY DEF LockInv
<1>2. tracker \in [Processes -> Backings] /\ lockClock \in 1 .. MaxLockClock /\ lockFaults \in 0 .. MaxLockFaults
  BY <1>1 DEF LockTypes
<1>3. attempt \in [Clients -> [stage : {"idle", "checked", "locking"},
                               process : Processes \cup {"none"}, ip : Ips \cup {"none"}]]
  BY <1>1 DEF LockTypes, AttemptRow
<1>4. ASSUME NEW s \in LockStores, NEW i \in Ips
      PROVE  failures[s][i] \subseteq DOMAIN wrong /\ lock[s][i] \in 0 .. (MaxLockClock + LockFor)
  <2>1. failures[s][i] \subseteq DOMAIN wrong
    BY <1>1, <1>4 DEF BucketsTell
  <2>2. lock[s][i] \in Nat
    BY <1>1, <1>4 DEF LockTypes
  <2>3. lock[s][i] <= lockClock + LockFor
    BY <1>1, <1>4 DEF LocksReasoned
  <2> QED
    BY <1>1, <2>1, <2>2, <2>3, ClockTyped, LockNumbers
<1> QED
  BY <1>2, <1>3, <1>4 DEF LockTypeOK

LEMMA LocksJustified == LockInv => LockJustified
  BY DEF LockInv, LocksReasoned, Reasoned, Reasons, LockJustified

\* A guess of a window that is neither open nor went without its lock is the
\* only one of its client.
LEMMA GuessesAreBounded == LockInv => GuessesBounded
<1> SUFFICES ASSUME LockInv, NEW s \in LockStores, NEW i \in Ips, NEW t \in 1 .. MaxLockClock,
                    NEW tried, tried = {n \in Guesses(s, i, t) : ~wrong[n].forgotten}
             PROVE  Cardinality(tried)
                      <= MaxFails - 1 + Cardinality(Clients) + Cardinality({n \in tried : wrong[n].unlocked})
  BY DEF GuessesBounded
<1> DEFINE open == Open(s, i, t)
           lost == {n \in tried : wrong[n].unlocked}
           due == {n \in tried : Due(n)}
           byClient == [n \in due |-> wrong[n].by]
<1>1. LockTypes /\ FewOpen /\ GuessesApart
  BY DEF LockInv
<1>2. tried \subseteq DOMAIN wrong /\ \A n \in tried : /\ wrong[n].store = s /\ wrong[n].ip = i
                                                       /\ wrong[n].at <= t /\ t < wrong[n].at + Window
                                                       /\ ~wrong[n].forgotten
  BY DEF Guesses
<1>3. IsFiniteSet(tried)
  BY <1>1, <1>2, GuessesFinite, FS_Subset
<1>4. open \subseteq tried /\ lost \subseteq tried /\ due \subseteq tried
  BY DEF Open
<1>5. tried \subseteq (open \cup due) \cup lost
  <2> SUFFICES ASSUME NEW n \in tried, ~wrong[n].unlocked PROVE n \in open \/ n \in due
    OBVIOUS
  <2>1. wrong[n].by \in Clients \cup {"none"}
    BY <1>1, <1>2, GuessTyped
  <2>2. CASE wrong[n].by = "none"
    BY <1>2, <2>2 DEF Open
  <2>3. CASE wrong[n].by \in Clients
    BY <1>2, <2>3 DEF Due
  <2> QED
    BY <2>1, <2>2, <2>3
<1>6. IsFiniteSet(open) /\ IsFiniteSet(due) /\ IsFiniteSet(lost)
  BY <1>3, <1>4, FS_Subset
<1>7. byClient \in Injection(due, Clients)
  <2>1. \A n \in due : wrong[n].by \in Clients
    BY DEF Due
  <2>2. ASSUME NEW m \in due, NEW n \in due, wrong[m].by = wrong[n].by, m < n PROVE FALSE
    <3>1. wrong[m].at + Window <= wrong[n].at
      BY <1>1, <1>2, <2>2 DEF GuessesApart
    <3>2. wrong[n].at <= t /\ t < wrong[m].at + Window
      BY <1>2, <2>2
    <3>3. wrong[m].at \in Nat /\ wrong[n].at \in Nat /\ t \in Nat
      BY <1>1, <1>2, <2>2, GuessTyped
    <3> QED
      BY <3>1, <3>2, <3>3, LockNumbers
  <2>3. \A n \in due : n \in Nat
    BY <1>1, <1>2, GuessesFinite
  <2>4. \A m, n \in due : wrong[m].by = wrong[n].by => m = n
    <3> SUFFICES ASSUME NEW m \in due, NEW n \in due, wrong[m].by = wrong[n].by PROVE m = n
      OBVIOUS
    <3>1. m < n \/ n < m \/ m = n
      BY <2>3
    <3> QED
      BY <2>2, <3>1
  <2> QED
    BY <2>1, <2>4 DEF Injection, IsInjective
<1>8. IsFiniteSet(Clients)
  BY LockClients
<1>9. Cardinality(due) <= Cardinality(Clients)
  BY <1>7, <1>8, FS_Injection
<1>10. Cardinality(open) <= MaxFails - 1
  BY <1>1 DEF FewOpen
<1> HIDE DEF open, lost, due
<1>11. /\ IsFiniteSet(open \cup due) /\ IsFiniteSet((open \cup due) \cup lost)
       /\ Cardinality(open \cup due) = Cardinality(open) + Cardinality(due) - Cardinality(open \cap due)
       /\ Cardinality((open \cup due) \cup lost)
            = Cardinality(open \cup due) + Cardinality(lost) - Cardinality((open \cup due) \cap lost)
  BY <1>6, FS_Union
<1>12. Cardinality(tried) <= Cardinality((open \cup due) \cup lost)
  BY <1>5, <1>11, FS_Subset
<1>13. IsFiniteSet(open \cap due) /\ IsFiniteSet((open \cup due) \cap lost)
  BY <1>6, FS_Intersection
<1>14. /\ Cardinality(tried) \in Nat /\ Cardinality(open) \in Nat /\ Cardinality(due) \in Nat
       /\ Cardinality(lost) \in Nat /\ Cardinality(open \cap due) \in Nat
       /\ Cardinality((open \cup due) \cap lost) \in Nat /\ Cardinality(Clients) \in Nat
       /\ Cardinality(open \cup due) \in Nat /\ Cardinality((open \cup due) \cup lost) \in Nat
  BY <1>3, <1>6, <1>8, <1>11, <1>13, FS_CardinalityType
<1>15. Cardinality(tried) <= MaxFails - 1 + Cardinality(Clients) + Cardinality(lost)
  BY <1>9, <1>10, <1>11, <1>12, <1>14, LockNumbers
<1> QED
  BY <1>15 DEF lost

\* However logins of several processes overlap, the lockout locks soon
\* enough and never without reason (check, record_failure, lock).
THEOREM LockoutSafe == LockSpec => []LockoutSound
<1>1. LockInv => LockoutSound
  BY LockTypesTell, LocksJustified, GuessesAreBounded DEF LockoutSound
<1> QED
  BY <1>1, LockStart, LockStep, PTL DEF LockSpec
=============================================================================
