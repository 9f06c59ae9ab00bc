------------------------------- MODULE Cockpit -------------------------------
(***************************************************************************)
(* The operators' cockpit: login with a second factor, one-time recovery   *)
(* codes, enrolment, confirmation and removal of the factor, and the       *)
(* rotation of refresh tokens.  Every request reads the operator's rows,   *)
(* decides, and writes the columns it changed when it commits; nothing     *)
(* locks the rows in between.  The counter of failed logins is             *)
(* AccountLockout's: a refused login changes nothing here.  Sources:       *)
(* services/operator_auth.py, services/mfa_totp.py, api/cockpit/auth.py,   *)
(* api/cockpit/mfa.py, api/cockpit/__init__.py, services/cockpit_audit.py. *)
(***************************************************************************)
EXTENDS Integers, FiniteSets, Sequences

CONSTANTS
  CockpitClients, \* requests of one operator in flight at a time
  RefreshTtl,     \* life of a refresh token
  AccessTtl,      \* life of an access token
  MaxCockpitTime, \* bound on the clock
  MaxSessions,    \* bound on operator_sessions rows
  MaxRequests,    \* bound on requests, logouts and suspensions
  MaxSecrets      \* bound on secrets and on sets of recovery codes

ASSUME CockpitAssumption ==
  {RefreshTtl, AccessTtl, MaxCockpitTime, MaxSessions, MaxRequests,
   MaxSecrets} \subseteq Nat

VARIABLES
  operator,   \* the operator's row and its recovery codes
  sessions,   \* operator_sessions, in order of issue
  accessEnds, \* when the last access token issued expires
  minted,     \* secrets and sets of codes generated so far
  held,       \* those the operator was shown
  request,    \* per client: the transaction it is in
  cockpitNow, \* the clock
  requests,   \* how many there have been
  spentBy,    \* per set of codes: how many requests its code opened
  successors, \* per session: how many pairs its token was exchanged for
  rivals,     \* codes and tokens that two requests in flight presented
  mixed       \* two requests that change the factor have been in flight at once

cockpitVars == <<operator, sessions, accessEnds, minted, held, request, cockpitNow,
                 requests, spentBy, successors, rivals, mixed>>

Secrets == 1 .. MaxSecrets
NotAsking == [busy |-> FALSE]

(* One code stands for a set of ten: codes are the sets in the table and   *)
(* used those whose code has its used_at.                                  *)
CockpitInit ==
  /\ operator = [status |-> "active", required |-> FALSE, secret |-> 0,
                 codes |-> {}, used |-> {}]
  /\ sessions = <<>> /\ accessEnds = 0 /\ minted = 0
  /\ held = [secrets |-> {}, codes |-> {}]
  /\ request = [c \in CockpitClients |-> NotAsking]
  /\ cockpitNow = 1
  /\ requests = 0
  /\ spentBy = [g \in Secrets |-> 0]
  /\ successors = [i \in 1 .. MaxSessions |-> 0]
  /\ rivals = [codes |-> {}, tokens |-> {}]
  /\ mixed = FALSE

-----------------------------------------------------------------------------
(* History, as a request begins that presents a code or a token (or none,  *)
(* 0), or that changes the factor: whether others in flight do the same.   *)
InFlight == {d \in CockpitClients : request[d].busy}
ChangeFactor == {"confirm", "regenerate", "disable"}
Rivalled(code, token) ==
  [codes  |-> rivals.codes \cup (({code} \ {0}) \cap {request[d].code : d \in InFlight}),
   tokens |-> rivals.tokens \cup (({token} \ {0}) \cap {request[d].token : d \in InFlight})]
Mixes(what) == what \in ChangeFactor /\ \E d \in InFlight : request[d].what \in ChangeFactor

(* A request begins: it has read the rows and holds what it will write.    *)
(* code is the recovery code it spends, token the session it rotates.      *)
Asks(c, what, wanted, code, token) ==
  /\ ~request[c].busy /\ requests < MaxRequests
  /\ requests' = requests + 1
  /\ request' = [request EXCEPT ![c] =
       [busy |-> TRUE, what |-> what, read |-> operator, wanted |-> wanted,
        code |-> code, token |-> token]]
  /\ rivals' = Rivalled(code, token)
  /\ mixed' = (mixed \/ Mixes(what))
  /\ minted' = minted + IF what \in {"enroll", "confirm", "regenerate"} THEN 1 ELSE 0
  /\ UNCHANGED <<operator, sessions, accessEnds, held, cockpitNow, spentBy, successors>>

(* verify_code: the operator can make a code of a secret that was shown.   *)
VerifyCode(secret) == secret # 0 /\ secret \in held.secrets

(* A recovery code that was shown, is in the table and has no used_at.     *)
LiveCodes == (operator.codes \cap held.codes) \ operator.used

(* get_current_operator: an access token of an operator still active.      *)
CurrentOperator == cockpitNow < accessEnds /\ operator.status = "active"

(* authenticate_operator with the right password.                          *)
Login(c) ==
  /\ operator.status = "active"
  /\ Len(sessions) < MaxSessions
  /\ \/ ~operator.required /\ Asks(c, "login", operator, 0, 0)
     \/ /\ operator.required /\ operator.secret # 0
        /\ \/ VerifyCode(operator.secret) /\ Asks(c, "login", operator, 0, 0)
           \/ \E g \in LiveCodes :
                Asks(c, "login", [operator EXCEPT !.used = @ \cup {g}], g, 0)

(* refresh_operator_session.                                               *)
Refresh(c, i) ==
  /\ i <= Len(sessions) /\ Len(sessions) < MaxSessions
  /\ ~sessions[i].revoked /\ cockpitNow < sessions[i].expires
  /\ operator.status = "active"
  /\ Asks(c, "refresh", operator, 0, i)

Enroll(c) ==
  /\ CurrentOperator /\ operator.secret = 0
  /\ minted < MaxSecrets
  /\ Asks(c, "enroll", [operator EXCEPT !.secret = minted + 1], 0, 0)

(* A fresh set of recovery codes replaces those that were read.            *)
Regenerated == [operator EXCEPT !.codes = {minted + 1}]

Confirm(c) ==
  /\ CurrentOperator /\ operator.secret # 0 /\ VerifyCode(operator.secret)
  /\ minted < MaxSecrets
  /\ Asks(c, "confirm", [Regenerated EXCEPT !.required = TRUE], 0, 0)

RegenerateRecoveryCodes(c) ==
  /\ CurrentOperator /\ operator.secret # 0 /\ VerifyCode(operator.secret)
  /\ minted < MaxSecrets
  /\ Asks(c, "regenerate", Regenerated, 0, 0)

(* Mutant: removing the factor forgets the flag that requires it.          *)
DisabledInPart == [operator EXCEPT !.secret = 0, !.codes = {}]

Disabled == [operator EXCEPT !.required = FALSE, !.secret = 0, !.codes = {}]

Disable(c) ==
  /\ CurrentOperator /\ operator.secret # 0
  /\ \/ VerifyCode(operator.secret) /\ Asks(c, "disable", Disabled, 0, 0)
     \/ \E g \in LiveCodes : Asks(c, "disable", Disabled, g, 0)

-----------------------------------------------------------------------------
(* The commit.  A row update names its key, so the mark on a recovery code *)
(* that is gone by then fails; a delete takes the codes that were read.    *)
Collides(r) == r.code # 0 /\ r.what = "login" /\ r.code \notin operator.codes

(* Mutant: the whole row is written back as it was read.                   *)
WrittenUnheld(r) == r.wanted

Written(r) ==
  [status   |-> operator.status,
   required |-> IF r.wanted.required # r.read.required THEN r.wanted.required
                                                       ELSE operator.required,
   secret   |-> IF r.wanted.secret # r.read.secret THEN r.wanted.secret ELSE operator.secret,
   codes    |-> (operator.codes \ (r.read.codes \ r.wanted.codes))
                  \cup (r.wanted.codes \ r.read.codes),
   used     |-> operator.used \cup r.wanted.used]

Revokes(i) == IF i = 0 THEN sessions ELSE [sessions EXCEPT ![i].revoked = TRUE]

CommitRequest(c) ==
  LET r == request[c]
      issues == r.what \in {"login", "refresh"}
  IN /\ r.busy /\ ~Collides(r)
     /\ issues => Len(sessions) < MaxSessions
     /\ operator' = Written(r)
     /\ sessions' = IF issues
                    THEN Append(Revokes(r.token),
                                [revoked |-> FALSE, expires |-> cockpitNow + RefreshTtl])
                    ELSE sessions
     /\ accessEnds' = IF issues THEN cockpitNow + AccessTtl ELSE accessEnds
     /\ held' = [secrets |-> held.secrets \cup (IF r.what = "enroll" THEN {r.wanted.secret} ELSE {}),
                 codes   |-> held.codes \cup (r.wanted.codes \ r.read.codes)]
     /\ request' = [request EXCEPT ![c] = NotAsking]
     /\ spentBy' = [g \in Secrets |-> spentBy[g] + IF g = r.code THEN 1 ELSE 0]
     /\ successors' = [i \in DOMAIN successors |->
                         successors[i] + IF i = r.token THEN 1 ELSE 0]
     /\ UNCHANGED <<minted, cockpitNow, requests, rivals, mixed>>

(* It fails, and get_db undoes all of it, its line in cockpit_audit too.    *)
AbortRequest(c) ==
  /\ request[c].busy
  /\ request' = [request EXCEPT ![c] = NotAsking]
  /\ UNCHANGED <<operator, sessions, accessEnds, minted, held, cockpitNow, requests,
                 spentBy, successors, rivals, mixed>>

(* revoke_session, by logout.                                              *)
Logout(i) ==
  /\ CurrentOperator /\ requests < MaxRequests
  /\ i <= Len(sessions) /\ ~sessions[i].revoked
  /\ sessions' = Revokes(i)
  /\ requests' = requests + 1
  /\ UNCHANGED <<operator, accessEnds, minted, held, request, cockpitNow, spentBy,
                 successors, rivals, mixed>>

(* An administrator suspends the operator or takes it back, in the table.  *)
Suspend ==
  /\ requests < MaxRequests
  /\ operator' = [operator EXCEPT !.status = IF @ = "active" THEN "suspended" ELSE "active"]
  /\ requests' = requests + 1
  /\ UNCHANGED <<sessions, accessEnds, minted, held, request, cockpitNow, spentBy,
                 successors, rivals, mixed>>

CockpitTick ==
  /\ cockpitNow < MaxCockpitTime
  /\ cockpitNow' = cockpitNow + 1
  /\ UNCHANGED <<operator, sessions, accessEnds, minted, held, request, requests,
                 spentBy, successors, rivals, mixed>>

CockpitNext ==
  \/ \E c \in CockpitClients :
       \/ Login(c) \/ Enroll(c) \/ Confirm(c) \/ RegenerateRecoveryCodes(c) \/ Disable(c)
       \/ CommitRequest(c) \/ AbortRequest(c)
       \/ \E i \in 1 .. MaxSessions : Refresh(c, i)
  \/ \E i \in 1 .. MaxSessions : Logout(i)
  \/ Suspend
  \/ CockpitTick

CockpitSpec == CockpitInit /\ [][CockpitNext]_cockpitVars

-----------------------------------------------------------------------------
(* The rows have their shape; what is in them was shown to the operator.   *)
CockpitTypeOK ==
  /\ operator.status \in {"active", "suspended"} /\ operator.required \in BOOLEAN
  /\ operator.secret \in held.secrets \cup {0}
  /\ operator.codes \subseteq held.codes /\ held.codes \subseteq Secrets
  /\ \A i \in 1 .. Len(sessions) : sessions[i].revoked \in BOOLEAN

(* An operator who must give a second factor has one to give, the secret   *)
(* and one set of recovery codes, unless two requests that change the      *)
(* factor have overlapped.  Logins, rotations and enrolments that overlap  *)
(* with such a request, or with each other, do no harm.                    *)
FactorUsable ==
  ~mixed /\ operator.required =>
    operator.secret # 0 /\ Cardinality(operator.codes) = 1

(* A recovery code opens one request, and a refresh token is exchanged for *)
(* one pair, unless two requests in flight at once presented that very     *)
(* code or token.  Whatever else overlaps, regenerations and removals      *)
(* among it, gives neither a second life.                                  *)
CodesAndTokensOnce ==
  /\ \A g \in Secrets : spentBy[g] > 1 => g \in rivals.codes
  /\ \A i \in DOMAIN successors : successors[i] > 1 => i \in rivals.tokens

(* Codes that are spent stay spent, through regeneration, removal and a    *)
(* new enrolment, and a revoked session never comes back, whatever         *)
(* overlaps.                                                               *)
RevocationLasts ==
  [][/\ operator.used \subseteq operator'.used
     /\ \A i \in 1 .. Len(sessions) : sessions[i].revoked => sessions'[i].revoked]_cockpitVars

(* A recovery code is good for one use: it is stored with a used_at.       *)
RecoveryCodeOnce == \A g \in Secrets : spentBy[g] <= 1

\* An operator's second factor works, and one-time secrets work one time
\* (authenticate_operator, refresh_operator_session, the endpoints of mfa.py).
CockpitSound ==
    /\ CockpitTypeOK
    /\ FactorUsable
    /\ CodesAndTokensOnce
=============================================================================
