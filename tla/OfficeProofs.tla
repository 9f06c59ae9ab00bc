---------------------------- MODULE OfficeProofs -----------------------------
(***************************************************************************)
(* Proofs about Cockpit, TenantDeletion, Extractions and Billing, for      *)
(* every number of clients, sessions, founders, tables, workers, documents *)
(* and events.                                                             *)
(*                                                                         *)
(* The cockpit.  That a factor is usable is not inductive: a commit writes *)
(* what its request decided on earlier.  Sane says of every request in     *)
(* flight what holds whatever it overlaps with (it wants what was minted,  *)
(* it rotates a session that exists).  Apart says that of requests that    *)
(* change the factor one at a time is in flight, unless two have met, and  *)
(* that it has read what is still there.  Unspent says that what a request *)
(* in flight presents is not spent yet, unless two presented it; and       *)
(* SpentGone, whatever overlaps, that what was spent is marked or deleted: *)
(* for that, the codes a request is about to store must be new to the      *)
(* operator and to every other request.                                    *)
(*                                                                         *)
(* The erasure of a tenant.  Undisturbed says that an erasure nothing      *)
(* interferes with is the only one and has counted what is there;          *)
(* NothingYet, that nothing is recorded while the tenant exists.           *)
(*                                                                         *)
(* Extractions.  The scores of the three extractors are computed: only a   *)
(* trustworthy document gets every required field over the threshold.  The *)
(* rest is about late writes: TasksTell says that a row has lost none of   *)
(* the fields a task saw in it, and DecidedRest that a row reviewed with   *)
(* nothing about is never again in a queue or with a worker.               *)
(*                                                                         *)
(* Stripe's events.  Touched says what a handler makes of the one          *)
(* subscription it works on and of its owner's gate, whichever event it    *)
(* folds in.  Claimed says of every open transaction what survives an      *)
(* overlap: its event is not in the ledger yet, and no row it has read     *)
(* goes away.  Unmixed says that without an overlap the one open           *)
(* transaction has read what is there and wants such an outcome of it.     *)
(***************************************************************************)
EXTENDS Cockpit, TenantDeletion, Extractions, Billing, FiniteSetTheorems, WellFoundedInduction, TLAPS

-----------------------------------------------------------------------------
(* The operators' cockpit *)

Whats == {"login", "refresh", "enroll", "confirm", "regenerate", "disable"}
OperatorRow == [status : {"active", "suspended"}, required : BOOLEAN, secret : Nat,
                codes : SUBSET Secrets, used : SUBSET Secrets]
Asking == [busy : {TRUE}, what : Whats, read : OperatorRow, wanted : OperatorRow,
           code : {0} \cup Secrets, token : 0 .. MaxSessions]
Session == [revoked : BOOLEAN, expires : Int]

CockpitTypes ==
  /\ operator \in OperatorRow
  /\ sessions \in Seq(Session)
  /\ minted \in 0 .. MaxSecrets
  /\ held \in [secrets : SUBSET Nat, codes : SUBSET Secrets]
  /\ request \in [CockpitClients -> {NotAsking} \cup Asking]
  /\ spentBy \in [Secrets -> Nat]
  /\ successors \in [1 .. MaxSessions -> Nat]
  /\ cockpitNow \in Nat
  /\ rivals \in [codes : SUBSET Secrets, tokens : SUBSET (1 .. MaxSessions)]
  /\ mixed \in BOOLEAN

\* What is in the operator's row was shown to the operator, and was minted.
Shown ==
  /\ operator.secret \in held.secrets \cup {0}
  /\ operator.codes \subseteq held.codes
  /\ \A g \in held.codes : g <= minted
  /\ \A g \in Secrets : spentBy[g] > 0 => g \in held.codes

\* The set of codes a request in flight is about to store.
New(c) == request[c].wanted.codes \ request[c].read.codes

\* What a request in flight will write, whatever it overlaps with.
Sane(c) ==
  LET r == request[c] IN
  /\ r.wanted.secret # r.read.secret => r.wanted.secret = 0 \/ r.what = "enroll"
  /\ r.what \notin ChangeFactor =>
       r.wanted.required = r.read.required /\ r.wanted.codes = r.read.codes /\
       (r.wanted.secret = r.read.secret \/ r.wanted.secret # 0)
  /\ \A g \in New(c) : g <= minted /\ g \notin held.codes
  /\ r.code # 0 => r.code \in held.codes /\ (r.code \in r.wanted.used \/ r.code \in r.read.codes \ r.wanted.codes)
  /\ r.token # 0 => r.what = "refresh" /\ r.token \in DOMAIN sessions

\* What a request that changes the factor will write when no other does: it read
\* what is there, and leaves a factor that is usable.
Exact(c) ==
  LET r == request[c] IN
  /\ r.read.required = operator.required /\ r.read.codes = operator.codes
  /\ operator.secret # 0
  /\ r.wanted.required => r.wanted.secret = r.read.secret /\ Cardinality(r.wanted.codes) = 1

Changing(c) == request[c].busy /\ request[c].what \in ChangeFactor

Apart ==
  ~mixed =>
    /\ \A c, d \in CockpitClients : Changing(c) /\ Changing(d) => c = d
    /\ \A c \in CockpitClients : Changing(c) => Exact(c)

\* What a request in flight presents is not spent, and no other presents it, or it has rivals.
Unspent(c) ==
  LET r == request[c] IN
  /\ r.code # 0 /\ r.code \notin rivals.codes =>
       spentBy[r.code] = 0 /\ \A d \in CockpitClients \ {c} : request[d].busy => request[d].code # r.code
  /\ r.token # 0 /\ r.token \notin rivals.tokens =>
       successors[r.token] = 0 /\ \A d \in CockpitClients \ {c} : request[d].busy => request[d].token # r.token

Requested ==
  /\ \A c \in CockpitClients : request[c].busy => Sane(c) /\ Unspent(c)
  /\ \A c, d \in CockpitClients : request[c].busy /\ request[d].busy /\ c # d => New(c) \cap New(d) = {}

\* What was spent cannot be spent again.
SpentGone ==
  /\ \A g \in Secrets : /\ spentBy[g] > 1 => g \in rivals.codes
                        /\ spentBy[g] > 0 => g \in operator.used \/ g \notin operator.codes
  /\ \A i \in 1 .. MaxSessions : /\ successors[i] > 1 => i \in rivals.tokens
                                 /\ successors[i] > 0 => i \in DOMAIN sessions /\ sessions[i].revoked

CockpitInv ==
  CockpitTypes /\ Shown /\ Requested /\ Apart /\ SpentGone /\ FactorUsable

LEMMA CockpitConstants ==
  /\ RefreshTtl \in Nat /\ AccessTtl \in Nat /\ MaxCockpitTime \in Nat /\ MaxSessions \in Nat
  /\ MaxSecrets \in Nat
  BY CockpitAssumption

LEMMA CockpitStart == CockpitInit => CockpitInv
<1> SUFFICES ASSUME CockpitInit PROVE CockpitInv
  OBVIOUS
<1>1. operator \in OperatorRow /\ operator.codes = {} /\ operator.secret = 0 /\ operator.required = FALSE
  BY DEF CockpitInit, OperatorRow
<1>2. CockpitTypes
  <2>1. held \in [secrets : SUBSET Nat, codes : SUBSET Secrets]
    BY DEF CockpitInit
  <2>2. minted \in 0 .. MaxSecrets /\ cockpitNow \in Nat
    BY CockpitConstants DEF CockpitInit
  <2>3. sessions \in Seq(Session)
    BY DEF CockpitInit
  <2>4. /\ rivals \in [codes : SUBSET Secrets, tokens : SUBSET (1 .. MaxSessions)]
        /\ mixed \in BOOLEAN
    BY DEF CockpitInit
  <2>5. spentBy \in [Secrets -> Nat] /\ successors \in [1 .. MaxSessions -> Nat]
    BY DEF CockpitInit
  <2>6. request \in [CockpitClients -> {NotAsking} \cup Asking]
    BY DEF CockpitInit
  <2> QED
    BY <1>1, <2>1, <2>2, <2>5, <2>6, <2>3, <2>4 DEF CockpitTypes
<1>3. \A c \in CockpitClients : ~request[c].busy
  BY DEF CockpitInit, NotAsking
<1>4. Shown /\ SpentGone
  BY <1>1, CockpitConstants DEF CockpitInit, Shown, SpentGone
<1>5. Requested /\ Apart /\ FactorUsable
  BY <1>1, <1>3 DEF Requested, Apart, Changing, FactorUsable
<1> QED
  BY <1>2, <1>3, <1>4, <1>5 DEF CockpitInv

\* A request that is about to be made writes what is sane and, apart from others, exact.
Fits(what, wanted, code, token) ==
  /\ what \in Whats /\ wanted \in OperatorRow
  /\ code \in {0} \cup Secrets /\ token \in 0 .. MaxSessions
  /\ wanted.secret # operator.secret => wanted.secret = 0 \/ what = "enroll"
  /\ what \notin ChangeFactor =>
       /\ wanted.required = operator.required /\ wanted.codes = operator.codes
       /\ wanted.secret = operator.secret \/ wanted.secret # 0
  /\ what \in ChangeFactor =>
       /\ operator.secret # 0
       /\ wanted.required => wanted.secret = operator.secret /\ Cardinality(wanted.codes) = 1
  /\ \A g \in wanted.codes :
       \/ g \in operator.codes
       \/ what \in {"enroll", "confirm", "regenerate"} /\ g = minted + 1
  /\ what \in {"enroll", "confirm", "regenerate"} => minted < MaxSecrets
  /\ token # 0 => what = "refresh" /\ token \in DOMAIN sessions /\ ~sessions[token].revoked
  /\ code # 0 => /\ code \in operator.codes /\ code \notin operator.used
                 /\ code \in wanted.used \/ code \notin wanted.codes

LEMMA AsksStep ==
  ASSUME CockpitInv, NEW c \in CockpitClients, NEW what, NEW wanted, NEW code, NEW token,
         Fits(what, wanted, code, token), Asks(c, what, wanted, code, token)
  PROVE  CockpitInv'
<1> DEFINE new == [busy |-> TRUE, what |-> what, read |-> operator, wanted |-> wanted,
                   code |-> code, token |-> token]
<1>1. /\ ~request[c].busy
      /\ request' = [request EXCEPT ![c] = new]
      /\ rivals' = Rivalled(code, token)
      /\ mixed' = (mixed \/ Mixes(what))
      /\ minted' = minted + IF what \in {"enroll", "confirm", "regenerate"} THEN 1 ELSE 0
      /\ UNCHANGED <<operator, sessions, accessEnds, held, cockpitNow, spentBy, successors>>
  BY DEF Asks
<1>2. /\ operator \in OperatorRow /\ minted \in 0 .. MaxSecrets
      /\ request \in [CockpitClients -> {NotAsking} \cup Asking]
      /\ spentBy \in [Secrets -> Nat] /\ mixed \in BOOLEAN
      /\ successors \in [1 .. MaxSessions -> Nat]
      /\ held \in [secrets : SUBSET Nat, codes : SUBSET Secrets]
      /\ rivals \in [codes : SUBSET Secrets, tokens : SUBSET (1 .. MaxSessions)]
  BY DEF CockpitInv, CockpitTypes
<1>3. new \in Asking
  BY <1>2 DEF Fits, Asking
<1>4. /\ new.busy = TRUE /\ new.what = what /\ new.read = operator /\ new.wanted = wanted
      /\ new.code = code /\ new.token = token
  OBVIOUS
<1> HIDE DEF new
<1>5. /\ request' \in [CockpitClients -> {NotAsking} \cup Asking]
      /\ request'[c] = new /\ \A d \in CockpitClients : d # c => request'[d] = request[d]
  BY <1>1, <1>2, <1>3
<1>6. minted' \in 0 .. MaxSecrets /\ minted' >= minted
  BY <1>1, <1>2, CockpitConstants DEF Fits
<1>7. /\ rivals' \in [codes : SUBSET Secrets, tokens : SUBSET (1 .. MaxSessions)]
      /\ rivals.codes \subseteq rivals'.codes /\ rivals.tokens \subseteq rivals'.tokens
      /\ \A d \in CockpitClients : request[d].busy =>
           /\ code # 0 /\ request[d].code = code => code \in rivals'.codes
           /\ token # 0 /\ request[d].token = token => token \in rivals'.tokens
  <2> DEFINE C == {request[d].code : d \in InFlight}
             T == {request[d].token : d \in InFlight}
  <2>1. /\ rivals'.codes = rivals.codes \cup (({code} \ {0}) \cap C)
        /\ rivals'.tokens = rivals.tokens \cup (({token} \ {0}) \cap T)
        /\ rivals' = [codes |-> rivals'.codes, tokens |-> rivals'.tokens]
    BY <1>1 DEF Rivalled
  <2>2. \A d \in CockpitClients : request[d].busy => request[d].code \in C /\ request[d].token \in T
    BY DEF InFlight
  <2> HIDE DEF C, T
  <2>3. {code} \ {0} \subseteq Secrets /\ {token} \ {0} \subseteq 1 .. MaxSessions
    BY CockpitConstants DEF Fits
  <2>4. rivals.codes \subseteq Secrets /\ rivals.tokens \subseteq 1 .. MaxSessions
    BY <1>2
  <2>5. rivals'.codes \in SUBSET Secrets /\ rivals'.tokens \in SUBSET (1 .. MaxSessions)
    BY <2>1, <2>3, <2>4
  <2> QED
    BY <2>1, <2>2, <2>5
<1>8. CockpitTypes'
  BY <1>1, <1>2, <1>5, <1>6, <1>7 DEF CockpitInv, CockpitTypes, Mixes
<1>9. \A g \in Secrets : g <= minted => g <= minted'
  BY <1>2, <1>6, CockpitConstants DEF Secrets
<1>10. Shown'
  BY <1>1, <1>2, <1>9 DEF CockpitInv, Shown
<1>11. New(c)' \subseteq Secrets /\ \A g \in New(c)' : g = minted + 1 /\ g = minted'
  <2>1. New(c)' = wanted.codes \ operator.codes
    BY <1>4, <1>5 DEF New
  <2> QED
    BY <2>1, <1>1 DEF Fits, OperatorRow
<1>12. minted + 1 \notin held.codes /\ \A d \in CockpitClients : request[d].busy => minted + 1 \notin New(d)
  BY <1>2, CockpitConstants DEF CockpitInv, Shown, Requested, Sane
<1>13. ASSUME NEW d \in CockpitClients, d # c, request'[d].busy
       PROVE  /\ request'[d] = request[d] /\ request[d].busy /\ Sane(d) /\ Unspent(d)
              /\ New(d)' = New(d)
  BY <1>13, <1>5 DEF CockpitInv, Requested, New
<1>14. Sane(c)'
  <2>1. \A g \in New(c)' : g <= minted' /\ g \notin held.codes
    BY <1>6, <1>11, <1>12
  <2>2. code # 0 => code \in held.codes /\ (code \in wanted.used \/ code \in operator.codes \ wanted.codes)
    BY DEF Fits, CockpitInv, Shown
  <2>3. /\ wanted.secret # operator.secret => wanted.secret = 0 \/ what = "enroll"
        /\ what \notin ChangeFactor =>
             /\ wanted.required = operator.required /\ wanted.codes = operator.codes
             /\ wanted.secret = operator.secret \/ wanted.secret # 0
        /\ token # 0 => what = "refresh" /\ token \in DOMAIN sessions
    BY DEF Fits
  <2> QED
    BY <1>1, <1>4, <1>5, <2>1, <2>2, <2>3 DEF Sane
<1>15. ASSUME NEW d \in CockpitClients, d # c, request'[d].busy PROVE Sane(d)'
  <2>1. request'[d] = request[d] /\ Sane(d) /\ New(d)' = New(d)
    BY <1>13, <1>15
  <2>2. request[d] \in Asking
    BY <1>2, <1>13, <1>15 DEF NotAsking
  <2>3. New(d) \subseteq Secrets
    BY <2>2 DEF New, Asking, OperatorRow
  <2> QED
    BY <2>1, <2>3, <1>1, <1>9 DEF Sane
<1>16. Unspent(c)'
  <2>1. code # 0 => spentBy[code] = 0
    BY <1>2 DEF Fits, CockpitInv, SpentGone
  <2>2. token # 0 => successors[token] = 0
    <3>1. token # 0 => token \in 1 .. MaxSessions /\ ~sessions[token].revoked
      BY CockpitConstants DEF Fits
    <3> QED
      BY <3>1, <1>2 DEF CockpitInv, SpentGone
  <2>3. ASSUME NEW d \in CockpitClients \ {c}, request'[d].busy
        PROVE  /\ code # 0 /\ code \notin rivals'.codes => request'[d].code # code
               /\ token # 0 /\ token \notin rivals'.tokens => request'[d].token # token
    BY <2>3, <1>7, <1>13
  <2> QED
    BY <1>1, <1>4, <1>5, <2>1, <2>2, <2>3 DEF Unspent
<1>17. ASSUME NEW d \in CockpitClients, d # c, request'[d].busy PROVE Unspent(d)'
  <2>1. request'[d] = request[d] /\ request[d].busy /\ Unspent(d)
    BY <1>13, <1>17
  <2>2. /\ request[d].code # 0 /\ request[d].code \notin rivals'.codes => code # request[d].code
        /\ request[d].token # 0 /\ request[d].token \notin rivals'.tokens => token # request[d].token
    BY <2>1, <1>7
  <2>3. \A e \in CockpitClients \ {d} : request'[e].busy =>
          \/ e = c /\ request'[e].code = code /\ request'[e].token = token
          \/ request'[e] = request[e] /\ request[e].busy
    BY <1>4, <1>5, <1>13
  <2>4. /\ request[d].code # 0 /\ request[d].code \notin rivals'.codes =>
             spentBy[request[d].code] = 0 /\
             \A e \in CockpitClients \ {d} : request'[e].busy => request'[e].code # request[d].code
        /\ request[d].token # 0 /\ request[d].token \notin rivals'.tokens =>
             successors[request[d].token] = 0 /\
             \A e \in CockpitClients \ {d} : request'[e].busy => request'[e].token # request[d].token
    BY <2>1, <2>2, <2>3, <1>7 DEF Unspent
  <2> QED
    BY <2>1, <2>4, <1>1 DEF Unspent
<1>18. ASSUME NEW d \in CockpitClients, NEW e \in CockpitClients, d # e, request'[d].busy, request'[e].busy
       PROVE  New(d)' \cap New(e)' = {}
  <2>1. CASE d # c /\ e # c
    BY <2>1, <1>13, <1>18 DEF CockpitInv, Requested
  <2>2. CASE d = c
    BY <2>2, <1>11, <1>12, <1>13, <1>18
  <2>3. CASE e = c
    BY <2>3, <1>11, <1>12, <1>13, <1>18
  <2> QED
    BY <2>1, <2>2, <2>3
<1>19. Requested'
  BY <1>14, <1>15, <1>16, <1>17, <1>18 DEF Requested
<1>20. Apart'
  <2> SUFFICES ASSUME ~mixed' PROVE Apart'
    BY DEF Apart
  <2>1. ~mixed /\ (what \in ChangeFactor => \A d \in CockpitClients : ~Changing(d))
    BY <1>1, <1>2 DEF Mixes, InFlight, Changing
  <2>2. \A d \in CockpitClients : Changing(d)' => (d = c /\ what \in ChangeFactor) \/ (d # c /\ Changing(d))
    BY <1>4, <1>5 DEF Changing
  <2>3. what \in ChangeFactor => Exact(c)'
    BY <1>1, <1>4, <1>5 DEF Fits, Exact
  <2>4. ASSUME NEW d \in CockpitClients, d # c, Changing(d) PROVE Exact(d)'
    <3>1. Exact(d) /\ request'[d] = request[d]
      BY <2>1, <2>4, <1>5 DEF CockpitInv, Apart
    <3> QED
      BY <3>1, <1>1 DEF Exact
  <2>5. \A d, e \in CockpitClients : Changing(d) /\ Changing(e) => d = e
    BY <2>1 DEF CockpitInv, Apart
  <2> QED
    BY <2>1, <2>2, <2>3, <2>4, <2>5 DEF Apart
<1>21. SpentGone' /\ FactorUsable'
  BY <1>1, <1>2, <1>7 DEF CockpitInv, SpentGone, FactorUsable
<1> QED
  BY <1>8, <1>10, <1>19, <1>20, <1>21 DEF CockpitInv

\* The requests, one by one.
LEMMA LoginStep ==
  ASSUME CockpitInv, NEW c \in CockpitClients, Login(c)
  PROVE  CockpitInv'
<1>1. operator \in OperatorRow
  BY DEF CockpitInv, CockpitTypes
<1>2. ASSUME Asks(c, "login", operator, 0, 0) PROVE CockpitInv'
  <2>1. Fits("login", operator, 0, 0)
    BY <1>1, CockpitConstants DEF Fits, Whats, ChangeFactor
  <2> QED
    BY <1>2, <2>1, AsksStep
<1>3. ASSUME NEW g \in LiveCodes, Asks(c, "login", [operator EXCEPT !.used = @ \cup {g}], g, 0)
      PROVE  CockpitInv'
  <2> DEFINE wanted == [operator EXCEPT !.used = @ \cup {g}]
  <2>1. g \in operator.codes /\ g \notin operator.used /\ g \in Secrets
    BY <1>1, <1>3 DEF LiveCodes, OperatorRow
  <2>2. /\ wanted \in OperatorRow /\ g \in wanted.used /\ wanted.codes = operator.codes
        /\ wanted.secret = operator.secret /\ wanted.required = operator.required
    BY <1>1, <2>1 DEF OperatorRow
  <2>3. Asks(c, "login", wanted, g, 0)
    BY <1>3
  <2> HIDE DEF wanted
  <2>4. Fits("login", wanted, g, 0)
    BY <2>1, <2>2, CockpitConstants DEF Fits, Whats, ChangeFactor
  <2> QED
    BY <2>3, <2>4, AsksStep
<1> QED
  BY <1>2, <1>3 DEF Login

LEMMA RefreshStep ==
  ASSUME CockpitInv, NEW c \in CockpitClients, NEW i \in 1 .. MaxSessions, Refresh(c, i)
  PROVE  CockpitInv'
<1>1. operator \in OperatorRow /\ sessions \in Seq(Session)
  BY DEF CockpitInv, CockpitTypes
<1>2. i \in DOMAIN sessions /\ ~sessions[i].revoked /\ i \in 0 .. MaxSessions
  BY <1>1, CockpitConstants DEF Refresh
<1>3. Fits("refresh", operator, 0, i)
  BY <1>1, <1>2, CockpitConstants DEF Fits, Whats, ChangeFactor
<1> QED
  BY <1>3, AsksStep DEF Refresh

LEMMA EnrollStep ==
  ASSUME CockpitInv, NEW c \in CockpitClients, Enroll(c)
  PROVE  CockpitInv'
<1> DEFINE wanted == [operator EXCEPT !.secret = minted + 1]
<1>1. operator \in OperatorRow /\ minted \in Nat
  BY CockpitConstants DEF CockpitInv, CockpitTypes
<1>2. /\ wanted \in OperatorRow /\ wanted.codes = operator.codes
      /\ wanted.required = operator.required
  BY <1>1 DEF OperatorRow
<1>3. operator.secret = 0 /\ minted < MaxSecrets /\ Asks(c, "enroll", wanted, 0, 0)
  BY DEF Enroll
<1>4. wanted.secret = minted + 1 /\ minted + 1 # 0
  BY <1>1 DEF OperatorRow
<1> HIDE DEF wanted
<1>5. Fits("enroll", wanted, 0, 0)
  BY <1>2, <1>3, <1>4, CockpitConstants DEF Fits, Whats, ChangeFactor
<1> QED
  BY <1>3, <1>5, AsksStep

LEMMA RegeneratedRow ==
  ASSUME CockpitInv, minted < MaxSecrets
  PROVE  /\ Regenerated \in OperatorRow /\ Regenerated.codes = {minted + 1}
         /\ Regenerated.secret = operator.secret /\ Regenerated.required = operator.required
         /\ Cardinality({minted + 1}) = 1
<1>1. operator \in OperatorRow /\ minted + 1 \in Secrets
  BY CockpitConstants DEF CockpitInv, CockpitTypes, Secrets
<1>2. Cardinality({minted + 1}) = 1
  BY FS_Singleton
<1> QED
  BY <1>1, <1>2 DEF Regenerated, OperatorRow

LEMMA ConfirmStep ==
  ASSUME CockpitInv, NEW c \in CockpitClients, Confirm(c)
  PROVE  CockpitInv'
<1> DEFINE wanted == [Regenerated EXCEPT !.required = TRUE]
<1>1. operator.secret # 0 /\ minted < MaxSecrets /\ Asks(c, "confirm", wanted, 0, 0)
  BY DEF Confirm
<1>2. wanted \in OperatorRow /\ wanted.codes = {minted + 1} /\ wanted.secret = operator.secret
  BY <1>1, RegeneratedRow DEF OperatorRow
<1> HIDE DEF wanted
<1>3. Fits("confirm", wanted, 0, 0)
  BY <1>1, <1>2, RegeneratedRow, CockpitConstants DEF Fits, Whats, ChangeFactor
<1> QED
  BY <1>1, <1>3, AsksStep

LEMMA RegenerateStep ==
  ASSUME CockpitInv, NEW c \in CockpitClients, RegenerateRecoveryCodes(c)
  PROVE  CockpitInv'
<1>1. operator.secret # 0 /\ minted < MaxSecrets /\ Asks(c, "regenerate", Regenerated, 0, 0)
  BY DEF RegenerateRecoveryCodes
<1> DEFINE wanted == Regenerated
<1>2. /\ wanted \in OperatorRow /\ wanted.codes = {minted + 1} /\ wanted.secret = operator.secret
      /\ Cardinality(wanted.codes) = 1
  BY <1>1, RegeneratedRow
<1>3. Asks(c, "regenerate", wanted, 0, 0)
  BY <1>1
<1> HIDE DEF wanted
<1>4. Fits("regenerate", wanted, 0, 0)
  BY <1>1, <1>2, CockpitConstants DEF Fits, Whats, ChangeFactor
<1> QED
  BY <1>3, <1>4, AsksStep

LEMMA DisableStep ==
  ASSUME CockpitInv, NEW c \in CockpitClients, Disable(c)
  PROVE  CockpitInv'
<1>1. operator \in OperatorRow
  BY DEF CockpitInv, CockpitTypes
<1>2. /\ Disabled \in OperatorRow /\ Disabled.codes = {} /\ Disabled.secret = 0
      /\ Disabled.required = FALSE
  <2> DEFINE a == [operator EXCEPT !.required = FALSE]
             b == [a EXCEPT !.secret = 0]
             d == [b EXCEPT !.codes = {}]
  <2>1. a \in OperatorRow /\ a.required = FALSE
    BY <1>1 DEF OperatorRow
  <2>2. Disabled = d
    BY DEF Disabled
  <2> HIDE DEF a
  <2>3. b \in OperatorRow /\ b.required = FALSE /\ b.secret = 0
    BY <2>1 DEF OperatorRow
  <2> HIDE DEF b
  <2>4. d \in OperatorRow /\ d.required = FALSE /\ d.secret = 0 /\ d.codes = {}
    BY <2>3 DEF OperatorRow
  <2> QED
    BY <2>2, <2>4
<1>3. ASSUME NEW g \in {0} \cup LiveCodes, operator.secret # 0, Asks(c, "disable", Disabled, g, 0)
      PROVE  CockpitInv'
  <2>1. g # 0 => g \in operator.codes /\ g \notin operator.used /\ g \in Secrets
    BY <1>1 DEF LiveCodes, OperatorRow
  <2>2. Fits("disable", Disabled, g, 0)
    BY <1>2, <1>3, <2>1, CockpitConstants DEF Fits, Whats, ChangeFactor
  <2> QED
    BY <1>3, <2>2, AsksStep
<1> QED
  BY <1>3 DEF Disable

\* Steps that leave the requests and what they spend alone.
LEMMA LogoutStep ==
  ASSUME CockpitInv, NEW i \in 1 .. MaxSessions, Logout(i)
  PROVE  CockpitInv'
<1> DEFINE s == [sessions[i] EXCEPT !.revoked = TRUE]
<1>1. /\ i <= Len(sessions)
      /\ sessions' = [sessions EXCEPT ![i] = s]
      /\ UNCHANGED <<operator, minted, held, request, cockpitNow, spentBy, successors, rivals, mixed>>
  BY CockpitConstants DEF Logout, Revokes
<1>2. sessions \in Seq(Session)
  BY DEF CockpitInv, CockpitTypes
<1>3. i \in DOMAIN sessions
  BY <1>1, <1>2
<1>4. sessions[i] \in Session
  BY <1>2, <1>3
<1>5. s \in Session /\ s.revoked
  BY <1>4 DEF Session
<1> HIDE DEF s
<1>6. /\ sessions' \in Seq(Session) /\ DOMAIN sessions' = DOMAIN sessions
      /\ sessions'[i] = s /\ \A j \in DOMAIN sessions : j # i => sessions'[j] = sessions[j]
  BY <1>1, <1>2, <1>3, <1>5
<1>7. CockpitTypes'
  BY <1>1, <1>6 DEF CockpitInv, CockpitTypes
<1>8. Shown' /\ FactorUsable'
  BY <1>1 DEF CockpitInv, Shown, FactorUsable
<1>9. Requested'
  BY <1>1, <1>6 DEF CockpitInv, Requested, Sane, Unspent, New
<1>10. Apart'
  BY <1>1 DEF CockpitInv, Apart, Changing, Exact
<1>11. SpentGone'
  BY <1>1, <1>5, <1>6 DEF CockpitInv, SpentGone
<1> QED
  BY <1>7, <1>8, <1>9, <1>10, <1>11 DEF CockpitInv

LEMMA SuspendStep ==
  ASSUME CockpitInv, Suspend
  PROVE  CockpitInv'
<1>1. /\ operator' = [operator EXCEPT !.status = IF @ = "active" THEN "suspended" ELSE "active"]
      /\ UNCHANGED <<sessions, minted, held, request, cockpitNow, spentBy, successors, rivals, mixed>>
  BY DEF Suspend
<1>2. operator \in OperatorRow
  BY DEF CockpitInv, CockpitTypes
<1>3. /\ operator' \in OperatorRow /\ operator'.required = operator.required
      /\ operator'.secret = operator.secret /\ operator'.codes = operator.codes
      /\ operator'.used = operator.used
  BY <1>1, <1>2 DEF OperatorRow
<1>4. CockpitTypes'
  BY <1>1, <1>3 DEF CockpitInv, CockpitTypes
<1>5. Shown' /\ FactorUsable' /\ SpentGone'
  BY <1>1, <1>3 DEF CockpitInv, Shown, FactorUsable, SpentGone
<1>6. Requested'
  BY <1>1 DEF CockpitInv, Requested, Sane, Unspent, New
<1>7. Apart'
  BY <1>1, <1>3 DEF CockpitInv, Apart, Changing, Exact
<1> QED
  BY <1>4, <1>5, <1>6, <1>7 DEF CockpitInv

\* A request that is gone leaves fewer to speak of.
LEMMA AbortStep ==
  ASSUME CockpitInv, NEW c \in CockpitClients, AbortRequest(c)
  PROVE  CockpitInv'
<1>1. /\ request' = [request EXCEPT ![c] = NotAsking]
      /\ UNCHANGED <<operator, sessions, minted, held, cockpitNow, spentBy, successors, rivals, mixed>>
  BY DEF AbortRequest
<1>2. request \in [CockpitClients -> {NotAsking} \cup Asking]
  BY DEF CockpitInv, CockpitTypes
<1>3. /\ request' \in [CockpitClients -> {NotAsking} \cup Asking]
      /\ \A d \in CockpitClients : request'[d].busy => d # c /\ request'[d] = request[d]
  BY <1>1, <1>2 DEF NotAsking
<1>4. CockpitTypes'
  BY <1>1, <1>3 DEF CockpitInv, CockpitTypes
<1>5. Shown' /\ FactorUsable' /\ SpentGone'
  BY <1>1 DEF CockpitInv, Shown, FactorUsable, SpentGone
<1>6. Requested'
  BY <1>1, <1>3 DEF CockpitInv, Requested, Sane, Unspent, New
<1>7. Apart'
  BY <1>1, <1>3 DEF CockpitInv, Apart, Changing, Exact
<1> QED
  BY <1>4, <1>5, <1>6, <1>7 DEF CockpitInv

LEMMA CockpitSame ==
  ASSUME CockpitInv, cockpitNow' \in Nat,
         UNCHANGED <<operator, sessions, minted, held, request, spentBy, successors, rivals, mixed>>
  PROVE  CockpitInv'
<1>1. CockpitTypes'
  BY DEF CockpitInv, CockpitTypes
<1>2. Shown' /\ FactorUsable' /\ SpentGone'
  BY DEF CockpitInv, Shown, FactorUsable, SpentGone
<1>3. Requested'
  BY DEF CockpitInv, Requested, Sane, Unspent, New
<1>4. Apart'
  BY DEF CockpitInv, Apart, Changing, Exact
<1> QED
  BY <1>1, <1>2, <1>3, <1>4 DEF CockpitInv

\* The sessions a commit leaves: none is taken back, and the one it rotates is revoked.
LEMMA CommittedSessions ==
  ASSUME sessions \in Seq(Session), cockpitNow \in Nat,
         NEW token \in 0 .. MaxSessions, token # 0 => token \in DOMAIN sessions,
         NEW issues \in BOOLEAN, token # 0 => issues, NEW after,
         after = IF issues
                 THEN Append(Revokes(token), [revoked |-> FALSE, expires |-> cockpitNow + RefreshTtl])
                 ELSE sessions
  PROVE  /\ after \in Seq(Session) /\ DOMAIN sessions \subseteq DOMAIN after
         /\ \A i \in DOMAIN sessions : sessions[i].revoked => after[i].revoked
         /\ token # 0 => after[token].revoked
<1> DEFINE fresh == [revoked |-> FALSE, expires |-> cockpitNow + RefreshTtl]
<1>1. fresh \in Session
  BY CockpitConstants DEF Session
<1>2. /\ Revokes(token) \in Seq(Session) /\ Len(Revokes(token)) = Len(sessions)
      /\ \A i \in DOMAIN sessions : sessions[i].revoked => Revokes(token)[i].revoked
      /\ token # 0 => Revokes(token)[token].revoked
  <2>1. CASE token = 0
    BY <2>1 DEF Revokes
  <2>2. CASE token # 0
    <3> DEFINE s == [sessions[token] EXCEPT !.revoked = TRUE]
    <3>1. sessions[token] \in Session
      BY <2>2
    <3>2. s \in Session /\ s.revoked
      BY <3>1 DEF Session
    <3>3. Revokes(token) = [sessions EXCEPT ![token] = s]
      BY <2>2 DEF Revokes
    <3> HIDE DEF s
    <3> QED
      BY <2>2, <3>2, <3>3
  <2> QED
    BY <2>1, <2>2
<1> HIDE DEF fresh
<1>3. CASE issues
  <2>1. after = Append(Revokes(token), fresh)
    BY <1>3 DEF fresh
  <2> DEFINE rev == Revokes(token)
  <2> HIDE DEF rev
  <2>2. after = Append(rev, fresh) /\ rev \in Seq(Session) /\ Len(rev) = Len(sessions)
    BY <1>2, <2>1 DEF rev
  <2>3. Append(rev, fresh) \in Seq(Session)
    BY <1>1, <2>2
  <2>4. Len(Append(rev, fresh)) = Len(rev) + 1
    BY <1>1, <2>2
  <2>5. after \in Seq(Session) /\ Len(after) = Len(sessions) + 1
    BY <2>2, <2>3, <2>4
  <2>6. DOMAIN sessions \subseteq DOMAIN after
    BY <2>5
  <2>7. \A i \in DOMAIN sessions : after[i] = rev[i]
    BY <2>2, <1>1
  <2> QED
    BY <1>2, <2>5, <2>6, <2>7 DEF rev
<1>4. CASE ~issues
  BY <1>4
<1> QED
  BY <1>3, <1>4

\* A request commits: apart from others that change the factor, it writes what it wants.
LEMMA CommitStep ==
  ASSUME CockpitInv, NEW c \in CockpitClients, CommitRequest(c)
  PROVE  CockpitInv'
<1> DEFINE r == request[c]
           issues == r.what \in {"login", "refresh"}
           fresh == [revoked |-> FALSE, expires |-> cockpitNow + RefreshTtl]
<1>1. /\ r.busy /\ operator' = Written(r)
      /\ sessions' = IF issues THEN Append(Revokes(r.token), fresh) ELSE sessions
      /\ held' = [secrets |-> held.secrets \cup (IF r.what = "enroll" THEN {r.wanted.secret} ELSE {}),
                  codes   |-> held.codes \cup (r.wanted.codes \ r.read.codes)]
      /\ request' = [request EXCEPT ![c] = NotAsking]
      /\ spentBy' = [g \in Secrets |-> spentBy[g] + IF g = r.code THEN 1 ELSE 0]
      /\ successors' = [i \in DOMAIN successors |->
                          successors[i] + IF i = r.token THEN 1 ELSE 0]
      /\ UNCHANGED <<minted, cockpitNow, requests, rivals, mixed>>
  BY DEF CommitRequest
<1>2. /\ operator \in OperatorRow /\ minted \in 0 .. MaxSecrets /\ sessions \in Seq(Session)
      /\ request \in [CockpitClients -> {NotAsking} \cup Asking]
      /\ spentBy \in [Secrets -> Nat] /\ successors \in [1 .. MaxSessions -> Nat]
      /\ held \in [secrets : SUBSET Nat, codes : SUBSET Secrets] /\ cockpitNow \in Nat
  BY DEF CockpitInv, CockpitTypes
<1>3. r \in Asking
  BY <1>1, <1>2 DEF NotAsking
<1>4. /\ r.read \in OperatorRow /\ r.wanted \in OperatorRow
      /\ r.code \in {0} \cup Secrets /\ r.token \in 0 .. MaxSessions
  BY <1>3 DEF Asking
<1>5. Sane(c) /\ Unspent(c)
  BY <1>1 DEF CockpitInv, Requested
<1>6. /\ r.wanted.secret # r.read.secret => r.wanted.secret = 0 \/ r.what = "enroll"
      /\ r.what \notin ChangeFactor =>
           r.wanted.required = r.read.required /\ r.wanted.codes = r.read.codes /\
           (r.wanted.secret = r.read.secret \/ r.wanted.secret # 0)
      /\ \A g \in r.wanted.codes \ r.read.codes : g <= minted /\ g \notin held.codes
      /\ r.code # 0 => /\ r.code \in held.codes
                       /\ r.code \in r.wanted.used \/ r.code \in r.read.codes \ r.wanted.codes
      /\ r.token # 0 => r.what = "refresh" /\ r.token \in DOMAIN sessions
  BY <1>5 DEF Sane, New
<1>7. /\ r.code # 0 /\ r.code \notin rivals.codes => spentBy[r.code] = 0
      /\ r.token # 0 /\ r.token \notin rivals.tokens => successors[r.token] = 0
      /\ \A d \in CockpitClients : request[d].busy /\ d # c =>
           /\ r.code # 0 /\ r.code \notin rivals.codes => request[d].code # r.code
           /\ r.token # 0 /\ r.token \notin rivals.tokens => request[d].token # r.token
  BY <1>5 DEF Unspent
<1>8. /\ r.what \in ChangeFactor /\ ~mixed =>
           /\ r.read.required = operator.required /\ r.read.codes = operator.codes
           /\ operator.secret # 0
           /\ r.wanted.required => r.wanted.secret = r.read.secret /\ Cardinality(r.wanted.codes) = 1
      /\ r.what \in ChangeFactor /\ ~mixed =>
           \A d \in CockpitClients : d # c => ~Changing(d)
  BY <1>1 DEF CockpitInv, Apart, Changing, Exact
<1>9. \A d \in CockpitClients : request'[d].busy => d # c /\ request'[d] = request[d]
  BY <1>1, <1>2 DEF NotAsking
<1>10. request' \in [CockpitClients -> {NotAsking} \cup Asking]
  BY <1>1, <1>2
<1> HIDE DEF r
<1>11. /\ operator'.status = operator.status
       /\ operator'.required = IF r.wanted.required # r.read.required THEN r.wanted.required
                                                                     ELSE operator.required
       /\ operator'.secret = IF r.wanted.secret # r.read.secret THEN r.wanted.secret
                                                                ELSE operator.secret
       /\ operator'.codes = (operator.codes \ (r.read.codes \ r.wanted.codes))
                              \cup (r.wanted.codes \ r.read.codes)
       /\ operator'.used = operator.used \cup r.wanted.used
  BY <1>1 DEF Written
<1>12. operator' \in OperatorRow
  <2>1. /\ operator.status \in {"active", "suspended"} /\ operator.required \in BOOLEAN
        /\ operator.secret \in Nat /\ operator.codes \subseteq Secrets /\ operator.used \subseteq Secrets
    BY <1>2 DEF OperatorRow
  <2>2. /\ r.wanted.required \in BOOLEAN
        /\ r.wanted.secret \in Nat /\ r.wanted.codes \subseteq Secrets /\ r.wanted.used \subseteq Secrets
    BY <1>4 DEF OperatorRow
  <2>3. (IF r.wanted.required # r.read.required THEN r.wanted.required ELSE operator.required) \in BOOLEAN
    BY <2>1, <2>2
  <2>4. (IF r.wanted.secret # r.read.secret THEN r.wanted.secret ELSE operator.secret) \in Nat
    BY <2>1, <2>2
  <2>5. (operator.codes \ (r.read.codes \ r.wanted.codes)) \cup (r.wanted.codes \ r.read.codes)
          \in SUBSET Secrets
    BY <2>1, <2>2
  <2>6. operator.used \cup r.wanted.used \in SUBSET Secrets
    BY <2>1, <2>2
  <2> QED
    BY <1>1, <2>1, <2>3, <2>4, <2>5, <2>6 DEF Written, OperatorRow
<1>13. /\ sessions' \in Seq(Session) /\ DOMAIN sessions \subseteq DOMAIN sessions'
       /\ \A i \in DOMAIN sessions : sessions[i].revoked => sessions'[i].revoked
       /\ r.token # 0 => sessions'[r.token].revoked
  BY <1>1, <1>2, <1>4, <1>6, CommittedSessions
<1>14. /\ held'.secrets = held.secrets \cup (IF r.what = "enroll" THEN {r.wanted.secret} ELSE {})
       /\ held'.codes = held.codes \cup (r.wanted.codes \ r.read.codes)
       /\ held' \in [secrets : SUBSET Nat, codes : SUBSET Secrets]
  <2>1. r.wanted.secret \in Nat /\ r.wanted.codes \subseteq Secrets
    BY <1>4 DEF OperatorRow
  <2> QED
    BY <1>1, <1>2, <2>1
<1>15. /\ spentBy' \in [Secrets -> Nat] /\ successors' \in [1 .. MaxSessions -> Nat]
       /\ \A g \in Secrets : spentBy'[g] = spentBy[g] + IF g = r.code THEN 1 ELSE 0
       /\ \A i \in 1 .. MaxSessions : successors'[i] = successors[i] + IF i = r.token THEN 1 ELSE 0
  BY <1>1, <1>2
<1>16. CockpitTypes'
  BY <1>1, <1>10, <1>12, <1>13, <1>14, <1>15 DEF CockpitInv, CockpitTypes
<1>17. Shown'
  <2>1. operator'.secret \in held'.secrets \cup {0}
    BY <1>6, <1>11, <1>14 DEF CockpitInv, Shown
  <2>2. operator'.codes \subseteq held'.codes
    BY <1>11, <1>14 DEF CockpitInv, Shown
  <2>3. \A g \in held'.codes : g <= minted
    BY <1>6, <1>14 DEF CockpitInv, Shown
  <2>4. ASSUME NEW g \in Secrets, spentBy'[g] > 0 PROVE g \in held'.codes
    <3>1. g # 0 /\ spentBy[g] \in Nat
      BY <1>2, CockpitConstants DEF Secrets
    <3>2. CASE g = r.code
      BY <3>1, <3>2, <1>6, <1>14
    <3>3. CASE g # r.code
      BY <3>1, <3>3, <2>4, <1>14, <1>15 DEF CockpitInv, Shown
    <3> QED
      BY <3>2, <3>3
  <2> QED
    BY <1>1, <2>1, <2>2, <2>3, <2>4 DEF Shown
<1>18. Requested'
  <2>1. ASSUME NEW d \in CockpitClients, request'[d].busy
        PROVE  /\ d # c /\ request'[d] = request[d] /\ request[d].busy /\ New(d)' = New(d)
               /\ Sane(d) /\ Unspent(d) /\ New(c) \cap New(d) = {} /\ request[d] \in Asking
    <3>1. d # c /\ request'[d] = request[d] /\ request[d].busy
      BY <2>1, <1>9
    <3>2. request[c].busy
      BY <1>1 DEF r
    <3> QED
      BY <3>1, <3>2, <1>2 DEF CockpitInv, Requested, New, NotAsking
  <2>2. ASSUME NEW d \in CockpitClients, request'[d].busy PROVE Sane(d)'
    <3>1. New(c) = r.wanted.codes \ r.read.codes
      BY DEF New, r
    <3> QED
      BY <2>1, <2>2, <3>1, <1>1, <1>13, <1>14 DEF Sane
  <2>3. ASSUME NEW d \in CockpitClients, request'[d].busy PROVE Unspent(d)'
    <3>1. /\ Unspent(d) /\ request'[d] = request[d] /\ request[d].busy /\ d # c
          /\ request[d].code \in {0} \cup Secrets /\ request[d].token \in 0 .. MaxSessions
      BY <2>1, <2>3 DEF Asking
    <3>2. ASSUME request[d].code # 0, request[d].code \notin rivals.codes
          PROVE  spentBy'[request[d].code] = 0
      <4>1. spentBy[request[d].code] = 0 /\ request[d].code # r.code
        BY <3>1, <3>2, <1>1 DEF Unspent, r
      <4> QED
        BY <3>1, <3>2, <4>1, <1>15
    <3>3. ASSUME request[d].token # 0, request[d].token \notin rivals.tokens
          PROVE  successors'[request[d].token] = 0
      <4>1. successors[request[d].token] = 0 /\ request[d].token # r.token
        BY <3>1, <3>3, <1>1 DEF Unspent, r
      <4>2. request[d].token \in 1 .. MaxSessions
        BY <3>1, <3>3, CockpitConstants
      <4> QED
        BY <4>1, <4>2, <1>15
    <3>4. \A e \in CockpitClients : request'[e].busy => request'[e] = request[e] /\ request[e].busy
      BY <2>1
    <3> QED
      BY <3>1, <3>2, <3>3, <3>4, <1>1 DEF Unspent
  <2>4. ASSUME NEW d \in CockpitClients, NEW e \in CockpitClients, request'[d].busy, request'[e].busy, d # e
        PROVE  New(d)' \cap New(e)' = {}
    BY <2>1, <2>4 DEF CockpitInv, Requested
  <2> QED
    BY <2>2, <2>3, <2>4 DEF Requested
<1>19. Apart' /\ FactorUsable'
  <2> SUFFICES ASSUME ~mixed PROVE Apart' /\ FactorUsable'
    BY <1>1 DEF Apart, FactorUsable
  <2>1. \A d \in CockpitClients : Changing(d)' => d # c /\ Changing(d) /\ request'[d] = request[d]
    BY <1>9 DEF Changing
  <2>2. CASE r.what \in ChangeFactor
    <3>1. Apart'
      BY <2>1, <2>2, <1>8 DEF Apart
    <3>2. operator'.codes = r.wanted.codes /\ operator'.required = r.wanted.required
      BY <2>2, <1>8, <1>11
    <3>3. r.wanted.required => operator'.secret # 0 /\ Cardinality(r.wanted.codes) = 1
      BY <2>2, <1>8, <1>11
    <3> QED
      BY <3>1, <3>2, <3>3 DEF FactorUsable
  <2>3. CASE r.what \notin ChangeFactor
    <3>1. operator'.required = operator.required /\ operator'.codes = operator.codes
      BY <2>3, <1>6, <1>11
    <3>2. operator.secret # 0 => operator'.secret # 0
      BY <2>3, <1>6, <1>11
    <3>3. ASSUME NEW d \in CockpitClients, Changing(d)' PROVE Exact(d)'
      <4>1. Exact(d) /\ request'[d] = request[d]
        BY <2>1, <3>3 DEF CockpitInv, Apart
      <4> QED
        BY <4>1, <3>1, <3>2 DEF Exact
    <3>4. Apart'
      BY <2>1, <3>3 DEF Apart, CockpitInv
    <3> QED
      BY <3>1, <3>2, <3>4 DEF FactorUsable, CockpitInv
  <2> QED
    BY <2>2, <2>3
<1>20. SpentGone'
  <2>1. ASSUME NEW g \in Secrets
        PROVE  /\ spentBy'[g] > 1 => g \in rivals.codes
               /\ spentBy'[g] > 0 => g \in operator'.used \/ g \notin operator'.codes
    <3>1. g # 0 /\ spentBy[g] \in Nat
      BY <1>2, CockpitConstants DEF Secrets
    <3>2. CASE g = r.code
      <4>1. spentBy'[g] > 1 => g \in rivals.codes
        BY <3>1, <3>2, <1>7, <1>15
      <4>2. g \in operator'.used \/ g \notin operator'.codes
        BY <3>1, <3>2, <1>6, <1>11
      <4> QED
        BY <4>1, <4>2
    <3>3. CASE g # r.code
      <4>1. spentBy'[g] = spentBy[g]
        BY <3>1, <3>3, <1>15
      <4>2. /\ spentBy[g] > 1 => g \in rivals.codes
            /\ spentBy[g] > 0 => g \in held.codes /\ (g \in operator.used \/ g \notin operator.codes)
        BY DEF CockpitInv, SpentGone, Shown
      <4> QED
        BY <4>1, <4>2, <1>6, <1>11
    <3> QED
      BY <3>2, <3>3
  <2>2. ASSUME NEW i \in 1 .. MaxSessions
        PROVE  /\ successors'[i] > 1 => i \in rivals.tokens
               /\ successors'[i] > 0 => i \in DOMAIN sessions' /\ sessions'[i].revoked
    <3>1. i # 0 /\ successors[i] \in Nat
      BY <1>2, CockpitConstants
    <3>2. CASE i = r.token
      BY <3>1, <3>2, <1>6, <1>7, <1>13, <1>15
    <3>3. CASE i # r.token
      BY <3>1, <3>3, <1>13, <1>15 DEF CockpitInv, SpentGone
    <3> QED
      BY <3>2, <3>3
  <2> QED
    BY <1>1, <2>1, <2>2 DEF SpentGone
<1> QED
  BY <1>16, <1>17, <1>18, <1>19, <1>20 DEF CockpitInv


LEMMA CockpitNextStep ==
  ASSUME CockpitInv, CockpitNext
  PROVE  CockpitInv'
<1>1. CASE \E c \in CockpitClients : Login(c)
  BY <1>1, LoginStep
<1>2. CASE \E c \in CockpitClients : Enroll(c)
  BY <1>2, EnrollStep
<1>3. CASE \E c \in CockpitClients : Confirm(c)
  BY <1>3, ConfirmStep
<1>4. CASE \E c \in CockpitClients : RegenerateRecoveryCodes(c)
  BY <1>4, RegenerateStep
<1>5. CASE \E c \in CockpitClients : Disable(c)
  BY <1>5, DisableStep
<1>6. CASE \E c \in CockpitClients : CommitRequest(c)
  BY <1>6, CommitStep
<1>7. CASE \E c \in CockpitClients : AbortRequest(c)
  BY <1>7, AbortStep
<1>8. CASE \E c \in CockpitClients, i \in 1 .. MaxSessions : Refresh(c, i)
  BY <1>8, RefreshStep
<1>9. CASE \E i \in 1 .. MaxSessions : Logout(i)
  BY <1>9, LogoutStep
<1>10. CASE Suspend
  BY <1>10, SuspendStep
<1>11. CASE CockpitTick
  <2>1. cockpitNow' \in Nat
    BY <1>11 DEF CockpitTick, CockpitInv, CockpitTypes
  <2> QED
    BY <1>11, <2>1, CockpitSame DEF CockpitTick
<1> QED
  BY <1>1, <1>2, <1>3, <1>4, <1>5, <1>6, <1>7, <1>8, <1>9, <1>10, <1>11 DEF CockpitNext

LEMMA CockpitInductive == CockpitSpec => []CockpitInv
<1>1. CockpitInv /\ UNCHANGED cockpitVars => CockpitInv'
  <2> SUFFICES ASSUME CockpitInv, UNCHANGED cockpitVars PROVE CockpitInv'
    OBVIOUS
  <2>1. cockpitNow' \in Nat
    BY DEF cockpitVars, CockpitInv, CockpitTypes
  <2> QED
    BY <2>1, CockpitSame DEF cockpitVars
<1>2. CockpitInv /\ [CockpitNext]_cockpitVars => CockpitInv'
  BY <1>1, CockpitNextStep
<1> QED
  BY CockpitStart, <1>2, PTL DEF CockpitSpec

LEMMA CockpitInvGives == CockpitInv => CockpitSound
<1> SUFFICES ASSUME CockpitInv PROVE CockpitSound
  OBVIOUS
<1>1. /\ operator \in OperatorRow /\ sessions \in Seq(Session)
      /\ held \in [secrets : SUBSET Nat, codes : SUBSET Secrets]
      /\ successors \in [1 .. MaxSessions -> Nat]
  BY DEF CockpitInv, CockpitTypes
<1>2. operator.status \in {"active", "suspended"} /\ operator.required \in BOOLEAN
  BY <1>1 DEF OperatorRow
<1>3. held.codes \subseteq Secrets
  BY <1>1
<1>4. \A i \in 1 .. Len(sessions) : sessions[i].revoked \in BOOLEAN
  <2> SUFFICES ASSUME NEW i \in 1 .. Len(sessions) PROVE sessions[i].revoked \in BOOLEAN
    OBVIOUS
  <2>1. sessions[i] \in Session
    BY <1>1
  <2> QED
    BY <2>1 DEF Session
<1>5. CockpitTypeOK
  BY <1>2, <1>3, <1>4 DEF CockpitTypeOK, CockpitInv, Shown
<1>6. CodesAndTokensOnce
  BY <1>1 DEF CodesAndTokensOnce, CockpitInv, SpentGone
<1> QED
  BY <1>5, <1>6 DEF CockpitSound, CockpitInv

\* Whatever requests the operator has in flight, what is in its row is what it was
\* shown; a required second factor is there to give unless two requests that change it
\* met, and a recovery code opens one request and a refresh token one session unless
\* two presented that very one (authenticate_operator, refresh_operator_session, the
\* endpoints of mfa.py).
THEOREM FactorsWork == CockpitSpec => []CockpitSound
  BY CockpitInductive, CockpitInvGives, PTL

LEMMA CockpitKeeps ==
  ASSUME CockpitInv, CockpitNext
  PROVE  /\ operator.used \subseteq operator'.used
         /\ \A i \in 1 .. Len(sessions) : sessions[i].revoked => sessions'[i].revoked
<1>1. operator \in OperatorRow /\ sessions \in Seq(Session) /\ cockpitNow \in Nat
  BY DEF CockpitInv, CockpitTypes
<1>2. CASE \E c \in CockpitClients : CommitRequest(c)
  <2> PICK c \in CockpitClients : CommitRequest(c)
    BY <1>2
  <2> DEFINE r == request[c]
             issues == r.what \in {"login", "refresh"}
  <2>1. /\ r.busy /\ operator' = Written(r)
        /\ sessions' = IF issues THEN Append(Revokes(r.token),
                              [revoked |-> FALSE, expires |-> cockpitNow + RefreshTtl]) ELSE sessions
    BY DEF CommitRequest
  <2>2. Sane(c) /\ r \in Asking
    BY <2>1 DEF CockpitInv, Requested, CockpitTypes, NotAsking
  <2>3. r.token # 0 => r.what = "refresh" /\ r.token \in DOMAIN sessions
    BY <2>2 DEF Sane
  <2>4. r.token \in 0 .. MaxSessions
    BY <2>2 DEF Asking
  <2> HIDE DEF r
  <2>5. \A i \in DOMAIN sessions : sessions[i].revoked => sessions'[i].revoked
    BY <2>1, <2>3, <2>4, <1>1, CommittedSessions
  <2>6. operator'.used = operator.used \cup r.wanted.used
    BY <2>1 DEF Written
  <2> QED
    BY <1>1, <2>5, <2>6
<1>3. CASE \E i \in 1 .. MaxSessions : Logout(i)
  <2> PICK i \in 1 .. MaxSessions : Logout(i)
    BY <1>3
  <2> DEFINE s == [sessions[i] EXCEPT !.revoked = TRUE]
  <2>1. /\ i <= Len(sessions) /\ operator' = operator
        /\ sessions' = [sessions EXCEPT ![i] = s]
    BY CockpitConstants DEF Logout, Revokes
  <2>2. sessions[i] \in Session
    BY <2>1, <1>1
  <2>3. s.revoked
    BY <2>2 DEF Session
  <2> HIDE DEF s
  <2> QED
    BY <1>1, <2>1, <2>3
<1>4. CASE Suspend
  BY <1>1, <1>4 DEF Suspend, OperatorRow
<1>5. CASE UNCHANGED <<operator, sessions>>
  BY <1>5
<1> QED
  BY <1>2, <1>3, <1>4, <1>5 DEF CockpitNext, Login, Enroll, Confirm, RegenerateRecoveryCodes,
     Disable, AbortRequest, Refresh, CockpitTick, Asks

\* Whatever overlaps, a spent recovery code stays spent and a revoked session stays
\* revoked (used_at and revoked_at are only ever set).
THEOREM RevocationStays == CockpitSpec => RevocationLasts
<1>1. CockpitInv /\ [CockpitNext]_cockpitVars =>
        [/\ operator.used \subseteq operator'.used
         /\ \A i \in 1 .. Len(sessions) : sessions[i].revoked => sessions'[i].revoked]_cockpitVars
  BY CockpitKeeps
<1> QED
  BY CockpitInductive, <1>1, PTL DEF CockpitSpec, RevocationLasts

-----------------------------------------------------------------------------
(* The erasure of a tenant *)

Counts == [ScopedTables -> Nat]
Erasure == [step : {"idle", "delete"}, counts : Counts, left : SUBSET ScopedTables]

DeletionTypes ==
  /\ rows \in Counts /\ inserted \in Counts /\ removed \in Counts
  /\ writer \in [Supporters -> {"idle", "validated"} \cup ScopedTables]
  /\ erasure \in [Founders -> Erasure]
  /\ raced \in BOOLEAN

\* Nothing was removed and recorded while the tenant is there.
NothingYet == tenantRow # "gone" => receipts = {} /\ removed = Zero

\* An erasure nothing interferes with is the only one, has counted what is
\* there, and is over when the tenant is gone.
Undisturbed ==
  ~raced =>
    /\ \A f, g \in Founders : erasure[f].step # "idle" /\ erasure[g].step # "idle" => f = g
    /\ \A f \in Founders : erasure[f].step # "idle" =>
         /\ tenantRow # "gone"
         /\ \A n \in ScopedTables \ erasure[f].left : erasure[f].counts[n] = rows[n]

\* A founder who is not erasing has nothing left to count.
IdleErasures == \A f \in Founders : erasure[f].step = "idle" => erasure[f].left = {}

DeletionInv ==
  DeletionTypes /\ NothingYet /\ Undisturbed /\ IdleErasures /\ ErasureComplete /\ ReceiptHonest

LEMMA ZeroCounts == Zero \in Counts /\ NotErasing \in Erasure /\ NotErasing.step = "idle" /\ NotErasing.left = {}
  BY DEF Zero, Counts, NotErasing, Erasure

LEMMA TableNames == "idle" \notin ScopedTables /\ "validated" \notin ScopedTables
  BY DeletionAssumption

LEMMA DeletionStart == DeletionInit => DeletionInv
<1> SUFFICES ASSUME DeletionInit PROVE DeletionInv
  OBVIOUS
<1>1. DeletionTypes
  BY ZeroCounts DEF DeletionInit, DeletionTypes
<1>2. NothingYet /\ ErasureComplete /\ ReceiptHonest
  BY DEF DeletionInit, NothingYet, ErasureComplete, ReceiptHonest
<1>3. Undisturbed /\ IdleErasures
  BY ZeroCounts DEF DeletionInit, Undisturbed, IdleErasures
<1> QED
  BY <1>1, <1>2, <1>3 DEF DeletionInv

\* A writer that moves without committing.
LEMMA WriterMoves ==
  ASSUME DeletionInv, NEW o \in Supporters, NEW w \in {"idle", "validated"} \cup ScopedTables,
         writer' = [writer EXCEPT ![o] = w],
         w \in ScopedTables => tenantRow # "gone",
         UNCHANGED <<tenantRow, grants, rows, inserted, erasure, receipts, removed, raced>>
  PROVE  DeletionInv'
<1>1. DeletionTypes'
  BY DEF DeletionInv, DeletionTypes
<1>2. NothingYet' /\ Undisturbed' /\ IdleErasures' /\ ReceiptHonest'
  BY DEF DeletionInv, NothingYet, Undisturbed, IdleErasures, ReceiptHonest
<1>3. ErasureComplete'
  <2>1. writer'[o] = w /\ \A p \in Supporters : p # o => writer'[p] = writer[p]
    BY DEF DeletionInv, DeletionTypes
  <2> QED
    BY <2>1 DEF DeletionInv, ErasureComplete
<1> QED
  BY <1>1, <1>2, <1>3 DEF DeletionInv

LEMMA WriterCommitsStep ==
  ASSUME DeletionInv, NEW o \in Supporters, WriterCommits(o)
  PROVE  DeletionInv'
<1> DEFINE n == writer[o]
<1>1. /\ n \in ScopedTables
      /\ rows' = [rows EXCEPT ![n] = @ + 1]
      /\ inserted' = [inserted EXCEPT ![n] = @ + 1]
      /\ writer' = [writer EXCEPT ![o] = "idle"]
      /\ raced' = (raced \/ \E f \in Founders : erasure[f].step # "idle")
      /\ UNCHANGED <<tenantRow, grants, erasure, receipts, removed>>
  BY DEF WriterCommits
<1>2. tenantRow # "gone"
  BY <1>1 DEF DeletionInv, ErasureComplete
<1>3. rows \in Counts /\ inserted \in Counts
  BY DEF DeletionInv, DeletionTypes
<1>4. rows' \in Counts /\ inserted' \in Counts
  BY <1>1, <1>3 DEF Counts
<1>5. DeletionTypes'
  BY <1>1, <1>4 DEF DeletionInv, DeletionTypes
<1>6. NothingYet' /\ IdleErasures' /\ ErasureComplete'
  BY <1>1, <1>2 DEF DeletionInv, NothingYet, IdleErasures, ErasureComplete
<1>7. Undisturbed'
  BY <1>1 DEF Undisturbed
<1>8. ReceiptHonest'
  BY <1>1, <1>2 DEF DeletionInv, NothingYet, ReceiptHonest
<1> QED
  BY <1>5, <1>6, <1>7, <1>8 DEF DeletionInv

LEMMA DeleteTenantStep ==
  ASSUME DeletionInv, NEW f \in Founders, DeleteTenant(f)
  PROVE  DeletionInv'
<1> DEFINE new == [step |-> "delete", counts |-> Zero, left |-> ScopedTables]
<1>1. /\ erasure[f].step = "idle" /\ tenantRow # "gone"
      /\ erasure' = [erasure EXCEPT ![f] = new]
      /\ raced' = (raced \/ \E g \in Founders : erasure[g].step # "idle")
      /\ UNCHANGED <<tenantRow, grants, rows, inserted, writer, receipts, removed>>
  BY DEF DeleteTenant
<1>2. new \in Erasure /\ new.step = "delete" /\ new.left = ScopedTables
  BY ZeroCounts DEF Erasure
<1> HIDE DEF new
<1>3. erasure \in [Founders -> Erasure]
  BY DEF DeletionInv, DeletionTypes
<1>4. /\ erasure' \in [Founders -> Erasure] /\ erasure'[f] = new
      /\ \A g \in Founders : g # f => erasure'[g] = erasure[g]
  BY <1>1, <1>2, <1>3
<1>5. DeletionTypes'
  BY <1>1, <1>4 DEF DeletionInv, DeletionTypes
<1>6. NothingYet' /\ ErasureComplete' /\ ReceiptHonest'
  BY <1>1 DEF DeletionInv, NothingYet, ErasureComplete, ReceiptHonest
<1>7. IdleErasures'
  BY <1>2, <1>4 DEF DeletionInv, IdleErasures
<1>8. Undisturbed'
  <2> SUFFICES ASSUME ~raced' PROVE Undisturbed'
    BY DEF Undisturbed
  <2>1. \A g \in Founders : erasure[g].step = "idle"
    BY <1>1
  <2>2. \A g \in Founders : erasure'[g].step # "idle" => g = f
    BY <2>1, <1>4
  <2> QED
    BY <2>2, <1>1, <1>2, <1>4 DEF Undisturbed
<1> QED
  BY <1>5, <1>6, <1>7, <1>8 DEF DeletionInv

LEMMA CountRowsStep ==
  ASSUME DeletionInv, NEW f \in Founders, NEW n \in ScopedTables, CountRows(f, n)
  PROVE  DeletionInv'
<1> DEFINE cs == [erasure[f].counts EXCEPT ![n] = rows[n]]
           d == [erasure[f] EXCEPT !.counts = cs]
           new == [d EXCEPT !.left = erasure[f].left \ {n}]
<1>1. /\ n \in erasure[f].left
      /\ erasure' = [erasure EXCEPT ![f] = [erasure[f] EXCEPT !.counts = cs, !.left = erasure[f].left \ {n}]]
      /\ UNCHANGED <<tenantRow, grants, rows, inserted, writer, receipts, removed, raced>>
  BY DEF CountRows, CountAll
<1>2. erasure' = [erasure EXCEPT ![f] = new]
  BY <1>1
<1>3. erasure \in [Founders -> Erasure] /\ rows \in Counts
  BY DEF DeletionInv, DeletionTypes
<1>4. erasure[f] \in Erasure
  BY <1>3
<1>5. erasure[f].counts \in Counts /\ erasure[f].left \subseteq ScopedTables
  BY <1>4 DEF Erasure
<1>6. /\ cs \in Counts /\ cs[n] = rows[n]
      /\ \A m \in ScopedTables : m # n => cs[m] = erasure[f].counts[m]
  BY <1>3, <1>5 DEF Counts
<1> HIDE DEF cs
<1>7. d \in Erasure /\ d.counts = cs /\ d.step = erasure[f].step
  BY <1>4, <1>6 DEF Erasure
<1> HIDE DEF d
<1>8. /\ new \in Erasure /\ new.counts = cs /\ new.step = erasure[f].step
      /\ new.left = erasure[f].left \ {n}
  BY <1>5, <1>7 DEF Erasure
<1> HIDE DEF new
<1>9. /\ erasure' \in [Founders -> Erasure] /\ erasure'[f] = new
      /\ \A g \in Founders : g # f => erasure'[g] = erasure[g]
  BY <1>2, <1>3, <1>8
<1>10. DeletionTypes'
  BY <1>1, <1>9 DEF DeletionInv, DeletionTypes
<1>11. NothingYet' /\ ErasureComplete' /\ ReceiptHonest'
  BY <1>1 DEF DeletionInv, NothingYet, ErasureComplete, ReceiptHonest
<1>12. IdleErasures'
  BY <1>1, <1>8, <1>9 DEF DeletionInv, IdleErasures
<1>13. Undisturbed'
  <2> SUFFICES ASSUME ~raced PROVE Undisturbed'
    BY <1>1 DEF Undisturbed
  <2>1. \A g \in Founders : erasure'[g].step = erasure[g].step
    BY <1>8, <1>9
  <2>2. \A g, h \in Founders : erasure'[g].step # "idle" /\ erasure'[h].step # "idle" => g = h
    BY <2>1 DEF DeletionInv, Undisturbed
  <2>3. ASSUME NEW g \in Founders, erasure'[g].step # "idle"
        PROVE  /\ tenantRow # "gone"
               /\ \A m \in ScopedTables \ erasure'[g].left : erasure'[g].counts[m] = rows[m]
    <3>1. /\ tenantRow # "gone"
          /\ \A m \in ScopedTables \ erasure[g].left : erasure[g].counts[m] = rows[m]
      BY <2>1, <2>3 DEF DeletionInv, Undisturbed
    <3>2. CASE g = f
      BY <3>1, <3>2, <1>6, <1>8, <1>9
    <3>3. CASE g # f
      BY <3>1, <3>3, <1>9
    <3> QED
      BY <3>2, <3>3
  <2> QED
    BY <1>1, <2>2, <2>3 DEF Undisturbed
<1> QED
  BY <1>10, <1>11, <1>12, <1>13 DEF DeletionInv

\* The undisturbed erasure has counted every table as it is, and nothing was
\* removed before it.
LEMMA DeleteRowsStep ==
  ASSUME DeletionInv, NEW f \in Founders, DeleteRows(f)
  PROVE  DeletionInv'
<1>1. /\ erasure[f].step = "delete" /\ erasure[f].left = {}
      /\ tenantRow # "gone" => \A o \in Supporters : writer[o] \notin ScopedTables
      /\ rows' = Zero
      /\ removed' = [n \in ScopedTables |-> removed[n] + rows[n]]
      /\ grants' = {}
      /\ tenantRow' = "gone"
      /\ receipts' = receipts \cup {[by |-> f, counts |-> erasure[f].counts]}
      /\ erasure' = [erasure EXCEPT ![f] = NotErasing]
      /\ UNCHANGED <<inserted, writer, raced>>
  BY DEF DeleteRows, Cascade
<1>2. erasure \in [Founders -> Erasure] /\ rows \in Counts /\ removed \in Counts
  BY DEF DeletionInv, DeletionTypes
<1>3. /\ erasure' \in [Founders -> Erasure] /\ erasure'[f] = NotErasing
      /\ \A g \in Founders : g # f => erasure'[g] = erasure[g]
  BY <1>1, <1>2, ZeroCounts
<1>4. removed' \in Counts
  BY <1>1, <1>2 DEF Counts
<1>5. DeletionTypes'
  BY <1>1, <1>3, <1>4, ZeroCounts DEF DeletionInv, DeletionTypes
<1>6. NothingYet' /\ ErasureComplete'
  BY <1>1 DEF DeletionInv, NothingYet, ErasureComplete
<1>7. IdleErasures'
  BY <1>3, ZeroCounts DEF DeletionInv, IdleErasures
<1>8. Undisturbed'
  <2> SUFFICES ASSUME ~raced PROVE Undisturbed'
    BY <1>1 DEF Undisturbed
  <2>1. \A g \in Founders : g # f => erasure[g].step = "idle"
    BY <1>1 DEF DeletionInv, Undisturbed
  <2>2. \A g \in Founders : erasure'[g].step = "idle"
    BY <2>1, <1>3, ZeroCounts
  <2> QED
    BY <2>2 DEF Undisturbed
<1>9. ReceiptHonest'
  <2> SUFFICES ASSUME ~raced PROVE \A r \in receipts' : r.counts = removed'
    BY <1>1 DEF ReceiptHonest
  <2>1. /\ tenantRow # "gone"
        /\ \A n \in ScopedTables : erasure[f].counts[n] = rows[n]
    BY <1>1 DEF DeletionInv, Undisturbed
  <2>2. receipts = {} /\ removed = Zero
    BY <2>1 DEF DeletionInv, NothingYet
  <2>3. erasure[f].counts \in Counts
    BY <1>2 DEF Erasure
  <2>4. removed' = erasure[f].counts
    BY <1>1, <1>2, <2>1, <2>2, <2>3 DEF Counts, Zero
  <2> QED
    BY <1>1, <2>2, <2>4
<1> QED
  BY <1>5, <1>6, <1>7, <1>8, <1>9 DEF DeletionInv

LEMMA EraseFailsStep ==
  ASSUME DeletionInv, NEW f \in Founders, EraseFails(f)
  PROVE  DeletionInv'
<1>1. /\ erasure' = [erasure EXCEPT ![f] = NotErasing]
      /\ UNCHANGED <<tenantRow, grants, rows, inserted, writer, receipts, removed, raced>>
  BY DEF EraseFails
<1>2. erasure \in [Founders -> Erasure]
  BY DEF DeletionInv, DeletionTypes
<1>3. /\ erasure' \in [Founders -> Erasure] /\ erasure'[f] = NotErasing
      /\ \A g \in Founders : g # f => erasure'[g] = erasure[g]
  BY <1>1, <1>2, ZeroCounts
<1>4. DeletionTypes'
  BY <1>1, <1>3 DEF DeletionInv, DeletionTypes
<1>5. NothingYet' /\ ErasureComplete' /\ ReceiptHonest'
  BY <1>1 DEF DeletionInv, NothingYet, ErasureComplete, ReceiptHonest
<1>6. IdleErasures'
  BY <1>3, ZeroCounts DEF DeletionInv, IdleErasures
<1>7. \A g \in Founders : erasure'[g].step # "idle" => g # f /\ erasure'[g] = erasure[g]
  BY <1>3, ZeroCounts
<1>8. Undisturbed'
  BY <1>1, <1>7 DEF DeletionInv, Undisturbed
<1> QED
  BY <1>4, <1>5, <1>6, <1>8 DEF DeletionInv

LEMMA WithdrawStep ==
  ASSUME DeletionInv, Withdraw
  PROVE  DeletionInv'
<1>1. /\ tenantRow # "gone" /\ tenantRow' # "gone"
      /\ UNCHANGED <<rows, inserted, writer, erasure, receipts, removed, raced>>
  BY DEF Withdraw
<1>2. DeletionTypes' /\ IdleErasures' /\ ReceiptHonest'
  BY <1>1 DEF DeletionInv, DeletionTypes, IdleErasures, ReceiptHonest
<1>3. NothingYet' /\ ErasureComplete' /\ Undisturbed'
  BY <1>1 DEF DeletionInv, NothingYet, ErasureComplete, Undisturbed
<1> QED
  BY <1>2, <1>3 DEF DeletionInv

\* A deleted tenant is gone whatever was written meanwhile, and the record of its
\* erasure is right when nothing was, for any number of tables, founders and
\* operators (delete_tenant).
THEOREM TenantsErased == DeletionSpec => []DeletionSound
<1>1. DeletionInit => DeletionInv
  BY DeletionStart
<1>2. DeletionInv /\ [DeletionNext]_deletionVars => DeletionInv'
  <2> SUFFICES ASSUME DeletionInv, [DeletionNext]_deletionVars PROVE DeletionInv'
    OBVIOUS
  <2>1. ASSUME NEW o \in Supporters, ValidateActAs(o) PROVE DeletionInv'
    BY <2>1, WriterMoves, TableNames DEF ValidateActAs
  <2>2. ASSUME NEW o \in Supporters, InsertRefused(o) PROVE DeletionInv'
    BY <2>2, WriterMoves, TableNames DEF InsertRefused
  <2>3. ASSUME NEW o \in Supporters, NEW n \in ScopedTables, Inserts(o, n) PROVE DeletionInv'
    BY <2>3, WriterMoves DEF Inserts
  <2>4. ASSUME UNCHANGED deletionVars PROVE DeletionInv'
    BY <2>4 DEF deletionVars, DeletionInv, DeletionTypes, NothingYet, Undisturbed, IdleErasures,
       ErasureComplete, ReceiptHonest
  <2> QED
    BY <2>1, <2>2, <2>3, <2>4, WriterCommitsStep, DeleteTenantStep, DeleteRowsStep, EraseFailsStep,
       CountRowsStep, WithdrawStep DEF DeletionNext
<1>3. DeletionInv => DeletionSound
  BY DEF DeletionInv, DeletionSound
<1> QED
  BY <1>1, <1>2, <1>3, PTL DEF DeletionSpec

-----------------------------------------------------------------------------
(* Extractions *)

ExtRow == [status : ExtractionStatus \cup {"absent", "flushed"}, doc : Documents,
           fields : {"none", "auto", "user"}, reviewer : BOOLEAN]
ExtTask == [pc : {"idle", "extract"}, ext : 0 .. MaxExtractions, saw : ExtRow]
ExtOut == [status : {"succeeded", "partial", "failed"}, fields : {"none", "auto"}]

ExtTypes ==
  /\ ext \in [Extractions -> ExtRow]
  /\ extQueue \in [Extractions -> 0 .. 1]
  /\ extWorker \in [ExtWorkers -> ExtTask]
  /\ decided \subseteq Extractions

\* A row holds fields from the first result on, and its reviewer from the first review.
RowsTell ==
  \A e \in Extractions :
    /\ ext[e].status \in {"accepted", "rejected"} => ext[e].reviewer
    /\ ext[e].status \in {"succeeded", "partial"} => ext[e].fields # "none"
    /\ ext[e].status = "absent" => ext[e].fields = "none"

\* A task works on a row, which has lost none of the fields the task has seen in it.
TasksTell ==
  \A w \in ExtWorkers :
    /\ extWorker[w].pc = "idle" <=> extWorker[w].ext = 0
    /\ extWorker[w].ext # 0 =>
         /\ ext[extWorker[w].ext].status # "absent"
         /\ extWorker[w].saw.fields # "none" => ext[extWorker[w].ext].fields # "none"

\* A row that was reviewed with nothing about has nothing about it ever after.
DecidedRest == \A e \in decided : ext[e].status \in {"accepted", "rejected"} /\ ~Busy(e)

ExtInv == ExtTypes /\ RowsTell /\ TasksTell /\ SucceededIsTrustworthy /\ DecidedRest

-----------------------------------------------------------------------------
\* The first of the policies that count is one of the document's.
LEMMA FirstPolicyIsOne ==
  ASSUME NEW d, d.policies \in Seq(Policies), PolicyRows(d) # {}
  PROVE  FirstPolicy(d) \in Policies
<1> DEFINE R == OpToRel(<, Nat)
           found == PolicyRows(d)
<1>1. found \subseteq Nat /\ found \subseteq DOMAIN d.policies
  BY DEF PolicyRows
<1>2. IsWellFoundedOn(R, Nat)
  BY NatLessThanWellFounded
<1> HIDE DEF found
<1>3. PICK i \in found : \A j \in found : ~(<<j, i>> \in R)
  <2>1. found # {}
    BY DEF found
  <2> HIDE DEF R
  <2> QED
    BY <1>1, <1>2, <2>1, WFMin
<1>4. \A j \in found : ~(j < i)
  BY <1>1, <1>3 DEF OpToRel
<1>5. \E k \in found : \A j \in found : k <= j
  BY <1>1, <1>4
<1> DEFINE first == CHOOSE k \in found : \A j \in found : k <= j
           policies == d.policies
<1>6. first \in DOMAIN policies
  BY <1>1, <1>5
<1>7. FirstPolicy(d) = policies[first]
  BY DEF FirstPolicy, found
<1>8. policies \in Seq(Policies)
  OBVIOUS
<1> HIDE DEF first, policies
<1> QED
  BY <1>6, <1>7, <1>8

\* The scores that reach the threshold, kind by kind.
LEMMA ScoreValues ==
  /\ Score(80, 90, 70) = 810 /\ Score(60, 90, 50) = 670 /\ Score(60, 40, 50) = 520
  /\ Score(80, 70, 60) = 730 /\ Score(60, 70, 60) = 630
  /\ Score(50, 30, 40) = 420 /\ Score(50, 40, 50) = 470
  /\ \A place : Score(90, Near(place), 60) \in {870, 810}
  BY DEF Score, Near

\* Dates that contradict each other take both below the threshold.
LEMMA DatesAgree ==
  ASSUME NEW conf \in {630, 730, 810, 870}, NEW eff \in Nat, NEW exp \in Nat, NEW lift \in {0, 100},
         exp # 0, Dated(conf, eff, exp, lift) >= YellowThreshold
  PROVE  exp > eff
<1> SUFFICES ASSUME exp <= eff PROVE FALSE
  OBVIOUS
<1>1. eff # 0
  OBVIOUS
<1>2. Dated(conf, eff, exp, lift) = conf \div 2
  BY <1>1 DEF Dated
<1>3. conf \div 2 < 600
  OBVIOUS
<1> QED
  BY <1>2, <1>3 DEF YellowThreshold

\* "succeeded" is every required field, none below the threshold.
LEMMA SucceededMeans ==
  ASSUME NEW found, ClassifyStatus(found) = "succeeded", NEW f \in DOMAIN found
  PROVE  found[f] > 0 /\ ~(found[f] < YellowThreshold)
  BY DEF ClassifyStatus

LEMMA CoiTrust ==
  ASSUME NEW d \in CoiDocument, ClassifyStatus(CoiExtract(d)) = "succeeded"
  PROVE  Trustworthy(d)
<1> DEFINE first == FirstPolicy(d)
           conf == IF \A i \in PolicyRows(d) : d.policies[i].number THEN Score(80, 70, 60) ELSE Score(60, 70, 60)
           none == PolicyRows(d) = {}
           carrier == CASE d.insurer = "known" -> Score(80, 90, 70)
                        [] d.insurer = "other" -> Score(60, 90, 50)
                        [] d.insurer = "mentioned" -> Score(60, 40, 50)
                        [] OTHER -> 0
           number == IF none \/ ~first.number THEN 0 ELSE conf
           expiry == IF none \/ first.exp = 0 THEN 0 ELSE Dated(conf, first.eff, first.exp, 100)
           effective == IF none \/ first.eff = 0 THEN 0 ELSE Dated(conf, first.eff, first.exp, 100)
           found == [carrier_name |-> carrier, policy_number |-> number, effective_date |-> effective,
                     expiry_date |-> expiry]
<1>1. CoiExtract(d) = found
  BY DEF CoiExtract
<1>2. conf \in {630, 730}
  BY ScoreValues
<1> HIDE DEF carrier, number, expiry, effective, conf
<1>3. /\ found["carrier_name"] = carrier /\ found["policy_number"] = number
      /\ found["effective_date"] = effective /\ found["expiry_date"] = expiry
      /\ DOMAIN found = {"carrier_name", "policy_number", "effective_date", "expiry_date"}
  OBVIOUS
<1> HIDE DEF found
<1>4. /\ carrier > 0 /\ ~(carrier < YellowThreshold) /\ number > 0 /\ effective > 0
      /\ expiry > 0 /\ ~(expiry < YellowThreshold)
  BY <1>1, <1>3, SucceededMeans
<1>5. d.kind = "coi" /\ d.insurer \in Insurers /\ d.policies \in Seq(Policies)
  BY DEF CoiDocument
<1>6. d.insurer \in {"known", "other"}
  BY <1>4, <1>5, ScoreValues DEF carrier, YellowThreshold, Insurers
<1>7. ~none /\ first.number /\ first.eff # 0 /\ first.exp # 0
  BY <1>4 DEF number, effective, expiry
<1>8. first \in Policies
  BY <1>5, <1>7, FirstPolicyIsOne
<1>9. first.eff \in Nat /\ first.exp \in Nat
  BY <1>8 DEF Policies
<1>10. Dated(conf, first.eff, first.exp, 100) \in Int
  BY <1>2, <1>9 DEF Dated
<1>11. Dated(conf, first.eff, first.exp, 100) >= YellowThreshold
  BY <1>4, <1>7, <1>10 DEF expiry, YellowThreshold
<1>12. first.exp > first.eff
  BY <1>2, <1>7, <1>9, <1>11, DatesAgree
<1> QED
  BY <1>5, <1>6, <1>7, <1>9, <1>12 DEF Trustworthy

LEMMA EoTrust ==
  ASSUME NEW d \in EoDocument, ClassifyStatus(EoExtract(d)) = "succeeded"
  PROVE  Trustworthy(d)
<1> DEFINE conf == Score(90, Near(d.dates), 60)
           carrier == IF Labelled(d.carrier)
                      THEN IF d.insurer = "known" THEN Score(90, Near(d.carrier), 70)
                                                  ELSE Score(70, Near(d.carrier), 50)
                      ELSE IF d.insurer \in {"known", "mentioned"} THEN Score(60, 40, 60) ELSE 0
           number == CASE Labelled(d.number) -> Score(85, Near(d.number), 60)
                       [] d.number = "loose" -> Score(50, 30, 40)
                       [] OTHER -> 0
           effective == IF d.eff = 0 THEN 0 ELSE Dated(conf, d.eff, d.exp, 0)
           expiry == IF d.exp = 0 THEN 0 ELSE Dated(conf, d.eff, d.exp, 0)
           found == [carrier_name |-> carrier, policy_number |-> number, effective_date |-> effective,
                     expiration_date |-> expiry]
<1>1. EoExtract(d) = found
  BY DEF EoExtract
<1>2. conf \in {870, 810}
  BY ScoreValues
<1> HIDE DEF carrier, number, expiry, effective, conf
<1>3. /\ found["policy_number"] = number /\ found["expiration_date"] = expiry
      /\ DOMAIN found = {"carrier_name", "policy_number", "effective_date", "expiration_date"}
  OBVIOUS
<1> HIDE DEF found
<1>4. number > 0 /\ ~(number < YellowThreshold) /\ expiry > 0 /\ ~(expiry < YellowThreshold)
  BY <1>1, <1>3, SucceededMeans
<1>5. d.kind = "eo_certificate" /\ d.number \in Places /\ d.eff \in Nat /\ d.exp \in Nat
  BY DEF EoDocument
<1>6. Labelled(d.number)
  BY <1>4, <1>5, ScoreValues DEF number, Labelled, YellowThreshold, Places
<1>7. d.exp # 0
  BY <1>4 DEF expiry
<1>8. Dated(conf, d.eff, d.exp, 0) \in Int
  BY <1>2, <1>5 DEF Dated
<1>9. Dated(conf, d.eff, d.exp, 0) >= YellowThreshold
  BY <1>4, <1>7, <1>8 DEF expiry, YellowThreshold
<1>10. d.exp > d.eff
  BY <1>2, <1>5, <1>7, <1>9, DatesAgree
<1> QED
  BY <1>5, <1>6, <1>10 DEF Trustworthy

LEMMA LicenseTrust ==
  ASSUME NEW d \in LicenseDocument, ClassifyStatus(LicenseExtract(d)) = "succeeded"
  PROVE  Trustworthy(d)
<1> DEFINE conf == Score(90, Near(d.dates), 60)
           name == IF Labelled(d.name) THEN Score(80, Near(d.name), 60) ELSE 0
           number == CASE Labelled(d.number) -> Score(90, Near(d.number), 70)
                       [] d.number = "loose" -> Score(50, 40, 50)
                       [] OTHER -> 0
           state == CASE Labelled(d.state) -> Score(95, Near(d.state), 70)
                      [] d.state = "loose" -> Score(70, 40, 50)
                      [] OTHER -> 0
           expiry == IF d.exp = 0 THEN 0 ELSE Dated(conf, d.eff, d.exp, 0)
           found == [licensee_name |-> name, license_number |-> number, state |-> state,
                     expiration_date |-> expiry]
<1>1. LicenseExtract(d) = found
  BY DEF LicenseExtract
<1>2. conf \in {870, 810}
  BY ScoreValues
<1> HIDE DEF name, number, state, expiry, conf
<1>3. /\ found["license_number"] = number /\ found["expiration_date"] = expiry
      /\ DOMAIN found = {"licensee_name", "license_number", "state", "expiration_date"}
  OBVIOUS
<1> HIDE DEF found
<1>4. number > 0 /\ ~(number < YellowThreshold) /\ expiry > 0 /\ ~(expiry < YellowThreshold)
  BY <1>1, <1>3, SucceededMeans
<1>5. d.kind = "producer_license" /\ d.number \in Places /\ d.eff \in Nat /\ d.exp \in Nat
  BY DEF LicenseDocument
<1>6. Labelled(d.number)
  BY <1>4, <1>5, ScoreValues DEF number, Labelled, YellowThreshold, Places
<1>7. d.exp # 0
  BY <1>4 DEF expiry
<1>8. Dated(conf, d.eff, d.exp, 0) \in Int
  BY <1>2, <1>5 DEF Dated
<1>9. Dated(conf, d.eff, d.exp, 0) >= YellowThreshold
  BY <1>4, <1>7, <1>8 DEF expiry, YellowThreshold
<1>10. d.exp > d.eff
  BY <1>2, <1>5, <1>7, <1>9, DatesAgree
<1> QED
  BY <1>5, <1>6, <1>10 DEF Trustworthy

LEMMA ResultTrust ==
  ASSUME NEW n \in Documents
  PROVE  /\ ResultOf[n] \in ExtOut
         /\ ResultOf[n].status \in {"succeeded", "partial"} => ResultOf[n].fields = "auto"
         /\ ResultOf[n].status = "succeeded" => Trustworthy(Document[n])
<1> DEFINE d == Document[n]
<1>1. ResultOf[n] = RunExtraction(d)
  BY DEF ResultOf
<1>2. d \in CoiDocument \cup EoDocument \cup LicenseDocument
  BY ExtractionAssumption
<1> HIDE DEF d
<1>3. ClassifyStatus(Extract(d)) \in {"succeeded", "partial", "failed"}
  BY DEF ClassifyStatus
<1>4. ASSUME ClassifyStatus(Extract(d)) = "succeeded" PROVE Trustworthy(d)
  <2>1. CASE d \in CoiDocument
    <3>1. Extract(d) = CoiExtract(d)
      BY <2>1 DEF CoiDocument, Extract
    <3> QED
      BY <1>4, <2>1, <3>1, CoiTrust
  <2>2. CASE d \in EoDocument
    <3>1. Extract(d) = EoExtract(d)
      BY <2>2 DEF EoDocument, Extract
    <3> QED
      BY <1>4, <2>2, <3>1, EoTrust
  <2>3. CASE d \in LicenseDocument
    <3>1. Extract(d) = LicenseExtract(d)
      BY <2>3 DEF LicenseDocument, Extract
    <3> QED
      BY <1>4, <2>3, <3>1, LicenseTrust
  <2> QED
    BY <1>2, <2>1, <2>2, <2>3
<1>5. CASE ~ExtractionEnabled \/ Pages(d) < 0
  <2>1. ResultOf[n] = [status |-> "failed", fields |-> "none"]
    BY <1>1, <1>5 DEF RunExtraction
  <2> QED
    BY <2>1 DEF ExtOut
<1>6. CASE ~(~ExtractionEnabled \/ Pages(d) < 0) /\ Pages(d) = 0
  <2>1. ResultOf[n] = [status |-> "failed", fields |-> "auto"]
    BY <1>1, <1>6 DEF RunExtraction
  <2> QED
    BY <2>1 DEF ExtOut
<1>7. CASE ~(~ExtractionEnabled \/ Pages(d) < 0) /\ Pages(d) # 0
  <2> DEFINE st == ClassifyStatus(Extract(d))
  <2>1. ResultOf[n] = [status |-> st, fields |-> "auto"]
    BY <1>1, <1>7 DEF RunExtraction
  <2>2. st \in {"succeeded", "partial", "failed"} /\ (st = "succeeded" => Trustworthy(d))
    BY <1>3, <1>4
  <2> HIDE DEF st
  <2> QED
    BY <2>1, <2>2 DEF ExtOut, d
<1> QED
  BY <1>5, <1>6, <1>7

-----------------------------------------------------------------------------
LEMMA ExtStart == ExtInit => ExtInv
<1> SUFFICES ASSUME ExtInit PROVE ExtInv
  OBVIOUS
<1>1. NoExt \in ExtRow /\ NoExt.status = "absent" /\ NoExt.fields = "none"
  BY ExtractionAssumption DEF NoExt, ExtRow
<1>2. Resting \in ExtTask /\ Resting.pc = "idle" /\ Resting.ext = 0
  BY <1>1, ExtractionAssumption DEF Resting, ExtTask
<1>3. /\ ext \in [Extractions -> ExtRow]
      /\ \A e \in Extractions : ext[e].status = "absent" /\ ext[e].fields = "none"
      /\ extWorker \in [ExtWorkers -> ExtTask]
      /\ \A w \in ExtWorkers : extWorker[w].pc = "idle" /\ extWorker[w].ext = 0
  BY <1>1, <1>2 DEF ExtInit
<1>4. extQueue \in [Extractions -> 0 .. 1] /\ decided = {}
  BY DEF ExtInit
<1>5. ExtTypes
  BY <1>3, <1>4 DEF ExtTypes
<1>6. RowsTell /\ TasksTell /\ SucceededIsTrustworthy /\ DecidedRest
  BY <1>3, <1>4 DEF RowsTell, TasksTell, SucceededIsTrustworthy, DecidedRest
<1> QED
  BY <1>5, <1>6 DEF ExtInv

\* A step that changes one row, which keeps its document and what fields it has, for the
\* better; tasks and messages change for a row no review is sure of, or not at all.
LEMMA RowStep ==
  ASSUME ExtInv, NEW e \in Extractions, NEW row \in ExtRow,
         ext' = [ext EXCEPT ![e] = row],
         ext[e].fields # "none" => row.fields # "none",
         row.status # "absent", row.status \in {"accepted", "rejected"} => row.reviewer,
         row.status \in {"succeeded", "partial"} => row.fields # "none",
         row.status = "succeeded" => Trustworthy(Document[row.doc]),
         extQueue' \in [Extractions -> 0 .. 1], extWorker' \in [ExtWorkers -> ExtTask],
         \A w \in ExtWorkers : extWorker'[w] = extWorker[w] \/ extWorker'[w] = Resting,
         decided' \subseteq Extractions,
         \A o \in decided' : ~Busy(o)' /\ (o = e => row.status \in {"accepted", "rejected"}),
         \A o \in decided' : o # e => o \in decided
  PROVE  ExtInv'
<1>1. ext \in [Extractions -> ExtRow]
  BY DEF ExtInv, ExtTypes
<1>2. /\ ext' \in [Extractions -> ExtRow] /\ ext'[e] = row
      /\ \A o \in Extractions : o # e => ext'[o] = ext[o]
  BY <1>1
<1>3. ExtTypes'
  BY <1>2 DEF ExtTypes
<1>4. RowsTell'
  BY <1>2 DEF ExtInv, RowsTell
<1>5. \A o \in Extractions : /\ ext[o].fields # "none" => ext'[o].fields # "none"
                            /\ ext[o].status # "absent" => ext'[o].status # "absent"
  BY <1>2
<1>6. Resting.pc = "idle" /\ Resting.ext = 0
  BY DEF Resting
<1>7. ASSUME NEW w \in ExtWorkers
      PROVE  /\ extWorker'[w].pc = "idle" <=> extWorker'[w].ext = 0
             /\ extWorker'[w].ext # 0 =>
                  /\ ext'[extWorker'[w].ext].status # "absent"
                  /\ extWorker'[w].saw.fields # "none" => ext'[extWorker'[w].ext].fields # "none"
  <2>1. CASE extWorker'[w] = Resting
    BY <1>6, <2>1
  <2>2. CASE extWorker'[w] = extWorker[w]
    <3>1. extWorker[w] \in ExtTask
      BY DEF ExtInv, ExtTypes
    <3>2. extWorker[w].ext # 0 => extWorker[w].ext \in Extractions
      BY <3>1, ExtractionAssumption DEF ExtTask, Extractions
    <3> QED
      BY <2>2, <3>2, <1>5 DEF ExtInv, TasksTell
  <2> QED
    BY <2>1, <2>2
<1>8. TasksTell'
  BY <1>7 DEF TasksTell
<1>9. SucceededIsTrustworthy'
  BY <1>2 DEF ExtInv, SucceededIsTrustworthy
<1>10. DecidedRest'
  <2> SUFFICES ASSUME NEW o \in decided'
               PROVE  ext'[o].status \in {"accepted", "rejected"} /\ ~Busy(o)'
    BY DEF DecidedRest
  <2>1. CASE o = e
    BY <1>2, <2>1
  <2>2. CASE o # e
    BY <1>2, <2>2 DEF ExtInv, DecidedRest
  <2> QED
    BY <2>1, <2>2
<1> QED
  BY <1>3, <1>4, <1>8, <1>9, <1>10 DEF ExtInv

LEMMA EnqueueStep ==
  ASSUME ExtInv, NEW e \in Extractions, NEW d \in Documents, Enqueue(e, d)
  PROVE  ExtInv'
<1> DEFINE a == [NoExt EXCEPT !.status = "flushed"]
           row == [a EXCEPT !.doc = d]
<1>1. /\ ext[e].status = "absent" /\ ext' = [ext EXCEPT ![e] = row]
      /\ extQueue' = [extQueue EXCEPT ![e] = 1] \/ extQueue' = extQueue
      /\ extWorker' = extWorker /\ decided' = decided
  BY DEF Enqueue
<1>2. NoExt \in ExtRow
  BY ExtractionAssumption DEF NoExt, ExtRow
<1>3. a \in ExtRow /\ a.status = "flushed"
  BY <1>2 DEF ExtRow
<1> HIDE DEF a
<1>4. row \in ExtRow /\ row.status = "flushed"
  BY <1>3 DEF ExtRow
<1> HIDE DEF row
<1>5. e \notin decided
  BY <1>1 DEF ExtInv, DecidedRest
<1>6. extQueue \in [Extractions -> 0 .. 1] /\ extWorker \in [ExtWorkers -> ExtTask] /\ decided \subseteq Extractions
  BY DEF ExtInv, ExtTypes
<1>7. extQueue' \in [Extractions -> 0 .. 1]
  BY <1>1, <1>6
<1>8. \A o \in decided : ~Busy(o)'
  BY <1>1, <1>5, <1>6 DEF ExtInv, DecidedRest, Busy
<1>9. ext[e].fields = "none"
  BY <1>1 DEF ExtInv, RowsTell
<1> QED
  BY <1>1, <1>4, <1>5, <1>6, <1>7, <1>8, <1>9, RowStep

LEMMA EnqueueCommitsStep ==
  ASSUME ExtInv, NEW e \in Extractions, EnqueueCommits(e)
  PROVE  ExtInv'
<1> DEFINE row == [ext[e] EXCEPT !.status = "pending"]
<1>1. /\ ext[e].status = "flushed" /\ ext' = [ext EXCEPT ![e] = row]
      /\ UNCHANGED <<extQueue, extWorker, decided>>
  BY DEF EnqueueCommits
<1>2. ext[e] \in ExtRow
  BY DEF ExtInv, ExtTypes
<1>3. row \in ExtRow /\ row.status = "pending" /\ row.fields = ext[e].fields
  BY <1>2 DEF ExtRow, ExtractionStatus
<1> HIDE DEF row
<1>4. e \notin decided
  BY <1>1 DEF ExtInv, DecidedRest
<1>5. extQueue \in [Extractions -> 0 .. 1] /\ extWorker \in [ExtWorkers -> ExtTask] /\ decided \subseteq Extractions
  BY DEF ExtInv, ExtTypes
<1>6. \A o \in decided : ~Busy(o)'
  BY <1>1 DEF ExtInv, DecidedRest, Busy
<1> QED
  BY <1>1, <1>3, <1>4, <1>5, <1>6, RowStep

LEMMA TaskReadsStep ==
  ASSUME ExtInv, NEW w \in ExtWorkers, NEW e \in Extractions, TaskReads(w, e)
  PROVE  ExtInv'
<1> DEFINE task == [pc |-> "extract", ext |-> e, saw |-> ext[e]]
<1>1. /\ extQueue[e] > 0 /\ extQueue' = [extQueue EXCEPT ![e] = 0]
      /\ ext' = ext /\ decided' = decided
      /\ \/ Visible(e) /\ extWorker' = [extWorker EXCEPT ![w] = task]
         \/ extWorker' = extWorker
  BY DEF TaskReads
<1>2. /\ ext \in [Extractions -> ExtRow] /\ extQueue \in [Extractions -> 0 .. 1]
      /\ extWorker \in [ExtWorkers -> ExtTask] /\ decided \subseteq Extractions
  BY DEF ExtInv, ExtTypes
<1>3. e # 0 /\ e \in 0 .. MaxExtractions
  BY ExtractionAssumption DEF Extractions
<1>4. task \in ExtTask /\ task.pc = "extract" /\ task.ext = e /\ task.saw = ext[e]
  BY <1>2, <1>3 DEF ExtTask
<1> HIDE DEF task
<1>5. extWorker' \in [ExtWorkers -> ExtTask] /\ extQueue' \in [Extractions -> 0 .. 1]
  BY <1>1, <1>2, <1>4
<1>6. \A v \in ExtWorkers : extWorker'[v] = extWorker[v] \/ (Visible(e) /\ extWorker'[v] = task)
  BY <1>1, <1>2
<1>7. e \notin decided
  BY <1>1 DEF ExtInv, DecidedRest, Busy
<1>8. ExtTypes'
  BY <1>1, <1>2, <1>5 DEF ExtTypes
<1>9. RowsTell' /\ SucceededIsTrustworthy'
  BY <1>1 DEF ExtInv, RowsTell, SucceededIsTrustworthy
<1>10. TasksTell'
  <2> SUFFICES ASSUME NEW v \in ExtWorkers
               PROVE  /\ extWorker'[v].pc = "idle" <=> extWorker'[v].ext = 0
                      /\ extWorker'[v].ext # 0 =>
                           /\ ext[extWorker'[v].ext].status # "absent"
                           /\ extWorker'[v].saw.fields # "none" => ext[extWorker'[v].ext].fields # "none"
    BY <1>1 DEF TasksTell
  <2>1. CASE extWorker'[v] = extWorker[v]
    BY <2>1 DEF ExtInv, TasksTell
  <2>2. CASE Visible(e) /\ extWorker'[v] = task
    BY <2>2, <1>3, <1>4 DEF Visible
  <2> QED
    BY <2>1, <2>2, <1>6
<1>11. ASSUME NEW o \in decided PROVE ~Busy(o)'
  <2>1. ~Busy(o) /\ o # e
    BY <1>7 DEF ExtInv, DecidedRest
  <2>2. extQueue'[o] = extQueue[o]
    BY <1>1, <1>2, <2>1
  <2>3. \A v \in ExtWorkers : extWorker'[v].ext # o
    BY <1>4, <1>6, <2>1 DEF Busy
  <2> QED
    BY <2>1, <2>2, <2>3 DEF Busy
<1>12. DecidedRest'
  BY <1>1, <1>11 DEF ExtInv, DecidedRest
<1> QED
  BY <1>8, <1>9, <1>10, <1>12 DEF ExtInv

\* What a run leaves in the row it worked on.
LEMMA RunWrites ==
  ASSUME ExtInv, NEW w \in ExtWorkers, extWorker[w].pc = "extract",
         NEW out \in {ResultOf[ext[extWorker[w].ext].doc], Unlucky}
  PROVE  LET e == extWorker[w].ext
             row == RowWritten(ext[e], extWorker[w].saw, out)
         IN  /\ e \in Extractions /\ e \notin decided /\ row \in ExtRow
             /\ ext[e].fields # "none" => row.fields # "none"
             /\ row.status # "absent"
             /\ row.status \in {"accepted", "rejected"} => row.reviewer
             /\ row.status \in {"succeeded", "partial"} => row.fields # "none"
             /\ row.status = "succeeded" => Trustworthy(Document[row.doc])
<1> DEFINE e == extWorker[w].ext
           saw == extWorker[w].saw
           st == ExtWritten(saw.status, out.status, ext[e].status)
           fi == IF out.fields = "none" THEN ext[e].fields ELSE ExtWritten(saw.fields, out.fields, ext[e].fields)
           a == [ext[e] EXCEPT !.status = st]
           row == [a EXCEPT !.fields = fi]
<1>1. extWorker[w] \in ExtTask
  BY DEF ExtInv, ExtTypes
<1>2. e \in 0 .. MaxExtractions /\ saw \in ExtRow
  BY <1>1 DEF ExtTask
<1>3. e # 0
  BY DEF ExtInv, TasksTell
<1>4. e \in Extractions
  BY <1>2, <1>3, ExtractionAssumption DEF Extractions
<1>5. e \notin decided
  BY DEF ExtInv, DecidedRest, Busy
<1>6. ext[e] \in ExtRow /\ ext[e].status # "absent" /\ (saw.fields # "none" => ext[e].fields # "none")
  BY <1>3, <1>4 DEF ExtInv, ExtTypes, TasksTell
<1>7. RowWritten(ext[e], saw, out) = row
  BY DEF RowWritten
<1>8. /\ out.status \in {"succeeded", "partial", "failed"} /\ out.fields \in {"none", "auto"}
      /\ out.status \in {"succeeded", "partial"} => out.fields = "auto"
      /\ out.status = "succeeded" => Trustworthy(Document[ext[e].doc])
  <2>1. ext[e].doc \in Documents
    BY <1>6 DEF ExtRow
  <2>2. CASE out = Unlucky
    BY <2>2 DEF Unlucky
  <2>3. CASE out = ResultOf[ext[e].doc]
    BY <2>1, <2>3, ResultTrust DEF ExtOut
  <2> QED
    BY <2>2, <2>3
<1>9. /\ st = out.status \/ st = ext[e].status
      /\ fi = ext[e].fields \/ fi = "auto"
      /\ out.fields = "auto" => fi = "auto" \/ ext[e].fields # "none"
  BY <1>6, <1>8 DEF ExtWritten
<1>10. /\ ext[e].status \in {"accepted", "rejected"} => ext[e].reviewer
       /\ ext[e].status \in {"succeeded", "partial"} => ext[e].fields # "none"
       /\ ext[e].status = "succeeded" => Trustworthy(Document[ext[e].doc])
  BY <1>4 DEF ExtInv, RowsTell, SucceededIsTrustworthy
<1>11. st \in ExtractionStatus \cup {"absent", "flushed"} /\ fi \in {"none", "auto", "user"}
  BY <1>6, <1>8, <1>9 DEF ExtRow, ExtractionStatus
<1> HIDE DEF st, fi
<1>12. a \in ExtRow /\ a.status = st /\ a.doc = ext[e].doc /\ a.reviewer = ext[e].reviewer
  BY <1>6, <1>11 DEF ExtRow
<1> HIDE DEF a
<1>13. /\ row \in ExtRow /\ row.status = st /\ row.doc = ext[e].doc /\ row.reviewer = ext[e].reviewer
       /\ row.fields = fi
  BY <1>11, <1>12 DEF ExtRow
<1> HIDE DEF row, e
<1>14. ext[e].fields # "none" => row.fields # "none"
  BY <1>9, <1>13
<1>15. row.status # "absent" /\ (row.status \in {"accepted", "rejected"} => row.reviewer)
  BY <1>6, <1>8, <1>9, <1>10, <1>13
<1>16. row.status \in {"succeeded", "partial"} => row.fields # "none"
  BY <1>8, <1>9, <1>10, <1>13
<1>17. row.status = "succeeded" => Trustworthy(Document[row.doc])
  BY <1>8, <1>9, <1>10, <1>13
<1> QED
  BY <1>4, <1>5, <1>7, <1>13, <1>14, <1>15, <1>16, <1>17 DEF e

\* A worker puts its task down: fewer rows are worked on.
LEMMA TaskEnds ==
  ASSUME ExtInv, NEW w \in ExtWorkers, extWorker' = [extWorker EXCEPT ![w] = Resting]
  PROVE  /\ extWorker' \in [ExtWorkers -> ExtTask]
         /\ \A v \in ExtWorkers : extWorker'[v] = extWorker[v] \/ extWorker'[v] = Resting
         /\ \A o \in decided, v \in ExtWorkers : extWorker'[v].ext # o
<1>1. NoExt \in ExtRow
  BY ExtractionAssumption DEF NoExt, ExtRow
<1>2. Resting \in ExtTask /\ Resting.ext = 0
  BY <1>1, ExtractionAssumption DEF Resting, ExtTask
<1>3. extWorker \in [ExtWorkers -> ExtTask] /\ decided \subseteq Extractions
  BY DEF ExtInv, ExtTypes
<1>4. \A o \in decided : o # 0
  BY <1>3, ExtractionAssumption DEF Extractions
<1>5. \A v \in ExtWorkers : extWorker'[v] = extWorker[v] \/ extWorker'[v] = Resting
  BY <1>3
<1>6. \A o \in decided, v \in ExtWorkers : extWorker[v].ext # o
  BY DEF ExtInv, DecidedRest, Busy
<1> QED
  BY <1>2, <1>3, <1>4, <1>5, <1>6

LEMMA TaskWritesStep ==
  ASSUME ExtInv, NEW w \in ExtWorkers, extWorker[w].pc = "extract",
         NEW out \in Outcomes(extWorker[w].ext), TaskWrites(w, out)
  PROVE  ExtInv'
<1> DEFINE e == extWorker[w].ext
           row == RowWritten(ext[e], extWorker[w].saw, out)
<1>1. /\ ext' = [ext EXCEPT ![e] = row] /\ extWorker' = [extWorker EXCEPT ![w] = Resting]
      /\ extQueue' = extQueue /\ decided' = decided
  BY DEF TaskWrites
<1>2. out \in {ResultOf[ext[e].doc], Unlucky}
  BY DEF Outcomes
<1>3. /\ e \in Extractions /\ e \notin decided /\ row \in ExtRow
      /\ ext[e].fields # "none" => row.fields # "none"
      /\ row.status # "absent"
      /\ row.status \in {"accepted", "rejected"} => row.reviewer
      /\ row.status \in {"succeeded", "partial"} => row.fields # "none"
      /\ row.status = "succeeded" => Trustworthy(Document[row.doc])
  BY <1>2, RunWrites
<1>4. /\ extWorker' \in [ExtWorkers -> ExtTask]
      /\ \A v \in ExtWorkers : extWorker'[v] = extWorker[v] \/ extWorker'[v] = Resting
      /\ \A o \in decided, v \in ExtWorkers : extWorker'[v].ext # o
  BY <1>1, TaskEnds
<1> HIDE DEF row, e
<1>5. extQueue' \in [Extractions -> 0 .. 1] /\ decided' \subseteq Extractions
  BY <1>1 DEF ExtInv, ExtTypes
<1>6. \A o \in decided : ~Busy(o)'
  BY <1>1, <1>4 DEF ExtInv, DecidedRest, Busy
<1>7. ASSUME NEW k \in Extractions, k = e PROVE ExtInv'
  <2>1. ext' = [ext EXCEPT ![k] = row] /\ k \notin decided' /\ (ext[k].fields # "none" => row.fields # "none")
    BY <1>1, <1>3, <1>7
  <2>2. \A o \in decided' : ~Busy(o)' /\ o \in decided
    BY <1>1, <1>6
  <2> QED
    BY <1>3, <1>4, <1>5, <2>1, <2>2, RowStep
<1> QED
  BY <1>3, <1>7

LEMMA ExtWorkerDiesStep ==
  ASSUME ExtInv, NEW w \in ExtWorkers, NEW committed \in BOOLEAN, ExtWorkerDies(w, committed)
  PROVE  ExtInv'
<1> DEFINE e == extWorker[w].ext
           out == ResultOf[ext[e].doc]
           row == IF committed THEN RowWritten(ext[e], extWorker[w].saw, out) ELSE ext[e]
<1>1. /\ extWorker[w].pc = "extract"
      /\ ext' = IF committed THEN [ext EXCEPT ![e] = RowWritten(ext[e], extWorker[w].saw, out)] ELSE ext
      /\ extWorker' = [extWorker EXCEPT ![w] = Resting]
      /\ extQueue' = [extQueue EXCEPT ![e] = 1] /\ decided' = decided
  BY DEF ExtWorkerDies
<1>2. LET new == RowWritten(ext[e], extWorker[w].saw, out) IN
      /\ e \in Extractions /\ e \notin decided /\ new \in ExtRow
      /\ ext[e].fields # "none" => new.fields # "none"
      /\ new.status # "absent"
      /\ new.status \in {"accepted", "rejected"} => new.reviewer
      /\ new.status \in {"succeeded", "partial"} => new.fields # "none"
      /\ new.status = "succeeded" => Trustworthy(Document[new.doc])
  BY <1>1, RunWrites
<1>3. e # 0 /\ ext \in [Extractions -> ExtRow] /\ ext[e].status # "absent"
  BY <1>1 DEF ExtInv, ExtTypes, TasksTell
<1>4. /\ row \in ExtRow /\ (ext[e].fields # "none" => row.fields # "none")
      /\ row.status # "absent"
      /\ row.status \in {"accepted", "rejected"} => row.reviewer
      /\ row.status \in {"succeeded", "partial"} => row.fields # "none"
      /\ row.status = "succeeded" => Trustworthy(Document[row.doc])
  <2>1. CASE committed
    BY <1>2, <2>1
  <2>2. CASE ~committed
    BY <1>2, <1>3, <2>2 DEF ExtInv, RowsTell, SucceededIsTrustworthy
  <2> QED
    BY <2>1, <2>2
<1>5. ext' = [ext EXCEPT ![e] = row]
  BY <1>1, <1>2, <1>3
<1>6. /\ extWorker' \in [ExtWorkers -> ExtTask]
      /\ \A v \in ExtWorkers : extWorker'[v] = extWorker[v] \/ extWorker'[v] = Resting
      /\ \A o \in decided, v \in ExtWorkers : extWorker'[v].ext # o
  BY <1>1, TaskEnds
<1>7. e \in Extractions /\ e \notin decided
  BY <1>2
<1> HIDE DEF row, e
<1>8. extQueue \in [Extractions -> 0 .. 1] /\ decided' \subseteq Extractions
  BY <1>1 DEF ExtInv, ExtTypes
<1>9. extQueue' = [extQueue EXCEPT ![e] = 1] /\ extQueue \in [Extractions -> 0 .. 1]
  BY <1>1, <1>8
<1>10. 1 \in 0 .. 1
  OBVIOUS
<1>11. extQueue' \in [Extractions -> 0 .. 1]
  BY <1>9, <1>10
<1>12. \A o \in Extractions : o # e => extQueue'[o] = extQueue[o]
  BY <1>9
<1>13. ASSUME NEW o \in decided PROVE ~Busy(o)'
  <2>1. o # e /\ o \in Extractions /\ ~Busy(o)
    BY <1>1, <1>7, <1>8 DEF ExtInv, DecidedRest
  <2> QED
    BY <2>1, <1>6, <1>12 DEF Busy
<1>14. ASSUME NEW k \in Extractions, k = e PROVE ExtInv'
  <2>1. ext' = [ext EXCEPT ![k] = row] /\ k \notin decided' /\ (ext[k].fields # "none" => row.fields # "none")
    BY <1>1, <1>4, <1>5, <1>7, <1>14
  <2>2. \A o \in decided' : ~Busy(o)' /\ o \in decided
    BY <1>1, <1>13
  <2> QED
    BY <1>4, <1>6, <1>8, <1>11, <2>1, <2>2, RowStep
<1> QED
  BY <1>7, <1>14

LEMMA ReviewStep ==
  ASSUME ExtInv, NEW e \in Extractions, Reviewed(e), NEW row \in ExtRow,
         ext' = [ext EXCEPT ![e] = row], ext[e].fields # "none" => row.fields # "none",
         row.status \in {"accepted", "rejected"}, row.reviewer,
         UNCHANGED <<extQueue, extWorker>>
  PROVE  ExtInv'
<1>1. decided' = IF Busy(e) THEN decided ELSE decided \cup {e}
  BY DEF Reviewed
<1>2. extQueue' \in [Extractions -> 0 .. 1] /\ extWorker' \in [ExtWorkers -> ExtTask] /\ decided \subseteq Extractions
  BY DEF ExtInv, ExtTypes
<1>3. \A o \in Extractions : Busy(o)' <=> Busy(o)
  BY DEF Busy
<1>4. decided' \subseteq Extractions /\ \A o \in decided' : ~Busy(o) /\ (o # e => o \in decided)
  BY <1>1, <1>2 DEF ExtInv, DecidedRest
<1>5. \A o \in decided' : ~Busy(o)'
  BY <1>3, <1>4
<1> QED
  BY <1>2, <1>4, <1>5, RowStep

LEMMA AcceptStep ==
  ASSUME ExtInv, NEW e \in Extractions, NEW overrides \in BOOLEAN, Accept(e, overrides)
  PROVE  ExtInv'
<1> DEFINE a == [ext[e] EXCEPT !.status = "accepted"]
           b == [a EXCEPT !.reviewer = TRUE]
           fi == ExtMerged(ext[e].fields, overrides)
           row == [b EXCEPT !.fields = fi]
<1>1. Reviewed(e) /\ ext' = [ext EXCEPT ![e] = row] /\ UNCHANGED <<extQueue, extWorker>>
  BY DEF Accept
<1>2. ext[e] \in ExtRow
  BY DEF ExtInv, ExtTypes
<1>3. fi \in {"none", "auto", "user"} /\ fi # "none"
  BY <1>2 DEF ExtMerged, ExtRow
<1> HIDE DEF fi
<1>4. a \in ExtRow /\ a.status = "accepted"
  BY <1>2 DEF ExtRow, ExtractionStatus
<1> HIDE DEF a
<1>5. b \in ExtRow /\ b.status = "accepted" /\ b.reviewer
  BY <1>4 DEF ExtRow
<1> HIDE DEF b
<1>6. row \in ExtRow /\ row.status = "accepted" /\ row.reviewer /\ row.fields # "none"
  BY <1>3, <1>5 DEF ExtRow
<1> HIDE DEF row
<1> QED
  BY <1>1, <1>6, ReviewStep

LEMMA RejectStep ==
  ASSUME ExtInv, NEW e \in Extractions, Reject(e)
  PROVE  ExtInv'
<1> DEFINE a == [ext[e] EXCEPT !.status = "rejected"]
           row == [a EXCEPT !.reviewer = TRUE]
<1>1. Reviewed(e) /\ ext' = [ext EXCEPT ![e] = row] /\ UNCHANGED <<extQueue, extWorker>>
  BY DEF Reject
<1>2. ext[e] \in ExtRow
  BY DEF ExtInv, ExtTypes
<1>3. a \in ExtRow /\ a.status = "rejected" /\ a.fields = ext[e].fields
  BY <1>2 DEF ExtRow, ExtractionStatus
<1> HIDE DEF a
<1>4. row \in ExtRow /\ row.status = "rejected" /\ row.reviewer /\ row.fields = ext[e].fields
  BY <1>3 DEF ExtRow
<1> HIDE DEF row
<1> QED
  BY <1>1, <1>4, ReviewStep

LEMMA ExtInductive == ExtSpec => []ExtInv
<1>1. ASSUME ExtInv, ExtNext PROVE ExtInv'
  BY <1>1, EnqueueStep, EnqueueCommitsStep, TaskReadsStep, TaskWritesStep, ExtWorkerDiesStep,
     AcceptStep, RejectStep DEF ExtNext, ExtWorks
<1>2. ASSUME ExtInv, UNCHANGED extVars PROVE ExtInv'
  BY <1>2 DEF extVars, ExtInv, ExtTypes, RowsTell, TasksTell, SucceededIsTrustworthy, DecidedRest, Busy
<1> QED
  BY ExtStart, <1>1, <1>2, PTL DEF ExtSpec

LEMMA ExtInvGives == ExtInv => ExtractionsSound
<1> SUFFICES ASSUME ExtInv PROVE ExtractionsSound
  OBVIOUS
<1>1. ASSUME NEW e \in Extractions
      PROVE  /\ ext[e].status \in ExtractionStatus \cup {"absent", "flushed"}
             /\ ext[e].fields \in {"none", "auto", "user"}
  <2>1. ext[e] \in ExtRow
    BY DEF ExtInv, ExtTypes
  <2> QED
    BY <2>1 DEF ExtRow
<1>2. ExtractionTypeOK
  BY <1>1 DEF ExtInv, ExtTypes, RowsTell, TasksTell, ExtractionTypeOK
<1>3. ReviewKept
  BY DEF ExtInv, DecidedRest, ReviewKept
<1> QED
  BY <1>2, <1>3 DEF ExtInv, ExtractionsSound

\* However tasks die, are delivered again and meet reviews, "succeeded" is said only of
\* a document whose dates agree and whose number stands at its label, and a review made
\* with nothing about is final (run_extraction, _classify_status, accept_extraction,
\* reject_extraction).
THEOREM ExtractionsReliable == ExtSpec => []ExtractionsSound
  BY ExtInductive, ExtInvGives, PTL

-----------------------------------------------------------------------------
(* Stripe's events *)

CustomerRow == [id : {Event[e].cust : e \in Events} \cup {"none"},
                email : {Event[e].email : e \in Events} \cup {"none"}]
BillSubRow == [tenant : Tenants \cup {"none"}, status : SubscriptionStatus, since : 0 .. MaxBillTime,
               canceled : BOOLEAN, setup : BOOLEAN, born : 0 .. (1 + Cardinality(Subs))]
InvoiceRow == [tenant : Tenants \cup {"none"}, status : InvoiceStatus, paidAt : BOOLEAN]
BillTables == [cust : [Tenants -> CustomerRow], sub : [Subs -> BillSubRow],
               inv : [Invoices -> InvoiceRow], active : [Tenants -> BOOLEAN]]
OpenTx == [open : {TRUE}, event : Events \cup {"none"}, day : 1 .. MaxBillTime,
           read : BillTables, wanted : BillTables]

BillTypes ==
  /\ sent \subseteq Events /\ ledger \subseteq sent /\ acked \subseteq ledger
  /\ opened \subseteq Tenants
  /\ tables \in BillTables
  /\ tx \in [BillHandlers -> {Closed} \cup OpenTx]
  /\ billNow \in 1 .. MaxBillTime
  /\ applied \in [Events -> Nat]
  /\ fell \in [Subs -> Nat]
  /\ overlapped \in BOOLEAN

\* A subscription nobody owns has no row.
Vacant(d) == \A s \in Subs : d.sub[s].tenant = "none" => d.sub[s] = NoSub

\* What a handler that works on subscription s makes of the tables d: the
\* clock starts on the day it falls past due, and the gate follows.
Touched(d, w, s, day) ==
  /\ \A r \in Subs \ {s} : w.sub[r] = d.sub[r]
  /\ w.sub[s].tenant \in Tenants
  /\ d.sub[s].tenant # "none" => w.sub[s].tenant = d.sub[s].tenant
  /\ w.sub[s].status = "past_due" =>
       w.sub[s].since = IF d.sub[s].status = "past_due" THEN d.sub[s].since ELSE day
  /\ w.sub[s].status = "active" =>
       w.sub[s].since = 0 \/ (d.sub[s].status = "active" /\ w.sub[s].since = d.sub[s].since)
  /\ \A t \in Tenants \ {w.sub[s].tenant} : w.active[t] = d.active[t]
  /\ w.sub[s].status = "canceled" => w.active[w.sub[s].tenant] = FALSE
  /\ w.sub[s].status = "active" => w.active[w.sub[s].tenant] = TRUE

Untouched(d, w) == w.sub = d.sub /\ w.active = d.active
Outcome(d, w, day) == Untouched(d, w) \/ \E s \in Subs : Touched(d, w, s, day)

\* What an open transaction will write, whatever it overlaps with, and the
\* event it has claimed.
Claimed(h) ==
  /\ Vacant(tx[h].read) /\ Vacant(tx[h].wanted)
  /\ \A s \in Subs : tx[h].read.sub[s].tenant # "none" =>
       tx[h].wanted.sub[s].tenant # "none" /\ tables.sub[s].tenant # "none"
  /\ tx[h].event # "none" => tx[h].event \in sent \ ledger /\ Event[tx[h].event].signed

OneClaim ==
  \A g, h \in BillHandlers :
    tx[g].open /\ tx[h].open /\ tx[g].event # "none" /\ tx[g].event = tx[h].event => g = h

\* While transactions do not overlap, the open one has read what is there.
Unmixed ==
  ~overlapped =>
    /\ \A g, h \in BillHandlers : tx[g].open /\ tx[h].open => g = h
    /\ \A h \in BillHandlers : tx[h].open =>
         tx[h].read = tables /\ Outcome(tables, tx[h].wanted, tx[h].day)

BillInv ==
  /\ BillTypes /\ Vacant(tables)
  /\ \A h \in BillHandlers : tx[h].open => Claimed(h)
  /\ OneClaim /\ Unmixed
  /\ LedgerExact /\ ClockFromFirstFailure /\ GateFollowsStatus

LEMMA BillConstants ==
  /\ Grace \in Nat /\ MaxBillFaults \in Nat /\ MaxDuplicates \in Nat
  /\ MaxBillTime \in Nat /\ MaxBillTime >= 1
  /\ "none" \notin Events /\ "none" \notin Tenants
<1>1. {Grace, MaxBillFaults, MaxDuplicates} \subseteq Nat
  BY BillingAssumption, Zenon
<1>2. MaxBillTime \in Nat \ {0}
  BY BillingAssumption, Zenon
<1>3. "none" \notin Events /\ "none" \notin Tenants
  BY BillingAssumption, Zenon
<1>4. MaxBillTime \in Nat /\ MaxBillTime >= 1
  BY <1>2
<1> QED
  BY <1>1, <1>3, <1>4

LEMMA SubsFinite ==
  /\ IsFiniteSet(Subs) /\ Cardinality(Subs) \in Nat
  /\ \A S \in SUBSET Subs : Cardinality(S) \in 0 .. Cardinality(Subs)
<1>1. IsFiniteSet(Subs)
  BY BillingAssumption, FS_Difference DEF Subs
<1>2. Cardinality(Subs) \in Nat
  BY <1>1, FS_CardinalityType
<1>3. ASSUME NEW S \in SUBSET Subs PROVE Cardinality(S) \in 0 .. Cardinality(Subs)
  <2>1. IsFiniteSet(S) /\ Cardinality(S) <= Cardinality(Subs)
    BY <1>1, FS_Subset
  <2>2. Cardinality(S) \in Nat
    BY <2>1, FS_CardinalityType
  <2> QED
    BY <1>2, <2>1, <2>2
<1> QED
  BY <1>1, <1>2, <1>3

LEMMA EventFields ==
  ASSUME NEW e \in Events
  PROVE  /\ Event[e] \in EventShape
         /\ Event[e].sub # "none" => Event[e].sub \in Subs
         /\ Event[e].inv # "none" => Event[e].inv \in Invoices
         /\ Event[e].type \in InvoiceEvents => StatusOf(Event[e]) \in InvoiceStatus
<1>1. Event[e] \in EventShape
  BY BillingAssumption
<1>2. Event[e].type \in InvoiceEvents => StatusOf(Event[e]) \in InvoiceStatus
  BY <1>1, BillingAssumption DEF StatusOf, InvoiceEvents, InvoiceStatus
<1> QED
  BY <1>1, <1>2 DEF Subs, Invoices

LEMMA BillStart == BillInit => BillInv
<1> SUFFICES ASSUME BillInit PROVE BillInv
  OBVIOUS
<1>1. NoSub \in BillSubRow /\ NoSub.tenant = "none" /\ NoSub.status = "incomplete"
  <2>1. 0 \in 0 .. MaxBillTime /\ 0 \in 0 .. (1 + Cardinality(Subs))
    BY SubsFinite, BillConstants
  <2> QED
    BY <2>1 DEF NoSub, SubRow, BillSubRow, SubscriptionStatus
<1>2. tables \in BillTables
  <2>1. NoCustomer \in CustomerRow
    BY DEF NoCustomer, CustomerRow
  <2>2. NoInvoice \in InvoiceRow
    BY DEF NoInvoice, InvoiceRow, InvoiceStatus
  <2> QED
    BY <1>1, <2>1, <2>2 DEF BillInit, BillTables
<1>3. \A s \in Subs : tables.sub[s] = NoSub
  BY DEF BillInit
<1>4. \A h \in BillHandlers : tx[h] = Closed /\ tx[h].open = FALSE
  BY DEF BillInit, Closed
<1>5. BillTypes
  <2>1. sent \subseteq Events
    BY BillingAssumption DEF BillInit
  <2>2. tx \in [BillHandlers -> {Closed} \cup OpenTx]
    BY DEF BillInit
  <2>3. billNow \in 1 .. MaxBillTime
    <3>1. billNow = 1
      BY DEF BillInit
    <3> QED
      BY <3>1, BillConstants
  <2> QED
    BY <1>2, <2>1, <2>2, <2>3 DEF BillTypes, BillInit
<1>6. Vacant(tables)
  BY <1>3 DEF Vacant
<1>7. OneClaim /\ Unmixed
  BY <1>4 DEF OneClaim, Unmixed
<1>8. LedgerExact
  BY DEF BillInit, LedgerExact
<1>9. ClockFromFirstFailure
  BY <1>1, <1>3 DEF ClockFromFirstFailure
<1>10. GateFollowsStatus
  BY <1>1, <1>3, BillConstants DEF GateFollowsStatus
<1> QED
  BY <1>4, <1>5, <1>6, <1>7, <1>8, <1>9, <1>10 DEF BillInv

-----------------------------------------------------------------------------
\* The writers of single rows keep the shape of the tables.
LEMMA OneRow ==
  ASSUME NEW d \in BillTables
  PROVE  /\ \A t \in Tenants : \A row \in CustomerRow : WithCustomer(d, t, row) \in BillTables
         /\ \A s \in Subs : \A row \in BillSubRow : WithSub(d, s, row) \in BillTables
         /\ \A i \in Invoices : \A row \in InvoiceRow : WithInvoice(d, i, row) \in BillTables
         /\ \A t \in Tenants : \A b \in BOOLEAN : WithGate(d, t, b) \in BillTables
<1>1. ASSUME NEW t \in Tenants, NEW row \in CustomerRow PROVE WithCustomer(d, t, row) \in BillTables
  BY DEF WithCustomer, BillTables
<1>2. ASSUME NEW s \in Subs, NEW row \in BillSubRow PROVE WithSub(d, s, row) \in BillTables
  BY DEF WithSub, BillTables
<1>3. ASSUME NEW i \in Invoices, NEW row \in InvoiceRow PROVE WithInvoice(d, i, row) \in BillTables
  BY DEF WithInvoice, BillTables
<1>4. ASSUME NEW t \in Tenants, NEW b \in BOOLEAN PROVE WithGate(d, t, b) \in BillTables
  BY DEF WithGate, BillTables
<1> QED
  BY <1>1, <1>2, <1>3, <1>4

\* What the gate of tenant t does when a subscription of its has a status.
GateMoved(d, w, t, status) ==
  /\ w \in BillTables /\ w.sub = d.sub
  /\ \A u \in Tenants \ {t} : w.active[u] = d.active[u]
  /\ status = "canceled" => w.active[t] = FALSE
  /\ status = "active" => w.active[t] = TRUE

LEMMA GateMoves ==
  ASSUME NEW d \in BillTables, NEW t \in Tenants, NEW status
  PROVE  GateMoved(d, Gated(d, t, status), t, status)
<1>1. Gated(d, t, status) \in BillTables
  BY OneRow DEF Gated
<1>2. d.active \in [Tenants -> BOOLEAN]
  BY DEF BillTables
<1> QED
  BY <1>1, <1>2 DEF Gated, WithGate, GateMoved

\* transition_status.
LEMMA TransitionTouches ==
  ASSUME NEW d \in BillTables, NEW s \in Subs, d.sub[s].tenant \in Tenants,
         NEW to \in SubscriptionStatus, billNow \in 1 .. MaxBillTime
  PROVE  /\ TransitionStatus(d, s, to) \in BillTables
         /\ Touched(d, TransitionStatus(d, s, to), s, billNow)
<1> DEFINE row == MovedTo(d.sub[s], to)
           m == WithSub(d, s, row)
           t == d.sub[s].tenant
           w == Gated(m, t, to)
<1>1. d.sub[s] \in BillSubRow /\ d.sub \in [Subs -> BillSubRow]
  BY DEF BillTables
<1>2. row \in BillSubRow
  <2>1. billNow \in 0 .. MaxBillTime /\ 0 \in 0 .. MaxBillTime
    BY BillConstants
  <2>2. d.sub[s].since \in 0 .. MaxBillTime /\ d.sub[s].canceled \in BOOLEAN
    BY <1>1 DEF BillSubRow
  <2>3. row.since \in 0 .. MaxBillTime
    BY <2>1, <2>2 DEF MovedTo
  <2>4. row.canceled \in BOOLEAN
    BY <2>2 DEF MovedTo
  <2> QED
    BY <1>1, <2>3, <2>4 DEF MovedTo, BillSubRow
<1>3. m \in BillTables
  BY <1>2, OneRow
<1>4. /\ row.tenant = d.sub[s].tenant /\ row.status = to
      /\ to = "past_due" => row.since = IF d.sub[s].status = "past_due" THEN d.sub[s].since ELSE billNow
      /\ to = "active" => row.since = 0
  BY DEF MovedTo
<1>5. m.active = d.active /\ m.sub[s] = row /\ \A r \in Subs \ {s} : m.sub[r] = d.sub[r]
  BY <1>1 DEF WithSub
<1>0. t \in Tenants
  OBVIOUS
<1> HIDE DEF row, m, t
<1>6. GateMoved(m, w, t, to)
  BY <1>0, <1>3, GateMoves
<1> HIDE DEF w
<1>7. Touched(d, w, s, billNow)
  BY <1>0, <1>4, <1>5, <1>6 DEF Touched, GateMoved, t
<1>8. TransitionStatus(d, s, to) = w
  BY DEF TransitionStatus, w, m, row, t
<1>9. w \in BillTables
  BY <1>6 DEF GateMoved
<1> QED
  BY <1>7, <1>8, <1>9

\* upsert_subscription_from_stripe.
LEMMA UpsertTouches ==
  ASSUME NEW d \in BillTables, Vacant(d), NEW t \in Tenants, NEW s \in Subs,
         NEW status \in SubscriptionStatus, NEW canceled \in BOOLEAN, billNow \in 1 .. MaxBillTime
  PROVE  /\ UpsertSubscription(d, t, s, status, canceled) \in BillTables
         /\ Touched(d, UpsertSubscription(d, t, s, status, canceled), s, billNow)
<1> DEFINE row == Upserted(d, t, s, canceled)
           read == WithSub(d, s, row)
           n == row.tenant
           v == TransitionStatus(read, s, status)
           w == Gated(read, n, row.status)
<1>1. d.sub \in [Subs -> BillSubRow] /\ d.sub[s] \in BillSubRow
  BY DEF BillTables
<1>2. /\ row \in BillSubRow /\ row.tenant \in Tenants
      /\ row.status = d.sub[s].status /\ row.since = d.sub[s].since
      /\ d.sub[s].tenant # "none" => row.tenant = d.sub[s].tenant
  <2>1. CASE d.sub[s].tenant = "none"
    <3> DEFINE born == 1 + Cardinality({r \in Subs : d.sub[r].tenant # "none"})
    <3>1. born \in 0 .. (1 + Cardinality(Subs))
      BY SubsFinite
    <3> HIDE DEF born
    <3>2. row = SubRow(t, canceled, born)
      BY <2>1 DEF Upserted, born
    <3>3. d.sub[s] = NoSub
      BY <2>1 DEF Vacant
    <3>4. 0 \in 0 .. MaxBillTime
      BY BillConstants
    <3> HIDE DEF row
    <3> QED
      BY <2>1, <3>1, <3>2, <3>3, <3>4 DEF NoSub, SubRow, BillSubRow, SubscriptionStatus
  <2>2. CASE d.sub[s].tenant # "none"
    <3>1. row = [d.sub[s] EXCEPT !.canceled = @ \/ canceled]
      BY <2>2 DEF Upserted
    <3>2. d.sub[s].tenant \in Tenants /\ d.sub[s].canceled \in BOOLEAN
      BY <1>1, <2>2 DEF BillSubRow
    <3>3. (d.sub[s].canceled \/ canceled) \in BOOLEAN
      BY <3>2
    <3> HIDE DEF row
    <3> QED
      BY <1>1, <3>1, <3>2, <3>3 DEF BillSubRow
  <2> QED
    BY <2>1, <2>2
<1> HIDE DEF row
<1>3. read \in BillTables
  BY <1>2, OneRow
<1>4. /\ read.active = d.active /\ read.sub[s] = row
      /\ \A r \in Subs \ {s} : read.sub[r] = d.sub[r]
  BY <1>1 DEF WithSub
<1> HIDE DEF read
<1>5. CASE status # row.status
  <2>1. v \in BillTables /\ Touched(read, v, s, billNow)
    BY <1>2, <1>3, <1>4, TransitionTouches
  <2>2. UpsertSubscription(d, t, s, status, canceled) = v
    BY <1>5 DEF UpsertSubscription, row, read
  <2> HIDE DEF v
  <2>3. Touched(d, v, s, billNow)
    BY <1>2, <1>4, <2>1 DEF Touched
  <2> QED
    BY <2>1, <2>2, <2>3
<1>6. CASE status = row.status
  <2>1. n \in Tenants
    BY <1>2
  <2>2. UpsertSubscription(d, t, s, status, canceled) = w
    BY <1>6 DEF UpsertSubscription, row, read
  <2> HIDE DEF n
  <2>3. GateMoved(read, w, n, row.status)
    BY <1>3, <2>1, GateMoves
  <2> HIDE DEF w
  <2>4. Touched(d, w, s, billNow)
    <3>1. w.sub = read.sub /\ w.sub[s] = row
      BY <1>4, <2>3 DEF GateMoved
    <3>2. /\ \A u \in Tenants \ {row.tenant} : w.active[u] = d.active[u]
          /\ row.status = "canceled" => w.active[row.tenant] = FALSE
          /\ row.status = "active" => w.active[row.tenant] = TRUE
      BY <1>4, <2>3 DEF GateMoved, n
    <3> QED
      BY <1>2, <1>4, <3>1, <3>2 DEF Touched
  <2>5. w \in BillTables
    BY <2>3 DEF GateMoved
  <2> QED
    BY <2>2, <2>4, <2>5
<1> QED
  BY <1>5, <1>6

LEMMA OutcomeVacant ==
  ASSUME NEW d \in BillTables, NEW w \in BillTables, NEW day, Vacant(d), Outcome(d, w, day)
  PROVE  Vacant(w) /\ \A s \in Subs : d.sub[s].tenant # "none" => w.sub[s].tenant # "none"
<1>1. CASE Untouched(d, w)
  BY <1>1 DEF Untouched, Vacant
<1>2. CASE \E s \in Subs : Touched(d, w, s, day)
  <2>1. PICK s \in Subs : Touched(d, w, s, day)
    BY <1>2
  <2>2. w.sub[s].tenant # "none" /\ \A r \in Subs \ {s} : w.sub[r] = d.sub[r]
    BY <2>1, BillConstants DEF Touched
  <2> QED
    BY <2>2 DEF Vacant
<1> QED
  BY <1>1, <1>2 DEF Outcome

\* _handle_checkout_completed.
LEMMA CheckoutOutcome ==
  ASSUME NEW d \in BillTables, Vacant(d), NEW e \in Events, billNow \in 1 .. MaxBillTime
  PROVE  /\ HandleCheckout(d, Event[e]) \in BillTables
         /\ Outcome(d, HandleCheckout(d, Event[e]), billNow)
<1> DEFINE x == Event[e]
           withCustomer == IF x.cust = "none" THEN d ELSE UpsertCustomer(d, x.tenant, x.cust, x.email)
           withSub == UpsertSubscription(withCustomer, x.tenant, x.sub, "active", FALSE)
           row == [withSub.sub[x.sub] EXCEPT !.setup = TRUE]
           w == WithSub(withSub, x.sub, row)
<1>1. x.tenant \in Tenants /\ (x.sub # "none" => x.sub \in Subs)
  BY EventFields DEF EventShape
<1>2. withCustomer \in BillTables /\ withCustomer.sub = d.sub /\ withCustomer.active = d.active
  <2>1. d.cust[x.tenant] \in CustomerRow
    BY <1>1 DEF BillTables
  <2>2. [id |-> x.cust, email |-> IF x.email = "none" THEN d.cust[x.tenant].email ELSE x.email] \in CustomerRow
    BY <2>1 DEF CustomerRow
  <2>3. UpsertCustomer(d, x.tenant, x.cust, x.email) \in BillTables
    BY <1>1, <2>2, OneRow DEF UpsertCustomer
  <2> QED
    BY <2>3 DEF UpsertCustomer, WithCustomer
<1>3. Vacant(withCustomer)
  BY <1>2 DEF Vacant
<1>4. HandleCheckout(d, x) = IF x.sub = "none" THEN withCustomer ELSE w
  BY DEF HandleCheckout
<1> HIDE DEF withCustomer
<1>5. CASE x.sub = "none"
  BY <1>2, <1>4, <1>5 DEF Outcome, Untouched
<1>6. CASE x.sub # "none"
  <2>1. withSub \in BillTables /\ Touched(withCustomer, withSub, x.sub, billNow)
    <3>1. "active" \in SubscriptionStatus
      BY DEF SubscriptionStatus
    <3> QED
      BY <1>1, <1>2, <1>3, <1>6, <3>1, UpsertTouches
  <2> HIDE DEF withSub
  <2>2. withSub.sub \in [Subs -> BillSubRow] /\ withSub.sub[x.sub] \in BillSubRow
    BY <1>1, <1>6, <2>1 DEF BillTables
  <2>3. /\ row \in BillSubRow /\ row.tenant = withSub.sub[x.sub].tenant
        /\ row.status = withSub.sub[x.sub].status /\ row.since = withSub.sub[x.sub].since
    BY <2>2 DEF BillSubRow
  <2> HIDE DEF row
  <2>4. w \in BillTables
    BY <1>1, <1>6, <2>1, <2>3, OneRow
  <2>5. /\ w.active = withSub.active /\ w.sub[x.sub] = row
        /\ \A r \in Subs \ {x.sub} : w.sub[r] = withSub.sub[r]
    BY <1>1, <1>6, <2>2 DEF WithSub
  <2> HIDE DEF w
  <2>6. Touched(d, w, x.sub, billNow)
    BY <1>2, <2>1, <2>3, <2>5 DEF Touched
  <2> QED
    BY <1>1, <1>4, <1>6, <2>4, <2>6 DEF Outcome
<1> QED
  BY <1>5, <1>6

\* _handle_subscription_event.
LEMMA SubscriptionOutcome ==
  ASSUME NEW d \in BillTables, Vacant(d), NEW e \in Events, billNow \in 1 .. MaxBillTime,
         Event[e].type \in {"subscription", "deleted"}, ~Raises(d, Event[e])
  PROVE  /\ HandleSubscription(d, Event[e]) \in BillTables
         /\ Outcome(d, HandleSubscription(d, Event[e]), billNow)
<1> DEFINE x == Event[e]
           t == CHOOSE u \in Owner(d, x) : TRUE
           status == StatusOf(x)
           canceled == x.type = "deleted"
           w == UpsertSubscription(d, t, x.sub, status, canceled)
<1>1. CASE x.sub = "none" \/ Owner(d, x) = {}
  <2>1. HandleSubscription(d, x) = d
    BY <1>1 DEF HandleSubscription
  <2> QED
    BY <2>1 DEF Outcome, Untouched
<1>2. CASE x.sub # "none" /\ Owner(d, x) # {}
  <2>1. x.sub \in Subs
    BY <1>2, EventFields
  <2>2. d.sub[x.sub].tenant \in Tenants \cup {"none"}
    BY <2>1 DEF BillTables, BillSubRow
  <2>3. Owner(d, x) \subseteq Tenants
    BY <2>2 DEF Owner, ResolveTenant
  <2>4. t \in Tenants
    BY <1>2, <2>3
  <2>5. status \in SubscriptionStatus
    <3>1. CASE x.type = "deleted"
      BY <3>1 DEF StatusOf, SubscriptionStatus
    <3>2. CASE x.type = "subscription"
      BY <1>2, <3>2 DEF Raises
    <3> QED
      BY <3>1, <3>2
  <2>6. canceled \in BOOLEAN
    OBVIOUS
  <2>7. HandleSubscription(d, x) = w
    BY <1>2 DEF HandleSubscription
  <2> HIDE DEF t, status, canceled
  <2>8. w \in BillTables /\ Touched(d, w, x.sub, billNow)
    BY <2>1, <2>4, <2>5, <2>6, UpsertTouches
  <2> QED
    BY <2>1, <2>7, <2>8 DEF Outcome
<1> QED
  BY <1>1, <1>2

\* _handle_invoice_event.
LEMMA InvoiceOutcome ==
  ASSUME NEW d \in BillTables, Vacant(d), NEW e \in Events, billNow \in 1 .. MaxBillTime,
         Event[e].type \in InvoiceEvents
  PROVE  /\ HandleInvoice(d, Event[e]) \in BillTables
         /\ Outcome(d, HandleInvoice(d, Event[e]), billNow)
<1> DEFINE x == Event[e]
           owner == ResolveTenant(d, x.cust)
           t == CHOOSE u \in owner : TRUE
           status == StatusOf(x)
           with == UpsertInvoice(d, t, x.inv, status)
           known == x.sub # "none" /\ d.sub[x.sub].tenant # "none"
           Moves(to) == TransitionStatus(with, x.sub, to)
<1>0. HandleInvoice(d, x) = IF x.inv = "none" \/ owner = {} THEN d
                            ELSE IF known /\ x.type = "invoice.paid" THEN Moves("active")
                            ELSE IF known /\ x.type = "invoice.failed" THEN Moves("past_due")
                            ELSE with
  BY DEF HandleInvoice
<1>1. CASE x.inv = "none" \/ owner = {}
  <2>1. HandleInvoice(d, x) = d
    BY <1>0, <1>1
  <2> QED
    BY <2>1 DEF Outcome, Untouched
<1>2. CASE x.inv # "none" /\ owner # {}
  <2>1. x.inv \in Invoices /\ status \in InvoiceStatus
    BY <1>2, EventFields
  <2>2. t \in Tenants
    BY <1>2 DEF ResolveTenant
  <2> HIDE DEF owner, t, status
  <2>3. with \in BillTables /\ with.sub = d.sub /\ with.active = d.active
    <3>1. d.inv[x.inv] \in InvoiceRow
      BY <2>1 DEF BillTables
    <3> DEFINE row == [tenant |-> IF d.inv[x.inv].tenant = "none" THEN t ELSE d.inv[x.inv].tenant,
                       status |-> status, paidAt |-> d.inv[x.inv].paidAt \/ status = "paid"]
    <3>2. row \in InvoiceRow
      BY <2>1, <2>2, <3>1 DEF InvoiceRow
    <3>3. with = WithInvoice(d, x.inv, row)
      BY DEF UpsertInvoice
    <3> HIDE DEF row, with
    <3> QED
      BY <2>1, <3>2, <3>3, OneRow DEF WithInvoice
  <2> HIDE DEF with
  <2>4. ASSUME known, NEW to \in SubscriptionStatus
        PROVE  x.sub \in Subs /\ Moves(to) \in BillTables /\ Touched(d, Moves(to), x.sub, billNow)
    <3>1. x.sub \in Subs
      BY <2>4, EventFields
    <3>2. with.sub[x.sub].tenant \in Tenants
      BY <2>3, <2>4, <3>1 DEF BillTables, BillSubRow
    <3>3. Moves(to) \in BillTables /\ Touched(with, Moves(to), x.sub, billNow)
      BY <2>3, <3>1, <3>2, TransitionTouches
    <3> HIDE DEF Moves
    <3> QED
      BY <2>3, <3>1, <3>3 DEF Touched
  <2>5. "active" \in SubscriptionStatus /\ "past_due" \in SubscriptionStatus
    BY DEF SubscriptionStatus
  <2>6. CASE known /\ x.type = "invoice.paid"
    <3>1. HandleInvoice(d, x) = Moves("active")
      BY <1>0, <1>2, <2>6
    <3> QED
      BY <2>4, <2>5, <2>6, <3>1 DEF Outcome
  <2>7. CASE known /\ x.type = "invoice.failed"
    <3>1. HandleInvoice(d, x) = Moves("past_due")
      BY <1>0, <1>2, <2>7
    <3> QED
      BY <2>4, <2>5, <2>7, <3>1 DEF Outcome
  <2>8. CASE ~(known /\ x.type \in {"invoice.paid", "invoice.failed"})
    <3>1. HandleInvoice(d, x) = with
      BY <1>0, <1>2, <2>8
    <3> QED
      BY <2>3, <3>1 DEF Outcome, Untouched
  <2> QED
    BY <2>6, <2>7, <2>8
<1> QED
  BY <1>1, <1>2

\* Every handler works on one subscription or on none.
LEMMA DispatchOutcome ==
  ASSUME NEW d \in BillTables, Vacant(d), NEW e \in Events, billNow \in 1 .. MaxBillTime,
         ~Raises(d, Event[e])
  PROVE  /\ Dispatch(d, Event[e]) \in BillTables
         /\ Outcome(d, Dispatch(d, Event[e]), billNow)
<1> DEFINE x == Event[e]
<1>1. CASE x.type = "checkout"
  BY <1>1, CheckoutOutcome DEF Dispatch
<1>2. CASE x.type \in {"subscription", "deleted"}
  BY <1>2, SubscriptionOutcome DEF Dispatch
<1>3. CASE x.type \in InvoiceEvents
  BY <1>3, InvoiceOutcome DEF Dispatch, InvoiceEvents
<1>4. CASE x.type = "customer.updated"
  <2> DEFINE w == HandleCustomerUpdated(d, x)
  <2>1. Dispatch(d, x) = w
    BY <1>4 DEF Dispatch, InvoiceEvents
  <2>2. [id |-> x.cust, email |-> x.email] \in CustomerRow
    BY DEF CustomerRow
  <2>3. w.cust \in [Tenants -> CustomerRow]
    BY <2>2 DEF HandleCustomerUpdated, BillTables
  <2>4. w.sub = d.sub /\ w.inv = d.inv /\ w.active = d.active
    BY DEF HandleCustomerUpdated
  <2>5. w \in BillTables
    BY <2>3 DEF HandleCustomerUpdated, BillTables
  <2> QED
    BY <2>1, <2>4, <2>5 DEF Outcome, Untouched
<1>5. CASE x.type \notin {"checkout", "subscription", "deleted", "customer.updated"} \cup InvoiceEvents
  <2>1. Dispatch(d, x) = d
    BY <1>5 DEF Dispatch
  <2> QED
    BY <2>1 DEF Outcome, Untouched
<1> QED
  BY <1>1, <1>2, <1>3, <1>4, <1>5

\* apply_grace_period: the newest subscription is one of the tenant's.
LEMMA NewestIsOne ==
  ASSUME NEW d \in BillTables, NEW t \in Tenants, NewestSub(d, t) # "none"
  PROVE  NewestSub(d, t) \in Subs /\ d.sub[NewestSub(d, t)].tenant = t
<1> DEFINE mine == {s \in Subs : d.sub[s].tenant = t}
           top == 1 + Cardinality(Subs)
           U == {top - d.sub[s].born : s \in mine}
<1>1. mine # {}
  BY DEF NewestSub
<1>2. \A s \in mine : d.sub[s].born \in 0 .. top
  BY DEF BillTables, BillSubRow
<1>3. top \in Nat
  BY SubsFinite
<1> HIDE DEF top, mine
<1>4. U \subseteq Nat /\ U # {}
  BY <1>1, <1>2, <1>3
<1>5. \E m \in U : \A k \in U : ~(<<k, m>> \in OpToRel(<, Nat))
  <2> HIDE DEF U
  <2> QED
    BY <1>4, WFMin, NatLessThanWellFounded, Zenon
<1>6. PICK m \in U : \A k \in U : m <= k
  <2>1. PICK m \in U : \A k \in U : ~(<<k, m>> \in OpToRel(<, Nat))
    BY <1>5
  <2>2. \A k \in U : ~(k < m)
    BY <1>4, <2>1 DEF OpToRel
  <2> HIDE DEF U
  <2> QED
    BY <1>4, <2>2
<1>7. PICK s \in mine : m = top - d.sub[s].born
  BY <1>6
<1>8. \A r \in mine : d.sub[r].born <= d.sub[s].born
  <2> SUFFICES ASSUME NEW r \in mine PROVE d.sub[r].born <= d.sub[s].born
    OBVIOUS
  <2>1. m <= top - d.sub[r].born
    BY <1>6
  <2> HIDE DEF U
  <2> QED
    BY <1>2, <1>3, <1>7, <2>1
<1>9. NewestSub(d, t) \in mine
  BY <1>1, <1>8 DEF NewestSub, mine
<1> QED
  BY <1>9 DEF mine

-----------------------------------------------------------------------------
(* Transactions *)

\* What the handlers keep of the tables.
Clocked(d, f) ==
  \A s \in Subs : /\ d.sub[s].status = "past_due" => d.sub[s].since = f[s] /\ f[s] # 0
                  /\ d.sub[s].status = "active" => d.sub[s].since = 0
Owned(d, t) == {s \in Subs : d.sub[s].tenant = t}
Opened(d) ==
  \A t \in Tenants :
    /\ Owned(d, t) # {} /\ (\A s \in Owned(d, t) : d.sub[s].status = "canceled") => ~d.active[t]
    /\ Owned(d, t) # {} /\ (\A s \in Owned(d, t) : d.sub[s].status = "active") /\ Cardinality(Owned(d, t)) = 1
         => d.active[t]

LEMMA BillParts ==
  /\ ClockFromFirstFailure <=> (~overlapped => Clocked(tables, fell))
  /\ GateFollowsStatus <=> (~overlapped => Opened(tables))
<1>1. ClockFromFirstFailure <=> (~overlapped => Clocked(tables, fell))
  BY DEF ClockFromFirstFailure, Clocked
<1>2. GateFollowsStatus <=> (~overlapped => Opened(tables))
  BY DEF GateFollowsStatus, Opened, Owned
<1> QED
  BY <1>1, <1>2

LEMMA GateKept ==
  ASSUME GateFollowsStatus, tables' = tables, overlapped => overlapped'
  PROVE  GateFollowsStatus'
<1>1. ~overlapped => Opened(tables)
  BY BillParts
<1>2. GateFollowsStatus' <=> (~overlapped' => Opened(tables'))
  BY DEF GateFollowsStatus, Opened, Owned
<1> QED
  BY <1>1, <1>2

\* Handler h opens a transaction.
LEMMA OpensKeeps ==
  ASSUME BillInv, NEW h \in BillHandlers, NEW event \in Events \cup {"none"},
         NEW wanted \in BillTables, Outcome(tables, wanted, billNow), Opens(h, event, wanted),
         event # "none" => /\ event \in sent \ ledger /\ Event[event].signed
                           /\ \A g \in BillHandlers : tx[g].open => tx[g].event # event,
         UNCHANGED <<sent, tables, ledger, acked, opened, billNow, applied, fell>>
  PROVE  BillInv'
<1> DEFINE m == [open |-> TRUE, event |-> event, day |-> billNow, read |-> tables, wanted |-> wanted]
<1>1. /\ BillTypes /\ Vacant(tables) /\ OneClaim /\ Unmixed
      /\ \A g \in BillHandlers : tx[g].open => Claimed(g)
      /\ LedgerExact /\ ClockFromFirstFailure /\ GateFollowsStatus
  BY DEF BillInv
<1>2. m \in OpenTx
  BY <1>1 DEF OpenTx, BillTypes
<1>3. /\ tx' \in [BillHandlers -> {Closed} \cup OpenTx]
      /\ tx'[h] = m /\ \A g \in BillHandlers \ {h} : tx'[g] = tx[g]
      /\ ~tx[h].open
  BY <1>1, <1>2 DEF Opens, BillTypes
<1>4. /\ tx'[h].open = TRUE /\ tx'[h].event = event /\ tx'[h].day = billNow
      /\ tx'[h].read = tables /\ tx'[h].wanted = wanted
  BY <1>3
<1> HIDE DEF m
<1>5. /\ overlapped' \in BOOLEAN
      /\ ~overlapped' => ~overlapped /\ \A g \in BillHandlers : ~tx[g].open
  BY <1>1 DEF Opens, BillTypes
<1>6. BillTypes'
  BY <1>1, <1>3, <1>5 DEF BillTypes
<1>7. Vacant(tables)'
  BY <1>1 DEF Vacant
<1>8. ASSUME NEW g \in BillHandlers, tx'[g].open PROVE Claimed(g)'
  <2>1. CASE g = h
    <3>1. Vacant(wanted) /\ \A s \in Subs : tables.sub[s].tenant # "none" => wanted.sub[s].tenant # "none"
      BY <1>1, OutcomeVacant DEF BillTypes
    <3> QED
      BY <1>1, <1>4, <2>1, <3>1 DEF Claimed, Vacant
  <2>2. CASE g # h
    <3>1. tx'[g] = tx[g] /\ Claimed(g)
      BY <1>1, <1>3, <1>8, <2>2
    <3> QED
      BY <3>1 DEF Claimed, Vacant
  <2> QED
    BY <2>1, <2>2
<1>9. OneClaim'
  BY <1>1, <1>3, <1>4 DEF OneClaim
<1>10. Unmixed'
  <2> SUFFICES ASSUME ~overlapped'
               PROVE  /\ \A g, k \in BillHandlers : tx'[g].open /\ tx'[k].open => g = k
                      /\ \A k \in BillHandlers : tx'[k].open =>
                           tx'[k].read = tables' /\ Outcome(tables', tx'[k].wanted, tx'[k].day)
    BY DEF Unmixed
  <2>1. \A k \in BillHandlers : tx'[k].open => k = h
    BY <1>3, <1>5
  <2>2. tables' = tables /\ Outcome(tables', tx'[h].wanted, tx'[h].day)
    BY <1>4
  <2> QED
    BY <1>4, <2>1, <2>2
<1>11. LedgerExact' /\ ClockFromFirstFailure' /\ GateFollowsStatus'
  <2>1. LedgerExact'
    BY <1>1, <1>5 DEF LedgerExact
  <2>2. ClockFromFirstFailure'
    BY <1>1, <1>5 DEF ClockFromFirstFailure
  <2>3. GateFollowsStatus'
    <3>1. overlapped => overlapped'
      BY <1>5
    <3> QED
      BY <1>1, <3>1, GateKept
  <2> QED
    BY <2>1, <2>2, <2>3
<1> QED
  BY <1>6, <1>7, <1>8, <1>9, <1>10, <1>11 DEF BillInv

LEMMA WebhookKeeps ==
  ASSUME BillInv, NEW h \in BillHandlers, NEW e \in sent, ReceiveWebhook(h, e)
  PROVE  BillInv'
<1>1. e \in Events /\ tables \in BillTables /\ Vacant(tables) /\ billNow \in 1 .. MaxBillTime
  BY DEF BillInv, BillTypes
<1>2. Dispatch(tables, Event[e]) \in BillTables /\ Outcome(tables, Dispatch(tables, Event[e]), billNow)
  BY <1>1, DispatchOutcome DEF ReceiveWebhook
<1>3. /\ e \in sent \ ledger /\ Event[e].signed
      /\ \A g \in BillHandlers : tx[g].open => tx[g].event # e
  BY DEF ReceiveWebhook, Claims, VerifySignature
<1>4. /\ Opens(h, e, Dispatch(tables, Event[e]))
      /\ UNCHANGED <<sent, tables, ledger, acked, opened, billNow, applied, fell>>
  BY DEF ReceiveWebhook
<1> QED
  BY <1>1, <1>2, <1>3, <1>4, OpensKeeps

LEMMA GraceKeeps ==
  ASSUME BillInv, NEW h \in BillHandlers, NEW t \in Tenants, GetSubscription(h, t)
  PROVE  BillInv'
<1> DEFINE s == NewestSub(tables, t)
           w == TransitionStatus(tables, s, "unpaid")
<1>1. tables \in BillTables /\ Vacant(tables) /\ billNow \in 1 .. MaxBillTime
  BY DEF BillInv, BillTypes
<1>2. s \in Subs /\ tables.sub[s].tenant \in Tenants
  BY <1>1, NewestIsOne DEF GetSubscription, Lapses
<1>3. Opens(h, "none", w) /\ UNCHANGED <<sent, tables, ledger, acked, opened, billNow, applied, fell>>
  BY DEF GetSubscription
<1> HIDE DEF s
<1>4. w \in BillTables /\ Outcome(tables, w, billNow)
  <2>1. "unpaid" \in SubscriptionStatus
    BY DEF SubscriptionStatus
  <2> QED
    BY <1>1, <1>2, <2>1, TransitionTouches DEF Outcome
<1> QED
  BY <1>3, <1>4, OpensKeeps

LEMMA ClockedAfter ==
  ASSUME NEW d \in BillTables, NEW w \in BillTables, NEW day \in 1 .. MaxBillTime, NEW f, Clocked(d, f),
         Outcome(d, w, day)
  PROVE  Clocked(w, [s \in Subs |-> IF w.sub[s].status = "past_due" /\ d.sub[s].status # "past_due"
                                    THEN day ELSE f[s]])
<1> SUFFICES ASSUME NEW s \in Subs,
                    NEW g, g = IF w.sub[s].status = "past_due" /\ d.sub[s].status # "past_due" THEN day ELSE f[s]
             PROVE  /\ w.sub[s].status = "past_due" => w.sub[s].since = g /\ g # 0
                    /\ w.sub[s].status = "active" => w.sub[s].since = 0
  BY DEF Clocked
<1>1. day # 0
  BY BillConstants
<1>2. CASE w.sub[s] = d.sub[s]
  BY <1>1, <1>2 DEF Clocked
<1>3. CASE Touched(d, w, s, day)
  BY <1>1, <1>3 DEF Clocked, Touched
<1>4. w.sub[s] = d.sub[s] \/ Touched(d, w, s, day)
  BY DEF Outcome, Untouched, Touched
<1> QED
  BY <1>2, <1>3, <1>4

LEMMA OpenedAfter ==
  ASSUME NEW d \in BillTables, NEW w \in BillTables, NEW day, Vacant(d), Opened(d), Outcome(d, w, day)
  PROVE  Opened(w)
<1> SUFFICES ASSUME NEW t \in Tenants, Owned(w, t) # {}
             PROVE  /\ (\A s \in Owned(w, t) : w.sub[s].status = "canceled") => ~w.active[t]
                    /\ (\A s \in Owned(w, t) : w.sub[s].status = "active") /\ Cardinality(Owned(w, t)) = 1
                         => w.active[t]
  BY DEF Opened
<1>1. ASSUME Owned(w, t) = Owned(d, t), \A s \in Owned(d, t) : w.sub[s] = d.sub[s], w.active[t] = d.active[t]
      PROVE  /\ (\A s \in Owned(w, t) : w.sub[s].status = "canceled") => ~w.active[t]
             /\ (\A s \in Owned(w, t) : w.sub[s].status = "active") /\ Cardinality(Owned(w, t)) = 1
                  => w.active[t]
  BY <1>1 DEF Opened
<1>2. CASE Untouched(d, w)
  <2>1. Owned(w, t) = Owned(d, t)
    BY <1>2 DEF Untouched, Owned
  <2> QED
    BY <1>1, <1>2, <2>1 DEF Untouched
<1>3. CASE \E s \in Subs : Touched(d, w, s, day)
  <2>1. PICK s \in Subs : Touched(d, w, s, day)
    BY <1>3
  <2>2. CASE w.sub[s].tenant = t
    <3>1. s \in Owned(w, t)
      BY <2>2 DEF Owned
    <3> QED
      BY <2>1, <2>2, <3>1 DEF Touched
  <2>3. CASE w.sub[s].tenant # t
    <3>1. d.sub[s].tenant # t
      BY <2>1, <2>3, BillConstants DEF Touched
    <3>2. \A r \in Subs \ {s} : w.sub[r] = d.sub[r]
      BY <2>1 DEF Touched
    <3>3. Owned(w, t) = Owned(d, t) /\ s \notin Owned(d, t)
      BY <2>3, <3>1, <3>2 DEF Owned
    <3>4. w.active[t] = d.active[t]
      BY <2>1, <2>3 DEF Touched
    <3>5. \A r \in Owned(d, t) : w.sub[r] = d.sub[r]
      BY <3>2, <3>3 DEF Owned
    <3> QED
      BY <1>1, <3>3, <3>4, <3>5
  <2> QED
    BY <2>2, <2>3
<1> QED
  BY <1>2, <1>3 DEF Outcome

\* What a commit leaves in the columns of a row.
WrittenOver(m, now, read, wanted) ==
  /\ m \in BillTables
  /\ \A s \in Subs : m.sub[s].tenant =
        IF wanted.sub[s].tenant # read.sub[s].tenant THEN wanted.sub[s].tenant ELSE now.sub[s].tenant
  /\ \A s \in Subs : wanted.sub[s] = read.sub[s] => m.sub[s] = now.sub[s]

LEMMA MergedRows ==
  ASSUME NEW now \in BillTables, NEW read \in BillTables, NEW wanted \in BillTables
  PROVE  WrittenOver(Merged(now, read, wanted), now, read, wanted)
<1> DEFINE m == Merged(now, read, wanted)
<1>1. ASSUME NEW t \in Tenants PROVE m.cust[t] \in CustomerRow
  <2>1. now.cust[t] \in CustomerRow /\ wanted.cust[t] \in CustomerRow
    BY DEF BillTables
  <2> QED
    BY <2>1 DEF Merged, Column, CustomerRow
<1>2. ASSUME NEW s \in Subs
      PROVE  /\ m.sub[s] \in BillSubRow
             /\ m.sub[s].tenant = IF wanted.sub[s].tenant # read.sub[s].tenant
                                  THEN wanted.sub[s].tenant ELSE now.sub[s].tenant
             /\ wanted.sub[s] = read.sub[s] => m.sub[s] = now.sub[s]
  <2>1. now.sub[s] \in BillSubRow /\ wanted.sub[s] \in BillSubRow
    BY DEF BillTables
  <2> DEFINE C(f) == Column(now.sub[s][f], read.sub[s][f], wanted.sub[s][f])
  <2>2. m.sub[s] = [tenant |-> C("tenant"), status |-> C("status"), since |-> C("since"),
                    canceled |-> C("canceled"), setup |-> C("setup"), born |-> C("born")]
    BY DEF Merged
  <2>3. /\ C("tenant") \in Tenants \cup {"none"} /\ C("status") \in SubscriptionStatus
        /\ C("since") \in 0 .. MaxBillTime /\ C("canceled") \in BOOLEAN
        /\ C("setup") \in BOOLEAN /\ C("born") \in 0 .. (1 + Cardinality(Subs))
    BY <2>1 DEF Column, BillSubRow
  <2>4. C("tenant") = IF wanted.sub[s].tenant # read.sub[s].tenant THEN wanted.sub[s].tenant ELSE now.sub[s].tenant
    BY DEF Column
  <2>5. ASSUME wanted.sub[s] = read.sub[s]
        PROVE  m.sub[s] = [tenant |-> now.sub[s].tenant, status |-> now.sub[s].status,
                           since |-> now.sub[s].since, canceled |-> now.sub[s].canceled,
                           setup |-> now.sub[s].setup, born |-> now.sub[s].born]
    BY <2>2, <2>5 DEF Column
  <2>6. now.sub[s] = [tenant |-> now.sub[s].tenant, status |-> now.sub[s].status,
                      since |-> now.sub[s].since, canceled |-> now.sub[s].canceled,
                      setup |-> now.sub[s].setup, born |-> now.sub[s].born]
    BY <2>1 DEF BillSubRow
  <2> HIDE DEF C, m
  <2> QED
    BY <2>2, <2>3, <2>4, <2>5, <2>6 DEF BillSubRow
<1>3. ASSUME NEW i \in Invoices PROVE m.inv[i] \in InvoiceRow
  <2>1. now.inv[i] \in InvoiceRow /\ wanted.inv[i] \in InvoiceRow
    BY DEF BillTables
  <2> QED
    BY <2>1 DEF Merged, Column, InvoiceRow
<1>4. m.active \in [Tenants -> BOOLEAN]
  BY DEF Merged, Column, BillTables
<1>5. /\ m = [cust |-> m.cust, sub |-> m.sub, inv |-> m.inv, active |-> m.active]
      /\ m.cust = [t \in Tenants |-> m.cust[t]]
      /\ m.sub = [s \in Subs |-> m.sub[s]]
      /\ m.inv = [i \in Invoices |-> m.inv[i]]
  BY DEF Merged
<1> HIDE DEF m
<1>6. m \in BillTables
  BY <1>1, <1>2, <1>3, <1>4, <1>5 DEF BillTables
<1> QED
  BY <1>2, <1>6 DEF m, WrittenOver

\* A transaction that overlapped with none writes what it wants.
LEMMA MergedAlone ==
  ASSUME NEW now \in BillTables, NEW wanted \in BillTables
  PROVE  /\ Merged(now, now, wanted).sub = wanted.sub
         /\ Merged(now, now, wanted).active = wanted.active
<1> DEFINE m == Merged(now, now, wanted)
<1>1. ASSUME NEW s \in Subs PROVE m.sub[s] = wanted.sub[s]
  <2>1. wanted.sub[s] \in BillSubRow
    BY DEF BillTables
  <2>2. wanted.sub[s] = [tenant |-> wanted.sub[s].tenant, status |-> wanted.sub[s].status,
                      since |-> wanted.sub[s].since, canceled |-> wanted.sub[s].canceled,
                      setup |-> wanted.sub[s].setup, born |-> wanted.sub[s].born]
    BY <2>1 DEF BillSubRow
  <2>3. m.sub[s] = [tenant |-> wanted.sub[s].tenant, status |-> wanted.sub[s].status,
                    since |-> wanted.sub[s].since, canceled |-> wanted.sub[s].canceled,
                    setup |-> wanted.sub[s].setup, born |-> wanted.sub[s].born]
    BY DEF Merged, Column
  <2> QED
    BY <2>2, <2>3
<1>2. ASSUME NEW t \in Tenants PROVE m.active[t] = wanted.active[t]
  BY DEF Merged, Column
<1>3. /\ m.sub = [s \in Subs |-> m.sub[s]] /\ m.active = [t \in Tenants |-> m.active[t]]
  BY DEF Merged
<1>4. wanted.sub \in [Subs -> BillSubRow] /\ wanted.active \in [Tenants -> BOOLEAN]
  BY DEF BillTables
<1> HIDE DEF m
<1>5. m.sub = wanted.sub /\ m.active = wanted.active
  BY <1>1, <1>2, <1>3, <1>4
<1> QED
  BY <1>5 DEF m

\* The transaction of handler h is over: its commit or its rollback.
LEMMA ClosedOne ==
  ASSUME BillTypes, NEW h \in BillHandlers, tx' = [tx EXCEPT ![h] = Closed]
  PROVE  /\ tx' \in [BillHandlers -> {Closed} \cup OpenTx]
         /\ tx'[h].open = FALSE /\ \A g \in BillHandlers \ {h} : tx'[g] = tx[g]
<1>1. tx' \in [BillHandlers -> {Closed} \cup OpenTx]
  BY DEF BillTypes
<1>2. tx'[h] = Closed /\ \A g \in BillHandlers \ {h} : tx'[g] = tx[g]
  BY DEF BillTypes
<1> QED
  BY <1>1, <1>2 DEF Closed

LEMMA RollbackKeeps ==
  ASSUME BillInv, NEW h \in BillHandlers, RollsBack(h)
  PROVE  BillInv'
<1>0. /\ BillTypes /\ Vacant(tables) /\ OneClaim /\ Unmixed
      /\ \A g \in BillHandlers : tx[g].open => Claimed(g)
      /\ LedgerExact /\ ClockFromFirstFailure /\ GateFollowsStatus
  BY DEF BillInv
<1>1. UNCHANGED <<sent, tables, ledger, acked, opened, billNow, applied, fell, overlapped>>
  BY DEF RollsBack
<1>2. /\ tx' \in [BillHandlers -> {Closed} \cup OpenTx]
      /\ tx'[h].open = FALSE /\ \A g \in BillHandlers \ {h} : tx'[g] = tx[g]
  BY <1>0, ClosedOne DEF RollsBack
<1>3. BillTypes'
  BY <1>0, <1>1, <1>2 DEF BillTypes
<1>4. Vacant(tables)'
  BY <1>0, <1>1 DEF Vacant
<1>5. ASSUME NEW g \in BillHandlers, tx'[g].open PROVE Claimed(g)'
  <2>1. tx'[g] = tx[g] /\ Claimed(g)
    BY <1>0, <1>2, <1>5
  <2> QED
    BY <1>1, <2>1 DEF Claimed, Vacant
<1>6. OneClaim'
  BY <1>0, <1>2 DEF OneClaim
<1>7. Unmixed'
  <2> SUFFICES ASSUME ~overlapped'
               PROVE  /\ \A g, k \in BillHandlers : tx'[g].open /\ tx'[k].open => g = k
                      /\ \A k \in BillHandlers : tx'[k].open =>
                           tx'[k].read = tables' /\ Outcome(tables', tx'[k].wanted, tx'[k].day)
    BY DEF Unmixed
  <2>1. \A k \in BillHandlers : tx'[k].open => tx'[k] = tx[k] /\ tx[k].open
    BY <1>2
  <2> QED
    BY <1>0, <1>1, <2>1 DEF Unmixed
<1>8. LedgerExact' /\ ClockFromFirstFailure' /\ GateFollowsStatus'
  <2>1. LedgerExact'
    BY <1>0, <1>1 DEF LedgerExact
  <2>2. ClockFromFirstFailure'
    BY <1>0, <1>1 DEF ClockFromFirstFailure
  <2>3. GateFollowsStatus'
    BY <1>0, <1>1, GateKept
  <2> QED
    BY <2>1, <2>2, <2>3
<1> QED
  BY <1>3, <1>4, <1>5, <1>6, <1>7, <1>8 DEF BillInv

LEMMA SameOutcome ==
  ASSUME NEW d, NEW w, NEW v, NEW day, Outcome(d, w, day), v.sub = w.sub, v.active = w.active
  PROVE  Outcome(d, v, day)
<1>1. CASE Untouched(d, w)
  BY <1>1 DEF Outcome, Untouched
<1>2. CASE \E s \in Subs : Touched(d, w, s, day)
  <2>1. PICK s \in Subs : Touched(d, w, s, day)
    BY <1>2
  <2>2. Touched(d, v, s, day)
    BY <2>1 DEF Touched
  <2> QED
    BY <2>2 DEF Outcome
<1> QED
  BY <1>1, <1>2 DEF Outcome

LEMMA CommitKeeps ==
  ASSUME BillInv, NEW h \in BillHandlers, Commits(h)
  PROVE  BillInv'
<1>0. /\ BillTypes /\ Vacant(tables) /\ OneClaim /\ Unmixed
      /\ \A g \in BillHandlers : tx[g].open => Claimed(g)
      /\ LedgerExact /\ ClockFromFirstFailure /\ GateFollowsStatus
  BY DEF BillInv
<1> DEFINE ev == tx[h].event
           r == tx[h].read
           w == tx[h].wanted
           m == Merged(tables, r, w)
<1>1. /\ tx[h].open /\ tx[h] \in OpenTx /\ Claimed(h)
      /\ tables \in BillTables /\ r \in BillTables /\ w \in BillTables
      /\ tx[h].day \in 1 .. MaxBillTime /\ ev \in Events \cup {"none"}
  <2>1. tx[h].open /\ Claimed(h)
    BY <1>0 DEF Commits
  <2>2. tx[h] \in OpenTx
    BY <1>0, <2>1 DEF BillTypes, Closed
  <2> QED
    BY <1>0, <2>1, <2>2 DEF OpenTx, BillTypes
<1>2. /\ tables' = m /\ UNCHANGED <<sent, opened, billNow, overlapped>>
      /\ ~Conflict(tables, r, w)
  BY DEF Commits
<1>3. /\ tx' \in [BillHandlers -> {Closed} \cup OpenTx]
      /\ tx'[h].open = FALSE /\ \A g \in BillHandlers \ {h} : tx'[g] = tx[g]
  BY <1>0, ClosedOne DEF Commits
<1>4. /\ m \in BillTables
      /\ \A s \in Subs : m.sub[s].tenant =
            IF w.sub[s].tenant # r.sub[s].tenant THEN w.sub[s].tenant ELSE tables.sub[s].tenant
      /\ \A s \in Subs : w.sub[s] = r.sub[s] => m.sub[s] = tables.sub[s]
  <2>1. WrittenOver(m, tables, r, w)
    BY <1>1, MergedRows
  <2> HIDE DEF m, r, w
  <2> QED
    BY <2>1 DEF WrittenOver
<1>5. \A s \in Subs : tables.sub[s].tenant # "none" => m.sub[s].tenant # "none"
  <2> SUFFICES ASSUME NEW s \in Subs, tables.sub[s].tenant # "none" PROVE m.sub[s].tenant # "none"
    OBVIOUS
  <2>1. CASE r.sub[s].tenant = "none"
    <3>1. w.sub[s].tenant = "none"
      BY <1>2, <2>1 DEF Conflict
    <3> QED
      BY <1>4, <2>1, <3>1
  <2>2. CASE r.sub[s].tenant # "none"
    <3>1. w.sub[s].tenant # "none"
      BY <1>1, <2>2 DEF Claimed
    <3> QED
      BY <1>4, <3>1
  <2> QED
    BY <2>1, <2>2
<1>6. Vacant(m)
  <2> SUFFICES ASSUME NEW s \in Subs, m.sub[s].tenant = "none" PROVE m.sub[s] = NoSub
    BY DEF Vacant
  <2>1. tables.sub[s].tenant = "none"
    BY <1>5
  <2>2. tables.sub[s] = NoSub
    BY <1>0, <2>1 DEF Vacant
  <2>3. r.sub[s].tenant = "none"
    BY <1>1, <2>1 DEF Claimed
  <2>4. w.sub[s].tenant = "none"
    BY <1>4, <2>3
  <2>5. r.sub[s] = NoSub /\ w.sub[s] = NoSub
    BY <1>1, <2>3, <2>4 DEF Claimed, Vacant
  <2> QED
    BY <1>4, <2>2, <2>5
<1> HIDE DEF m
<1>7. ev # "none" => /\ ev \in sent \ ledger /\ Event[ev].signed /\ ledger' = ledger \cup {ev}
                     /\ applied' = [applied EXCEPT ![ev] = @ + 1]
                     /\ acked' \in {acked, acked \cup {ev}}
  BY <1>1 DEF Commits, Claimed
<1>8. ev = "none" => UNCHANGED <<ledger, acked, applied>>
  BY DEF Commits
<1>9. fell' = [s \in Subs |-> IF m.sub[s].status = "past_due" /\ tables.sub[s].status # "past_due"
                              THEN tx[h].day ELSE fell[s]]
  BY <1>2 DEF Commits
<1>10. BillTypes'
  <2>1. ledger' \subseteq sent' /\ acked' \subseteq ledger'
    BY <1>0, <1>2, <1>7, <1>8 DEF BillTypes
  <2>2. applied' \in [Events -> Nat]
    BY <1>0, <1>1, <1>7, <1>8 DEF BillTypes
  <2>3. fell' \in [Subs -> Nat]
    <3>1. tx[h].day \in Nat
      BY <1>1, BillConstants
    <3> QED
      BY <1>0, <1>9, <3>1 DEF BillTypes
  <2> QED
    BY <1>0, <1>2, <1>3, <1>4, <2>1, <2>2, <2>3 DEF BillTypes
<1>11. Vacant(tables)'
  BY <1>2, <1>6 DEF Vacant
<1>12. ASSUME NEW g \in BillHandlers, tx'[g].open PROVE Claimed(g)'
  <2>1. g # h /\ tx'[g] = tx[g] /\ tx[g].open /\ Claimed(g)
    BY <1>0, <1>3, <1>12
  <2>2. \A s \in Subs : tx[g].read.sub[s].tenant # "none" => m.sub[s].tenant # "none"
    BY <1>5, <2>1 DEF Claimed
  <2>3. tx[g].event # "none" => tx[g].event \in sent' \ ledger'
    BY <1>0, <1>1, <1>2, <1>7, <1>8, <2>1 DEF Claimed, OneClaim
  <2> QED
    BY <1>2, <2>1, <2>2, <2>3 DEF Claimed, Vacant
<1>13. OneClaim'
  BY <1>0, <1>3 DEF OneClaim
<1>14. Unmixed'
  <2> SUFFICES ASSUME ~overlapped' PROVE \A k \in BillHandlers : ~tx'[k].open
    BY DEF Unmixed
  <2> QED
    BY <1>0, <1>1, <1>2, <1>3 DEF Unmixed
<1>15. LedgerExact'
  <2>1. CASE ev = "none"
    BY <1>0, <1>8, <2>1 DEF LedgerExact
  <2>2. CASE ev # "none"
    <3> SUFFICES ASSUME NEW e \in Events
                 PROVE  applied'[e] = IF e \in ledger' /\ Event[e].signed THEN 1 ELSE 0
      BY DEF LedgerExact
    <3>1. applied[e] = IF e \in ledger /\ Event[e].signed THEN 1 ELSE 0
      BY <1>0 DEF LedgerExact
    <3>2. applied'[e] = IF e = ev THEN applied[e] + 1 ELSE applied[e]
      BY <1>0, <1>7, <2>2 DEF BillTypes
    <3>3. CASE e = ev
      BY <1>7, <2>2, <3>1, <3>2, <3>3
    <3>4. CASE e # ev
      BY <1>7, <2>2, <3>1, <3>2, <3>4
    <3> QED
      BY <3>3, <3>4
  <2> QED
    BY <2>1, <2>2
<1>16. ClockFromFirstFailure' /\ GateFollowsStatus'
  <2> SUFFICES ASSUME ~overlapped PROVE Clocked(m, fell') /\ Opened(m)
    <3>1. /\ ClockFromFirstFailure' <=> (~overlapped' => Clocked(tables', fell'))
          /\ GateFollowsStatus' <=> (~overlapped' => Opened(tables'))
      BY DEF ClockFromFirstFailure, Clocked, GateFollowsStatus, Opened, Owned
    <3> QED
      BY <1>2, <3>1
  <2>1. r = tables /\ Outcome(tables, w, tx[h].day)
    BY <1>0, <1>1 DEF Unmixed
  <2>2. m.sub = w.sub /\ m.active = w.active
    <3> SUFFICES ASSUME NEW a, a = tables, NEW c, c = w
                 PROVE  Merged(a, a, c).sub = c.sub /\ Merged(a, a, c).active = c.active
      BY <2>1 DEF m
    <3>1. a \in BillTables /\ c \in BillTables
      BY <1>1
    <3> QED
      BY <3>1, MergedAlone
  <2>3. Outcome(tables, m, tx[h].day)
    BY <2>1, <2>2, SameOutcome
  <2>4. Clocked(tables, fell) /\ Opened(tables)
    BY <1>0, BillParts
  <2>5. Clocked(m, fell')
    BY <1>1, <1>4, <1>9, <2>3, <2>4, ClockedAfter
  <2>6. Opened(m)
    BY <1>0, <1>1, <1>4, <2>3, <2>4, OpenedAfter
  <2> QED
    BY <2>5, <2>6
<1> QED
  BY <1>10, <1>11, <1>12, <1>13, <1>14, <1>15, <1>16 DEF BillInv

\* The steps that leave the tables and the transactions alone.
LEMMA BillQuiet ==
  ASSUME BillInv, UNCHANGED <<sent, tables, ledger, tx, applied, fell, overlapped>>,
         acked' \subseteq ledger, opened' \subseteq Tenants, billNow' \in 1 .. MaxBillTime
  PROVE  BillInv'
<1>0. /\ BillTypes /\ Vacant(tables) /\ OneClaim /\ Unmixed
      /\ \A g \in BillHandlers : tx[g].open => Claimed(g)
      /\ LedgerExact /\ ClockFromFirstFailure /\ GateFollowsStatus
  BY DEF BillInv
<1>1. BillTypes'
  BY <1>0 DEF BillTypes
<1>2. Vacant(tables)' /\ OneClaim'
  BY <1>0 DEF Vacant, OneClaim
<1>3. \A g \in BillHandlers : tx'[g].open => Claimed(g)'
  BY <1>0 DEF Claimed, Vacant
<1>4. Unmixed'
  BY <1>0 DEF Unmixed, Outcome, Untouched, Touched
<1>5. LedgerExact' /\ ClockFromFirstFailure' /\ GateFollowsStatus'
  <2>1. LedgerExact'
    BY <1>0 DEF LedgerExact
  <2>2. ClockFromFirstFailure'
    BY <1>0 DEF ClockFromFirstFailure
  <2>3. GateFollowsStatus'
    BY <1>0, GateKept
  <2> QED
    BY <2>1, <2>2, <2>3
<1> QED
  BY <1>1, <1>2, <1>3, <1>4, <1>5 DEF BillInv

LEMMA BillStep == BillInv /\ [BillNext]_billVars => BillInv'
<1> SUFFICES ASSUME BillInv, [BillNext]_billVars PROVE BillInv'
  OBVIOUS
<1>0. acked \subseteq ledger /\ opened \subseteq Tenants /\ billNow \in 1 .. MaxBillTime
  BY DEF BillInv, BillTypes
<1>1. ASSUME NEW h \in BillHandlers, Commits(h) PROVE BillInv'
  BY <1>1, CommitKeeps
<1>2. ASSUME NEW h \in BillHandlers, RollsBack(h) PROVE BillInv'
  BY <1>2, RollbackKeeps
<1>3. ASSUME NEW h \in BillHandlers, NEW e \in sent, ReceiveWebhook(h, e) PROVE BillInv'
  BY <1>3, WebhookKeeps
<1>4. ASSUME NEW h \in BillHandlers, NEW t \in Tenants, GetSubscription(h, t) PROVE BillInv'
  BY <1>4, GraceKeeps
<1>5. ASSUME NEW e \in sent, Redelivered(e) PROVE BillInv'
  <2>1. acked' \subseteq ledger
    BY <1>0, <1>5 DEF Redelivered
  <2>2. UNCHANGED <<sent, tables, ledger, tx, applied, fell, overlapped, opened, billNow>>
    BY <1>5 DEF Redelivered
  <2> QED
    BY <1>0, <2>1, <2>2, BillQuiet
<1>6. ASSUME NEW e \in sent, HandlerRaises(e) PROVE BillInv'
  BY <1>0, <1>6, BillQuiet DEF HandlerRaises
<1>7. ASSUME NEW t \in Tenants, CreateCheckout(t) PROVE BillInv'
  BY <1>0, <1>7, BillQuiet DEF CreateCheckout
<1>8. ASSUME BillDay PROVE BillInv'
  <2>1. billNow' \in 1 .. MaxBillTime
    BY <1>0, <1>8, BillConstants DEF BillDay
  <2> QED
    BY <1>0, <1>8, <2>1, BillQuiet DEF BillDay
<1>9. ASSUME UNCHANGED billVars PROVE BillInv'
  BY <1>0, <1>9, BillQuiet DEF billVars
<1> QED
  BY <1>1, <1>2, <1>3, <1>4, <1>5, <1>6, <1>7, <1>8, <1>9 DEF BillNext, BillWorks

\* BillingSound: however Stripe's events are delivered, repeated, reordered and
\* answered, and whatever commits or rolls back meanwhile, each takes effect
\* once; without an overlap access and grace follow from the statuses
\* (process_webhook, transition_status, apply_grace_period).
THEOREM EventsTakeEffectOnce == BillSpec => []BillingSound
<1>1. BillInit => BillInv
  BY BillStart
<1>2. BillInv /\ [BillNext]_billVars => BillInv'
  BY BillStep
<1>3. BillInv => BillingSound
  <2> SUFFICES ASSUME BillInv PROVE BillingSound
    OBVIOUS
  <2>1. BillTypes /\ Vacant(tables)
    BY DEF BillInv
  <2>2. BillingTypeOK
    <3>1. \A s \in Subs : /\ tables.sub[s].status \in SubscriptionStatus
                          /\ tables.sub[s].since \in 0 .. MaxBillTime
                          /\ tables.sub[s].tenant = "none" => tables.sub[s] = NoSub
      BY <2>1 DEF BillTypes, BillTables, BillSubRow, Vacant
    <3>2. \A i \in Invoices : /\ tables.inv[i].tenant \in Tenants \cup {"none"}
                              /\ tables.inv[i].status \in InvoiceStatus
      BY <2>1 DEF BillTypes, BillTables, InvoiceRow
    <3> QED
      BY <2>1, <3>1, <3>2 DEF BillingTypeOK, BillTypes, BillTables
  <2> QED
    BY <2>2 DEF BillInv, BillingSound
<1> QED
  BY <1>1, <1>2, <1>3, PTL DEF BillSpec
=============================================================================
