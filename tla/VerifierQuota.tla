---------------------------- MODULE VerifierQuota ----------------------------
(***************************************************************************)
(* Verifier API keys and their monthly quota: an administrator issues and  *)
(* revokes keys, the public verifier's middleware charges a key at the     *)
(* backend before every verification, and a caller without a key is        *)
(* limited by address.  A charge locks the key's row until it commits; its *)
(* answer may be lost on the way back.  The limit by address is counted in *)
(* the memory of each verifier process, and the platform starts and stops  *)
(* processes as it likes.  Sources: services/verifier_key_service.py,      *)
(* api/v1/verifier_keys.py, verifier/app/api_key.py, verifier/fly.toml.    *)
(***************************************************************************)
EXTENDS Integers, FiniteSets, Sequences

CONSTANTS
  Verifications, \* verification requests in flight at a time
  MaxVKeys,      \* bound on keys issued
  CapRequests,   \* monthly_call_cap of a create request: -1 for none given
  FreeTier,      \* verifier_free_tier_monthly_cap
  MaxCharge,     \* bound on a counter
  MonthLength,   \* clock ticks in a month
  Limits,        \* unauth_rate_limit: a sequence of [n, window]
  Machines,      \* verifier processes that run at a time, at most
  MaxProcesses,  \* bound on starts of a verifier process
  MaxQuotaTime,  \* bound on the clock
  MaxCalls       \* bound on verification requests

ASSUME QuotaAssumption ==
  /\ {MaxVKeys, FreeTier, MaxCharge, MonthLength, Machines, MaxProcesses, MaxQuotaTime, MaxCalls}
       \subseteq Nat
  /\ MonthLength > 0
  /\ CapRequests \subseteq Nat \cup {-1}
  /\ IsFiniteSet(Verifications) /\ 0 \notin Verifications
  /\ Len(Limits) \in Nat /\ DOMAIN Limits = 1 .. Len(Limits)
  /\ \A i \in DOMAIN Limits : Limits[i].n \in Nat /\ Limits[i].window \in Nat

NoCap == -1
VKeys == 1 .. MaxVKeys
Months == 0 .. (MaxQuotaTime \div MonthLength)

VARIABLES
  vkeys,      \* verifier_api_keys, in order of issue
  usage,      \* verifier_api_key_usage: the committed counters
  rowLock,    \* per key: the request whose charge holds its row, or 0
  vcall,      \* per request: where it is
  token,      \* how the two services' internal tokens compare
  processes,  \* the verifier processes, in order of their start
  quotaNow,   \* the clock
  calls,      \* requests so far
  served,     \* per key and month: verifications performed
  servedAt    \* verifications performed without a key: when, and by which process

quotaVars == <<vkeys, usage, rowLock, vcall, token, processes, quotaNow, calls, served, servedAt>>

Idle == [at |-> "idle"]
NoOne == 0

(* A process's limiter is a MemoryStorage of its own: per item of Limits   *)
(* the times of the hits it let through.  until is when it stopped.        *)
Fresh == [up |-> TRUE, until |-> 0, hits |-> [i \in DOMAIN Limits |-> <<>>]]

QuotaInit ==
  /\ vkeys = <<>>
  /\ usage = [k \in VKeys |-> [m \in Months |-> 0]]
  /\ rowLock = [k \in VKeys |-> NoOne]
  /\ vcall = [v \in Verifications |-> Idle]
  /\ token \in {"agreed", "differs", "unset"}
  /\ processes = <<Fresh>>
  /\ quotaNow = 0 /\ calls = 0
  /\ served = [k \in VKeys |-> [m \in Months |-> 0]]
  /\ servedAt = <<>>

PeriodMonthNow == quotaNow \div MonthLength

-----------------------------------------------------------------------------
(* None inherits the free tier's cap, 0 asks for no cap.                   *)
EffectiveCap(req) ==
  CASE req = -1 -> FreeTier
    [] req = 0  -> NoCap
    [] OTHER    -> req

CreateVerifierKey(req) ==
  /\ Len(vkeys) < MaxVKeys
  /\ vkeys' = Append(vkeys, [cap |-> EffectiveCap(req), asked |-> req, revoked |-> FALSE])
  /\ UNCHANGED <<usage, rowLock, vcall, token, processes, quotaNow, calls, served, servedAt>>

(* The update waits for a charge that holds the row.  Revoking twice       *)
(* changes nothing.                                                        *)
RevokeKey(k) ==
  /\ k \in DOMAIN vkeys /\ rowLock[k] = NoOne
  /\ vkeys' = [vkeys EXCEPT ![k].revoked = TRUE]
  /\ UNCHANGED <<usage, rowLock, vcall, token, processes, quotaNow, calls, served, servedAt>>

-----------------------------------------------------------------------------
Answered(v, status) ==
  vcall' = [vcall EXCEPT ![v] = [@ EXCEPT !.at = "answered", !.status = status]]

(* enforce_api_key_or_rate_limit with a key, up to the backend's check of  *)
(* the internal token.  genuine tells the plaintext from one that only     *)
(* shares its prefix; late notes that the key was revoked beforehand.      *)
ChargeBackend(v, k, genuine) ==
  /\ vcall[v] = Idle /\ k \in DOMAIN vkeys /\ calls < MaxCalls
  /\ calls' = calls + 1
  /\ vcall' = [vcall EXCEPT ![v] =
       [at |-> IF token = "agreed" THEN "sent" ELSE "answered", key |-> k,
        genuine |-> genuine, late |-> vkeys[k].revoked, month |-> PeriodMonthNow,
        seen |-> 0,
        status |-> CASE token = "unset" -> 503 [] token = "differs" -> 401 [] OTHER -> 0]]
  /\ UNCHANGED <<vkeys, usage, rowLock, token, processes, quotaNow, served, servedAt>>

(* Mutant: the row is selected without FOR UPDATE.                         *)
RowFreeAlways(k) == TRUE

(* The row is selected FOR UPDATE: a second charge waits here.             *)
RowFree(k) == rowLock[k] = NoOne

(* The query leaves revoked rows out; the hash of the plaintext decides.   *)
Refused(c) == vkeys[c.key].revoked \/ ~c.genuine

(* _find_active_by_prefix_for_update, the hash and the counter's row.      *)
FindActive(v) ==
  LET c == vcall[v] IN
  /\ c.at = "sent" /\ RowFree(c.key)
  /\ IF Refused(c)
     THEN Answered(v, 401) /\ UNCHANGED rowLock
     ELSE /\ vcall' = [vcall EXCEPT ![v].at = "charging",
                                    ![v].seen = usage[c.key][c.month]]
          /\ rowLock' = [rowLock EXCEPT ![c.key] = v]
  /\ UNCHANGED <<vkeys, usage, token, processes, quotaNow, calls, served, servedAt>>

OverCap(k, n) == vkeys[k].cap # NoCap /\ n > vkeys[k].cap

(* The counter is incremented; over the cap the 402 raised by the route    *)
(* rolls the increment back with the rest of the transaction.              *)
ChargeUsage(v) ==
  LET c == vcall[v]  n == c.seen + 1 IN
  /\ c.at = "charging" /\ n <= MaxCharge
  /\ IF OverCap(c.key, n)
     THEN Answered(v, 402) /\ UNCHANGED usage
     ELSE Answered(v, 200) /\ usage' = [usage EXCEPT ![c.key][c.month] = n]
  /\ rowLock' = [rowLock EXCEPT ![c.key] = NoOne]
  /\ UNCHANGED <<vkeys, token, processes, quotaNow, calls, served, servedAt>>

(* Mutant: a charge that fails keeps its row locked.                       *)
UnreachableKeepsRow(v) ==
  /\ vcall[v].at \in {"sent", "charging"} \/ (vcall[v].at = "answered" /\ vcall[v].status = 200)
  /\ Answered(v, 503)
  /\ UNCHANGED <<vkeys, usage, rowLock, token, processes, quotaNow, calls, served, servedAt>>

(* The backend fails before the commit, or the answer is lost after it:    *)
(* the middleware answers 503 and the caller may be charged for nothing.   *)
Unreachable(v) ==
  /\ vcall[v].at \in {"sent", "charging"} \/ (vcall[v].at = "answered" /\ vcall[v].status = 200)
  /\ Answered(v, 503)
  /\ rowLock' = [k \in VKeys |-> IF rowLock[k] = v THEN NoOne ELSE rowLock[k]]
  /\ UNCHANGED <<vkeys, usage, token, processes, quotaNow, calls, served, servedAt>>

(* The middleware passes a charged request on and refuses every other.     *)
Enforce(v) ==
  LET c == vcall[v] IN
  /\ c.at = "answered"
  /\ vcall' = [vcall EXCEPT ![v] = Idle]
  /\ served' = IF c.status = 200 THEN [served EXCEPT ![c.key][c.month] = @ + 1] ELSE served
  /\ UNCHANGED <<vkeys, usage, rowLock, token, processes, quotaNow, calls, servedAt>>

-----------------------------------------------------------------------------
(* auto_start_machines, or the restart of one that stopped: nothing of     *)
(* what others counted is there.                                           *)
StartProcess ==
  /\ Len(processes) < MaxProcesses
  /\ Cardinality({p \in DOMAIN processes : processes[p].up}) < Machines
  /\ processes' = Append(processes, Fresh)
  /\ UNCHANGED <<vkeys, usage, rowLock, vcall, token, quotaNow, calls, served, servedAt>>

(* auto_stop_machines, a deployment or a crash: its limiter goes with it.  *)
(* The backend does not notice: to a request with a key it is a lost answer. *)
StopProcess(p) ==
  /\ p \in DOMAIN processes /\ processes[p].up
  /\ processes' = [processes EXCEPT ![p] = [@ EXCEPT !.up = FALSE, !.until = quotaNow]]
  /\ UNCHANGED <<vkeys, usage, rowLock, vcall, token, quotaNow, calls, served, servedAt>>

InWindow(times, window) == Cardinality({j \in DOMAIN times : times[j] > quotaNow - window})

(* The moving-window limiter's hit, of the limits library: refused, and    *)
(* not recorded, once n hits lie in the window.                            *)
Hit(p, i) == InWindow(processes[p].hits[i], Limits[i].window) < Limits[i].n

(* The items are hit in order and the first refusal ends the loop: the     *)
(* items before it have been consumed.                                     *)
ItemsHit(p) == {i \in DOMAIN Limits : \A j \in 1 .. i : Hit(p, j)}

Allowed(p) == \A i \in DOMAIN Limits : Hit(p, i)

HitsAfter(p) ==
  [i \in DOMAIN Limits |-> IF i \in ItemsHit(p) THEN Append(processes[p].hits[i], quotaNow)
                           ELSE processes[p].hits[i]]

(* A request without a key, at the process it was routed to.               *)
VerifyUnauthenticated(p) ==
  /\ p \in DOMAIN processes /\ processes[p].up
  /\ calls < MaxCalls
  /\ calls' = calls + 1
  /\ processes' = [processes EXCEPT ![p] = [@ EXCEPT !.hits = HitsAfter(p)]]
  /\ servedAt' = IF Allowed(p) THEN Append(servedAt, [at |-> quotaNow, by |-> p]) ELSE servedAt
  /\ UNCHANGED <<vkeys, usage, rowLock, vcall, token, quotaNow, served>>

QuotaTick ==
  /\ quotaNow < MaxQuotaTime
  /\ quotaNow' = quotaNow + 1
  /\ UNCHANGED <<vkeys, usage, rowLock, vcall, token, processes, calls, served, servedAt>>

-----------------------------------------------------------------------------
QuotaWorks == \E v \in Verifications : FindActive(v) \/ ChargeUsage(v) \/ Enforce(v)

QuotaNext ==
  \/ \E req \in CapRequests : CreateVerifierKey(req)
  \/ \E k \in VKeys : RevokeKey(k)
  \/ \E v \in Verifications, k \in VKeys, genuine \in BOOLEAN : ChargeBackend(v, k, genuine)
  \/ \E v \in Verifications : Unreachable(v)
  \/ QuotaWorks
  \/ StartProcess
  \/ \E p \in 1 .. MaxProcesses : StopProcess(p) \/ VerifyUnauthenticated(p)
  \/ QuotaTick

QuotaSpec == QuotaInit /\ [][QuotaNext]_quotaVars

-----------------------------------------------------------------------------
(* Types.                                                                  *)
QuotaTypeOK ==
  /\ \A k \in DOMAIN vkeys : vkeys[k].cap \in Nat \cup {NoCap}
  /\ usage \in [VKeys -> [Months -> 0 .. MaxCharge]]
  /\ \A k \in VKeys : rowLock[k] # NoOne => vcall[rowLock[k]].at = "charging"

(* However charges of one key interleave, however many answers are lost:   *)
(* every verification performed for a key was counted in the month it was  *)
(* charged to, and a key with a cap performs at most that many in a month; *)
(* a key asked for without a cap is never refused for its quota.           *)
QuotaHolds ==
  /\ \A k \in VKeys, m \in Months : served[k][m] <= usage[k][m]
  /\ \A k \in DOMAIN vkeys, m \in Months :
       vkeys[k].asked # 0 =>
         served[k][m] <= IF vkeys[k].asked = -1 THEN FreeTier ELSE vkeys[k].asked
  /\ \A v \in Verifications :
       vcall[v].at = "answered" /\ vcall[v].status = 402 => vkeys[vcall[v].key].asked # 0

(* A revocation that has been answered holds: no request made after it is  *)
(* passed on, and no plaintext that only shares a key's prefix ever is.    *)
RevokedKeyServesNothing ==
  \A v \in Verifications :
    vcall[v].at = "answered" /\ vcall[v].status = 200 => ~vcall[v].late /\ vcall[v].genuine

(* Of the window that ends now: what a process served without a key, what  *)
(* all of them did, and which processes ran in it at all.                  *)
ServedBy(p, window) == {j \in DOMAIN servedAt : servedAt[j].by = p /\ servedAt[j].at > quotaNow - window}
ServedIn(window) == {j \in DOMAIN servedAt : servedAt[j].at > quotaNow - window}
RanIn(window) ==
  {p \in DOMAIN processes : processes[p].up \/ processes[p].until > quotaNow - window}

(* Callers without a key: in any window that ends now no process has       *)
(* exceeded an item of the limit, and an address got no more than the limit *)
(* once for every process that ran in that window, stopped ones included.  *)
UnauthenticatedLimited ==
  \A i \in DOMAIN Limits :
    /\ \A p \in DOMAIN processes : Cardinality(ServedBy(p, Limits[i].window)) <= Limits[i].n
    /\ Cardinality(ServedIn(Limits[i].window))
         <= Limits[i].n * Cardinality(RanIn(Limits[i].window))

(* The limit as the setting's words have it, "per IP": true of one process, *)
(* false of the service as soon as a second one ran in the window.  No run  *)
(* checks it.                                                              *)
LimitedAcrossProcesses ==
  \A i \in DOMAIN Limits : Cardinality(ServedIn(Limits[i].window)) <= Limits[i].n

(* Every request is answered: no charge waits for ever on a row's lock.    *)
ChargesEnd == []<>(\A v \in Verifications : vcall[v] = Idle)

\* Nobody gets more verifications than allowed: not a key beyond its cap or
\* after its revocation, nor an address without a key beyond the limit of each
\* process it was routed to (charge_usage and the verifier's middleware).
QuotaSound ==
    /\ QuotaTypeOK
    /\ QuotaHolds
    /\ RevokedKeyServesNothing
    /\ UnauthenticatedLimited
=============================================================================
