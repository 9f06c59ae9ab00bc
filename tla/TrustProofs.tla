----------------------------- MODULE TrustProofs -----------------------------
(***************************************************************************)
(* Proofs about VerifierQuota and about ReceiptVerifier, which extends     *)
(* SigningKeys, for every number of keys, processes, receipts and          *)
(* verifications.                                                          *)
(*                                                                         *)
(* Quotas.  That a cap holds is not inductive: it rests on the row's lock. *)
(* LocksHeld says that a row is locked by the one request that is charging *)
(* it and that what this request read is still the counter; CountsCover    *)
(* counts, beside the verifications performed, those that are charged and  *)
(* not yet passed on.  What callers without a key are served is bounded by *)
(* process: LimitsInv compares it with what the process recorded, and      *)
(* ServedTogether adds the processes of a window up.                       *)
(*                                                                         *)
(* Receipts.  A receipt verifies because the key stamped on it is in the   *)
(* registry or is the one every process runs with.  KeysRegistered says    *)
(* that all keys up to the one in use are registered, unless none has been *)
(* and the first is in use; then a rotation task that may still insert its *)
(* key is about to insert the one after the key in use, the same for every *)
(* such task, and RotationsKnown keeps for it that it found every earlier  *)
(* rotation old enough or its key revoked.  At the public verifier, what   *)
(* was resolved is always the receipt's own key.                           *)
(***************************************************************************)
EXTENDS VerifierQuota, ReceiptVerifier, FiniteSetTheorems, TLAPS

\* A request that presented a key.
QCall == [at : {"sent", "charging", "answered"}, key : VKeys, genuine : BOOLEAN,
          late : BOOLEAN, month : Months, seen : Nat, status : {0, 200, 401, 402, 503}]

VKeyRow == [cap : Nat \cup {NoCap}, asked : Nat \cup {-1}, revoked : BOOLEAN]

\* Types of the variables the argument reads.
QuotaTypes ==
  /\ vkeys \in Seq(VKeyRow)
  /\ Len(vkeys) <= MaxVKeys
  /\ usage \in [VKeys -> [Months -> 0 .. MaxCharge]]
  /\ served \in [VKeys -> [Months -> Nat]]
  /\ rowLock \in [VKeys -> Verifications \cup {NoOne}]
  /\ vcall \in [Verifications -> {Idle} \cup QCall]
  /\ quotaNow \in 0 .. MaxQuotaTime

\* A row's lock is held by the one request that is charging it, and what that
\* request has read of the counter is still so.
LocksHeld ==
  /\ \A k \in VKeys : rowLock[k] # NoOne =>
       vcall[rowLock[k]].at = "charging" /\ vcall[rowLock[k]].key = k
  /\ \A v \in Verifications :
       vcall[v].at = "charging" =>
         /\ rowLock[vcall[v].key] = v
         /\ vcall[v].seen = usage[vcall[v].key][vcall[v].month]

\* Only issued keys are charged, and a key's cap is the one asked for.
KeysKnown ==
  /\ \A v \in Verifications : vcall[v] # Idle => vcall[v].key \in DOMAIN vkeys
  /\ \A k \in DOMAIN vkeys : vkeys[k].cap = EffectiveCap(vkeys[k].asked)
  /\ \A k \in VKeys \ DOMAIN vkeys, m \in Months : usage[k][m] = 0

\* The committed counter of a key with a cap is within it.
CountersCapped ==
  \A k \in DOMAIN vkeys, m \in Months : vkeys[k].cap # NoCap => usage[k][m] <= vkeys[k].cap

\* Requests that were charged to key k in month m and are not yet passed on.
Charged(k, m) ==
  {v \in Verifications : /\ vcall[v].at = "answered" /\ vcall[v].status = 200
                         /\ vcall[v].key = k /\ vcall[v].month = m}

\* Every verification performed, or about to be, has been counted.
CountsCover ==
  \A k \in VKeys, m \in Months : served[k][m] + Cardinality(Charged(k, m)) <= usage[k][m]

\* A request made after a revocation, or with a forged plaintext, gets no row.
RevocationSeen ==
  \A v \in Verifications : vcall[v] # Idle =>
    /\ vcall[v].late => vkeys[vcall[v].key].revoked
    /\ vcall[v].at = "charging" => vcall[v].genuine /\ ~vcall[v].late
    /\ vcall[v].at = "answered" /\ vcall[v].status = 200 => vcall[v].genuine /\ ~vcall[v].late
    /\ vcall[v].at = "answered" /\ vcall[v].status = 402 => vkeys[vcall[v].key].asked # 0

KeyInv == QuotaTypes /\ LocksHeld /\ KeysKnown /\ CountersCapped /\ CountsCover /\ RevocationSeen

\* The elements of a sequence of times after t, and of the verifications those
\* that p served after t.
After(times, t) == {j \in DOMAIN times : times[j] > t}
ByAfter(log, p, t) == {j \in DOMAIN log : log[j].by = p /\ log[j].at > t}

VProcess == [up : BOOLEAN, until : Int, hits : [DOMAIN Limits -> Seq(Int)]]
Service == [at : Int, by : Nat]

\* Whatever a process let through was recorded by every item of its limiter, no
\* item has let more through than its share of a window, and nothing is served
\* by a process after it stopped.
LimitsInv ==
  /\ quotaNow \in Int
  /\ servedAt \in Seq(Service)
  /\ processes \in Seq(VProcess)
  /\ \A j \in DOMAIN servedAt :
       /\ servedAt[j].by \in DOMAIN processes /\ servedAt[j].at <= quotaNow
       /\ processes[servedAt[j].by].up \/ servedAt[j].at <= processes[servedAt[j].by].until
  /\ \A p \in DOMAIN processes, i \in DOMAIN Limits, t \in Int :
       Cardinality(ByAfter(servedAt, p, t)) <= Cardinality(After(processes[p].hits[i], t))
  /\ \A p \in DOMAIN processes, i \in DOMAIN Limits :
       Cardinality(After(processes[p].hits[i], quotaNow - Limits[i].window)) <= Limits[i].n

-----------------------------------------------------------------------------
LEMMA QuotaBounds ==
  /\ MonthLength > 0
  /\ MaxVKeys \in Nat /\ MaxCharge \in Nat /\ MonthLength \in Nat /\ MaxQuotaTime \in Nat
  BY QuotaAssumption

LEMMA ChargedFinite ==
  ASSUME NEW k, NEW m
  PROVE  IsFiniteSet(Charged(k, m)) /\ Cardinality(Charged(k, m)) \in Nat
  BY FS_Subset, FS_CardinalityType, QuotaAssumption DEF Charged

LEMMA MonthNow ==
  ASSUME quotaNow \in 0 .. MaxQuotaTime
  PROVE  PeriodMonthNow \in Months
<1>1. ASSUME NEW a \in Nat, NEW b \in Nat, NEW c \in Nat, c > 0, a <= b
      PROVE  a \div c \in 0 .. (b \div c)
  BY <1>1, Z3
<1> QED
  BY <1>1, QuotaBounds DEF PeriodMonthNow, Months

LEMMA AnsweredCall ==
  ASSUME QuotaTypes, NEW v \in Verifications, vcall[v] # Idle,
         NEW status \in {200, 401, 402, 503}, Answered(v, status)
  PROVE  /\ vcall' \in [Verifications -> {Idle} \cup QCall]
         /\ vcall'[v] \in QCall
         /\ vcall'[v].at = "answered" /\ vcall'[v].status = status
         /\ vcall'[v].key = vcall[v].key /\ vcall'[v].month = vcall[v].month
         /\ vcall'[v].genuine = vcall[v].genuine /\ vcall'[v].late = vcall[v].late
         /\ \A w \in Verifications \ {v} : vcall'[w] = vcall[w]
<1>1. vcall[v] \in QCall
  BY DEF QuotaTypes
<1> DEFINE d == [vcall[v] EXCEPT !.at = "answered"]
           c == [d EXCEPT !.status = status]
<1>2. vcall' = [vcall EXCEPT ![v] = c]
  BY DEF Answered, QuotaTypes
<1>3. /\ d \in QCall /\ d.at = "answered"
      /\ d.key = vcall[v].key /\ d.month = vcall[v].month
      /\ d.genuine = vcall[v].genuine /\ d.late = vcall[v].late
  BY <1>1 DEF QCall
<1> HIDE DEF d
<1>4. /\ c \in QCall /\ c.at = "answered" /\ c.status = status
      /\ c.key = vcall[v].key /\ c.month = vcall[v].month
      /\ c.genuine = vcall[v].genuine /\ c.late = vcall[v].late
  BY <1>3 DEF QCall
<1> HIDE DEF c
<1> QED
  BY <1>2, <1>4 DEF QuotaTypes

\* A request whose answer does not charge changes no count.
LEMMA ChargedSame ==
  ASSUME NEW v \in Verifications,
         \A w \in Verifications \ {v} : vcall'[w] = vcall[w],
         vcall[v].at # "answered" \/ vcall[v].status # 200,
         vcall'[v].at # "answered" \/ vcall'[v].status # 200
  PROVE  \A k, m : Charged(k, m)' = Charged(k, m)
  BY DEF Charged

LEMMA QuotaStart == QuotaInit => KeyInv
<1> SUFFICES ASSUME QuotaInit PROVE KeyInv
  OBVIOUS
<1>1. QuotaTypes
  BY QuotaAssumption DEF QuotaInit, QuotaTypes, NoCap
<1>2. \A k, m : Charged(k, m) = {}
  BY DEF QuotaInit, Charged, Idle
<1>3. CountsCover
  <2> SUFFICES ASSUME NEW k \in VKeys, NEW m \in Months
               PROVE  served[k][m] + Cardinality(Charged(k, m)) <= usage[k][m]
    BY DEF CountsCover
  <2>1. served[k][m] = 0 /\ usage[k][m] = 0 /\ Cardinality(Charged(k, m)) = 0
    BY <1>2, FS_EmptySet DEF QuotaInit
  <2> QED
    BY <2>1
<1> QED
  BY <1>1, <1>3 DEF QuotaInit, KeyInv, LocksHeld, KeysKnown, CountersCapped, RevocationSeen, Idle, NoOne

LEMMA CreateStep ==
  ASSUME KeyInv, NEW req \in CapRequests, CreateVerifierKey(req)
  PROVE  KeyInv'
<1> DEFINE key == [cap |-> EffectiveCap(req), asked |-> req, revoked |-> FALSE]
<1>1. key \in VKeyRow
  BY QuotaAssumption DEF EffectiveCap, NoCap, VKeyRow
<1>2. /\ vkeys' = Append(vkeys, key) /\ Len(vkeys) < MaxVKeys
      /\ UNCHANGED <<usage, rowLock, vcall, quotaNow, served>>
  BY DEF CreateVerifierKey
<1>3. /\ vkeys \in Seq(VKeyRow) /\ vkeys' \in Seq(VKeyRow) /\ Len(vkeys') = Len(vkeys) + 1
      /\ vkeys'[Len(vkeys) + 1] = key
      /\ \A k \in DOMAIN vkeys : vkeys'[k] = vkeys[k]
      /\ DOMAIN vkeys' = DOMAIN vkeys \cup {Len(vkeys) + 1}
      /\ Len(vkeys) + 1 \in VKeys \ DOMAIN vkeys
  BY <1>1, <1>2, QuotaBounds DEF KeyInv, QuotaTypes, VKeys
<1> HIDE DEF key
<1>4. QuotaTypes'
  BY <1>2, <1>3, QuotaBounds DEF KeyInv, QuotaTypes
<1>5. LocksHeld' /\ KeysKnown' /\ RevocationSeen'
  BY <1>2, <1>3 DEF KeyInv, QuotaTypes, LocksHeld, KeysKnown, RevocationSeen, key
<1>6. CountersCapped'
  <2> SUFFICES ASSUME NEW k \in DOMAIN vkeys', NEW m \in Months, vkeys'[k].cap # NoCap
               PROVE  usage'[k][m] <= vkeys'[k].cap
    BY DEF CountersCapped
  <2>1. CASE k \in DOMAIN vkeys
    BY <2>1, <1>2, <1>3 DEF KeyInv, CountersCapped
  <2>2. CASE k = Len(vkeys) + 1
    <3>1. usage'[k][m] = 0
      BY <2>2, <1>2, <1>3 DEF KeyInv, KeysKnown
    <3>2. vkeys'[k].cap \in Nat
      BY <2>2, <1>1, <1>3 DEF VKeyRow, NoCap
    <3> QED
      BY <3>1, <3>2
  <2> QED
    BY <2>1, <2>2, <1>3
<1>7. CountsCover'
  BY <1>2 DEF KeyInv, CountsCover, Charged
<1> QED
  BY <1>4, <1>5, <1>6, <1>7 DEF KeyInv

LEMMA RevokeStep ==
  ASSUME KeyInv, NEW k \in VKeys, RevokeKey(k)
  PROVE  KeyInv'
<1>1. /\ vkeys' = [vkeys EXCEPT ![k].revoked = TRUE] /\ k \in DOMAIN vkeys /\ rowLock[k] = NoOne
      /\ UNCHANGED <<usage, rowLock, vcall, quotaNow, served>>
  BY DEF RevokeKey
<1>2. vkeys \in Seq(VKeyRow) /\ \A j \in DOMAIN vkeys : vkeys[j] \in VKeyRow
  BY DEF KeyInv, QuotaTypes
<1>3. /\ vkeys' \in Seq(VKeyRow) /\ Len(vkeys') = Len(vkeys) /\ DOMAIN vkeys' = DOMAIN vkeys
      /\ \A j \in DOMAIN vkeys : /\ vkeys'[j].cap = vkeys[j].cap
                                  /\ vkeys'[j].asked = vkeys[j].asked
                                  /\ vkeys[j].revoked => vkeys'[j].revoked
  <2>1. [vkeys[k] EXCEPT !.revoked = TRUE] \in VKeyRow
    BY <1>1, <1>2 DEF VKeyRow
  <2>2. /\ vkeys' \in Seq(VKeyRow) /\ Len(vkeys') = Len(vkeys) /\ DOMAIN vkeys' = DOMAIN vkeys
        /\ vkeys'[k] = [vkeys[k] EXCEPT !.revoked = TRUE]
        /\ \A j \in DOMAIN vkeys \ {k} : vkeys'[j] = vkeys[j]
    BY <1>1, <1>2, <2>1
  <2> QED
    BY <1>1, <1>2, <2>2 DEF VKeyRow
<1>4. QuotaTypes'
  BY <1>1, <1>3 DEF KeyInv, QuotaTypes
<1>5. LocksHeld' /\ KeysKnown' /\ CountersCapped' /\ RevocationSeen'
  BY <1>1, <1>3 DEF KeyInv, LocksHeld, KeysKnown, CountersCapped, RevocationSeen
<1>6. CountsCover'
  BY <1>1 DEF KeyInv, CountsCover, Charged
<1> QED
  BY <1>4, <1>5, <1>6 DEF KeyInv

LEMMA ChargeBackendStep ==
  ASSUME KeyInv, NEW v \in Verifications, NEW k \in VKeys, NEW genuine \in BOOLEAN,
         ChargeBackend(v, k, genuine)
  PROVE  KeyInv'
<1> DEFINE c == [at |-> IF token = "agreed" THEN "sent" ELSE "answered", key |-> k,
                 genuine |-> genuine, late |-> vkeys[k].revoked, month |-> PeriodMonthNow,
                 seen |-> 0,
                 status |-> CASE token = "unset" -> 503 [] token = "differs" -> 401 [] OTHER -> 0]
<1>1. /\ vcall[v] = Idle /\ k \in DOMAIN vkeys
      /\ vcall' = [vcall EXCEPT ![v] = c]
      /\ UNCHANGED <<vkeys, usage, rowLock, quotaNow, served>>
  BY DEF ChargeBackend
<1>2. PeriodMonthNow \in Months
  BY MonthNow DEF KeyInv, QuotaTypes
<1>3. vkeys[k] \in VKeyRow /\ vkeys[k].revoked \in BOOLEAN
  <2>1. vkeys[k] \in VKeyRow
    BY <1>1 DEF KeyInv, QuotaTypes
  <2> QED
    BY <2>1 DEF VKeyRow
<1>4. /\ c \in QCall /\ c.key = k /\ (c.late => vkeys[k].revoked)
      /\ c.at \in {"sent", "answered"} /\ c.status \notin {200, 402}
  BY <1>2, <1>3 DEF QCall
<1> HIDE DEF c
<1>5. /\ vcall' \in [Verifications -> {Idle} \cup QCall] /\ vcall'[v] = c
      /\ \A w \in Verifications \ {v} : vcall'[w] = vcall[w]
  BY <1>1, <1>4 DEF KeyInv, QuotaTypes
<1>6. QuotaTypes'
  BY <1>1, <1>5 DEF KeyInv, QuotaTypes
<1>7. Idle.at = "idle"
  BY DEF Idle
<1>8. LocksHeld'
  BY <1>1, <1>4, <1>5, <1>7 DEF KeyInv, LocksHeld, QuotaTypes
<1>9. KeysKnown' /\ CountersCapped' /\ RevocationSeen'
  BY <1>1, <1>4, <1>5 DEF KeyInv, KeysKnown, CountersCapped, RevocationSeen
<1>10. CountsCover'
  BY <1>1, <1>4, <1>5, <1>7, ChargedSame DEF KeyInv, CountsCover
<1> QED
  BY <1>6, <1>8, <1>9, <1>10 DEF KeyInv

LEMMA FindActiveStep ==
  ASSUME KeyInv, NEW v \in Verifications, FindActive(v)
  PROVE  KeyInv'
<1>1. /\ vcall[v].at = "sent" /\ rowLock[vcall[v].key] = NoOne
      /\ UNCHANGED <<vkeys, usage, quotaNow, served>>
  BY DEF FindActive, RowFree
<1>2. vcall[v] # Idle /\ vcall[v] \in QCall
  BY <1>1 DEF KeyInv, QuotaTypes, Idle
<1>3. CASE Refused(vcall[v])
  <2>1. Answered(v, 401) /\ UNCHANGED rowLock
    BY <1>3 DEF FindActive
  <2>2. QuotaTypes
    BY DEF KeyInv
  <2>3. QuotaTypes'
    BY <1>1, <1>2, <2>1, <2>2, AnsweredCall DEF QuotaTypes
  <2>a. /\ vcall' \in [Verifications -> {Idle} \cup QCall]
        /\ vcall'[v].at = "answered" /\ vcall'[v].status = 401
        /\ vcall'[v].key = vcall[v].key /\ vcall'[v].late = vcall[v].late
        /\ \A w \in Verifications \ {v} : vcall'[w] = vcall[w]
    BY <1>2, <2>1, <2>2, AnsweredCall
  <2>b. LocksHeld'
    <3>1. \A k \in VKeys : rowLock[k] # NoOne => rowLock[k] \in Verifications \ {v}
      BY <1>1 DEF KeyInv, LocksHeld, QuotaTypes
    <3> QED
      BY <1>1, <2>1, <2>a, <3>1 DEF KeyInv, LocksHeld
  <2>c. KeysKnown' /\ CountersCapped'
    BY <1>1, <1>2, <2>1, <2>a DEF KeyInv, KeysKnown, CountersCapped
  <2>4. RevocationSeen'
    BY <1>1, <1>2, <2>1, <2>a DEF KeyInv, RevocationSeen
  <2>5. CountsCover'
    BY <1>1, <1>2, <2>1, <2>2, AnsweredCall, ChargedSame DEF KeyInv, CountsCover
  <2> QED
    BY <2>3, <2>b, <2>c, <2>4, <2>5 DEF KeyInv
<1>4. CASE ~Refused(vcall[v])
  <2> DEFINE d == [vcall[v] EXCEPT !.at = "charging"]
             c == [d EXCEPT !.seen = usage[vcall[v].key][vcall[v].month]]
             k == vcall[v].key
  <2>1. /\ vcall' = [vcall EXCEPT ![v].at = "charging", ![v].seen = usage[vcall[v].key][vcall[v].month]]
        /\ rowLock' = [rowLock EXCEPT ![k] = v]
    BY <1>4 DEF FindActive
  <2>2. vcall' = [vcall EXCEPT ![v] = c]
    BY <2>1, <1>2 DEF KeyInv, QuotaTypes
  <2>3. usage[vcall[v].key][vcall[v].month] \in Nat /\ k \in VKeys
    BY <1>2, QuotaBounds DEF KeyInv, QuotaTypes, QCall
  <2>a. /\ d \in QCall /\ d.at = "charging" /\ d.key = k /\ d.month = vcall[v].month
        /\ d.genuine = vcall[v].genuine /\ d.late = vcall[v].late
    BY <1>2 DEF QCall
  <2> HIDE DEF d
  <2>4. /\ c \in QCall /\ c.at = "charging" /\ c.key = k /\ c.month = vcall[v].month
        /\ c.seen = usage[k][vcall[v].month] /\ c.genuine = vcall[v].genuine /\ c.late = vcall[v].late
    BY <2>a, <2>3 DEF QCall
  <2>5. vcall[v].genuine /\ ~vcall[v].late
    BY <1>2, <1>4 DEF Refused, KeyInv, RevocationSeen, QCall
  <2> HIDE DEF c
  <2>6. /\ vcall' \in [Verifications -> {Idle} \cup QCall] /\ vcall'[v] = c
        /\ \A w \in Verifications \ {v} : vcall'[w] = vcall[w]
    BY <2>2, <2>4 DEF KeyInv, QuotaTypes
  <2>7. QuotaTypes'
    BY <1>1, <2>1, <2>3, <2>6 DEF KeyInv, QuotaTypes
  <2>8. LocksHeld'
    <3>1. \A w \in Verifications : vcall'[w].at = "charging" /\ w # v => vcall'[w].key # k
      BY <1>1, <2>6, QuotaAssumption DEF KeyInv, LocksHeld, NoOne
    <3>2. \A w \in Verifications : vcall'[w].at = "charging" => vcall'[w].key \in VKeys
      BY <2>7 DEF QuotaTypes, QCall, Idle
    <3> QED
      BY <1>1, <2>1, <2>3, <2>4, <2>6, <3>1, <3>2 DEF KeyInv, LocksHeld, QuotaTypes
  <2>b. KeysKnown' /\ CountersCapped'
    BY <1>1, <1>2, <2>4, <2>6 DEF KeyInv, KeysKnown, CountersCapped
  <2>9. RevocationSeen'
    <3>1. c.genuine /\ ~c.late
      BY <2>4, <2>5
    <3> QED
      BY <1>1, <1>2, <2>4, <2>6, <3>1 DEF KeyInv, RevocationSeen
  <2>10. CountsCover'
    BY <1>1, <2>4, <2>6, ChargedSame DEF KeyInv, CountsCover
  <2> QED
    BY <2>7, <2>8, <2>b, <2>9, <2>10 DEF KeyInv
<1> QED
  BY <1>3, <1>4

LEMMA ChargeUsageStep ==
  ASSUME KeyInv, NEW v \in Verifications, ChargeUsage(v)
  PROVE  KeyInv'
<1> DEFINE k == vcall[v].key
           m == vcall[v].month
           n == vcall[v].seen + 1
<1>1. /\ vcall[v].at = "charging" /\ n <= MaxCharge
      /\ rowLock' = [rowLock EXCEPT ![k] = NoOne]
      /\ UNCHANGED <<vkeys, quotaNow, served>>
  BY DEF ChargeUsage
<1>2. vcall[v] # Idle /\ vcall[v] \in QCall
  BY <1>1 DEF KeyInv, QuotaTypes, Idle
<1>3. /\ k \in VKeys /\ m \in Months /\ k \in DOMAIN vkeys /\ rowLock[k] = v
      /\ n = usage[k][m] + 1 /\ usage[k][m] \in 0 .. MaxCharge /\ n \in 0 .. MaxCharge
      /\ vcall[v].genuine /\ ~vcall[v].late
  <2>1. k \in VKeys /\ m \in Months /\ k \in DOMAIN vkeys /\ rowLock[k] = v
    BY <1>1, <1>2 DEF KeyInv, LocksHeld, KeysKnown, QCall
  <2>2. vcall[v].seen = usage[k][m] /\ usage[k][m] \in 0 .. MaxCharge
    BY <1>1, <2>1 DEF KeyInv, LocksHeld, QuotaTypes
  <2>3. vcall[v].genuine /\ ~vcall[v].late
    BY <1>1, <1>2 DEF KeyInv, RevocationSeen
  <2> QED
    BY <1>1, <2>1, <2>2, <2>3, QuotaBounds
<1>4. PICK status \in {200, 402} :
        /\ Answered(v, status)
        /\ status = 402 => OverCap(k, n) /\ usage' = usage
        /\ status = 200 => ~OverCap(k, n) /\ usage' = [usage EXCEPT ![k][m] = n]
  <2>1. CASE OverCap(k, n)
    BY <2>1 DEF ChargeUsage
  <2>2. CASE ~OverCap(k, n)
    BY <2>2 DEF ChargeUsage
  <2> QED
    BY <2>1, <2>2
<1>5. QuotaTypes /\ rowLock \in [VKeys -> Verifications \cup {NoOne}]
  BY DEF KeyInv, QuotaTypes
<1>6. /\ vcall' \in [Verifications -> {Idle} \cup QCall] /\ vcall'[v] \in QCall
      /\ vcall'[v].at = "answered" /\ vcall'[v].status = status
      /\ vcall'[v].key = k /\ vcall'[v].month = m
      /\ vcall'[v].genuine = vcall[v].genuine /\ vcall'[v].late = vcall[v].late
      /\ \A w \in Verifications \ {v} : vcall'[w] = vcall[w]
  BY <1>2, <1>4, <1>5, AnsweredCall
<1>7. /\ usage' \in [VKeys -> [Months -> 0 .. MaxCharge]]
      /\ usage'[k][m] = IF status = 200 THEN n ELSE usage[k][m]
      /\ \A j \in VKeys, i \in Months : j # k \/ i # m => usage'[j][i] = usage[j][i]
  <2>1. usage \in [VKeys -> [Months -> 0 .. MaxCharge]]
    BY <1>5 DEF QuotaTypes
  <2> HIDE DEF k, m, n
  <2>2. CASE status = 402
    BY <1>4, <2>1, <2>2
  <2>3. CASE status = 200
    BY <1>3, <1>4, <2>1, <2>3
  <2> QED
    BY <2>2, <2>3
<1> HIDE DEF k, m, n
<1>8. QuotaTypes'
  BY <1>1, <1>3, <1>6, <1>7 DEF KeyInv, QuotaTypes
<1>9. LocksHeld'
  <2>1. \A w \in Verifications : vcall[w].at = "charging" /\ w # v => vcall[w].key # k
    BY <1>3 DEF KeyInv, LocksHeld
  <2>2. \A w \in Verifications : vcall[w].at = "charging" =>
          vcall[w].key \in VKeys /\ vcall[w].month \in Months
    BY <1>5 DEF QuotaTypes, QCall, Idle
  <2>3. \A j \in VKeys : rowLock'[j] # NoOne => j # k /\ rowLock[j] = rowLock'[j]
    BY <1>1, <1>3, <1>5
  <2>4. \A j \in VKeys : rowLock'[j] # NoOne =>
          vcall'[rowLock'[j]].at = "charging" /\ vcall'[rowLock'[j]].key = j
    <3> SUFFICES ASSUME NEW j \in VKeys, rowLock'[j] # NoOne
                 PROVE  vcall'[rowLock'[j]].at = "charging" /\ vcall'[rowLock'[j]].key = j
      OBVIOUS
    <3>1. rowLock'[j] # v
      BY <2>3 DEF KeyInv, LocksHeld, k
    <3> QED
      BY <1>5, <1>6, <2>3, <3>1 DEF KeyInv, LocksHeld
  <2> QED
    <3>1. ASSUME NEW w \in Verifications, vcall'[w].at = "charging"
          PROVE  /\ rowLock'[vcall'[w].key] = w
                 /\ vcall'[w].seen = usage'[vcall'[w].key][vcall'[w].month]
      <4>1. w # v /\ vcall'[w] = vcall[w] /\ vcall[w].key \in VKeys \ {k} /\ vcall[w].month \in Months
        BY <1>6, <2>1, <2>2, <3>1
      <4>2. rowLock'[vcall[w].key] = rowLock[vcall[w].key]
        BY <1>1, <1>5, <4>1
      <4> QED
        BY <1>7, <3>1, <4>1, <4>2 DEF KeyInv, LocksHeld
    <3> QED
      BY <2>4, <3>1 DEF LocksHeld
<1>10. KeysKnown'
  BY <1>1, <1>2, <1>3, <1>6, <1>7 DEF KeyInv, KeysKnown
<1>11. CountersCapped'
  <2>1. DOMAIN vkeys \subseteq VKeys
    BY <1>5, QuotaBounds DEF QuotaTypes, VKeys
  <2>2. vkeys[k] \in VKeyRow /\ (vkeys[k].cap # NoCap => vkeys[k].cap \in Nat)
    <3>1. vkeys[k] \in VKeyRow
      BY <1>3, <1>5 DEF QuotaTypes
    <3> QED
      BY <3>1 DEF VKeyRow
  <2>3. vkeys[k].cap # NoCap => usage'[k][m] <= vkeys[k].cap
    BY <1>3, <1>4, <1>7, <2>2 DEF OverCap, KeyInv, CountersCapped
  <2> QED
    BY <1>1, <1>7, <2>1, <2>3 DEF KeyInv, CountersCapped
<1>12. RevocationSeen'
  <2>1. status = 402 => vkeys[k].asked # 0
    BY <1>3, <1>4 DEF OverCap, KeyInv, KeysKnown, EffectiveCap, NoCap
  <2> QED
    <3> SUFFICES ASSUME NEW w \in Verifications, vcall'[w] # Idle
                 PROVE  /\ vcall'[w].late => vkeys'[vcall'[w].key].revoked
                        /\ vcall'[w].at = "charging" => vcall'[w].genuine /\ ~vcall'[w].late
                        /\ vcall'[w].at = "answered" /\ vcall'[w].status = 200 =>
                             vcall'[w].genuine /\ ~vcall'[w].late
                        /\ vcall'[w].at = "answered" /\ vcall'[w].status = 402 =>
                             vkeys'[vcall'[w].key].asked # 0
      BY DEF RevocationSeen
    <3>1. CASE w = v
      BY <1>1, <1>3, <1>6, <2>1, <3>1
    <3>2. CASE w # v
      BY <1>1, <1>6, <3>2 DEF KeyInv, RevocationSeen
    <3> QED
      BY <3>1, <3>2
<1>13. CountsCover'
  <2>1. CASE status = 402
    BY <1>1, <1>4, <1>6, <2>1, ChargedSame DEF KeyInv, CountsCover
  <2>2. CASE status = 200
    <3> SUFFICES ASSUME NEW j \in VKeys, NEW i \in Months
                 PROVE  served'[j][i] + Cardinality(Charged(j, i)') <= usage'[j][i]
      BY DEF CountsCover
    <3>1. served[j][i] + Cardinality(Charged(j, i)) <= usage[j][i] /\ served[j][i] \in Nat /\ usage[j][i] \in Nat
      BY QuotaBounds DEF KeyInv, CountsCover, QuotaTypes
    <3>2. CASE j = k /\ i = m
      <4>1. Charged(j, i)' = Charged(j, i) \cup {v} /\ v \notin Charged(j, i)
        BY <1>1, <1>6, <2>2, <3>2 DEF Charged
      <4>2. Cardinality(Charged(j, i)') = Cardinality(Charged(j, i)) + 1
        BY <4>1, ChargedFinite, FS_AddElement
      <4> QED
        BY <1>1, <1>3, <1>7, <2>2, <3>1, <3>2, <4>2, ChargedFinite
    <3>3. CASE j # k \/ i # m
      <4>1. Charged(j, i)' = Charged(j, i)
        BY <1>1, <1>6, <3>3 DEF Charged
      <4> QED
        BY <1>1, <1>7, <3>1, <3>3, <4>1
    <3> QED
      BY <3>2, <3>3
  <2> QED
    BY <2>1, <2>2
<1> QED
  BY <1>8, <1>9, <1>10, <1>11, <1>12, <1>13 DEF KeyInv

LEMMA UnreachableStep ==
  ASSUME KeyInv, NEW v \in Verifications, Unreachable(v)
  PROVE  KeyInv'
<1>1. /\ vcall[v].at \in {"sent", "charging"} \/ (vcall[v].at = "answered" /\ vcall[v].status = 200)
      /\ Answered(v, 503)
      /\ rowLock' = [k \in VKeys |-> IF rowLock[k] = v THEN NoOne ELSE rowLock[k]]
      /\ UNCHANGED <<vkeys, usage, quotaNow, served>>
  BY DEF Unreachable
<1>2. vcall[v] # Idle /\ vcall[v] \in QCall
  BY <1>1 DEF KeyInv, QuotaTypes, Idle
<1>3. QuotaTypes /\ rowLock \in [VKeys -> Verifications \cup {NoOne}]
  BY DEF KeyInv, QuotaTypes
<1>4. /\ vcall' \in [Verifications -> {Idle} \cup QCall] /\ vcall'[v] \in QCall
      /\ vcall'[v].at = "answered" /\ vcall'[v].status = 503
      /\ vcall'[v].key = vcall[v].key /\ vcall'[v].month = vcall[v].month
      /\ vcall'[v].genuine = vcall[v].genuine /\ vcall'[v].late = vcall[v].late
      /\ \A w \in Verifications \ {v} : vcall'[w] = vcall[w]
  BY <1>1, <1>2, <1>3, AnsweredCall
<1>5. QuotaTypes'
  BY <1>1, <1>3, <1>4 DEF QuotaTypes
<1>6. LocksHeld'
  <2>1. \A w \in Verifications : vcall[w].at = "charging" => vcall[w].key \in VKeys
    BY <1>3 DEF QuotaTypes, QCall, Idle
  <2> QED
    BY <1>1, <1>3, <1>4, <2>1 DEF KeyInv, LocksHeld
<1>7. KeysKnown' /\ CountersCapped'
  BY <1>1, <1>2, <1>4 DEF KeyInv, KeysKnown, CountersCapped
<1>8. RevocationSeen'
  BY <1>1, <1>2, <1>4 DEF KeyInv, RevocationSeen
<1>9. CountsCover'
  <2> SUFFICES ASSUME NEW j \in VKeys, NEW i \in Months
               PROVE  served'[j][i] + Cardinality(Charged(j, i)') <= usage'[j][i]
    BY DEF CountsCover
  <2>1. Charged(j, i)' \subseteq Charged(j, i)
    BY <1>4 DEF Charged
  <2>2. Cardinality(Charged(j, i)') <= Cardinality(Charged(j, i)) /\ Cardinality(Charged(j, i)') \in Nat
    BY <2>1, ChargedFinite, FS_Subset, FS_CardinalityType
  <2>3. served[j][i] + Cardinality(Charged(j, i)) <= usage[j][i] /\ served[j][i] \in Nat /\ usage[j][i] \in Nat
    BY QuotaBounds DEF KeyInv, CountsCover, QuotaTypes
  <2> QED
    BY <1>1, <2>2, <2>3, ChargedFinite
<1> QED
  BY <1>5, <1>6, <1>7, <1>8, <1>9 DEF KeyInv

LEMMA EnforceStep ==
  ASSUME KeyInv, NEW v \in Verifications, Enforce(v)
  PROVE  KeyInv'
<1> DEFINE k == vcall[v].key
           m == vcall[v].month
<1>1. /\ vcall[v].at = "answered" /\ vcall' = [vcall EXCEPT ![v] = Idle]
      /\ served' = IF vcall[v].status = 200 THEN [served EXCEPT ![k][m] = @ + 1] ELSE served
      /\ UNCHANGED <<vkeys, usage, rowLock, quotaNow>>
  BY DEF Enforce
<1>2. vcall[v] \in QCall /\ k \in VKeys /\ m \in Months
  BY <1>1 DEF KeyInv, QuotaTypes, Idle, QCall
<1>3. /\ vcall' \in [Verifications -> {Idle} \cup QCall] /\ vcall'[v] = Idle
      /\ \A w \in Verifications \ {v} : vcall'[w] = vcall[w]
  BY <1>1 DEF KeyInv, QuotaTypes
<1>4. Idle.at = "idle"
  BY DEF Idle
<1>5. /\ served' \in [VKeys -> [Months -> Nat]]
      /\ served'[k][m] = IF vcall[v].status = 200 THEN served[k][m] + 1 ELSE served[k][m]
      /\ \A j \in VKeys, i \in Months : j # k \/ i # m => served'[j][i] = served[j][i]
  BY <1>1, <1>2 DEF KeyInv, QuotaTypes
<1>6. QuotaTypes'
  BY <1>1, <1>3, <1>5 DEF KeyInv, QuotaTypes
<1>7. LocksHeld'
  <2>1. \A j \in VKeys : rowLock[j] # NoOne => rowLock[j] \in Verifications \ {v}
    BY <1>1 DEF KeyInv, LocksHeld, QuotaTypes
  <2> QED
    BY <1>1, <1>3, <1>4, <2>1 DEF KeyInv, LocksHeld
<1>8. KeysKnown' /\ CountersCapped' /\ RevocationSeen'
  BY <1>1, <1>3 DEF KeyInv, KeysKnown, CountersCapped, RevocationSeen
<1>9. CountsCover'
  <2> SUFFICES ASSUME NEW j \in VKeys, NEW i \in Months
               PROVE  served'[j][i] + Cardinality(Charged(j, i)') <= usage'[j][i]
    BY DEF CountsCover
  <2>3. served[j][i] + Cardinality(Charged(j, i)) <= usage[j][i] /\ served[j][i] \in Nat /\ usage[j][i] \in Nat
    BY QuotaBounds DEF KeyInv, CountsCover, QuotaTypes
  <2>1. CASE vcall[v].status = 200 /\ j = k /\ i = m
    <3>1. v \in Charged(j, i) /\ Charged(j, i)' = Charged(j, i) \ {v}
      BY <1>1, <1>3, <1>4, <2>1 DEF Charged
    <3>2. Cardinality(Charged(j, i)') = Cardinality(Charged(j, i)) - 1
      BY <3>1, ChargedFinite, FS_RemoveElement
    <3> QED
      BY <1>1, <1>5, <2>1, <2>3, <3>2, ChargedFinite
  <2>2. CASE ~(vcall[v].status = 200 /\ j = k /\ i = m)
    <3>1. Charged(j, i)' = Charged(j, i)
      BY <1>1, <1>3, <1>4, <2>2 DEF Charged
    <3>2. served'[j][i] = served[j][i]
      BY <1>5, <2>2
    <3> QED
      BY <1>1, <2>3, <3>1, <3>2
  <2> QED
    BY <2>1, <2>2
<1> QED
  BY <1>6, <1>7, <1>8, <1>9 DEF KeyInv

LEMMA QuotaStutter ==
  ASSUME KeyInv, UNCHANGED <<vkeys, usage, rowLock, vcall, served>>, quotaNow' \in 0 .. MaxQuotaTime
  PROVE  KeyInv'
<1>1. QuotaTypes' /\ LocksHeld' /\ KeysKnown' /\ CountersCapped' /\ RevocationSeen'
  BY DEF KeyInv, QuotaTypes, LocksHeld, KeysKnown, CountersCapped, RevocationSeen
<1>2. CountsCover'
  BY DEF KeyInv, CountsCover, Charged
<1> QED
  BY <1>1, <1>2 DEF KeyInv

LEMMA KeyStep ==
  ASSUME KeyInv, [QuotaNext]_quotaVars
  PROVE  KeyInv'
<1>0. quotaNow \in 0 .. MaxQuotaTime
  BY DEF KeyInv, QuotaTypes
<1>1. CASE StartProcess \/ \E p \in 1 .. MaxProcesses : StopProcess(p) \/ VerifyUnauthenticated(p)
  BY <1>0, <1>1, QuotaStutter DEF StartProcess, StopProcess, VerifyUnauthenticated
<1>2. CASE QuotaTick
  BY <1>0, <1>2, QuotaStutter, QuotaBounds DEF QuotaTick
<1>3. CASE UNCHANGED quotaVars
  BY <1>0, <1>3, QuotaStutter DEF quotaVars
<1> QED
  BY <1>1, <1>2, <1>3, CreateStep, RevokeStep, ChargeBackendStep, FindActiveStep,
     ChargeUsageStep, UnreachableStep, EnforceStep DEF QuotaNext, QuotaWorks

-----------------------------------------------------------------------------
(* The limit of callers without a key.                                     *)

LEMMA AfterFinite ==
  ASSUME NEW s \in Seq(Int), NEW t \in Int
  PROVE  IsFiniteSet(After(s, t)) /\ Cardinality(After(s, t)) \in Nat
<1>1. IsFiniteSet(DOMAIN s)
  <2>1. DOMAIN s = 1 .. Len(s) /\ Len(s) \in Nat
    OBVIOUS
  <2> QED
    BY <2>1, FS_Interval
<1> QED
  BY <1>1, FS_Subset, FS_CardinalityType DEF After

LEMMA AfterAppend ==
  ASSUME NEW s \in Seq(Int), NEW t \in Int, NEW x \in Int
  PROVE  Cardinality(After(Append(s, x), t)) =
           IF x > t THEN Cardinality(After(s, t)) + 1 ELSE Cardinality(After(s, t))
<1>1. /\ DOMAIN Append(s, x) = DOMAIN s \cup {Len(s) + 1}
      /\ Len(s) + 1 \notin DOMAIN s
      /\ Append(s, x)[Len(s) + 1] = x
      /\ \A i \in DOMAIN s : Append(s, x)[i] = s[i]
  OBVIOUS
<1>2. CASE x > t
  <2>1. After(Append(s, x), t) = After(s, t) \cup {Len(s) + 1} /\ Len(s) + 1 \notin After(s, t)
    BY <1>1, <1>2 DEF After
  <2> QED
    BY <1>2, <2>1, AfterFinite, FS_AddElement
<1>3. CASE ~(x > t)
  <2>1. After(Append(s, x), t) = After(s, t)
    BY <1>1, <1>3 DEF After
  <2> QED
    BY <1>3, <2>1
<1> QED
  BY <1>2, <1>3

LEMMA ProcessTypes ==
  ASSUME LimitsInv
  PROVE  /\ \A p \in DOMAIN processes :
              /\ processes[p] \in VProcess
              /\ processes[p].up \in BOOLEAN /\ processes[p].until \in Int
              /\ processes[p].hits \in [DOMAIN Limits -> Seq(Int)]
              /\ \A i \in DOMAIN Limits : processes[p].hits[i] \in Seq(Int)
         /\ \A j \in DOMAIN servedAt : servedAt[j].at \in Int
<1>1. \A p \in DOMAIN processes : processes[p] \in VProcess
  BY DEF LimitsInv
<1>2. \A j \in DOMAIN servedAt : servedAt[j] \in Service
  BY DEF LimitsInv
<1>3. \A p \in DOMAIN processes :
        /\ processes[p].up \in BOOLEAN /\ processes[p].until \in Int
        /\ processes[p].hits \in [DOMAIN Limits -> Seq(Int)]
  BY <1>1 DEF VProcess
<1>4. \A j \in DOMAIN servedAt : servedAt[j].at \in Int
  BY <1>2 DEF Service
<1> QED
  BY <1>1, <1>3, <1>4

\* A process after it stopped or served.
LEMMA ProcessMoves ==
  ASSUME LimitsInv, NEW p \in DOMAIN processes, NEW x \in VProcess,
         processes' = [processes EXCEPT ![p] = x]
  PROVE  /\ processes' \in Seq(VProcess) /\ DOMAIN processes' = DOMAIN processes
         /\ processes'[p] = x
         /\ \A q \in DOMAIN processes : q # p => processes'[q] = processes[q]
<1>1. processes \in Seq(VProcess)
  BY DEF LimitsInv
<1> QED
  BY <1>1

LEMMA UpToN == ASSUME NEW n \in Nat PROVE IsFiniteSet(1 .. n) /\ Cardinality(1 .. n) = n
  BY FS_Interval

LEMMA ByAfterFinite ==
  ASSUME NEW log \in Seq(Service), NEW p, NEW t \in Int
  PROVE  IsFiniteSet(ByAfter(log, p, t)) /\ Cardinality(ByAfter(log, p, t)) \in Nat
<1>1. IsFiniteSet(DOMAIN log)
  <2>1. DOMAIN log = 1 .. Len(log) /\ Len(log) \in Nat
    OBVIOUS
  <2> QED
    BY <2>1, FS_Interval
<1> QED
  BY <1>1, FS_Subset, FS_CardinalityType DEF ByAfter

\* A verification more counts for the process that served it.
LEMMA ByAfterAppend ==
  ASSUME NEW log \in Seq(Service), NEW p, NEW t \in Int, NEW x \in Service
  PROVE  Cardinality(ByAfter(Append(log, x), p, t)) =
           IF x.by = p /\ x.at > t THEN Cardinality(ByAfter(log, p, t)) + 1
                                   ELSE Cardinality(ByAfter(log, p, t))
<1>1. /\ DOMAIN Append(log, x) = DOMAIN log \cup {Len(log) + 1}
      /\ Len(log) + 1 \notin DOMAIN log
      /\ Append(log, x)[Len(log) + 1] = x
      /\ \A i \in DOMAIN log : Append(log, x)[i] = log[i]
  OBVIOUS
<1>2. CASE x.by = p /\ x.at > t
  <2>1. /\ ByAfter(Append(log, x), p, t) = ByAfter(log, p, t) \cup {Len(log) + 1}
        /\ Len(log) + 1 \notin ByAfter(log, p, t)
    BY <1>1, <1>2 DEF ByAfter
  <2> QED
    BY <1>2, <2>1, ByAfterFinite, FS_AddElement
<1>3. CASE ~(x.by = p /\ x.at > t)
  <2>1. ByAfter(Append(log, x), p, t) = ByAfter(log, p, t)
    BY <1>1, <1>3 DEF ByAfter
  <2> QED
    BY <1>3, <2>1
<1> QED
  BY <1>2, <1>3

\* When each of finitely many processes served at most n, all of them served at
\* most n times their number: each verification has its process and its rank
\* among those of that process.
LEMMA ServedTogether ==
  ASSUME NEW log \in Seq(Service), NEW t \in Int, NEW n \in Nat, NEW R, IsFiniteSet(R),
         NEW S, S = {j \in DOMAIN log : log[j].at > t},
         \A j \in S : log[j].by \in R,
         \A p \in R : Cardinality(ByAfter(log, p, t)) <= n
  PROVE  Cardinality(S) <= n * Cardinality(R)
<1> DEFINE upTo(j) == {k \in ByAfter(log, log[j].by, t) : k <= j}
           rank(j) == Cardinality(upTo(j))
           f == [j \in S |-> <<log[j].by, rank(j)>>]
<1>1. DOMAIN log = 1 .. Len(log) /\ Len(log) \in Nat /\ S \subseteq DOMAIN log
  OBVIOUS
<1>2. ASSUME NEW j \in S
      PROVE  /\ IsFiniteSet(upTo(j)) /\ rank(j) \in 1 .. n
             /\ log[j].by \in R /\ j \in ByAfter(log, log[j].by, t)
  <2>1. j \in ByAfter(log, log[j].by, t) /\ log[j].by \in R /\ j \in Nat
    BY <1>1 DEF ByAfter
  <2>2. /\ IsFiniteSet(ByAfter(log, log[j].by, t)) /\ Cardinality(ByAfter(log, log[j].by, t)) \in Nat
        /\ Cardinality(ByAfter(log, log[j].by, t)) <= n
    BY <2>1, ByAfterFinite
  <2>3. upTo(j) \subseteq ByAfter(log, log[j].by, t) /\ j \in upTo(j)
    BY <2>1
  <2> HIDE DEF upTo
  <2>4. /\ IsFiniteSet(upTo(j)) /\ Cardinality(upTo(j)) \in Nat
        /\ Cardinality(upTo(j)) <= Cardinality(ByAfter(log, log[j].by, t))
    BY <2>2, <2>3, FS_Subset, FS_CardinalityType
  <2>5. Cardinality(upTo(j)) # 0
    BY <2>3, <2>4, FS_EmptySet
  <2> QED
    BY <2>1, <2>2, <2>4, <2>5
<1>3. ASSUME NEW j \in S, NEW k \in S, log[j].by = log[k].by, j < k
      PROVE  rank(j) < rank(k)
  <2>1. k \in upTo(k) /\ k \notin upTo(j) /\ upTo(j) \subseteq upTo(k)
    BY <1>1, <1>2, <1>3 DEF ByAfter
  <2> HIDE DEF upTo
  <2>2. /\ IsFiniteSet(upTo(j)) /\ IsFiniteSet(upTo(k))
        /\ Cardinality(upTo(j)) \in Nat /\ Cardinality(upTo(k)) \in Nat
    BY <1>2, FS_CardinalityType
  <2>3. Cardinality(upTo(j) \cup {k}) = Cardinality(upTo(j)) + 1
    BY <2>1, <2>2, FS_AddElement
  <2>4. Cardinality(upTo(j) \cup {k}) <= Cardinality(upTo(k))
    BY <2>1, <2>2, FS_Subset
  <2> QED
    BY <2>2, <2>3, <2>4
<1> HIDE DEF rank, upTo
<1>4. f \in [S -> R \X (1 .. n)]
  BY <1>2
<1>5. ASSUME NEW j \in S, NEW k \in S, f[j] = f[k] PROVE j = k
  <2>1. log[j].by = log[k].by /\ rank(j) = rank(k) /\ rank(j) \in Nat
    BY <1>2, <1>5
  <2>2. ~(j < k) /\ ~(k < j)
    BY <1>3, <2>1
  <2>3. j \in Nat /\ k \in Nat
    BY <1>1
  <2> QED
    BY <2>2, <2>3
<1>6. f \in Injection(S, R \X (1 .. n))
  <2> HIDE DEF f
  <2> QED
    BY <1>4, <1>5 DEF Injection, IsInjective
<1>7. /\ IsFiniteSet(R \X (1 .. n))
      /\ Cardinality(R \X (1 .. n)) = Cardinality(R) * Cardinality(1 .. n)
  <2>1. IsFiniteSet(1 .. n)
    BY UpToN
  <2> QED
    BY <2>1, FS_Product
<1>8. Cardinality(1 .. n) = n /\ Cardinality(R) \in Nat
  BY UpToN, FS_CardinalityType
<1>9. Cardinality(S) <= Cardinality(R \X (1 .. n))
  <2> HIDE DEF f
  <2> QED
    BY <1>6, <1>7, FS_Injection
<1> QED
  BY <1>7, <1>8, <1>9

\* The invariant bounds every process and, together with when they ran, all.
LEMMA LimitsSuffice == LimitsInv => UnauthenticatedLimited
<1> SUFFICES ASSUME LimitsInv, NEW i \in DOMAIN Limits
             PROVE  /\ \A p \in DOMAIN processes :
                         Cardinality(ServedBy(p, Limits[i].window)) <= Limits[i].n
                    /\ Cardinality(ServedIn(Limits[i].window))
                         <= Limits[i].n * Cardinality(RanIn(Limits[i].window))
  BY DEF UnauthenticatedLimited
<1> DEFINE t == quotaNow - Limits[i].window
           R == RanIn(Limits[i].window)
<1>1. t \in Int /\ Limits[i].n \in Nat /\ servedAt \in Seq(Service) /\ processes \in Seq(VProcess)
  BY QuotaAssumption DEF LimitsInv
<1>2. \A p : ServedBy(p, Limits[i].window) = ByAfter(servedAt, p, t)
  BY DEF ServedBy, ByAfter
<1>3. ASSUME NEW p \in DOMAIN processes PROVE Cardinality(ByAfter(servedAt, p, t)) <= Limits[i].n
  <2>1. processes[p].hits[i] \in Seq(Int)
    BY ProcessTypes
  <2>2. Cardinality(ByAfter(servedAt, p, t)) \in Nat /\ Cardinality(After(processes[p].hits[i], t)) \in Nat
    BY <1>1, <2>1, AfterFinite, ByAfterFinite
  <2>3. /\ Cardinality(ByAfter(servedAt, p, t)) <= Cardinality(After(processes[p].hits[i], t))
        /\ Cardinality(After(processes[p].hits[i], t)) <= Limits[i].n
    BY <1>1 DEF LimitsInv
  <2> QED
    BY <1>1, <2>2, <2>3
<1>4. R \subseteq DOMAIN processes /\ IsFiniteSet(R)
  <2>1. IsFiniteSet(DOMAIN processes)
    <3>1. DOMAIN processes = 1 .. Len(processes) /\ Len(processes) \in Nat
      BY <1>1
    <3> QED
      BY <3>1, FS_Interval
  <2>2. R \subseteq DOMAIN processes
    BY DEF RanIn
  <2> QED
    BY <2>1, <2>2, FS_Subset
<1>5. \A j \in ServedIn(Limits[i].window) : servedAt[j].by \in R
  <2> SUFFICES ASSUME NEW j \in DOMAIN servedAt, servedAt[j].at > t PROVE servedAt[j].by \in R
    BY DEF ServedIn
  <2>1. /\ servedAt[j].by \in DOMAIN processes
        /\ processes[servedAt[j].by].up \/ servedAt[j].at <= processes[servedAt[j].by].until
    BY DEF LimitsInv
  <2>2. servedAt[j].at \in Int /\ processes[servedAt[j].by].until \in Int
    BY <2>1, ProcessTypes
  <2> QED
    BY <1>1, <2>1, <2>2 DEF RanIn
<1>6. ServedIn(Limits[i].window) = {j \in DOMAIN servedAt : servedAt[j].at > t}
  BY DEF ServedIn
<1>7. \A p \in R : Cardinality(ByAfter(servedAt, p, t)) <= Limits[i].n
  BY <1>3, <1>4
<1> HIDE DEF t, R
<1>8. Cardinality(ServedIn(Limits[i].window)) <= Limits[i].n * Cardinality(R)
  BY <1>1, <1>4, <1>5, <1>6, <1>7, ServedTogether
<1> QED
  BY <1>2, <1>3, <1>8 DEF R

LEMMA LimitsStart == QuotaInit => LimitsInv
<1> SUFFICES ASSUME QuotaInit PROVE LimitsInv
  OBVIOUS
<1>1. \A i \in DOMAIN Limits : Limits[i].n \in Nat
  BY QuotaAssumption
<1>2. Cardinality({}) = 0
  BY FS_EmptySet
<1>3. Fresh \in VProcess /\ \A i \in DOMAIN Limits : Fresh.hits[i] = <<>>
  BY DEF Fresh, VProcess
<1>4. /\ servedAt = <<>> /\ quotaNow = 0 /\ processes = <<Fresh>>
      /\ DOMAIN processes = {1} /\ processes[1] = Fresh
      /\ servedAt \in Seq(Service) /\ processes \in Seq(VProcess)
  BY <1>3 DEF QuotaInit
<1>5. /\ \A t : After(<<>>, t) = {}
      /\ \A p, t : ByAfter(<<>>, p, t) = {}
  BY DEF After, ByAfter
<1>6. ASSUME NEW i \in DOMAIN Limits, NEW t
      PROVE  /\ Cardinality(ByAfter(servedAt, 1, t)) = 0
             /\ Cardinality(After(processes[1].hits[i], t)) = 0
  BY <1>2, <1>3, <1>4, <1>5
<1>7. \A i \in DOMAIN Limits, t \in Int :
        Cardinality(ByAfter(servedAt, 1, t)) <= Cardinality(After(processes[1].hits[i], t))
  BY <1>6
<1>8. \A i \in DOMAIN Limits :
        Cardinality(After(processes[1].hits[i], quotaNow - Limits[i].window)) <= Limits[i].n
  BY <1>1, <1>6
<1>9. quotaNow \in Int /\ DOMAIN servedAt = {}
  BY <1>4
<1> QED
  BY <1>4, <1>7, <1>8, <1>9 DEF LimitsInv

\* A process that starts has counted nothing.
LEMMA StartProcessStep == ASSUME LimitsInv, StartProcess PROVE LimitsInv'
<1>1. /\ processes' = Append(processes, Fresh) /\ UNCHANGED <<quotaNow, servedAt>>
      /\ processes \in Seq(VProcess)
  BY DEF StartProcess, LimitsInv
<1>2. Fresh \in VProcess /\ \A i \in DOMAIN Limits : Fresh.hits[i] = <<>>
  BY DEF Fresh, VProcess
<1> DEFINE new == Len(processes) + 1
<1>3. /\ processes' \in Seq(VProcess)
      /\ DOMAIN processes' = DOMAIN processes \cup {new} /\ new \notin DOMAIN processes
      /\ \A p \in DOMAIN processes : processes'[p] = processes[p]
      /\ processes'[new] = Fresh
  BY <1>1, <1>2
<1> HIDE DEF new
<1>4. \A j \in DOMAIN servedAt' :
       /\ servedAt'[j].by \in DOMAIN processes' /\ servedAt'[j].at <= quotaNow'
       /\ processes'[servedAt'[j].by].up \/ servedAt'[j].at <= processes'[servedAt'[j].by].until
  BY <1>1, <1>3 DEF LimitsInv
<1>5. Cardinality({}) = 0 /\ \A i \in DOMAIN Limits : Limits[i].n \in Nat
  BY FS_EmptySet, QuotaAssumption
<1>6. \A i \in DOMAIN Limits : \A t : Cardinality(After(processes'[new].hits[i], t)) = 0
  <2>1. \A t : After(<<>>, t) = {}
    BY DEF After
  <2> QED
    BY <1>2, <1>3, <1>5, <2>1
<1>7. \A t : Cardinality(ByAfter(servedAt', new, t)) = 0
  <2>1. \A t : ByAfter(servedAt', new, t) = {}
    BY <1>1, <1>3 DEF LimitsInv, ByAfter
  <2> QED
    BY <1>5, <2>1
<1>8. \A p \in DOMAIN processes', i \in DOMAIN Limits, t \in Int :
        Cardinality(ByAfter(servedAt', p, t)) <= Cardinality(After(processes'[p].hits[i], t))
  <2> SUFFICES ASSUME NEW p \in DOMAIN processes', NEW i \in DOMAIN Limits, NEW t \in Int
               PROVE  Cardinality(ByAfter(servedAt', p, t)) <= Cardinality(After(processes'[p].hits[i], t))
    OBVIOUS
  <2>1. CASE p = new
    BY <1>6, <1>7, <2>1
  <2>2. CASE p \in DOMAIN processes
    BY <1>1, <1>3, <2>2 DEF LimitsInv
  <2> QED
    BY <1>3, <2>1, <2>2
<1>9. \A p \in DOMAIN processes', i \in DOMAIN Limits :
        Cardinality(After(processes'[p].hits[i], quotaNow' - Limits[i].window)) <= Limits[i].n
  <2> SUFFICES ASSUME NEW p \in DOMAIN processes', NEW i \in DOMAIN Limits
               PROVE  Cardinality(After(processes'[p].hits[i], quotaNow' - Limits[i].window)) <= Limits[i].n
    OBVIOUS
  <2>1. CASE p = new
    BY <1>5, <1>6, <2>1
  <2>2. CASE p \in DOMAIN processes
    BY <1>1, <1>3, <2>2 DEF LimitsInv
  <2> QED
    BY <1>3, <2>1, <2>2
<1>10. quotaNow' \in Int /\ servedAt' \in Seq(Service)
  BY <1>1 DEF LimitsInv
<1> QED
  BY <1>3, <1>4, <1>8, <1>9, <1>10 DEF LimitsInv, After, ByAfter

\* What a process has served, it served before it stops.
LEMMA StopProcessStep == ASSUME LimitsInv, NEW p, StopProcess(p) PROVE LimitsInv'
<1>1. /\ p \in DOMAIN processes /\ processes \in Seq(VProcess) /\ quotaNow \in Int
      /\ processes' = [processes EXCEPT ![p] = [@ EXCEPT !.up = FALSE, !.until = quotaNow]]
      /\ UNCHANGED <<quotaNow, servedAt>>
  BY DEF StopProcess, LimitsInv
<1>2. processes[p] \in VProcess
  BY <1>1, ProcessTypes
<1> DEFINE stopped == [processes[p] EXCEPT !.up = FALSE, !.until = quotaNow]
<1>3. stopped \in VProcess /\ stopped.until = quotaNow /\ stopped.hits = processes[p].hits
  BY <1>1, <1>2 DEF VProcess
<1>a. processes' = [processes EXCEPT ![p] = stopped]
  BY <1>1
<1> HIDE DEF stopped
<1>b. /\ processes' \in Seq(VProcess) /\ DOMAIN processes' = DOMAIN processes
      /\ processes'[p] = stopped
      /\ \A q \in DOMAIN processes : q # p => processes'[q] = processes[q]
  BY <1>1, <1>3, <1>a, ProcessMoves
<1>4. /\ processes' \in Seq(VProcess) /\ DOMAIN processes' = DOMAIN processes
      /\ processes'[p].until = quotaNow /\ processes'[p].hits = processes[p].hits
      /\ \A q \in DOMAIN processes : q # p => processes'[q] = processes[q]
  BY <1>3, <1>b
<1>5. \A q \in DOMAIN processes : processes'[q].hits = processes[q].hits
  BY <1>4
<1>6. \A j \in DOMAIN servedAt' :
       /\ servedAt'[j].by \in DOMAIN processes' /\ servedAt'[j].at <= quotaNow'
       /\ processes'[servedAt'[j].by].up \/ servedAt'[j].at <= processes'[servedAt'[j].by].until
  <2> SUFFICES ASSUME NEW j \in DOMAIN servedAt
               PROVE  /\ servedAt[j].by \in DOMAIN processes' /\ servedAt[j].at <= quotaNow
                      /\ processes'[servedAt[j].by].up \/ servedAt[j].at <= processes'[servedAt[j].by].until
    BY <1>1
  <2>1. /\ servedAt[j].by \in DOMAIN processes /\ servedAt[j].at <= quotaNow
        /\ processes[servedAt[j].by].up \/ servedAt[j].at <= processes[servedAt[j].by].until
    BY DEF LimitsInv
  <2>2. CASE servedAt[j].by = p
    BY <1>4, <2>1, <2>2
  <2>3. CASE servedAt[j].by # p
    BY <1>4, <2>1, <2>3
  <2> QED
    BY <2>2, <2>3
<1>7. \A q \in DOMAIN processes', i \in DOMAIN Limits, t \in Int :
        Cardinality(ByAfter(servedAt', q, t)) <= Cardinality(After(processes'[q].hits[i], t))
  BY <1>1, <1>4, <1>5 DEF LimitsInv
<1>8. \A q \in DOMAIN processes', i \in DOMAIN Limits :
        Cardinality(After(processes'[q].hits[i], quotaNow' - Limits[i].window)) <= Limits[i].n
  BY <1>1, <1>4, <1>5 DEF LimitsInv
<1>9. quotaNow' \in Int /\ servedAt' \in Seq(Service)
  BY <1>1 DEF LimitsInv
<1> QED
  BY <1>4, <1>6, <1>7, <1>8, <1>9 DEF LimitsInv, After, ByAfter

\* What a process lets through is recorded by all items of its limiter, and an
\* item that has no room records nothing.
LEMMA UnauthenticatedStep == ASSUME LimitsInv, NEW p, VerifyUnauthenticated(p) PROVE LimitsInv'
<1> DEFINE entry == [at |-> quotaNow, by |-> p]
<1>1. /\ p \in DOMAIN processes /\ processes[p].up
      /\ processes \in Seq(VProcess) /\ quotaNow \in Int /\ servedAt \in Seq(Service)
      /\ processes' = [processes EXCEPT ![p] = [@ EXCEPT !.hits = HitsAfter(p)]]
      /\ servedAt' = IF Allowed(p) THEN Append(servedAt, entry) ELSE servedAt
      /\ quotaNow' = quotaNow
  BY DEF VerifyUnauthenticated, LimitsInv
<1>2. entry \in Service /\ entry.at = quotaNow /\ entry.by = p
  BY <1>1 DEF Service
<1> HIDE DEF entry
<1>3. processes[p] \in VProcess /\ \A i \in DOMAIN Limits : processes[p].hits[i] \in Seq(Int)
  BY <1>1, ProcessTypes
<1>4. HitsAfter(p) \in [DOMAIN Limits -> Seq(Int)]
  BY <1>1, <1>3 DEF HitsAfter
<1> DEFINE moved == [processes[p] EXCEPT !.hits = HitsAfter(p)]
<1>5. moved \in VProcess /\ moved.up = processes[p].up /\ moved.hits = HitsAfter(p)
  BY <1>3, <1>4 DEF VProcess
<1>a. processes' = [processes EXCEPT ![p] = moved]
  BY <1>1
<1> HIDE DEF moved
<1>b. /\ processes' \in Seq(VProcess) /\ DOMAIN processes' = DOMAIN processes
      /\ processes'[p] = moved
      /\ \A q \in DOMAIN processes : q # p => processes'[q] = processes[q]
  BY <1>1, <1>5, <1>a, ProcessMoves
<1>6. /\ processes' \in Seq(VProcess) /\ DOMAIN processes' = DOMAIN processes
      /\ processes'[p].up /\ processes'[p].hits = HitsAfter(p)
      /\ \A q \in DOMAIN processes : q # p => processes'[q] = processes[q]
  BY <1>1, <1>5, <1>b
<1>7. ASSUME NEW i \in DOMAIN Limits
      PROVE  /\ i \in ItemsHit(p) => Hit(p, i)
             /\ Allowed(p) => i \in ItemsHit(p)
             /\ HitsAfter(p)[i] = IF i \in ItemsHit(p) THEN Append(processes[p].hits[i], quotaNow)
                                                      ELSE processes[p].hits[i]
  <2>1. PICK n \in Nat : DOMAIN Limits = 1 .. n
    BY QuotaAssumption
  <2>2. i \in 1 .. i /\ 1 .. i \subseteq DOMAIN Limits
    BY <2>1
  <2>3. (i \in ItemsHit(p) => Hit(p, i)) /\ (Allowed(p) => i \in ItemsHit(p))
    BY <2>2 DEF ItemsHit, Allowed
  <2> QED
    BY <2>3 DEF HitsAfter
<1>8. servedAt' \in Seq(Service)
  BY <1>1, <1>2
<1>9. \A j \in DOMAIN servedAt' :
       /\ servedAt'[j].by \in DOMAIN processes' /\ servedAt'[j].at <= quotaNow'
       /\ processes'[servedAt'[j].by].up \/ servedAt'[j].at <= processes'[servedAt'[j].by].until
  <2> SUFFICES ASSUME NEW j \in DOMAIN servedAt'
               PROVE  /\ servedAt'[j].by \in DOMAIN processes /\ servedAt'[j].at <= quotaNow
                      /\ processes'[servedAt'[j].by].up \/ servedAt'[j].at <= processes'[servedAt'[j].by].until
    BY <1>1, <1>6
  <2>1. CASE j \in DOMAIN servedAt /\ servedAt'[j] = servedAt[j]
    <3>1. /\ servedAt[j].by \in DOMAIN processes /\ servedAt[j].at <= quotaNow
          /\ processes[servedAt[j].by].up \/ servedAt[j].at <= processes[servedAt[j].by].until
      BY <2>1 DEF LimitsInv
    <3>2. CASE servedAt[j].by = p
      BY <1>6, <2>1, <3>1, <3>2
    <3>3. CASE servedAt[j].by # p
      BY <1>6, <2>1, <3>1, <3>3
    <3> QED
      BY <3>2, <3>3
  <2>2. CASE servedAt'[j] = entry
    BY <1>1, <1>2, <1>6, <2>2
  <2>3. (j \in DOMAIN servedAt /\ servedAt'[j] = servedAt[j]) \/ servedAt'[j] = entry
    BY <1>1, <1>2
  <2> QED
    BY <2>1, <2>2, <2>3
<1>10. \A q \in DOMAIN processes', i \in DOMAIN Limits, t \in Int :
        Cardinality(ByAfter(servedAt', q, t)) <= Cardinality(After(processes'[q].hits[i], t))
  <2> SUFFICES ASSUME NEW q \in DOMAIN processes, NEW i \in DOMAIN Limits, NEW t \in Int
               PROVE  Cardinality(ByAfter(servedAt', q, t)) <= Cardinality(After(processes'[q].hits[i], t))
    BY <1>6
  <2>1. /\ Cardinality(ByAfter(servedAt, q, t)) <= Cardinality(After(processes[q].hits[i], t))
        /\ processes[q].hits[i] \in Seq(Int)
    BY <1>1, ProcessTypes DEF LimitsInv
  <2>2. Cardinality(ByAfter(servedAt, q, t)) \in Nat /\ Cardinality(After(processes[q].hits[i], t)) \in Nat
    BY <1>1, <2>1, AfterFinite, ByAfterFinite
  <2>3. Cardinality(ByAfter(Append(servedAt, entry), q, t)) =
          IF q = p /\ quotaNow > t THEN Cardinality(ByAfter(servedAt, q, t)) + 1
                                  ELSE Cardinality(ByAfter(servedAt, q, t))
    BY <1>1, <1>2, ByAfterAppend
  <2>4. Cardinality(After(Append(processes[q].hits[i], quotaNow), t)) =
          IF quotaNow > t THEN Cardinality(After(processes[q].hits[i], t)) + 1
                          ELSE Cardinality(After(processes[q].hits[i], t))
    BY <1>1, <2>1, AfterAppend
  <2>5. CASE q = p
    BY <1>1, <1>6, <1>7, <2>1, <2>2, <2>3, <2>4, <2>5
  <2>6. CASE q # p
    BY <1>1, <1>6, <2>1, <2>3, <2>6
  <2> QED
    BY <2>5, <2>6
<1>c. \A i \in DOMAIN Limits : Limits[i].n \in Nat /\ Limits[i].window \in Nat
  BY QuotaAssumption
<1>11. \A q \in DOMAIN processes', i \in DOMAIN Limits :
        Cardinality(After(processes'[q].hits[i], quotaNow' - Limits[i].window)) <= Limits[i].n
  <2> SUFFICES ASSUME NEW q \in DOMAIN processes, NEW i \in DOMAIN Limits
               PROVE  Cardinality(After(processes'[q].hits[i], quotaNow - Limits[i].window)) <= Limits[i].n
    BY <1>1, <1>6
  <2> DEFINE t == quotaNow - Limits[i].window
             h == processes[q].hits[i]
  <2>1. t \in Int /\ h \in Seq(Int) /\ Limits[i].n \in Nat
    BY <1>1, <1>c, ProcessTypes
  <2>2. Cardinality(After(h, t)) \in Nat /\ Cardinality(After(h, t)) <= Limits[i].n
    BY <2>1, AfterFinite DEF LimitsInv
  <2>3. CASE q = p /\ i \in ItemsHit(p)
    <3>1. processes'[q].hits[i] = Append(h, quotaNow)
      BY <1>6, <1>7, <2>3
    <3>2. Cardinality(After(h, t)) < Limits[i].n
      <4>1. Hit(p, i)
        BY <1>7, <2>3
      <4>2. {j \in DOMAIN h : h[j] > quotaNow - Limits[i].window} = After(h, t)
        BY DEF After
      <4> QED
        BY <2>3, <4>1, <4>2 DEF Hit, InWindow
    <3> HIDE DEF t, h
    <3>3. Cardinality(After(Append(h, quotaNow), t)) <= Cardinality(After(h, t)) + 1
      BY <1>1, <2>1, <2>2, AfterAppend
    <3>4. Append(h, quotaNow) \in Seq(Int)
      BY <1>1, <2>1
    <3>5. Cardinality(After(Append(h, quotaNow), t)) \in Nat
      BY <2>1, <3>4, AfterFinite
    <3>6. Cardinality(After(Append(h, quotaNow), t)) <= Limits[i].n
      BY <2>1, <2>2, <3>2, <3>3, <3>5
    <3> QED
      BY <3>1, <3>6 DEF t
  <2>4. CASE ~(q = p /\ i \in ItemsHit(p))
    <3>1. processes'[q].hits[i] = h
      BY <1>6, <1>7, <2>4
    <3> QED
      BY <2>2, <3>1
  <2> QED
    BY <2>3, <2>4
<1>12. quotaNow' \in Int
  BY <1>1
<1> QED
  BY <1>6, <1>8, <1>9, <1>10, <1>11, <1>12 DEF LimitsInv, After, ByAfter

\* Windows move on: fewer hits lie in them.
LEMMA QuotaTickStep == ASSUME LimitsInv, QuotaTick PROVE LimitsInv'
<1>1. quotaNow' = quotaNow + 1 /\ quotaNow \in Int /\ UNCHANGED <<processes, servedAt>>
  BY DEF QuotaTick, LimitsInv
<1>a. \A i \in DOMAIN Limits : Limits[i].n \in Nat /\ Limits[i].window \in Nat
  BY QuotaAssumption
<1>2. ASSUME NEW p \in DOMAIN processes, NEW i \in DOMAIN Limits
      PROVE  Cardinality(After(processes[p].hits[i], (quotaNow + 1) - Limits[i].window)) <= Limits[i].n
  <2> DEFINE h == processes[p].hits[i]
             t == quotaNow - Limits[i].window
             u == (quotaNow + 1) - Limits[i].window
  <2>1. h \in Seq(Int) /\ t \in Int /\ u \in Int /\ t <= u /\ Limits[i].n \in Nat
    BY <1>1, <1>a, ProcessTypes
  <2>2. Cardinality(After(h, t)) <= Limits[i].n
    BY DEF LimitsInv
  <2> HIDE DEF h, t, u
  <2>3. \A j \in DOMAIN h : h[j] \in Int
    BY <2>1
  <2>4. After(h, u) \subseteq After(h, t)
    BY <2>1, <2>3 DEF After
  <2>5. IsFiniteSet(After(h, t)) /\ Cardinality(After(h, t)) \in Nat /\ Cardinality(After(h, u)) \in Nat
    BY <2>1, AfterFinite
  <2>6. Cardinality(After(h, u)) <= Cardinality(After(h, t))
    BY <2>4, <2>5, FS_Subset
  <2>7. Cardinality(After(h, u)) <= Limits[i].n
    BY <2>1, <2>2, <2>5, <2>6
  <2> QED
    BY <2>7 DEF h, u
<1>3. \A j \in DOMAIN servedAt : servedAt[j].at <= quotaNow + 1
  <2>1. \A j \in DOMAIN servedAt : servedAt[j].at \in Int /\ servedAt[j].at <= quotaNow
    BY ProcessTypes DEF LimitsInv
  <2> QED
    BY <1>1, <2>1
<1>4. /\ quotaNow' \in Int /\ servedAt' \in Seq(Service) /\ processes' \in Seq(VProcess)
      /\ \A j \in DOMAIN servedAt' :
           /\ servedAt'[j].by \in DOMAIN processes' /\ servedAt'[j].at <= quotaNow'
           /\ processes'[servedAt'[j].by].up \/ servedAt'[j].at <= processes'[servedAt'[j].by].until
  BY <1>1, <1>3 DEF LimitsInv
<1>5. \A p \in DOMAIN processes', i \in DOMAIN Limits, t \in Int :
        Cardinality(ByAfter(servedAt', p, t)) <= Cardinality(After(processes'[p].hits[i], t))
  BY <1>1 DEF LimitsInv
<1>6. \A p \in DOMAIN processes', i \in DOMAIN Limits :
        Cardinality(After(processes'[p].hits[i], quotaNow' - Limits[i].window)) <= Limits[i].n
  BY <1>1, <1>2
<1> QED
  BY <1>4, <1>5, <1>6 DEF LimitsInv, After, ByAfter

LEMMA LimitsStep ==
  ASSUME LimitsInv, [QuotaNext]_quotaVars
  PROVE  LimitsInv'
<1>1. CASE UNCHANGED <<processes, servedAt, quotaNow>>
  <2>1. /\ quotaNow' \in Int /\ servedAt' \in Seq(Service) /\ processes' \in Seq(VProcess)
        /\ \A j \in DOMAIN servedAt' :
             /\ servedAt'[j].by \in DOMAIN processes' /\ servedAt'[j].at <= quotaNow'
             /\ processes'[servedAt'[j].by].up \/ servedAt'[j].at <= processes'[servedAt'[j].by].until
    BY <1>1 DEF LimitsInv
  <2>2. \A p \in DOMAIN processes', i \in DOMAIN Limits, t \in Int :
          Cardinality(ByAfter(servedAt', p, t)) <= Cardinality(After(processes'[p].hits[i], t))
    BY <1>1 DEF LimitsInv
  <2>3. \A p \in DOMAIN processes', i \in DOMAIN Limits :
          Cardinality(After(processes'[p].hits[i], quotaNow' - Limits[i].window)) <= Limits[i].n
    BY <1>1 DEF LimitsInv
  <2> QED
    BY <2>1, <2>2, <2>3 DEF LimitsInv, After, ByAfter
<1> QED
  BY <1>1, StartProcessStep, StopProcessStep, UnauthenticatedStep, QuotaTickStep
  DEF QuotaNext, QuotaWorks, quotaVars, CreateVerifierKey, RevokeKey, ChargeBackend, Unreachable,
      FindActive, ChargeUsage, Enforce

\* For every number of keys, callers, months and verifier processes, through
\* races for a row, lost answers and processes that come and go with the counts
\* they keep: no key is served more than allowed, and no address more than the
\* limit by any one process (charge_usage and the verifier's middleware).
THEOREM QuotasHold == QuotaSpec => []QuotaSound
<1>1. KeyInv /\ LimitsInv => QuotaSound
  <2> SUFFICES ASSUME KeyInv, LimitsInv PROVE QuotaSound
    OBVIOUS
  <2>1. DOMAIN vkeys \subseteq VKeys /\ \A k \in DOMAIN vkeys : vkeys[k] \in VKeyRow
    BY QuotaBounds DEF KeyInv, QuotaTypes, VKeys
  <2>2. QuotaTypeOK
    BY <2>1 DEF KeyInv, QuotaTypes, QuotaTypeOK, LocksHeld, VKeyRow
  <2>3. ASSUME NEW k \in VKeys, NEW m \in Months
        PROVE  served[k][m] <= usage[k][m] /\ served[k][m] \in Nat /\ usage[k][m] \in Nat
    BY ChargedFinite, QuotaAssumption DEF KeyInv, QuotaTypes, CountsCover
  <2>4. ASSUME NEW k \in DOMAIN vkeys, NEW m \in Months, vkeys[k].asked # 0
        PROVE  served[k][m] <= IF vkeys[k].asked = -1 THEN FreeTier ELSE vkeys[k].asked
    <3>1. vkeys[k].asked \in Nat \cup {-1} /\ vkeys[k].cap = EffectiveCap(vkeys[k].asked)
      BY <2>1 DEF KeyInv, KeysKnown, VKeyRow
    <3>2. vkeys[k].cap = (IF vkeys[k].asked = -1 THEN FreeTier ELSE vkeys[k].asked)
      BY <2>4, <3>1 DEF EffectiveCap
    <3>3. vkeys[k].cap # NoCap /\ vkeys[k].cap \in Nat
      BY <3>1, <3>2, QuotaAssumption DEF NoCap
    <3>4. usage[k][m] <= vkeys[k].cap
      BY <3>3 DEF KeyInv, CountersCapped
    <3> QED
      BY <2>1, <2>3, <3>2, <3>3, <3>4
  <2>5. \A v \in Verifications :
          vcall[v].at = "answered" /\ vcall[v].status = 402 => vkeys[vcall[v].key].asked # 0
    BY DEF KeyInv, RevocationSeen, Idle
  <2>6. QuotaHolds
    BY <2>3, <2>4, <2>5 DEF QuotaHolds
  <2>7. RevokedKeyServesNothing
    BY DEF KeyInv, RevocationSeen, RevokedKeyServesNothing, Idle
  <2>8. UnauthenticatedLimited
    BY LimitsSuffice
  <2> QED
    BY <2>2, <2>6, <2>7, <2>8 DEF QuotaSound
<1>2. QuotaInit => KeyInv /\ LimitsInv
  BY QuotaStart, LimitsStart
<1>3. KeyInv /\ LimitsInv /\ [QuotaNext]_quotaVars => KeyInv' /\ LimitsInv'
  BY KeyStep, LimitsStep
<1> QED
  BY <1>1, <1>2, <1>3, PTL DEF QuotaSpec

-----------------------------------------------------------------------------
\* The records of the signing keys.
Setting == [id : 0 .. MaxSigningKeys, next : 0 .. MaxSigningKeys]
KeyRow == [pem : 0 .. MaxSigningKeys, created : 0 .. MaxKeyTime, revoked : BOOLEAN]
Signature == [by : KeyIds, over : {"same", "legacy", "rfc8785"}]
Receipt == [key : KeyIds, plain : BOOLEAN, intact : BOOLEAN, sig : Signature]
Rotation == [new : KeyIds, previous : KeyIds, at : Int]

\* A receipt as some worker once signed it, its payload apart.
SignedWell(r) ==
  /\ r.sig.by = r.key
  /\ r.sig.over \in IF r.plain THEN {"same"} ELSE {"rfc8785", "legacy"}

KeyTypes ==
  /\ env \in Setting /\ env.id \in KeyIds /\ env.next \in {None, env.id + 1}
  /\ conf \in [Procs -> Setting]
  /\ registry \in [KeyIds -> KeyRow]
  /\ keyCache \in [Servers -> [KeyIds -> 0 .. MaxSigningKeys]]
  /\ rotating \in [Signers -> Setting]
  /\ rotations \in Seq(Rotation)
  /\ receipts \in Seq(Receipt)
  /\ keyNow \in 1 .. MaxKeyTime

\* Processes run with settings that were deployed, and rotate to a key that is
\* at most the next one.
SettingsDeployed ==
  /\ \A p \in Procs : conf[p] # Off => conf[p].id \in 1 .. env.id
  /\ \A p \in Procs : conf[p].next \in {None} \cup 2 .. (env.id + 1)
  /\ \A w \in Signers : rotating[w] # Off =>
       /\ rotating[w].id \in KeyIds /\ registry[rotating[w].id].pem # None
       /\ rotating[w].next \in 2 .. (env.id + 1)

\* A registered PEM and a cached one are the key's own, and the keys in use are
\* registered, unless none has been.
KeysRegistered ==
  /\ \A k \in KeyIds : registry[k].pem \in {None, k}
  /\ \A s \in Servers, k \in KeyIds : keyCache[s][k] \in {None, registry[k].pem}
  /\ \/ \A k \in 1 .. env.id : registry[k].pem # None
     \/ env.id = 1 /\ \A k \in KeyIds : registry[k].pem = None

\* Receipts are stamped with a key that is or was in use.
ReceiptsStamped ==
  \A r \in DOMAIN receipts : SignedWell(receipts[r]) /\ receipts[r].key \in 1 .. env.id

\* Every rotation is in the registry; a task that may still insert its key
\* found every earlier rotation old enough or revoked.
RotationsKnown ==
  /\ \A i \in DOMAIN rotations :
       /\ registry[rotations[i].new].pem # None
       /\ registry[rotations[i].new].created = rotations[i].at
  /\ \A w \in Signers : rotating[w] # Off /\ registry[rotating[w].next].pem = None =>
       \A i \in DOMAIN rotations :
         \/ keyNow - rotations[i].at >= KeyMaxAge
         \/ registry[rotations[i].new].revoked

KeysInv ==
  KeyTypes /\ SettingsDeployed /\ KeysRegistered /\ ReceiptsStamped /\ RotationsKnown
    /\ RotationsSpaced

-----------------------------------------------------------------------------
LEMMA KeyConstants ==
  /\ MaxSigningKeys \in Nat /\ MaxSigningKeys >= 1 /\ MaxKeyTime \in Nat /\ MaxKeyTime >= 1
  /\ KeyMaxAge \in Nat
  BY KeysAssumption

LEMMA RotationEntry ==
  ASSUME KeyTypes
  PROVE  \A i \in DOMAIN rotations : rotations[i].new \in KeyIds /\ rotations[i].at \in Int
<1>1. rotations \in Seq(Rotation)
  BY DEF KeyTypes
<1>2. \A i \in DOMAIN rotations : rotations[i] \in Rotation
  BY <1>1
<1> QED
  BY <1>2 DEF Rotation

LEMMA NextRotated ==
  ASSUME KeyTypes, SettingsDeployed
  PROVE  \A w \in Signers : rotating[w] # Off => rotating[w].next \in KeyIds
<1>1. \A w \in Signers : rotating[w] \in Setting
  BY DEF KeyTypes
<1>2. \A w \in Signers : rotating[w].next \in 0 .. MaxSigningKeys
  BY <1>1 DEF Setting
<1>3. env.id \in Nat
  BY KeyConstants DEF KeyTypes, KeyIds
<1> QED
  BY <1>2, <1>3, KeyConstants DEF SettingsDeployed, KeyIds

LEMMA KeysStart == KeysInit => KeysInv
<1> SUFFICES ASSUME KeysInit PROVE KeysInv
  OBVIOUS
<1>1. KeyTypes
  BY KeyConstants DEF KeysInit, KeyTypes, Setting, KeyRow, Off, None, KeyIds
<1>2. rotations = <<>> /\ receipts = <<>>
  BY DEF KeysInit
<1>3. SettingsDeployed /\ KeysRegistered
  BY DEF KeysInit, SettingsDeployed, KeysRegistered, Off, None
<1>4. ReceiptsStamped /\ RotationsKnown /\ RotationsSpaced
  BY <1>2 DEF KeysInit, ReceiptsStamped, RotationsKnown, RotationsSpaced
<1> QED
  BY <1>1, <1>3, <1>4 DEF KeysInv

LEMMA StageStep ==
  ASSUME KeysInv, StageNext
  PROVE  KeysInv'
<1>1. /\ env.next = None /\ env.id < MaxSigningKeys
      /\ env' = [env EXCEPT !.next = env.id + 1]
      /\ UNCHANGED <<conf, registry, keyCache, rotating, rotations, receipts, keyNow>>
  BY DEF StageNext
<1>2. env \in Setting /\ env.id \in 1 .. MaxSigningKeys
  BY DEF KeysInv, KeyTypes, KeyIds
<1>3. env.id + 1 \in 0 .. MaxSigningKeys
  BY <1>1, <1>2, KeyConstants
<1>4. env' \in Setting /\ env'.id = env.id /\ env'.next = env.id + 1
  BY <1>1, <1>2, <1>3 DEF Setting
<1>5. KeyTypes'
  BY <1>1, <1>4 DEF KeysInv, KeyTypes
<1>6. SettingsDeployed' /\ KeysRegistered' /\ ReceiptsStamped' /\ RotationsKnown' /\ RotationsSpaced'
  BY <1>1, <1>4 DEF KeysInv, SettingsDeployed, KeysRegistered, ReceiptsStamped, RotationsKnown,
     RotationsSpaced
<1> QED
  BY <1>5, <1>6 DEF KeysInv

LEMMA CutoverStep ==
  ASSUME KeysInv, Cutover
  PROVE  KeysInv'
<1>1. /\ env.next # None /\ registry[env.next].pem # None
      /\ env' = [id |-> env.next, next |-> None]
      /\ UNCHANGED <<conf, registry, keyCache, rotating, rotations, receipts, keyNow>>
  BY DEF Cutover
<1>2. /\ env.next = env.id + 1 /\ env.id \in Nat /\ env.next \in KeyIds
      /\ env'.id = env.id + 1 /\ env'.next = None
  BY <1>1, KeyConstants DEF KeysInv, KeyTypes, Setting, KeyIds, None
<1>3. env' \in Setting
  BY <1>1, <1>2, KeyConstants DEF Setting, KeyIds, None
<1>4. KeyTypes'
  BY <1>1, <1>2, <1>3 DEF KeysInv, KeyTypes
<1>5. SettingsDeployed'
  BY <1>1, <1>2 DEF KeysInv, SettingsDeployed
<1>6. \A k \in 1 .. env.id : registry[k].pem # None
  BY <1>1, <1>2 DEF KeysInv, KeysRegistered
<1>7. KeysRegistered'
  BY <1>1, <1>2, <1>6 DEF KeysInv, KeysRegistered
<1>8. ReceiptsStamped'
  BY <1>1, <1>2 DEF KeysInv, ReceiptsStamped
<1>9. RotationsKnown' /\ RotationsSpaced'
  BY <1>1 DEF KeysInv, RotationsKnown, RotationsSpaced
<1> QED
  BY <1>4, <1>5, <1>7, <1>8, <1>9 DEF KeysInv

LEMMA RevokeKeyStep ==
  ASSUME KeysInv, NEW k \in KeyIds, RevokeSigningKey(k)
  PROVE  KeysInv'
<1>1. /\ registry' = [registry EXCEPT ![k].revoked = TRUE]
      /\ UNCHANGED <<env, conf, keyCache, rotating, rotations, receipts, keyNow>>
  BY DEF RevokeSigningKey
<1>2. registry \in [KeyIds -> KeyRow]
  BY DEF KeysInv, KeyTypes
<1>3. /\ registry' \in [KeyIds -> KeyRow]
      /\ \A j \in KeyIds : /\ registry'[j].pem = registry[j].pem
                           /\ registry'[j].created = registry[j].created
                           /\ registry[j].revoked => registry'[j].revoked
  BY <1>1, <1>2 DEF KeyRow
<1>4. KeyTypes'
  BY <1>1, <1>3 DEF KeysInv, KeyTypes
<1>5. SettingsDeployed' /\ KeysRegistered' /\ ReceiptsStamped'
  BY <1>1, <1>3 DEF KeysInv, SettingsDeployed, KeysRegistered, ReceiptsStamped, KeyTypes, KeyIds
<1>6. \A i \in DOMAIN rotations : rotations[i].new \in KeyIds
  BY RotationEntry DEF KeysInv
<1>7. \A w \in Signers : rotating[w] # Off => rotating[w].next \in KeyIds
  BY NextRotated DEF KeysInv
<1>8. RotationsKnown' /\ RotationsSpaced'
  BY <1>1, <1>3, <1>6, <1>7 DEF KeysInv, RotationsKnown, RotationsSpaced
<1> QED
  BY <1>4, <1>5, <1>8 DEF KeysInv
\* A key is inserted only where there was no row.
LEMMA StartServerStep ==
  ASSUME KeysInv, NEW s \in Servers, NEW reachable \in BOOLEAN, StartServer(s, reachable)
  PROVE  KeysInv'
<1> DEFINE k == env.id
           row == registry[k].pem
<1>1. /\ conf' = [conf EXCEPT ![s] = env]
      /\ registry' = IF reachable /\ row = None
                     THEN [registry EXCEPT ![k] = [@ EXCEPT !.pem = k, !.created = keyNow]]
                     ELSE registry
      /\ keyCache' = [keyCache EXCEPT ![s] =
           [i \in KeyIds |-> IF ~reachable \/ i # k THEN None ELSE IF row # None THEN row ELSE k]]
      /\ UNCHANGED <<env, rotating, rotations, receipts, keyNow>>
  BY DEF StartServer
<1>2. /\ registry \in [KeyIds -> KeyRow] /\ env \in Setting /\ k \in KeyIds
      /\ env.next \in {None, env.id + 1}
      /\ conf \in [Procs -> Setting] /\ keyNow \in 0 .. MaxKeyTime
      /\ keyCache \in [Servers -> [KeyIds -> 0 .. MaxSigningKeys]]
  BY KeyConstants DEF KeysInv, KeyTypes
<1>3. /\ registry' \in [KeyIds -> KeyRow]
      /\ \A j \in KeyIds : registry'[j].revoked = registry[j].revoked
      /\ \A j \in KeyIds : registry[j].pem # None =>
           registry'[j].pem = registry[j].pem /\ registry'[j].created = registry[j].created
      /\ \A j \in KeyIds : j # k => registry'[j] = registry[j]
      /\ \/ registry'[k] = registry[k] /\ ~(reachable /\ row = None)
         \/ registry'[k].pem = k /\ reachable /\ row = None
  <2>1. CASE reachable /\ row = None
    <3> DEFINE d == [registry[k] EXCEPT !.pem = k]
               e == [d EXCEPT !.created = keyNow]
    <3>0. registry[k] \in KeyRow /\ k \in 0 .. MaxSigningKeys
      BY <1>2, KeyConstants DEF KeyIds
    <3>1. d \in KeyRow /\ d.pem = k /\ d.revoked = registry[k].revoked
      BY <3>0 DEF KeyRow
    <3> HIDE DEF d
    <3>2. e \in KeyRow /\ e.pem = k /\ e.revoked = registry[k].revoked
      BY <3>1, <1>2 DEF KeyRow
    <3>3. registry' = [registry EXCEPT ![k] = e]
      BY <1>1, <2>1 DEF d
    <3> HIDE DEF e
    <3>4. registry'[k] = e /\ \A j \in KeyIds : j # k => registry'[j] = registry[j]
      BY <3>3, <1>2
    <3>5. registry' \in [KeyIds -> KeyRow]
      BY <3>2, <3>3, <1>2
    <3> QED
      BY <3>2, <3>4, <3>5, <2>1
  <2>2. CASE ~(reachable /\ row = None)
    <3>1. registry' = registry
      BY <1>1, <2>2
    <3> QED
      BY <3>1, <2>2, <1>2
  <2> QED
    BY <2>1, <2>2
<1>4. keyCache' \in [Servers -> [KeyIds -> 0 .. MaxSigningKeys]]
  <2>1. row \in 0 .. MaxSigningKeys /\ k \in 0 .. MaxSigningKeys
    BY <1>2, KeyConstants DEF KeyRow, KeyIds
  <2>2. [i \in KeyIds |-> IF ~reachable \/ i # k THEN None ELSE IF row # None THEN row ELSE k]
          \in [KeyIds -> 0 .. MaxSigningKeys]
    BY <2>1, KeyConstants DEF None
  <2> QED
    BY <2>2, <1>1, <1>2
<1>5. conf' \in [Procs -> Setting] /\ conf'[s] = env /\ \A p \in Procs : p # s => conf'[p] = conf[p]
  BY <1>1, <1>2 DEF Procs
<1>6. KeyTypes'
  BY <1>1, <1>3, <1>4, <1>5 DEF KeysInv, KeyTypes
<1>7. SettingsDeployed'
  <2>1. \A p \in Procs : conf'[p] # Off => conf'[p].id \in 1 .. env.id
    BY <1>2, <1>5 DEF KeysInv, SettingsDeployed, KeyIds
  <2>2. \A p \in Procs : conf'[p].next \in {None} \cup 2 .. (env.id + 1)
    <3>1. env.id \in 1 .. MaxSigningKeys /\ env.next \in {None, env.id + 1}
      BY <1>2 DEF KeyIds
    <3>2. env.next \in {None} \cup 2 .. (env.id + 1)
      BY <3>1, KeyConstants
    <3>3. \A p \in Procs : p # s => conf'[p].next \in {None} \cup 2 .. (env.id + 1)
      BY <1>5 DEF KeysInv, SettingsDeployed
    <3> QED
      BY <3>2, <3>3, <1>5
  <2>3. \A w \in Signers : rotating[w] # Off =>
       /\ rotating[w].id \in KeyIds /\ registry'[rotating[w].id].pem # None
       /\ rotating[w].next \in 2 .. (env.id + 1)
    BY <1>3 DEF KeysInv, SettingsDeployed
  <2> QED
    BY <1>1, <2>1, <2>2, <2>3 DEF SettingsDeployed
<1>8. KeysRegistered'
  <2>1. \A j \in KeyIds : registry'[j].pem \in {None, j}
    BY <1>3 DEF KeysInv, KeysRegistered
  <2>2. \A q \in Servers, j \in KeyIds : keyCache'[q][j] \in {None, registry'[j].pem}
    <3> SUFFICES ASSUME NEW q \in Servers, NEW j \in KeyIds
                 PROVE  keyCache'[q][j] \in {None, registry'[j].pem}
      OBVIOUS
    <3>1. CASE q = s
      <4>1. keyCache'[q][j] = IF ~reachable \/ j # k THEN None ELSE IF row # None THEN row ELSE k
        BY <3>1, <1>1, <1>2
      <4> QED
        BY <4>1, <1>2, <1>3
    <3>2. CASE q # s
      <4>1. keyCache'[q][j] = keyCache[q][j] /\ keyCache[q][j] \in {None, registry[j].pem}
        BY <3>2, <1>1, <1>2 DEF KeysInv, KeysRegistered
      <4> QED
        BY <4>1, <1>3
    <3> QED
      BY <3>1, <3>2
  <2>3. 1 .. env.id \subseteq KeyIds
    BY <1>2, KeyConstants DEF KeyIds
  <2>4. CASE \A j \in 1 .. env.id : registry[j].pem # None
    <3>1. \A j \in 1 .. env.id : registry'[j].pem # None
      BY <2>3, <2>4, <1>3
    <3> QED
      BY <3>1, <2>1, <2>2, <1>1 DEF KeysRegistered
  <2>5. CASE env.id = 1 /\ \A j \in KeyIds : registry[j].pem = None
    <3>1. \/ \A j \in KeyIds : registry'[j].pem = None
          \/ registry'[1].pem # None
      BY <2>5, <1>2, <1>3, KeyConstants DEF None
    <3>2. \A j \in 1 .. env.id : j = 1
      BY <2>5
    <3> QED
      BY <3>1, <3>2, <2>1, <2>2, <2>5, <1>1 DEF KeysRegistered
  <2> QED
    BY <2>4, <2>5 DEF KeysInv, KeysRegistered
<1>9. ReceiptsStamped'
  BY <1>1 DEF KeysInv, ReceiptsStamped
<1>10. RotationsKnown'
  <2>1. \A i \in DOMAIN rotations : rotations[i].new \in KeyIds
    BY RotationEntry DEF KeysInv
  <2>2. \A w \in Signers : rotating[w] # Off => rotating[w].next \in KeyIds
    BY NextRotated DEF KeysInv
  <2>3. \A w \in Signers : rotating[w] # Off /\ registry'[rotating[w].next].pem = None =>
         registry[rotating[w].next].pem = None
    BY <1>3, <2>2
  <2> QED
    BY <1>1, <1>3, <2>1, <2>3 DEF KeysInv, RotationsKnown
<1>11. RotationsSpaced'
  <2>1. \A i \in DOMAIN rotations : rotations[i].new \in KeyIds
    BY RotationEntry DEF KeysInv
  <2> QED
    BY <1>1, <1>3, <2>1 DEF KeysInv, RotationsSpaced
<1> QED
  BY <1>6, <1>7, <1>8, <1>9, <1>10, <1>11 DEF KeysInv

LEMMA StartSignerStep ==
  ASSUME KeysInv, NEW w \in Signers, StartSigner(w)
  PROVE  KeysInv'
<1>1. /\ conf' = [conf EXCEPT ![w] = env]
      /\ rotating' = [rotating EXCEPT ![w] = Off]
      /\ UNCHANGED <<env, registry, keyCache, rotations, receipts, keyNow>>
  BY DEF StartSigner
<1>2. /\ env \in Setting /\ env.id \in KeyIds /\ env.next \in {None, env.id + 1}
      /\ conf \in [Procs -> Setting] /\ rotating \in [Signers -> Setting]
  BY DEF KeysInv, KeyTypes
<1>3. conf' \in [Procs -> Setting] /\ conf'[w] = env /\ \A p \in Procs : p # w => conf'[p] = conf[p]
  BY <1>1, <1>2 DEF Procs
<1>4. /\ rotating' \in [Signers -> Setting]
      /\ \A x \in Signers : rotating'[x] # Off => rotating'[x] = rotating[x]
  <2>1. Off \in Setting
    BY KeyConstants DEF Off, Setting, None
  <2> QED
    BY <1>1, <1>2, <2>1
<1>5. KeyTypes'
  BY <1>1, <1>3, <1>4 DEF KeysInv, KeyTypes
<1>6. SettingsDeployed'
  <2>1. \A p \in Procs : conf'[p] # Off => conf'[p].id \in 1 .. env.id
    BY <1>2, <1>3 DEF KeysInv, SettingsDeployed, KeyIds
  <2>2. \A p \in Procs : conf'[p].next \in {None} \cup 2 .. (env.id + 1)
    BY <1>2, <1>3, KeyConstants DEF KeysInv, SettingsDeployed, KeyIds
  <2>3. \A x \in Signers : rotating'[x] # Off =>
       /\ rotating'[x].id \in KeyIds /\ registry[rotating'[x].id].pem # None
       /\ rotating'[x].next \in 2 .. (env.id + 1)
    BY <1>4 DEF KeysInv, SettingsDeployed
  <2> QED
    BY <1>1, <2>1, <2>2, <2>3 DEF SettingsDeployed
<1>7. KeysRegistered' /\ ReceiptsStamped'
  BY <1>1 DEF KeysInv, KeysRegistered, ReceiptsStamped
<1>8. RotationsKnown' /\ RotationsSpaced'
  BY <1>1, <1>4 DEF KeysInv, RotationsKnown, RotationsSpaced
<1> QED
  BY <1>5, <1>6, <1>7, <1>8 DEF KeysInv

\* The active key is the newest that is not revoked: when it is old enough to be
\* rotated, so is every other key that is not revoked.
LEMMA RotateReadsStep ==
  ASSUME KeysInv, NEW w \in Signers, RotateReads(w)
  PROVE  KeysInv'
<1> DEFINE next == conf[w].next
<1>1. PICK active \in Active :
        /\ keyNow - registry[active].created >= KeyMaxAge
        /\ next # None /\ registry[next].pem = None
        /\ rotating' = [rotating EXCEPT ![w] = [id |-> active, next |-> next]]
  BY DEF RotateReads
<1>2. Running(w) /\ UNCHANGED <<env, conf, registry, keyCache, rotations, receipts, keyNow>>
  BY DEF RotateReads
<1>3. /\ active \in KeyIds /\ registry[active].pem # None
      /\ \A j \in KeyIds : registry[j].pem # None /\ ~registry[j].revoked =>
           registry[j].created <= registry[active].created
  BY <1>1 DEF Active
<1>4. conf \in [Procs -> Setting] /\ rotating \in [Signers -> Setting] /\ w \in Procs
  BY DEF KeysInv, KeyTypes, Procs
<1>5. next \in 2 .. (env.id + 1)
  BY <1>1, <1>4 DEF KeysInv, SettingsDeployed
<1>6. [id |-> active, next |-> next] \in Setting
  BY <1>3, <1>4, KeyConstants DEF Setting, KeyIds
<1>7. /\ rotating' \in [Signers -> Setting]
      /\ rotating'[w] = [id |-> active, next |-> next]
      /\ \A x \in Signers : x # w => rotating'[x] = rotating[x]
  BY <1>1, <1>4, <1>6
<1>8. KeyTypes'
  BY <1>2, <1>7 DEF KeysInv, KeyTypes
<1>9. SettingsDeployed'
  <2>1. \A x \in Signers : rotating'[x] # Off =>
       /\ rotating'[x].id \in KeyIds /\ registry[rotating'[x].id].pem # None
       /\ rotating'[x].next \in 2 .. (env.id + 1)
    BY <1>3, <1>5, <1>7 DEF KeysInv, SettingsDeployed
  <2> QED
    BY <1>2, <2>1 DEF KeysInv, SettingsDeployed
<1>10. KeysRegistered' /\ ReceiptsStamped' /\ RotationsSpaced'
  BY <1>2 DEF KeysInv, KeysRegistered, ReceiptsStamped, RotationsSpaced
<1>11. RotationsKnown'
  <2>1. \A i \in DOMAIN rotations :
          \/ keyNow - rotations[i].at >= KeyMaxAge
          \/ registry[rotations[i].new].revoked
    <3> SUFFICES ASSUME NEW i \in DOMAIN rotations, ~registry[rotations[i].new].revoked
                 PROVE  keyNow - rotations[i].at >= KeyMaxAge
      OBVIOUS
    <3>1. /\ rotations[i].new \in KeyIds /\ rotations[i].at \in Int
          /\ registry[rotations[i].new].pem # None
          /\ registry[rotations[i].new].created = rotations[i].at
      BY RotationEntry DEF KeysInv, RotationsKnown
    <3>2. rotations[i].at <= registry[active].created
      BY <1>3, <3>1
    <3>3. registry[active].created \in Int /\ keyNow \in Int
      BY <1>3, KeyConstants DEF KeysInv, KeyTypes, KeyRow
    <3> QED
      BY <1>1, <3>1, <3>2, <3>3, KeyConstants
  <2> QED
    BY <1>2, <1>7, <2>1 DEF KeysInv, RotationsKnown
<1> QED
  BY <1>8, <1>9, <1>10, <1>11 DEF KeysInv

\* Every task that may still insert is about to insert the same key.
LEMMA OneNext ==
  ASSUME KeysInv, NEW w \in Signers, rotating[w] # Off, Inserts(w)
  PROVE  /\ rotating[w].next = env.id + 1
         /\ \A k \in 1 .. env.id : registry[k].pem # None
<1>1. /\ rotating[w].id \in KeyIds /\ registry[rotating[w].id].pem # None
      /\ rotating[w].next \in 2 .. (env.id + 1)
      /\ registry[rotating[w].next].pem = None
  BY DEF KeysInv, SettingsDeployed, Inserts
<1>2. env.id \in Nat
  BY KeyConstants DEF KeysInv, KeyTypes, KeyIds
<1>3. \A k \in 1 .. env.id : registry[k].pem # None
  BY <1>1 DEF KeysInv, KeysRegistered
<1> QED
  BY <1>1, <1>2, <1>3
LEMMA RotateCommitsStep ==
  ASSUME KeysInv, NEW w \in Signers, RotateCommits(w)
  PROVE  KeysInv'
<1> DEFINE next == rotating[w].next
           rotation == [new |-> next, previous |-> rotating[w].id, at |-> keyNow]
<1>1. /\ rotating[w] # Off
      /\ rotating' = [rotating EXCEPT ![w] = Off]
      /\ UNCHANGED <<env, conf, keyCache, receipts, keyNow>>
  BY DEF RotateCommits
<1>2. /\ registry \in [KeyIds -> KeyRow] /\ env \in Setting /\ env.id \in KeyIds
      /\ rotating \in [Signers -> Setting] /\ keyNow \in 0 .. MaxKeyTime
      /\ rotations \in Seq(Rotation)
  BY KeyConstants DEF KeysInv, KeyTypes
<1>3. /\ next \in KeyIds /\ rotating[w].id \in KeyIds /\ next \in 2 .. (env.id + 1)
      /\ registry[rotating[w].id].pem # None
  BY <1>1, NextRotated DEF KeysInv, SettingsDeployed
<1>4. /\ rotating' \in [Signers -> Setting]
      /\ \A x \in Signers : rotating'[x] # Off => rotating'[x] = rotating[x]
  <2>1. Off \in Setting
    BY KeyConstants DEF Off, Setting, None
  <2> QED
    BY <1>1, <1>2, <2>1
<1>5. CASE ~Inserts(w)
  <2>1. UNCHANGED <<registry, rotations>>
    BY <1>5 DEF RotateCommits
  <2>2. KeyTypes'
    BY <1>1, <1>4, <2>1 DEF KeysInv, KeyTypes
  <2>3. SettingsDeployed' /\ KeysRegistered' /\ ReceiptsStamped'
    BY <1>1, <1>4, <2>1 DEF KeysInv, SettingsDeployed, KeysRegistered, ReceiptsStamped
  <2>4. RotationsKnown' /\ RotationsSpaced'
    BY <1>1, <1>4, <2>1 DEF KeysInv, RotationsKnown, RotationsSpaced
  <2> QED
    BY <2>2, <2>3, <2>4 DEF KeysInv
<1>6. CASE Inserts(w)
  <2>1. /\ registry' = [registry EXCEPT ![next] = [@ EXCEPT !.pem = next, !.created = keyNow]]
        /\ rotations' = Append(rotations, rotation)
    BY <1>6 DEF RotateCommits, NextPem
  <2>2. next = env.id + 1 /\ \A k \in 1 .. env.id : registry[k].pem # None
    BY <1>1, <1>6, OneNext
  <2>3. registry[next].pem = None
    BY <1>6 DEF Inserts
  <2>4. /\ registry' \in [KeyIds -> KeyRow]
        /\ registry'[next].pem = next /\ registry'[next].created = keyNow
        /\ registry'[next].revoked = registry[next].revoked
        /\ \A j \in KeyIds : j # next => registry'[j] = registry[j]
    <3> DEFINE d == [registry[next] EXCEPT !.pem = next]
               e == [d EXCEPT !.created = keyNow]
    <3>1. registry[next] \in KeyRow /\ next \in 0 .. MaxSigningKeys
      BY <1>2, <1>3, KeyConstants DEF KeyIds
    <3>2. d \in KeyRow /\ d.pem = next /\ d.revoked = registry[next].revoked
      BY <3>1 DEF KeyRow
    <3> HIDE DEF d
    <3>3. e \in KeyRow /\ e.pem = next /\ e.revoked = registry[next].revoked /\ e.created = keyNow
      BY <3>2, <1>2 DEF KeyRow
    <3>4. registry' = [registry EXCEPT ![next] = e]
      BY <2>1 DEF d
    <3> HIDE DEF e
    <3>5. registry'[next] = e /\ \A j \in KeyIds : j # next => registry'[j] = registry[j]
      BY <3>4, <1>2, <1>3
    <3>6. registry' \in [KeyIds -> KeyRow]
      BY <3>3, <3>4, <1>2
    <3> QED
      BY <3>3, <3>5, <3>6
  <2>5. rotation \in Rotation
    BY <1>2, <1>3, KeyConstants DEF Rotation
  <2> DEFINE n == Len(rotations)
  <2>6. /\ rotations' \in Seq(Rotation) /\ DOMAIN rotations' = 1 .. (n + 1) /\ n \in Nat
        /\ \A i \in 1 .. n : rotations'[i] = rotations[i]
        /\ rotations'[n + 1] = rotation /\ DOMAIN rotations = 1 .. n
    <3> HIDE DEF rotation
    <3> QED
      BY <2>1, <2>5, <1>2
  <2>7. /\ rotations'[n + 1].new = next /\ rotations'[n + 1].at = keyNow
    BY <2>6
  <2> HIDE DEF rotation, n
  <2>8. KeyTypes'
    BY <1>1, <1>4, <2>4, <2>6 DEF KeysInv, KeyTypes
  <2>9. SettingsDeployed'
    <3>1. next # None
      BY <1>3 DEF None
    <3>2. \A x \in Signers : rotating'[x] # Off =>
            /\ rotating'[x].id \in KeyIds /\ registry'[rotating'[x].id].pem # None
            /\ rotating'[x].next \in 2 .. (env.id + 1)
      BY <3>1, <1>4, <2>4 DEF KeysInv, SettingsDeployed
    <3> QED
      BY <3>2, <1>1 DEF KeysInv, SettingsDeployed
  <2>10. KeysRegistered'
    <3>1. \A k \in KeyIds : registry'[k].pem \in {None, k}
      BY <2>4 DEF KeysInv, KeysRegistered
    <3>2. \A s \in Servers, k \in KeyIds : keyCache[s][k] \in {None, registry'[k].pem}
      BY <2>3, <2>4 DEF KeysInv, KeysRegistered
    <3>3. \A k \in 1 .. env.id : registry'[k] = registry[k]
      BY <2>2, <2>4, <1>2, KeyConstants DEF KeyIds
    <3> QED
      BY <3>1, <3>2, <3>3, <2>2, <1>1 DEF KeysRegistered
  <2>11. ReceiptsStamped'
    BY <1>1 DEF KeysInv, ReceiptsStamped
  <2>12. \A i \in 1 .. n : /\ rotations[i].new \in KeyIds /\ rotations[i].new # next
                           /\ rotations[i].at \in Int
    BY RotationEntry, <2>3, <2>6 DEF KeysInv, RotationsKnown
  <2>13. \A i \in 1 .. n : keyNow - rotations[i].at >= KeyMaxAge \/ registry[rotations[i].new].revoked
    BY <1>1, <2>3, <2>6 DEF KeysInv, RotationsKnown
  <2>14. RotationsKnown'
    <3>1. \A i \in 1 .. n : /\ registry'[rotations'[i].new].pem # None
                            /\ registry'[rotations'[i].new].created = rotations'[i].at
      BY <2>4, <2>6, <2>12 DEF KeysInv, RotationsKnown
    <3>2. registry'[rotations'[n + 1].new].pem # None /\ registry'[next].created = rotations'[n + 1].at
      BY <2>4, <2>7, <1>3 DEF None
    <3>3. \A i \in DOMAIN rotations' : i = n + 1 \/ i \in 1 .. n
      BY <2>6
    <3>4. \A x \in Signers : rotating'[x] # Off => registry'[rotating'[x].next].pem # None
      <4> SUFFICES ASSUME NEW x \in Signers, rotating'[x] # Off,
                          registry'[rotating'[x].next].pem = None
                   PROVE  FALSE
        OBVIOUS
      <4>1. rotating[x] # Off /\ rotating[x].next \in KeyIds /\ rotating'[x] = rotating[x]
        BY <1>4, NextRotated DEF KeysInv
      <4>2. next # None
        BY <1>3 DEF None
      <4>3. rotating[x].next # next /\ registry[rotating[x].next].pem = None
        BY <4>1, <4>2, <2>4
      <4>4. rotating[x].next = env.id + 1
        BY <4>1, <4>3, OneNext DEF Inserts
      <4> QED
        BY <4>3, <4>4, <2>2
    <3> QED
      BY <3>1, <3>2, <3>3, <3>4, <2>7 DEF RotationsKnown
  <2>15. RotationsSpaced'
    <3> SUFFICES ASSUME NEW i \in DOMAIN rotations', NEW j \in DOMAIN rotations', i < j
                 PROVE  /\ rotations'[i].new # rotations'[j].new
                        /\ rotations'[j].at - rotations'[i].at < KeyMaxAge =>
                             registry'[rotations'[i].new].revoked
      BY DEF RotationsSpaced
    <3>1. i \in 1 .. n /\ (j \in 1 .. n \/ j = n + 1)
      BY <2>6
    <3>2. registry'[rotations[i].new] = registry[rotations[i].new] /\ rotations'[i] = rotations[i]
      BY <3>1, <2>4, <2>6, <2>12
    <3>3. CASE j \in 1 .. n
      BY <3>1, <3>2, <3>3, <2>6 DEF KeysInv, RotationsSpaced
    <3>4. CASE j = n + 1
      <4>1. rotations'[j].new = next /\ rotations'[j].at = keyNow
        BY <3>4, <2>7
      <4>2. keyNow \in Int /\ rotations[i].at \in Int /\ KeyMaxAge \in Int
        BY <1>2, <2>12, <3>1, KeyConstants
      <4> QED
        BY <4>1, <4>2, <3>1, <3>2, <2>12, <2>13
    <3> QED
      BY <3>1, <3>3, <3>4
  <2> QED
    BY <2>8, <2>9, <2>10, <2>11, <2>14, <2>15 DEF KeysInv
<1> QED
  BY <1>5, <1>6

LEMMA KeyTickStep ==
  ASSUME KeysInv, KeyTick
  PROVE  KeysInv'
<1>1. /\ keyNow < MaxKeyTime /\ keyNow' = keyNow + 1
      /\ UNCHANGED <<env, conf, registry, keyCache, rotating, rotations, receipts>>
  BY DEF KeyTick
<1>2. keyNow \in 1 .. MaxKeyTime /\ keyNow' \in 1 .. MaxKeyTime
  BY <1>1, KeyConstants DEF KeysInv, KeyTypes
<1>3. KeyTypes'
  BY <1>1, <1>2 DEF KeysInv, KeyTypes
<1>4. SettingsDeployed' /\ KeysRegistered' /\ ReceiptsStamped' /\ RotationsSpaced'
  BY <1>1 DEF KeysInv, SettingsDeployed, KeysRegistered, ReceiptsStamped, RotationsSpaced
<1>5. \A i \in DOMAIN rotations : keyNow - rotations[i].at >= KeyMaxAge =>
                                  keyNow' - rotations[i].at >= KeyMaxAge
  <2>1. \A i \in DOMAIN rotations : rotations[i].at \in Int
    BY RotationEntry DEF KeysInv
  <2> QED
    BY <1>1, <1>2, <2>1, KeyConstants
<1>6. RotationsKnown'
  BY <1>1, <1>5 DEF KeysInv, RotationsKnown
<1> QED
  BY <1>3, <1>4, <1>6 DEF KeysInv

LEMMA SignReceiptStep ==
  ASSUME KeysInv, NEW w \in Signers, NEW plain \in BOOLEAN, NEW legacy \in BOOLEAN,
         SignReceipt(w, plain, legacy)
  PROVE  KeysInv'
<1> DEFINE sig == [by |-> conf[w].id,
                   over |-> IF plain THEN "same" ELSE IF legacy THEN "legacy" ELSE "rfc8785"]
           r == [key |-> conf[w].id, plain |-> plain, intact |-> TRUE, sig |-> sig]
           n == Len(receipts)
<1>1. /\ conf[w] # Off /\ receipts' = Append(receipts, r)
      /\ UNCHANGED <<env, conf, registry, keyCache, rotating, rotations, keyNow>>
  BY DEF SignReceipt, Running
<1>2. conf[w].id \in 1 .. env.id /\ env.id \in 1 .. MaxSigningKeys /\ receipts \in Seq(Receipt)
  BY <1>1 DEF KeysInv, KeyTypes, SettingsDeployed, Procs, KeyIds
<1>3. conf[w].id \in KeyIds
  BY <1>2, KeyConstants DEF KeyIds
<1>4. sig \in Signature
  BY <1>3 DEF Signature
<1>5. SignedWell(r) /\ r.key \in 1 .. env.id
  BY <1>2 DEF SignedWell
<1>6. r \in Receipt
  <2> HIDE DEF sig
  <2> QED
    BY <1>3, <1>4 DEF Receipt
<1> HIDE DEF r, n
<1>7. /\ receipts' \in Seq(Receipt) /\ DOMAIN receipts' = 1 .. (n + 1) /\ n \in Nat
      /\ \A i \in 1 .. n : receipts'[i] = receipts[i]
      /\ receipts'[n + 1] = r /\ DOMAIN receipts = 1 .. n
  BY <1>1, <1>2, <1>6 DEF n
<1>8. KeyTypes'
  BY <1>1, <1>7 DEF KeysInv, KeyTypes
<1>9. SettingsDeployed' /\ KeysRegistered' /\ RotationsKnown' /\ RotationsSpaced'
  BY <1>1 DEF KeysInv, SettingsDeployed, KeysRegistered, RotationsKnown, RotationsSpaced
<1>10. ReceiptsStamped'
  <2> SUFFICES ASSUME NEW i \in DOMAIN receipts'
               PROVE  SignedWell(receipts'[i]) /\ receipts'[i].key \in 1 .. env.id
    BY <1>1 DEF ReceiptsStamped, SignedWell
  <2>1. i = n + 1 \/ i \in 1 .. n
    BY <1>7
  <2>2. CASE i = n + 1
    BY <2>2, <1>5, <1>7
  <2>3. CASE i \in 1 .. n
    BY <2>3, <1>7 DEF KeysInv, ReceiptsStamped
  <2> QED
    BY <2>1, <2>2, <2>3
<1> QED
  BY <1>8, <1>9, <1>10 DEF KeysInv

LEMMA AlterStep ==
  ASSUME KeysInv, NEW r \in 1 .. MaxReceipts, Alter(r)
  PROVE  KeysInv'
<1> DEFINE altered == [receipts[r] EXCEPT !.intact = FALSE]
<1>1. /\ r \in DOMAIN receipts /\ receipts' = [receipts EXCEPT ![r] = altered]
      /\ UNCHANGED <<env, conf, registry, keyCache, rotating, rotations, keyNow>>
  BY DEF Alter
<1>2. receipts \in Seq(Receipt)
  BY DEF KeysInv, KeyTypes
<1>3. receipts[r] \in Receipt
  BY <1>1, <1>2
<1>4. altered \in Receipt /\ altered.key = receipts[r].key /\ altered.plain = receipts[r].plain
        /\ altered.sig = receipts[r].sig
  BY <1>3 DEF Receipt
<1> HIDE DEF altered
<1>5. /\ receipts' \in Seq(Receipt) /\ DOMAIN receipts' = DOMAIN receipts
      /\ receipts'[r] = altered
      /\ \A i \in DOMAIN receipts : i # r => receipts'[i] = receipts[i]
  BY <1>1, <1>2, <1>4
<1>6. KeyTypes'
  BY <1>1, <1>5 DEF KeysInv, KeyTypes
<1>7. SettingsDeployed' /\ KeysRegistered' /\ RotationsKnown' /\ RotationsSpaced'
  BY <1>1 DEF KeysInv, SettingsDeployed, KeysRegistered, RotationsKnown, RotationsSpaced
<1>8. ReceiptsStamped'
  <2> SUFFICES ASSUME NEW i \in DOMAIN receipts'
               PROVE  SignedWell(receipts'[i]) /\ receipts'[i].key \in 1 .. env.id
    BY <1>1 DEF ReceiptsStamped, SignedWell
  <2>1. SignedWell(receipts[i]) /\ receipts[i].key \in 1 .. env.id
    BY <1>5 DEF KeysInv, ReceiptsStamped
  <2>2. CASE i = r
    BY <2>1, <2>2, <1>4, <1>5 DEF SignedWell
  <2>3. CASE i # r
    BY <2>1, <2>3, <1>5
  <2> QED
    BY <2>2, <2>3
<1> QED
  BY <1>6, <1>7, <1>8 DEF KeysInv

LEMMA VerifyStep ==
  ASSUME KeysInv, NEW s \in Servers, NEW r \in 1 .. MaxReceipts, VerifyReceipt(s, r)
  PROVE  KeysInv'
<1> DEFINE k == receipts[r].key
<1>1. /\ r \in DOMAIN receipts
      /\ keyCache' = [keyCache EXCEPT ![s][k] = Remembered(s, k)]
      /\ UNCHANGED <<env, conf, registry, rotating, rotations, receipts, keyNow>>
  BY DEF VerifyReceipt
<1>2. /\ keyCache \in [Servers -> [KeyIds -> 0 .. MaxSigningKeys]]
      /\ registry \in [KeyIds -> KeyRow]
  BY DEF KeysInv, KeyTypes
<1>3. k \in KeyIds
  BY <1>1, KeyConstants DEF KeysInv, KeyTypes, ReceiptsStamped, KeyIds
<1>4. Remembered(s, k) \in {None, registry[k].pem} /\ Remembered(s, k) \in 0 .. MaxSigningKeys
  BY <1>2, <1>3 DEF Remembered, KeysInv, KeysRegistered, KeyRow
<1>5. keyCache' \in [Servers -> [KeyIds -> 0 .. MaxSigningKeys]]
  BY <1>1, <1>2, <1>3, <1>4
<1>6. \A q \in Servers, j \in KeyIds : keyCache'[q][j] \in {None, registry[j].pem}
  BY <1>1, <1>2, <1>3, <1>4 DEF KeysInv, KeysRegistered
<1>7. KeyTypes'
  BY <1>1, <1>5 DEF KeysInv, KeyTypes
<1>8. KeysRegistered'
  BY <1>1, <1>6 DEF KeysInv, KeysRegistered
<1>9. SettingsDeployed' /\ ReceiptsStamped' /\ RotationsKnown' /\ RotationsSpaced'
  BY <1>1 DEF KeysInv, SettingsDeployed, ReceiptsStamped, RotationsKnown, RotationsSpaced
<1> QED
  BY <1>7, <1>8, <1>9 DEF KeysInv

LEMMA KeysSame ==
  ASSUME KeysInv, UNCHANGED <<env, conf, registry, keyCache, rotating, rotations, receipts, keyNow>>
  PROVE  KeysInv'
  BY DEF KeysInv, KeyTypes, SettingsDeployed, KeysRegistered, ReceiptsStamped, RotationsKnown,
     RotationsSpaced

LEMMA KeysStep ==
  ASSUME KeysInv, KeysNext
  PROVE  KeysInv'
<1>1. ASSUME RecordRotation PROVE KeysInv'
  BY <1>1, KeysSame DEF RecordRotation
<1>2. ASSUME NEW w \in Signers, WarnSecretAge(w) PROVE KeysInv'
  BY <1>2, KeysSame DEF WarnSecretAge
<1> QED
  BY <1>1, <1>2, StageStep, CutoverStep, KeyTickStep, RevokeKeyStep, StartServerStep,
     StartSignerStep, RotateReadsStep, RotateCommitsStep, SignReceiptStep, AlterStep, VerifyStep
     DEF KeysNext
-----------------------------------------------------------------------------
\* The receipts the backend verifies, and those it refuses.
LEMMA BackendHonest ==
  ASSUME KeysInv
  PROVE  ReceiptsVerify /\ KeysTypeOK
<1>1. /\ registry \in [KeyIds -> KeyRow] /\ env.id \in 1 .. MaxSigningKeys
      /\ keyCache \in [Servers -> [KeyIds -> 0 .. MaxSigningKeys]]
      /\ conf \in [Procs -> Setting]
  BY DEF KeysInv, KeyTypes, KeyIds
<1>2. KeysTypeOK
  BY <1>1 DEF KeysTypeOK, KeysInv, KeysRegistered, KeyRow, Setting
<1>3. ASSUME NEW s \in Servers, NEW r \in DOMAIN receipts,
             Running(s), receipts[r].intact, ~registry[receipts[r].key].revoked
      PROVE  BackendVerifies(s, r)
  <2> DEFINE k == receipts[r].key
  <2>1. k \in 1 .. env.id /\ SignedWell(receipts[r])
    BY DEF KeysInv, ReceiptsStamped
  <2>2. k \in KeyIds /\ k # None
    BY <2>1, <1>1, KeyConstants DEF KeyIds, None
  <2>3. registry[k].pem \in {None, k} /\ keyCache[s][k] \in {None, registry[k].pem}
    BY <2>2 DEF KeysInv, KeysRegistered
  <2>4. registry[k].pem = k \/ k = conf[s].id
    <3>1. CASE registry[k].pem = None
      <4>1. env.id = 1
        BY <3>1, <2>1 DEF KeysInv, KeysRegistered
      <4>2. conf[s].id \in 1 .. env.id
        BY <1>3 DEF KeysInv, SettingsDeployed, Running, Procs
      <4> QED
        BY <4>1, <4>2, <2>1
    <3> QED
      BY <3>1, <2>3
  <2>5. LoadSigningKey(s, k) = k
    BY <1>3, <2>2, <2>3, <2>4 DEF LoadSigningKey
  <2> QED
    BY <1>3, <2>1, <2>2, <2>5 DEF BackendVerifies, VerifyCanonicalMatch, SignedWell
<1>4. ASSUME NEW s \in Servers, NEW r \in DOMAIN receipts, ~receipts[r].intact
      PROVE  ~BackendVerifies(s, r)
  BY <1>4 DEF BackendVerifies, VerifyCanonicalMatch
<1> QED
  BY <1>2, <1>3, <1>4 DEF ReceiptsVerify

-----------------------------------------------------------------------------
\* The public verifier: what a verification holds, and what the cache holds.
Verdicts == {"", "verified", "invalid", "not_found", "error"}
Fetched == [at : {"fetched", "asking", "resolved", "done"}, receipt : Receipt,
            pem : 0 .. MaxSigningKeys, verdict : Verdicts]
Unfetched == [at : {"done"}, verdict : {"not_found", "error"}, receipt : {None}]
PublicKey == [key : KeyIds, pem : KeyIds, ends : Int]

Checking(c) ==
  \/ check[c] = NotChecking
  \/ check[c] \in Unfetched
  \/ /\ check[c] \in Fetched /\ SignedWell(check[c].receipt)
     /\ check[c].at = "resolved" => check[c].pem = check[c].receipt.key

VerifierInv ==
  /\ DOMAIN check = Checks
  /\ \A c \in Checks : Checking(c)
  /\ VerdictHonest
  /\ publicKeys \subseteq PublicKey /\ IsFiniteSet(publicKeys)
  /\ \A e \in publicKeys : e.pem = e.key
  /\ PublicKeysBounded

LEMMA VerifierConstants ==
  /\ PublicKeyTtl \in Nat /\ PublicKeyTtl >= 1 /\ PublicKeyMax \in Nat /\ PublicKeyMax >= 1
  /\ StaticKey \in 0 .. MaxSigningKeys
  BY VerifierAssumption

LEMMA VerifierStart == VerifierInit => VerifierInv
<1> SUFFICES ASSUME VerifierInit PROVE VerifierInv
  OBVIOUS
<1>1. DOMAIN check = Checks /\ \A c \in Checks : check[c] = NotChecking
  BY DEF VerifierInit
<1>2. VerdictHonest
  BY <1>1 DEF VerdictHonest, NotChecking
<1>3. publicKeys = {} /\ IsFiniteSet(publicKeys) /\ Cardinality(publicKeys) = 0
  BY FS_EmptySet DEF VerifierInit
<1>4. PublicKeysBounded
  BY <1>3, VerifierConstants DEF PublicKeysBounded
<1> QED
  BY <1>1, <1>2, <1>3, <1>4 DEF VerifierInv, Checking

\* The clock only helps an entry stay within its time to live.
LEMMA CacheKept ==
  ASSUME KeysInv, VerifierInv, keyNow' \in Int, keyNow' >= keyNow, UNCHANGED verifierVars
  PROVE  VerifierInv'
<1>1. UNCHANGED <<check, publicKeys>>
  BY DEF verifierVars
<1>2. keyNow \in Int
  BY KeyConstants DEF KeysInv, KeyTypes
<1>3. \A e \in publicKeys : e.ends \in Int
  BY DEF VerifierInv, PublicKey
<1>4. PublicKeysBounded'
  BY <1>1, <1>2, <1>3, VerifierConstants DEF VerifierInv, PublicKeysBounded
<1>5. VerdictHonest' /\ (\A c \in Checks : Checking(c)')
  BY <1>1 DEF VerifierInv, VerdictHonest, Checking
<1> QED
  BY <1>1, <1>4, <1>5 DEF VerifierInv

LEMMA ClockForward ==
  ASSUME KeysInv, KeysNext
  PROVE  keyNow' \in Int /\ keyNow' >= keyNow
<1>1. keyNow \in Int
  BY KeyConstants DEF KeysInv, KeyTypes
<1>2. keyNow' = keyNow \/ keyNow' = keyNow + 1
  BY DEF KeysNext, StageNext, Cutover, RecordRotation, KeyTick, RevokeSigningKey, StartServer,
     StartSigner, RotateReads, RotateCommits, WarnSecretAge, SignReceipt, Alter, VerifyReceipt
<1> QED
  BY <1>1, <1>2

\* A verification that moved to an honest place leaves the rest as it was.
LEMMA CheckMoves ==
  ASSUME VerifierInv, NEW c \in Checks, NEW new,
         check' = [check EXCEPT ![c] = new],
         \/ new = NotChecking
         \/ new \in Unfetched
         \/ /\ new \in Fetched /\ SignedWell(new.receipt)
            /\ new.at = "resolved" => new.pem = new.receipt.key,
         new.at = "done" => /\ new.verdict = "verified" => new.receipt.intact
                            /\ new.verdict = "invalid" => ~new.receipt.intact
  PROVE  /\ DOMAIN check' = Checks
         /\ \A d \in Checks : Checking(d)'
         /\ VerdictHonest'
<1>1. DOMAIN check = Checks
  BY DEF VerifierInv
<1>2. /\ DOMAIN check' = Checks /\ check'[c] = new
      /\ \A d \in Checks : d # c => check'[d] = check[d]
  BY <1>1
<1>3. \A d \in Checks : Checking(d)'
  <2> SUFFICES ASSUME NEW d \in Checks PROVE Checking(d)'
    OBVIOUS
  <2>1. CASE d = c
    BY <2>1, <1>2 DEF Checking
  <2>2. CASE d # c
    BY <2>2, <1>2 DEF VerifierInv, Checking
  <2> QED
    BY <2>1, <2>2
<1>4. VerdictHonest'
  <2> SUFFICES ASSUME NEW d \in Checks, check'[d].at = "done"
               PROVE  /\ check'[d].verdict = "verified" => check'[d].receipt.intact
                      /\ check'[d].verdict = "invalid" => ~check'[d].receipt.intact
    BY DEF VerdictHonest
  <2>1. CASE d = c
    BY <2>1, <1>2
  <2>2. CASE d # c
    BY <2>2, <1>2 DEF VerifierInv, VerdictHonest
  <2> QED
    BY <2>1, <2>2
<1> QED
  BY <1>2, <1>3, <1>4

\* A verification that is under way holds a receipt.
LEMMA UnderWay ==
  ASSUME VerifierInv, NEW c \in Checks, check[c].at \in {"fetched", "asking", "resolved"}
  PROVE  check[c] \in Fetched /\ SignedWell(check[c].receipt) /\ check[c].receipt.key \in KeyIds
<1>1. Checking(c)
  BY DEF VerifierInv
<1>2. check[c] # NotChecking
  BY DEF NotChecking
<1>3. check[c] \notin Unfetched
  BY DEF Unfetched
<1>4. check[c] \in Fetched /\ SignedWell(check[c].receipt)
  BY <1>1, <1>2, <1>3 DEF Checking
<1> QED
  BY <1>4 DEF Fetched, Receipt

LEMMA CacheSame ==
  ASSUME VerifierInv, UNCHANGED <<publicKeys, keyVars>>
  PROVE  /\ publicKeys' \subseteq PublicKey /\ IsFiniteSet(publicKeys')
         /\ \A e \in publicKeys' : e.pem = e.key
         /\ PublicKeysBounded'
  BY DEF VerifierInv, PublicKeysBounded, keyVars

LEMMA FetchReceiptStep ==
  ASSUME KeysInv, VerifierInv, NEW c \in Checks, NEW s \in Servers, NEW r \in 1 .. MaxReceipts,
         NEW reachable \in BOOLEAN, FetchReceipt(c, s, r, reachable)
  PROVE  KeysInv' /\ VerifierInv'
<1>1. publicKeys' = publicKeys
  BY DEF FetchReceipt
<1>2. CASE reachable /\ r \in DOMAIN receipts
  <2> DEFINE new == [at |-> "fetched", receipt |-> receipts[r], pem |-> None, verdict |-> ""]
  <2>1. VerifyReceipt(s, r) /\ check' = [check EXCEPT ![c] = new]
    BY <1>2 DEF FetchReceipt
  <2>2. KeysInv' /\ keyNow' = keyNow
    BY <2>1, VerifyStep DEF VerifyReceipt
  <2>3. receipts \in Seq(Receipt)
    BY DEF KeysInv, KeyTypes
  <2>4. receipts[r] \in Receipt /\ SignedWell(receipts[r])
    BY <1>2, <2>3 DEF KeysInv, ReceiptsStamped
  <2>5. new \in Fetched
    BY <2>4, KeyConstants DEF Fetched, Verdicts, None
  <2>6. DOMAIN check' = Checks /\ (\A d \in Checks : Checking(d)') /\ VerdictHonest'
    <3>1. new.receipt = receipts[r] /\ new.at = "fetched"
      OBVIOUS
    <3> HIDE DEF new
    <3> QED
      BY <2>1, <2>4, <2>5, <3>1, CheckMoves
  <2>7. PublicKeysBounded'
    BY <1>1, <2>2 DEF VerifierInv, PublicKeysBounded
  <2> QED
    BY <1>1, <2>2, <2>6, <2>7 DEF VerifierInv
<1>3. CASE ~(reachable /\ r \in DOMAIN receipts)
  <2>1. UNCHANGED keyVars
    BY <1>3 DEF FetchReceipt
  <2>2. PICK verdict \in {"not_found", "error"} :
          check' = [check EXCEPT ![c] = [at |-> "done", verdict |-> verdict, receipt |-> None]]
    BY <1>3 DEF FetchReceipt
  <2> DEFINE new == [at |-> "done", verdict |-> verdict, receipt |-> None]
  <2>3. new \in Unfetched /\ new.verdict # "verified" /\ new.verdict # "invalid"
    BY DEF Unfetched
  <2>4. DOMAIN check' = Checks /\ (\A d \in Checks : Checking(d)') /\ VerdictHonest'
    <3>1. check' = [check EXCEPT ![c] = new]
      BY <2>2
    <3> HIDE DEF new
    <3> QED
      BY <3>1, <2>3, CheckMoves
  <2>5. KeysInv'
    BY <2>1, KeysSame DEF keyVars
  <2> QED
    BY <1>1, <2>1, <2>4, <2>5, CacheSame DEF VerifierInv
<1> QED
  BY <1>2, <1>3

LEMMA ResolveKnownStep ==
  ASSUME KeysInv, VerifierInv, NEW c \in Checks, ResolveKnown(c)
  PROVE  KeysInv' /\ VerifierInv'
<1> DEFINE k == check[c].receipt.key
<1>1. PICK pem \in KnownPem(k) :
        check' = [check EXCEPT ![c] = [@ EXCEPT !.at = "resolved", !.pem = pem]]
  BY DEF ResolveKnown
<1>2. check[c].at = "fetched" /\ UNCHANGED <<publicKeys, keyVars>>
  BY DEF ResolveKnown
<1>3. check[c] \in Fetched /\ SignedWell(check[c].receipt) /\ k \in KeyIds
  BY <1>2, UnderWay
<1>4. pem = k
  BY <1>1 DEF KnownPem, CacheGet, VerifierInv
<1>5. pem \in 0 .. MaxSigningKeys
  BY <1>3, <1>4, KeyConstants DEF KeyIds
<1> DEFINE d == [check[c] EXCEPT !.at = "resolved"]
           new == [d EXCEPT !.pem = pem]
<1>6. d \in Fetched /\ d.receipt = check[c].receipt /\ d.at = "resolved"
  BY <1>3 DEF Fetched
<1> HIDE DEF d
<1>7. new \in Fetched /\ new.receipt = check[c].receipt /\ new.at = "resolved" /\ new.pem = pem
  BY <1>6, <1>5 DEF Fetched
<1>8. check' = [check EXCEPT ![c] = new]
  BY <1>1 DEF d
<1> HIDE DEF new
<1>9. DOMAIN check' = Checks /\ (\A e \in Checks : Checking(e)') /\ VerdictHonest'
  BY <1>3, <1>4, <1>7, <1>8, CheckMoves
<1>10. KeysInv'
  BY <1>2, KeysSame DEF keyVars
<1> QED
  BY <1>2, <1>9, <1>10, CacheSame DEF VerifierInv

LEMMA AskForKeyStep ==
  ASSUME KeysInv, VerifierInv, NEW c \in Checks, AskForKey(c)
  PROVE  KeysInv' /\ VerifierInv'
<1> DEFINE new == [check[c] EXCEPT !.at = "asking"]
<1>1. /\ check[c].at = "fetched" /\ check' = [check EXCEPT ![c] = new]
      /\ publicKeys' \subseteq publicKeys /\ UNCHANGED keyVars
  BY DEF AskForKey
<1>2. check[c] \in Fetched /\ SignedWell(check[c].receipt)
  BY <1>1, UnderWay
<1>3. new \in Fetched /\ new.receipt = check[c].receipt /\ new.at = "asking"
  BY <1>2 DEF Fetched
<1> HIDE DEF new
<1>4. DOMAIN check' = Checks /\ (\A e \in Checks : Checking(e)') /\ VerdictHonest'
  BY <1>1, <1>2, <1>3, CheckMoves
<1>5. KeysInv'
  BY <1>1, KeysSame DEF keyVars
<1>6. /\ IsFiniteSet(publicKeys') /\ Cardinality(publicKeys') <= Cardinality(publicKeys)
      /\ Cardinality(publicKeys) \in Nat /\ Cardinality(publicKeys') \in Nat
  BY <1>1, FS_Subset, FS_CardinalityType DEF VerifierInv
<1>7. PublicKeysBounded'
  BY <1>1, <1>6, VerifierConstants DEF VerifierInv, PublicKeysBounded, keyVars
<1> QED
  BY <1>1, <1>4, <1>5, <1>6, <1>7 DEF VerifierInv
\* A full cache makes room before it takes an entry.
LEMMA CachePutStep ==
  ASSUME KeysInv, VerifierInv, NEW k \in KeyIds, CachePut(k, k), keyNow' = keyNow
  PROVE  /\ publicKeys' \subseteq PublicKey /\ IsFiniteSet(publicKeys')
         /\ \A e \in publicKeys' : e.pem = e.key
         /\ PublicKeysBounded'
<1> DEFINE full == Cardinality(publicKeys) >= EvictsFrom
           first == {e \in publicKeys : \A f \in publicKeys : e.ends <= f.ends}
           new == [key |-> k, pem |-> k, ends |-> keyNow + PublicKeyTtl]
<1>1. PICK e \in IF full THEN first ELSE {[key |-> None]} :
        publicKeys' = {f \in publicKeys \ {e} : f.key # k} \cup {new}
  BY DEF CachePut
<1> DEFINE rest == {f \in publicKeys \ {e} : f.key # k}
<1>2. keyNow \in Int /\ publicKeys \subseteq PublicKey /\ IsFiniteSet(publicKeys)
  BY KeyConstants DEF KeysInv, KeyTypes, VerifierInv
<1>3. new \in PublicKey /\ new.pem = new.key /\ new.key = k /\ new.ends = keyNow + PublicKeyTtl
  BY <1>2, VerifierConstants DEF PublicKey
<1> HIDE DEF new
<1>4. /\ Cardinality(publicKeys) \in Nat /\ Cardinality(publicKeys) <= PublicKeyMax
  BY <1>2, FS_CardinalityType DEF VerifierInv, PublicKeysBounded
<1>5. IsFiniteSet(publicKeys \ {e}) /\ Cardinality(publicKeys \ {e}) <= PublicKeyMax - 1
        /\ Cardinality(publicKeys \ {e}) \in Nat
  <2>1. CASE full
    <3>1. e \in publicKeys
      BY <1>1, <2>1
    <3>2. IsFiniteSet(publicKeys \ {e}) /\ Cardinality(publicKeys \ {e}) = Cardinality(publicKeys) - 1
      BY <3>1, <1>2, FS_RemoveElement
    <3> QED
      BY <3>2, <1>4, VerifierConstants, FS_CardinalityType
  <2>2. CASE ~full
    <3>1. Cardinality(publicKeys) <= PublicKeyMax - 1
      BY <2>2, <1>4, VerifierConstants DEF EvictsFrom
    <3>2. publicKeys \ {e} \subseteq publicKeys
      OBVIOUS
    <3>3. IsFiniteSet(publicKeys \ {e}) /\ Cardinality(publicKeys \ {e}) <= Cardinality(publicKeys)
      BY <3>2, <1>2, FS_Subset
    <3> QED
      BY <3>1, <3>3, <1>4, VerifierConstants, FS_CardinalityType
  <2> QED
    BY <2>1, <2>2
<1>6. IsFiniteSet(rest) /\ Cardinality(rest) <= PublicKeyMax - 1 /\ Cardinality(rest) \in Nat
  <2>1. rest \subseteq publicKeys \ {e}
    OBVIOUS
  <2>2. IsFiniteSet(rest) /\ Cardinality(rest) <= Cardinality(publicKeys \ {e})
    BY <2>1, <1>5, FS_Subset
  <2> QED
    BY <2>2, <1>5, VerifierConstants, FS_CardinalityType
<1>7. \A f \in rest : f \in publicKeys /\ f.key # k
  OBVIOUS
<1>8. publicKeys' = rest \cup {new}
  BY <1>1
<1> HIDE DEF rest
<1>9. IsFiniteSet(publicKeys') /\ Cardinality(publicKeys') <= PublicKeyMax
  <2>1. /\ IsFiniteSet(rest \cup {new})
        /\ \/ Cardinality(rest \cup {new}) = Cardinality(rest)
           \/ Cardinality(rest \cup {new}) = Cardinality(rest) + 1
    BY <1>6, FS_AddElement
  <2> QED
    BY <2>1, <1>6, <1>8, VerifierConstants
<1>10. \A f \in publicKeys' : f \in PublicKey /\ f.pem = f.key
  BY <1>2, <1>3, <1>7, <1>8 DEF VerifierInv
<1>11. \A f, g \in publicKeys' : f.key = g.key => f = g
  BY <1>3, <1>7, <1>8 DEF VerifierInv, PublicKeysBounded
<1>12. \A f \in publicKeys' : f.ends <= keyNow + PublicKeyTtl
  BY <1>2, <1>3, <1>7, <1>8, VerifierConstants DEF VerifierInv, PublicKeysBounded
<1> QED
  BY <1>9, <1>10, <1>11, <1>12 DEF PublicKeysBounded

\* A verdict on a receipt that was fetched.
LEMMA VerdictMoves ==
  ASSUME VerifierInv, NEW c \in Checks, check[c] \in Fetched, SignedWell(check[c].receipt),
         NEW verdict \in Verdicts, Verdict(c, verdict),
         verdict = "verified" => check[c].receipt.intact,
         verdict = "invalid" => ~check[c].receipt.intact
  PROVE  DOMAIN check' = Checks /\ (\A e \in Checks : Checking(e)') /\ VerdictHonest'
<1> DEFINE d == [check[c] EXCEPT !.at = "done"]
           new == [d EXCEPT !.verdict = verdict]
<1>1. d \in Fetched /\ d.receipt = check[c].receipt /\ d.at = "done"
  BY DEF Fetched
<1> HIDE DEF d
<1>2. new \in Fetched /\ new.receipt = check[c].receipt /\ new.at = "done" /\ new.verdict = verdict
  BY <1>1 DEF Fetched
<1>3. check' = [check EXCEPT ![c] = new]
  BY DEF Verdict, d
<1> HIDE DEF new
<1> QED
  BY <1>2, <1>3, CheckMoves

LEMMA FetchKeyStep ==
  ASSUME KeysInv, VerifierInv, NEW c \in Checks, NEW reachable \in BOOLEAN, FetchKey(c, reachable)
  PROVE  KeysInv' /\ VerifierInv'
<1> DEFINE k == check[c].receipt.key
<1>1. check[c].at = "asking" /\ UNCHANGED keyVars
  BY DEF FetchKey
<1>2. check[c] \in Fetched /\ SignedWell(check[c].receipt) /\ k \in KeyIds
  BY <1>1, UnderWay
<1>3. KeysInv' /\ keyNow' = keyNow
  BY <1>1, KeysSame DEF keyVars
<1>4. CASE reachable /\ registry[k].pem # None
  <2>1. registry[k].pem = k
    BY <1>2, <1>4 DEF KeysInv, KeysRegistered
  <2>2. /\ check' = [check EXCEPT ![c] = [@ EXCEPT !.at = "resolved", !.pem = k]]
        /\ CachePut(k, k)
    BY <1>4, <2>1 DEF FetchKey
  <2> DEFINE d == [check[c] EXCEPT !.at = "resolved"]
             new == [d EXCEPT !.pem = k]
  <2>3. k \in 0 .. MaxSigningKeys
    BY <1>2, KeyConstants DEF KeyIds
  <2>4. d \in Fetched /\ d.receipt = check[c].receipt /\ d.at = "resolved"
    BY <1>2 DEF Fetched
  <2> HIDE DEF d
  <2>5. new \in Fetched /\ new.receipt = check[c].receipt /\ new.at = "resolved" /\ new.pem = k
    BY <2>3, <2>4 DEF Fetched
  <2>6. check' = [check EXCEPT ![c] = new]
    BY <2>2 DEF d
  <2> HIDE DEF new
  <2>7. DOMAIN check' = Checks /\ (\A e \in Checks : Checking(e)') /\ VerdictHonest'
    BY <1>2, <2>5, <2>6, CheckMoves
  <2> QED
    BY <1>2, <1>3, <2>2, <2>7, CachePutStep DEF VerifierInv
<1>5. CASE ~(reachable /\ registry[k].pem # None)
  <2>1. Verdict(c, "error") /\ publicKeys' = publicKeys
    BY <1>5 DEF FetchKey
  <2>2. "error" \in Verdicts
    BY DEF Verdicts
  <2>3. DOMAIN check' = Checks /\ (\A e \in Checks : Checking(e)') /\ VerdictHonest'
    BY <1>2, <2>1, <2>2, VerdictMoves
  <2> QED
    BY <1>1, <1>3, <2>1, <2>3, CacheSame DEF VerifierInv
<1> QED
  BY <1>4, <1>5

\* The key that was resolved is the receipt's own, so the signature holds
\* exactly when the payload is intact.
LEMMA CheckSignatureStep ==
  ASSUME KeysInv, VerifierInv, NEW c \in Checks, CheckSignature(c)
  PROVE  KeysInv' /\ VerifierInv'
<1>1. check[c].at = "resolved" /\ UNCHANGED <<publicKeys, keyVars>>
  BY DEF CheckSignature
<1>2. check[c] \in Fetched /\ SignedWell(check[c].receipt)
  BY <1>1, UnderWay
<1>3. check[c].pem = check[c].receipt.key
  <2>1. Checking(c) /\ check[c] # NotChecking /\ check[c] \notin Unfetched
    BY <1>1 DEF VerifierInv, NotChecking, Unfetched
  <2> QED
    BY <1>1, <2>1 DEF Checking
<1>4. PICK verdict \in {"error"} \cup
               {IF VerifyCanonicalMatch(check[c].pem, check[c].receipt) THEN "verified" ELSE "invalid"} :
        Verdict(c, verdict)
  BY DEF CheckSignature, FaultVerdict
<1>5. VerifyCanonicalMatch(check[c].pem, check[c].receipt) <=> check[c].receipt.intact
  BY <1>2, <1>3 DEF VerifyCanonicalMatch, SignedWell
<1>6. /\ verdict \in Verdicts
      /\ verdict = "verified" => check[c].receipt.intact
      /\ verdict = "invalid" => ~check[c].receipt.intact
  BY <1>4, <1>5 DEF Verdicts
<1>7. DOMAIN check' = Checks /\ (\A e \in Checks : Checking(e)') /\ VerdictHonest'
  BY <1>2, <1>4, <1>6, VerdictMoves
<1>8. KeysInv'
  BY <1>1, KeysSame DEF keyVars
<1> QED
  BY <1>1, <1>7, <1>8, CacheSame DEF VerifierInv

LEMMA RenderStep ==
  ASSUME KeysInv, VerifierInv, NEW c \in Checks, Render(c)
  PROVE  KeysInv' /\ VerifierInv'
<1>1. check' = [check EXCEPT ![c] = NotChecking] /\ UNCHANGED <<publicKeys, keyVars>>
  BY DEF Render
<1>2. NotChecking.at # "done"
  BY DEF NotChecking
<1>3. DOMAIN check' = Checks /\ (\A e \in Checks : Checking(e)') /\ VerdictHonest'
  BY <1>1, <1>2, CheckMoves
<1>4. KeysInv'
  BY <1>1, KeysSame DEF keyVars
<1> QED
  BY <1>1, <1>3, <1>4, CacheSame DEF VerifierInv

LEMMA TrustStep ==
  ASSUME KeysInv, VerifierInv, [TrustNext]_trustVars
  PROVE  KeysInv' /\ VerifierInv'
<1>1. ASSUME KeysNext, UNCHANGED verifierVars PROVE KeysInv' /\ VerifierInv'
  BY <1>1, KeysStep, ClockForward, CacheKept
<1>2. ASSUME VerifierNext PROVE KeysInv' /\ VerifierInv'
  BY <1>2, FetchReceiptStep, ResolveKnownStep, AskForKeyStep, CheckSignatureStep, RenderStep,
     FetchKeyStep DEF VerifierNext
<1>3. ASSUME UNCHANGED trustVars PROVE KeysInv' /\ VerifierInv'
  <2>1. UNCHANGED keyVars /\ UNCHANGED verifierVars /\ keyNow' = keyNow
    BY <1>3 DEF trustVars, keyVars
  <2>2. keyNow \in Int
    BY KeyConstants DEF KeysInv, KeyTypes
  <2>3. KeysInv'
    BY <2>1, KeysSame DEF keyVars
  <2> QED
    BY <2>1, <2>2, <2>3, CacheKept
<1> QED
  BY <1>1, <1>2, <1>3 DEF TrustNext

\* A verdict depends on the receipt alone: a receipt nobody altered verifies at
\* every running server while its key is not revoked, an altered one nowhere,
\* and the public verifier says "verified" or "invalid" accordingly, for any
\* number of servers, workers, keys, receipts and verifications in flight
\* (verify_receipt, _run_rotate_signing_key, perform_verification).
THEOREM ReceiptsVerifyAlone == TrustSpec => []ReceiptsSound
<1>1. TrustInit => KeysInv /\ VerifierInv
  BY KeysStart, VerifierStart DEF TrustInit
<1>2. KeysInv /\ VerifierInv /\ [TrustNext]_trustVars => (KeysInv /\ VerifierInv)'
  BY TrustStep
<1>3. KeysInv /\ VerifierInv => ReceiptsSound
  BY BackendHonest DEF KeysInv, VerifierInv, ReceiptsSound
<1> QED
  BY <1>1, <1>2, <1>3, PTL DEF TrustSpec
=============================================================================
