--------------------------- MODULE AccountLockout ---------------------------
(***************************************************************************)
(* The sliding-window lockout of utils/account_lockout.py, as POST         *)
(* /auth/login and POST /security/account/unlock use it.  One account; a   *)
(* key of the tracker is therefore an address.                             *)
(*                                                                         *)
(* Each server process builds its tracker at the first login it serves and *)
(* keeps it: over Redis, which all processes share, or, without REDIS_URL  *)
(* or when the ping fails, over its own memory.  A login awaits the        *)
(* database between the check of the lock and the verdict on the password, *)
(* so logins of one process interleave there; recording the failure and    *)
(* setting the lock follow each other without an await, so only logins of  *)
(* other processes, over Redis, come between them.                         *)
(*                                                                         *)
(* One unit of time holds many distinct timestamps: two failures of the    *)
(* same unit are two members of the sorted set.  A member stands for the   *)
(* wrong password it was recorded for.                                     *)
(***************************************************************************)
EXTENDS Naturals, Sequences, FiniteSets

CONSTANTS
    Processes,      \* server processes
    LoginIps,       \* addresses logins come from
    Clients,        \* logins in flight at once
    MaxFails,       \* ACCOUNT_LOCKOUT_MAX_FAILS
    Window,         \* ACCOUNT_LOCKOUT_WINDOW_SEC
    LockFor,        \* ACCOUNT_LOCKOUT_DURATION_SEC
    MaxGuesses,     \* bound: wrong passwords verified
    MaxLockClock,   \* bound: time
    MaxLockFaults   \* bound: processes restarted, unlocks, logins that die

\* The lock outlasts the window: 30 and 15 minutes unless set otherwise.
ASSUME LockoutAssumption ==
    /\ MaxFails \in Nat \ {0} /\ Window \in Nat \ {0} /\ LockFor \in Nat /\ Window <= LockFor
    /\ MaxLockClock \in Nat \ {0} /\ MaxLockFaults \in Nat
    /\ IsFiniteSet(Clients) /\ "none" \notin Clients

VARIABLES
    tracker,    \* what each process's tracker is built over
    failures,   \* store -> address -> the failures kept, by their number in wrong
    lock,       \* store -> address -> when the lock expires, 0 for none
    attempt,    \* the login of each client
    lockClock,  \* time
    lockFaults, \* faults and unlocks so far
    wrong       \* history: wrong passwords verified, in order

lockVars == <<tracker, failures, lock, attempt, lockClock, lockFaults, wrong>>

\* A request whose address the server does not see has address "unknown".
Ips == LoginIps \cup {"unknown"}

Backings == {"unbuilt", "redis", "memory"}
LockStores == Processes \cup {"redis"}

NoAttempt == [stage |-> "idle", process |-> "none", ip |-> "none"]

\* The store of a process, given what its tracker is built over.
LockStore(p, backing) == IF backing = "redis" THEN "redis" ELSE p

AttemptStore(c) == LockStore(attempt[c].process, tracker[attempt[c].process])

\* _InMemoryStore keeps a failure exactly Window old, _RedisStore drops it.
Recent(s, kept) ==
    {n \in kept : IF s = "redis" THEN wrong[n].at + Window > lockClock
                                 ELSE wrong[n].at + Window >= lockClock}

\* A login of the process is between the two commands of record_failure.
Blocked(p) == \E c \in Clients : attempt[c].process = p /\ attempt[c].stage = "locking"

LockInit ==
    /\ tracker = [p \in Processes |-> "unbuilt"]
    /\ failures = [s \in LockStores |-> [i \in Ips |-> {}]]
    /\ lock = [s \in LockStores |-> [i \in Ips |-> 0]]
    /\ attempt = [c \in Clients |-> NoAttempt]
    /\ lockClock = 1
    /\ lockFaults = 0
    /\ wrong = <<>>

----------------------------------------------------------------------------
(* Login.                                                                  *)

\* store.status(...)[1] > 0
Locked(s, i) == lock[s][i] > lockClock

\* login up to authenticate: the tracker is built if need be, and a locked
\* address answered 429.
CheckLock(c, p, i, backing) ==
    LET s == LockStore(p, backing) IN
    /\ attempt[c].stage = "idle"
    /\ ~ Blocked(p)
    /\ IF tracker[p] = "unbuilt" THEN backing # "unbuilt" ELSE backing = tracker[p]
    /\ tracker' = [tracker EXCEPT ![p] = backing]
    /\ failures' = [failures EXCEPT ![s][i] = Recent(s, @)]
    /\ attempt' = IF Locked(s, i) THEN attempt
                  ELSE [attempt EXCEPT ![c] = [stage |-> "checked", process |-> p, ip |-> i]]
    /\ UNCHANGED <<lock, lockClock, lockFaults, wrong>>

\* MUTANT of Recorded: the bucket is added to and never pruned.
RecordedForever(s, i) == failures[s][i] \cup {Len(wrong) + 1}

\* The bucket after record_failure.
Recorded(s, i) == Recent(s, failures[s][i]) \cup {Len(wrong) + 1}

\* invalid_credentials: the failure is recorded, and the lock is next when
\* the bucket has reached MaxFails; "by" is the client that is to set it.
WrongPassword(c) ==
    LET s == AttemptStore(c)
        i == attempt[c].ip
        counted == Recorded(s, i)
        full == Cardinality(counted) >= MaxFails
    IN
    /\ attempt[c].stage = "checked"
    /\ ~ Blocked(attempt[c].process)
    /\ Len(wrong) < MaxGuesses
    /\ failures' = [failures EXCEPT ![s][i] = counted]
    /\ attempt' = [attempt EXCEPT ![c] = IF full THEN [@ EXCEPT !.stage = "locking"] ELSE NoAttempt]
    /\ wrong' = Append(wrong, [at |-> lockClock, store |-> s, ip |-> i, by |-> IF full THEN c ELSE "none",
                               forgotten |-> FALSE, unlocked |-> FALSE])
    /\ UNCHANGED <<tracker, lock, lockClock, lockFaults>>

\* store.lock
SetLock(c) ==
    /\ attempt[c].stage = "locking"
    /\ lock' = [lock EXCEPT ![AttemptStore(c)][attempt[c].ip] = lockClock + LockFor]
    /\ attempt' = [attempt EXCEPT ![c] = NoAttempt]
    /\ UNCHANGED <<tracker, failures, lockClock, lockFaults, wrong>>

\* A guess its store was told to forget.
Forgot(g) == [at |-> g.at, store |-> g.store, ip |-> g.ip, by |-> "none", forgotten |-> TRUE, unlocked |-> FALSE]

\* store.clear, and the guesses it makes the store forget.
Clear(s, i) ==
    /\ failures' = [failures EXCEPT ![s][i] = {}]
    /\ lock' = [lock EXCEPT ![s][i] = 0]
    /\ wrong' = [n \in DOMAIN wrong |->
                    IF wrong[n].store = s /\ wrong[n].ip = i THEN Forgot(wrong[n]) ELSE wrong[n]]

\* The password is right: record_success, and a token pair is issued.
RightPassword(c) ==
    /\ attempt[c].stage = "checked"
    /\ ~ Blocked(attempt[c].process)
    /\ Clear(AttemptStore(c), attempt[c].ip)
    /\ attempt' = [attempt EXCEPT ![c] = NoAttempt]
    /\ UNCHANGED <<tracker, lockClock, lockFaults>>

\* user_inactive and no_tenant_membership are not counted.  A login whose
\* request dies, or whose Redis command fails, ends here too.
Uncounted(c) ==
    /\ attempt[c].stage = "checked"
    /\ attempt' = [attempt EXCEPT ![c] = NoAttempt]
    /\ UNCHANGED <<tracker, failures, lock, lockClock, lockFaults, wrong>>

----------------------------------------------------------------------------
(* Unlocking, faults and time.                                             *)

\* unlock_account: without an address it clears the key of "unknown".
Unlock(p, i, backing) ==
    /\ lockFaults < MaxLockFaults
    /\ ~ Blocked(p)
    /\ IF tracker[p] = "unbuilt" THEN backing # "unbuilt" ELSE backing = tracker[p]
    /\ tracker' = [tracker EXCEPT ![p] = backing]
    /\ Clear(LockStore(p, backing), i)
    /\ lockFaults' = lockFaults + 1
    /\ UNCHANGED <<attempt, lockClock>>

\* Guess n is the one after which client c is to set the lock.
LastOf(c, n) ==
    /\ wrong[n].by = c /\ wrong[n].store = AttemptStore(c) /\ wrong[n].ip = attempt[c].ip
    /\ \A k \in DOMAIN wrong :
          wrong[k].by = c /\ wrong[k].store = wrong[n].store /\ wrong[k].ip = wrong[n].ip => k <= n

\* SET fails or its process is killed after the failure was recorded, which
\* goes without the lock it was due.
LockLost(c) ==
    /\ attempt[c].stage = "locking"
    /\ lockFaults < MaxLockFaults
    /\ attempt' = [attempt EXCEPT ![c] = NoAttempt]
    /\ lockFaults' = lockFaults + 1
    /\ wrong' = [n \in DOMAIN wrong |-> [wrong[n] EXCEPT !.unlocked = @ \/ LastOf(c, n)]]
    /\ UNCHANGED <<tracker, failures, lock, lockClock>>

\* A process is started again: its memory is empty, its logins are gone and
\* its tracker will be built anew.
RestartProcess(p) ==
    /\ lockFaults < MaxLockFaults
    /\ ~ Blocked(p)
    /\ lockFaults' = lockFaults + 1
    /\ tracker' = [tracker EXCEPT ![p] = "unbuilt"]
    /\ failures' = [failures EXCEPT ![p] = [i \in Ips |-> {}]]
    /\ lock' = [lock EXCEPT ![p] = [i \in Ips |-> 0]]
    /\ wrong' = [n \in DOMAIN wrong |->
                    IF wrong[n].store = p THEN Forgot(wrong[n]) ELSE wrong[n]]
    /\ attempt' = [c \in Clients |-> IF attempt[c].process = p THEN NoAttempt ELSE attempt[c]]
    /\ UNCHANGED lockClock

LockTick ==
    /\ lockClock < MaxLockClock
    /\ lockClock' = lockClock + 1
    /\ UNCHANGED <<tracker, failures, lock, attempt, lockFaults, wrong>>

LockNext ==
    \/ \E p \in Processes, backing \in Backings :
          \/ \E c \in Clients, i \in LoginIps : CheckLock(c, p, i, backing)
          \/ \E i \in Ips : Unlock(p, i, backing)
    \/ \E c \in Clients :
          WrongPassword(c) \/ SetLock(c) \/ RightPassword(c) \/ Uncounted(c) \/ LockLost(c)
    \/ \E p \in Processes : RestartProcess(p)
    \/ LockTick

LockSpec == LockInit /\ [][LockNext]_lockVars

----------------------------------------------------------------------------
(* Properties.                                                             *)

\* Every variable has its type.
LockTypeOK ==
    /\ tracker \in [Processes -> Backings]
    /\ \A s \in LockStores, i \in Ips :
          /\ failures[s][i] \subseteq DOMAIN wrong
          /\ lock[s][i] \in 0..(MaxLockClock + LockFor)
    /\ attempt \in [Clients -> [stage : {"idle", "checked", "locking"},
                                process : Processes \cup {"none"}, ip : Ips \cup {"none"}]]
    /\ lockClock \in 1..MaxLockClock
    /\ lockFaults \in 0..MaxLockFaults

\* The wrong passwords a store has not been told to forget that were
\* verified for an address less than a window before t.
Guesses(s, i, t) ==
    {n \in DOMAIN wrong : /\ wrong[n].store = s /\ wrong[n].ip = i
                          /\ wrong[n].at <= t /\ t < wrong[n].at + Window}

\* However the logins interleave, at most MaxFails - 1 + |Clients| wrong
\* passwords are verified for an address within a window, counting those
\* one store serves and has not been told to forget; a lock that was lost
\* costs one more (the check, the count and the lock are three steps).
GuessesBounded ==
    \A s \in LockStores, i \in Ips, t \in 1..MaxLockClock :
        LET tried == {n \in Guesses(s, i, t) : ~ wrong[n].forgotten} IN
        Cardinality(tried)
            <= MaxFails - 1 + Cardinality(Clients)
                + Cardinality({n \in tried : wrong[n].unlocked})

\* An address is locked only if, some time before, MaxFails wrong passwords
\* had been verified for it within a window: failures that have left the
\* window, and those of another address, never lock it.
LockJustified ==
    \A s \in LockStores, i \in Ips :
        lock[s][i] > 0 =>
            \E t \in 1..MaxLockClock :
                /\ t + LockFor <= lock[s][i]
                /\ Cardinality({n \in DOMAIN wrong :
                        /\ wrong[n].store = s /\ wrong[n].ip = i
                        /\ wrong[n].at <= t /\ t <= wrong[n].at + Window}) >= MaxFails

\* The lockout locks soon enough and never without reason, however logins of
\* several processes overlap (check, record_failure).
LockoutSound ==
    /\ LockTypeOK
    /\ GuessesBounded
    /\ LockJustified
=============================================================================
