---------------------------- MODULE PortalMonitor ----------------------------
(***************************************************************************)
(* The smoke tests of the carrier portals: the beat task probes every      *)
(* registered submitter, passes each result through the state file of      *)
(* SmokeStateTracker and alerts Slack; the public coverage page reads the  *)
(* same file.                                                              *)
(*                                                                         *)
(* observe() loads the whole file, decides and replaces the whole file.    *)
(* The task is acknowledged late, so a run that dies is run again, and a   *)
(* redelivered one may overlap with the next beat.                         *)
(***************************************************************************)
EXTENDS Integers, Sequences

CONSTANTS
    Registered,       \* platforms with a submitter, in registry order
    Declared,         \* all of PortalPlatform
    SmokeRuns,        \* task executions at the same time
    AlertCooldown,    \* portal_smoke_test_alert_cooldown_sec
    MaxSmokeTime,     \* bound: time
    MaxSmokeRuns,     \* bound: runs of the task
    MaxSmokeFaults    \* bound: overlaps, crashes, unreadable and unwritable files

Probed == {Registered[i] : i \in DOMAIN Registered}

ASSUME MonitorAssumption ==
    /\ Registered \in Seq(Declared) /\ Registered # <<>>
    /\ {AlertCooldown, MaxSmokeTime, MaxSmokeRuns, MaxSmokeFaults} \subseteq Nat

VARIABLES
    statefile,    \* the JSON file: a snapshot per platform
    smoke,        \* runs in progress
    smokeTime, smokeRuns, smokeFaults,
    streak,       \* failing observations of a platform since it last passed
    outage,       \* which outage of the platform this is
    seen,         \* when it was last observed
    paged,        \* the last failure alert sent for it: outage and time
    missed,       \* the last one that died with its run, recorded and not sent
    disturbed     \* an observation was lost: overlap or fault of the file

observed == <<streak, outage, seen>>
monitorVars == <<statefile, smoke, smokeTime, smokeRuns, smokeFaults, observed, paged, missed, disturbed>>

Never == -1
Unseen == [status |-> "none", changed |-> Never, alerted |-> Never, fails |-> 0]
Snapshot == [status: {"none", "pass", "fail"}, changed: Never..MaxSmokeTime,
             alerted: Never..MaxSmokeTime, fails: Nat]
Empty == [p \in Probed |-> Unseen]
NoRun == [pc |-> "idle", results |-> [p \in Probed |-> "pass"], at |-> 1, loaded |-> Empty,
          kind |-> "noop"]
AlertKinds == {"drift", "persistent_failure", "recovery", "noop"}
SmokeRun == [pc: {"idle", "load", "save", "notify"}, results: [Probed -> {"pass", "fail"}],
             at: 1..Len(Registered), loaded: [Probed -> Snapshot], kind: AlertKinds]

MonitorTypeOK ==
    /\ statefile \in [Probed -> Snapshot]
    /\ smoke \in [SmokeRuns -> SmokeRun]
    /\ smokeTime \in 0..MaxSmokeTime /\ smokeRuns \in 0..MaxSmokeRuns
    /\ smokeFaults \in 0..MaxSmokeFaults
    /\ streak \in [Probed -> Nat]
    /\ outage \in [Probed -> Nat]
    /\ seen \in [Probed -> Never..MaxSmokeTime]
    /\ {paged, missed} \subseteq [Probed -> [outage: Nat, at: Never..MaxSmokeTime]]
    /\ disturbed \in BOOLEAN

MonitorInit ==
    /\ statefile = Empty
    /\ smoke = [r \in SmokeRuns |-> NoRun]
    /\ smokeTime = 0 /\ smokeRuns = 0 /\ smokeFaults = 0
    /\ streak = [p \in Probed |-> 0]
    /\ outage = [p \in Probed |-> 0]
    /\ seen = [p \in Probed |-> Never]
    /\ paged = [p \in Probed |-> [outage |-> 0, at |-> Never]]
    /\ missed = paged
    /\ disturbed = FALSE

-----------------------------------------------------------------------------
(* The task *)

\* What the GET of the login page meets: no URL, no answer in time, a status
\* of 400 or more, a page without the needle, the page.
Sites == {"unconfigured", "unreachable", "error", "other_page", "login_page"}

\* _smoke_test: all failures are one.
SmokeTest(site) == IF site = "login_page" THEN "pass" ELSE "fail"

\* run_all_smoke_tests up to the end of _run_all: every exception of a probe
\* and its timeout count as a failure.  A second run at the same time is a
\* redelivery that meets the next beat.
RunAll(r) ==
    LET overlaps == \E o \in SmokeRuns : smoke[o].pc # "idle" IN
    /\ smoke[r].pc = "idle"
    /\ smokeRuns < MaxSmokeRuns
    /\ smokeRuns' = smokeRuns + 1
    /\ overlaps => smokeFaults < MaxSmokeFaults
    /\ smokeFaults' = IF overlaps THEN smokeFaults + 1 ELSE smokeFaults
    /\ \E site \in [Probed -> Sites] :
         smoke' = [smoke EXCEPT ![r] = [NoRun EXCEPT !.pc = "load",
                                         !.results = [p \in Probed |-> SmokeTest(site[p])]]]
    /\ UNCHANGED <<statefile, smokeTime, observed, paged, missed, disturbed>>

\* _load: a missing file is an empty map, and so is one that cannot be read.
Load(r, readable) ==
    /\ smoke[r].pc = "load"
    /\ readable \/ smokeFaults < MaxSmokeFaults
    /\ smoke' = [smoke EXCEPT ![r] = [@ EXCEPT !.pc = "save",
                                              !.loaded = IF readable THEN statefile ELSE Empty]]
    /\ smokeFaults' = IF readable THEN smokeFaults ELSE smokeFaults + 1
    /\ disturbed' = (disturbed \/ ~readable)
    /\ UNCHANGED <<statefile, smokeTime, smokeRuns, observed, paged, missed>>

\* Whether the reminder of a lasting outage is due.
Eligible(prev) == prev.alerted = Never \/ smokeTime - prev.alerted >= AlertCooldown

\* _decide: the kind of the alert.
Kind(prev, status) ==
    CASE status = "fail" /\ prev.status # "fail" -> "drift"
      [] status = "fail" /\ prev.status = "fail" /\ Eligible(prev) -> "persistent_failure"
      [] status = "pass" /\ prev.status = "fail" -> "recovery"
      [] OTHER -> "noop"

\* Mutant: a failure that is not alerted is not counted.
CountAlerted(prev, status) ==
    [status  |-> status,
     changed |-> IF prev.status = status THEN prev.changed ELSE smokeTime,
     alerted |-> IF Kind(prev, status) = "noop" THEN prev.alerted ELSE smokeTime,
     fails   |-> CASE status = "pass" -> 0
                   [] Kind(prev, status) = "noop" -> prev.fails
                   [] OTHER -> prev.fails + 1]

\* _decide: the new state.
Decide(prev, status) ==
    [status  |-> status,
     changed |-> IF prev.status = status THEN prev.changed ELSE smokeTime,
     alerted |-> IF Kind(prev, status) = "noop" THEN prev.alerted ELSE smokeTime,
     fails   |-> IF status = "pass" THEN 0 ELSE prev.fails + 1]

NextPlatform(run) ==
    IF run.at < Len(Registered)
    THEN [run EXCEPT !.pc = "load", !.at = @ + 1, !.kind = "noop", !.loaded = Empty]
    ELSE NoRun

\* _save: a temporary file takes the place of the old one, or is given up.
Saved(new, writable) == IF writable THEN new ELSE statefile

\* The rest of observe() and the choice of the message: a file that could
\* not be written is only logged.
Save(r, writable) ==
    LET run == smoke[r]
        p == Registered[run.at]
        kind == Kind(run.loaded[p], run.results[p]) IN
    /\ run.pc = "save"
    /\ writable \/ smokeFaults < MaxSmokeFaults
    /\ smokeFaults' = IF writable THEN smokeFaults ELSE smokeFaults + 1
    /\ statefile' = Saved([run.loaded EXCEPT ![p] = Decide(run.loaded[p], run.results[p])], writable)
    /\ disturbed' = (disturbed \/ ~writable \/ run.loaded # statefile)
    /\ smoke' = [smoke EXCEPT ![r] = IF kind = "noop" THEN NextPlatform(run)
                                     ELSE [run EXCEPT !.pc = "notify", !.kind = kind]]
    /\ streak' = [streak EXCEPT ![p] = IF run.results[p] = "pass" THEN 0 ELSE @ + 1]
    /\ outage' = [outage EXCEPT ![p] =
                    IF run.results[p] = "fail" /\ streak[p] = 0 THEN @ + 1 ELSE @]
    /\ seen' = [seen EXCEPT ![p] = smokeTime]
    /\ UNCHANGED <<smokeTime, smokeRuns, paged, missed>>

Alerting(run) == run.pc = "notify" /\ run.kind \in {"drift", "persistent_failure"}

\* The alert a run is about to send, entered in a record of alerts.
Entered(record, run) ==
    LET p == Registered[run.at] IN
    IF Alerting(run) THEN [record EXCEPT ![p] = [outage |-> outage[p], at |-> smokeTime]] ELSE record

\* SlackNotifier.notify: no webhook, an HTTP error or a bad status are logged,
\* so the task goes on either way.
Notify(r) ==
    /\ smoke[r].pc = "notify"
    /\ paged' = Entered(paged, smoke[r])
    /\ smoke' = [smoke EXCEPT ![r] = NextPlatform(smoke[r])]
    /\ UNCHANGED <<statefile, smokeTime, smokeRuns, smokeFaults, observed, missed, disturbed>>

\* The worker dies; the task is delivered again later, from the start.
SmokeCrash(r) ==
    /\ smoke[r].pc # "idle"
    /\ smokeFaults < MaxSmokeFaults
    /\ smokeFaults' = smokeFaults + 1
    /\ missed' = Entered(missed, smoke[r])
    /\ smoke' = [smoke EXCEPT ![r] = NoRun]
    /\ UNCHANGED <<statefile, smokeTime, smokeRuns, observed, paged, disturbed>>

\* Time passes between runs; the steps of a run are short beside the cooldown.
SmokeTick ==
    /\ smokeTime < MaxSmokeTime
    /\ \A r \in SmokeRuns : smoke[r].pc \in {"idle", "load"}
    /\ smokeTime' = smokeTime + 1
    /\ UNCHANGED <<statefile, smoke, smokeRuns, smokeFaults, observed, paged, missed, disturbed>>

MonitorNext ==
    \/ SmokeTick
    \/ \E r \in SmokeRuns :
         \/ RunAll(r) \/ Notify(r) \/ SmokeCrash(r)
         \/ \E ok \in BOOLEAN : Load(r, ok) \/ Save(r, ok)

MonitorSpec == MonitorInit /\ [][MonitorNext]_monitorVars

-----------------------------------------------------------------------------
(* The public coverage page *)

DownAfter == 3

\* _derive_health on a row of the file.
DeriveHealth(s) ==
    CASE s.status = "pass" -> "healthy"
      [] s.status = "fail" -> IF s.fails >= DownAfter THEN "down" ELSE "degraded"
      [] OTHER -> "unknown"

\* load_portal_coverage: every declared platform has a row, and one without
\* a submitter is "unknown" whatever the file says.
Coverage(p) == IF p \in Probed THEN DeriveHealth(statefile[p]) ELSE "unknown"

-----------------------------------------------------------------------------
(* Properties *)

\* As long as no observation was lost, the public page tells the truth: a
\* portal is down after three failures in a row and healthy after a pass, and
\* the count is that of the failures since (SmokeStateTracker.observe).
CoverageTruthful ==
    ~disturbed =>
      /\ \A p \in Probed :
           /\ statefile[p].fails = streak[p]
           /\ Coverage(p) = "down" <=> streak[p] >= 3
           /\ Coverage(p) = "degraded" <=> streak[p] \in 1..2
      /\ \A p \in Declared \ Probed : Coverage(p) = "unknown"

\* Every outage is announced: when no run is at work, the last alert of a
\* failing portal belongs to the outage that is going on.  An alert that died
\* with its run after it was recorded delays this, and by no more than a
\* cooldown: the first failure observed a cooldown later is announced
\* (_dispatch_alerts, _decide).  The cooldown may be nought.
OutageAnnounced ==
    (~disturbed /\ \A r \in SmokeRuns : smoke[r].pc = "idle") =>
      \A p \in Probed : streak[p] > 0 =>
        \/ paged[p].outage = outage[p]
        \/ /\ missed[p].outage = outage[p]
           /\ seen[p] = missed[p].at \/ seen[p] - missed[p].at < AlertCooldown

\* Failure alerts of one outage are a cooldown apart (_decide), as long as
\* no observation was lost and whichever run dies.
AlertsSpaced ==
    [][\A p \in Probed :
         (~disturbed /\ paged'[p] # paged[p] /\ paged'[p].outage = paged[p].outage)
           => paged'[p].at - paged[p].at >= AlertCooldown]_monitorVars

\* What the smoke tests tell operators and the public is so (observe,
\* _dispatch_alerts, the coverage page).
MonitorSound ==
    /\ MonitorTypeOK
    /\ CoverageTruthful
    /\ OutageAnnounced
=============================================================================
