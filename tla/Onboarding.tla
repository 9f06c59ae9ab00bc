----------------------------- MODULE Onboarding -----------------------------
(***************************************************************************)
(* How an account comes to be, for one email address: registration         *)
(* (auth_service.register_user_and_tenant) and the self-serve wizard of    *)
(* api/v1/onboarding.py with onboarding_service.py and                     *)
(* email_verification_service.py.                                          *)
(*                                                                         *)
(* Visitors are concurrent requests, each one transaction that get_db      *)
(* commits at the end and rolls back when anything is raised.  The wizard  *)
(* row is read without a lock and written back column by column: the ORM   *)
(* updates the columns a request assigned, each whole.  An INSERT of the   *)
(* same email, and an UPDATE of the same code, wait for the transaction    *)
(* that came first.  An account has one code (no endpoint issues another), *)
(* so the limit on codes per hour is not met.                              *)
(***************************************************************************)
EXTENDS Naturals, FiniteSets

CONSTANTS
    Visitors,       \* requests at once
    MaxAttempts,    \* EMAIL_VERIFICATION_MAX_ATTEMPTS
    MaxCodes,       \* bound: codes mailed
    MaxMisses,      \* bound: wrong codes submitted
    MaxWizardOps,   \* bound: requests of the wizard
    MaxSuppliers,   \* bound: suppliers added
    MaxFirst        \* bound: first submissions run

ASSUME OnboardingAssumption ==
    /\ IsFiniteSet(Visitors)
    /\ MaxAttempts \in Nat \ {0}
    /\ {MaxCodes, MaxMisses, MaxWizardOps, MaxSuppliers, MaxFirst} \subseteq Nat

VARIABLES
    account,    \* the committed user and tenant of the address
    code,       \* its email_verifications row
    wizard,     \* its onboarding_states row
    suppliers,  \* suppliers the wizard created
    submissions,\* QUEUED submissions the wizard created
    visit,      \* the request of each visitor
    mailed,     \* codes sent, those of starts that were rolled back included
    proven,     \* history: the mailed code was submitted in time
    misses,     \* history: wrong codes answered 400
    wizardOps,  \* requests of the wizard so far
    crossed     \* history: a request replaced a column of the wizard row that
                \* another one had written since it was read

onboardVars == <<account, code, wizard, suppliers, submissions, visit, mailed,
                 proven, misses, wizardOps, crossed>>

\* STEP_ORDER
StepOrder == <<"start", "email_pending", "email_verified", "profile", "plan",
               "portal", "supplier", "submission", "done">>
Steps == {StepOrder[n] : n \in DOMAIN StepOrder}
StepIndex(s) == CHOOSE n \in DOMAIN StepOrder : StepOrder[n] = s

\* SKIPPABLE_STEPS
Skippable == {"plan", "portal", "supplier", "submission"}

NoCode == [id |-> 0, expired |-> FALSE, consumed |-> FALSE, attempts |-> 0]
NoWizard == [step |-> "start", completed |-> {}, skipped |-> {},
             data |-> [profile |-> FALSE, portal |-> FALSE, supplier |-> 0, submission |-> 0],
             profile |-> FALSE, completedAt |-> FALSE]

\* The row with another step and its completed_steps.
Moved(row, step, completed) ==
    [step |-> step, completed |-> completed, skipped |-> row.skipped, data |-> row.data,
     profile |-> row.profile, completedAt |-> row.completedAt]

\* A request that has read no wizard row, and none at all.
Visit(op, stage, guess) ==
    [op |-> op, stage |-> stage, guess |-> guess, read |-> NoWizard, stale |-> FALSE]
NoVisit == Visit("none", "idle", 0)

Signups == {"start", "register"}
WizardOps == {"profile", "portal", "supplier", "submission", "complete"} \cup Skippable

OnboardInit ==
    /\ account = [via |-> "none", active |-> FALSE]
    /\ code = NoCode
    /\ wizard = NoWizard
    /\ suppliers = 0
    /\ submissions = 0
    /\ visit = [v \in Visitors |-> NoVisit]
    /\ mailed = {}
    /\ proven = FALSE
    /\ misses = 0
    /\ wizardOps = 0
    /\ crossed = FALSE

----------------------------------------------------------------------------
(* POST /onboarding/start and POST /auth/register.  The honeypot and the   *)
(* password policy refuse before anything is read.                         *)

\* The email is looked up; a taken one is answered 409.
SignupReads(v, op) ==
    /\ visit[v].stage = "idle"
    /\ account.via = "none"
    /\ visit' = [visit EXCEPT ![v] = Visit(op, "read", 0)]
    /\ UNCHANGED <<account, code, wizard, suppliers, submissions, mailed, proven,
                   misses, wizardOps, crossed>>

\* MUTANT of EmailTaken: the lookup before is relied on.
EmailTrusted == FALSE

\* The unique index on users.email finds a committed row.
EmailTaken == account.via # "none"

\* Tenant and user are flushed.  The INSERT waits for another transaction
\* that inserted the email; a committed one refuses it.
SignupInserts(v) ==
    /\ visit[v].op \in Signups
    /\ visit[v].stage = "read"
    /\ \A w \in Visitors : visit[w].stage \notin {"inserted", "mailed"}
    /\ visit' = [visit EXCEPT ![v] = IF EmailTaken THEN NoVisit ELSE [@ EXCEPT !.stage = "inserted"]]
    /\ UNCHANGED <<account, code, wizard, suppliers, submissions, mailed, proven,
                   misses, wizardOps, crossed>>

\* issue_code, and the mail, which leaves before the commit.
StartMails(v) ==
    /\ visit[v].op = "start"
    /\ visit[v].stage = "inserted"
    /\ Cardinality(mailed) < MaxCodes
    /\ LET id == Cardinality(mailed) + 1 IN
       /\ mailed' = mailed \cup {id}
       /\ visit' = [visit EXCEPT ![v] = Visit("start", "mailed", id)]
    /\ UNCHANGED <<account, code, wizard, suppliers, submissions, proven, misses,
                   wizardOps, crossed>>

\* The pending account, its wizard row and its code are committed.
StartCommits(v) ==
    /\ visit[v].stage = "mailed"
    /\ account' = [via |-> "start", active |-> FALSE]
    /\ code' = [NoCode EXCEPT !.id = visit[v].guess]
    /\ wizard' = Moved(NoWizard, "email_pending", {"start"})
    /\ visit' = [visit EXCEPT ![v] = NoVisit]
    /\ UNCHANGED <<suppliers, submissions, mailed, proven, misses, wizardOps, crossed>>

\* register commits an account that is active at once and has no wizard.
RegisterCommits(v) ==
    /\ visit[v].op = "register"
    /\ visit[v].stage = "inserted"
    /\ account' = [via |-> "register", active |-> TRUE]
    /\ visit' = [visit EXCEPT ![v] = NoVisit]
    /\ UNCHANGED <<code, wizard, suppliers, submissions, mailed, proven, misses,
                   wizardOps, crossed>>

----------------------------------------------------------------------------
(* POST /onboarding/verify-email, with the token start answered.  That     *)
(* token never says email_verified, so the code is always asked for.       *)

\* A token of scope "onboarding" was minted for the pending account, which
\* exists.
TokenHolder == account.via = "start"

\* verify_code up to the comparison: no code, an expired code and used up
\* attempts are refused.
VerifyReads(v, guess) ==
    /\ visit[v].stage = "idle"
    /\ TokenHolder
    /\ ~ code.consumed
    /\ ~ code.expired
    /\ code.attempts < MaxAttempts
    /\ visit' = [visit EXCEPT ![v] = Visit("verify", "read", guess)]
    /\ UNCHANGED <<account, code, wizard, suppliers, submissions, mailed, proven,
                   misses, wizardOps, crossed>>

\* hmac.compare_digest of the two hashes
CodeMatches(guess) == guess = code.id

\* A wrong code: the counted attempt is flushed, and rolled back by the
\* exception that answers 400.
VerifyMisses(v) ==
    /\ visit[v].op = "verify"
    /\ visit[v].stage = "read"
    /\ ~ CodeMatches(visit[v].guess)
    /\ misses < MaxMisses
    /\ misses' = misses + 1
    /\ visit' = [visit EXCEPT ![v] = NoVisit]
    /\ UNCHANGED <<account, code, wizard, suppliers, submissions, mailed, proven,
                   wizardOps, crossed>>

\* The right code: the row is marked consumed and flushed, once no other
\* transaction holds it.
VerifyConsumes(v) ==
    /\ visit[v].op = "verify"
    /\ visit[v].stage = "read"
    /\ CodeMatches(visit[v].guess)
    /\ \A w \in Visitors : visit[w].stage # "consumed"
    /\ visit' = [visit EXCEPT ![v] = [@ EXCEPT !.stage = "consumed"]]
    /\ UNCHANGED <<account, code, wizard, suppliers, submissions, mailed, proven,
                   misses, wizardOps, crossed>>

\* advance_to refuses: a finished wizard, and every way back but the one
\* from PROFILE to START.
Refuses(row, target) ==
    \/ row.step = "done" /\ target # "done"
    \/ /\ StepIndex(target) < StepIndex(row.step)
       /\ <<row.step, target>> # <<"profile", "start">>

\* User and tenant are activated and the wizard is advanced twice, all in
\* one commit; a wizard that is already past EMAIL_VERIFIED answers 409 and
\* takes the rest back.
VerifyCommits(v) ==
    /\ visit[v].stage = "consumed"
    /\ visit' = [visit EXCEPT ![v] = NoVisit]
    /\ IF Refuses(wizard, "email_verified")
       THEN UNCHANGED <<account, code, wizard, proven>>
       ELSE /\ account' = [account EXCEPT !.active = TRUE]
            /\ code' = [id |-> code.id, expired |-> code.expired, consumed |-> TRUE,
                        attempts |-> code.attempts + 1]
            /\ wizard' = Moved(wizard, "profile",
                               wizard.completed \cup {"email_verified", "profile"})
            /\ proven' = (proven \/ visit[v].guess \in mailed)
    /\ UNCHANGED <<suppliers, submissions, mailed, misses, wizardOps, crossed>>

\* EMAIL_VERIFICATION_CODE_TTL_MINUTES pass.
CodeExpires ==
    /\ code.id # 0
    /\ ~ code.expired
    /\ ~ code.consumed
    /\ code' = [code EXCEPT !.expired = TRUE]
    /\ UNCHANGED <<account, wizard, suppliers, submissions, visit, mailed, proven,
                   misses, wizardOps, crossed>>

----------------------------------------------------------------------------
(* The wizard, for members of the tenant.                                  *)

\* The step each endpoint advances to.
TargetOf(op) ==
    CASE op = "profile" -> "plan"
      [] op = "portal" -> "supplier"
      [] op = "complete" -> "done"
      [] OTHER -> "submission"

\* skip_step: the step after the skipped one, never backwards.
SkipTo(row, step) ==
    LET next == StepOrder[StepIndex(step) + 1] IN
    IF StepIndex(next) > StepIndex(row.step) THEN next ELSE row.step

\* What an endpoint refuses when it has read the row: skip_step and
\* advance_to each their own, complete nothing.
Declines(row, op, skip) ==
    IF skip THEN row.step = "done"
    ELSE /\ op # "complete"
         /\ \/ op = "submission" /\ suppliers = 0
            \/ Refuses(row, TargetOf(op))

\* get_current_tenant_user: an active user with a membership.
Member == account.active

\* Requests of an endpoint in flight, for the bounds.
Stepping(op) ==
    Cardinality({v \in Visitors : visit[v].op = op /\ visit[v].stage = "stepping"})

\* The endpoint reads the row; skip tells POST /skip-step from the endpoint
\* of that step.
WizardReads(v, op, skip) ==
    /\ visit[v].stage = "idle"
    /\ wizardOps < MaxWizardOps
    /\ wizardOps' = wizardOps + 1
    /\ Member
    /\ account.via = "start"
    /\ op \in IF skip THEN Skippable ELSE {"profile", "portal", "supplier", "submission", "complete"}
    /\ ~ Declines(wizard, op, skip)
    /\ op = "supplier" /\ ~ skip => suppliers + Stepping(op) < MaxSuppliers
    /\ op = "submission" /\ ~ skip => submissions + Stepping(op) < MaxFirst
    /\ visit' = [visit EXCEPT ![v] = [op |-> op, stage |-> IF skip THEN "skipping" ELSE "stepping",
                                      guess |-> 0, read |-> wizard, stale |-> FALSE]]
    /\ UNCHANGED <<account, code, wizard, suppliers, submissions, mailed, proven,
                   misses, crossed>>

\* v's request ends; what the others have read of the wizard is now old.
WritesWizard(v) ==
    visit' = [w \in Visitors |->
                IF w = v THEN NoVisit
                ELSE [visit[w] EXCEPT !.stale = visit[w].stage \in {"skipping", "stepping"}]]

\* History: a JSON column that v's request replaces is not the one it read.
Overwrites(v) ==
    LET read == visit[v].read IN
    IF visit[v].stage = "skipping" THEN read.skipped # wizard.skipped
    ELSE \/ read.completed # wizard.completed
         \/ visit[v].op # "complete" /\ read.data # wizard.data

\* skip_step writes skipped_steps, and current_step when it has changed.
SkipCommits(v) ==
    LET read == visit[v].read
        step == SkipTo(read, visit[v].op)
    IN
    /\ visit[v].stage = "skipping"
    /\ wizard' = [step |-> IF step # read.step THEN step ELSE wizard.step,
                  completed |-> wizard.completed,
                  skipped |-> read.skipped \cup {visit[v].op},
                  data |-> wizard.data, profile |-> wizard.profile,
                  completedAt |-> wizard.completedAt]
    /\ crossed' = (crossed \/ Overwrites(v))
    /\ WritesWizard(v)
    /\ UNCHANGED <<account, code, suppliers, submissions, mailed, proven, misses, wizardOps>>

\* step_data_json of each endpoint, merged into what was read.
MergedData(read, op) ==
    CASE op = "profile" -> [read.data EXCEPT !.profile = TRUE]
      [] op = "portal" -> [read.data EXCEPT !.portal = TRUE]
      [] op = "supplier" -> [read.data EXCEPT !.supplier = suppliers + 1]
      [] op = "submission" -> [read.data EXCEPT !.submission = submissions + 1]
      [] OTHER -> read.data

\* MUTANT of StepCommits: the step is taken and the data is not kept.
StepKeepsNoData(v) ==
    LET read == visit[v].read
        op == visit[v].op
    IN
    /\ visit[v].stage = "stepping"
    /\ wizard' = [wizard EXCEPT !.step = TargetOf(op),
                                !.completed = read.completed \cup {TargetOf(op)},
                                !.completedAt = @ \/ op = "complete"]
    /\ suppliers' = suppliers + (IF op = "supplier" THEN 1 ELSE 0)
    /\ submissions' = submissions + (IF op = "submission" THEN 1 ELSE 0)
    /\ crossed' = (crossed \/ Overwrites(v))
    /\ WritesWizard(v)
    /\ UNCHANGED <<account, code, mailed, proven, misses, wizardOps>>

\* The endpoint's rows and advance_to, or mark_completed, which leaves a
\* finished wizard as it is.
StepCommits(v) ==
    LET read == visit[v].read
        op == visit[v].op
        finished == op = "complete" /\ read.step = "done"
    IN
    /\ visit[v].stage = "stepping"
    /\ wizard' = IF finished THEN wizard
                 ELSE [step |-> IF TargetOf(op) # read.step THEN TargetOf(op) ELSE wizard.step,
                       completed |-> read.completed \cup {TargetOf(op)},
                       skipped |-> wizard.skipped,
                       data |-> IF op = "complete" THEN wizard.data ELSE MergedData(read, op),
                       profile |-> wizard.profile \/ op = "profile",
                       completedAt |-> wizard.completedAt \/ op = "complete"]
    /\ suppliers' = suppliers + (IF op = "supplier" THEN 1 ELSE 0)
    /\ submissions' = submissions + (IF op = "submission" THEN 1 ELSE 0)
    /\ crossed' = (crossed \/ (~ finished /\ Overwrites(v)))
    /\ IF finished THEN visit' = [visit EXCEPT ![v] = NoVisit] ELSE WritesWizard(v)
    /\ UNCHANGED <<account, code, mailed, proven, misses, wizardOps>>

\* The request dies or is raised from: everything but the mail is undone.
VisitAborts(v) ==
    /\ visit[v].stage # "idle"
    /\ visit' = [visit EXCEPT ![v] = NoVisit]
    /\ UNCHANGED <<account, code, wizard, suppliers, submissions, mailed, proven,
                   misses, wizardOps, crossed>>

VisitStep(v) ==
    \/ SignupInserts(v)
    \/ StartMails(v)
    \/ StartCommits(v)
    \/ RegisterCommits(v)
    \/ VerifyMisses(v)
    \/ VerifyConsumes(v)
    \/ VerifyCommits(v)
    \/ SkipCommits(v)
    \/ StepCommits(v)

OnboardNext ==
    \/ \E v \in Visitors :
          \/ \E op \in Signups : SignupReads(v, op)
          \/ \E guess \in mailed \cup {0} : VerifyReads(v, guess)
          \/ \E op \in WizardOps, skip \in BOOLEAN : WizardReads(v, op, skip)
          \/ VisitStep(v)
          \/ VisitAborts(v)
    \/ CodeExpires

OnboardSpec == OnboardInit /\ [][OnboardNext]_onboardVars

----------------------------------------------------------------------------
(* Properties.                                                             *)

\* Every variable has its type.
OnboardTypeOK ==
    /\ account \in [via : Signups \cup {"none"}, active : BOOLEAN]
    /\ code \in [id : 0..MaxCodes, expired : BOOLEAN, consumed : BOOLEAN, attempts : 0..MaxAttempts]
    /\ wizard.step \in Steps
    /\ wizard.completed \subseteq Steps
    /\ wizard.skipped \subseteq Skippable
    /\ wizard.data \in [profile : BOOLEAN, portal : BOOLEAN,
                        supplier : 0..MaxSuppliers, submission : 0..MaxFirst]
    /\ mailed \subseteq 1..MaxCodes
    /\ misses \in 0..MaxMisses

\* An onboarded account does nothing before its address is proven: it is
\* active, its wizard has moved and it owns suppliers or submissions only
\* once a code that was mailed and committed has been submitted; a code of
\* a start that was rolled back, or a guess, never does it.
NothingBeforeProof ==
    account.via = "start"
    /\ (account.active \/ StepIndex(wizard.step) > 2 \/ suppliers > 0 \/ submissions > 0)
        => proven /\ code.consumed /\ code.id \in mailed

\* The wizard row tells the truth: its step was completed or follows a
\* skipped one, a wizard that is done has a completion date or had its last
\* step skipped, and it names the last supplier and the last submission that
\* were created.  Requests that overlap and write different columns do no
\* harm; only one that replaces a column another has written since may.
WizardCoherent ==
    ~ crossed /\ account.via = "start" =>
        /\ \/ wizard.step \in wizard.completed \cup {"email_pending"}
           \/ StepOrder[StepIndex(wizard.step) - 1] \in wizard.skipped
        /\ wizard.step = "done" => wizard.completedAt \/ "submission" \in wizard.skipped
        /\ wizard.data.supplier = suppliers
        /\ wizard.data.submission = submissions

\* The request of v writes what it decided on a wizard row that another
\* request has written since.
CommitsStale(v) == visit[v].stale /\ visit'[v] = NoVisit

\* The wizard goes back only by a request that commits what it decided on an
\* older row, whatever overlapped before: advance_to and skip_step go by the
\* row they read, and never below it.
WizardForward ==
    [][StepIndex(wizard'.step) < StepIndex(wizard.step) =>
          \E v \in Visitors : CommitsStale(v)]_onboardVars

\* An address gets one account: a committed account, pending or active, is
\* never replaced by that of a signup that looked the address up before.
OneAccount ==
    [][account.via # "none" => account'.via = account.via /\ code'.id = code.id]_onboardVars

\* What email_verification_service.py:7 and docs/ONBOARDING.md:60 say: a
\* code is worth MaxAttempts attempts, so an account becomes active only if
\* fewer wrong codes than that were submitted.
AttemptsCapped ==
    account.via = "start" /\ account.active => misses < MaxAttempts

\* Accounts and their wizards: nothing happens before the address is proven,
\* and the wizard row says what happened (verify_code, advance_to).
OnboardingSound ==
    /\ OnboardTypeOK
    /\ NothingBeforeProof
    /\ WizardCoherent

\* What no request may do: replace the account of an address, or take the
\* wizard back (start_onboarding, register_user_and_tenant, advance_to).
OnboardingSteps ==
    /\ OneAccount
    /\ WizardForward
=============================================================================
