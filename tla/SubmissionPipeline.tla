------------------------- MODULE SubmissionPipeline -------------------------
(***************************************************************************)
(* The life of supplier submissions: API requests create and retry rows    *)
(* (submission_service), the broker carries process_submission_task        *)
(* messages, Celery workers claim a row, file it with the carrier portal,  *)
(* sign a receipt and commit (submission_pipeline).                        *)
(*                                                                         *)
(* The database is Postgres at READ COMMITTED.  `row` is the committed     *)
(* table.  An UPDATE takes the row lock and keeps it until its transaction *)
(* ends; while it is held nobody else can change the row, so what a        *)
(* transaction has written but not committed is a function of `row` and of *)
(* its owner's program counter and needs no variable of its own.           *)
(*                                                                         *)
(* Times are attempt numbers: completed_at holds the attempt that set it,  *)
(* 0 standing for NULL.                                                    *)
(***************************************************************************)
EXTENDS Naturals, FiniteSets

CONSTANTS
    Submissions,    \* ids a request may draw for new rows
    Workers,        \* Celery worker processes
    Clients,        \* concurrent API requests
    None,           \* "no submission", "no lock holder"
    MAX_ATTEMPTS,   \* submission_pipeline.MAX_ATTEMPTS
    MAX_RETRIES,    \* Celery max_retries of process_submission_task
    EntryPoints,    \* which producers of rows the run uses
    EarlyErrors,    \* what the submitter may raise before the form is sent
    LateErrors,     \* what it may raise after the portal took the form
    Faults,         \* infrastructure faults the run allows
    MaxFaults,      \* bound: crashes and redeliveries in one behaviour
    MaxManual       \* bound: POST /submissions/{id}/retry in one behaviour

PortalErrors == {"captcha", "transient", "permanent"}

FaultKinds == {"crash", "redeliver", "broker", "database", "signer", "request", "standing", "timeout"}

ASSUME PipelineAssumption ==
    /\ None \notin Submissions \cup Workers \cup Clients
    /\ Workers \cap Clients = {}
    /\ MAX_ATTEMPTS \in Nat \ {0}
    /\ MAX_RETRIES \in Nat
    /\ EntryPoints \subseteq {"api", "onboarding", "inbound"}
    /\ EarlyErrors \subseteq PortalErrors
    /\ LateErrors \subseteq PortalErrors
    /\ Faults \subseteq FaultKinds
    /\ MaxFaults \in Nat
    /\ MaxManual \in Nat

VARIABLES
    row,        \* committed supplier_submissions rows
    standing,   \* what validation would find: portal support and consent
    receipts,   \* committed submission_receipts rows
    lock,       \* who holds the row lock
    queue,      \* undelivered task messages per submission and retry count
    req,        \* API requests in progress
    job,        \* task executions in progress
    filings,    \* how often the portal accepted the submission's form
    faults,     \* crashes and redeliveries so far
    manual      \* manual retries so far

vars == <<row, standing, receipts, lock, queue, req, job, filings, faults, manual>>

-----------------------------------------------------------------------------
(* Types *)

SubmissionStatus == {"queued", "running", "completed", "failed",
                     "retrying", "blocked", "platform_unsupported"}

\* "absent": the id has not been drawn; "void": drawn by a transaction that
\* has not committed (or never will), so no other session sees a row.
RowStatus == SubmissionStatus \cup {"absent", "void"}

Claimable == {"queued", "retrying"}
RETRYABLE_STATUSES == {"failed", "blocked"}

\* "none": the row points to no consent record; "revoked": the record it
\* points to is revoked or does not cover the portal.
Standing == {"none", "ok", "revoked", "unsupported"}

Row == [status: RowStatus, attempt_count: Nat, completed_at: Nat]
Receipt == [submission: Submissions, attempt: Nat, submitted_at: Nat]

RequestPC == {"idle", "read", "flushed", "enqueued"}
Request == [pc: RequestPC, kind: {"create", "retry"}, submission: Submissions \cup {None}]

\* Steps of a task from its claim to its outcome.  They belong to the claim's
\* transaction; lost: the connection has gone and the transaction with it.
ClaimedPC == {"validate", "submit", "filed", "failing", "sign"}
JobPC == {"idle", "claim", "done"} \cup ClaimedPC
Job == [pc: JobPC, submission: Submissions \cup {None}, retries: 0..MAX_RETRIES,
        error: PortalErrors \cup {"none", "unsupported"}, lost: BOOLEAN]

TypeOK ==
    /\ row \in [Submissions -> Row]
    /\ standing \in [Submissions -> Standing]
    /\ receipts \subseteq Receipt
    /\ lock \in [Submissions -> Workers \cup Clients \cup {None}]
    /\ queue \in [Submissions \X (0..MAX_RETRIES) -> Nat]
    /\ req \in [Clients -> Request]
    /\ job \in [Workers -> Job]
    /\ filings \in [Submissions -> Nat]
    /\ faults \in 0..MaxFaults
    /\ manual \in 0..MaxManual

NoRequest == [pc |-> "idle", kind |-> "create", submission |-> None]
NoJob == [pc |-> "idle", submission |-> None, retries |-> 0, error |-> "none", lost |-> FALSE]

Init ==
    /\ row = [s \in Submissions |-> [status |-> "absent", attempt_count |-> 0, completed_at |-> 0]]
    /\ standing = [s \in Submissions |-> "none"]
    /\ receipts = {}
    /\ lock = [s \in Submissions |-> None]
    /\ queue = [m \in Submissions \X (0..MAX_RETRIES) |-> 0]
    /\ req = [c \in Clients |-> NoRequest]
    /\ job = [w \in Workers |-> NoJob]
    /\ filings = [s \in Submissions |-> 0]
    /\ faults = 0
    /\ manual = 0

-----------------------------------------------------------------------------
(* API requests *)

\* create_submission up to its flush: the caller checked that the portal is
\* supported and that the consent record covers it; the row exists only
\* inside this transaction.
CreateFlush(c, s) ==
    /\ "api" \in EntryPoints
    /\ req[c].pc = "idle"
    /\ row[s].status = "absent"
    /\ row' = [row EXCEPT ![s].status = "void"]
    /\ standing' = [standing EXCEPT ![s] = "ok"]
    /\ req' = [req EXCEPT ![c] = [pc |-> "flushed", kind |-> "create", submission |-> s]]
    /\ UNCHANGED <<receipts, lock, queue, job, filings, faults, manual>>

\* Mutant: the status test forgets that a completed submission is final.
RetryReadOfAnySettled(c, s) ==
    /\ manual < MaxManual
    /\ req[c].pc = "idle"
    /\ row[s].status \in RETRYABLE_STATUSES \cup {"completed"}
    /\ req' = [req EXCEPT ![c] = [pc |-> "read", kind |-> "retry", submission |-> s]]
    /\ manual' = manual + 1
    /\ UNCHANGED <<row, standing, receipts, lock, queue, job, filings, faults>>

\* retry_submission: get_submission reads the row without locking it and the
\* status test is made on that copy.
RetryRead(c, s) ==
    /\ manual < MaxManual
    /\ req[c].pc = "idle"
    /\ row[s].status \in RETRYABLE_STATUSES
    /\ req' = [req EXCEPT ![c] = [pc |-> "read", kind |-> "retry", submission |-> s]]
    /\ manual' = manual + 1
    /\ UNCHANGED <<row, standing, receipts, lock, queue, job, filings, faults>>

\* The flush of retry_submission: UPDATE ... WHERE id = :id, which waits for
\* the row lock and does not look at the status again.
RetryFlush(c) ==
    /\ req[c].pc = "read"
    /\ lock[req[c].submission] = None
    /\ lock' = [lock EXCEPT ![req[c].submission] = c]
    /\ req' = [req EXCEPT ![c].pc = "flushed"]
    /\ UNCHANGED <<row, standing, receipts, queue, job, filings, faults, manual>>

\* _enqueue: process_submission_task.delay, before the commit.  An exception
\* of the broker is logged and dropped.
Enqueue(c) ==
    /\ req[c].pc = "flushed"
    /\ req' = [req EXCEPT ![c].pc = "enqueued"]
    /\ \/ queue' = [queue EXCEPT ![<<req[c].submission, 0>>] = @ + 1]
       \/ "broker" \in Faults /\ UNCHANGED queue
    /\ UNCHANGED <<row, standing, receipts, lock, job, filings, faults, manual>>

\* get_db commits when the handler has returned.
Commit(c) ==
    LET s == req[c].submission IN
    /\ req[c].pc = "enqueued"
    /\ row' = [row EXCEPT ![s].status = IF req[c].kind = "create" THEN "queued" ELSE "retrying"]
    /\ lock' = IF lock[s] = c THEN [lock EXCEPT ![s] = None] ELSE lock
    /\ req' = [req EXCEPT ![c] = NoRequest]
    /\ UNCHANGED <<standing, receipts, queue, job, filings, faults, manual>>

\* The request fails (statement timeout while waiting for the lock, an
\* exception after the flush, a lost connection, a killed process): get_db
\* rolls back.  A message already sent stays sent.
RequestFails(c) ==
    LET s == req[c].submission IN
    /\ "request" \in Faults
    /\ req[c].pc # "idle"
    /\ lock' = IF lock[s] = c THEN [lock EXCEPT ![s] = None] ELSE lock
    /\ req' = [req EXCEPT ![c] = NoRequest]
    /\ UNCHANGED <<row, standing, receipts, queue, job, filings, faults, manual>>

\* POST /onboarding/run-first-submission: inserts a consent record and a
\* queued row and commits; portal support is not tested and no message sent.
RunFirstSubmission(s) ==
    /\ "onboarding" \in EntryPoints
    /\ row[s].status = "absent"
    /\ row' = [row EXCEPT ![s].status = "queued"]
    /\ \E x \in {"ok", "unsupported"} : standing' = [standing EXCEPT ![s] = x]
    /\ UNCHANGED <<receipts, lock, queue, req, job, filings, faults, manual>>

\* SubmissionCreatorRouter.route: an inbound e-mail becomes a blocked draft
\* without a consent record.
DraftFromInbound(s) ==
    /\ "inbound" \in EntryPoints
    /\ row[s].status = "absent"
    /\ row' = [row EXCEPT ![s].status = "blocked"]
    /\ UNCHANGED <<standing, receipts, lock, queue, req, job, filings, faults, manual>>

\* Somebody revokes the consent record (for good) or switches the portal's
\* is_supported flag, at any moment.
StandingChanges(s) ==
    /\ "standing" \in Faults
    /\ standing[s] \in {"ok", "unsupported"}
    /\ \E x \in {"ok", "unsupported", "revoked"} \ {standing[s]} :
         standing' = [standing EXCEPT ![s] = x]
    /\ UNCHANGED <<row, receipts, lock, queue, req, job, filings, faults, manual>>

-----------------------------------------------------------------------------
(* The worker *)

\* The broker hands a message to an idle worker; acks_late: it is
\* acknowledged only when the task has returned.
Deliver(w, s, n) ==
    /\ job[w].pc = "idle"
    /\ queue[<<s, n>>] > 0
    /\ queue' = [queue EXCEPT ![<<s, n>>] = @ - 1]
    /\ job' = [job EXCEPT ![w] = [pc |-> "claim", submission |-> s, retries |-> n,
                                   error |-> "none", lost |-> FALSE]]
    /\ UNCHANGED <<row, standing, receipts, lock, req, filings, faults, manual>>

\* Mutant: the claim reads the status first and takes the row by id only.
ClaimByIdOnly(w) ==
    /\ job[w].pc = "claim"
    /\ row[job[w].submission].status \in Claimable
    /\ lock' = [lock EXCEPT ![job[w].submission] = w]
    /\ job' = [job EXCEPT ![w].pc = "validate"]
    /\ UNCHANGED <<row, standing, receipts, queue, req, filings, faults, manual>>

\* _claim_submission: UPDATE ... WHERE id AND status IN (queued, retrying).
\* A row whose committed status does not match is skipped without waiting; a
\* matching row that is locked is waited for and tested again.
Claim(w) ==
    LET s == job[w].submission IN
    /\ job[w].pc = "claim"
    /\ row[s].status \in Claimable
    /\ lock[s] = None
    /\ lock' = [lock EXCEPT ![s] = w]
    /\ job' = [job EXCEPT ![w].pc = "validate"]
    /\ UNCHANGED <<row, standing, receipts, queue, req, filings, faults, manual>>

\* SubmissionNotClaimable: the task reports "skipped" and is acknowledged.
NotClaimable(w) ==
    /\ job[w].pc = "claim"
    /\ row[job[w].submission].status \notin Claimable
    /\ job' = [job EXCEPT ![w].pc = "done"]
    /\ UNCHANGED <<row, standing, receipts, lock, queue, req, filings, faults, manual>>

\* statement_timeout cancels the claim while it waits for the lock; the task
\* swallows the exception and is acknowledged.
ClaimTimesOut(w) ==
    /\ "timeout" \in Faults
    /\ job[w].pc = "claim"
    /\ lock[job[w].submission] # None
    /\ job' = [job EXCEPT ![w].pc = "done"]
    /\ UNCHANGED <<row, standing, receipts, lock, queue, req, filings, faults, manual>>

\* ConnectionError while opening the session: self.retry sends the message
\* again until max_retries is reached.
ConnectFails(w) ==
    /\ "database" \in Faults
    /\ job[w].pc = "claim"
    /\ queue' = IF job[w].retries < MAX_RETRIES
                THEN [queue EXCEPT ![<<job[w].submission, job[w].retries + 1>>] = @ + 1]
                ELSE queue
    /\ job' = [job EXCEPT ![w].pc = "done"]
    /\ UNCHANGED <<row, standing, receipts, lock, req, filings, faults, manual>>

\* Mutant: a submission without a consent record passes validation.
ValidateAllowingNoConsent(w) ==
    LET found == standing[job[w].submission] IN
    /\ job[w].pc = "validate" /\ ~job[w].lost
    /\ job' = [job EXCEPT ![w].pc = IF found \in {"ok", "none"} THEN "submit" ELSE "failing",
                          ![w].error = CASE found = "unsupported" -> "unsupported"
                                         [] found = "revoked" -> "permanent"
                                         [] OTHER -> "none"]
    /\ UNCHANGED <<row, standing, receipts, lock, queue, req, filings, faults, manual>>

\* _load_related, _validate_portal, _validate_consent, _get_submitter: what
\* they find decides between dispatch and the error that is recorded.
Validate(w) ==
    LET found == standing[job[w].submission] IN
    /\ job[w].pc = "validate" /\ ~job[w].lost
    /\ job' = [job EXCEPT ![w].pc = IF found = "ok" THEN "submit" ELSE "failing",
                          ![w].error = CASE found = "ok" -> "none"
                                         [] found = "unsupported" -> "unsupported"
                                         [] OTHER -> "permanent"]
    /\ UNCHANGED <<row, standing, receipts, lock, queue, req, filings, faults, manual>>

\* Mutant: an exception of the submitter is logged and execution falls
\* through to the signing step.
SubmitFailsThrough(w, e) ==
    /\ job[w].pc = "submit"
    /\ e \in EarlyErrors
    /\ job' = [job EXCEPT ![w].pc = "sign", ![w].error = e]
    /\ UNCHANGED <<row, standing, receipts, lock, queue, req, filings, faults, manual>>

\* _run_sync_pipeline up to the click on submit: it raises, or the portal
\* takes the form.
SubmitFails(w, e) ==
    /\ job[w].pc = "submit"
    /\ e \in EarlyErrors
    /\ job' = [job EXCEPT ![w].pc = "failing", ![w].error = e]
    /\ UNCHANGED <<row, standing, receipts, lock, queue, req, filings, faults, manual>>

SubmitFiles(w) ==
    /\ job[w].pc = "submit"
    /\ job' = [job EXCEPT ![w].pc = "filed"]
    /\ filings' = [filings EXCEPT ![job[w].submission] = @ + 1]
    /\ UNCHANGED <<row, standing, receipts, lock, queue, req, faults, manual>>

\* After the click: a captcha, a missing or malformed reference, a timeout
\* or a failed screenshot still raises.
ConfirmationFails(w, e) ==
    /\ job[w].pc = "filed"
    /\ e \in LateErrors
    /\ job' = [job EXCEPT ![w].pc = "failing", ![w].error = e]
    /\ UNCHANGED <<row, standing, receipts, lock, queue, req, filings, faults, manual>>

ConfirmationCaptured(w) ==
    /\ job[w].pc = "filed"
    /\ job' = [job EXCEPT ![w].pc = "sign"]
    /\ UNCHANGED <<row, standing, receipts, lock, queue, req, filings, faults, manual>>

\* attempt_count as the claim's UPDATE left it in the open transaction.
Attempt(s) == row[s].attempt_count + 1

\* Mutant: the error code is stored as the status of a captcha.
ClassifyRaw(e, attempt) ==
    CASE e = "captcha" -> e
      [] e = "transient" -> IF attempt < MAX_ATTEMPTS THEN "retrying" ELSE "failed"
      [] e = "unsupported" -> "platform_unsupported"
      [] OTHER -> "failed"

\* _classify_failure.
Classify(e, attempt) ==
    CASE e = "captcha" -> "blocked"
      [] e = "transient" -> IF attempt < MAX_ATTEMPTS THEN "retrying" ELSE "failed"
      [] e = "unsupported" -> "platform_unsupported"
      [] OTHER -> "failed"

\* The outcome of the attempt, committed together with the claim.
Settle(w, status, completed) ==
    LET s == job[w].submission IN
    /\ row' = [row EXCEPT ![s] = [status |-> status, attempt_count |-> Attempt(s),
                                  completed_at |-> completed]]
    /\ lock' = [lock EXCEPT ![s] = None]
    /\ job' = [job EXCEPT ![w].pc = "done"]

\* The except branch around the submitter.  Nothing is raised out of
\* process_submission, so the task is not retried.
RecordFailure(w) ==
    LET s == job[w].submission
        status == Classify(job[w].error, Attempt(s))
    IN
    /\ job[w].pc = "failing" /\ ~job[w].lost
    /\ Settle(w, status, IF status = "retrying" THEN 0 ELSE Attempt(s))
    /\ UNCHANGED <<standing, receipts, queue, req, filings, faults, manual>>

HasReceipt(s) == \E r \in receipts : r.submission = s

\* sign_receipt: submitted_at = completed_at or started_at.
SubmittedAt(s) == IF row[s].completed_at # 0 THEN row[s].completed_at ELSE Attempt(s)

\* The row sign_receipt stages; the attempt stands for the payload it signs.
SignedReceipt(s) == [submission |-> s, attempt |-> Attempt(s), submitted_at |-> SubmittedAt(s)]

\* Mutant: no unique constraint on submission_receipts.submission_id.
SignWithoutUnique(w) ==
    LET s == job[w].submission IN
    /\ job[w].pc = "sign" /\ ~job[w].lost
    /\ receipts' = receipts \cup {SignedReceipt(s)}
    /\ Settle(w, "completed", Attempt(s))
    /\ UNCHANGED <<standing, queue, req, filings, faults, manual>>

\* The rest of process_submission: the receipt is staged and committed with
\* the completed status and the claim.
SignAndComplete(w) ==
    LET s == job[w].submission IN
    /\ job[w].pc = "sign" /\ ~job[w].lost
    /\ ~HasReceipt(s)
    /\ receipts' = receipts \cup {SignedReceipt(s)}
    /\ Settle(w, "completed", Attempt(s))
    /\ UNCHANGED <<standing, queue, req, filings, faults, manual>>

\* No usable signing key: the attempt is recorded as failed although the
\* portal holds the filing.
SigningFails(w) ==
    /\ "signer" \in Faults
    /\ job[w].pc = "sign" /\ ~job[w].lost
    /\ Settle(w, "failed", Attempt(job[w].submission))
    /\ UNCHANGED <<standing, receipts, queue, req, filings, faults, manual>>

\* Mutant: the session is never rolled back after the failed flush.
DuplicateReceiptKeepsLock(w) ==
    /\ job[w].pc = "sign" /\ ~job[w].lost
    /\ HasReceipt(job[w].submission)
    /\ job' = [job EXCEPT ![w].pc = "done"]
    /\ UNCHANGED <<row, standing, receipts, lock, queue, req, filings, faults, manual>>

\* The unique constraint on submission_receipts.submission_id refuses a
\* second receipt.  The failed flush dooms the transaction, the flush of the
\* except branch raises again, and _run rolls everything back.
DuplicateReceipt(w) ==
    LET s == job[w].submission IN
    /\ job[w].pc = "sign" /\ ~job[w].lost
    /\ HasReceipt(s)
    /\ lock' = [lock EXCEPT ![s] = None]
    /\ job' = [job EXCEPT ![w].pc = "done"]
    /\ UNCHANGED <<row, standing, receipts, queue, req, filings, faults, manual>>

\* The connection is lost somewhere between the claim and the commit, most
\* likely while it idles through the browser session of submitter.submit:
\* Postgres rolls the transaction back and frees the row, and the worker goes
\* on, because it has nothing to ask the database until the portal is done.
ConnectionLost(w) ==
    /\ "database" \in Faults
    /\ job[w].pc \in ClaimedPC /\ ~job[w].lost
    /\ lock' = [lock EXCEPT ![job[w].submission] = None]
    /\ job' = [job EXCEPT ![w].lost = TRUE]
    /\ UNCHANGED <<row, standing, receipts, queue, req, filings, faults, manual>>

\* The worker's next query fails, the flush of the except branch raises again,
\* and the task swallows the driver's exception.  A filing made meanwhile is
\* forgotten.
LossNoticed(w) ==
    /\ job[w].pc \in {"validate", "failing", "sign"} /\ job[w].lost
    /\ job' = [job EXCEPT ![w].pc = "done"]
    /\ UNCHANGED <<row, standing, receipts, lock, queue, req, filings, faults, manual>>

\* The task returned: the message is acknowledged.
Acknowledge(w) ==
    /\ job[w].pc = "done"
    /\ job' = [job EXCEPT ![w] = NoJob]
    /\ UNCHANGED <<row, standing, receipts, lock, queue, req, filings, faults, manual>>

\* The worker process dies: Postgres rolls the transaction back and
\* task_reject_on_worker_lost puts the message back.
WorkerCrash(w) ==
    LET s == job[w].submission IN
    /\ "crash" \in Faults
    /\ faults < MaxFaults
    /\ job[w].pc # "idle"
    /\ queue' = [queue EXCEPT ![<<s, job[w].retries>>] = @ + 1]
    /\ lock' = IF lock[s] = w THEN [lock EXCEPT ![s] = None] ELSE lock
    /\ job' = [job EXCEPT ![w] = NoJob]
    /\ faults' = faults + 1
    /\ UNCHANGED <<row, standing, receipts, req, filings, manual>>

\* The broker delivers an unacknowledged message a second time.
Redeliver(w) ==
    /\ "redeliver" \in Faults
    /\ faults < MaxFaults
    /\ job[w].pc # "idle"
    /\ queue' = [queue EXCEPT ![<<job[w].submission, job[w].retries>>] = @ + 1]
    /\ faults' = faults + 1
    /\ UNCHANGED <<row, standing, receipts, lock, req, job, filings, manual>>

-----------------------------------------------------------------------------

RequestStep(c) == RetryFlush(c) \/ Enqueue(c) \/ Commit(c)

WorkerStep(w) ==
    \/ Claim(w) \/ NotClaimable(w) \/ Validate(w)
    \/ SubmitFiles(w) \/ ConfirmationCaptured(w)
    \/ \E e \in PortalErrors : SubmitFails(w, e) \/ ConfirmationFails(w, e)
    \/ RecordFailure(w) \/ SignAndComplete(w) \/ DuplicateReceipt(w)
    \/ LossNoticed(w) \/ Acknowledge(w)

Delivery(w) == \E s \in Submissions, n \in 0..MAX_RETRIES : Deliver(w, s, n)

Next ==
    \/ \E c \in Clients, s \in Submissions : CreateFlush(c, s) \/ RetryRead(c, s)
    \/ \E c \in Clients : RequestStep(c) \/ RequestFails(c)
    \/ \E s \in Submissions :
         RunFirstSubmission(s) \/ DraftFromInbound(s) \/ StandingChanges(s)
    \/ \E w \in Workers :
         \/ Delivery(w) \/ WorkerStep(w)
         \/ ClaimTimesOut(w) \/ ConnectFails(w) \/ ConnectionLost(w) \/ SigningFails(w)
         \/ WorkerCrash(w) \/ Redeliver(w)

Spec == Init /\ [][Next]_vars

\* A handler that has started runs to its end and a worker keeps consuming
\* messages and executing the task it holds; nobody has to send a request and
\* no fault has to happen.
Fairness ==
    /\ \A c \in Clients : WF_vars(RequestStep(c))
    /\ \A w \in Workers : WF_vars(WorkerStep(w)) /\ WF_vars(Delivery(w))

FairSpec == Spec /\ Fairness

-----------------------------------------------------------------------------
(* Properties *)

\* The worker executes a submission in the transaction of its claim.
HasTransaction(w) == job[w].pc \in ClaimedPC /\ ~job[w].lost

\* Of the executions of one submission at most one has the claim's transaction:
\* two executions overlap, or one overlaps with a retry's UPDATE, only when a
\* connection was lost under a worker that is still filing, and never through
\* duplicate messages, redeliveries and retries alone (_claim_submission).
ExclusiveRun ==
    /\ \A v, w \in Workers :
         HasTransaction(v) /\ HasTransaction(w) /\ job[v].submission = job[w].submission => v = w
    /\ \A c \in Clients, w \in Workers :
         ~ /\ req[c].kind = "retry"
           /\ req[c].pc \in {"flushed", "enqueued"}
           /\ HasTransaction(w)
           /\ req[c].submission = job[w].submission

\* A submission never has two receipts, even when a completed submission is
\* sent through the pipeline again (sign_receipt, SubmissionReceipt).
UniqueReceipt == \A r, q \in receipts : r.submission = q.submission => r = q

\* A receipt is evidence of a filing: the portal accepted the form at least
\* once, in an attempt the row has counted (process_submission).
ReceiptBacked ==
    \A r \in receipts :
        /\ filings[r.submission] > 0
        /\ r.attempt \in 1..row[r.submission].attempt_count

\* A draft without a consent record is never filed with a portal, however
\* often it is retried (_validate_consent).
DraftsNeverFile == \A s \in Submissions : standing[s] = "none" => filings[s] = 0 /\ ~HasReceipt(s)

\* Every task execution ends and every row lock is released, whatever
\* crashes, redeliveries and failing requests happen in between.
TasksEnd ==
    /\ \A w \in Workers : job[w].pc # "idle" ~> job[w].pc = "idle"
    /\ \A s \in Submissions : lock[s] # None ~> lock[s] = None

\* What the lifecycle sees: a row no other session sees is not there yet.
Status == [s \in Submissions |-> IF row[s].status = "void" THEN "absent" ELSE row[s].status]
Receipted == {r.submission : r \in receipts}
Asks(c, s) == req[c].pc # "idle" /\ req[c].kind = "retry" /\ req[c].submission = s
Asking == [s \in Submissions |-> {c \in Clients : Asks(c, s)}]

\* With any number of concurrent requests the pipeline implements the lifecycle:
\* a retry is admitted while the submission is failed or blocked and takes
\* effect whenever its UPDATE gets the row, and a submission completes, with a
\* receipt, at most once.
Lifecycle == INSTANCE SubmissionLifecycle WITH
    status <- Status, receipted <- Receipted, asking <- Asking

LifecycleSpec == Lifecycle!Spec

\* retry_submission: "only failed or blocked submissions are eligible", so a
\* completed submission stays completed.
CompletedIsFinal ==
    [][\A s \in Submissions : row[s].status = "completed" => row'[s].status = "completed"]_vars

\* A queued submission is picked up by a worker.
QueuedIsPickedUp ==
    \A s \in Submissions : row[s].status = "queued" ~> row[s].status # "queued"

\* No two workers are ever busy with one submission.
NeverTwoAtOnce ==
    \A v, w \in Workers :
        job[v].pc \in ClaimedPC /\ job[w].pc \in ClaimedPC /\ job[v].submission = job[w].submission
        => v = w

\* docs/PITCH.md: with the atomic claim "a worker crash never double-submits".
CrashNeverFilesTwice == \A s \in Submissions : filings[s] <= 1

=============================================================================
