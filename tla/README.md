# Once: specifications, model checking and proofs

TLA+ models of the Once backend (`src/backend/app`) and of the public receipt
verifier (`src/verifier/app`): the submission pipeline and the portal sessions
it drives, the audit trail with its exports, digests and listings, accounts and
their records, imports and inbound email, billing, the operators' cockpit, and
the keys and quotas third parties rely on. Each model is translated from the
code. TLC checks all of them on small instances; TLAPS proves their invariants for
every value of the constants.

    tlc -workers 2 -config pipeline_core.cfg MCSubmissionPipeline
    tlapm SubmissionPipelineProofs.tla

`PROJECT.json` lists the components, the runs, the source lines behind every
definition, the mutants that show each property can fail, the hazards the
properties are aimed at, the findings, and the theorems.

## 1. The system

Once files insurance-supplier submissions with carrier portals. A FastAPI
backend stores everything in Postgres, Celery workers (Redis broker) do the slow
work, and every mutating request is written to an audit trail. Filed submissions
have signed receipts, which a separate verifier service checks for the public.

Facts about the infrastructure that all models share, with where the code fixes
them:

* Each request has one session from `db.get_db`: it commits after the endpoint
  returned and before the response is sent (FastAPI is pinned to 0.115), and
  rolls back when the endpoint raises. Postgres runs at READ COMMITTED: a SELECT
  sees only committed rows, an UPDATE takes the row lock until the transaction
  ends, and an INSERT into a unique index waits for a transaction that inserted
  the same value and has not ended.
* SQLAlchemy writes the columns whose value differs from the one it loaded, each
  whole. Two transactions that read one row and overlap can therefore leave a mix
  of both.
* Celery runs with `acks_late`, `task_reject_on_worker_lost` and a prefetch of one
  (`workers/celery_app.py`): a message comes back when its worker dies, and may be
  delivered twice.
* Server and worker processes die at any point; the database rolls back what they
  had not committed.

### Inventory

| Component | State | Operations | Hard behaviour | What makes it correct |
|---|---|---|---|---|
| Submission pipeline | submission rows, receipts, row locks, task messages | create, retry, claim, validate, file, sign, settle | duplicate messages, crash after filing, stale reads, message before commit | one execution at a time in the claim's transaction; one receipt, backed by a filing; no filing without consent; status lifecycle |
| Portal submitters | browser session | log in, fill and send a form, capture the confirmation | errors before and after the click on submit, captchas, forms that changed | the form sent is the one asked for; success has evidence; what the pipeline relies on |
| Portal smoke tests | one JSON file, alerts, coverage page | probe, observe, alert | overlapping runs, crash between record and alert | outages announced, a cooldown late at most, and once a cooldown; a truthful page |
| Audit trail | `audit_trail` rows per tenant | append one row per mutating request, verify a window | concurrent appends at one position, rows changed or lost | intact chains verify, damaged ones do not |
| Audit exports | export rows, two files each | request, verify, render, sign, download | message before commit, redelivery, crash between files and commit | a ready export shows verified rows and matches its hash |
| Daily audit digests | digest rows chained by day | compute for all tenants, verify | one transaction for all tenants, with rollbacks inside | mismatches are real; digests are kept |
| Listings | pages of a table | next page, by cursor or offset | rows that come and go between pages | every row once |
| Refresh tokens | denylist of jtis | login, refresh, logout | one token presented by several requests at once | a token is exchanged once; logout is final |
| Idempotency keys | kept responses, in Redis or per process | replay, refuse, run and keep | concurrent attempts, crash between effect and entry, middleware order | replays are genuine; a retry runs nothing |
| Account lockout | sliding window and lock, in Redis or per process | check, record failure, lock, unlock | check and record in separate steps | at most the allowed number of guesses |
| Registration, onboarding, email codes | account, code and wizard rows | register, start, verify, advance, skip, complete | counters undone by the request's own rollback, read-modify-write of whole columns | one account per address; nothing before the address is proven; no step lost |
| Password policy | counters of two scans | validate | boundaries | exactly the stated policy |
| Supplier records | suppliers and five kinds of record about them, audit rows | create, update, delete | overlapping partial updates, deletion between check and write | references, windows, hashes and counts consistent; trail explains the tables |
| Bulk imports | job rows, row errors | upload and dry run, commit by chunks, cancel | redelivery, cancellation during a commit, one chunk failing | every row accounted for |
| Inbound email, antivirus gate | emails, attachments, drafts, routing rules, a cursor | ingest, route, retry, quarantine, edit rules | duplicate Message-IDs, overlapping polls, scanner down | one draft per email; nothing acknowledged is lost; nothing infected stored |
| Document extraction | extraction rows | enqueue, extract, accept, reject | redelivery over a reviewed row | a review is not overwritten; doubtful results are reviewed |
| Billing webhooks | event ledger, cached subscriptions and invoices | claim an event, apply it | duplicate and out-of-order events, failing handlers | each event applied once; access follows the subscription |
| Operators' cockpit | sessions, second factor, recovery codes | login, enrol, confirm, refresh, revoke | rotation without a unique index, columns written apart | revoked and spent stays so; the second factor is usable |
| Tenant deletion, act-as | the tenant's rows, grants | count, delete, write as the tenant | rows written during the deletion | nothing is left |
| Verifier API keys | keys, monthly counters, hits by address in each process | issue, revoke, charge, limit by address | increment rolled back with the refusal, lost answers, processes that come and go | no call over the cap or after revocation; the address limit at each process |
| Signing keys | settings, registry, per-process cache | rotate, cut over, sign, verify | rolling restarts, racing tasks | unaltered receipts verify, altered ones never |
| Receipt verifier | key cache | fetch, resolve, check | outages, eviction, rotation in between | a verdict is about the receipt |

The remaining parts are listed in section 6.

How they interact: the API, the onboarding wizard and inbound email create
submissions, and only the first sends a message for them. The pipeline calls a
submitter and then the receipt signer; the verifier asks the backend for the
receipt and for the key it was signed with, and charges the caller's API key
first. The audit middleware wraps every tenant request and appends after the
handler has committed; an export reads that trail and calls `verify_chain`, the
digests and the compliance listing read `audit_logs`. Uploads and attachments go
through the antivirus gate. The idempotency middleware sits outside the tenant
scope and the audit middleware, so a replayed request is neither scoped nor
audited again.

## 2. The modules

| Module | Models | Used by |
|---|---|---|
| `SubmissionPipeline` | `submission_service`, `submission_pipeline`, `submission_tasks`, `receipt_signer.sign_receipt`, the producers of rows | `MCSubmissionPipeline`, `SubmissionPipelineProofs` |
| `SubmissionLifecycle` | abstract: the statuses a submission may go through | refined by `SubmissionPipeline` |
| `PortalSession` | `automation/base.py`, its helpers, the five registered submitters | `MCOffice`, `PortalProofs` |
| `SubmitterContract` | abstract: what the pipeline relies on when it calls a submitter | refined by `PortalSession` |
| `PortalMonitor` | `smoke_test_tasks`, `_smoke_state`, the coverage page | `MCOffice`, `PortalProofs` |
| `AuditTrail` | `audit_middleware`, `audit_logger`, `audit_chain` | `MCAuditTrail`, `AuditProofs` |
| `AuditExports` | `api/v1/audit.create_export`, `audit_tasks._generate_export` | `MCAuditExports`, `AuditProofs` |
| `AuditDigests` | `audit_hash_service`, the nightly task | `MCAuditExports`, `AuditProofs` |
| `Listings` | `audit_export_service.iter_audit_rows`, `paginate`, `GET /v1/audit` | `MCAuditExports`, `AuditProofs` |
| `RefreshTokens` | `auth_service`, `/auth/refresh`, `/auth/logout` | `MCRefreshTokens`, `AccountsProofs` |
| `IdempotencyKeys` | `middleware/idempotency`, its place in `main.create_app` | `MCIdempotencyKeys`, `IdempotencyKeysProofs` |
| `AccountLockout` | `utils/account_lockout`, login and unlock | `MCAccounts`, `AccountsProofs` |
| `Onboarding` | `api/v1/onboarding`, `onboarding_service`, `email_verification_service`, registration | `MCAccounts`, and by itself, `AccountsProofs` |
| `PasswordPolicy` | `utils/password_policy` | `MCAccounts`, `AccountsProofs` |
| `SupplierRecords` | six services, schemas, models and endpoints of supplier data | `MCAccounts`, `RecordsProofs` |
| `AvScanner` | `services/av_scanner` (operators only) | `ImportJobs`, `InboundEmail` |
| `ImportJobs` | `import_service`, the importers, `api/v1/imports` | `MCIntake`, `RecordsProofs` |
| `InboundEmail` | `inbound_email_service`, the routers and rules, Postmark's webhook, the IMAP poller | `MCIntake`, `RecordsProofs` |
| `Billing` | `billing_webhooks`, `billing_service`, `idempotent_event` | `MCOffice`, `OfficeProofs` |
| `Cockpit` | `operator_auth`, `mfa_totp`, `api/cockpit` | `MCOffice`, `OfficeProofs` |
| `TenantDeletion` | `tenant_deletion_service`, act-as requests | `MCOffice`, `OfficeProofs` |
| `Extractions` | `extraction_service`, the extractors, `api/v1/extractions` | `MCOffice`, `OfficeProofs` |
| `VerifierQuota` | `verifier_key_service`, `api/v1/verifier_keys`, the verifier's `api_key` | `MCTrust`, `TrustProofs` |
| `SigningKeys` | `receipt_signer`, `key_rotation_tasks`, `public_keys`, `receipts` | `ReceiptVerifier`, `MCTrust` |
| `ReceiptVerifier` | the verifier's `main`, composed with `SigningKeys` | `MCTrust`, `TrustProofs` |

The `MC` modules name sets a `.cfg` cannot write and symmetry sets. Those with
several modules (`MCAuditExports`, `MCIntake`, `MCAccounts`, `MCTrust`,
`MCOffice`) have a variable `part`: a behaviour explores one component, since the
components they hold share no state a property relates. Where components do
share state they are composed: `ReceiptVerifier` runs against the registry,
caches and restarts of `SigningKeys`, `ImportJobs` and `InboundEmail` use the one
scanner, and `Onboarding` has registration and the wizard on one address.

### SubmissionPipeline

`row` is the committed table. While a transaction holds a row lock nobody else
changes the row, so uncommitted writes follow from `row` and the program counter
of the lock's owner and need no variable. In particular `running` is never
visible: the claim is committed only together with its outcome.

* Requests: `CreateFlush` or `RetryRead`/`RetryFlush`, then `Enqueue`, then
  `Commit`. The code sends the message before the commit, and so does the model.
  `RequestFails` is a rollback after any of these.
* Other producers: `RunFirstSubmission` (onboarding; queues a row and sends
  nothing) and `DraftFromInbound` (a blocked draft without consent).
* Tasks: `Deliver`, `Claim` (the conditional UPDATE; it waits for the row lock) or
  `NotClaimable`, `Validate`, the submitter (`SubmitFails`, `SubmitFiles`,
  `ConfirmationFails`, `ConfirmationCaptured`), then `RecordFailure` or
  `SignAndComplete`, and `Acknowledge`.
* Faults: `WorkerCrash`, `Redeliver`, `ClaimTimesOut`, `ConnectFails`,
  `ConnectionLost`, `SigningFails`, `StandingChanges`, each switched by `Faults`.
  The claim's transaction stays open, and idle, while the browser works
  (`submission_pipeline.py:319`). `ConnectionLost` may take its connection at any
  moment after the claim: the row is free at once, the worker goes on filing, and
  `LossNoticed` is its next query.

`SubmissionLifecycle` is the abstract specification. A client whose retry was
admitted is in `asking` until the retry takes effect or is given up, whatever
became of the submission meanwhile, as in the code, which tests the status on an
unlocked copy.

Here a portal submitter is a nondeterministic choice of outcomes; which of them an
attempt may really have is `SubmitterContract`, which `PortalSession` implements.
The in-process dispatcher (`enable_in_process_processor`) is not modelled.

### PortalSession and SubmitterContract

One attempt of a registered submitter, step by step: imports, validation,
browser, login, form, click, confirmation, screenshot, teardown. The portal is
external and may show anything the code distinguishes at each page. The browser is
what is held of Playwright, Chromium, context and page, which of these still run,
and which cannot be closed: `LaunchFails` comes half way with some of them up, and
`Teardown` calls the closers in order, some of which fail. Every error path leads
through `Unwind` and `Teardown`. `automation/base.py:154-158` imports
helpers from `app.automation` although they live in `app.automation.submitters`,
so as the tree stands every real attempt ends there; `HelpersFound` says which
cases are considered, and the rest of the module is the attempt of a build in
which the imports succeed. The refinement maps the attempt to `submit`, `filed`,
`sign` or `failing`, with the error family `_classify_failure` sees.

### PortalMonitor

`Load` and `Save` are the two halves of `observe`, which replaces the whole state
file; `Notify` sends what was decided. Runs overlap and die in between. `streak`,
`outage` and `seen` (what was observed, and when), `paged` and `missed` (the last
alert sent, and the last that died with its run) and `disturbed` (an observation was
lost) are history.

### AuditTrail

A hash is the sequence of everything hashed into it, which takes SHA-256 to be
free of collisions. `ReadTail` is the plain SELECT of `_tail`, `Insert` the flush
that the unique index on (tenant, position) may refuse or delay, `CommitRow` and
`Refused` the two endings. `AlterRow` and `LoseRow` are what somebody with access
to the database may do. `verify_chain` is an operator with the code's window,
genesis check and re-synchronisation after a gap.

### AuditExports

One tenant, the trail reduced to intact or not. A generation number stands for
the time that makes every rendering differ, so it also identifies file contents
and their hashes. `repeated` (exports whose message was delivered twice) and
`abandoned` (exports whose task could not even store `failed`) are history
variables for the properties.

### AuditDigests and Listings

A digest is the sequence of what was hashed, an instant half a day. The nightly
run handles tenants one by one in one session, so that a lost race rolls back
what the session did for the others. `Listings` reads pages of a table of keys
`<<created_at, id>>` between which rows come and go.

### RefreshTokens

A token is its jti. `ReadDenylist`, `Vet`, `Insert`/`InsertRefused` and
`CommitRefresh`/`CommitLogout` are the statements of one transaction; `Abort` is a
death before the commit, and the Boolean of `CommitRefresh` and `Login` says
whether the answer arrives. An expired or malformed token is refused before any
statement, which is a stuttering step. No code deletes denylist rows. `session`
and `loggedOut` are history variables for the properties.

### IdempotencyKeys

An attempt is one mutating request; a retry is another attempt with the same
tenant, key and body. An attempt names its handler's response, so a store entry
is an attempt. `Scope` is what `_tenant_id` really sees: `IdempotencyMiddleware`
is added after `TenantScopeMiddleware` and runs outside it, so the tenant is not
yet known and the scope is `Anon`, except for an operator acting as a tenant. `StoreOf` is the store a
process chose when it started. The middleware is off unless
`ENABLE_IDEMPOTENCY_MIDDLEWARE` is set. `main.py` passes no required prefixes;
`KeyRequired` covers paths under such a prefix and paths that are not.
`unshared` is a history variable: the attempts that asked a process's own dict,
and those whose committed response never got to Redis.

### AccountLockout, Onboarding, PasswordPolicy

A login is check, verdict, count and lock as separate steps, over Redis or over
the process's memory; a bucket holds the numbers of the wrong passwords it was
given, and each of these keeps which client is to set the lock for it and whether
the bucket was told to forget it. In `Onboarding` each visitor is one transaction: it reads,
writes, and commits or aborts; mails leave before the commit. The wizard row is
read without a lock, and written back by whole columns; `stale` marks a request that
read a row another has written since, `crossed` that one replaced a column another had
written since. `onboarding_skip_email_verify` has its default, False: codes are asked
for. `PasswordPolicy` steps
the two scans character by character with the code's counters, and compares the
verdict with a definition that has none.

### SupplierRecords

A behaviour is about one kind of record. A request is received and validated
(`Receive`, which reads the row or the supplier), a form's successor is checked
(`CheckTarget`), and then the endpoint's action computes the row, applies the
table's constraints, validates the answer, adds the audit row and commits. Only
columns that differ from what was loaded are written. A deletion cascades, and
references to the forms removed are set to null. `disturbed` and `retyped`
are history variables: rows whose items two overlapping updates both changed, and
rows given a document that Python finds equal to the stored one.

### ImportJobs, InboundEmail, AvScanner

An import is a request that reads the job without a lock, validates or commits
chunk by chunk and writes the last status at the end; each chunk is a
transaction. Files have real rows and cells, so that the dry run, the duplicate
check on spellings of a FEIN and the counters are computed as in the code; rows
are numbered by their rank among the lines that are not blank, and `done` holds
the rows a run has handed to a chunk, the next chunk being the first `ChunkSize`
of the others. In
`InboundEmail` Postmark repeats until it is answered and polls overlap; the
INSERT of a Message-ID up to the commit is one step, because a second INSERT
waits for it. `ordered` has the pairs of rules a reorder put in order and that
nobody edited since.

### Billing, Cockpit, TenantDeletion, Extractions

All four are transactions that read rows, decide, and write back the columns
they changed. `Billing` has Stripe's side too: events are sent in any order and
again until answered. `Cockpit` has the operator's row, codes and sessions; its
history has `rivals`, the codes and tokens that two requests in flight presented, and
`mixed`, that two requests which change the second factor overlapped.
`TenantDeletion` counts table by table, then deletes, while operators acting as
the tenant insert. `Extractions` keeps what a worker read at its start, scores in
thousandths, and where on the page each label stands.

### VerifierQuota, SigningKeys, ReceiptVerifier

A charge holds its key's row lock from the SELECT FOR UPDATE to the commit; its
answer may be lost. Callers without a key are limited by address in the memory of the
process they were routed to (`api_key.py:44-45`); `StartProcess` and `StopProcess` are
what the platform does, a restart included (`verifier/fly.toml` has machines started
and stopped by demand). `processes` has their hits, those of a stopped one being gone. In `SigningKeys` processes run with the settings they started
with and keep public keys for ever, while the rotation task and the operator move
on. `ReceiptVerifier` adds the public service with its own cache and two fetches
that can fail.

## 3. The runs

Passing runs. Where a module has several parts to its correctness they are named
one by one in the module, each with its comment, and a run checks their
conjunction; the middle column lists the parts.

| Run | Checks | Instance |
|---|---|---|
| `pipeline_core` | `ExclusiveRun`, `UniqueReceipt`, `ReceiptBacked`, `DraftsNeverFile`, `TasksEnd` | 1 submission, 2 workers, 2 clients, all faults (1) and any lost connections, 2 manual retries, no repeated claims, portal errors permanent before the click and transient after it |
| `pipeline_lifecycle` | `TypeOK`, `LifecycleSpec` (refinement of `SubmissionLifecycle`) | 1 submission, 2 workers, 2 clients whose retries overlap, 2 manual retries, repeated claims (1), every portal error before the click, server faults |
| `audit_chain` | `NoFalseAlarm`, `TamperEvident`, `AppendsEnd` | 2 tenants, 3 concurrent appends, 4 events, 1 corruption |
| `audit_evidence` | `ExportsSound` (`ReadyIsClean`, `DownloadMatches`), `DigestsSound` (`MismatchIsReal`, `OkMeansDigested`), `PagesSound` (`EveryRowOnce`), `EvidenceLasts` (`GeneratingEnds`, `NightliesEnd`, `DigestKept`, `VerifiedIsUntouched`) | 2 exports, 2 clients, 2 workers, all faults (1); 2 tenants, 2 nightly runs over 2 days; 3 timestamps with 2 ids each, pages of 2, 2 changes |
| `tokens_rotation` | `ExchangedOnce`, `OneLiveTokenPerLogin`, `LogoutIsFinal`, `RequestsEnd` | 3 concurrent requests, 3 tokens |
| `idem_replay` | `ReplayMatches`, `RetriesRunOnce` | 3 attempts, 2 bodies, 2 processes with or without Redis, failing commands, 1 crash or expiry |
| `accounts` | `LockoutSound` (`GuessesBounded`, `LockJustified`), `OnboardingSound` (`NothingBeforeProof`, `WizardCoherent`), `OnboardingSteps` (`OneAccount`, `WizardForward`), `PolicyExact`, `RecordsSound` (`ReferencesInTenant`, `RowsConsistent`, `DerivedFollowContent`, `RowsReadable`, `TrailExplainsRows`) | 2 processes, 2 clients, 4 guesses; 2 visitors, 4 wizard requests; every password of up to 5 characters over a small alphabet; 3 requests on 3 suppliers and 4 records of 2 tenants, for each kind |
| `intake` | `ImportsSound` (`RowsAccountedFor`, `EveryRowExplained`, `DuplicatesOnlyByRace`), `ImportsSettle` (`SettledIsFinal`, `ImportEnds`), `MailSound` (`AckedIsStored`, `OneDraftPerRouting`, `SpamHeld`, `ReorderRespected`, `NoInfectedAttachment`) | 2 jobs, 2 requests at once, 8 files, chunks of 2, 1 fault; 4 letters, 1 webhook and 2 polls at once, 2 rules |
| `trust` | `QuotaSound` (`QuotaHolds`, `RevokedKeyServesNothing`, `UnauthenticatedLimited`), `ChargesEnd`, `ReceiptsSound` (`ReceiptsVerify`, `RotationsSpaced`, `VerdictHonest`, `PublicKeysBounded`) | 1 key, 2 calls at once, caps 0, 2 and the default, 2 months; 2 verifier processes at a time, 3 in all, 2 limits; 3 signing keys, 1 server, 2 workers, 5 operations; 2 verifications at once, a cache of 1 |
| `office` | `BillingSound` (`LedgerExact`, `ClockFromFirstFailure`, `GateFollowsStatus`), `CockpitSound` (`FactorUsable`, `CodesAndTokensOnce`), `DeletionSound` (`ErasureComplete`, `ReceiptHonest`), `ExtractionsSound` (`SucceededIsTrustworthy`, `ReviewKept`), `AttemptSound` (`FiledAsAsked`, `SuccessIsEvidenced`, `CaptchaStopsFiling`, `BrowserReleased`), `MonitorSound` (`CoverageTruthful`, `OutageAnnounced`), `SubmitterKeepsContract` (refinement of `SubmitterContract`), `OfficeSteps` (`RevocationLasts`, `AlertsSpaced`), `OfficeEnds` (`EventsRecorded`, `PendingEnds`) | histories of Stripe events with 2 handlers; 2 clients, 3 sessions, 6 requests; 2 founders against 1 writer, 2 tables; 1 extraction, 2 workers, 2 faults; 5 portals with every page; 2 smoke runs at once, 3 in all |

The conjunctions include the modules' type invariants.

Runs in which the code does not do what a document or comment says
(`PROJECT.json` quotes the line):

| Run | Violated | What happens |
|---|---|---|
| `pipeline_crash_refiles` | `CrashNeverFilesTwice` | a crash after filing undoes the claim; the form is filed again |
| `onboarding_attempts` | `AttemptsCapped` | the counted attempt is rolled back with the exception that answers it, so a code can be tried without end |

### What else the models show

Some further statements a reader of the code or its documents might expect are
defined in the modules, and fail; they are kept there as definitions without a
run:

* `CompletedIsFinal`: of two concurrent retries the slower overwrites `completed`.
  `QueuedIsPickedUp`: the message overtakes the commit of its row and is dropped.
  `NeverTwoAtOnce`: the connection of a worker at the portal is lost, a message
  delivered again claims the row, which is still `queued`, and two workers file it
  (all `SubmissionPipeline`).
* `RowPerRequest` (`AuditTrail`): of two appends at one position the loser's row is
  dropped. `OneActive` (`AuditExports`): two concurrent POSTs both create an export.
* `ReplaySameTenant` (`IdempotencyKeys`): all tenants share the scope `Anon`,
  because of the order in `main.py:192`; `docs/API.md:621` says otherwise.
* `CancelIsFinal` (`ImportJobs`): a cancellation during a commit is overwritten
  (`import_service.py:12-13`). `RouterIdempotent` (`InboundEmail`): an operator's
  retry makes another draft (`inbound_routers/base.py:8-11`).
* `HistoricalReceiptsVerify` (`SigningKeys`): receipts of a revoked key do not
  verify (`docs/PUBLIC_TRUST_KEYS.md:103-106`).
* `LimitedAcrossProcesses` (`VerifierQuota`): an address gets its limit from every
  verifier process it is routed to, and afresh after a restart
  (`docs/RUNBOOK.md:424-426` speaks of per-IP limits).
* `CanceledIsTerminal` (`Billing`): a late event revives a canceled subscription.
  `RecoveryCodeOnce` (`Cockpit`): overlapping requests spend one code twice.
  `ReceiptCountsMatch` (`TenantDeletion`): rows written during the deletion are
  removed and not counted.

Behaviours that follow from the models, by component:

* Pipeline: a transient portal error leaves the row in `retrying`; the task returns
  normally, the retry endpoint refuses that status, and nothing tries again. The
  onboarding wizard queues a row and sends no message. A receipt issued by a retry
  carries the completion time of the earlier, failed attempt (`SubmittedAt`).
* Portal attempts: errors after the portal took the form (idle timeout, missing
  reference, failed screenshot) are transient, so a retry may file twice. A
  malformed premium is wrapped as a network error, although `errors.py` calls a
  malformed payload permanent. A list of one empty string passes `require_fields`.
  A captcha that appears after the login click ends as `failed`, not `blocked`.
* Smoke tests: overlapping runs lose observations; an alert is recorded before Slack
  is called, so that one whose run dies in between comes a cooldown late; an unreadable or unwritable file repeats drift alerts; a flapping
  portal pages each time.
* Audit: a row missing at the end of the verified window is not a break. The message
  of an export can overtake the commit of its row, which then stays `pending` and
  keeps the tenant from exporting. A message delivered twice renders twice over the
  same files, which is why `DownloadMatches` excepts it. `docs/AUDIT.md` says that a
  nightly task verifies the chains; `_run_for_all_tenants` computes and compares
  digests and does not call `verify_chain`.
* Idempotency: two overlapping attempts with one key both run the handler, and a
  crash or a failing SET after the commit makes the next retry run it again;
  `RetriesRunOnce` states what is left of the promise.
* Accounts: an unlock without an address clears only the key `unknown`; a failure
  counted before a success cleared the counter can still set the lock after it. A
  registration that loses the race for its address is a 500. Skipping the last step
  makes the wizard `done` without `completed_at`. `advance_to` answers 409 where its
  docstring says otherwise, and no endpoint sends a second code.
* Supplier records: two overlapping updates of the items leave the items of one and
  the count of the other. Updating `{"a": 1}` to `{"a": true}` writes the hash and not the document
  (`acord_form_service.py:3-5` says the two "cannot accidentally desync"). Every
  IntegrityError of a license is answered `license_already_exists`; those of the
  other kinds are a 500. A form created with a successor is not marked superseded, a
  later status update un-supersedes one, and successors may form a cycle. Partial
  updates can put an aggregate limit below its coverage, and a form's window is not
  constrained. Two deletions of one row are both answered 204 and audited; records
  that go with their supplier have no audit rows of their own.
* Trust: `charge_usage` says that the counter is incremented although the quota is
  exceeded; the 402 that follows rolls it back. An answer lost after the commit
  charges a caller for nothing. What an address has had is forgotten when the process
  that served it stops.

Where the code does have the flaw a property is about, the property excepts exactly
the rows, requests or runs it strikes, which a history variable records; the flaw
happens in the model, and everything around it is still checked:

| Property | Excepts | Through |
|---|---|---|
| `OkMeansDigested`, `ReceiptHonest`, `DuplicatesOnlyByRace` | a run that lost a race for a digest; an erasure during which a row was committed; FEINs two chunks stored at once | `raced` |
| `DownloadMatches`, `GeneratingEnds` | exports whose message came twice; exports whose `failed` could not be stored | `repeated`, `abandoned` |
| `RetriesRunOnce` | attempts whose response never got to Redis | `unshared` |
| `SettledIsFinal`, `ImportEnds` | jobs ended while another request was at work on them; jobs whose commit died | `settled`, `orphaned` |
| `PendingEnds`, `ReviewKept` | extractions whose message came before the commit or was lost; reviews made while a task was queued or running | `early`, `decided` |
| `AckedIsStored` | letters whose fetch failed | `unfetched` |
| `WizardForward`, `WizardCoherent` | steps that commit a stale request; wizards of which a column was replaced unread | `stale`, `crossed` |
| `DerivedFollowContent` | rows whose items two overlapping updates both changed; rows given 1 for true | `disturbed`, `retyped` |
| `FactorUsable`, `CodesAndTokensOnce` | operators whose factor two overlapping requests changed; the code or token two requests in flight presented | `mixed`, `rivals` |
| `CoverageTruthful`, `OutageAnnounced`, `AlertsSpaced` | files from which an observation was lost; an alert that died with its run, for a cooldown | `disturbed`, `missed` |

### Bounds

Every bound is a named constant used in a guard (`MaxFaults`, `MaxManual`,
`MaxRequests`, `MaxOperations`, ...), or the size of a set. Two actors on one row
give every pairwise race, and a third would repeat a role; where a third matters
(appends, tokens, attempts) there are three. One fault is enough to bring a message
back or to lose an answer; `Extractions` has two because a review, a redelivery and
a death have to meet. `MAX_ATTEMPTS` = 2 separates the last attempt from the
others. Three appends let one wait, one win and one read in between; four events
make chains long enough for a gap in the middle. Three tokens give a login with two
rotations. Files of up to six rows with chunks of two have a full and a short chunk,
and one exceeds `MaxRows`. Three supplier requests let one change the row between
another's read and write, after a creation. Two days have a digest to link to, and
two months a counter that starts again. A cache of one entry evicts at the second
key. `Room` in `RefreshTokens` lets a refresh start only while a jti is left for it,
so the bound never stops a request in the middle. `CHECK_DEADLOCK FALSE` is set
where a behaviour ends because its finite supply of submissions, events, requests
or time is used up; the token run checks deadlock.

Two verifier processes at a time and three in all give an address two limiters at
once and one that starts empty after another stopped, which is all a further process
could do; `MCTrust` explores keys and addresses apart (`part`), because they share
nothing but the clock.

`pipeline_core` has `MAX_RETRIES` 0 and `pipeline_lifecycle` 1: repeated claims
multiply with lost connections, and the properties of the first do not depend on how a
message came back.

`MCTrust` starts the verifier in the middle of a rotation, a state the rotation
itself reaches, and in its part `rotation` issues at most one receipt, to keep the
number of states small. Symmetry is used only in runs without fairness, over sets
whose elements no definition distinguishes.

### Fairness

Weak fairness, in each module that has a liveness property, of the steps of requests
and tasks that have begun and of the delivery of waiting messages to an idle worker:
the event loop, the worker process and the broker keep working (`FairSpec`,
`ExportFairness`, `DigestFairness`, `Works` of imports, `QuotaWorks`, `ExtWorks`). In
`BillWorks` Stripe also sends an event again until it is answered, as it documents.
No fault, login, retry, review or new request is fair. `RefreshTokens` uses strong
fairness of each request's steps, because an INSERT is enabled only while no other
transaction holds the same jti, and Postgres grants the lock in turn.

## 4. The proofs

Each theorem holds for all values of the constants that satisfy the modules'
`ASSUME`s: any number of tenants, rows, processes, requests, faults and retries.
The assumptions are

* "no value" constants lie outside the sets they are added to, bounds are natural
  numbers, switches have their types;
* sets whose elements are counted are finite (visitors of one address, concurrent
  verifications, the times and ids of a listing), and there is at least one
  tenant, document or registered platform where one is chosen;
* the parameters the code fixes are where they make sense: a month and a page have
  a length, `MAX_ATTEMPTS`, the key cache and its time to live are positive, the run
  and sequence lengths of the password policy are at least 2;
* a document has one of the three shapes the extractors read, an uploaded file has
  finitely many lines, and there is some file to upload;
* a lockout lasts at least as long as its window (30 and 15 minutes unless set
  otherwise): with a shorter lock the failures of one window outlive it, and the
  bound on guesses would be another;
* the supplier rows and records a behaviour begins with are in order, and a request
  names rows of its own table; letters in the mailbox are letters, and an edit of a
  rule has a rule's columns.

Each proof has the same plan: an inductive invariant, that `Init` establishes it,
that every action keeps it (one lemma an action, or a group of actions that change
the same state), and that it implies the property. None of the properties is
inductive; what has to be added is the interesting part, and is named below.

**`SubmissionPipelineProofs`**: `TypeCorrectness`, `ExecutionsAreExclusive`
(`ExclusiveRun`), `ReceiptsAreUnique` (`UniqueReceipt`), `ReceiptsAreEvidence`
(`ReceiptBacked`), `DraftsAreNeverFiled` (`DraftsNeverFile`).
`LockDiscipline` (an execution whose transaction is not lost holds its row's lock)
gives exclusion, because a row has one lock: what it excludes is a second
transaction, not a worker that goes on filing after its connection was lost.
`Evidence` (a task past the portal's acceptance has a filing) carries the filing to
the moment the receipt is signed, and `Entitled` (a task past validation works on a
consented row) carries the consent check to the moment of filing.
`PipelineImplementsLifecycle` is the refinement `LifecycleSpec`, for any number of
clients whose retries overlap: a retry admitted earlier may take effect on a completed
row, in the abstract specification as in the code (`CompletedIsFinal` in section 3).
`Committable` says that what a retry or an attempt is about to write is a legal move
from what is stored.

**`AuditProofs`**
* Trail: `AuditTypeCorrectness`, `ChainsVerify` (`NoFalseAlarm`),
  `TamperingIsEvident` (`TamperEvident`). `Linked` says that, while nobody touched
  the table, positions are 1..n, every row's hashes link to the previous one, and
  what a writer is about to insert links to the tail it read, or its place is
  taken. `Provenance` says that every row is as committed or visibly altered; with
  injective hashes a chain that verifies holds only the former. The greatest
  position comes from a least-number argument over well-founded `<`.
* Exports: `ExportsAreEvidence` (`ExportsSound`). `Single` says that a message not
  repeated is in one place, with one worker or in the queue; `FilesFollow`, that
  the files of such an export are the generation its worker holds, or the one whose
  hash was committed.
* Digests: `DigestsTruthful` (`DigestsSound`), `DigestsLast` (`DigestKept` and
  `VerifiedIsUntouched`). `Fits` says of every digest, stored, flushed or about to
  be inserted, that it is what its day would give now, or that the day was
  disturbed; `VerdictsHold` and `FlushedHold` say what a run that lost no race has
  established for the tenants it visited.
* Listings: `PagesComplete` (`PagesSound`). `KeysetHolds` says that what was read
  are the keys up to the cursor that stayed, in order; `OffsetHolds` that an offset
  walk over a quiet table has read the first rows by rank. That rank is a bijection
  onto 1..n is proved from cardinalities.

**`IdempotencyKeysProofs`**: `KeyTypeCorrectness`, `ReplaysAreGenuine`
(`ReplayMatches`), `RetriesAreSafe` (`RetriesRunOnce`). `Genuine` says that an
entry is a committed attempt with that scoped key. `Remembered` says that Redis
has an entry for the scoped key of every attempt that ran, ended, got its response
there and has not expired; `FirstRuns` says that an attempt that asks Redis keeps
doing so until it is over, and that one whose handler may run retried nothing Redis
knew of when it arrived.

**`TrustProofs`**
* `QuotasHold` (`QuotaSound`). `LocksHeld` says that a key's row is locked by the
  one request charging it, which has read the counter as it is; `CountsCover` counts
  the verifications charged and not yet served with those served. For callers
  without a key, a running process has recorded in every item of the limit whatever it
  let through in its window (`LimitsInv`), so each stays within the limit; that
  together they stay within the limit once a process is a sum over those that ran
  (`ServedTogether`).
* `ReceiptsVerifyAlone` (`ReceiptsSound`). `KeysRegistered` says that every key up
  to the one in use is registered, or is the first and in use; `RotationsKnown`, that
  rotation tasks in flight are about to insert the same next key. At the verifier,
  what was resolved is always the receipt's own key.

**`PortalProofs`**
* `AttemptsSound` (`AttemptSound`) and `ContractKept` (`SubmitterKeepsContract`, a
  refinement). `StageTells` ties the stage of an attempt to what was typed, sent and
  captured; `CaptchaTold` keeps that a captcha at login is what the attempt ends with,
  `StopTells` what of the browser may be left after teardown: what could not be closed.
* `MonitorTruthful` (`MonitorSound`) and `AlertsStaySpaced` (`AlertsSpaced`).
  `Honest` says that the file is what was observed, `Announced` that the outage was
  announced, or a run is about to do so, or the alert died with its run less than a
  cooldown before the last observation (`Delayed`), `Due` that an alert about to be sent is the
  first of its outage or comes a cooldown after the last.

**`OfficeProofs`**
* `FactorsWork` (`CockpitSound`) and `RevocationStays` (`RevocationLasts`). `Sane`
  says what a request in flight will write whatever it overlaps with, `Exact` what its
  commit makes of the rows it read. `Apart` says that, until two requests which change
  the factor have overlapped, the factor is whole and the one request changing it read
  it as it is; `Unspent`, that the code or token of a request in flight is unspent or
  was presented by a rival too; `SpentGone`, that what was spent is marked.
* `TenantsErased` (`DeletionSound`). `Undisturbed` says that an erasure nothing
  interferes with is the only one and has counted what is there.
* `ExtractionsReliable` (`ExtractionsSound`). The extractors' scores are computed for
  every document; `TasksTell` and `DecidedRest` are about tasks that write late.
* `EventsTakeEffectOnce` (`BillingSound`). `Touched` says what any handler makes of the
  one subscription it works on and of its owner's gate; `Claimed` says of an open
  transaction, whatever it overlaps with, that its event is not in the ledger and that
  no row it has read goes away; `Unmixed`, that without an overlap the one open
  transaction has read what is there and wants such an outcome. It assumes finitely
  many subscriptions and the five invoice statuses of Stripe's interface: an invoice's
  status is stored as it comes, unlike a subscription's.

**`AccountsProofs`**
* `TokenTypeCorrectness`, `RotationIsExclusive` (`ExchangedOnce`), `SessionsStayLinear`
  (`OneLiveTokenPerLogin`), `LogoutHolds` (`LogoutIsFinal`). `RowsExclusive` says that
  at most one open transaction has a row for a jti, which is then not denied,
  `MintsFresh` that jtis drawn in flight are fresh, `Lineage` that a token with a child
  is denied and that sessions are rooted in a login.
* `LockoutSafe` (`LockoutSound`). `FewOpen` says that the guesses of a window after
  which no lock was due are fewer than `MaxFails`; `LocksFollow`, that a lock that was
  due is set or its client is about to set it; `ChecksWait`, that a client past the
  check came after its own earlier locks had run out. So one client has at most one
  guess with a lock due in a window (`GuessesApart`), and the bound of
  `GuessesBounded`, `MaxFails - 1` and one more a client, is a count of both sorts.
  `LocksReasoned` keeps for each lock a window with `MaxFails` guesses.
* `AccountsFollowProof` (`OnboardingSound`) and `AccountsNeverReplaced`
  (`OnboardingSteps`). `RequestFacts` says of each request what it has established
  where it is, and that one which is not `stale` read the row as it is; `AccountFacts`
  says how far an account can be before its code is consumed.
* `PasswordsJudgedExactly` (`PolicyExact`). `Counts` says that a counter of a scan is
  the length of the longest run ending where the scan is.

**`RecordsProofs`**
* `MailSafe` (`MailSound`). `Progress` follows each reader of the mailbox: what a poll
  has not on its list any more is accounted for or was given up (`Polled`), so the
  cursor passes nothing that is neither. `DraftTells` bounds the drafts of a Message-ID
  by its reroutings, and `OrderKept` says that the rules a reorder listed have the
  priorities it gave them.
* `RecordsSafe` (`RecordsSound`). A request holds what it read while others commit:
  `Ref` says that a key it found was given out and is, while its row is there, a row of
  the same tenant, `LoadedOK` that the columns an update lays its payload over were in
  order. `Derived` compares a row with its document but for the rows `retyped` and
  `disturbed` name, and `Gone` explains each missing row by a deletion, of the row or of
  its supplier. The second part of a deletion, references to *every* removed form set
  to null, is what makes references stay within the table.
* `ImportsAccountForRows` (`ImportsSound`) and `SettledStay` (`SettledIsFinal`). A run
  streams the kept rows in file order: `Streamed` says that what it handed out comes
  before all it has left and that its four counters add up to that, so at the end they
  add up to the file. `OnlyRun` says that the one run of a job has stored and reported
  just what it handed out, and `Left` that this is what the completed job shows; both
  hold while `runs`, which counts commits that began, is one, because two requests may
  find the job ready before either begins. `Planned` says that a chunk is not about to
  store a FEIN that is there, unless another chunk stored it since, which is then in
  `raced`. `ReportComplete` is about files: findings of different rows differ, so if all
  of a file fit the limit those of every prefix do, and the report has them all.

Model-checked only:

* all liveness properties (`TasksEnd`, `AppendsEnd`, `RequestsEnd`, `ChargesEnd`,
  `ImportEnds`, and the parts of `EvidenceLasts` and `OfficeEnds`): liveness under
  fairness is out of the prover's reach. `EvidenceLasts`, `ImportsSettle` and
  `OfficeSteps` are conjunctions with such parts or of several modules; their safety
  parts are the theorems `DigestsLast`, `SettledStay`, `RevocationStays` and
  `AlertsStaySpaced`.

Every invariant a passing run checks is also a theorem.

## 5. Plan

1. A composition of `AuditTrail` and `IdempotencyKeys` in the order of
   `main.create_app`: which effects have an audit row.
2. The browser extension's background worker: auto-lock of the vault, draining of
   the queue, refresh of its token.

## 6. Not modelled

* Renewal reports and the sanctions list: periodic jobs that report, or replace a
  per-process list as a whole.
* Portals, consents and tenants: single-row services; what their withdrawal does to
  a submission is `StandingChanges` of `SubmissionPipeline`.
* Access review and the cockpit's audit lines: a report and best-effort logging.
* E-mail dispatch: templates and a provider; that mail leaves before the commit is
  part of `Onboarding`.
* The other middleware: stateless headers, logging and a library's rate limiter.
* The browser extension, OnceTax and the web front ends: separate client programs.
* Migrations, seeds and scripts: run by hand; the constraints they create are taken
  from the models.
* The in-process dispatcher of the pipeline, and everywhere: cryptography (signatures
  and hashes are ideal), PDF and spreadsheet parsing beyond what their results tell
  apart, HTTP and e-mail formats, wall-clock time beyond expiry and ordering.
