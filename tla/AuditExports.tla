---------------------------- MODULE AuditExports ----------------------------
(***************************************************************************)
(* Signed exports of one tenant's audit trail: POST /v1/audit/exports       *)
(* stores a pending row and sends a message; a worker verifies the chain,  *)
(* renders and signs the export, writes its two files and commits.         *)
(*                                                                         *)
(* Tenants share nothing here, so there is one.  The trail is abstracted to *)
(* whether it is intact.  A generation is a number: it stands for the       *)
(* generated_at time that makes every rendering differ, and for the hash of *)
(* the files written with it; 0 is "no file" and NULL.                      *)
(***************************************************************************)
EXTENDS Naturals, FiniteSets

CONSTANTS
    Exports,        \* ids a request may draw
    ExportClients,        \* concurrent POST requests
    ExportWorkers,
    NoExport,           \* "no export"
    ExportFaults,         \* which faults the run allows
    MaxExportFaults       \* bound: crashes and redeliveries in one behaviour

ExportFaultKinds == {"crash", "redeliver", "broker", "database", "render", "request", "corrupt"}

ASSUME ExportAssumption ==
    /\ NoExport \notin Exports
    /\ ExportFaults \subseteq ExportFaultKinds
    /\ MaxExportFaults \in Nat

VARIABLES
    export,         \* committed audit_exports rows
    file,           \* the two files of an export
    intact,         \* the audit trail verifies
    req,            \* POST requests in progress
    queue,          \* undelivered generate_export messages
    job,            \* tasks in progress
    generation,     \* the last generation started
    faults,         \* crashes and redeliveries so far
    repeated,       \* history: exports delivered again while being rendered
    abandoned       \* history: exports whose task lost the database

exportVars == <<export, file, intact, req, queue, job, generation, faults, repeated, abandoned>>

AuditExportStatus == {"pending", "generating", "ready", "failed"}
Active == {"pending", "generating"}

\* "clean" records whether the rows an export shows were read from an intact
\* trail; it is not a column.
ExportRow == [status: AuditExportStatus \cup {"absent", "void"}, sha: Nat, clean: BOOLEAN]
Files == [pdf: Nat, envelope: Nat]
Request == [pc: {"idle", "flushed", "enqueued"}, export: Exports \cup {NoExport}]
JobPC == {"idle", "start", "read", "verify", "pdf", "envelope", "commit", "done"}
Job == [pc: JobPC, export: Exports \cup {NoExport}, generation: Nat, clean: BOOLEAN]

ExportTypeOK ==
    /\ export \in [Exports -> ExportRow]
    /\ file \in [Exports -> Files]
    /\ intact \in BOOLEAN
    /\ req \in [ExportClients -> Request]
    /\ queue \in [Exports -> Nat]
    /\ job \in [ExportWorkers -> Job]
    /\ generation \in Nat
    /\ faults \in 0..MaxExportFaults
    /\ repeated \subseteq Exports
    /\ abandoned \subseteq Exports

NoRequest == [pc |-> "idle", export |-> NoExport]
JobAt(pc, x, g, clean) == [pc |-> pc, export |-> x, generation |-> g, clean |-> clean]
NoJob == JobAt("idle", NoExport, 0, TRUE)

ExportInit ==
    /\ export = [x \in Exports |-> [status |-> "absent", sha |-> 0, clean |-> TRUE]]
    /\ file = [x \in Exports |-> [pdf |-> 0, envelope |-> 0]]
    /\ intact = TRUE
    /\ req = [c \in ExportClients |-> NoRequest]
    /\ queue = [x \in Exports |-> 0]
    /\ job = [w \in ExportWorkers |-> NoJob]
    /\ generation = 0
    /\ faults = 0
    /\ repeated = {}
    /\ abandoned = {}

-----------------------------------------------------------------------------
(* POST /v1/audit/exports *)

\* The active export is looked for among the committed rows and the new row
\* is flushed; it is visible to nobody before the commit.
CreateFlush(c, x) ==
    /\ req[c].pc = "idle"
    /\ \A y \in Exports : export[y].status \notin Active
    /\ export[x].status = "absent"
    /\ export' = [export EXCEPT ![x] = [@ EXCEPT !.status = "void"]]
    /\ req' = [req EXCEPT ![c] = [pc |-> "flushed", export |-> x]]
    /\ UNCHANGED <<file, intact, queue, job, generation, faults, repeated, abandoned>>

\* apply_async before the commit; an unreachable broker is only logged.
Enqueue(c) ==
    /\ req[c].pc = "flushed"
    /\ req' = [req EXCEPT ![c] = [@ EXCEPT !.pc = "enqueued"]]
    /\ \/ queue' = [queue EXCEPT ![req[c].export] = @ + 1]
       \/ "broker" \in ExportFaults /\ UNCHANGED queue
    /\ UNCHANGED <<export, file, intact, job, generation, faults, repeated, abandoned>>

\* get_db commits.
Commit(c) ==
    /\ req[c].pc = "enqueued"
    /\ export' = [export EXCEPT ![req[c].export] = [@ EXCEPT !.status = "pending"]]
    /\ req' = [req EXCEPT ![c] = NoRequest]
    /\ UNCHANGED <<file, intact, queue, job, generation, faults, repeated, abandoned>>

\* get_db rolls back; a message already sent stays sent.
RequestFails(c) ==
    /\ "request" \in ExportFaults
    /\ req[c].pc # "idle"
    /\ req' = [req EXCEPT ![c] = NoRequest]
    /\ UNCHANGED <<export, file, intact, queue, job, generation, faults, repeated, abandoned>>

-----------------------------------------------------------------------------
(* generate_audit_export_task *)

Deliver(w, x) ==
    /\ job[w].pc = "idle"
    /\ queue[x] > 0
    /\ queue' = [queue EXCEPT ![x] = @ - 1]
    /\ job' = [job EXCEPT ![w] = JobAt("start", x, 0, TRUE)]
    /\ UNCHANGED <<export, file, intact, req, generation, faults, repeated, abandoned>>

Moves(w, pc) == job' = [job EXCEPT ![w] = [@ EXCEPT !.pc = pc]]

\* session.get finds no row: the task reports "missing".
Missing(w) ==
    /\ job[w].pc = "start"
    /\ export[job[w].export].status \in {"absent", "void"}
    /\ Moves(w, "done")
    /\ UNCHANGED <<export, file, intact, req, queue, generation, faults, repeated, abandoned>>

\* Mutant: only a pending export is taken.
StartPending(w) ==
    LET x == job[w].export IN
    /\ job[w].pc = "start"
    /\ \/ /\ export[x].status = "pending"
          /\ export' = [export EXCEPT ![x] = [@ EXCEPT !.status = "generating"]]
          /\ Moves(w, "read")
       \/ /\ export[x].status \in {"generating", "ready", "failed"}
          /\ Moves(w, "done")
          /\ UNCHANGED export
    /\ UNCHANGED <<file, intact, req, queue, generation, faults, repeated, abandoned>>

\* The row becomes GENERATING whatever it was, and this is committed.
Start(w) ==
    LET x == job[w].export IN
    /\ job[w].pc = "start"
    /\ export[x].status \in AuditExportStatus
    /\ export' = [export EXCEPT ![x] = [@ EXCEPT !.status = "generating"]]
    /\ Moves(w, "read")
    /\ UNCHANGED <<file, intact, req, queue, generation, faults, repeated, abandoned>>

\* The rows of the export's scope are loaded.
ReadRows(w) ==
    /\ job[w].pc = "read"
    /\ job' = [job EXCEPT ![w] = JobAt("verify", job[w].export, job[w].generation, intact)]
    /\ UNCHANGED <<export, file, intact, req, queue, generation, faults, repeated, abandoned>>

\* verify_chain accepts: it sees the rows already loaded (the session's
\* identity map keeps them) and may or may not see what changed since.
\* The rendering is signed with a fresh generated_at.
Verified(w) ==
    /\ job[w].pc = "verify"
    /\ job[w].clean
    /\ job' = [job EXCEPT ![w] = JobAt("pdf", job[w].export, generation + 1, job[w].clean)]
    /\ generation' = generation + 1
    /\ UNCHANGED <<export, file, intact, req, queue, faults, repeated, abandoned>>

\* The row's status is set to FAILED and committed.
Fail(w) ==
    /\ export' = [export EXCEPT ![job[w].export] = [@ EXCEPT !.status = "failed"]]
    /\ Moves(w, "done")
    /\ UNCHANGED <<file, intact, req, queue, generation, faults, repeated, abandoned>>

\* "Refuse to export a tampered chain."
ChainInvalid(w) ==
    /\ job[w].pc = "verify"
    /\ ~intact
    /\ Fail(w)

\* An exception while rendering, signing or writing: rollback, then FAILED.
GenerationFails(w) ==
    /\ "render" \in ExportFaults
    /\ job[w].pc \in {"pdf", "envelope"}
    /\ Fail(w)

\* open(..., "wb"): the files are named after the export and overwritten.
WritePdf(w) ==
    /\ job[w].pc = "pdf"
    /\ file' = [file EXCEPT ![job[w].export] = [@ EXCEPT !.pdf = job[w].generation]]
    /\ Moves(w, "envelope")
    /\ UNCHANGED <<export, intact, req, queue, generation, faults, repeated, abandoned>>

WriteEnvelope(w) ==
    /\ job[w].pc = "envelope"
    /\ file' = [file EXCEPT ![job[w].export] = [@ EXCEPT !.envelope = job[w].generation]]
    /\ Moves(w, "commit")
    /\ UNCHANGED <<export, intact, req, queue, generation, faults, repeated, abandoned>>

\* Mutant: the status is committed before the files are on disk.
CommitBeforeFiles(w) ==
    /\ job[w].pc \in {"pdf", "envelope", "commit"}
    /\ export' = [export EXCEPT ![job[w].export] =
                    [status |-> "ready", sha |-> job[w].generation, clean |-> job[w].clean]]
    /\ Moves(w, "done")
    /\ UNCHANGED <<file, intact, req, queue, generation, faults, repeated, abandoned>>

CommitReady(w) ==
    /\ job[w].pc = "commit"
    /\ export' = [export EXCEPT ![job[w].export] =
                    [status |-> "ready", sha |-> job[w].generation, clean |-> job[w].clean]]
    /\ Moves(w, "done")
    /\ UNCHANGED <<file, intact, req, queue, generation, faults, repeated, abandoned>>

\* The database is gone: neither the step nor the FAILED status can be stored
\* and the task swallows the exception.
DatabaseGone(w) ==
    /\ "database" \in ExportFaults
    /\ job[w].pc \notin {"idle", "done"}
    /\ Moves(w, "done")
    /\ abandoned' = abandoned \cup {job[w].export}
    /\ UNCHANGED <<export, file, intact, req, queue, generation, faults, repeated>>

Acknowledge(w) ==
    /\ job[w].pc = "done"
    /\ job' = [job EXCEPT ![w] = NoJob]
    /\ UNCHANGED <<export, file, intact, req, queue, generation, faults, repeated, abandoned>>

\* The worker dies and the message goes back to the broker.
WorkerCrash(w) ==
    /\ "crash" \in ExportFaults
    /\ faults < MaxExportFaults
    /\ job[w].pc # "idle"
    /\ queue' = [queue EXCEPT ![job[w].export] = @ + 1]
    /\ job' = [job EXCEPT ![w] = NoJob]
    /\ faults' = faults + 1
    /\ UNCHANGED <<export, file, intact, req, generation, repeated, abandoned>>

\* The broker delivers a message again while its task is still running.
Redeliver(w) ==
    /\ "redeliver" \in ExportFaults
    /\ faults < MaxExportFaults
    /\ job[w].pc # "idle"
    /\ queue' = [queue EXCEPT ![job[w].export] = @ + 1]
    /\ faults' = faults + 1
    /\ repeated' = repeated \cup {job[w].export}
    /\ UNCHANGED <<export, file, intact, req, job, generation, abandoned>>

\* Somebody changes the audit trail behind the application.
Corrupt ==
    /\ "corrupt" \in ExportFaults
    /\ intact
    /\ intact' = FALSE
    /\ UNCHANGED <<export, file, req, queue, job, generation, faults, repeated, abandoned>>

-----------------------------------------------------------------------------

(* GET .../download and .../download/envelope: 0 is 409 not_ready or 410     *)
(* expired, otherwise the generation of the file that is sent.              *)

DownloadPdf(x) == IF export[x].status = "ready" THEN file[x].pdf ELSE 0
DownloadEnvelope(x) == IF export[x].status = "ready" THEN file[x].envelope ELSE 0

-----------------------------------------------------------------------------

RequestStep(c) == Enqueue(c) \/ Commit(c)

TaskStep(w) ==
    \/ Missing(w) \/ Start(w) \/ ReadRows(w) \/ Verified(w) \/ ChainInvalid(w)
    \/ WritePdf(w) \/ WriteEnvelope(w) \/ CommitReady(w) \/ Acknowledge(w)

Delivery(w) == \E x \in Exports : Deliver(w, x)

ExportNext ==
    \/ \E c \in ExportClients : (\E x \in Exports : CreateFlush(c, x)) \/ RequestStep(c) \/ RequestFails(c)
    \/ \E w \in ExportWorkers : \/ Delivery(w) \/ TaskStep(w)
                          \/ GenerationFails(w) \/ DatabaseGone(w)
                          \/ WorkerCrash(w) \/ Redeliver(w)
    \/ Corrupt

ExportSpec == ExportInit /\ [][ExportNext]_exportVars

\* A request that has started ends; workers consume messages and run tasks.
\* It is enough that some such step is taken while one can be.
ExportWorks ==
    \/ \E c \in ExportClients : RequestStep(c)
    \/ \E w \in ExportWorkers : Delivery(w) \/ TaskStep(w)

ExportFairness == WF_exportVars(ExportWorks)

ExportFairSpec == ExportSpec /\ ExportFairness

-----------------------------------------------------------------------------
(* Properties *)

\* An export that can be downloaded shows rows of a trail that verified, even
\* if the trail is damaged, the task redelivered or repeated meanwhile
\* (_generate_export).
ReadyIsClean == \A x \in Exports : export[x].status = "ready" => export[x].clean

\* What is downloaded is what the row vouches for: an export that is ready
\* sends both files, of the generation whose hashes were committed, after any
\* crash between the two writes and the commit (_generate_export,
\* download_export_pdf).  A message delivered again while its task runs is
\* excepted: the two tasks write the same files.
DownloadMatches ==
    \A x \in Exports \ repeated : export[x].status = "ready" =>
        /\ export[x].sha # 0
        /\ DownloadPdf(x) = export[x].sha
        /\ DownloadEnvelope(x) = export[x].sha

\* An export a worker has begun ends ready or failed although workers crash:
\* the redelivered task takes up a row left in GENERATING.  Only a task that
\* cannot even store FAILED leaves it there.
GeneratingEnds ==
    []<>(\A x \in Exports : export[x].status = "generating" => x \in abandoned)

\* docs/AUDIT.md: "one active (pending/generating) export per tenant".
OneActive == Cardinality({x \in Exports : export[x].status \in Active}) <= 1

\* A signed export is evidence, through every crash, redelivery and failing
\* write of _generate_export: its rows verified, and the files are the ones
\* whose hashes were committed.
ExportsSound ==
    /\ ExportTypeOK
    /\ ReadyIsClean
    /\ DownloadMatches
=============================================================================
