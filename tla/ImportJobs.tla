----------------------------- MODULE ImportJobs -----------------------------
(***************************************************************************)
(* Bulk imports of one tenant's suppliers: an upload is stored and          *)
(* validated in one request (the dry run), then a second request, or a      *)
(* Celery task, streams the file again and stores its rows chunk by chunk,  *)
(* each chunk in a transaction of its own.  Every statement that reads the  *)
(* job's status does so without a lock, so the window between a read and    *)
(* the write that relies on it is a step boundary here.                     *)
(*                                                                          *)
(* A cell of a file is a model value or a short string; what the row        *)
(* validator tells apart is given by the constants FeinOf, StateOf, Emails   *)
(* and LongText.  Two errors of one row with one code count once in errs.    *)
(***************************************************************************)
EXTENDS Naturals, FiniteSets, Sequences, SequencesExt, AvScanner

CONSTANTS
    MaxJobs,            \* bound: jobs in one behaviour
    ImportRequests,     \* requests and tasks running at once
    Uploads,            \* the files a user may upload
    Offers,             \* ... each with an on_duplicate mode
    Content,            \* what is in them
    FeinOf,             \* normalize_fein: spelling of a FEIN -> FEIN
    StateOf,            \* spelling of a state -> state
    Emails,             \* well formed addresses
    LongText,           \* names over 255 characters
    ChunkSize,          \* settings.import_chunk_size
    MaxRows,            \* settings.import_max_rows
    MaxImportCalls,     \* bound: requests and tasks in one behaviour
    MaxImportFaults     \* bound: failing chunks, dying requests, lost files

Jobs == 1 .. MaxJobs
NoJob == 0
Feins == {FeinOf[c] : c \in DOMAIN FeinOf}

ASSUME ImportAssumption ==
    /\ Offers \subseteq [file : Uploads, dup : {"error", "update", "skip"}] /\ Uploads # {}
    /\ \A f \in Uploads : IsFiniteSet(DOMAIN Content[f].lines) /\ Content[f].broken \in Nat
    /\ ChunkSize \in Nat \ {0}
    /\ MaxRows \in Nat \ {0}
    /\ MaxImportCalls \in Nat /\ MaxImportFaults \in Nat
    /\ MaxJobs \in Nat

VARIABLES
    job,            \* import_jobs
    errs,           \* import_row_errors
    supplier,       \* suppliers of the tenant, counted by FEIN
    req,            \* requests and tasks in progress
    importCalls,    \* requests and tasks so far
    importFaults,   \* faults so far
    stored,         \* history: the rows of a job's file that were stored
    runs,           \* history: commits of a job that began
    settled,        \* history: jobs that ended with nobody else at work on them
    raced,          \* history: FEINs two chunks were storing at once
    orphaned,       \* history: jobs whose commit died
    unreported      \* history: jobs that lost an error row

importVars == <<job, errs, supplier, req, importCalls, importFaults,
                stored, runs, settled, raced, orphaned, unreported>>
history == <<stored, runs, settled, raced, orphaned, unreported>>

ImportStatus == {"pending", "validating", "dry_run_ready", "importing",
                 "completed", "failed", "canceled"}
TerminalStatuses == {"completed", "failed", "canceled"}
OnDuplicate == {"error", "update", "skip"}

-----------------------------------------------------------------------------
(* Columns and rows *)

Required == {"name", "fein", "state"}
Blank == ""     \* an empty cell
\* The accepted spellings of a column header.
AliasMap == [company |-> "name", name |-> "name", ein |-> "fein", fein |-> "fein",
             state |-> "state", primary_state |-> "state", email |-> "email"]

\* The column a header stands for, the uploader's mapping first.
Target(h, mapping) ==
    IF h \in DOMAIN mapping THEN {mapping[h]}
    ELSE IF h \in DOMAIN AliasMap THEN {AliasMap[h]} ELSE {}

\* remap_row: a later header of the same column overwrites an earlier one.
LastCell(row, heads) ==
    IF heads = {} THEN Blank ELSE row[CHOOSE i \in heads : \A k \in heads : k <= i].cell
Cell(row, field, mapping) ==
    LastCell(row, {i \in DOMAIN row : field \in Target(row[i].head, mapping)})
Cells(row, mapping) ==
    [field \in Required \cup {"email"} |-> Cell(row, field, mapping)]

MissingColumns(headers, mapping) ==
    {c \in Required : \A h \in headers : c \notin Target(h, mapping)}

\* validate_row: every check runs; a row with an error has no key.
Failing(checks) == {c \in DOMAIN checks : checks[c]}
RowErrors(cell) ==
    Failing([name_required  |-> cell.name = Blank,
             name_too_long  |-> cell.name \in LongText,
             fein_required  |-> cell.fein = Blank,
             fein_format    |-> cell.fein \notin {Blank} \cup DOMAIN FeinOf,
             state_required |-> cell.state = Blank,
             state_invalid  |-> cell.state \notin {Blank} \cup DOMAIN StateOf,
             email_invalid  |-> cell.email \notin {Blank} \cup Emails])

DedupeKey(row, mapping) == FeinOf[Cell(row, "fein", mapping)]

-----------------------------------------------------------------------------
(* What a file comes to, read once from top to bottom *)

\* The place of i among the numbers of S.
Rank(S, i) == Cardinality({k \in S : k <= i})

\* Lines without a cell are skipped, short lines are padded, columns without
\* a header are dropped.
BlankLine(line) == \A i \in DOMAIN line : line[i] = Blank
RowOf(header, line) ==
    SelectSeq([i \in DOMAIN header |->
                 [head |-> header[i], cell |-> IF i \in DOMAIN line THEN line[i] ELSE Blank]],
              LAMBDA c : c.head # Blank)
Parsed ==
    [f \in Uploads |->
        LET lines == Content[f].lines
            full == {l \in DOMAIN lines : ~BlankLine(lines[l])}
            Line(i) == lines[CHOOSE l \in full : Rank(full, l) = i]
        IN  [i \in 1 .. Cardinality(full) |-> RowOf(Content[f].header, Line(i))]]

Rows(f) == Parsed[f]
Mapping(f) == Content[f].mapping
Numbers(f) == DOMAIN Rows(f)
Total(f) == Cardinality(Numbers(f))
ValidRows(f) == {i \in Numbers(f) : RowErrors(Cells(Rows(f)[i], Mapping(f))) = {}}
Key == [f \in Uploads |-> [i \in ValidRows(f) |-> DedupeKey(Rows(f)[i], Mapping(f))]]

\* The first valid row of a FEIN wins; key is what a file's valid rows are
\* keyed by.
Repeats(key, i) == i \in DOMAIN key /\ \E k \in DOMAIN key : k < i /\ key[k] = key[i]
KeptOf(key) == {i \in DOMAIN key : ~Repeats(key, i)}
KeptRows == [f \in Uploads |-> KeptOf(Key[f])]

\* The header is the keys of the first row; a mapping speaks for an empty file.
Header(f) == IF Numbers(f) # {} THEN {Rows(f)[1][i].head : i \in DOMAIN Rows(f)[1]}
             ELSE DOMAIN Mapping(f)

\* The rows read before the scan stops: at the row over the limit, or where
\* the parser gives up.
Scanned(f) ==
    {i \in Numbers(f) : i <= MaxRows /\ (Content[f].broken = 0 \/ i < Content[f].broken)}
Error(i, c) == [row |-> i, code |-> c]

\* Errors found in row i.
Findings(f, i) ==
    IF Repeats(Key[f], i) THEN {Error(i, "duplicate_fein_in_file")}
    ELSE {Error(i, c) : c \in RowErrors(Cells(Rows(f)[i], Mapping(f)))}
Found == [f \in Uploads |-> [i \in Numbers(f) |-> Findings(f, i)]]

FoundBefore(found, i) == Cardinality(UNION {found[k] : k \in 1 .. (i - 1)})
FitsReport == {f \in Uploads : FoundBefore(Found[f], Total(f) + 1) <= MaxRows}

\* Row errors are recorded up to import_max_rows of them; of a row that
\* straddles the limit, any.
Fitting(errors, before) ==
    IF before >= MaxRows THEN {}
    ELSE CHOOSE s \in SUBSET errors :
            Cardinality(s) = IF Cardinality(errors) <= MaxRows - before THEN Cardinality(errors)
                             ELSE MaxRows - before
RecordedOf(found, scanned) ==
    UNION {Fitting(found[i], FoundBefore(found, i)) : i \in scanned}
Recorded == [f \in Uploads |-> RecordedOf(Found[f], Scanned(f))]

Outcome ==
    [f \in Uploads |->
        LET broken == Content[f].broken IN
        IF MissingColumns(Header(f), Mapping(f)) # {} THEN "missing_columns"
        ELSE IF broken # 0 /\ broken <= MaxRows + 1 THEN "parse_error"
        ELSE IF Total(f) > MaxRows THEN "too_many_rows" ELSE "ready"]

-----------------------------------------------------------------------------
NoCounts == [inserted |-> 0, updated |-> 0, skipped |-> 0, errors |-> 0]
Counts == [inserted : Nat, updated : Nat, skipped : Nat, errors : Nat]
Absent == [status |-> "absent", file |-> CHOOSE f \in Uploads : TRUE, dup |-> "error",
           total |-> 0, valid |-> 0, invalid |-> 0, imported |-> 0, summary |-> NoCounts]
Job == [status : (ImportStatus \ {"validating"}) \cup {"absent"}, file : Uploads,
        dup : OnDuplicate, total : Nat, valid : Nat, invalid : Nat, imported : Nat,
        summary : Counts]

\* done: the kept rows already handed to a chunk; known: the FEINs the chunk's
\* first read found; plan: what insert_batch did with each row of the chunk.
NoPlan == [i \in {} |-> "insert"]
Idle == [pc |-> "idle", job |-> NoJob, done |-> {}, known |-> {}, plan |-> NoPlan,
         count |-> NoCounts]
Pc == {"idle", "validate_read", "validate", "commit_read", "begin", "rows",
       "insert", "store", "cancel"}
Deed == {"insert", "update", "skip", "error", "duplicate"}

ImportTypeOK ==
    /\ job \in [Jobs -> Job]
    /\ \A j \in Jobs : \A e \in errs[j] : e.row \in Nat
    /\ supplier \in [Feins -> Nat]
    /\ \A r \in ImportRequests :
          /\ req[r].pc \in Pc
          /\ req[r].job \in Jobs \cup {NoJob}
          /\ (req[r].pc = "idle") <=> (req[r].job = NoJob)
          /\ req[r].pc # "idle" => job[req[r].job].status # "absent"
          /\ req[r].known \subseteq Feins
          /\ \A i \in DOMAIN req[r].plan : req[r].plan[i] \in Deed
          /\ req[r].count \in Counts
    /\ importCalls \in 0 .. MaxImportCalls
    /\ importFaults \in 0 .. MaxImportFaults

ImportInit ==
    /\ job = [j \in Jobs |-> Absent]
    /\ errs = [j \in Jobs |-> {}]
    /\ supplier = [f \in Feins |-> 0]
    /\ req = [r \in ImportRequests |-> Idle]
    /\ importCalls = 0
    /\ importFaults = 0
    /\ stored = [j \in Jobs |-> {}]
    /\ runs = [j \in Jobs |-> 0]
    /\ settled = {}
    /\ raced = {}
    /\ orphaned = {}
    /\ unreported = {}

Present(j) == job[j].status # "absent"
Free(r) == req[r].pc = "idle"
AtStage(r, pc) == req[r].pc = pc
Goes(r, pc) == req' = [req EXCEPT ![r].pc = pc]
Ends(r) == req' = [req EXCEPT ![r] = Idle]
Takes(r, j, pc) ==
    /\ importCalls < MaxImportCalls
    /\ importCalls' = importCalls + 1
    /\ req' = [req EXCEPT ![r] = [Idle EXCEPT !.pc = pc, !.job = j]]

\* A terminal status written while nobody else works on the job.
Settles(r, j) ==
    settled' = IF \A o \in ImportRequests \ {r} : req[o].job # j
               THEN settled \cup {j} ELSE settled

-----------------------------------------------------------------------------
(* POST /v1/imports *)

\* Extension, size, format and the antivirus verdict; a refused upload is
\* rolled back.
Accepted(f, clamd) ==
    /\ Content[f].ext \in {"csv", "xlsx", "xls"}
    /\ ~Content[f].tooLarge
    /\ EnforceClean(Content[f].bytes, clamd) = "passed"

\* The pending row is committed, then validation runs in the same request.
Upload(r, j, f, d) ==
    /\ Free(r)
    /\ \A k \in Jobs : Present(k) <=> k < j
    /\ \E clamd \in Clamd : Accepted(f, clamd)
    /\ job' = [job EXCEPT ![j] = [Absent EXCEPT !.status = "pending", !.file = f, !.dup = d]]
    /\ Takes(r, j, "validate")
    /\ UNCHANGED <<errs, supplier, importFaults, history>>

-----------------------------------------------------------------------------
(* run_validation *)

\* The task's own SELECT; the upload request keeps the row it created, so the
\* same SELECT there never sees a newer status.
ValidateRead(r) ==
    /\ AtStage(r, "validate_read")
    /\ IF job[req[r].job].status = "pending" THEN Goes(r, "validate") ELSE Ends(r)
    /\ UNCHANGED <<job, errs, supplier, importFaults, history, importCalls>>

Tally(f) ==
    [total |-> Total(f), valid |-> Cardinality(KeptRows[f]),
     invalid |-> Total(f) - Cardinality(KeptRows[f])]

AtLeastOne(n) == IF n = 0 THEN 1 ELSE n

\* The row is locked from the first flush (validating) to the commit, so the
\* whole scan is one step; the UPDATE does not test the status it replaces.
Validate(r) ==
    LET j == req[r].job
        f == job[j].file
        outcome == Outcome[f]
    IN  /\ AtStage(r, "validate")
        /\ IF outcome = "ready"
           THEN /\ job' = [job EXCEPT ![j] =
                             [@ EXCEPT !.status = "dry_run_ready", !.total = Tally(f).total,
                                       !.valid = Tally(f).valid, !.invalid = Tally(f).invalid]]
                /\ errs' = [errs EXCEPT ![j] = @ \cup Recorded[f]]
                /\ UNCHANGED settled
           ELSE /\ job' = [job EXCEPT ![j] =
                             [@ EXCEPT !.status = "failed", !.invalid = AtLeastOne(job[j].invalid)]]
                /\ errs' = [errs EXCEPT ![j] = @ \cup {Error(0, outcome)} \cup
                              (IF outcome = "missing_columns" THEN {} ELSE Recorded[f])]
                /\ Settles(r, j)
        /\ Ends(r)
        /\ UNCHANGED <<supplier, importFaults, stored, runs, raced, orphaned, unreported, importCalls>>

-----------------------------------------------------------------------------
(* run_commit *)

\* POST /v1/imports/{id}/commit with confirmed: true.
CommitRequested(r, j) ==
    /\ Free(r)
    /\ Present(j)
    /\ Takes(r, j, "commit_read")
    /\ UNCHANGED <<job, errs, supplier, importFaults, history>>

\* process_import_job picks the phase from the status it reads.
TaskStarts(r, j) ==
    /\ Free(r)
    /\ \/ job[j].status = "pending" /\ Takes(r, j, "validate_read")
       \/ job[j].status = "dry_run_ready" /\ Takes(r, j, "commit_read")
    /\ UNCHANGED <<job, errs, supplier, importFaults, history>>

\* Mutant: a failed import may be committed again.
CommitReadFailed(r) ==
    /\ AtStage(r, "commit_read")
    /\ IF job[req[r].job].status \in {"dry_run_ready", "failed"} THEN Goes(r, "begin") ELSE Ends(r)
    /\ UNCHANGED <<job, errs, supplier, importFaults, history, importCalls>>

CommitRead(r) ==
    /\ AtStage(r, "commit_read")
    /\ IF job[req[r].job].status = "dry_run_ready" THEN Goes(r, "begin") ELSE Ends(r)
    /\ UNCHANGED <<job, errs, supplier, importFaults, history, importCalls>>

\* The errors of an earlier commit go, the dry run's stay.
Begin(r) ==
    LET j == req[r].job IN
    /\ AtStage(r, "begin")
    /\ job' = [job EXCEPT ![j].status = "importing"]
    /\ errs' = [errs EXCEPT ![j] =
                  {e \in @ : e.code \notin {"chunk_failed", "duplicate_fein_existing"}}]
    /\ Goes(r, "rows")
    /\ runs' = [runs EXCEPT ![j] = @ + 1]
    /\ UNCHANGED <<supplier, importFaults, stored, settled, raced, orphaned, unreported, importCalls>>

\* The next rows in file order, a chunk of them.
FirstOf(rows) == {i \in rows : Rank(rows, i) <= ChunkSize}
Chunk(r) == FirstOf(KeptRows[job[req[r].job].file] \ req[r].done)

\* Mutant: the tenant's FEINs are compared with the cells as spelled.
ExistingAsSpelled(f, chunk) ==
    {k \in {Cell(Rows(f)[i], "fein", Mapping(f)) : i \in chunk} \cap Feins :
        supplier[k] > 0}

Existing(f, chunk) == {k \in {Key[f][i] : i \in chunk} : supplier[k] > 0}

\* _commit_chunk: the first look for FEINs the tenant already has.
ReadExisting(r) ==
    /\ AtStage(r, "rows")
    /\ Chunk(r) # {}
    /\ req' = [req EXCEPT ![r] = [@ EXCEPT !.pc = "insert",
                                           !.known = Existing(job[req[r].job].file, Chunk(r))]]
    /\ UNCHANGED <<job, errs, supplier, importFaults, history, importCalls>>

\* insert_batch looks again and flushes; nothing is visible yet.
InsertBatch(r) ==
    LET j == req[r].job
        f == job[j].file
        chunk == Chunk(r)
        now == Existing(f, chunk)
        deed(k) == IF job[j].dup = "error" /\ k \in req[r].known THEN "duplicate"
                   ELSE IF k \in now THEN job[j].dup ELSE "insert"
    IN  /\ AtStage(r, "insert")
        /\ req' = [req EXCEPT ![r] = [@ EXCEPT !.pc = "store",
                                               !.plan = [i \in chunk |-> deed(Key[f][i])]]]
        /\ UNCHANGED <<job, errs, supplier, importFaults, history, importCalls>>

Did(r, deed) == {i \in DOMAIN req[r].plan : req[r].plan[i] = deed}
After(r, count) ==
    req' = [req EXCEPT ![r] = [@ EXCEPT !.pc = "rows", !.done = req[r].done \cup Chunk(r),
                                        !.known = {}, !.plan = NoPlan, !.count = count]]

\* The FEINs a request is about to store.
Storing(r) == {Key[job[req[r].job].file][i] : i \in Did(r, "insert")}

\* The chunk commits.
StoreChunk(r) ==
    LET j == req[r].job
        c == req[r].count
    IN  /\ AtStage(r, "store")
        /\ supplier' = [k \in Feins |-> IF k \in Storing(r) THEN supplier[k] + 1 ELSE supplier[k]]
        /\ errs' = [errs EXCEPT ![j] =
                      @ \cup {Error(i, "duplicate_fein_existing") : i \in Did(r, "duplicate")}]
        /\ After(r, [inserted |-> c.inserted + Cardinality(Did(r, "insert")),
                     updated |-> c.updated + Cardinality(Did(r, "update")),
                     skipped |-> c.skipped + Cardinality(Did(r, "skip")),
                     errors |-> c.errors + Cardinality(Did(r, "error") \cup Did(r, "duplicate"))])
        /\ stored' = [stored EXCEPT ![j] = @ \cup Did(r, "insert") \cup Did(r, "update")]
        /\ raced' = raced \cup {k \in Storing(r) :
                       \E o \in ImportRequests \ {r} : AtStage(o, "store") /\ k \in Storing(o)}
        /\ unreported' = IF Did(r, "error") = {} THEN unreported ELSE unreported \cup {j}
        /\ UNCHANGED <<job, importFaults, runs, settled, orphaned, importCalls>>

ChunkLost(r) == [req[r].count EXCEPT !.errors = @ + Cardinality(Chunk(r))]

\* The chunk's transaction fails: all its rows are errors and the report names
\* its first row, unless that write fails too.
ChunkFails(r) ==
    LET j == req[r].job IN
    /\ AtStage(r, "insert") \/ AtStage(r, "store")
    /\ importFaults < MaxImportFaults
    /\ importFaults' = importFaults + 1
    /\ \/ /\ errs' = [errs EXCEPT ![j] = @ \cup {Error(Min(Chunk(r)), "chunk_failed")}]
          /\ UNCHANGED unreported
       \/ /\ unreported' = unreported \cup {j}
          /\ UNCHANGED errs
    /\ After(r, ChunkLost(r))
    /\ UNCHANGED <<job, supplier, stored, runs, settled, raced, orphaned, importCalls>>

\* The run's counters with the errors of the rows that were never kept.
Result(r) ==
    LET f == job[req[r].job].file IN
    [req[r].count EXCEPT !.errors = @ + Total(f) - Cardinality(KeptRows[f])]

\* The last write of a run does not look at the status it replaces.
Finish(r) ==
    LET j == req[r].job IN
    /\ AtStage(r, "rows")
    /\ Chunk(r) = {}
    /\ job' = [job EXCEPT ![j] = [@ EXCEPT !.status = "completed", !.summary = Result(r),
                                           !.imported = Result(r).inserted + Result(r).updated]]
    /\ Settles(r, j)
    /\ Ends(r)
    /\ UNCHANGED <<errs, supplier, importFaults, stored, runs, raced, orphaned, unreported, importCalls>>

\* The file cannot be read on: failed, with what was stored so far.
Fatal(r) ==
    LET j == req[r].job IN
    /\ AtStage(r, "rows")
    /\ importFaults < MaxImportFaults
    /\ importFaults' = importFaults + 1
    /\ job' = [job EXCEPT ![j] =
                 [@ EXCEPT !.status = "failed", !.summary = req[r].count,
                           !.imported = req[r].count.inserted + req[r].count.updated]]
    /\ Settles(r, j)
    /\ Ends(r)
    /\ UNCHANGED <<errs, supplier, stored, runs, raced, orphaned, unreported, importCalls>>

-----------------------------------------------------------------------------
(* POST /v1/imports/{id}/cancel, and requests that die *)

CancelRead(r, j) ==
    /\ Free(r)
    /\ Present(j)
    /\ job[j].status \notin TerminalStatuses
    /\ Takes(r, j, "cancel")
    /\ UNCHANGED <<job, errs, supplier, importFaults, history>>

CancelWrite(r) ==
    LET j == req[r].job IN
    /\ AtStage(r, "cancel")
    /\ job' = [job EXCEPT ![j].status = "canceled"]
    /\ Settles(r, j)
    /\ Ends(r)
    /\ UNCHANGED <<errs, supplier, importFaults, stored, runs, raced, orphaned, unreported, importCalls>>

\* Whatever the request had not committed is gone.
Dies(r) ==
    /\ ~Free(r)
    /\ importFaults < MaxImportFaults
    /\ importFaults' = importFaults + 1
    /\ orphaned' = IF req[r].pc \in {"rows", "insert", "store"}
                   THEN orphaned \cup {req[r].job} ELSE orphaned
    /\ Ends(r)
    /\ UNCHANGED <<job, errs, supplier, stored, runs, settled, raced, unreported, importCalls>>

-----------------------------------------------------------------------------
Works(r) ==
    \/ ValidateRead(r) \/ Validate(r)
    \/ CommitRead(r) \/ Begin(r) \/ ReadExisting(r) \/ InsertBatch(r) \/ StoreChunk(r) \/ Finish(r)
    \/ CancelWrite(r)

ImportNext ==
    \E r \in ImportRequests :
        \/ Works(r)
        \/ ChunkFails(r) \/ Fatal(r) \/ Dies(r)
        \/ \E j \in Jobs :
              \/ CommitRequested(r, j) \/ TaskStarts(r, j) \/ CancelRead(r, j)
              \/ \E offer \in Offers : Upload(r, j, offer.file, offer.dup)

ImportSpec == ImportInit /\ [][ImportNext]_importVars

\* A request that is running goes on, unless its process dies.
ImportFairSpec == ImportSpec /\ \A r \in ImportRequests : WF_importVars(Works(r))

-----------------------------------------------------------------------------
(* Properties *)

\* A job completed by its only commit accounts for every row of its file: the
\* four counters add up to it, the stored rows are the counted ones, and the
\* commit judged the same rows valid as the dry run the user confirmed.
\* (run_commit's counters live in memory while each chunk commits by itself.)
RowsAccountedFor ==
    \A j \in Jobs :
        job[j].status = "completed" /\ runs[j] = 1 =>
            LET s == job[j].summary IN
            /\ s.inserted + s.updated + s.skipped + s.errors = job[j].total
            /\ job[j].imported = Cardinality(stored[j])
            /\ s.errors >= job[j].invalid
            /\ job[j].total = Total(job[j].file)

\* The chunk_failed row that stands for row i.
CoveredByFailedChunk(j, i) ==
    \E e \in errs[j] :
        /\ e.code = "chunk_failed"
        /\ e.row <= i
        /\ Cardinality(KeptRows[job[j].file] \cap e.row .. (i - 1)) < ChunkSize

\* In a completed import in "error" mode, every row that is not stored is
\* explained by the error report, unless a competing import took its FEIN
\* between the two looks, the report row itself could not be written, or the
\* dry run had already recorded import_max_rows errors.
EveryRowExplained ==
    \A j \in Jobs :
        (/\ job[j].status = "completed" /\ runs[j] = 1 /\ job[j].dup = "error"
         /\ j \notin unreported
         /\ job[j].file \in FitsReport)
        => \A i \in Numbers(job[j].file) :
              \/ i \in stored[j]
              \/ \E e \in errs[j] : e.row = i
              \/ CoveredByFailedChunk(j, i)

\* Two suppliers of one tenant share a FEIN only if two chunks were storing it
\* at the same moment: no sequence of imports, however it repeats files, modes
\* and failed chunks, duplicates a supplier.
DuplicatesOnlyByRace == \A k \in Feins : supplier[k] > 1 => k \in raced

\* A job that ended while no other request was at work on it never changes
\* status again, whatever commits, cancels, tasks and redeliveries follow.
SettledIsFinal ==
    [][\A j \in settled : job'[j].status = job[j].status]_importVars

\* An import that has begun comes to an end, unless its process died: then
\* nothing in the code ever moves it on.
ImportEnds ==
    \A j \in Jobs :
        (job[j].status = "importing") ~> (job[j].status \in TerminalStatuses \/ j \in orphaned)

\* What the service's docstring says of a cancel: seen between chunks, it ends
\* the import, so a canceled job stays canceled.
CancelIsFinal ==
    [][\A j \in Jobs : job[j].status = "canceled" => job'[j].status = "canceled"]_importVars

\* An import accounts for every row of its file, by a supplier that is stored
\* once or by the error report, over chunks that fail and files that come
\* again (run_commit).
ImportsSound ==
    /\ ImportTypeOK
    /\ RowsAccountedFor
    /\ EveryRowExplained
    /\ DuplicatesOnlyByRace

\* An import that has begun ends, and one that has ended stays as it is
\* (commit_import, run_commit, cancel_import).
ImportsSettle ==
    /\ SettledIsFinal
    /\ ImportEnds
=============================================================================
