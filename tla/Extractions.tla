---------------------------- MODULE Extractions ----------------------------
(***************************************************************************)
(* PDF extraction: a request stores a pending row, sends the task's message *)
(* before it commits, and a worker later loads the PDF, parses it in a      *)
(* thread, scores the fields and writes the row, while a user may accept    *)
(* or reject it.  A worker's write touches only the columns that differ     *)
(* from what the worker read at its start, so what it read is kept here.    *)
(*                                                                          *)
(* Confidences are in thousandths.  A document's text is reduced to what    *)
(* the extractors find in it: for each field whether its label is on the    *)
(* line, above it, or absent with only a loose match, and the dates.        *)
(***************************************************************************)
EXTENDS Integers, FiniteSets, Sequences

CONSTANTS
    Documents,          \* names of documents
    Document,           \* Documents -> what is in one
    MaxExtractions,     \* bound: rows in one behaviour
    ExtWorkers,         \* Celery workers
    ExtractionEnabled,  \* settings.pdf_extraction_enabled
    MaxPages,           \* settings.pdf_max_pages
    MaxPdfSize,         \* settings.pdf_max_size_mb
    MaxExtFaults,       \* bound: dying workers, lost messages
    MaxReviews          \* bound: accepts and rejects

Extractions == 1 .. MaxExtractions

\* What the extractors can find in a document of each kind; a date that is not
\* found is 0.
Policies == [number: BOOLEAN, eff: Nat, exp: Nat]
Places == {"line", "below", "loose", "none"}
Insurers == {"known", "other", "mentioned", "none"}
CoiDocument ==
    [kind: {"coi"}, blob: STRING, size: Nat, pages: Nat, insurer: Insurers, policies: Seq(Policies)]
EoDocument ==
    [kind: {"eo_certificate"}, blob: STRING, size: Nat, pages: Nat, insurer: Insurers,
     carrier: Places, number: Places, dates: Places, eff: Nat, exp: Nat]
LicenseDocument ==
    [kind: {"producer_license"}, blob: STRING, size: Nat, pages: Nat, name: Places,
     number: Places, state: Places, dates: Places, eff: Nat, exp: Nat]

ASSUME ExtractionAssumption ==
    /\ {MaxExtractions, MaxExtFaults, MaxReviews, MaxPages, MaxPdfSize} \subseteq Nat
    /\ ExtractionEnabled \in BOOLEAN
    /\ Documents # {}
    /\ \A n \in Documents : Document[n] \in CoiDocument \cup EoDocument \cup LicenseDocument

VARIABLES
    ext,            \* extraction_results
    extQueue,       \* messages of extractions.extract_document
    extWorker,      \* tasks in progress
    extFaults, reviews,     \* bounds
    early,          \* history: rows a task looked for before their commit, or whose message was lost
    decided         \* history: rows reviewed with no message and no task about

extVars == <<ext, extQueue, extWorker, extFaults, reviews, early, decided>>

ExtractionStatus == {"pending", "succeeded", "partial", "failed", "accepted", "rejected"}
NoExt == [status |-> "absent", doc |-> CHOOSE d \in Documents : TRUE, fields |-> "none", reviewer |-> FALSE]
Resting == [pc |-> "idle", ext |-> 0, saw |-> NoExt]

-----------------------------------------------------------------------------
(* Extractors *)

\* score: half regex strength, three tenths proximity, a fifth consistency.
\* Inputs in hundredths, result in thousandths.
Score(regex, near, agree) == 5 * regex + 3 * near + 2 * agree

\* A label's value on the same line is worth more than one below it.
Near(place) == IF place = "line" THEN 100 ELSE 80
Labelled(place) == place \in {"line", "below"}

\* An expiry that is not after the effective date halves both confidences; a
\* COI's consistent dates are lifted.
Dated(conf, eff, exp, lift) ==
    IF eff = 0 \/ exp = 0 THEN conf
    ELSE IF exp <= eff THEN conf \div 2
    ELSE IF conf + lift > 1000 THEN 1000 ELSE conf + lift

\* A policy row counts with a number or with both dates.
PolicyFromWindow(p) == p.number \/ (p.eff # 0 /\ p.exp # 0)
PolicyRows(d) == {i \in DOMAIN d.policies : PolicyFromWindow(d.policies[i])}
FirstPolicy(d) == d.policies[CHOOSE i \in PolicyRows(d) : \A j \in PolicyRows(d) : i <= j]

\* The fields found, with their confidences; only the first policy is
\* promoted.
CoiExtract(d) ==
    LET first == FirstPolicy(d)
        conf == IF \A i \in PolicyRows(d) : d.policies[i].number THEN Score(80, 70, 60) ELSE Score(60, 70, 60)
        none == PolicyRows(d) = {}
    IN  [carrier_name |-> CASE d.insurer = "known" -> Score(80, 90, 70)
                            [] d.insurer = "other" -> Score(60, 90, 50)
                            [] d.insurer = "mentioned" -> Score(60, 40, 50)
                            [] OTHER -> 0,
         policy_number |-> IF none \/ ~first.number THEN 0 ELSE conf,
         effective_date |-> IF none \/ first.eff = 0 THEN 0 ELSE Dated(conf, first.eff, first.exp, 100),
         expiry_date |-> IF none \/ first.exp = 0 THEN 0 ELSE Dated(conf, first.eff, first.exp, 100)]

EoExtract(d) ==
    [carrier_name |-> IF Labelled(d.carrier)
                      THEN IF d.insurer = "known" THEN Score(90, Near(d.carrier), 70)
                                                  ELSE Score(70, Near(d.carrier), 50)
                      ELSE IF d.insurer \in {"known", "mentioned"} THEN Score(60, 40, 60) ELSE 0,
     policy_number |-> CASE Labelled(d.number) -> Score(85, Near(d.number), 60)
                         [] d.number = "loose" -> Score(50, 30, 40)
                         [] OTHER -> 0,
     effective_date |-> IF d.eff = 0 THEN 0 ELSE Dated(Score(90, Near(d.dates), 60), d.eff, d.exp, 0),
     expiration_date |-> IF d.exp = 0 THEN 0 ELSE Dated(Score(90, Near(d.dates), 60), d.eff, d.exp, 0)]

LicenseExtract(d) ==
    [licensee_name |-> IF Labelled(d.name) THEN Score(80, Near(d.name), 60) ELSE 0,
     license_number |-> CASE Labelled(d.number) -> Score(90, Near(d.number), 70)
                          [] d.number = "loose" -> Score(50, 40, 50)
                          [] OTHER -> 0,
     state |-> CASE Labelled(d.state) -> Score(95, Near(d.state), 70)
                 [] d.state = "loose" -> Score(70, 40, 50)
                 [] OTHER -> 0,
     expiration_date |-> IF d.exp = 0 THEN 0 ELSE Dated(Score(90, Near(d.dates), 60), d.eff, d.exp, 0)]

\* The required fields of a document, with a confidence of 0 for none.
Extract(d) ==
    CASE d.kind = "coi" -> CoiExtract(d)
      [] d.kind = "eo_certificate" -> EoExtract(d)
      [] d.kind = "producer_license" -> LicenseExtract(d)

\* The 0.6 below which a field has to be looked at.
YellowThreshold == 600

ClassifyStatus(found) ==
    LET have == {f \in DOMAIN found : found[f] > 0} IN
    IF have = {} THEN "failed"
    ELSE IF have # DOMAIN found \/ \E f \in have : found[f] < YellowThreshold THEN "partial"
    ELSE "succeeded"

\* The pre-flight checks and the parser: magic bytes, size, encryption, page
\* count.
ReadablePdf(d) == d.blob = "pdf" /\ d.size <= MaxPdfSize
Pages(d) == IF ReadablePdf(d) /\ d.pages <= MaxPages THEN d.pages ELSE -1

\* What a run makes of a document; a document without pages has no fields.
RunExtraction(d) ==
    IF ~ExtractionEnabled \/ Pages(d) < 0 THEN [status |-> "failed", fields |-> "none"]
    ELSE IF Pages(d) = 0 THEN [status |-> "failed", fields |-> "auto"]
    ELSE [status |-> ClassifyStatus(Extract(d)), fields |-> "auto"]

ResultOf == [n \in Documents |-> RunExtraction(Document[n])]

-----------------------------------------------------------------------------
ExtractionTypeOK ==
    /\ \A e \in Extractions :
          /\ ext[e].status \in ExtractionStatus \cup {"absent", "flushed"}
          /\ ext[e].fields \in {"none", "auto", "user"}
          /\ ext[e].status \in {"accepted", "rejected"} => ext[e].reviewer
          /\ ext[e].status \in {"succeeded", "partial"} => ext[e].fields # "none"
    /\ extQueue \in [Extractions -> 0 .. 1]
    /\ \A w \in ExtWorkers : extWorker[w].pc = "idle" <=> extWorker[w].ext = 0

ExtInit ==
    /\ ext = [e \in Extractions |-> NoExt]
    /\ extQueue = [e \in Extractions |-> 0]
    /\ extWorker = [w \in ExtWorkers |-> Resting]
    /\ extFaults = 0 /\ reviews = 0
    /\ early = {} /\ decided = {}

Visible(e) == ext[e].status \notin {"absent", "flushed"}
Busy(e) == extQueue[e] > 0 \/ \E w \in ExtWorkers : extWorker[w].ext = e
ExtFault == extFaults < MaxExtFaults /\ extFaults' = extFaults + 1

-----------------------------------------------------------------------------
(* POST /v1/extractions/document *)

\* Mutant: a document that was extracted before gets its row extracted again.
EnqueueReuses(e, d) ==
    /\ ext[e].status = "absent" \/ (Visible(e) /\ ext[e].doc = d)
    /\ \A o \in Extractions : o < e => ext[o].status # "absent"
    /\ ext' = [ext EXCEPT ![e].doc = d, ![e].status = IF @ = "absent" THEN "flushed" ELSE @]
    /\ extQueue' = [extQueue EXCEPT ![e] = 1]
    /\ UNCHANGED <<extFaults, early, extWorker, reviews, decided>>

\* The row is flushed and the message sent; a broker that refuses it is only
\* logged.
Enqueue(e, d) ==
    /\ ext[e].status = "absent"
    /\ \A o \in Extractions : o < e => ext[o].status # "absent"
    /\ ext' = [ext EXCEPT ![e] = [NoExt EXCEPT !.status = "flushed", !.doc = d]]
    /\ \/ extQueue' = [extQueue EXCEPT ![e] = 1] /\ UNCHANGED <<extFaults, early>>
       \/ ExtFault /\ early' = early \cup {e} /\ UNCHANGED extQueue
    /\ UNCHANGED <<extWorker, reviews, decided>>

EnqueueCommits(e) ==
    /\ ext[e].status = "flushed"
    /\ ext' = [ext EXCEPT ![e].status = "pending"]
    /\ UNCHANGED <<extQueue, extWorker, extFaults, reviews, early, decided>>

-----------------------------------------------------------------------------
(* The task *)

\* A row that is not committed yet is not found, and the task is done.
TaskReads(w, e) ==
    /\ extWorker[w].pc = "idle"
    /\ extQueue[e] > 0
    /\ extQueue' = [extQueue EXCEPT ![e] = 0]
    /\ IF Visible(e)
       THEN /\ extWorker' = [extWorker EXCEPT ![w] = [pc |-> "extract", ext |-> e, saw |-> ext[e]]]
            /\ UNCHANGED early
       ELSE early' = early \cup {e} /\ UNCHANGED extWorker
    /\ UNCHANGED <<ext, extFaults, reviews, decided>>

ExtWritten(saw, new, old) == IF new # saw THEN new ELSE old

\* The columns a run sets, where they differ from what it read; a run that
\* failed leaves the fields.
RowWritten(row, saw, out) ==
    [row EXCEPT !.status = ExtWritten(saw.status, out.status, row.status),
                !.fields = IF out.fields = "none" THEN row.fields
                           ELSE ExtWritten(saw.fields, out.fields, row.fields)]

\* The loader, the parser's timeout and a crashing extractor: failed, whatever
\* the document holds.
Unlucky == [status |-> "failed", fields |-> "none"]
Outcomes(e) == {ResultOf[ext[e].doc]} \cup (IF extFaults < MaxExtFaults THEN {Unlucky} ELSE {})

\* The row is written without a look at what it says by now.
TaskWrites(w, out) ==
    LET e == extWorker[w].ext
        saw == extWorker[w].saw
    IN  /\ extWorker[w].pc = "extract"
        /\ ext' = [ext EXCEPT ![e] = RowWritten(@, saw, out)]
        /\ extWorker' = [extWorker EXCEPT ![w] = Resting]
        /\ extFaults' = IF out = ResultOf[ext[e].doc] THEN extFaults ELSE extFaults + 1
        /\ UNCHANGED <<extQueue, reviews, early, decided>>

\* acks_late: the message of a worker that dies, before or after its commit,
\* is delivered again.
ExtWorkerDies(w, committed) ==
    LET e == extWorker[w].ext
        out == ResultOf[ext[e].doc]
    IN  /\ extWorker[w].pc = "extract"
        /\ ExtFault
        /\ extQueue' = [extQueue EXCEPT ![e] = 1]
        /\ ext' = IF committed THEN [ext EXCEPT ![e] = RowWritten(@, extWorker[w].saw, out)] ELSE ext
        /\ extWorker' = [extWorker EXCEPT ![w] = Resting]
        /\ UNCHANGED <<reviews, early, decided>>

-----------------------------------------------------------------------------
(* Review: any row, in any status, and again *)

Reviewed(e) ==
    /\ Visible(e)
    /\ reviews < MaxReviews
    /\ reviews' = reviews + 1
    /\ decided' = IF Busy(e) THEN decided ELSE decided \cup {e}

\* The user's fields are merged over the extractor's.
ExtMerged(fields, overrides) ==
    IF overrides THEN "user" ELSE IF fields = "none" THEN "auto" ELSE fields

Accept(e, overrides) ==
    /\ Reviewed(e)
    /\ ext' = [ext EXCEPT ![e] = [@ EXCEPT !.status = "accepted", !.reviewer = TRUE,
                                           !.fields = ExtMerged(ext[e].fields, overrides)]]
    /\ UNCHANGED <<extQueue, extWorker, extFaults, early>>

Reject(e) ==
    /\ Reviewed(e)
    /\ ext' = [ext EXCEPT ![e] = [@ EXCEPT !.status = "rejected", !.reviewer = TRUE]]
    /\ UNCHANGED <<extQueue, extWorker, extFaults, early>>

-----------------------------------------------------------------------------
ExtWorks ==
    \/ \E e \in Extractions : EnqueueCommits(e)
    \/ \E w \in ExtWorkers :
          \/ \E e \in Extractions : TaskReads(w, e)
          \/ extWorker[w].pc = "extract" /\ \E out \in Outcomes(extWorker[w].ext) : TaskWrites(w, out)

ExtNext ==
    \/ ExtWorks
    \/ \E w \in ExtWorkers, committed \in BOOLEAN : ExtWorkerDies(w, committed)
    \/ \E e \in Extractions :
          \/ \E d \in Documents : Enqueue(e, d)
          \/ Reject(e) \/ \E overrides \in BOOLEAN : Accept(e, overrides)

ExtSpec == ExtInit /\ [][ExtNext]_extVars

-----------------------------------------------------------------------------
(* Properties *)

\* What a document must say for "succeeded": no dates that contradict each
\* other, no carrier or number that is only mentioned somewhere.
Trustworthy(d) ==
    IF d.kind = "coi"
    THEN /\ d.insurer \in {"known", "other"}
         /\ PolicyRows(d) # {} /\ FirstPolicy(d).number
         /\ 0 < FirstPolicy(d).eff /\ FirstPolicy(d).eff < FirstPolicy(d).exp
    ELSE /\ Labelled(d.number)
         /\ d.exp > d.eff

\* A row nobody reviewed says "succeeded" only of a document whose dates agree
\* and whose carrier and number stand at their labels: the scores and
\* thresholds of the three extractors leave no other way over 0.6.
SucceededIsTrustworthy ==
    \A e \in Extractions : ext[e].status = "succeeded" => Trustworthy(Document[ext[e].doc])

\* A review made when no message is queued and no task is running is never
\* undone by a late or repeated task.
ReviewKept == \A e \in decided : ext[e].status \in {"accepted", "rejected"}

\* A row leaves "pending", unless its message was lost or its task looked for
\* it before the commit.
PendingEnds ==
    \A e \in Extractions : ext[e].status = "pending" ~> ext[e].status # "pending" \/ e \in early

\* The status of an extraction can be relied on: "succeeded" only for what
\* needs no review, and a review that stays (run_extraction, accept, reject).
ExtractionsSound ==
    /\ ExtractionTypeOK
    /\ SucceededIsTrustworthy
    /\ ReviewKept
=============================================================================
