---------------------- MODULE SubmissionPipelineProofs ----------------------
(***************************************************************************)
(* Proofs that the submission pipeline keeps its safety invariants for any *)
(* number of submissions, workers, clients, faults and retries.  The       *)
(* inductive invariant is the conjunction of                               *)
(*   Typed          TypeOK, and whoever is busy is busy with a submission, *)
(*   LockDiscipline an open transaction holds its row's lock,              *)
(*   Evidence       a task past the portal's acceptance has a filing,      *)
(*   Entitled       a task past validation works on a consented row,       *)
(* and of the properties themselves.  A task that has lost its connection  *)
(* has no lock, and still has its evidence.                                *)
(* Committable adds what makes each commit a step of SubmissionLifecycle:  *)
(* the row of a task that has its transaction is claimable, the row a      *)
(* request is about to insert is seen by nobody and inserted by no other,  *)
(* and the row of a retry exists.                                          *)
(***************************************************************************)
EXTENDS SubmissionPipeline, TLAPS

Typed ==
    /\ TypeOK
    /\ \A w \in Workers : job[w].pc # "idle" => job[w].submission \in Submissions
    /\ \A c \in Clients : req[c].pc # "idle" => req[c].submission \in Submissions

LockDiscipline ==
    /\ \A w \in Workers : HasTransaction(w) => lock[job[w].submission] = w
    /\ \A c \in Clients :
         req[c].kind = "retry" /\ req[c].pc \in {"flushed", "enqueued"}
         => lock[req[c].submission] = c

Evidence ==
    \A w \in Workers : job[w].pc \in {"filed", "sign"} => filings[job[w].submission] > 0

Entitled ==
    /\ \A w \in Workers :
         job[w].pc \in {"submit", "filed", "sign"} => standing[job[w].submission] # "none"
    /\ \A s \in Submissions : standing[s] = "none" => filings[s] = 0

-----------------------------------------------------------------------------
(* What the updates of the three tables of records do.  Everywhere else    *)
(* Row, Request and Job stay folded.                                       *)

\* Moving a task to its next step changes nothing else of any task.
LEMMA JobMoves ==
    ASSUME NEW j \in [Workers -> Job], NEW w \in Workers, NEW p \in JobPC
    PROVE  /\ [j EXCEPT ![w].pc = p] \in [Workers -> Job]
           /\ [j EXCEPT ![w].pc = p][w].pc = p
           /\ [j EXCEPT ![w].pc = p][w].submission = j[w].submission
           /\ [j EXCEPT ![w].pc = p][w].lost = j[w].lost
           /\ \A v \in Workers \ {w} : [j EXCEPT ![w].pc = p][v] = j[v]
BY DEF Job

\* The same when the step also records the error.
LEMMA JobFails ==
    ASSUME Typed, NEW w \in Workers, job[w].pc # "idle",
           NEW p \in JobPC, NEW e \in PortalErrors \cup {"none", "unsupported"},
           job' = [job EXCEPT ![w].pc = p, ![w].error = e]
    PROVE  /\ job' \in [Workers -> Job]
           /\ job'[w].pc = p
           /\ job'[w].submission = job[w].submission
           /\ job'[w].lost = job[w].lost
           /\ \A v \in Workers \ {w} : job'[v] = job[v]
           /\ \A v \in Workers : job'[v].pc # "idle" => job'[v].submission \in Submissions
BY DEF Job, Typed, TypeOK

\* Losing the connection changes nothing else of any task.
LEMMA JobLoses ==
    ASSUME NEW j \in [Workers -> Job], NEW w \in Workers
    PROVE  /\ [j EXCEPT ![w].lost = TRUE] \in [Workers -> Job]
           /\ [j EXCEPT ![w].lost = TRUE][w].pc = j[w].pc
           /\ [j EXCEPT ![w].lost = TRUE][w].submission = j[w].submission
           /\ [j EXCEPT ![w].lost = TRUE][w].lost
           /\ \A v \in Workers \ {w} : [j EXCEPT ![w].lost = TRUE][v] = j[v]
BY DEF Job

\* Moving a request to its next step changes nothing else of any request.
LEMMA RequestMoves ==
    ASSUME NEW q \in [Clients -> Request], NEW c \in Clients, NEW p \in RequestPC
    PROVE  /\ [q EXCEPT ![c].pc = p] \in [Clients -> Request]
           /\ [q EXCEPT ![c].pc = p][c].pc = p
           /\ [q EXCEPT ![c].pc = p][c].submission = q[c].submission
           /\ [q EXCEPT ![c].pc = p][c].kind = q[c].kind
           /\ \A d \in Clients \ {c} : [q EXCEPT ![c].pc = p][d] = q[d]
BY DEF Request

\* Setting a row's status changes nothing else of any row.
LEMMA RowMoves ==
    ASSUME NEW t \in [Submissions -> Row], NEW s \in Submissions, NEW st \in RowStatus
    PROVE  /\ [t EXCEPT ![s].status = st] \in [Submissions -> Row]
           /\ [t EXCEPT ![s].status = st][s].status = st
           /\ [t EXCEPT ![s].status = st][s].attempt_count = t[s].attempt_count
           /\ \A u \in Submissions \ {s} : [t EXCEPT ![s].status = st][u] = t[u]
BY DEF Row

\* The records of the tables have the fields their types give them.
LEMMA Fields ==
    ASSUME Typed
    PROVE  /\ \A w \in Workers : job[w].pc \in JobPC /\ job[w].retries \in 0..MAX_RETRIES
                                 /\ job[w].error \in PortalErrors \cup {"none", "unsupported"}
           /\ \A c \in Clients : req[c].pc \in RequestPC /\ req[c].kind \in {"create", "retry"}
           /\ \A s \in Submissions : row[s].status \in RowStatus /\ row[s].attempt_count \in Nat
                                     /\ row[s].completed_at \in Nat
BY DEF Typed, TypeOK, Job, Request, Row

\* What a failed attempt stores is one of the statuses of the table
\* (_classify_failure).
LEMMA ClassifyType ==
    ASSUME NEW e, NEW n \in Nat
    PROVE  Classify(e, n) \in SubmissionStatus
BY PipelineAssumption DEF Classify, SubmissionStatus

\* A settled attempt changes one row, frees its lock and ends its task
\* (the commits of process_submission).
LEMMA Settles ==
    ASSUME Typed, NEW w \in Workers, job[w].pc # "idle",
           NEW st \in SubmissionStatus, NEW n \in Nat, Settle(w, st, n)
    PROVE  LET s == job[w].submission IN
           /\ row' \in [Submissions -> Row]
           /\ row'[s].status = st
           /\ row'[s].attempt_count = row[s].attempt_count + 1
           /\ \A u \in Submissions \ {s} : row'[u] = row[u]
           /\ lock' = [lock EXCEPT ![s] = None]
           /\ job' \in [Workers -> Job]
           /\ job'[w].pc = "done"
           /\ job'[w].submission = s
           /\ \A v \in Workers \ {w} : job'[v] = job[v]
<1> DEFINE s == job[w].submission
<1>1. s \in Submissions /\ Attempt(s) \in Nat /\ Attempt(s) = row[s].attempt_count + 1
  BY Fields DEF Typed, Attempt
<1>2. row \in [Submissions -> Row] /\ job \in [Workers -> Job]
  BY DEF Typed, TypeOK
<1>3. [status |-> st, attempt_count |-> Attempt(s), completed_at |-> n] \in Row
  BY <1>1 DEF Row, RowStatus
<1>4. "done" \in JobPC
  BY DEF JobPC
<1>5. /\ row' = [row EXCEPT ![s] = [status |-> st, attempt_count |-> Attempt(s),
                                     completed_at |-> n]]
      /\ lock' = [lock EXCEPT ![s] = None]
      /\ job' = [job EXCEPT ![w].pc = "done"]
  BY DEF Settle
<1>6. /\ row' \in [Submissions -> Row]
      /\ row'[s].status = st
      /\ row'[s].attempt_count = Attempt(s)
      /\ \A u \in Submissions \ {s} : row'[u] = row[u]
  BY <1>1, <1>2, <1>3, <1>5
<1> QED
  BY <1>1, <1>2, <1>4, <1>5, <1>6, JobMoves

-----------------------------------------------------------------------------
(* Types *)

LEMMA InitTyped == Init => Typed
BY PipelineAssumption DEF Init, Typed, TypeOK, NoRequest, NoJob, Row, Request, Job,
   RowStatus, RequestPC, JobPC, Standing

\* The two initial records.
LEMMA IdleTypes == NoJob \in Job /\ NoRequest \in Request
BY PipelineAssumption DEF NoJob, NoRequest, Job, Request, JobPC, RequestPC

LEMMA RequestTyped ==
    ASSUME Typed, NEW c \in Clients, RequestStep(c) \/ RequestFails(c)
    PROVE  Typed'
<1> USE Fields, IdleTypes DEF Typed, TypeOK
<1> {"flushed", "enqueued"} \subseteq RequestPC /\ {"queued", "retrying"} \subseteq RowStatus
  BY DEF RequestPC, RowStatus, SubmissionStatus
<1> NoRequest.pc = "idle"
  BY DEF NoRequest
<1>1. CASE RetryFlush(c)
  BY <1>1, RequestMoves DEF RetryFlush
<1>2. CASE Enqueue(c)
  <2>1. queue' \in [Submissions \X (0..MAX_RETRIES) -> Nat]
    <3> DEFINE m == <<req[c].submission, 0>>
    <3>1. queue' = [queue EXCEPT ![m] = @ + 1] \/ queue' = queue
      BY <1>2 DEF Enqueue
    <3> HIDE DEF m
    <3> QED
      BY <3>1
  <2> QED
    BY <1>2, <2>1, RequestMoves DEF Enqueue
<1>3. CASE Commit(c)
  BY <1>3, RowMoves DEF Commit
<1>4. CASE RequestFails(c)
  BY <1>4 DEF RequestFails
<1> QED
  BY <1>1, <1>2, <1>3, <1>4 DEF RequestStep

LEMMA ProducerTyped ==
    ASSUME Typed, NEW s \in Submissions,
           \/ \E c \in Clients : CreateFlush(c, s) \/ RetryRead(c, s)
           \/ RunFirstSubmission(s) \/ DraftFromInbound(s) \/ StandingChanges(s)
    PROVE  Typed'
<1> USE DEF Typed, TypeOK
<1> {"void", "queued", "blocked"} \subseteq RowStatus /\ {"ok", "unsupported", "revoked"} \subseteq Standing
  BY DEF RowStatus, SubmissionStatus, Standing
<1>1. ASSUME NEW c \in Clients, CreateFlush(c, s) PROVE Typed'
  <2>1. [pc |-> "flushed", kind |-> "create", submission |-> s] \in Request
    BY DEF Request, RequestPC
  <2> QED
    BY <1>1, <2>1, RowMoves DEF CreateFlush
<1>2. ASSUME NEW c \in Clients, RetryRead(c, s) PROVE Typed'
  <2>1. [pc |-> "read", kind |-> "retry", submission |-> s] \in Request
    BY DEF Request, RequestPC
  <2>2. manual' \in 0..MaxManual
    BY <1>2, PipelineAssumption DEF RetryRead
  <2> QED
    BY <1>2, <2>1, <2>2 DEF RetryRead
<1>3. CASE RunFirstSubmission(s)
  BY <1>3, RowMoves DEF RunFirstSubmission
<1>4. CASE DraftFromInbound(s)
  BY <1>4, RowMoves DEF DraftFromInbound
<1>5. CASE StandingChanges(s)
  BY <1>5 DEF StandingChanges
<1> QED
  BY <1>1, <1>2, <1>3, <1>4, <1>5

LEMMA WorkerTyped ==
    ASSUME Typed, NEW w \in Workers, WorkerStep(w) \/ SigningFails(w)
    PROVE  Typed'
<1> USE DEF Typed, TypeOK
<1> {"validate", "submit", "filed", "failing", "sign", "done"} \subseteq JobPC
  BY DEF JobPC, ClaimedPC
<1> {"completed", "failed"} \subseteq SubmissionStatus
  BY DEF SubmissionStatus
<1>1. CASE Claim(w)
  BY <1>1, JobMoves DEF Claim
<1>2. CASE NotClaimable(w)
  BY <1>2, JobMoves DEF NotClaimable
<1>3. CASE Validate(w)
  <2> DEFINE found == standing[job[w].submission]
             p == IF found = "ok" THEN "submit" ELSE "failing"
             e == CASE found = "ok" -> "none"
                    [] found = "unsupported" -> "unsupported"
                    [] OTHER -> "permanent"
  <2>1. p \in JobPC /\ e \in PortalErrors \cup {"none", "unsupported"}
    BY DEF PortalErrors
  <2>2. job' = [job EXCEPT ![w].pc = p, ![w].error = e] /\ job[w].pc = "validate"
    BY <1>3 DEF Validate
  <2> HIDE DEF p, e
  <2>3. /\ job' \in [Workers -> Job]
        /\ \A v \in Workers : job'[v].pc # "idle" => job'[v].submission \in Submissions
    BY <2>1, <2>2, JobFails
  <2> QED
    BY <1>3, <2>3 DEF Validate
<1>4. CASE SubmitFiles(w)
  BY <1>4, JobMoves DEF SubmitFiles
<1>5. CASE ConfirmationCaptured(w)
  BY <1>5, JobMoves DEF ConfirmationCaptured
<1>6. ASSUME NEW e \in PortalErrors, SubmitFails(w, e) PROVE Typed'
  <2>1. job' = [job EXCEPT ![w].pc = "failing", ![w].error = e] /\ job[w].pc # "idle"
    BY <1>6 DEF SubmitFails
  <2>2. /\ job' \in [Workers -> Job]
        /\ \A v \in Workers : job'[v].pc # "idle" => job'[v].submission \in Submissions
    BY <2>1, JobFails
  <2> QED
    BY <1>6, <2>2 DEF SubmitFails
<1>7. ASSUME NEW e \in PortalErrors, ConfirmationFails(w, e) PROVE Typed'
  <2>1. job' = [job EXCEPT ![w].pc = "failing", ![w].error = e] /\ job[w].pc # "idle"
    BY <1>7 DEF ConfirmationFails
  <2>2. /\ job' \in [Workers -> Job]
        /\ \A v \in Workers : job'[v].pc # "idle" => job'[v].submission \in Submissions
    BY <2>1, JobFails
  <2> QED
    BY <1>7, <2>2 DEF ConfirmationFails
<1>8. CASE RecordFailure(w)
  <2> DEFINE s == job[w].submission
             st == Classify(job[w].error, Attempt(s))
             n == IF st = "retrying" THEN 0 ELSE Attempt(s)
  <2>1. Attempt(s) \in Nat /\ job[w].pc # "idle"
    BY <1>8, Fields DEF Attempt, RecordFailure
  <2>2. st \in SubmissionStatus /\ n \in Nat
    BY <2>1, ClassifyType
  <2>3. Settle(w, st, n)
    BY <1>8 DEF RecordFailure
  <2> HIDE DEF st, n
  <2> QED
    BY <1>8, <2>1, <2>2, <2>3, Settles DEF RecordFailure
<1>9. CASE SignAndComplete(w)
  <2> DEFINE s == job[w].submission
  <2>1. Attempt(s) \in Nat /\ SubmittedAt(s) \in Nat /\ s \in Submissions /\ job[w].pc # "idle"
    BY <1>9, Fields DEF Attempt, SubmittedAt, SignAndComplete
  <2>2. SignedReceipt(s) \in Receipt
    BY <2>1 DEF SignedReceipt, Receipt
  <2>3. receipts' \subseteq Receipt /\ Settle(w, "completed", Attempt(s))
    BY <1>9, <2>2 DEF SignAndComplete
  <2> QED
    BY <1>9, <2>1, <2>3, Settles DEF SignAndComplete
<1>10. CASE SigningFails(w)
  <2>1. Attempt(job[w].submission) \in Nat /\ job[w].pc # "idle"
    BY <1>10, Fields DEF Attempt, SigningFails
  <2> QED
    BY <1>10, <2>1, Settles DEF SigningFails
<1>11. CASE DuplicateReceipt(w)
  BY <1>11, JobMoves DEF DuplicateReceipt
<1>12. CASE LossNoticed(w)
  BY <1>12, JobMoves DEF LossNoticed
<1>13. CASE Acknowledge(w)
  BY <1>13, IdleTypes DEF Acknowledge, NoJob
<1> QED
  BY <1>1, <1>2, <1>3, <1>4, <1>5, <1>6, <1>7, <1>8, <1>9, <1>10, <1>11, <1>12, <1>13 DEF WorkerStep

LEMMA BrokerTyped ==
    ASSUME Typed, NEW w \in Workers,
           \/ Delivery(w) \/ ClaimTimesOut(w) \/ ConnectFails(w)
           \/ ConnectionLost(w) \/ WorkerCrash(w) \/ Redeliver(w)
    PROVE  Typed'
<1> USE DEF Typed, TypeOK
<1> DEFINE Queues == [Submissions \X (0..MAX_RETRIES) -> Nat]
<1> {"claim", "done"} \subseteq JobPC
  BY DEF JobPC
<1>1. ASSUME NEW s \in Submissions, NEW n \in 0..MAX_RETRIES, Deliver(w, s, n) PROVE Typed'
  <2>1. [pc |-> "claim", submission |-> s, retries |-> n, error |-> "none", lost |-> FALSE] \in Job
    BY DEF Job
  <2>2. queue' \in Queues
    BY <1>1 DEF Deliver
  <2> QED
    BY <1>1, <2>1, <2>2 DEF Deliver
<1>2. CASE ClaimTimesOut(w)
  BY <1>2, JobMoves DEF ClaimTimesOut
<1>3. CASE ConnectFails(w)
  <2>1. queue' \in Queues
    BY <1>3, Fields, PipelineAssumption DEF ConnectFails
  <2> QED
    BY <1>3, <2>1, JobMoves DEF ConnectFails
<1>4. CASE ConnectionLost(w)
  <2>1. /\ job' \in [Workers -> Job]
        /\ \A v \in Workers : job'[v].pc = job[v].pc /\ job'[v].submission = job[v].submission
    BY <1>4, JobLoses DEF ConnectionLost
  <2>2. lock' = [lock EXCEPT ![job[w].submission] = None]
        /\ UNCHANGED <<row, standing, receipts, queue, req, filings, faults, manual>>
    BY <1>4 DEF ConnectionLost
  <2> QED
    BY <2>1, <2>2
<1>5. CASE WorkerCrash(w)
  <2>1. queue' \in Queues /\ faults' \in 0..MaxFaults
    BY <1>5, Fields, PipelineAssumption DEF WorkerCrash
  <2> QED
    BY <1>5, <2>1, IdleTypes DEF WorkerCrash, NoJob
<1>6. CASE Redeliver(w)
  <2>1. queue' \in Queues /\ faults' \in 0..MaxFaults
    BY <1>6, Fields, PipelineAssumption DEF Redeliver
  <2> QED
    BY <1>6, <2>1 DEF Redeliver
<1> QED
  BY <1>1, <1>2, <1>3, <1>4, <1>5, <1>6 DEF Delivery

LEMMA StepTyped == Typed /\ [Next]_vars => Typed'
<1> SUFFICES ASSUME Typed, [Next]_vars PROVE Typed'
  OBVIOUS
<1>1. CASE UNCHANGED vars
  BY <1>1 DEF vars, Typed, TypeOK
<1>2. CASE Next
  BY <1>2, RequestTyped, ProducerTyped, WorkerTyped, BrokerTyped DEF Next
<1> QED
  BY <1>1, <1>2

\* TypeOK: the tables, messages and tasks stay within their types; in
\* particular only statuses of the enumeration are ever stored.
THEOREM TypeCorrectness == Spec => []TypeOK
<1>1. Spec => []Typed
  BY InitTyped, StepTyped, PTL DEF Spec
<1>2. Typed => TypeOK
  BY DEF Typed
<1> QED
  BY <1>1, <1>2, PTL

-----------------------------------------------------------------------------
(* Mutual exclusion of the transactions on a row *)

LEMMA RequestLocks ==
    ASSUME Typed, LockDiscipline, NEW c \in Clients, RequestStep(c) \/ RequestFails(c)
    PROVE  LockDiscipline'
<1> USE PipelineAssumption DEF LockDiscipline, HasTransaction
<1> USE DEF Typed, TypeOK, HasTransaction
<1> NoRequest.pc = "idle"
  BY DEF NoRequest
<1>1. CASE RetryFlush(c)
  <2>1. "flushed" \in RequestPC
    BY DEF RequestPC
  <2>2. /\ req'[c].pc = "flushed" /\ req'[c].submission = req[c].submission
        /\ \A d \in Clients \ {c} : req'[d] = req[d]
    BY <1>1, <2>1, RequestMoves DEF RetryFlush
  <2>3. /\ lock[req[c].submission] = None /\ req[c].submission \in Submissions
        /\ lock' = [lock EXCEPT ![req[c].submission] = c] /\ job' = job
    BY <1>1 DEF RetryFlush
  <2>4. \A w \in Workers : HasTransaction(w) => job[w].submission \in Submissions \ {req[c].submission}
    BY <2>3 DEF ClaimedPC
  <2> QED
    BY <2>2, <2>3, <2>4
<1>2. CASE Enqueue(c)
  <2>1. "enqueued" \in RequestPC
    BY DEF RequestPC
  <2>2. /\ req[c].pc = "flushed" /\ req'[c].pc = "enqueued"
        /\ req'[c].submission = req[c].submission /\ req'[c].kind = req[c].kind
        /\ \A d \in Clients \ {c} : req'[d] = req[d]
    BY <1>2, <2>1, RequestMoves DEF Enqueue
  <2> QED
    BY <1>2, <2>2 DEF Enqueue
<1>3. CASE Commit(c) \/ RequestFails(c)
  <2>1. /\ req'[c].pc = "idle" /\ \A d \in Clients \ {c} : req'[d] = req[d]
        /\ job' = job
        /\ req[c].submission \in Submissions
        /\ lock' = IF lock[req[c].submission] = c
                   THEN [lock EXCEPT ![req[c].submission] = None] ELSE lock
    BY <1>3 DEF Commit, RequestFails
  <2>2. \A w \in Workers : HasTransaction(w)
          => lock[job[w].submission] # c /\ job[w].submission \in Submissions
    BY DEF ClaimedPC
  <2>3. \A d \in Clients \ {c} : req[d].kind = "retry" /\ req[d].pc \in {"flushed", "enqueued"}
          => lock[req[d].submission] # c /\ req[d].submission \in Submissions
    OBVIOUS
  <2> QED
    BY <2>1, <2>2, <2>3
<1> QED
  BY <1>1, <1>2, <1>3 DEF RequestStep

LEMMA ProducerLocks ==
    ASSUME Typed, LockDiscipline, NEW s \in Submissions,
           \/ \E c \in Clients : CreateFlush(c, s) \/ RetryRead(c, s)
           \/ RunFirstSubmission(s) \/ DraftFromInbound(s) \/ StandingChanges(s)
    PROVE  LockDiscipline'
<1> USE DEF LockDiscipline, HasTransaction, Typed, TypeOK
<1>1. ASSUME NEW c \in Clients, CreateFlush(c, s) \/ RetryRead(c, s) PROVE LockDiscipline'
  BY <1>1 DEF CreateFlush, RetryRead
<1>2. CASE RunFirstSubmission(s) \/ DraftFromInbound(s) \/ StandingChanges(s)
  BY <1>2 DEF RunFirstSubmission, DraftFromInbound, StandingChanges
<1> QED
  BY <1>1, <1>2

\* A task that goes from one claimed step to another keeps its lock.
LEMMA LocksKept ==
    ASSUME Typed, LockDiscipline, NEW w \in Workers,
           UNCHANGED <<lock, req>>,
           job'[w].submission = job[w].submission,
           HasTransaction(w)' => HasTransaction(w),
           \A v \in Workers \ {w} : job'[v] = job[v]
    PROVE  LockDiscipline'
BY DEF LockDiscipline, HasTransaction

\* A task that ends may release its own lock and nobody else's.
LEMMA LocksReleased ==
    ASSUME Typed, LockDiscipline, NEW w \in Workers, job[w].pc # "idle",
           \/ lock' = lock
           \/ /\ lock[job[w].submission] = w
              /\ lock' = [lock EXCEPT ![job[w].submission] = None],
           req' = req,
           ~HasTransaction(w)',
           \A v \in Workers \ {w} : job'[v] = job[v]
    PROVE  LockDiscipline'
<1> USE DEF LockDiscipline, HasTransaction, Typed, TypeOK
<1>1. CASE lock' = lock
  BY <1>1
<1>2. CASE /\ lock[job[w].submission] = w
           /\ lock' = [lock EXCEPT ![job[w].submission] = None]
  <2>1. \A v \in Workers \ {w} : HasTransaction(v)
          => job[v].submission \in Submissions \ {job[w].submission}
    BY <1>2 DEF ClaimedPC
  <2>2. \A c \in Clients : req[c].kind = "retry" /\ req[c].pc \in {"flushed", "enqueued"}
          => req[c].submission \in Submissions \ {job[w].submission}
    BY <1>2, PipelineAssumption
  <2> QED
    BY <1>2, <2>1, <2>2
<1> QED
  BY <1>1, <1>2

LEMMA WorkerLocks ==
    ASSUME Typed, LockDiscipline, NEW w \in Workers, WorkerStep(w) \/ SigningFails(w)
    PROVE  LockDiscipline'
<1> USE DEF Typed, TypeOK, HasTransaction
<1> {"validate", "submit", "filed", "failing", "sign", "done"} \subseteq JobPC
  BY DEF JobPC, ClaimedPC
<1> /\ {"validate", "submit", "filed", "failing", "sign"} = ClaimedPC
    /\ "done" \notin ClaimedPC /\ "idle" \notin ClaimedPC /\ "claim" \notin ClaimedPC
  BY DEF ClaimedPC
<1>1. CASE Claim(w)
  <2> DEFINE s == job[w].submission
  <2>1. /\ s \in Submissions /\ lock[s] = None /\ lock' = [lock EXCEPT ![s] = w] /\ req' = req
        /\ job'[w].submission = s /\ \A v \in Workers \ {w} : job'[v] = job[v]
    BY <1>1, JobMoves DEF Claim
  <2>2. \A v \in Workers : HasTransaction(v) => job[v].submission \in Submissions \ {s}
    BY <2>1, PipelineAssumption DEF LockDiscipline
  <2>3. \A c \in Clients : req[c].kind = "retry" /\ req[c].pc \in {"flushed", "enqueued"}
          => req[c].submission \in Submissions \ {s}
    BY <2>1, PipelineAssumption DEF LockDiscipline
  <2> HIDE DEF s
  <2> QED
    BY <2>1, <2>2, <2>3 DEF LockDiscipline
<1>2. CASE NotClaimable(w)
  BY <1>2, JobMoves, LocksKept DEF NotClaimable
<1>3. CASE Validate(w)
  <2>1. /\ job[w].pc \in ClaimedPC /\ job'[w].submission = job[w].submission
        /\ job'[w].lost = job[w].lost /\ \A v \in Workers \ {w} : job'[v] = job[v]
    BY <1>3 DEF Validate, Job
  <2> QED
    BY <1>3, <2>1, LocksKept DEF Validate
<1>4. CASE SubmitFiles(w)
  BY <1>4, JobMoves, LocksKept DEF SubmitFiles
<1>5. CASE ConfirmationCaptured(w)
  BY <1>5, JobMoves, LocksKept DEF ConfirmationCaptured
<1>6. ASSUME NEW e \in PortalErrors, SubmitFails(w, e) \/ ConfirmationFails(w, e)
      PROVE  LockDiscipline'
  <2>1. /\ job[w].pc \in ClaimedPC /\ job'[w].submission = job[w].submission
        /\ job'[w].lost = job[w].lost /\ \A v \in Workers \ {w} : job'[v] = job[v]
    BY <1>6 DEF SubmitFails, ConfirmationFails, Job
  <2> QED
    BY <1>6, <2>1, LocksKept DEF SubmitFails, ConfirmationFails
<1>7. CASE \/ RecordFailure(w) \/ SignAndComplete(w) \/ SigningFails(w) \/ DuplicateReceipt(w)
  <2>1. /\ HasTransaction(w) /\ req' = req
        /\ lock' = [lock EXCEPT ![job[w].submission] = None]
        /\ job' = [job EXCEPT ![w].pc = "done"]
    BY <1>7 DEF RecordFailure, SignAndComplete, SigningFails, DuplicateReceipt, Settle
  <2>2. job'[w].pc = "done" /\ \A v \in Workers \ {w} : job'[v] = job[v]
    BY <2>1, JobMoves
  <2>3. lock[job[w].submission] = w
    BY <2>1 DEF LockDiscipline
  <2> QED
    BY <2>1, <2>2, <2>3, LocksReleased
<1>8. CASE LossNoticed(w)
  BY <1>8, JobMoves, LocksKept DEF LossNoticed
<1>9. CASE Acknowledge(w)
  BY <1>9, LocksReleased DEF Acknowledge, NoJob
<1> QED
  BY <1>1, <1>2, <1>3, <1>4, <1>5, <1>6, <1>7, <1>8, <1>9 DEF WorkerStep

LEMMA BrokerLocks ==
    ASSUME Typed, LockDiscipline, NEW w \in Workers,
           \/ Delivery(w) \/ ClaimTimesOut(w) \/ ConnectFails(w)
           \/ ConnectionLost(w) \/ WorkerCrash(w) \/ Redeliver(w)
    PROVE  LockDiscipline'
<1> USE DEF Typed, TypeOK, HasTransaction
<1> "done" \in JobPC
  BY DEF JobPC
<1> /\ {"validate", "failing", "sign"} \subseteq ClaimedPC
    /\ "done" \notin ClaimedPC /\ "idle" \notin ClaimedPC /\ "claim" \notin ClaimedPC
  BY DEF ClaimedPC
<1>1. CASE Delivery(w)
  BY <1>1 DEF Delivery, Deliver, LockDiscipline
<1>2. CASE ClaimTimesOut(w) \/ ConnectFails(w)
  <2>1. job' = [job EXCEPT ![w].pc = "done"] /\ UNCHANGED <<lock, req>>
    BY <1>2 DEF ClaimTimesOut, ConnectFails
  <2> QED
    BY <2>1, JobMoves, LocksKept
<1>3. CASE ConnectionLost(w)
  <2>1. /\ HasTransaction(w) /\ req' = req
        /\ lock' = [lock EXCEPT ![job[w].submission] = None]
        /\ job' = [job EXCEPT ![w].lost = TRUE]
    BY <1>3 DEF ConnectionLost
  <2>2. job'[w].lost /\ \A v \in Workers \ {w} : job'[v] = job[v]
    BY <2>1, JobLoses
  <2>3. lock[job[w].submission] = w
    BY <2>1 DEF LockDiscipline
  <2> QED
    BY <2>1, <2>2, <2>3, LocksReleased
<1>4. CASE WorkerCrash(w)
  BY <1>4, LocksReleased DEF WorkerCrash, NoJob
<1>5. CASE Redeliver(w)
  BY <1>5 DEF Redeliver, LockDiscipline
<1> QED
  BY <1>1, <1>2, <1>3, <1>4, <1>5

LEMMA StepLocks == Typed /\ LockDiscipline /\ [Next]_vars => LockDiscipline'
<1> SUFFICES ASSUME Typed, LockDiscipline, [Next]_vars PROVE LockDiscipline'
  OBVIOUS
<1>1. CASE UNCHANGED vars
  BY <1>1 DEF vars, LockDiscipline, HasTransaction
<1>2. CASE Next
  BY <1>2, RequestLocks, ProducerLocks, WorkerLocks, BrokerLocks DEF Next
<1> QED
  BY <1>1, <1>2

\* ExclusiveRun: the conditional UPDATE of _claim_submission and the row lock
\* it holds until the outcome is committed keep any two executions, and an
\* execution and a retry request, of one submission apart.
THEOREM ExecutionsAreExclusive == Spec => []ExclusiveRun
<1>1. Init => Typed /\ LockDiscipline
  BY InitTyped DEF Init, LockDiscipline, HasTransaction, NoJob, NoRequest, ClaimedPC
<1>2. Typed /\ LockDiscipline /\ [Next]_vars => (Typed /\ LockDiscipline)'
  BY StepTyped, StepLocks
<1>3. Typed /\ LockDiscipline => ExclusiveRun
  BY PipelineAssumption DEF LockDiscipline, ExclusiveRun
<1> QED
  BY <1>1, <1>2, <1>3, PTL DEF Spec

-----------------------------------------------------------------------------
(* Receipts and filings *)

Receipts == UniqueReceipt /\ ReceiptBacked /\ Evidence /\ Entitled

\* Steps of requests and producers leave tasks, receipts, filings and
\* attempt counts alone and never take a consent record away.
LEMMA RequestFrame ==
    ASSUME Typed, NEW c \in Clients, RequestStep(c) \/ RequestFails(c)
    PROVE  /\ UNCHANGED <<standing, receipts, job, filings>>
           /\ \A s \in Submissions : row'[s].attempt_count = row[s].attempt_count
<1> USE DEF Typed, TypeOK
<1>1. CASE Commit(c)
  <2>1. {"queued", "retrying"} \subseteq RowStatus
    BY DEF RowStatus, SubmissionStatus
  <2> QED
    BY <1>1, <2>1, RowMoves DEF Commit
<1>2. CASE RetryFlush(c) \/ Enqueue(c) \/ RequestFails(c)
  BY <1>2 DEF RetryFlush, Enqueue, RequestFails
<1> QED
  BY <1>1, <1>2 DEF RequestStep

LEMMA ProducerFrame ==
    ASSUME Typed, NEW s \in Submissions,
           \/ \E c \in Clients : CreateFlush(c, s) \/ RetryRead(c, s)
           \/ RunFirstSubmission(s) \/ DraftFromInbound(s) \/ StandingChanges(s)
    PROVE  /\ UNCHANGED <<receipts, job, filings>>
           /\ \A u \in Submissions : row'[u].attempt_count = row[u].attempt_count
           /\ \A u \in Submissions : standing'[u] = "none" => standing[u] = "none"
<1> USE DEF Typed, TypeOK
<1> {"void", "queued", "blocked"} \subseteq RowStatus
  BY DEF RowStatus, SubmissionStatus
<1>1. ASSUME NEW c \in Clients, CreateFlush(c, s)
      PROVE  /\ UNCHANGED <<receipts, job, filings>>
             /\ \A u \in Submissions : row'[u].attempt_count = row[u].attempt_count
             /\ \A u \in Submissions : standing'[u] = "none" => standing[u] = "none"
  BY <1>1, RowMoves DEF CreateFlush
<1>2. CASE \E c \in Clients : RetryRead(c, s)
  BY <1>2 DEF RetryRead
<1>3. CASE RunFirstSubmission(s)
  BY <1>3, RowMoves DEF RunFirstSubmission
<1>4. CASE DraftFromInbound(s)
  BY <1>4, RowMoves DEF DraftFromInbound
<1>5. CASE StandingChanges(s)
  BY <1>5 DEF StandingChanges
<1> QED
  BY <1>1, <1>2, <1>3, <1>4, <1>5

\* Receipts survives every step that issues no receipt, files nothing, never
\* lowers an attempt count and brings no task to a later stage.
LEMMA ReceiptsFrame ==
    ASSUME Typed, Receipts, Typed',
           UNCHANGED <<receipts, filings>>,
           \A s \in Submissions : row'[s].attempt_count >= row[s].attempt_count,
           \A s \in Submissions : standing'[s] = "none" => standing[s] = "none",
           \A w \in Workers :
             job'[w].pc \in {"submit", "filed", "sign"}
             => /\ job'[w].submission = job[w].submission
                /\ \/ job'[w].pc = job[w].pc
                   \/ job[w].pc = "filed"
                   \/ job'[w].pc = "submit" /\ standing[job[w].submission] # "none"
    PROVE  Receipts'
<1> USE DEF Receipts, Typed
<1>1. UniqueReceipt'
  BY DEF UniqueReceipt
<1>2. ReceiptBacked'
  <2> SUFFICES ASSUME NEW r \in receipts
               PROVE  /\ filings[r.submission] > 0
                      /\ r.attempt \in 1..row'[r.submission].attempt_count
    BY DEF ReceiptBacked
  <2>1. r.submission \in Submissions
    BY DEF TypeOK, Receipt
  <2>2. row'[r.submission].attempt_count \in Nat /\ row[r.submission].attempt_count \in Nat
    BY <2>1 DEF TypeOK, Row
  <2>3. /\ filings[r.submission] > 0
        /\ r.attempt \in 1..row[r.submission].attempt_count
        /\ row'[r.submission].attempt_count >= row[r.submission].attempt_count
    BY <2>1 DEF ReceiptBacked
  <2> QED
    BY <2>2, <2>3
<1>3. Evidence'
  BY DEF Evidence
<1>4. Entitled'
  BY DEF Entitled, Evidence
<1> QED
  BY <1>1, <1>2, <1>3, <1>4

\* A step of the submitter, the signer or the broker.
LEMMA WorkerReceipts ==
    ASSUME Typed, Receipts, Typed', NEW w \in Workers, WorkerStep(w) \/ SigningFails(w)
    PROVE  Receipts'
<1> USE DEF Typed, TypeOK
<1> {"validate", "submit", "filed", "failing", "sign", "done"} \subseteq JobPC
  BY DEF JobPC, ClaimedPC
<1>1. \A s \in Submissions : row[s].attempt_count \in Nat
  BY Fields
<1>2. CASE Claim(w)
  BY <1>2, <1>1, JobMoves, ReceiptsFrame DEF Claim
<1>3. CASE NotClaimable(w)
  BY <1>3, <1>1, JobMoves, ReceiptsFrame DEF NotClaimable
<1>4. CASE Validate(w)
  <2>1. /\ job'[w].submission = job[w].submission
        /\ job'[w].pc = IF standing[job[w].submission] = "ok" THEN "submit" ELSE "failing"
        /\ \A v \in Workers \ {w} : job'[v] = job[v]
    BY <1>4 DEF Validate, Job
  <2> QED
    BY <1>4, <1>1, <2>1, ReceiptsFrame DEF Validate
<1>5. CASE SubmitFiles(w)
  <2> DEFINE s == job[w].submission
  <2>1. /\ s \in Submissions /\ job[w].pc = "submit" /\ filings' = [filings EXCEPT ![s] = @ + 1]
        /\ job'[w].pc = "filed" /\ job'[w].submission = s
        /\ \A v \in Workers \ {w} : job'[v] = job[v]
        /\ UNCHANGED <<row, standing, receipts>>
    BY <1>5, JobMoves DEF SubmitFiles
  <2>2. filings'[s] > 0 /\ \A u \in Submissions \ {s} : filings'[u] = filings[u]
    BY <2>1
  <2>3. standing[s] # "none"
    BY <2>1 DEF Receipts, Entitled
  <2>4. \A r \in receipts : r.submission \in Submissions
    BY DEF Receipt
  <2>5. UniqueReceipt'
    BY <2>1 DEF Receipts, UniqueReceipt
  <2>6. ReceiptBacked'
    BY <2>1, <2>2, <2>4 DEF Receipts, ReceiptBacked
  <2>7. Evidence'
    BY <2>1, <2>2 DEF Receipts, Evidence
  <2>8. Entitled'
    BY <2>1, <2>2, <2>3 DEF Receipts, Entitled
  <2> QED
    BY <2>5, <2>6, <2>7, <2>8 DEF Receipts
<1>6. CASE ConfirmationCaptured(w)
  BY <1>6, <1>1, JobMoves, ReceiptsFrame DEF ConfirmationCaptured
<1>7. ASSUME NEW e \in PortalErrors, SubmitFails(w, e) \/ ConfirmationFails(w, e)
      PROVE  Receipts'
  <2>1. job'[w].pc = "failing" /\ \A v \in Workers \ {w} : job'[v] = job[v]
    BY <1>7 DEF SubmitFails, ConfirmationFails, Job
  <2> QED
    BY <1>7, <1>1, <2>1, ReceiptsFrame DEF SubmitFails, ConfirmationFails
<1>8. CASE RecordFailure(w) \/ SigningFails(w)
  <2>1. PICK st \in SubmissionStatus, n \in Nat : Settle(w, st, n)
    <3>1. job[w].submission \in Submissions
      BY <1>8 DEF RecordFailure, SigningFails
    <3> DEFINE k == Attempt(job[w].submission)
               c == Classify(job[w].error, k)
    <3>2. k \in Nat
      BY <1>1, <3>1 DEF Attempt
    <3>3. c \in SubmissionStatus /\ "failed" \in SubmissionStatus
      BY <3>2, ClassifyType DEF SubmissionStatus
    <3>4. CASE RecordFailure(w)
      <4>1. Settle(w, c, IF c = "retrying" THEN 0 ELSE k)
        BY <3>4 DEF RecordFailure
      <4> HIDE DEF c, k
      <4> QED
        BY <3>2, <3>3, <4>1
    <3>5. CASE SigningFails(w)
      <4>1. Settle(w, "failed", k)
        BY <3>5 DEF SigningFails
      <4> HIDE DEF c, k
      <4> QED
        BY <3>2, <3>3, <4>1
    <3> QED
      BY <1>8, <3>4, <3>5
  <2>2. /\ UNCHANGED <<standing, receipts, filings>>
        /\ job[w].pc # "idle"
    BY <1>8 DEF RecordFailure, SigningFails
  <2> QED
    BY <1>1, <2>1, <2>2, Settles, ReceiptsFrame
<1>9. CASE SignAndComplete(w)
  <2> DEFINE s == job[w].submission
             new == SignedReceipt(s)
  <2>1. /\ s \in Submissions /\ job[w].pc = "sign" /\ ~HasReceipt(s)
        /\ receipts' = receipts \cup {new} /\ Settle(w, "completed", Attempt(s))
        /\ UNCHANGED <<standing, filings>>
    BY <1>9 DEF SignAndComplete
  <2>2. Attempt(s) \in Nat /\ "completed" \in SubmissionStatus
    BY <1>1, <2>1 DEF Attempt, SubmissionStatus
  <2>3. /\ row'[s].attempt_count = row[s].attempt_count + 1
        /\ \A u \in Submissions \ {s} : row'[u] = row[u]
        /\ job'[w].pc = "done"
        /\ \A v \in Workers \ {w} : job'[v] = job[v]
    BY <2>1, <2>2, Settles
  <2>4. filings[s] > 0
    BY <2>1 DEF Receipts, Evidence
  <2>5. \A r \in receipts : r.submission \in Submissions /\ r.submission # s
    BY <2>1 DEF HasReceipt, Receipt
  <2>6. new.submission = s /\ new.attempt = row[s].attempt_count + 1
    BY DEF Attempt, SignedReceipt
  <2> HIDE DEF new
  <2>7. UniqueReceipt'
    BY <2>1, <2>5, <2>6 DEF Receipts, UniqueReceipt
  <2>8. ReceiptBacked'
    BY <1>1, <2>1, <2>3, <2>4, <2>5, <2>6 DEF Receipts, ReceiptBacked
  <2>9. Evidence'
    BY <2>1, <2>3 DEF Receipts, Evidence
  <2>10. Entitled'
    BY <2>1, <2>3 DEF Receipts, Entitled
  <2> QED
    BY <2>7, <2>8, <2>9, <2>10 DEF Receipts
<1>10. CASE DuplicateReceipt(w)
  BY <1>10, <1>1, JobMoves, ReceiptsFrame DEF DuplicateReceipt
<1>11. CASE LossNoticed(w)
  BY <1>11, <1>1, JobMoves, ReceiptsFrame DEF LossNoticed
<1>12. CASE Acknowledge(w)
  BY <1>12, <1>1, ReceiptsFrame DEF Acknowledge, NoJob
<1> QED
  BY <1>2, <1>3, <1>4, <1>5, <1>6, <1>7, <1>8, <1>9, <1>10, <1>11, <1>12 DEF WorkerStep

LEMMA BrokerReceipts ==
    ASSUME Typed, Receipts, Typed', NEW w \in Workers,
           \/ Delivery(w) \/ ClaimTimesOut(w) \/ ConnectFails(w)
           \/ ConnectionLost(w) \/ WorkerCrash(w) \/ Redeliver(w)
    PROVE  Receipts'
<1> USE DEF Typed, TypeOK
<1>1. \A s \in Submissions : row[s].attempt_count \in Nat
  BY Fields
<1>2. "done" \in JobPC
  BY DEF JobPC
<1>3. UNCHANGED <<row, standing, receipts, filings>>
  BY DEF Delivery, Deliver, ClaimTimesOut, ConnectFails, ConnectionLost, WorkerCrash, Redeliver
<1>4. \A v \in Workers : job'[v].pc \in {"submit", "filed", "sign"} =>
        job'[v].pc = job[v].pc /\ job'[v].submission = job[v].submission
  <2>1. CASE Delivery(w) \/ WorkerCrash(w) \/ Redeliver(w)
    <3>1. CASE Redeliver(w)
      BY <3>1 DEF Redeliver
    <3>2. CASE WorkerCrash(w)
      BY <3>2 DEF WorkerCrash, NoJob
    <3>3. ASSUME NEW s \in Submissions, NEW n \in 0..MAX_RETRIES, Deliver(w, s, n),
                 NEW v \in Workers, job'[v].pc \in {"submit", "filed", "sign"}
          PROVE  job'[v].pc = job[v].pc /\ job'[v].submission = job[v].submission
      BY <3>3 DEF Deliver
    <3> QED
      BY <2>1, <3>1, <3>2, <3>3 DEF Delivery
  <2>2. CASE ClaimTimesOut(w) \/ ConnectFails(w)
    <3>1. job' = [job EXCEPT ![w].pc = "done"]
      BY <2>2 DEF ClaimTimesOut, ConnectFails
    <3> QED
      BY <1>2, <3>1, JobMoves
  <2>3. CASE ConnectionLost(w)
    <3>1. job' = [job EXCEPT ![w].lost = TRUE]
      BY <2>3 DEF ConnectionLost
    <3> QED
      BY <3>1, JobLoses
  <2> QED
    BY <2>1, <2>2, <2>3
<1> QED
  BY <1>1, <1>3, <1>4, ReceiptsFrame

LEMMA StepReceipts == Typed /\ Receipts /\ [Next]_vars => Receipts'
<1> SUFFICES ASSUME Typed, Receipts, [Next]_vars PROVE Receipts'
  OBVIOUS
<1>1. Typed'
  BY StepTyped
<1>2. \A s \in Submissions : row[s].attempt_count \in Nat
  BY Fields
<1>3. CASE UNCHANGED vars
  BY <1>3, <1>1, <1>2, ReceiptsFrame DEF vars
<1>4. ASSUME NEW c \in Clients, RequestStep(c) \/ RequestFails(c) PROVE Receipts'
  BY <1>4, <1>1, <1>2, RequestFrame, ReceiptsFrame
<1>5. ASSUME NEW s \in Submissions,
             \/ \E c \in Clients : CreateFlush(c, s) \/ RetryRead(c, s)
             \/ RunFirstSubmission(s) \/ DraftFromInbound(s) \/ StandingChanges(s)
      PROVE  Receipts'
  BY <1>5, <1>1, <1>2, ProducerFrame, ReceiptsFrame
<1> QED
  BY <1>1, <1>3, <1>4, <1>5, WorkerReceipts, BrokerReceipts DEF Next

LEMMA ReceiptsInvariant == Spec => [](Typed /\ Receipts)
<1>1. Init => Typed /\ Receipts
  BY InitTyped DEF Init, Receipts, UniqueReceipt, ReceiptBacked, Evidence, Entitled, NoJob
<1>2. Typed /\ Receipts /\ [Next]_vars => (Typed /\ Receipts)'
  BY StepTyped, StepReceipts
<1> QED
  BY <1>1, <1>2, PTL DEF Spec

\* UniqueReceipt: whatever crashes, redeliveries and retries happen, a
\* submission has at most one receipt (SubmissionReceipt, DuplicateReceipt).
THEOREM ReceiptsAreUnique == Spec => []UniqueReceipt
<1>1. Receipts => UniqueReceipt
  BY DEF Receipts
<1> QED
  BY <1>1, ReceiptsInvariant, PTL

\* ReceiptBacked: a receipt names an attempt the row counted, of a form the
\* portal took (process_submission).
THEOREM ReceiptsAreEvidence == Spec => []ReceiptBacked
<1>1. Receipts => ReceiptBacked
  BY DEF Receipts
<1> QED
  BY <1>1, ReceiptsInvariant, PTL

\* DraftsNeverFile: a row without a consent record is never filed
\* (_validate_consent runs in every attempt, before the dispatch).
THEOREM DraftsAreNeverFiled == Spec => []DraftsNeverFile
<1>1. Typed /\ Receipts => DraftsNeverFile
  <2> SUFFICES ASSUME Typed, Receipts, NEW s \in Submissions, standing[s] = "none"
               PROVE  filings[s] = 0 /\ ~HasReceipt(s)
    BY DEF DraftsNeverFile
  <2>1. filings[s] = 0
    BY DEF Receipts, Entitled
  <2>2. ~HasReceipt(s)
    BY <2>1 DEF Receipts, ReceiptBacked, HasReceipt
  <2> QED
    BY <2>1, <2>2
<1> QED
  BY <1>1, ReceiptsInvariant, PTL

-----------------------------------------------------------------------------
(* The lifecycle *)

\* What makes each commit a step of the lifecycle: a task that has its
\* transaction works on a claimable row, an insert is of a row that nobody sees
\* and no other request inserts, and the row of a retry exists.
Committable ==
    /\ \A w \in Workers : HasTransaction(w) => row[job[w].submission].status \in Claimable
    /\ \A c \in Clients : req[c].pc # "idle" =>
         row[req[c].submission].status \in IF req[c].kind = "create" THEN {"void"} ELSE SubmissionStatus
    /\ \A c, d \in Clients :
         /\ req[c].pc # "idle" /\ req[c].kind = "create"
         /\ req[d].pc # "idle" /\ req[d].submission = req[c].submission
         => c = d

LifecycleInv == Typed /\ LockDiscipline /\ Committable

\* Steps that leave the table alone, and move tasks and requests to where they
\* were or to a place that promises nothing.
LEMMA CommittableFrame ==
    ASSUME Committable, row' = row,
           \A w \in Workers : HasTransaction(w)' =>
             HasTransaction(w) /\ job'[w].submission = job[w].submission,
           \A c \in Clients : req'[c].pc # "idle" =>
             /\ req[c].pc # "idle" /\ req'[c].kind = req[c].kind
             /\ req'[c].submission = req[c].submission
    PROVE  Committable'
BY DEF Committable

\* A row that is there takes another status of the enumeration, and keeps the
\* tasks that work on it content.
LEMMA CommittableMoves ==
    ASSUME LifecycleInv, NEW s \in Submissions, row[s].status \in SubmissionStatus \cup {"absent"},
           row'[s].status \in SubmissionStatus,
           \A u \in Submissions \ {s} : row'[u] = row[u],
           \A w \in Workers : HasTransaction(w)' =>
             /\ HasTransaction(w) /\ job'[w].submission = job[w].submission
             /\ job[w].submission = s => row'[s].status \in Claimable,
           \A c \in Clients : req'[c].pc # "idle" => req'[c] = req[c]
    PROVE  Committable'
<1>1. \A w \in Workers : HasTransaction(w) => job[w].submission \in Submissions
  BY DEF LifecycleInv, Typed, HasTransaction, ClaimedPC
<1>2. \A c \in Clients : req[c].pc # "idle" => req[c].submission \in Submissions
  BY DEF LifecycleInv, Typed
<1>3. "void" \notin SubmissionStatus \cup {"absent"}
  BY DEF SubmissionStatus
<1>4. \A w \in Workers : HasTransaction(w)' => row'[job'[w].submission].status \in Claimable
  BY <1>1 DEF LifecycleInv, Committable
<1>5. ASSUME NEW c \in Clients, req'[c].pc # "idle"
      PROVE  row'[req'[c].submission].status \in
               IF req'[c].kind = "create" THEN {"void"} ELSE SubmissionStatus
  <2>1. /\ req'[c] = req[c] /\ req[c].pc # "idle" /\ req[c].submission \in Submissions
        /\ row[req[c].submission].status \in
             IF req[c].kind = "create" THEN {"void"} ELSE SubmissionStatus
    BY <1>2, <1>5 DEF LifecycleInv, Committable
  <2>2. CASE req[c].submission = s
    BY <1>3, <2>1, <2>2
  <2>3. CASE req[c].submission # s
    BY <2>1, <2>3
  <2> QED
    BY <2>2, <2>3
<1>6. \A c, d \in Clients :
        /\ req'[c].pc # "idle" /\ req'[c].kind = "create"
        /\ req'[d].pc # "idle" /\ req'[d].submission = req'[c].submission
        => c = d
  BY DEF LifecycleInv, Committable
<1> QED
  BY <1>4, <1>5, <1>6 DEF Committable

\* A step of the API.
LEMMA RequestCommittable ==
    ASSUME LifecycleInv, NEW c \in Clients, RequestStep(c) \/ RequestFails(c)
    PROVE  Committable'
<1> USE DEF LifecycleInv
<1>1. req \in [Clients -> Request] /\ row \in [Submissions -> Row]
  BY DEF Typed, TypeOK
<1>2. CASE RetryFlush(c) \/ Enqueue(c)
  <2>1. row' = row /\ job' = job /\ req[c].pc # "idle"
    BY <1>2 DEF RetryFlush, Enqueue
  <2>2. PICK p \in RequestPC : req' = [req EXCEPT ![c].pc = p]
    BY <1>2 DEF RetryFlush, Enqueue, RequestPC
  <2>3. /\ req'[c].kind = req[c].kind /\ req'[c].submission = req[c].submission
        /\ \A d \in Clients \ {c} : req'[d] = req[d]
    BY <1>1, <2>2, RequestMoves
  <2>4. \A w \in Workers : HasTransaction(w)' => HasTransaction(w)
    BY <2>1 DEF HasTransaction
  <2> QED
    BY <2>1, <2>3, <2>4, CommittableFrame
<1>3. CASE RequestFails(c)
  <2>1. \A w \in Workers : HasTransaction(w)' => HasTransaction(w)
    BY <1>3 DEF RequestFails, HasTransaction
  <2> QED
    BY <1>1, <1>3, <2>1, CommittableFrame DEF RequestFails, NoRequest
<1>4. CASE Commit(c)
  <2> DEFINE s == req[c].submission
             st == IF req[c].kind = "create" THEN "queued" ELSE "retrying"
  <2>1. /\ row' = [row EXCEPT ![s].status = st] /\ job' = job
        /\ req' = [req EXCEPT ![c] = NoRequest] /\ req[c].pc = "enqueued"
    BY <1>4 DEF Commit
  <2>2. st \in RowStatus /\ st \in Claimable /\ st \in SubmissionStatus /\ s \in Submissions
    BY <2>1 DEF RowStatus, SubmissionStatus, Claimable, Typed
  <2>3. row[s].status \in IF req[c].kind = "create" THEN {"void"} ELSE SubmissionStatus
    BY <2>1 DEF Committable
  <2>4. \A d \in Clients : d # c /\ req[c].kind = "create" /\ req[d].pc # "idle" => req[d].submission # s
    BY <2>1 DEF Committable
  <2> HIDE DEF st, s
  <2>5. row'[s].status = st /\ \A u \in Submissions \ {s} : row'[u] = row[u]
    BY <1>1, <2>1, <2>2, RowMoves
  <2>6. \A d \in Clients : req'[d].pc # "idle" => d # c /\ req'[d] = req[d]
    BY <1>1, <2>1 DEF NoRequest
  <2>7. \A w \in Workers : HasTransaction(w)' <=> HasTransaction(w)
    BY <2>1 DEF HasTransaction
  <2>8. \A w \in Workers : HasTransaction(w) => job[w].submission \in Submissions
    BY DEF Typed, HasTransaction, ClaimedPC
  <2>9. \A w \in Workers : HasTransaction(w)' => row'[job'[w].submission].status \in Claimable
    BY <2>1, <2>2, <2>5, <2>7, <2>8 DEF Committable
  <2>10. ASSUME NEW d \in Clients, req'[d].pc # "idle"
         PROVE  row'[req'[d].submission].status \in
                  IF req'[d].kind = "create" THEN {"void"} ELSE SubmissionStatus
    <3>1. /\ d # c /\ req'[d] = req[d] /\ req[d].pc # "idle" /\ req[d].submission \in Submissions
          /\ row[req[d].submission].status \in
               IF req[d].kind = "create" THEN {"void"} ELSE SubmissionStatus
      BY <2>6, <2>10 DEF Typed, Committable
    <3>2. CASE req[d].submission # s
      BY <2>5, <3>1, <3>2
    <3>3. CASE req[d].submission = s
      <4>1. req[c].kind # "create"
        BY <2>4, <3>1, <3>3
      <4>2. row[s].status \in SubmissionStatus /\ "void" \notin SubmissionStatus
        BY <2>3, <4>1 DEF SubmissionStatus
      <4>3. req[d].kind # "create"
        BY <3>1, <3>3, <4>2
      <4> QED
        BY <2>2, <2>5, <3>1, <3>3, <4>3
    <3> QED
      BY <3>2, <3>3
  <2>11. \A d, e \in Clients :
           /\ req'[d].pc # "idle" /\ req'[d].kind = "create"
           /\ req'[e].pc # "idle" /\ req'[e].submission = req'[d].submission
           => d = e
    BY <2>6 DEF Committable
  <2> QED
    BY <2>9, <2>10, <2>11 DEF Committable
<1> QED
  BY <1>2, <1>3, <1>4 DEF RequestStep

\* A request begins, or a row appears.
LEMMA ProducerCommittable ==
    ASSUME LifecycleInv, NEW s \in Submissions,
           \/ \E c \in Clients : CreateFlush(c, s) \/ RetryRead(c, s)
           \/ RunFirstSubmission(s) \/ DraftFromInbound(s) \/ StandingChanges(s)
    PROVE  Committable'
<1> USE DEF LifecycleInv
<1>1. req \in [Clients -> Request] /\ row \in [Submissions -> Row]
  BY DEF Typed, TypeOK
<1>2. \A w \in Workers : HasTransaction(w) => job[w].submission \in Submissions
  BY DEF Typed, HasTransaction, ClaimedPC
<1>3. \A c \in Clients : req[c].pc # "idle" => req[c].submission \in Submissions
  BY DEF Typed
<1>4. ASSUME row[s].status = "absent"
      PROVE  /\ \A w \in Workers : HasTransaction(w) => job[w].submission # s
             /\ \A c \in Clients : req[c].pc # "idle" => req[c].submission # s
  BY <1>4 DEF Committable, Claimable, SubmissionStatus
<1>5. ASSUME NEW c \in Clients, CreateFlush(c, s) PROVE Committable'
  <2> DEFINE q == [pc |-> "flushed", kind |-> "create", submission |-> s]
  <2>1. /\ row[s].status = "absent" /\ row' = [row EXCEPT ![s].status = "void"] /\ job' = job
        /\ req' = [req EXCEPT ![c] = q]
    BY <1>5 DEF CreateFlush
  <2>2. /\ req'[c].kind = "create" /\ req'[c].submission = s
        /\ \A d \in Clients \ {c} : req'[d] = req[d]
    BY <1>1, <2>1
  <2>3. "void" \in RowStatus
    BY DEF RowStatus
  <2>4. row'[s].status = "void" /\ \A u \in Submissions \ {s} : row'[u] = row[u]
    BY <1>1, <2>1, <2>3, RowMoves
  <2>5. \A w \in Workers : HasTransaction(w)' <=> HasTransaction(w)
    BY <2>1 DEF HasTransaction
  <2>6. \A w \in Workers : HasTransaction(w)' => row'[job'[w].submission].status \in Claimable
    BY <1>2, <1>4, <2>1, <2>4, <2>5 DEF Committable
  <2>7. \A d \in Clients : req'[d].pc # "idle" => d = c \/ (req'[d] = req[d] /\ req[d].submission \in Submissions \ {s})
    BY <1>3, <1>4, <2>1, <2>2
  <2>8. \A d \in Clients : req'[d].pc # "idle" =>
          row'[req'[d].submission].status \in
            IF req'[d].kind = "create" THEN {"void"} ELSE SubmissionStatus
    BY <2>2, <2>4, <2>7 DEF Committable
  <2>9. \A d, e \in Clients :
          /\ req'[d].pc # "idle" /\ req'[d].kind = "create"
          /\ req'[e].pc # "idle" /\ req'[e].submission = req'[d].submission
          => d = e
    BY <2>2, <2>7 DEF Committable
  <2> QED
    BY <2>6, <2>8, <2>9 DEF Committable
<1>6. ASSUME NEW c \in Clients, RetryRead(c, s) PROVE Committable'
  <2> DEFINE q == [pc |-> "read", kind |-> "retry", submission |-> s]
  <2>1. /\ row[s].status \in RETRYABLE_STATUSES /\ row' = row /\ job' = job
        /\ req' = [req EXCEPT ![c] = q]
    BY <1>6 DEF RetryRead
  <2>2. /\ req'[c].kind = "retry" /\ req'[c].submission = s
        /\ \A d \in Clients \ {c} : req'[d] = req[d]
    BY <1>1, <2>1
  <2>3. row[s].status \in SubmissionStatus /\ row[s].status # "void"
    BY <2>1 DEF RETRYABLE_STATUSES, SubmissionStatus
  <2>4. \A w \in Workers : HasTransaction(w)' <=> HasTransaction(w)
    BY <2>1 DEF HasTransaction
  <2>5. \A d \in Clients : req[d].pc # "idle" /\ req[d].kind = "create" => req[d].submission # s
    BY <2>3 DEF Committable
  <2>6. \A d, e \in Clients :
          /\ req'[d].pc # "idle" /\ req'[d].kind = "create"
          /\ req'[e].pc # "idle" /\ req'[e].submission = req'[d].submission
          => d = e
    BY <2>2, <2>5 DEF Committable
  <2>7. \A d \in Clients : req'[d].pc # "idle" =>
          row'[req'[d].submission].status \in
            IF req'[d].kind = "create" THEN {"void"} ELSE SubmissionStatus
    BY <2>1, <2>2, <2>3 DEF Committable
  <2> QED
    BY <2>1, <2>4, <2>6, <2>7 DEF Committable
<1>7. CASE RunFirstSubmission(s) \/ DraftFromInbound(s)
  <2>1. PICK st \in {"queued", "blocked"} : row' = [row EXCEPT ![s].status = st]
    BY <1>7 DEF RunFirstSubmission, DraftFromInbound
  <2>2. row[s].status = "absent" /\ UNCHANGED <<job, req>>
    BY <1>7 DEF RunFirstSubmission, DraftFromInbound
  <2>3. st \in RowStatus /\ st \in SubmissionStatus
    BY DEF RowStatus, SubmissionStatus
  <2>4. row'[s].status = st /\ \A u \in Submissions \ {s} : row'[u] = row[u]
    BY <1>1, <2>1, <2>3, RowMoves
  <2>5. \A w \in Workers : HasTransaction(w)' <=> HasTransaction(w)
    BY <2>2 DEF HasTransaction
  <2> QED
    BY <1>4, <2>2, <2>3, <2>4, <2>5, CommittableMoves
<1>8. CASE StandingChanges(s)
  <2>1. row' = row /\ UNCHANGED <<job, req>>
    BY <1>8 DEF StandingChanges
  <2>2. \A w \in Workers : HasTransaction(w)' <=> HasTransaction(w)
    BY <2>1 DEF HasTransaction
  <2> QED
    BY <2>1, <2>2, CommittableFrame
<1> QED
  BY <1>5, <1>6, <1>7, <1>8

\* An attempt is settled: its row was claimable, and nobody else has it.
LEMMA SettleCommittable ==
    ASSUME LifecycleInv, NEW w \in Workers, HasTransaction(w), req' = req,
           NEW st \in SubmissionStatus, NEW n \in Nat, Settle(w, st, n)
    PROVE  Committable'
<1> DEFINE s == job[w].submission
<1>1. job[w].pc # "idle" /\ s \in Submissions
  BY DEF LifecycleInv, Typed, HasTransaction, ClaimedPC
<1>2. /\ \A u \in Submissions \ {s} : row'[u] = row[u]
      /\ row'[s].status = st
      /\ job'[w].pc = "done" /\ \A v \in Workers \ {w} : job'[v] = job[v]
  BY <1>1, Settles DEF LifecycleInv
<1>3. row[s].status \in SubmissionStatus
  BY DEF LifecycleInv, Committable, Claimable, SubmissionStatus
<1>4. \A v \in Workers \ {w} : HasTransaction(v) => job[v].submission # s
  BY PipelineAssumption DEF LifecycleInv, LockDiscipline
<1>5. \A v \in Workers : HasTransaction(v)' =>
        v # w /\ HasTransaction(v) /\ job'[v].submission = job[v].submission
  BY <1>2 DEF HasTransaction, ClaimedPC
<1> HIDE DEF s
<1>6. \A v \in Workers : HasTransaction(v)' =>
        /\ HasTransaction(v) /\ job'[v].submission = job[v].submission
        /\ job[v].submission = s => row'[s].status \in Claimable
  BY <1>4, <1>5
<1> QED
  BY <1>1, <1>2, <1>3, <1>6, CommittableMoves

\* The three ways an attempt is settled, each with the status it leaves.
LEMMA SettledSomehow ==
    ASSUME LifecycleInv, NEW w \in Workers, RecordFailure(w) \/ SigningFails(w) \/ SignAndComplete(w)
    PROVE  /\ HasTransaction(w) /\ job[w].submission \in Submissions
           /\ \E st \in SubmissionStatus, n \in Nat :
                /\ Settle(w, st, n)
                /\ \/ /\ st \in {"failed", "blocked", "retrying", "platform_unsupported"}
                      /\ receipts' = receipts
                   \/ /\ st = "completed" /\ ~HasReceipt(job[w].submission)
                      /\ receipts' = receipts \cup {SignedReceipt(job[w].submission)}
<1> DEFINE s == job[w].submission
           status == Classify(job[w].error, Attempt(s))
<1>1. HasTransaction(w)
  BY DEF RecordFailure, SigningFails, SignAndComplete, HasTransaction, ClaimedPC
<1>2. s \in Submissions /\ Attempt(s) \in Nat
  BY <1>1, Fields DEF LifecycleInv, Typed, HasTransaction, ClaimedPC, Attempt
<1>3. {"failed", "blocked", "retrying", "platform_unsupported", "completed"} \subseteq SubmissionStatus
  BY DEF SubmissionStatus
<1>4. status \in {"failed", "blocked", "retrying", "platform_unsupported"}
  BY <1>2, PipelineAssumption DEF Classify
<1> HIDE DEF s, status
<1>5. CASE RecordFailure(w)
  <2>1. Settle(w, status, IF status = "retrying" THEN 0 ELSE Attempt(s)) /\ receipts' = receipts
    BY <1>5 DEF RecordFailure, s, status
  <2> QED
    BY <1>1, <1>2, <1>3, <1>4, <2>1 DEF s
<1>6. CASE SigningFails(w)
  <2>1. Settle(w, "failed", Attempt(s)) /\ receipts' = receipts
    BY <1>6 DEF SigningFails, s
  <2> QED
    BY <1>1, <1>2, <1>3, <2>1 DEF s
<1>7. CASE SignAndComplete(w)
  <2>1. Settle(w, "completed", Attempt(s)) /\ ~HasReceipt(s) /\ receipts' = receipts \cup {SignedReceipt(s)}
    BY <1>7 DEF SignAndComplete, s
  <2> QED
    BY <1>1, <1>2, <1>3, <2>1 DEF s
<1> QED
  BY <1>5, <1>6, <1>7

\* A step of a task, with what becomes of its row.
LEMMA WorkerCommittable ==
    ASSUME LifecycleInv, NEW w \in Workers,
           WorkerStep(w) \/ SigningFails(w) \/ Delivery(w) \/ ClaimTimesOut(w) \/ ConnectFails(w)
             \/ ConnectionLost(w) \/ WorkerCrash(w) \/ Redeliver(w)
    PROVE  Committable'
<1> USE DEF LifecycleInv
<1>1. job \in [Workers -> Job] /\ req' = req
  BY DEF Typed, TypeOK, WorkerStep, SigningFails, Delivery, Deliver, ClaimTimesOut, ConnectFails,
     ConnectionLost, LossNoticed, WorkerCrash, Redeliver, Claim, NotClaimable, Validate, SubmitFails, SubmitFiles,
     ConfirmationFails, ConfirmationCaptured, RecordFailure, SignAndComplete, DuplicateReceipt, Acknowledge
<1>2. {"validate", "submit", "filed", "failing", "sign", "done"} \subseteq JobPC
  BY DEF JobPC, ClaimedPC
<1>3. ASSUME row' = row, HasTransaction(w)' => HasTransaction(w),
             job'[w].submission = job[w].submission \/ ~HasTransaction(w)',
             \A v \in Workers \ {w} : job'[v] = job[v]
      PROVE  Committable'
  <2>1. \A v \in Workers : HasTransaction(v)' => HasTransaction(v) /\ job'[v].submission = job[v].submission
    BY <1>3 DEF HasTransaction
  <2> QED
    BY <1>1, <1>3, <2>1, CommittableFrame
<1>4. CASE Claim(w)
  <2>1. /\ row[job[w].submission].status \in Claimable /\ row' = row
        /\ job' = [job EXCEPT ![w].pc = "validate"]
    BY <1>4 DEF Claim
  <2>2. job'[w].submission = job[w].submission /\ \A v \in Workers \ {w} : job'[v] = job[v]
    BY <1>1, <1>2, <2>1, JobMoves
  <2>3. \A v \in Workers \ {w} : HasTransaction(v)' <=> HasTransaction(v)
    BY <2>2 DEF HasTransaction
  <2>4. \A v \in Workers : HasTransaction(v)' => row'[job'[v].submission].status \in Claimable
    BY <2>1, <2>2, <2>3 DEF Committable
  <2> QED
    BY <1>1, <2>1, <2>4 DEF Committable
<1>5. CASE NotClaimable(w) \/ ClaimTimesOut(w) \/ ConnectFails(w) \/ LossNoticed(w) \/ DuplicateReceipt(w)
  <2>1. row' = row /\ job' = [job EXCEPT ![w].pc = "done"] /\ "done" \notin ClaimedPC
    BY <1>5 DEF NotClaimable, ClaimTimesOut, ConnectFails, LossNoticed, DuplicateReceipt, ClaimedPC
  <2>2. job'[w].pc = "done" /\ \A v \in Workers \ {w} : job'[v] = job[v]
    BY <1>1, <1>2, <2>1, JobMoves
  <2> QED
    BY <1>3, <2>1, <2>2 DEF HasTransaction
<1>6. CASE SubmitFiles(w) \/ ConfirmationCaptured(w)
  <2>1. job[w].pc \in ClaimedPC /\ row' = row
        /\ \E p \in {"filed", "sign"} : job' = [job EXCEPT ![w].pc = p]
    BY <1>6 DEF SubmitFiles, ConfirmationCaptured, ClaimedPC
  <2>2. /\ job'[w].submission = job[w].submission /\ job'[w].lost = job[w].lost
        /\ \A v \in Workers \ {w} : job'[v] = job[v]
    BY <1>1, <1>2, <2>1, JobMoves
  <2> QED
    BY <1>3, <2>1, <2>2 DEF HasTransaction
<1>7. CASE Validate(w) \/ \E e \in PortalErrors : SubmitFails(w, e) \/ ConfirmationFails(w, e)
  <2>1. /\ job[w].pc \in ClaimedPC /\ row' = row
        /\ \E p \in {"submit", "failing"}, e \in PortalErrors \cup {"none", "unsupported"} :
             job' = [job EXCEPT ![w].pc = p, ![w].error = e]
    BY <1>7 DEF Validate, SubmitFails, ConfirmationFails, ClaimedPC, PortalErrors
  <2>2. PICK p \in {"submit", "failing"}, e \in PortalErrors \cup {"none", "unsupported"} :
          job' = [job EXCEPT ![w].pc = p, ![w].error = e]
    BY <2>1
  <2>3. job[w].pc # "idle" /\ p \in JobPC
    BY <1>2, <2>1 DEF ClaimedPC
  <2>4. /\ job'[w].submission = job[w].submission /\ job'[w].lost = job[w].lost
        /\ \A v \in Workers \ {w} : job'[v] = job[v]
    BY <2>2, <2>3, JobFails
  <2> QED
    BY <1>3, <2>1, <2>4 DEF HasTransaction
<1>8. CASE RecordFailure(w) \/ SigningFails(w) \/ SignAndComplete(w)
  <2>1. /\ HasTransaction(w)
        /\ \E st \in SubmissionStatus, n \in Nat : Settle(w, st, n)
    BY <1>8, SettledSomehow
  <2> QED
    BY <1>1, <2>1, SettleCommittable
<1>9. CASE Acknowledge(w) \/ WorkerCrash(w)
  <2>1. row' = row /\ job' = [job EXCEPT ![w] = NoJob]
    BY <1>9 DEF Acknowledge, WorkerCrash
  <2>2. job'[w].pc = "idle" /\ \A v \in Workers \ {w} : job'[v] = job[v]
    BY <1>1, <2>1 DEF NoJob
  <2> QED
    BY <1>3, <2>1, <2>2 DEF HasTransaction, ClaimedPC
<1>10. CASE Delivery(w)
  <2>1. PICK s \in Submissions, n \in 0..MAX_RETRIES : Deliver(w, s, n)
    BY <1>10 DEF Delivery
  <2>2. row' = row /\ job'[w].pc = "claim" /\ \A v \in Workers \ {w} : job'[v] = job[v]
    BY <1>1, <2>1 DEF Deliver
  <2> QED
    BY <1>3, <2>2 DEF HasTransaction, ClaimedPC
<1>11. CASE ConnectionLost(w)
  <2>1. row' = row /\ job' = [job EXCEPT ![w].lost = TRUE]
    BY <1>11 DEF ConnectionLost
  <2>2. job'[w].lost /\ \A v \in Workers \ {w} : job'[v] = job[v]
    BY <1>1, <2>1, JobLoses
  <2> QED
    BY <1>3, <2>1, <2>2 DEF HasTransaction
<1>12. CASE Redeliver(w)
  <2>1. row' = row /\ job' = job
    BY <1>12 DEF Redeliver
  <2> QED
    BY <1>3, <2>1 DEF HasTransaction
<1> QED
  BY <1>4, <1>5, <1>6, <1>7, <1>8, <1>9, <1>10, <1>11, <1>12 DEF WorkerStep

LEMMA LifecycleInvariant == Spec => []LifecycleInv
<1>1. Init => LifecycleInv
  BY InitTyped DEF Init, LifecycleInv, LockDiscipline, Committable, HasTransaction, NoJob, NoRequest, ClaimedPC
<1>2. ASSUME LifecycleInv, Next PROVE Committable'
  BY <1>2, RequestCommittable, ProducerCommittable, WorkerCommittable DEF Next
<1>3. ASSUME LifecycleInv, UNCHANGED vars PROVE Committable'
  BY <1>3 DEF vars, LifecycleInv, Committable, HasTransaction
<1>4. LifecycleInv /\ [Next]_vars => LifecycleInv'
  BY <1>2, <1>3, StepTyped, StepLocks DEF LifecycleInv
<1> QED
  BY <1>1, <1>4, PTL DEF Spec

\* One row takes another status: what the lifecycle sees of it.
LEMMA StatusMoves ==
    ASSUME NEW s \in Submissions, NEW st, row'[s].status = st, st # "void",
           \A u \in Submissions \ {s} : row'[u] = row[u]
    PROVE  Status' = [Status EXCEPT ![s] = st]
BY DEF Status

\* What the lifecycle sees of the requests: nothing new, one more, one less.
LEMMA AskingSame ==
    ASSUME \A c \in Clients, s \in Submissions : Asks(c, s)' <=> Asks(c, s)
    PROVE  Asking' = Asking
BY DEF Asking

LEMMA AskingMore ==
    ASSUME NEW c \in Clients, NEW s \in Submissions, req[c].pc = "idle", Asks(c, s)',
           \A d \in Clients \ {c} : req'[d] = req[d]
    PROVE  /\ \A u \in Submissions : c \notin Asking[u]
           /\ Asking' = [Asking EXCEPT ![s] = @ \cup {c}]
<1>1. \A u \in Submissions : c \notin Asking[u]
  BY DEF Asking, Asks
<1>2. \A d \in Clients, u \in Submissions : Asks(d, u)' <=> Asks(d, u) \/ (d = c /\ u = s)
  BY DEF Asks
<1>3. ASSUME NEW u \in Submissions
      PROVE  {d \in Clients : Asks(d, u)'} =
               IF u = s THEN {d \in Clients : Asks(d, u)} \cup {c} ELSE {d \in Clients : Asks(d, u)}
  BY <1>2
<1>4. Asking' = [u \in Submissions |-> {d \in Clients : Asks(d, u)'}]
  BY DEF Asking
<1> QED
  BY <1>1, <1>3, <1>4 DEF Asking

LEMMA AskingLess ==
    ASSUME NEW c \in Clients, NEW s \in Submissions, Asks(c, s), req'[c].pc = "idle",
           \A d \in Clients \ {c} : req'[d] = req[d]
    PROVE  c \in Asking[s] /\ Asking' = [Asking EXCEPT ![s] = @ \ {c}]
<1>1. c \in Asking[s]
  BY DEF Asking
<1>2. \A d \in Clients, u \in Submissions : Asks(d, u)' <=> Asks(d, u) /\ ~(d = c /\ u = s)
  BY DEF Asks
<1>3. ASSUME NEW u \in Submissions
      PROVE  {d \in Clients : Asks(d, u)'} =
               IF u = s THEN {d \in Clients : Asks(d, u)} \ {c} ELSE {d \in Clients : Asks(d, u)}
  BY <1>2
<1>4. Asking' = [u \in Submissions |-> {d \in Clients : Asks(d, u)'}]
  BY DEF Asking
<1> QED
  BY <1>1, <1>3, <1>4 DEF Asking

\* A step of the API takes a step of the lifecycle when it begins a retry, commits
\* or gives a retry up.
LEMMA RequestImplements ==
    ASSUME LifecycleInv, NEW c \in Clients, RequestStep(c) \/ RequestFails(c)
    PROVE  Lifecycle!Next \/ UNCHANGED <<Status, Receipted, Asking>>
<1> USE DEF LifecycleInv
<1>1. row \in [Submissions -> Row] /\ req \in [Clients -> Request]
  BY DEF Typed, TypeOK
<1> DEFINE s == req[c].submission
<1>2. CASE RetryFlush(c) \/ Enqueue(c)
  <2>1. UNCHANGED <<row, receipts>> /\ req[c].pc # "idle"
    BY <1>2 DEF RetryFlush, Enqueue
  <2>2. PICK p \in RequestPC : p # "idle" /\ req' = [req EXCEPT ![c].pc = p]
    BY <1>2 DEF RetryFlush, Enqueue, RequestPC
  <2>3. /\ req'[c].pc = p /\ req'[c].kind = req[c].kind /\ req'[c].submission = req[c].submission
        /\ \A d \in Clients \ {c} : req'[d] = req[d]
    BY <1>1, <2>2, RequestMoves
  <2>4. \A d \in Clients, u \in Submissions : Asks(d, u)' <=> Asks(d, u)
    BY <2>1, <2>2, <2>3 DEF Asks
  <2>5. UNCHANGED <<Status, Receipted>>
    BY <2>1 DEF Status, Receipted
  <2> QED
    BY <2>4, <2>5, AskingSame
<1>3. CASE Commit(c) \/ RequestFails(c)
  <2>1. /\ req[c].pc # "idle" /\ s \in Submissions /\ receipts' = receipts
        /\ req'[c].pc = "idle" /\ \A d \in Clients \ {c} : req'[d] = req[d]
    BY <1>1, <1>3 DEF Commit, RequestFails, NoRequest, Typed
  <2>2. Receipted' = Receipted
    BY <2>1 DEF Receipted
  <2>3. req[c].kind # "create" => Asks(c, s)
    BY <1>1, <2>1 DEF Asks, Request
  <2>4. ASSUME req[c].kind = "create" PROVE Asking' = Asking
    <3>1. \A d \in Clients, u \in Submissions : Asks(d, u)' <=> Asks(d, u)
      BY <2>1, <2>4 DEF Asks
    <3> QED
      BY <3>1, AskingSame
  <2>5. CASE RequestFails(c)
    <3>1. Status' = Status
      BY <2>5 DEF RequestFails, Status
    <3>2. CASE req[c].kind # "create"
      <4>1. c \in Asking[s] /\ Asking' = [Asking EXCEPT ![s] = @ \ {c}]
        BY <2>1, <2>3, <3>2, AskingLess
      <4>2. Lifecycle!Withdraw(c, s)
        BY <2>2, <3>1, <4>1 DEF Lifecycle!Withdraw, Lifecycle!Answer
      <4> QED
        BY <2>1, <4>2 DEF Lifecycle!Next
    <3> QED
      BY <2>2, <2>4, <3>1, <3>2
  <2>6. CASE Commit(c)
    <3> DEFINE st == IF req[c].kind = "create" THEN "queued" ELSE "retrying"
    <3>1. row' = [row EXCEPT ![s].status = st]
      BY <2>6 DEF Commit
    <3>2. st \in RowStatus /\ st # "void"
      BY DEF RowStatus, SubmissionStatus
    <3>3. row'[s].status = st /\ \A u \in Submissions \ {s} : row'[u] = row[u]
      BY <1>1, <2>1, <3>1, <3>2, RowMoves
    <3>4. Status' = [Status EXCEPT ![s] = st]
      BY <2>1, <3>2, <3>3, StatusMoves
    <3>5. row[s].status \in IF req[c].kind = "create" THEN {"void"} ELSE SubmissionStatus
      BY <2>1 DEF Committable
    <3>6. CASE req[c].kind = "create"
      <4>1. Status[s] = "absent" /\ st = "queued"
        BY <2>1, <3>5, <3>6 DEF Status
      <4>2. Lifecycle!Accept(s)
        BY <2>1, <2>2, <2>4, <3>4, <3>6, <4>1 DEF Lifecycle!Accept, Lifecycle!Move
      <4> QED
        BY <2>1, <4>2 DEF Lifecycle!Next
    <3>7. CASE req[c].kind # "create"
      <4>1. Status[s] # "absent" /\ st = "retrying"
        BY <2>1, <3>5, <3>7 DEF Status, SubmissionStatus
      <4>2. c \in Asking[s] /\ Asking' = [Asking EXCEPT ![s] = @ \ {c}]
        BY <2>1, <2>3, <3>7, AskingLess
      <4>3. Lifecycle!Retry(c, s)
        BY <2>2, <3>4, <4>1, <4>2 DEF Lifecycle!Retry, Lifecycle!Answer
      <4> QED
        BY <2>1, <4>3 DEF Lifecycle!Next
    <3> QED
      BY <3>6, <3>7
  <2> QED
    BY <1>3, <2>5, <2>6
<1> QED
  BY <1>2, <1>3 DEF RequestStep

\* A row appears or a retry is admitted.
LEMMA ProducerImplements ==
    ASSUME LifecycleInv, NEW s \in Submissions,
           \/ \E c \in Clients : CreateFlush(c, s) \/ RetryRead(c, s)
           \/ RunFirstSubmission(s) \/ DraftFromInbound(s) \/ StandingChanges(s)
    PROVE  Lifecycle!Next \/ UNCHANGED <<Status, Receipted, Asking>>
<1> USE DEF LifecycleInv
<1>1. row \in [Submissions -> Row] /\ req \in [Clients -> Request]
  BY DEF Typed, TypeOK
<1>2. ASSUME req' = req PROVE Asking' = Asking
  <2>1. \A c \in Clients, u \in Submissions : Asks(c, u)' <=> Asks(c, u)
    BY <1>2 DEF Asks
  <2> QED
    BY <2>1, AskingSame
<1>3. ASSUME NEW c \in Clients, CreateFlush(c, s)
      PROVE  UNCHANGED <<Status, Receipted, Asking>>
  <2>1. /\ row[s].status = "absent" /\ row' = [row EXCEPT ![s].status = "void"]
        /\ receipts' = receipts /\ req[c].pc = "idle"
        /\ req'[c].kind = "create" /\ \A d \in Clients \ {c} : req'[d] = req[d]
    BY <1>1, <1>3 DEF CreateFlush
  <2>2. "void" \in RowStatus
    BY DEF RowStatus
  <2>3. row'[s].status = "void" /\ \A u \in Submissions \ {s} : row'[u] = row[u]
    BY <1>1, <2>1, <2>2, RowMoves
  <2>4. Status' = Status /\ Receipted' = Receipted
    BY <2>1, <2>3 DEF Status, Receipted
  <2>5. \A d \in Clients, u \in Submissions : Asks(d, u)' <=> Asks(d, u)
    BY <2>1 DEF Asks
  <2> QED
    BY <2>4, <2>5, AskingSame
<1>4. ASSUME NEW c \in Clients, RetryRead(c, s) PROVE Lifecycle!Next
  <2>1. /\ row[s].status \in RETRYABLE_STATUSES /\ UNCHANGED <<row, receipts>>
        /\ req[c].pc = "idle" /\ Asks(c, s)' /\ \A d \in Clients \ {c} : req'[d] = req[d]
    BY <1>1, <1>4 DEF RetryRead, Asks
  <2>2. Status[s] \in {"failed", "blocked"} /\ UNCHANGED <<Status, Receipted>>
    BY <2>1 DEF Status, Receipted, RETRYABLE_STATUSES
  <2>3. Lifecycle!Ask(c, s)
    BY <2>1, <2>2, AskingMore DEF Lifecycle!Ask
  <2> QED
    BY <2>3 DEF Lifecycle!Next
<1>5. CASE RunFirstSubmission(s) \/ DraftFromInbound(s)
  <2>1. PICK st \in {"queued", "blocked"} : row' = [row EXCEPT ![s].status = st]
    BY <1>5 DEF RunFirstSubmission, DraftFromInbound
  <2>2. row[s].status = "absent" /\ UNCHANGED <<receipts, req>>
    BY <1>5 DEF RunFirstSubmission, DraftFromInbound
  <2>3. st \in RowStatus /\ st # "void"
    BY DEF RowStatus, SubmissionStatus
  <2>4. row'[s].status = st /\ \A u \in Submissions \ {s} : row'[u] = row[u]
    BY <1>1, <2>1, <2>3, RowMoves
  <2>5. Status' = [Status EXCEPT ![s] = st]
    BY <2>3, <2>4, StatusMoves
  <2>6. Status[s] = "absent" /\ Receipted' = Receipted
    BY <2>2 DEF Status, Receipted
  <2>7. Lifecycle!Accept(s)
    BY <1>2, <2>2, <2>5, <2>6 DEF Lifecycle!Accept, Lifecycle!Move
  <2> QED
    BY <2>7 DEF Lifecycle!Next
<1>6. CASE StandingChanges(s)
  <2>1. UNCHANGED <<row, receipts, req>>
    BY <1>6 DEF StandingChanges
  <2> QED
    BY <1>2, <2>1 DEF Status, Receipted
<1> QED
  BY <1>3, <1>4, <1>5, <1>6

\* A step of a task: an attempt that is settled, or nothing the lifecycle sees.
LEMMA WorkerImplements ==
    ASSUME LifecycleInv, NEW w \in Workers,
           WorkerStep(w) \/ SigningFails(w) \/ Delivery(w) \/ ClaimTimesOut(w) \/ ConnectFails(w)
             \/ ConnectionLost(w) \/ WorkerCrash(w) \/ Redeliver(w)
    PROVE  Lifecycle!Next \/ UNCHANGED <<Status, Receipted, Asking>>
<1> USE DEF LifecycleInv
<1>1. Asking' = Asking
  <2>1. req' = req
    BY DEF WorkerStep, SigningFails, Delivery, Deliver, ClaimTimesOut, ConnectFails,
       ConnectionLost, LossNoticed, WorkerCrash, Redeliver, Claim, NotClaimable, Validate, SubmitFails,
       SubmitFiles, ConfirmationFails, ConfirmationCaptured, RecordFailure, SignAndComplete,
       DuplicateReceipt, Acknowledge
  <2>2. \A c \in Clients, u \in Submissions : Asks(c, u)' <=> Asks(c, u)
    BY <2>1 DEF Asks
  <2> QED
    BY <2>2, AskingSame
<1>2. CASE RecordFailure(w) \/ SigningFails(w) \/ SignAndComplete(w)
  <2> DEFINE s == job[w].submission
  <2>1. HasTransaction(w) /\ s \in Submissions
    BY <1>2, SettledSomehow
  <2>2. PICK st \in SubmissionStatus, n \in Nat :
          /\ Settle(w, st, n)
          /\ \/ /\ st \in {"failed", "blocked", "retrying", "platform_unsupported"}
                /\ receipts' = receipts
             \/ /\ st = "completed" /\ ~HasReceipt(s)
                /\ receipts' = receipts \cup {SignedReceipt(s)}
    BY <1>2, SettledSomehow
  <2>3. row'[s].status = st /\ \A u \in Submissions \ {s} : row'[u] = row[u]
    BY <2>1, <2>2, Settles DEF HasTransaction, ClaimedPC
  <2>4. st # "void"
    BY DEF SubmissionStatus
  <2>5. Status[s] \in {"queued", "retrying"}
    BY <2>1 DEF Committable, Status, Claimable
  <2>6. ASSUME NEW t \in Submissions, t = s PROVE Status' = [Status EXCEPT ![t] = st]
    BY <2>3, <2>4, <2>6, StatusMoves
  <2>7. CASE st \in {"failed", "blocked", "retrying", "platform_unsupported"} /\ receipts' = receipts
    <3>1. Receipted' = Receipted
      BY <2>7 DEF Receipted
    <3>2. \E t \in Submissions : Lifecycle!Attempt(t)
      BY <1>1, <2>1, <2>5, <2>6, <2>7, <3>1 DEF Lifecycle!Attempt, Lifecycle!Move
    <3> QED
      BY <3>2 DEF Lifecycle!Next
  <2>8. CASE st = "completed" /\ ~HasReceipt(s) /\ receipts' = receipts \cup {SignedReceipt(s)}
    <3>1. SignedReceipt(s).submission = s
      BY DEF SignedReceipt
    <3>2. Receipted' = Receipted \cup {s} /\ s \notin Receipted
      BY <2>8, <3>1 DEF Receipted, HasReceipt
    <3>3. \E t \in Submissions : Lifecycle!Complete(t)
      BY <1>1, <2>1, <2>5, <2>6, <2>8, <3>2 DEF Lifecycle!Complete, Lifecycle!Move
    <3> QED
      BY <3>3 DEF Lifecycle!Next
  <2> QED
    BY <2>2, <2>7, <2>8
<1>3. CASE UNCHANGED <<row, receipts>>
  BY <1>1, <1>3 DEF Status, Receipted
<1> QED
  BY <1>2, <1>3 DEF WorkerStep, Delivery, Deliver, Claim, NotClaimable, Validate, SubmitFails,
     SubmitFiles, ConfirmationFails, ConfirmationCaptured, DuplicateReceipt, Acknowledge,
     LossNoticed, ClaimTimesOut, ConnectFails, ConnectionLost, WorkerCrash, Redeliver

\* LifecycleSpec: for any number of concurrent requests, messages, crashes and
\* lost connections the pipeline implements the lifecycle: a row moves only along
\* its arrows, a retry was admitted while the row was failed or blocked, and a
\* submission completes, with its receipt, at most once (submission_service,
\* submission_pipeline).
THEOREM PipelineImplementsLifecycle == Spec => LifecycleSpec
<1>1. Init => Lifecycle!Init
  <2> SUFFICES ASSUME Init PROVE Lifecycle!Init
    OBVIOUS
  <2>1. Status = [s \in Submissions |-> "absent"] /\ Receipted = {}
    BY DEF Init, Status, Receipted
  <2>2. Asking = [s \in Submissions |-> {}]
    BY DEF Init, Asking, Asks, NoRequest
  <2> QED
    BY <2>1, <2>2 DEF Lifecycle!Init
<1>2. LifecycleInv /\ [Next]_vars => [Lifecycle!Next]_(Lifecycle!lifecycleVars)
  <2>1. ASSUME LifecycleInv, Next PROVE Lifecycle!Next \/ UNCHANGED Lifecycle!lifecycleVars
    BY <2>1, RequestImplements, ProducerImplements, WorkerImplements DEF Next, Lifecycle!lifecycleVars
  <2>2. ASSUME UNCHANGED vars PROVE UNCHANGED Lifecycle!lifecycleVars
    BY <2>2 DEF vars, Lifecycle!lifecycleVars, Status, Receipted, Asking, Asks
  <2> QED
    BY <2>1, <2>2
<1> QED
  BY <1>1, <1>2, LifecycleInvariant, PTL DEF Spec, LifecycleSpec, Lifecycle!Spec
=============================================================================
