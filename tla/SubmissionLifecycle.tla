------------------------ MODULE SubmissionLifecycle ------------------------
(***************************************************************************)
(* What the submission pipeline promises about every submission: the       *)
(* statuses it may go through, who may send it back for another attempt,   *)
(* and that it completes, and is issued a receipt, at most once.  Nothing  *)
(* here knows of transactions, locks, messages or workers.                 *)
(*                                                                         *)
(* A request for another attempt is admitted while the submission is       *)
(* failed or blocked and takes effect later, whatever became of the        *)
(* submission meanwhile.  Only another request can have moved it: a        *)
(* submission with one request at a time never leaves "completed", and one *)
(* with several may, keeping its receipt.                                  *)
(***************************************************************************)
CONSTANTS Submissions, Clients

VARIABLES
    status,     \* status[s], "absent" before the submission exists
    receipted,  \* submissions that have a receipt
    asking      \* asking[s]: clients whose request for another attempt is in progress

lifecycleVars == <<status, receipted, asking>>

Init ==
    /\ status = [s \in Submissions |-> "absent"]
    /\ receipted = {}
    /\ asking = [s \in Submissions |-> {}]

Move(s, from, to) ==
    /\ status[s] \in from
    /\ \E t \in to : status' = [status EXCEPT ![s] = t]

\* A tenant queues a submission, or an inbound e-mail leaves a draft behind.
Accept(s) ==
    /\ Move(s, {"absent"}, {"queued", "blocked"})
    /\ UNCHANGED <<receipted, asking>>

\* An attempt that does not succeed.
Attempt(s) ==
    /\ Move(s, {"queued", "retrying"}, {"failed", "blocked", "retrying", "platform_unsupported"})
    /\ UNCHANGED <<receipted, asking>>

\* An attempt that succeeds, once.
Complete(s) ==
    /\ s \notin receipted
    /\ Move(s, {"queued", "retrying"}, {"completed"})
    /\ receipted' = receipted \cup {s}
    /\ UNCHANGED asking

\* An operator's request for another attempt is admitted.
Ask(c, s) ==
    /\ status[s] \in {"failed", "blocked"}
    /\ \A u \in Submissions : c \notin asking[u]
    /\ asking' = [asking EXCEPT ![s] = @ \cup {c}]
    /\ UNCHANGED <<status, receipted>>

\* The request is over, and has taken effect or not.
Answer(c, s) ==
    /\ c \in asking[s]
    /\ asking' = [asking EXCEPT ![s] = @ \ {c}]

Retry(c, s) ==
    /\ Answer(c, s)
    /\ status[s] # "absent"
    /\ status' = [status EXCEPT ![s] = "retrying"]
    /\ UNCHANGED receipted

Withdraw(c, s) ==
    /\ Answer(c, s)
    /\ UNCHANGED <<status, receipted>>

Next ==
    \E s \in Submissions :
        \/ Accept(s) \/ Attempt(s) \/ Complete(s)
        \/ \E c \in Clients : Ask(c, s) \/ Retry(c, s) \/ Withdraw(c, s)

Spec == Init /\ [][Next]_lifecycleVars

=============================================================================
