---------------------------- MODULE RecordsProofs ----------------------------
(***************************************************************************)
(* Proofs about InboundEmail, SupplierRecords and ImportJobs, for every set*)
(* of letters, rules and readers, of requests and rows, and of files.      *)
(*                                                                         *)
(* Inbound mail.  Progress says where each reader of the mailbox is: what  *)
(* a poll has not listed any more is accounted for or was given up         *)
(* (Polled), so the cursor passes nothing that is neither.  DraftTells     *)
(* bounds the drafts of a Message-ID by its reroutings, and OrderKept says *)
(* that the rules a reorder listed still have the priorities it gave them. *)
(*                                                                         *)
(* Records.  A request holds what it read while others commit, so          *)
(* RecInv says what stays true of a read: the key it found was given out   *)
(* and is, while its row is there, a row of the same tenant (Ref), and the *)
(* columns an update lays its payload over were in order when loaded       *)
(* (LoadedOK).  Derived compares a row with its document but for the rows  *)
(* of which that is not so (retyped, disturbed), and Gone explains each    *)
(* missing row by a deletion, of the row or of its supplier.               *)
(*                                                                         *)
(* Imports.  A run streams the kept rows in file order, so what it handed  *)
(* out comes before all it has left and its counters add up to that        *)
(* (Streamed); when nothing is left they add up to the file.  A job's      *)
(* only run has stored and reported just what it handed out (OnlyRun),     *)
(* which is what it leaves when it completes the job (Left); that holds    *)
(* while runs, which counts the commits that began, is one: two requests   *)
(* may both find the job ready.  Planned says that no chunk is about to    *)
(* store a FEIN that is there, unless another chunk stored it since.  The  *)
(* dry run's report has all findings of a file whose findings fit          *)
(* (ReportComplete): they are of different rows, so the count of a prefix  *)
(* bounds them.                                                            *)
(***************************************************************************)
EXTENDS InboundEmail, SupplierRecords, ImportJobs,
        FiniteSetTheorems, WellFoundedInduction, TLAPS

-----------------------------------------------------------------------------
(* Inbound mail *)

MailPc == {"idle", "look", "land", "answer", "fetch", "save"}
Files == UNION {Kept(l, clamd) : l \in Letters, clamd \in Clamd}
MailRow == [status : MailStatus \cup {"absent"}, letter : Letters, atts : SUBSET Files, draft : BOOLEAN]
ActorRow == [pc : MailPc, letter : Letters, uids : Seq(Nat)]

MailTypes ==
  /\ mail \in [MessageIds -> MailRow]
  /\ drafts \in [MessageIds -> Nat] /\ rerouted \in [MessageIds -> Nat]
  /\ post \in [Letters -> {"unsent", "sent", "answered"}]
  /\ cursor \in Uids \cup {0}
  /\ actor \in [MailActors -> ActorRow]

\* The cursor may pass UID u.
Passed(u) == Accounted(Mailbox[u]) \/ u \in unfetched

\* How far an actor has come with its letter.
Placed(a) ==
  /\ actor[a].pc = "idle" => actor[a].uids = <<>>
  /\ actor[a].pc = "land" => ~Turned(actor[a].letter)
  /\ actor[a].pc \in {"answer", "save"} => Accounted(actor[a].letter)

\* A poll has its list's rest before it, up to the mailbox's end, and may
\* leave everything below it behind.
Polled(p) ==
  LET n == Len(actor[p].uids) IN
  /\ n <= Len(Mailbox)
  /\ \A i \in 1 .. n : actor[p].uids[i] = Len(Mailbox) - n + i
  /\ actor[p].pc # "idle" => \A u \in Uids : u <= Len(Mailbox) - n => Passed(u)
  /\ actor[p].pc \in {"look", "land", "save"} => n > 0 /\ actor[p].letter = Mailbox[actor[p].uids[1]]

Progress ==
  /\ \A a \in MailActors : Placed(a)
  /\ \A p \in Pollers : Polled(p)
  /\ AckedIsStored

\* What is known of a Message-ID and its drafts.
DraftTells(m) ==
  /\ mail[m].status = "absent" => drafts[m] = 0
  /\ mail[m].status # "absent" => Letter[mail[m].letter].mid = m /\ ~Turned(mail[m].letter)
  /\ mail[m].draft => drafts[m] > 0
  /\ drafts[m] <= 1 + rerouted[m]
  /\ mail[m].status # "absent" /\ Held(mail[m].letter) => drafts[m] <= rerouted[m]

DraftsTell == \A m \in MessageIds : DraftTells(m)

\* The rules a reorder listed still have the priorities it gave them.
OrderKept ==
  /\ rules \in [Rules -> {NoRule} \cup RuleRow]
  /\ ordered \subseteq Rules \X Rules
  /\ \A pair \in ordered : /\ rules[pair[1]] # NoRule /\ rules[pair[2]] # NoRule
                           /\ rules[pair[1]].prio < rules[pair[2]].prio

MailInv == MailTypes /\ Progress /\ DraftsTell /\ NoInfectedAttachment /\ OrderKept

LEMMA MailConstants ==
  /\ (CHOOSE l \in Letters : TRUE) \in Letters
  /\ Mailbox \in Seq(Letters) /\ Len(Mailbox) \in Nat /\ Uids = 1 .. Len(Mailbox)
  /\ \A u \in Uids : Mailbox[u] \in Letters
<1>1. Letters # {} /\ Mailbox \in Seq(Letters)
  BY MailAssumption, Zenon
<1> QED
  BY <1>1 DEF Uids

LEMMA MailRestedTyped == Rested \in ActorRow /\ Rested.pc = "idle" /\ Rested.uids = <<>>
<1>1. <<>> \in Seq(Nat)
  OBVIOUS
<1> QED
  BY <1>1, MailConstants DEF Rested, ActorRow, MailPc

LEMMA MailStart == MailInit => MailInv
<1> SUFFICES ASSUME MailInit PROVE MailInv
  OBVIOUS
<1>1. NoMail \in MailRow
  BY MailConstants DEF NoMail, MailRow, MailStatus
<1>2. MailTypes
  BY <1>1, MailRestedTyped DEF MailInit, MailTypes
<1>3. \A a \in MailActors : actor[a] = Rested
  BY DEF MailInit
<1>4. Progress
  <2>1. ASSUME NEW a \in MailActors PROVE Placed(a)
    BY <1>3, MailRestedTyped DEF Placed
  <2>2. ASSUME NEW p \in Pollers PROVE Polled(p)
    <3>1. actor[p].pc = "idle" /\ actor[p].uids = <<>>
      BY <1>3, MailRestedTyped DEF MailActors
    <3> QED
      BY <3>1, MailConstants DEF Polled
  <2>3. AckedIsStored
    <3>1. \A l \in Letters : post[l] = "unsent"
      BY DEF MailInit
    <3>2. cursor = 0
      BY DEF MailInit
    <3> QED
      BY <3>1, <3>2, MailConstants DEF AckedIsStored
  <2> QED
    BY <2>1, <2>2, <2>3 DEF Progress
<1>5. DraftsTell
  BY DEF MailInit, NoMail, DraftsTell, DraftTells
<1>6. NoInfectedAttachment
  BY DEF MailInit, NoMail, NoInfectedAttachment
<1>7. OrderKept
  BY MailAssumption DEF MailInit, OrderKept
<1> QED
  BY <1>2, <1>4, <1>5, <1>6, <1>7 DEF MailInv

-----------------------------------------------------------------------------
\* Nothing that is stored or refused becomes unaccounted for.
LEMMA AccountedStays ==
  ASSUME refused \subseteq refused', unfetched \subseteq unfetched',
         \A m \in MessageIds : mail[m].status # "absent" => mail'[m].status # "absent"
  PROVE  /\ \A l \in Letters : Accounted(l) => Accounted(l)'
         /\ \A u \in Uids : Passed(u) => Passed(u)'
<1>1. ASSUME NEW l \in Letters, Accounted(l) PROVE Accounted(l)'
  BY <1>1 DEF Accounted, MessageIds
<1>2. ASSUME NEW u \in Uids, Passed(u) PROVE Passed(u)'
  BY <1>1, <1>2, MailConstants DEF Passed
<1> QED
  BY <1>1, <1>2

\* Only actor a moved: the others are where they were.
LEMMA OthersStay ==
  ASSUME MailTypes, Progress, NEW a \in MailActors,
         \A l \in Letters : Accounted(l) => Accounted(l)',
         \A u \in Uids : Passed(u) => Passed(u)',
         \A b \in MailActors \ {a} : actor'[b] = actor[b]
  PROVE  /\ \A b \in MailActors \ {a} : Placed(b)'
         /\ \A p \in Pollers \ {a} : Polled(p)'
<1>1. ASSUME NEW b \in MailActors \ {a} PROVE Placed(b)'
  <2>1. Placed(b) /\ actor'[b] = actor[b] /\ actor[b].letter \in Letters
    BY DEF Progress, MailTypes, ActorRow
  <2> QED
    BY <2>1 DEF Placed
<1>2. ASSUME NEW p \in Pollers \ {a} PROVE Polled(p)'
  <2>1. Polled(p) /\ actor'[p] = actor[p]
    BY DEF Progress, MailActors
  <2> QED
    BY <2>1 DEF Polled
<1> QED
  BY <1>1, <1>2

LEMMA AckedStays ==
  ASSUME MailTypes, AckedIsStored,
         \A l \in Letters : Accounted(l) => Accounted(l)',
         \A u \in Uids : Passed(u) => Passed(u)',
         \A l \in Letters : post'[l] = "answered" => post[l] = "answered" \/ Accounted(l)',
         \A u \in Uids : u <= cursor' => u <= cursor \/ Passed(u)'
  PROVE  AckedIsStored'
<1>1. \A l \in Letters : post'[l] = "answered" => Accounted(l)'
  BY DEF AckedIsStored
<1>2. \A u \in Uids : u <= cursor' => Passed(u)'
  BY DEF AckedIsStored, Passed
<1> QED
  BY <1>1, <1>2 DEF AckedIsStored, Passed

\* The rest of the invariant, under steps that do not touch it.
LEMMA StoredStays ==
  ASSUME DraftsTell, NoInfectedAttachment, UNCHANGED <<mail, drafts, rerouted>>
  PROVE  DraftsTell' /\ NoInfectedAttachment'
<1>1. DraftsTell'
  BY DEF DraftsTell, DraftTells
<1>2. NoInfectedAttachment'
  BY DEF NoInfectedAttachment
<1> QED
  BY <1>1, <1>2

LEMMA OrderStays == ASSUME OrderKept, UNCHANGED <<rules, ordered>> PROVE OrderKept'
  BY DEF OrderKept

-----------------------------------------------------------------------------
\* What a step of actor a has to keep.
LEMMA MailStepKeeps ==
  ASSUME MailInv, NEW a \in MailActors, \A b \in MailActors \ {a} : actor'[b] = actor[b], MailTypes',
         refused \subseteq refused', unfetched \subseteq unfetched',
         \A m \in MessageIds : mail[m].status # "absent" => mail'[m].status # "absent",
         Placed(a)', a \in Pollers => Polled(a)',
         \A l \in Letters : post'[l] = "answered" => post[l] = "answered" \/ Accounted(l)',
         \A u \in Uids : u <= cursor' => u <= cursor \/ Passed(u)',
         DraftsTell', NoInfectedAttachment', OrderKept'
  PROVE  MailInv'
<1>1. MailTypes /\ Progress
  BY DEF MailInv
<1>2. /\ \A l \in Letters : Accounted(l) => Accounted(l)'
      /\ \A u \in Uids : Passed(u) => Passed(u)'
  BY AccountedStays
<1>3. Progress'
  <2>1. /\ \A b \in MailActors \ {a} : Placed(b)'
        /\ \A p \in Pollers \ {a} : Polled(p)'
    BY <1>1, <1>2, OthersStay
  <2>2. AckedIsStored'
    BY <1>1, <1>2, AckedStays DEF Progress
  <2> QED
    BY <2>1, <2>2 DEF Progress
<1> QED
  BY <1>3 DEF MailInv

\* A step of nobody that posts, polls or ingests.
LEMMA OperatorKeeps ==
  ASSUME MailInv, UNCHANGED <<actor, post, cursor, refused, unfetched>>, MailTypes',
         \A m \in MessageIds : mail[m].status # "absent" => mail'[m].status # "absent",
         DraftsTell', NoInfectedAttachment', OrderKept'
  PROVE  MailInv'
<1>1. MailTypes /\ Progress
  BY DEF MailInv
<1>2. /\ \A l \in Letters : Accounted(l) => Accounted(l)'
      /\ \A u \in Uids : Passed(u) => Passed(u)'
  BY AccountedStays
<1>3. ASSUME NEW b \in MailActors PROVE Placed(b)'
  <2>1. Placed(b) /\ actor[b].letter \in Letters
    BY <1>1 DEF Progress, MailTypes, ActorRow
  <2> QED
    BY <1>2, <2>1 DEF Placed
<1>4. ASSUME NEW p \in Pollers PROVE Polled(p)'
  <2>1. Polled(p)
    BY <1>1 DEF Progress
  <2> QED
    BY <1>2, <2>1 DEF Polled
<1>5. AckedIsStored'
  BY <1>1, <1>2, AckedStays DEF Progress
<1>6. Progress'
  BY <1>3, <1>4, <1>5 DEF Progress
<1> QED
  BY <1>6 DEF MailInv

\* A step of actor a that stores no letter and leaves the rules alone.
LEMMA ActorMoves ==
  ASSUME MailInv, NEW a \in MailActors, NEW row \in ActorRow, actor' = [actor EXCEPT ![a] = row],
         UNCHANGED <<mail, drafts, rules, rerouted, ordered>>,
         refused \subseteq refused', unfetched \subseteq unfetched',
         post' \in [Letters -> {"unsent", "sent", "answered"}], cursor' \in Uids \cup {0},
         Placed(a)', a \in Pollers => Polled(a)',
         \A l \in Letters : post'[l] = "answered" => post[l] = "answered" \/ Accounted(l)',
         \A u \in Uids : u <= cursor' => u <= cursor \/ Passed(u)'
  PROVE  MailInv'
<1>1. MailTypes /\ DraftsTell /\ NoInfectedAttachment /\ OrderKept
  BY DEF MailInv
<1>2. /\ actor' \in [MailActors -> ActorRow]
      /\ \A b \in MailActors \ {a} : actor'[b] = actor[b]
  BY <1>1 DEF MailTypes
<1>3. MailTypes'
  BY <1>1, <1>2 DEF MailTypes
<1>4. DraftsTell' /\ NoInfectedAttachment'
  BY <1>1, StoredStays
<1>5. OrderKept'
  BY <1>1, OrderStays
<1> QED
  BY <1>2, <1>3, <1>4, <1>5, MailStepKeeps

LEMMA SendsKeeps ==
  ASSUME MailInv, NEW h \in Hooks, NEW l \in Letters, PostmarkSends(h, l) PROVE MailInv'
<1> DEFINE row == [pc |-> "look", letter |-> l, uids |-> <<>>]
<1>1. MailTypes /\ h \in MailActors /\ h \notin Pollers
  BY MailAssumption DEF MailInv, MailActors
<1>2. row \in ActorRow /\ row.pc = "look"
  <2>1. <<>> \in Seq(Nat)
    OBVIOUS
  <2> QED
    BY <2>1 DEF ActorRow, MailPc
<1> HIDE DEF row
<1>3. /\ actor' = [actor EXCEPT ![h] = row] /\ post' = [post EXCEPT ![l] = "sent"]
      /\ UNCHANGED <<mail, drafts, rules, rerouted, ordered, refused, unfetched, cursor>>
  BY DEF PostmarkSends, mailHistory, row
<1>4. actor'[h] = row
  BY <1>1, <1>3 DEF MailTypes
<1>5. Placed(h)'
  BY <1>2, <1>4 DEF Placed
<1>6. /\ post' \in [Letters -> {"unsent", "sent", "answered"}] /\ cursor' \in Uids \cup {0}
      /\ \A k \in Letters : post'[k] = "answered" => post[k] = "answered"
  BY <1>1, <1>3 DEF MailTypes
<1> QED
  BY <1>1, <1>2, <1>3, <1>5, <1>6, ActorMoves

LEMMA AnsweredKeeps ==
  ASSUME MailInv, NEW h \in Hooks, PostmarkAnswered(h) PROVE MailInv'
<1>1. MailTypes /\ h \in MailActors /\ h \notin Pollers /\ Progress
  BY MailAssumption DEF MailInv, MailActors
<1>2. /\ actor[h].letter \in Letters /\ Accounted(actor[h].letter)
  BY <1>1 DEF PostmarkAnswered, Progress, Placed, MailTypes, ActorRow
<1>3. /\ actor' = [actor EXCEPT ![h] = Rested]
      /\ UNCHANGED <<mail, drafts, rules, rerouted, ordered, refused, unfetched, cursor>>
  BY DEF PostmarkAnswered, mailHistory
<1>4. /\ post' \in [Letters -> {"unsent", "sent", "answered"}]
      /\ \A k \in Letters : post'[k] = "answered" => post[k] = "answered" \/ k = actor[h].letter
  BY <1>1, <1>2 DEF PostmarkAnswered, MailTypes
<1>6. \A k \in Letters : post'[k] = "answered" => post[k] = "answered" \/ Accounted(k)'
  <2>1. \A k \in Letters : Accounted(k) => Accounted(k)'
    BY <1>3, AccountedStays
  <2> QED
    BY <1>2, <1>4, <2>1
<1>7. Placed(h)'
  <2>1. actor'[h] = Rested
    BY <1>1, <1>3 DEF MailTypes
  <2> QED
    BY <2>1, MailRestedTyped DEF Placed
<1>8. cursor' \in Uids \cup {0}
  BY <1>1, <1>3 DEF MailTypes
<1> QED
  BY <1>1, <1>3, <1>4, <1>6, <1>7, <1>8, MailRestedTyped, ActorMoves

\* The end of a request or a poll, and the death of one.
LEMMA RestedKeeps ==
  ASSUME MailInv, NEW a \in MailActors, actor' = [actor EXCEPT ![a] = Rested],
         UNCHANGED <<mail, drafts, rules, rerouted, ordered, refused, unfetched, cursor, post>>
  PROVE  MailInv'
<1>1. MailTypes
  BY DEF MailInv
<1>2. actor'[a].pc = "idle" /\ actor'[a].uids = <<>>
  BY <1>1, MailRestedTyped DEF MailTypes
<1>3. Placed(a)'
  BY <1>2 DEF Placed
<1>4. Polled(a)'
  <2>1. Len(actor'[a].uids) = 0
    BY <1>2
  <2>2. 0 <= Len(Mailbox)
    BY MailConstants
  <2>3. \A i \in 1 .. 0 : actor'[a].uids[i] = Len(Mailbox) - 0 + i
    OBVIOUS
  <2> QED
    BY <1>2, <2>1, <2>2, <2>3 DEF Polled
<1>5. post' \in [Letters -> {"unsent", "sent", "answered"}] /\ cursor' \in Uids \cup {0}
  BY <1>1 DEF MailTypes
<1> QED
  BY <1>3, <1>4, <1>5, MailRestedTyped, ActorMoves

LEMMA PollKeeps ==
  ASSUME MailInv, NEW p \in Pollers, PollStarts(p) PROVE MailInv'
<1> DEFINE n == Len(Mailbox) - cursor
           list == [i \in 1 .. n |-> cursor + i]
           row == [pc |-> "fetch", letter |-> actor[p].letter, uids |-> list]
<1>1. MailTypes /\ p \in MailActors /\ Progress
  BY DEF MailInv, MailActors
<1>2. cursor \in Nat /\ cursor < Len(Mailbox) /\ Len(Mailbox) \in Nat
  BY <1>1, MailConstants DEF PollStarts, MailTypes
<1>3. list \in Seq(Nat) /\ Len(list) = n /\ \A i \in 1 .. n : list[i] = cursor + i
  BY <1>2
<1>4. actor[p] \in ActorRow
  BY <1>1 DEF MailTypes
<1>5. /\ actor' = [actor EXCEPT ![p] = row]
      /\ UNCHANGED <<mail, drafts, rules, rerouted, ordered, refused, unfetched, cursor, post>>
  BY <1>1 DEF PollStarts, mailHistory, MailTypes
<1> HIDE DEF list
<1>6. row \in ActorRow
  BY <1>3, <1>4 DEF ActorRow, MailPc
<1>7. actor'[p].pc = "fetch" /\ actor'[p].uids = list
  BY <1>1, <1>5 DEF MailTypes
<1>8. Placed(p)'
  BY <1>7 DEF Placed
<1>9. Polled(p)'
  <2>1. \A u \in Uids : u <= cursor => Passed(u)'
    <3>1. \A u \in Uids : u <= cursor => Passed(u)
      BY <1>1 DEF Progress, AckedIsStored, Passed
    <3> QED
      BY <1>5, <3>1, AccountedStays
  <2>2. Len(actor'[p].uids) = n /\ n <= Len(Mailbox) /\ Len(Mailbox) - n = cursor
    BY <1>2, <1>3, <1>7
  <2>3. \A i \in 1 .. n : actor'[p].uids[i] = Len(Mailbox) - n + i
    <3>1. Len(Mailbox) - n = cursor
      BY <2>2
    <3>2. \A i \in 1 .. n : actor'[p].uids[i] = cursor + i
      BY <1>3, <1>7
    <3> HIDE DEF n
    <3> QED
      BY <3>1, <3>2
  <2> HIDE DEF n
  <2> QED
    BY <1>7, <2>1, <2>2, <2>3 DEF Polled
<1>10. post' \in [Letters -> {"unsent", "sent", "answered"}] /\ cursor' \in Uids \cup {0}
  BY <1>1, <1>5 DEF MailTypes
<1> HIDE DEF row
<1> QED
  BY <1>1, <1>5, <1>6, <1>8, <1>9, <1>10, ActorMoves

\* What is left of a list that runs to the mailbox's end.
LEMMA ListLeft ==
  ASSUME NEW s \in Seq(Nat), NEW n \in Nat, s # <<>>, Len(s) <= n,
         \A i \in 1 .. Len(s) : s[i] = n - Len(s) + i
  PROVE  /\ Len(s) \in Nat /\ Len(s) > 0 /\ Head(s) = s[1] /\ s[1] \in 1 .. n /\ s[1] = n - Len(s) + 1
         /\ Tail(s) \in Seq(Nat) /\ Len(Tail(s)) = Len(s) - 1
         /\ \A i \in 1 .. (Len(s) - 1) : Tail(s)[i] = n - (Len(s) - 1) + i
<1>1. Len(s) \in Nat /\ Len(s) > 0 /\ Head(s) = s[1]
  OBVIOUS
<1>2. 1 \in 1 .. Len(s)
  BY <1>1
<1>3. s[1] = n - Len(s) + 1
  BY <1>2
<1>4. s[1] \in 1 .. n
  BY <1>1, <1>3
<1>5. /\ Tail(s) \in Seq(Nat) /\ Len(Tail(s)) = Len(s) - 1
      /\ \A i \in 1 .. (Len(s) - 1) : Tail(s)[i] = s[i + 1]
  BY <1>1
<1>6. ASSUME NEW i \in 1 .. (Len(s) - 1) PROVE Tail(s)[i] = n - (Len(s) - 1) + i
  <2>1. i + 1 \in 1 .. Len(s)
    BY <1>1
  <2>2. s[i + 1] = n - Len(s) + (i + 1)
    BY <2>1
  <2> QED
    BY <1>1, <1>5, <2>2
<1> QED
  BY <1>1, <1>3, <1>4, <1>5, <1>6

\* A poll takes the first letter of its list, or leaves it behind.
LEMMA FetchKeeps ==
  ASSUME MailInv, NEW p \in Pollers, Fetch(p) PROVE MailInv'
<1> DEFINE u == actor[p].uids[1]
           l == Mailbox[u]
           row == [pc |-> IF Letter[l].mid = "none" THEN "save" ELSE "look", letter |-> l,
                   uids |-> actor[p].uids]
<1>1. MailTypes /\ p \in MailActors /\ Progress
  BY DEF MailInv, MailActors
<1>2. actor[p] \in ActorRow /\ Polled(p) /\ actor[p].pc = "fetch" /\ actor[p].uids # <<>>
  BY <1>1 DEF MailTypes, Progress, Fetch
<1>3. actor[p].uids \in Seq(Nat) /\ Len(actor[p].uids) \in Nat /\ Len(actor[p].uids) > 0
  BY <1>2 DEF ActorRow
<1>4. /\ Len(actor[p].uids) <= Len(Mailbox)
      /\ \A i \in 1 .. Len(actor[p].uids) : actor[p].uids[i] = Len(Mailbox) - Len(actor[p].uids) + i
  BY <1>2 DEF Polled
<1>6. Head(actor[p].uids) = u /\ u \in 1 .. Len(Mailbox)
  BY <1>2, <1>3, <1>4, MailConstants, ListLeft
<1>5. u \in Uids /\ l \in Letters
  BY <1>6, MailConstants
<1>7. /\ actor' = [actor EXCEPT ![p] = row]
      /\ refused' = IF Letter[l].mid = "none" THEN refused \cup {l} ELSE refused
      /\ UNCHANGED <<mail, drafts, rules, rerouted, ordered, unfetched, cursor, post>>
  BY <1>1, <1>6 DEF Fetch, NextUid, MailTypes
<1>8. row \in ActorRow
  BY <1>2, <1>5 DEF ActorRow, MailPc
<1>9. actor'[p] = row
  BY <1>1, <1>7 DEF MailTypes
<1>10. refused \subseteq refused' /\ (row.pc = "save" => l \in refused')
  BY <1>7
<1>11. Placed(p)'
  <2>1. row.pc \in {"save", "look"} /\ row.letter = l
    OBVIOUS
  <2>2. \A k : k \in refused' => Accounted(k)'
    BY DEF Accounted
  <2> HIDE DEF row, l
  <2> QED
    BY <1>9, <1>10, <2>1, <2>2 DEF Placed
<1>12. Polled(p)'
  <2>1. \A v \in Uids : Passed(v) => Passed(v)'
    BY <1>7, <1>10, AccountedStays
  <2>2. actor'[p].uids = actor[p].uids /\ actor'[p].letter = Mailbox[actor'[p].uids[1]]
    BY <1>9
  <2> QED
    BY <1>2, <1>3, <2>1, <2>2 DEF Polled
<1>13. post' \in [Letters -> {"unsent", "sent", "answered"}] /\ cursor' \in Uids \cup {0}
  BY <1>1, <1>7 DEF MailTypes
<1> HIDE DEF row
<1> QED
  BY <1>1, <1>7, <1>8, <1>10, <1>11, <1>12, <1>13, ActorMoves

LEMMA LastOrBefore ==
  ASSUME NEW w \in Nat, NEW n \in Nat, NEW k \in Nat, NEW v, v = n - k + 1, w <= v
  PROVE  w = v \/ w <= n - k
  OBVIOUS

LEMMA LeftBehind ==
  ASSUME MailInv, NEW p \in Pollers, NEW s, s = actor[p].uids, NEW v, v = s[1],
         actor[p].pc \in {"fetch", "save"}, s # <<>>,
         actor' = [actor EXCEPT ![p] = [pc |-> "fetch", letter |-> actor[p].letter, uids |-> Tail(s)]],
         UNCHANGED <<mail, drafts, rules, rerouted, ordered, refused, post>>,
         unfetched \subseteq unfetched', Passed(v)', cursor' \in {cursor, v}
  PROVE  MailInv'
<1> DEFINE row == [pc |-> "fetch", letter |-> actor[p].letter, uids |-> Tail(s)]
           k == Len(s) - 1
<1>1. MailTypes /\ p \in MailActors /\ Progress
  BY DEF MailInv, MailActors
<1>2. actor[p] \in ActorRow /\ Polled(p)
  BY <1>1 DEF MailTypes, Progress
<1>3. s \in Seq(Nat)
  BY <1>2 DEF ActorRow
<1>4. /\ Len(s) <= Len(Mailbox) /\ \A i \in 1 .. Len(s) : s[i] = Len(Mailbox) - Len(s) + i
      /\ \A w \in Uids : w <= Len(Mailbox) - Len(s) => Passed(w)
  BY <1>2 DEF Polled
<1>5. /\ Len(s) \in Nat /\ Len(s) > 0 /\ v \in 1 .. Len(Mailbox) /\ v = Len(Mailbox) - Len(s) + 1
      /\ Tail(s) \in Seq(Nat) /\ Len(Tail(s)) = k
      /\ \A i \in 1 .. k : Tail(s)[i] = Len(Mailbox) - k + i
  BY <1>3, <1>4, MailConstants, ListLeft
<1>6. k \in Nat /\ k <= Len(Mailbox) /\ Len(Mailbox) - k = v
  BY <1>4, <1>5, MailConstants
<1>7. row \in ActorRow
  BY <1>2, <1>5 DEF ActorRow, MailPc
<1>8. actor'[p] = row
  BY <1>1 DEF MailTypes
<1>9. Placed(p)'
  BY <1>8 DEF Placed
<1>10. \A w \in Uids : w <= v => Passed(w)'
  <2>1. \A w \in Uids : Passed(w) => Passed(w)'
    BY AccountedStays
  <2>2. ASSUME NEW w \in Uids, w <= v PROVE w = v \/ w <= Len(Mailbox) - Len(s)
    <3>1. w \in Nat /\ Len(Mailbox) \in Nat
      BY MailConstants
    <3>2. v = Len(Mailbox) - Len(s) + 1 /\ Len(s) \in Nat
      BY <1>5
    <3> QED
      BY <2>2, <3>1, <3>2, LastOrBefore
  <2> QED
    BY <1>4, <2>1, <2>2
<1> HIDE DEF k
<1>11. Polled(p)'
  <2>1. Len(actor'[p].uids) = k /\ actor'[p].uids = Tail(s) /\ actor'[p].pc = "fetch"
    BY <1>5, <1>8
  <2> QED
    BY <1>5, <1>6, <1>10, <2>1 DEF Polled
<1>12. post' \in [Letters -> {"unsent", "sent", "answered"}] /\ cursor' \in Uids \cup {0}
  BY <1>1, <1>5, MailConstants DEF MailTypes
<1>13. \A w \in Uids : w <= cursor' => w <= cursor \/ Passed(w)'
  BY <1>10
<1>14. actor' = [actor EXCEPT ![p] = row]
  OBVIOUS
<1> HIDE DEF row
<1> QED
  BY <1>1, <1>7, <1>9, <1>11, <1>12, <1>13, <1>14, ActorMoves

LEMMA FetchFailsKeeps ==
  ASSUME MailInv, NEW p \in Pollers, FetchFails(p) PROVE MailInv'
<1> SUFFICES ASSUME NEW s, s = actor[p].uids, NEW v, v = s[1] PROVE MailInv'
  OBVIOUS
<1>1. MailTypes /\ p \in MailActors
  BY DEF MailInv, MailActors
<1>2. s \in Seq(Nat) /\ s # <<>>
  BY <1>1 DEF MailTypes, ActorRow, FetchFails
<1>3. Head(s) = v
  BY <1>2
<1>4. /\ actor' = [actor EXCEPT ![p] = [pc |-> "fetch", letter |-> actor[p].letter, uids |-> Tail(s)]]
      /\ UNCHANGED <<mail, drafts, rules, rerouted, ordered, refused, post, cursor>>
      /\ unfetched' = unfetched \cup {v} /\ actor[p].pc = "fetch"
  BY <1>1, <1>3 DEF FetchFails, MailTypes, NextUid
<1>5. Passed(v)'
  BY <1>4 DEF Passed
<1> QED
  BY <1>2, <1>4, <1>5, LeftBehind

LEMMA SaveKeeps ==
  ASSUME MailInv, NEW p \in Pollers, SaveCursor(p) PROVE MailInv'
<1> SUFFICES ASSUME NEW s, s = actor[p].uids, NEW v, v = s[1] PROVE MailInv'
  OBVIOUS
<1>1. MailTypes /\ p \in MailActors /\ Progress
  BY DEF MailInv, MailActors
<1>2. /\ s \in Seq(Nat) /\ actor[p].pc = "save" /\ actor[p].letter \in Letters
      /\ Placed(p) /\ Polled(p)
  BY <1>1 DEF MailTypes, ActorRow, SaveCursor, Progress
<1>3. s # <<>> /\ actor[p].letter = Mailbox[v] /\ Accounted(actor[p].letter)
  BY <1>2 DEF Polled, Placed
<1>4. Head(s) = v
  BY <1>2, <1>3
<1>5. /\ actor' = [actor EXCEPT ![p] = [pc |-> "fetch", letter |-> actor[p].letter, uids |-> Tail(s)]]
      /\ UNCHANGED <<mail, drafts, rules, rerouted, ordered, refused, post, unfetched>>
      /\ cursor' = v
  BY <1>1, <1>4 DEF SaveCursor, MailTypes, NextUid, mailHistory
<1>6. Passed(v)'
  <2>1. \A l \in Letters : Accounted(l) => Accounted(l)'
    BY <1>5, AccountedStays
  <2>2. Mailbox[v] \in Letters /\ Accounted(Mailbox[v])
    BY <1>2, <1>3
  <2>3. Accounted(Mailbox[v])'
    BY <2>1, <2>2
  <2> QED
    BY <2>3 DEF Passed
<1> QED
  BY <1>2, <1>3, <1>5, <1>6, LeftBehind

-----------------------------------------------------------------------------
\* Actor a goes on with the letter it has.
LEMMA PcMoves ==
  ASSUME MailTypes, NEW a \in MailActors, NEW pc \in MailPc, actor' = [actor EXCEPT ![a].pc = pc],
         NEW row, row = [pc |-> pc, letter |-> actor[a].letter, uids |-> actor[a].uids]
  PROVE  /\ row \in ActorRow /\ actor' = [actor EXCEPT ![a] = row]
         /\ actor'[a] = row /\ actor' \in [MailActors -> ActorRow]
         /\ \A b \in MailActors \ {a} : actor'[b] = actor[b]
<1>1. actor[a] \in ActorRow /\ actor \in [MailActors -> ActorRow]
  BY DEF MailTypes
<1>2. row \in ActorRow /\ [actor[a] EXCEPT !.pc = pc] = row
  BY <1>1 DEF ActorRow
<1>3. actor' = [actor EXCEPT ![a] = row]
  BY <1>2
<1> QED
  BY <1>1, <1>2, <1>3

\* A poll that goes on with its letter has the same list before it.
LEMMA PollGoesOn ==
  ASSUME NEW p \in Pollers, Polled(p), actor[p].pc \in {"look", "land"},
         actor'[p].uids = actor[p].uids, actor'[p].letter = actor[p].letter,
         \A u \in Uids : Passed(u) => Passed(u)'
  PROVE  Polled(p)'
  BY DEF Polled

\* What Handled leaves of actor a.
LEMMA HandledKeeps ==
  ASSUME MailInv, NEW a \in MailActors, actor[a].pc \in {"look", "land"}, Handled(a),
         UNCHANGED <<rules, ordered, rerouted, post, cursor, unfetched>>, refused \subseteq refused',
         mail' \in [MessageIds -> MailRow], drafts' \in [MessageIds -> Nat],
         \A m \in MessageIds : mail[m].status # "absent" => mail'[m].status # "absent",
         NEW l, l = actor[a].letter, Accounted(l)', DraftsTell', NoInfectedAttachment'
  PROVE  MailInv'
<1> DEFINE pc == IF a \in Hooks THEN "answer" ELSE "save"
           row == [pc |-> pc, letter |-> actor[a].letter, uids |-> actor[a].uids]
<1>1. MailTypes /\ Progress /\ OrderKept
  BY DEF MailInv
<1>2. /\ row \in ActorRow /\ actor' = [actor EXCEPT ![a] = row]
      /\ actor'[a] = row /\ actor' \in [MailActors -> ActorRow]
      /\ \A b \in MailActors \ {a} : actor'[b] = actor[b]
  <2>1. pc \in MailPc /\ actor' = [actor EXCEPT ![a].pc = pc]
    BY DEF MailPc, Handled
  <2> HIDE DEF pc
  <2> QED
    BY <1>1, <2>1, PcMoves
<1>3. actor'[a].letter = l /\ actor'[a].uids = actor[a].uids /\ actor'[a].pc \in {"answer", "save"}
  BY <1>2
<1>4. Placed(a)'
  BY <1>3 DEF Placed
<1>5. a \in Pollers => Polled(a)'
  <2>1. \A u \in Uids : Passed(u) => Passed(u)'
    BY AccountedStays
  <2> QED
    BY <1>1, <1>3, <2>1, PollGoesOn DEF Progress
<1>6. MailTypes'
  BY <1>1, <1>2 DEF MailTypes
<1>7. OrderKept'
  BY <1>1, OrderStays
<1> QED
  BY <1>2, <1>4, <1>5, <1>6, <1>7, MailStepKeeps

LEMMA LookKeeps ==
  ASSUME MailInv, NEW a \in MailActors, Look(a) PROVE MailInv'
<1> SUFFICES ASSUME NEW l, l = actor[a].letter PROVE MailInv'
  OBVIOUS
<1>1. MailTypes /\ Progress /\ DraftsTell /\ NoInfectedAttachment
  BY DEF MailInv
<1>2. /\ UNCHANGED <<mail, drafts, rules, ordered, rerouted, post, cursor, unfetched>>
      /\ actor[a].pc = "look" /\ l \in Letters
  BY <1>1 DEF Look, MailTypes, ActorRow
<1>3. DraftsTell' /\ NoInfectedAttachment'
  BY <1>1, <1>2, StoredStays
<1>4. mail' \in [MessageIds -> MailRow] /\ drafts' \in [MessageIds -> Nat]
  BY <1>1, <1>2 DEF MailTypes
<1>5. CASE mail[Letter[l].mid].status # "absent"
  <2>1. Handled(a) /\ refused' = refused
    BY <1>5 DEF Look
  <2>2. Accounted(l)'
    BY <1>2, <1>5 DEF Accounted
  <2> QED
    BY <1>2, <1>3, <1>4, <2>1, <2>2, HandledKeeps
<1>6. CASE mail[Letter[l].mid].status = "absent" /\ Turned(l)
  <2>1. Handled(a) /\ refused' = refused \cup {l}
    BY <1>6 DEF Look
  <2>2. Accounted(l)'
    BY <2>1 DEF Accounted
  <2> QED
    BY <1>2, <1>3, <1>4, <2>1, <2>2, HandledKeeps
<1>7. CASE mail[Letter[l].mid].status = "absent" /\ ~Turned(l)
  <2> SUFFICES ASSUME NEW row, NEW pc, pc = "land",
                      row = [pc |-> pc, letter |-> actor[a].letter, uids |-> actor[a].uids]
               PROVE  MailInv'
    OBVIOUS
  <2>1. actor' = [actor EXCEPT ![a].pc = pc] /\ refused' = refused
    BY <1>7 DEF Look
  <2>2. pc \in MailPc
    BY DEF MailPc
  <2>3. row \in ActorRow /\ actor' = [actor EXCEPT ![a] = row] /\ actor'[a] = row
    <3>1. actor[a] \in ActorRow /\ actor \in [MailActors -> ActorRow]
      BY <1>1 DEF MailTypes
    <3>2. row \in ActorRow /\ [actor[a] EXCEPT !.pc = pc] = row
      BY <2>2, <3>1 DEF ActorRow
    <3>3. actor' = [actor EXCEPT ![a] = row]
      BY <2>1, <3>2
    <3> QED
      BY <3>1, <3>2, <3>3
  <2>4. Placed(a)'
    BY <1>7, <2>2, <2>3 DEF Placed
  <2>5. a \in Pollers => Polled(a)'
    <3>1. \A u \in Uids : Passed(u) => Passed(u)'
      BY <1>2, <2>1, AccountedStays
    <3>2. actor'[a].uids = actor[a].uids /\ actor'[a].letter = actor[a].letter
      BY <2>2, <2>3
    <3> QED
      BY <1>1, <1>2, <3>1, <3>2, PollGoesOn DEF Progress
  <2>6. post' \in [Letters -> {"unsent", "sent", "answered"}] /\ cursor' \in Uids \cup {0}
    BY <1>1, <1>2 DEF MailTypes
  <2> QED
    BY <1>2, <2>1, <2>3, <2>4, <2>5, <2>6, ActorMoves
<1> QED
  BY <1>5, <1>6, <1>7

-----------------------------------------------------------------------------
\* What the scanner let pass is clean, when it is asked and trouble counts.
LEMMA KeptClean ==
  ASSUME NEW l, NEW clamd \in Clamd, AvFailClosed, AvBackend = "clamd", NEW f \in Kept(l, clamd)
  PROVE  f.bytes \notin {"virus", "eicar"}
<1>1. PICK i \in DOMAIN Attachments(l) : /\ f.bytes = Attachments(l)[i].bytes
                                         /\ Stores(Attachments(l)[i].bytes, clamd)
  BY DEF Kept
<1>2. ASSUME NEW bytes, Stores(bytes, clamd) PROVE bytes \notin {"virus", "eicar"}
  BY <1>2 DEF Stores, EnforceClean, ScanBytes, Backend, ClamdScan, ClamdAnswer, Clamd
<1> QED
  BY <1>1, <1>2

LEMMA RouteTyped ==
  ASSUME NEW l, NEW atts
  PROVE  RouteResult(l, atts).status \in MailStatus /\ RouteResult(l, atts).draft \in BOOLEAN
  BY DEF RouteResult, MailStatus

LEMMA MailRowTyped ==
  ASSUME NEW st \in MailStatus, NEW l \in Letters, NEW atts \in SUBSET Files, NEW draft \in BOOLEAN
  PROVE  [status |-> st, letter |-> l, atts |-> atts, draft |-> draft] \in MailRow
  BY DEF MailRow

LEMMA LandedTyped ==
  ASSUME NEW l \in Letters, NEW clamd \in Clamd, NEW row, row = Landed(l, clamd)
  PROVE  /\ row \in MailRow /\ row.status # "absent" /\ row.letter = l
         /\ row.atts = Kept(l, clamd) /\ (Held(l) => ~row.draft)
<1> SUFFICES ASSUME NEW atts, atts = Kept(l, clamd), NEW result,
                    result = IF Held(l) THEN [status |-> "quarantined", draft |-> FALSE]
                             ELSE RouteResult(l, atts)
             PROVE  /\ row \in MailRow /\ row.status # "absent" /\ row.letter = l
                    /\ row.atts = Kept(l, clamd) /\ (Held(l) => ~row.draft)
  OBVIOUS
<1>1. row = [status |-> result.status, letter |-> l, atts |-> atts, draft |-> result.draft]
  BY DEF Landed
<1>2. result.status \in MailStatus /\ result.draft \in BOOLEAN /\ (Held(l) => ~result.draft)
  <2>1. RouteResult(l, atts).status \in MailStatus /\ RouteResult(l, atts).draft \in BOOLEAN
    BY RouteTyped
  <2>2. "quarantined" \in MailStatus
    BY DEF MailStatus
  <2>3. CASE Held(l)
    BY <2>2, <2>3
  <2>4. CASE ~Held(l)
    BY <2>1, <2>4
  <2> QED
    BY <2>3, <2>4
<1>3. atts \subseteq Files
  BY DEF Files
<1>4. row.status # "absent"
  BY <1>1, <1>2 DEF MailStatus
<1>5. row \in MailRow
  BY <1>1, <1>2, <1>3, MailRowTyped
<1> QED
  BY <1>1, <1>2, <1>4, <1>5

LEMMA LandKeeps ==
  ASSUME MailInv, NEW a \in MailActors, NEW clamd \in Clamd, Land(a, clamd) PROVE MailInv'
<1> SUFFICES ASSUME NEW l, l = actor[a].letter, NEW m, m = Letter[l].mid, NEW row, row = Landed(l, clamd)
             PROVE  MailInv'
  OBVIOUS
<1>1. MailTypes /\ Progress /\ DraftsTell /\ NoInfectedAttachment
  BY DEF MailInv
<1>2. /\ UNCHANGED <<rules, ordered, rerouted, post, cursor, unfetched, refused>> /\ Handled(a)
      /\ actor[a].pc = "land" /\ l \in Letters /\ m \in MessageIds
  BY <1>1 DEF Land, MailTypes, ActorRow, MessageIds, mailHistory
<1>3. CASE mail[m].status # "absent"
  <2>1. UNCHANGED <<mail, drafts>>
    BY <1>3 DEF Land
  <2>2. DraftsTell' /\ NoInfectedAttachment'
    BY <1>1, <1>2, <2>1, StoredStays
  <2>3. mail' \in [MessageIds -> MailRow] /\ drafts' \in [MessageIds -> Nat]
    BY <1>1, <2>1 DEF MailTypes
  <2>4. Accounted(l)'
    BY <1>3, <2>1 DEF Accounted
  <2> QED
    BY <1>2, <2>1, <2>2, <2>3, <2>4, HandledKeeps
<1>4. CASE mail[m].status = "absent"
  <2>1. /\ mail' = [mail EXCEPT ![m] = row]
        /\ drafts' = [drafts EXCEPT ![m] = IF row.draft THEN @ + 1 ELSE @]
    BY <1>4 DEF Land
  <2>2. /\ row \in MailRow /\ row.status # "absent" /\ row.letter = l
        /\ row.atts = Kept(l, clamd) /\ (Held(l) => ~row.draft)
    BY <1>2, LandedTyped
  <2>3. /\ mail' \in [MessageIds -> MailRow] /\ drafts' \in [MessageIds -> Nat]
        /\ mail'[m] = row /\ \A k \in MessageIds \ {m} : mail'[k] = mail[k] /\ drafts'[k] = drafts[k]
    BY <1>1, <1>2, <2>1, <2>2 DEF MailTypes
  <2>4. drafts[m] = 0 /\ rerouted[m] \in Nat
    BY <1>1, <1>2, <1>4 DEF DraftsTell, DraftTells, MailTypes
  <2>5. drafts'[m] = IF row.draft THEN 1 ELSE 0
    BY <1>1, <1>2, <2>1, <2>4 DEF MailTypes
  <2>6. ~Turned(l)
    BY <1>1, <1>2 DEF Progress, Placed
  <2>7. ASSUME NEW k \in MessageIds PROVE DraftTells(k)'
    <3>1. CASE k = m
      <4>1. /\ mail'[m].status # "absent" /\ mail'[m].letter = l /\ mail'[m].draft = row.draft
            /\ rerouted'[m] = rerouted[m] /\ Letter[l].mid = m
        BY <1>2, <2>2, <2>3
      <4>2. (row.draft => drafts'[m] = 1) /\ (~row.draft => drafts'[m] = 0)
        BY <2>5
      <4>3. Held(l) => ~row.draft
        BY <2>2
      <4> QED
        BY <2>4, <2>6, <3>1, <4>1, <4>2, <4>3 DEF DraftTells
    <3>2. CASE k # m
      BY <1>1, <1>2, <2>3, <3>2 DEF DraftTells, DraftsTell
    <3> QED
      BY <3>1, <3>2
  <2>8. NoInfectedAttachment'
    <3>1. AvFailClosed /\ AvBackend = "clamd" => \A f \in row.atts : f.bytes \notin {"virus", "eicar"}
      BY <2>2, KeptClean
    <3> QED
      BY <1>1, <2>3, <3>1 DEF NoInfectedAttachment
  <2>9. Accounted(l)'
    BY <2>2, <2>3 DEF Accounted
  <2>10. DraftsTell'
    BY <2>7 DEF DraftsTell
  <2>11. \A k \in MessageIds : mail[k].status # "absent" => mail'[k].status # "absent"
    BY <2>2, <2>3
  <2> QED
    BY <1>2, <2>3, <2>8, <2>9, <2>10, <2>11, HandledKeeps
<1> QED
  BY <1>3, <1>4

LEMMA RetryKeeps ==
  ASSUME MailInv, NEW m \in MessageIds, RetryRouting(m) PROVE MailInv'
<1> SUFFICES ASSUME NEW result, result = RouteResult(mail[m].letter, mail[m].atts), NEW row,
                    row = [status |-> result.status, letter |-> mail[m].letter,
                           atts |-> mail[m].atts, draft |-> result.draft]
             PROVE  MailInv'
  OBVIOUS
<1>1. MailTypes /\ DraftsTell /\ NoInfectedAttachment /\ OrderKept
  BY DEF MailInv
<1>2. /\ mail' = [mail EXCEPT ![m] = row]
      /\ drafts' = [drafts EXCEPT ![m] = IF result.draft THEN @ + 1 ELSE @]
      /\ rerouted' = [rerouted EXCEPT ![m] = @ + 1]
      /\ UNCHANGED <<actor, post, cursor, refused, unfetched, rules, ordered>>
      /\ mail[m].status # "absent"
  BY <1>1 DEF RetryRouting, MailTypes
<1>3. result.status \in MailStatus /\ result.draft \in BOOLEAN
  BY RouteTyped
<1>4. mail[m] \in MailRow /\ drafts[m] \in Nat /\ rerouted[m] \in Nat /\ DraftTells(m)
  BY <1>1 DEF MailTypes, DraftsTell
<1>5. /\ row \in MailRow /\ row.status # "absent" /\ row.letter = mail[m].letter
      /\ row.atts = mail[m].atts /\ row.draft = result.draft
  BY <1>3, <1>4 DEF MailRow, MailStatus
<1>6. /\ mail' \in [MessageIds -> MailRow] /\ drafts' \in [MessageIds -> Nat]
      /\ rerouted' \in [MessageIds -> Nat]
      /\ mail'[m] = row /\ rerouted'[m] = rerouted[m] + 1
      /\ drafts'[m] = IF result.draft THEN drafts[m] + 1 ELSE drafts[m]
      /\ \A k \in MessageIds \ {m} : mail'[k] = mail[k] /\ drafts'[k] = drafts[k] /\ rerouted'[k] = rerouted[k]
  BY <1>1, <1>2, <1>4, <1>5 DEF MailTypes
<1>7. ASSUME NEW k \in MessageIds PROVE DraftTells(k)'
  <2>1. CASE k = m
    BY <1>2, <1>4, <1>5, <1>6, <2>1 DEF DraftTells
  <2>2. CASE k # m
    BY <1>1, <1>6, <2>2 DEF DraftTells, DraftsTell
  <2> QED
    BY <2>1, <2>2
<1>8. NoInfectedAttachment'
  BY <1>1, <1>5, <1>6 DEF NoInfectedAttachment
<1>9. OrderKept'
  BY <1>1, <1>2, OrderStays
<1>10. MailTypes'
  BY <1>1, <1>2, <1>6 DEF MailTypes
<1>11. \A k \in MessageIds : mail[k].status # "absent" => mail'[k].status # "absent"
  BY <1>5, <1>6
<1>12. DraftsTell'
  BY <1>7 DEF DraftsTell
<1> QED
  BY <1>2, <1>8, <1>9, <1>10, <1>11, <1>12, OperatorKeeps

LEMMA QuarantineKeeps ==
  ASSUME MailInv, NEW m \in MessageIds, Quarantine(m) PROVE MailInv'
<1> SUFFICES ASSUME NEW row, row = [mail[m] EXCEPT !.status = "quarantined"] PROVE MailInv'
  OBVIOUS
<1>1. MailTypes /\ DraftsTell /\ NoInfectedAttachment /\ OrderKept
  BY DEF MailInv
<1>2. /\ mail' = [mail EXCEPT ![m] = row]
      /\ UNCHANGED <<actor, post, cursor, refused, unfetched, rules, ordered, drafts, rerouted>>
      /\ mail[m].status # "absent"
  BY <1>1 DEF Quarantine, MailTypes, mailHistory
<1>3. mail[m] \in MailRow /\ DraftTells(m)
  BY <1>1 DEF MailTypes, DraftsTell
<1>4. /\ row \in MailRow /\ row.status # "absent" /\ row.letter = mail[m].letter
      /\ row.atts = mail[m].atts /\ row.draft = mail[m].draft
  BY <1>3 DEF MailRow, MailStatus
<1>5. /\ mail' \in [MessageIds -> MailRow] /\ mail'[m] = row
      /\ \A k \in MessageIds \ {m} : mail'[k] = mail[k]
  BY <1>1, <1>2, <1>4 DEF MailTypes
<1>6. ASSUME NEW k \in MessageIds PROVE DraftTells(k)'
  <2>1. CASE k = m
    BY <1>2, <1>3, <1>4, <1>5, <2>1 DEF DraftTells
  <2>2. CASE k # m
    BY <1>1, <1>2, <1>5, <2>2 DEF DraftTells, DraftsTell
  <2> QED
    BY <2>1, <2>2
<1>7. NoInfectedAttachment'
  <2>1. \A k \in MessageIds : mail'[k].atts = mail[k].atts
    BY <1>4, <1>5
  <2> QED
    BY <1>1, <2>1 DEF NoInfectedAttachment
<1>8. OrderKept'
  BY <1>1, <1>2, OrderStays
<1>9. MailTypes'
  BY <1>1, <1>2, <1>5 DEF MailTypes
<1>10. \A k \in MessageIds : mail[k].status # "absent" => mail'[k].status # "absent"
  BY <1>4, <1>5
<1>11. DraftsTell'
  BY <1>6 DEF DraftsTell
<1> QED
  BY <1>2, <1>7, <1>8, <1>9, <1>10, <1>11, OperatorKeeps

-----------------------------------------------------------------------------
\* An edit of the rules touches nothing else.
LEMMA EditKeeps ==
  ASSUME MailInv, UNCHANGED <<mail, drafts, rerouted, actor, post, cursor, refused, unfetched>>, OrderKept'
  PROVE  MailInv'
<1>1. MailTypes /\ DraftsTell /\ NoInfectedAttachment
  BY DEF MailInv
<1>2. DraftsTell' /\ NoInfectedAttachment'
  BY <1>1, StoredStays
<1>3. MailTypes'
  BY <1>1 DEF MailTypes
<1> QED
  BY <1>2, <1>3, OperatorKeeps

LEMMA CreateRuleKeeps ==
  ASSUME MailInv, NEW r \in Rules, NEW prio \in Priorities, NEW active \in BOOLEAN,
         CreateRule(r, prio, active)
  PROVE  MailInv'
<1>1. rules \in [Rules -> {NoRule} \cup RuleRow]
  BY DEF MailInv, OrderKept
<1>2. RuleDef[r].action \in RuleActions /\ prio \in Nat
  BY MailAssumption
<1>3. [prio |-> prio, active |-> active, action |-> RuleDef[r].action] \in RuleRow
  BY <1>2 DEF RuleRow
<1>4. rules' \in [Rules -> {NoRule} \cup RuleRow] /\ ordered' = {}
  BY <1>1, <1>3 DEF CreateRule
<1>5. OrderKept'
  BY <1>4 DEF OrderKept
<1> QED
  BY <1>5, EditKeeps DEF CreateRule

LEMMA PatchTyped ==
  ASSUME NEW patch \in Patches
  PROVE  \/ patch[1] = "prio" /\ patch[2] \in Nat
         \/ patch[1] = "active" /\ patch[2] \in BOOLEAN
         \/ patch[1] = "action" /\ patch[2] \in RuleActions
<1>1. \/ patch[1] = "prio" /\ patch[2] \in 0 .. 999
      \/ patch[1] = "active" /\ patch[2] \in BOOLEAN
      \/ patch[1] = "action" /\ patch[2] \in RuleActions
  BY MailAssumption, ZenonT(30)
<1>2. 0 .. 999 \subseteq Nat
  OBVIOUS
<1> QED
  BY <1>1, <1>2

LEMMA UpdateRuleKeeps ==
  ASSUME MailInv, NEW r \in Rules, NEW patch \in Patches, UpdateRule(r, patch[1], patch[2])
  PROVE  MailInv'
<1>1. rules \in [Rules -> {NoRule} \cup RuleRow] /\ rules[r] # NoRule
  BY DEF MailInv, OrderKept, UpdateRule
<1>2. rules[r] \in RuleRow
  BY <1>1
<1>3. \/ patch[1] = "prio" /\ patch[2] \in Nat
      \/ patch[1] = "active" /\ patch[2] \in BOOLEAN
      \/ patch[1] = "action" /\ patch[2] \in RuleActions
  BY PatchTyped
<1>4. [rules[r] EXCEPT ![patch[1]] = patch[2]] \in RuleRow
  <2>1. CASE patch[1] = "prio" /\ patch[2] \in Nat
    BY <1>2, <2>1 DEF RuleRow
  <2>2. CASE patch[1] = "active" /\ patch[2] \in BOOLEAN
    BY <1>2, <2>2 DEF RuleRow
  <2>3. CASE patch[1] = "action" /\ patch[2] \in RuleActions
    BY <1>2, <2>3 DEF RuleRow
  <2> QED
    BY <1>3, <2>1, <2>2, <2>3
<1>5. rules' = [rules EXCEPT ![r] = [rules[r] EXCEPT ![patch[1]] = patch[2]]] /\ ordered' = {}
  BY DEF UpdateRule
<1>6. rules' \in [Rules -> {NoRule} \cup RuleRow]
  BY <1>1, <1>4, <1>5
<1>7. OrderKept'
  BY <1>5, <1>6 DEF OrderKept
<1> QED
  BY <1>7, EditKeeps DEF UpdateRule

LEMMA DeleteRuleKeeps ==
  ASSUME MailInv, NEW r \in Rules, DeleteRule(r) PROVE MailInv'
<1>1. OrderKept
  BY DEF MailInv
<1>2. /\ rules' = [rules EXCEPT ![r] = NoRule]
      /\ ordered' = {pair \in ordered : r \notin {pair[1], pair[2]}}
  BY DEF DeleteRule
<1>3. rules' \in [Rules -> {NoRule} \cup RuleRow] /\ ordered' \subseteq Rules \X Rules
  BY <1>1, <1>2 DEF OrderKept
<1>4. ASSUME NEW pair \in ordered'
      PROVE  /\ rules'[pair[1]] # NoRule /\ rules'[pair[2]] # NoRule
             /\ rules'[pair[1]].prio < rules'[pair[2]].prio
  <2>1. pair \in ordered /\ pair[1] \in Rules \ {r} /\ pair[2] \in Rules \ {r}
    BY <1>1, <1>2, <1>4 DEF OrderKept
  <2>2. rules'[pair[1]] = rules[pair[1]] /\ rules'[pair[2]] = rules[pair[2]]
    BY <1>1, <1>2, <2>1 DEF OrderKept
  <2> QED
    BY <1>1, <2>1, <2>2 DEF OrderKept
<1>5. OrderKept'
  BY <1>3, <1>4 DEF OrderKept
<1> QED
  BY <1>5, EditKeeps DEF DeleteRule

LEMMA OrdersListed ==
  ASSUME NEW order \in Orders
  PROVE  /\ DOMAIN order \subseteq Nat /\ \A i \in DOMAIN order : order[i] \in Rules
         /\ \A i, k \in DOMAIN order : order[i] = order[k] => i = k
<1>1. order \in SeqOf(Rules, Cardinality(Rules)) /\ IsInjective(order)
  BY DEF Orders
<1>2. PICK n \in 0 .. Cardinality(Rules) : order \in [1 .. n -> Rules]
  BY <1>1 DEF SeqOf
<1>3. \A i, k \in DOMAIN order : order[i] = order[k] => i = k
  BY <1>1 DEF IsInjective
<1> QED
  BY <1>2, <1>3

LEMMA ReorderKeeps ==
  ASSUME MailInv, NEW order \in Orders, ReorderRules(order) PROVE MailInv'
<1> DEFINE Place(r) == CHOOSE i \in DOMAIN order : order[i] = r
           Listed(r) == \E i \in DOMAIN order : order[i] = r
<1>1. OrderKept
  BY DEF MailInv
<1>2. /\ rules' = [r \in Rules |-> IF Listed(r) THEN [rules[r] EXCEPT !.prio = 10 * Place(r)] ELSE rules[r]]
      /\ ordered' = {pair \in Rules \X Rules :
                      \E i, k \in DOMAIN order : i < k /\ pair = <<order[i], order[k]>>}
      /\ \A i \in DOMAIN order : rules[order[i]] # NoRule
  BY DEF ReorderRules
<1>3. \A i \in DOMAIN order : Place(order[i]) = i /\ order[i] \in Rules /\ i \in Nat
  BY OrdersListed
<1>4. ASSUME NEW i \in DOMAIN order
      PROVE  /\ rules'[order[i]] \in RuleRow /\ rules'[order[i]].prio = 10 * i
             /\ rules'[order[i]] # NoRule
  <2>1. Listed(order[i]) /\ Place(order[i]) = i /\ order[i] \in Rules /\ i \in Nat
    BY <1>3
  <2> HIDE DEF Listed, Place
  <2>2. rules'[order[i]] = [rules[order[i]] EXCEPT !.prio = 10 * i]
    BY <1>2, <2>1
  <2>3. rules[order[i]] \in RuleRow
    BY <1>1, <1>2, <2>1 DEF OrderKept
  <2>4. rules'[order[i]] \in RuleRow /\ rules'[order[i]].prio = 10 * i
    BY <2>1, <2>2, <2>3 DEF RuleRow
  <2>5. rules'[order[i]].action # "none"
    BY <2>4 DEF RuleRow, RuleActions
  <2> QED
    BY <2>4, <2>5 DEF NoRule
<1>5. rules' \in [Rules -> {NoRule} \cup RuleRow]
  <2>1. ASSUME NEW r \in Rules PROVE rules'[r] \in {NoRule} \cup RuleRow
    <3>1. CASE Listed(r)
      BY <1>4, <3>1
    <3>2. CASE ~Listed(r)
      <4> HIDE DEF Listed, Place
      <4> QED
        BY <1>1, <1>2, <3>2 DEF OrderKept
    <3> QED
      BY <3>1, <3>2
  <2>2. rules' = [r \in Rules |-> rules'[r]]
    BY <1>2
  <2> QED
    BY <2>1, <2>2
<1>6. ASSUME NEW pair \in ordered'
      PROVE  /\ rules'[pair[1]] # NoRule /\ rules'[pair[2]] # NoRule
             /\ rules'[pair[1]].prio < rules'[pair[2]].prio
  <2>1. PICK i \in DOMAIN order, k \in DOMAIN order : i < k /\ pair = <<order[i], order[k]>>
    BY <1>2
  <2>2. i \in Nat /\ k \in Nat /\ i < k /\ pair[1] = order[i] /\ pair[2] = order[k]
    BY <1>3, <2>1
  <2>3. 10 * i < 10 * k
    BY <2>2
  <2> QED
    BY <1>4, <2>2, <2>3
<1>7. ordered' \subseteq Rules \X Rules
  BY <1>2
<1>8. OrderKept'
  BY <1>5, <1>6, <1>7 DEF OrderKept
<1> QED
  BY <1>8, EditKeeps DEF ReorderRules

-----------------------------------------------------------------------------
LEMMA MailStep == MailInv /\ [MailNext]_mailVars => MailInv'
<1> SUFFICES ASSUME MailInv, [MailNext]_mailVars PROVE MailInv'
  OBVIOUS
<1>1. ASSUME NEW a \in MailActors, MailWorks(a) \/ MailActorDies(a) PROVE MailInv'
  <2>1. CASE Look(a)
    BY <2>1, LookKeeps
  <2>2. CASE \E clamd \in Clamd : Land(a, clamd)
    BY <2>2, LandKeeps
  <2>3. CASE a \in Hooks /\ PostmarkAnswered(a)
    BY <2>3, AnsweredKeeps
  <2>4. CASE a \in Pollers /\ Fetch(a)
    BY <2>4, FetchKeeps
  <2>5. CASE a \in Pollers /\ SaveCursor(a)
    BY <2>5, SaveKeeps
  <2>6. CASE a \in Pollers /\ PollEnds(a)
    BY <2>6, RestedKeeps DEF PollEnds, mailHistory
  <2>7. CASE MailActorDies(a)
    BY <2>7, RestedKeeps DEF MailActorDies, mailHistory
  <2> QED
    BY <1>1, <2>1, <2>2, <2>3, <2>4, <2>5, <2>6, <2>7 DEF MailWorks
<1>2. ASSUME NEW h \in Hooks, NEW l \in Letters, PostmarkSends(h, l) PROVE MailInv'
  BY <1>2, SendsKeeps
<1>3. ASSUME NEW p \in Pollers, PollStarts(p) \/ FetchFails(p) PROVE MailInv'
  BY <1>3, PollKeeps, FetchFailsKeeps
<1>4. ASSUME NEW m \in MessageIds, RetryRouting(m) \/ Quarantine(m) PROVE MailInv'
  BY <1>4, RetryKeeps, QuarantineKeeps
<1>5. CASE Deliveries
  BY <1>1, <1>2, <1>3, <1>4, <1>5 DEF Deliveries
<1>6. CASE RuleEdits
  BY <1>6, DeleteRuleKeeps, CreateRuleKeeps, UpdateRuleKeeps, ReorderKeeps DEF RuleEdits
<1>7. CASE UNCHANGED mailVars
  <2>1. UNCHANGED <<mail, drafts, rerouted, actor, post, cursor, refused, unfetched, rules, ordered>>
    BY <1>7 DEF mailVars
  <2>2. OrderKept'
    BY <2>1, OrderStays DEF MailInv
  <2> QED
    BY <2>1, <2>2, EditKeeps
<1> QED
  BY <1>5, <1>6, <1>7 DEF MailNext

LEMMA MailInvSound == MailInv => MailSound
<1> SUFFICES ASSUME MailInv PROVE MailSound
  OBVIOUS
<1>1. MailTypes /\ Progress /\ DraftsTell /\ NoInfectedAttachment /\ OrderKept
  BY DEF MailInv
<1>2. InboundTypeOK
  <2>1. ASSUME NEW m \in MessageIds
        PROVE  /\ mail[m].status \in MailStatus \cup {"absent"}
               /\ mail[m].status # "absent" => Letter[mail[m].letter].mid = m /\ ~Turned(mail[m].letter)
               /\ mail[m].draft => drafts[m] > 0
    BY <1>1 DEF MailTypes, MailRow, DraftsTell, DraftTells
  <2>2. ASSUME NEW a \in MailActors
        PROVE  /\ actor[a].pc \in {"idle", "look", "land", "answer", "fetch", "save"}
               /\ actor[a].pc = "idle" => actor[a].uids = <<>>
    BY <1>1 DEF MailTypes, ActorRow, MailPc, Progress, Placed
  <2>3. \A r \in Rules : rules[r] \in {NoRule} \cup RuleRow
    BY <1>1 DEF OrderKept
  <2>4. /\ drafts \in [MessageIds -> Nat] /\ post \in [Letters -> {"unsent", "sent", "answered"}]
        /\ cursor \in Uids \cup {0}
    BY <1>1 DEF MailTypes
  <2> QED
    BY <2>1, <2>2, <2>3, <2>4 DEF InboundTypeOK
<1>3. AckedIsStored
  BY <1>1 DEF Progress
<1>4. OneDraftPerRouting
  BY <1>1 DEF DraftsTell, DraftTells, OneDraftPerRouting
<1>5. SpamHeld
  BY <1>1 DEF DraftsTell, DraftTells, SpamHeld, Held
<1>6. ReorderRespected
  <2>1. ASSUME NEW l \in Letters, NEW pair \in ordered, pair[1] \in Matching(l, {}),
               pair[2] \in SelectRule(l, {})
        PROVE  FALSE
    <3>1. /\ rules[pair[1]].prio < rules[pair[2]].prio
          /\ rules[pair[1]].prio \in Nat /\ rules[pair[2]].prio \in Nat
      BY <1>1 DEF OrderKept, RuleRow
    <3>2. pair[1] # pair[2]
      BY <3>1
    <3>3. Before(pair[2], pair[1])
      BY <2>1, <3>2 DEF SelectRule
    <3> QED
      BY <3>1, <3>3 DEF Before
  <2> QED
    BY <2>1 DEF ReorderRespected
<1> QED
  BY <1>1, <1>2, <1>3, <1>4, <1>5, <1>6 DEF MailSound

\* Inbound mail, over polls, webhooks, failing fetches and rule edits that
\* overlap: what was acknowledged is kept or turned away by a rule, and a
\* letter is kept once, without what the scanner refused (poll, ingest, reorder).
THEOREM MailSafe == MailSpec => []MailSound
<1> QED
  BY MailStart, MailStep, MailInvSound, PTL DEF MailSpec

-----------------------------------------------------------------------------
(* The records *)

\* The key was given out.
Known(i) == i \in DOMAIN FirstSuppliers \cup {FirstId} \/ \E e \in trail : e.op = "create" /\ e.id = i

\* Key i is one of tenant t, if its row is still there.
Ref(i, t) ==
  /\ Known(i)
  /\ i \in Live => rows[i].tenant = t
  /\ i \in DOMAIN FirstSuppliers => FirstSuppliers[i].tenant = t

\* What an update loaded.
LoadedOK(x, l) ==
  /\ DOMAIN l = ColumnsOf(x.kind)
  /\ x.kind \in {"schedule", "form"} =>
       l.content # NullJson /\ (x.id \notin retyped => l.hash = Sha(l.content))
  /\ x.kind = "schedule" /\ x.id \notin retyped \cup disturbed => l.count = Len(l.content)
  /\ x.kind = "form" /\ l.next # 0 => l.next \in RecordIds /\ Ref(l.next, x.tenant)

\* A request that passed its reads, and one that passed the check of the successor.
Pending(x, l) ==
  /\ x \in Inputs[kind] /\ Valid(x)
  /\ x.op = "create" /\ x.kind # "supplier" => Ref(x.p.supplier, x.tenant)
  /\ x.op # "create" => x.id \in TableIds(x.kind) /\ Ref(x.id, x.tenant)
  /\ x.op = "update" => LoadedOK(x, l)
Targeted(x) ==
  x.kind = "form" /\ x.op # "delete" /\ Given(x.p, "next") /\ x.p.next # 0 =>
    x.p.next \in RecordIds /\ Ref(x.p.next, x.tenant)

CallOK(c) ==
  /\ c.pc \in {"idle", "target", "write", "done"}
  /\ c.answer \in {0, 200, 201, 204, 404, 409, 422, 500}
  /\ c.pc # "done" => c.answer = 0
  /\ c.pc \in {"target", "write"} => Pending(c.x, c.loaded)
  /\ c.pc = "write" => Targeted(c.x)
CallsOK == DOMAIN calls = 1 .. MaxRequests /\ \A q \in 1 .. MaxRequests : CallOK(calls[q])

\* A row of suppliers, and the row of a record with key i.
SupplierFits(row) == DOMAIN row = ColumnsOf("supplier") /\ row.tenant \in Tenants
InWindow(row) == kind # "form" => row.from # 0 /\ (row.to > row.from \/ (kind = "schedule" /\ row.to = 0))
Derived(i, row) ==
  /\ kind \in {"schedule", "form"} =>
       row.content # NullJson /\ (i \notin retyped => row.hash = Sha(row.content))
  /\ kind = "schedule" /\ i \notin retyped \cup disturbed => row.count = Len(row.content)
RecordFits(i, row) ==
  /\ DOMAIN row = ColumnsOf(kind) /\ row.tenant \in Tenants
  /\ row.supplier \in SupplierIds \cap Live /\ rows[row.supplier].tenant = row.tenant
  /\ kind = "form" /\ row.next # 0 => row.next \in Records /\ rows[row.next].tenant = row.tenant
  /\ InWindow(row) /\ Derived(i, row)
OneLicense ==
  kind = "license" => \A i, j \in Records :
    <<rows[i].tenant, rows[i].supplier, rows[i].key>> = <<rows[j].tenant, rows[j].supplier, rows[j].key>>
    => i = j
RowsOK ==
  /\ DOMAIN rows = SupplierIds \cup RecordIds
  /\ \A i \in SupplierIds \cap Live : SupplierFits(rows[i])
  /\ \A i \in DOMAIN FirstSuppliers \cap Live : rows[i].tenant = FirstSuppliers[i].tenant
  /\ \A i \in Records : RecordFits(i, rows[i])
  /\ OneLicense

\* The audit trail.
Told ==
  /\ \A e \in trail : /\ e.q \in 1 .. MaxRequests /\ e.id \in SupplierIds \cup RecordIds
                      /\ Ref(e.id, e.tenant)
  /\ \A e, g \in trail : e.q = g.q => e = g
  /\ \A q \in 1 .. MaxRequests : calls[q].answer \in {200, 201, 204} <=> \E e \in trail : e.q = q
SupplierTold ==
  /\ \A e \in trail : e.op = "create" /\ e.id \in RecordIds =>
       /\ Given(Payload(e.q), "supplier")
       /\ e.id \in Live => rows[e.id].supplier = Payload(e.q).supplier
  /\ FirstId \in Live => rows[FirstId].supplier = FirstRecord[kind].supplier
Gone ==
  /\ \A e \in trail : e.op = "create" /\ e.id \notin Live =>
       \E g \in trail :
         /\ g.op = "delete"
         /\ g.id = e.id \/ (Given(Payload(e.q), "supplier") /\ g.id = Payload(e.q).supplier)
  /\ FirstId \notin Live =>
       \E g \in trail : g.op = "delete" /\ g.id \in {FirstId, FirstRecord[kind].supplier}
TrailOK == Told /\ SupplierTold /\ Gone /\ \A i \in Live : Known(i)

RecInv ==
  /\ kind \in Kinds /\ disturbed \cup retyped \subseteq SupplierIds \cup RecordIds
  /\ CallsOK /\ RowsOK /\ TrailOK

-----------------------------------------------------------------------------
LEMMA IdsApart ==
  /\ SupplierIds \cap RecordIds = {} /\ 0 \notin SupplierIds \cup RecordIds /\ FirstId \in RecordIds
  /\ DOMAIN FirstSuppliers \subseteq SupplierIds
  BY RecordsAssumption, Zenon

LEMMA FirstRows ==
  /\ \A i \in DOMAIN FirstSuppliers :
       DOMAIN FirstSuppliers[i] = ColumnsOf("supplier") /\ FirstSuppliers[i].tenant \in Tenants
  /\ \A k \in Kinds :
       /\ DOMAIN FirstRecord[k] = ColumnsOf(k)
       /\ FirstRecord[k].supplier \in DOMAIN FirstSuppliers
       /\ FirstRecord[k].tenant = FirstSuppliers[FirstRecord[k].supplier].tenant
       /\ k # "form" => FirstRecord[k].from # 0 /\ FirstRecord[k].to > FirstRecord[k].from
       /\ k \in {"schedule", "form"} =>
            FirstRecord[k].content # NullJson /\ FirstRecord[k].hash = Sha(FirstRecord[k].content)
       /\ k = "schedule" => FirstRecord[k].count = Len(FirstRecord[k].content)
       /\ k = "form" => FirstRecord[k].next = 0
  BY RecordsAssumption, Zenon

LEMMA Requests ==
  ASSUME NEW k \in Kinds, NEW x \in Inputs[k]
  PROVE  /\ x.kind \in {k, "supplier"} /\ x.op \in {"create", "update", "delete"}
         /\ x.id \in TableIds(x.kind) \cup {0} /\ x.tenant \in Tenants
         /\ Given(x.p, "supplier") => x.p.supplier \in SupplierIds
  BY RecordsAssumption, Zenon

\* No row has the columns of no row.
LEMMA IsRow == ASSUME NEW k \in Kinds \cup {"supplier"}, NEW row, DOMAIN row = ColumnsOf(k) PROVE row # NoRow
<1>1. DOMAIN NoRow = {"tenant"}
  BY DEF NoRow
<1>2. ColumnsOf(k) # {"tenant"}
  <2>1. "name" \in ColumnsOf(k) \/ "supplier" \in ColumnsOf(k)
    BY DEF Kinds, ColumnsOf
  <2> QED
    BY <2>1
<1> QED
  BY <1>1, <1>2

\* Which columns there are.
LEMMA HasColumns ==
  /\ \A k \in Kinds : {"tenant", "supplier"} \subseteq ColumnsOf(k)
  /\ \A k \in Kinds \cup {"supplier"} : "tenant" \in ColumnsOf(k)
  /\ "supplier" \notin ColumnsOf("supplier") /\ "next" \notin ColumnsOf("supplier")
  /\ "supplier" \notin Kinds
  /\ \A k \in Kinds : "next" \in ColumnsOf(k) <=> k = "form"
  /\ \A k \in Kinds : "content" \in ColumnsOf(k) <=> k \in {"schedule", "form"}
  /\ \A k \in Kinds : k \in {"schedule", "form"} => "hash" \in ColumnsOf(k)
  /\ "count" \in ColumnsOf("schedule")
  /\ \A k \in Kinds : "from" \in ColumnsOf(k) /\ "to" \in ColumnsOf(k)
  /\ "key" \in ColumnsOf("license")
<1>1. /\ "supplier" \notin ColumnsOf("supplier") /\ "next" \notin ColumnsOf("supplier")
      /\ "tenant" \in ColumnsOf("supplier") /\ "count" \in ColumnsOf("schedule") /\ "key" \in ColumnsOf("license")
      /\ "supplier" \notin Kinds
  BY DEF ColumnsOf, Kinds
<1>2. ASSUME NEW k \in Kinds
      PROVE  /\ {"tenant", "supplier"} \subseteq ColumnsOf(k)
             /\ "next" \in ColumnsOf(k) <=> k = "form"
             /\ "content" \in ColumnsOf(k) <=> k \in {"schedule", "form"}
             /\ k \in {"schedule", "form"} => "hash" \in ColumnsOf(k)
             /\ "from" \in ColumnsOf(k) /\ "to" \in ColumnsOf(k)
  BY DEF Kinds, ColumnsOf
<1> QED
  BY <1>1, <1>2

LEMMA RecStart == RecordsInit => RecInv
<1> SUFFICES ASSUME RecordsInit PROVE RecInv
  OBVIOUS
<1>1. /\ kind \in Kinds /\ trail = {} /\ disturbed = {} /\ retyped = {}
      /\ calls = [q \in 1 .. MaxRequests |-> IdleCall]
  BY DEF RecordsInit
<1>2. DOMAIN rows = SupplierIds \cup RecordIds
  BY DEF RecordsInit
<1>3. /\ \A i \in DOMAIN FirstSuppliers : rows[i] = FirstSuppliers[i]
      /\ rows[FirstId] = FirstRecord[kind] /\ FirstId \notin SupplierIds
      /\ \A i \in DOMAIN rows : i \notin DOMAIN FirstSuppliers \cup {FirstId} => rows[i] = NoRow
  BY IdsApart DEF RecordsInit
<1>4. \A i \in DOMAIN FirstSuppliers : i \in SupplierIds \cap Live
  BY <1>2, <1>3, FirstRows, IdsApart, IsRow DEF Live
<1>5. FirstId \in Live /\ DOMAIN rows[FirstId] = ColumnsOf(kind)
  BY <1>1, <1>2, <1>3, FirstRows, IdsApart, IsRow DEF Live
<1>6. Live = DOMAIN FirstSuppliers \cup {FirstId} /\ Records = {FirstId}
  BY <1>2, <1>3, <1>4, <1>5, IdsApart DEF Live, Records
<1>7. \A q \in 1 .. MaxRequests : CallOK(calls[q])
  BY <1>1 DEF IdleCall, CallOK
<1>8. CallsOK
  BY <1>1, <1>7 DEF CallsOK
<1>9. \A i \in SupplierIds \cap Live : SupplierFits(rows[i])
  BY <1>3, <1>6, FirstRows DEF SupplierFits
<1>10. RecordFits(FirstId, rows[FirstId])
  <2> SUFFICES ASSUME NEW row, row = FirstRecord[kind] PROVE RecordFits(FirstId, row)
    BY <1>3
  <2>1. /\ DOMAIN row = ColumnsOf(kind) /\ row.supplier \in DOMAIN FirstSuppliers
        /\ row.tenant = FirstSuppliers[row.supplier].tenant
    BY <1>1, FirstRows
  <2>2. row.supplier \in SupplierIds \cap Live /\ rows[row.supplier].tenant = row.tenant /\ row.tenant \in Tenants
    BY <1>3, <1>4, <2>1, FirstRows
  <2>3. InWindow(row) /\ Derived(FirstId, row) /\ (kind = "form" => row.next = 0)
    BY <1>1, FirstRows DEF InWindow, Derived
  <2> QED
    BY <2>1, <2>2, <2>3 DEF RecordFits
<1>11. RowsOK
  BY <1>2, <1>3, <1>6, <1>9, <1>10 DEF RowsOK, OneLicense
<1>12. TrailOK
  <2>1. \A q \in 1 .. MaxRequests : calls[q].answer = 0
    BY <1>1 DEF IdleCall
  <2>2. Told
    BY <1>1, <2>1 DEF Told
  <2> QED
    BY <1>1, <1>3, <1>5, <1>6, <2>2 DEF TrailOK, SupplierTold, Gone, Known
<1> QED
  BY <1>1, <1>8, <1>11, <1>12 DEF RecInv

-----------------------------------------------------------------------------
\* What every step does to the keys and the histories.
Moves ==
  /\ kind' = kind /\ DOMAIN rows' = DOMAIN rows /\ trail \subseteq trail' /\ retyped \subseteq retyped'
  /\ disturbed \subseteq disturbed'
  /\ \A i : Known(i) /\ i \in Live' => i \in Live /\ rows'[i].tenant = rows[i].tenant

LEMMA RefStays == ASSUME Moves, NEW i, NEW t, Ref(i, t) PROVE Ref(i, t)'
<1>1. Known(i)'
  BY DEF Moves, Ref, Known
<1> QED
  BY <1>1 DEF Moves, Ref

LEMMA CallStays == ASSUME Moves, NEW c, CallOK(c) PROVE CallOK(c)'
<1> SUFFICES ASSUME NEW x, x = c.x, NEW l, l = c.loaded PROVE CallOK(c)'
  OBVIOUS
<1>1. LoadedOK(x, l) => LoadedOK(x, l)'
  <2> SUFFICES ASSUME LoadedOK(x, l), NEW n, n = l.next, NEW t, t = x.tenant PROVE LoadedOK(x, l)'
    OBVIOUS
  <2>1. Ref(n, t) => Ref(n, t)'
    BY RefStays
  <2> QED
    BY <2>1 DEF LoadedOK, Moves
<1>2. Pending(x, l) => Pending(x, l)'
  <2> SUFFICES ASSUME Pending(x, l), NEW s, s = x.p.supplier, NEW i, i = x.id, NEW t, t = x.tenant
               PROVE  Pending(x, l)'
    OBVIOUS
  <2>1. (Ref(s, t) => Ref(s, t)') /\ (Ref(i, t) => Ref(i, t)')
    BY RefStays
  <2>2. kind' = kind
    BY DEF Moves
  <2> QED
    BY <1>1, <2>1, <2>2 DEF Pending
<1>3. Targeted(x) => Targeted(x)'
  <2> SUFFICES ASSUME Targeted(x), NEW n, n = x.p.next, NEW t, t = x.tenant PROVE Targeted(x)'
    OBVIOUS
  <2>1. Ref(n, t) => Ref(n, t)'
    BY RefStays
  <2> QED
    BY <2>1 DEF Targeted
<1> QED
  BY <1>2, <1>3 DEF CallOK

Refusal(code) == code \in {409, 500}
Granted(c) == c.answer \in {200, 201, 204}

\* A step of call q that changes no row.
LEMMA QuietKeeps ==
  ASSUME RecInv, NEW q \in 1 .. MaxRequests, NEW c, calls' = [calls EXCEPT ![q] = c], CallOK(c),
         ~Granted(c), calls[q].pc # "done", calls[q].pc # "idle" => c.x = calls[q].x,
         UNCHANGED <<kind, rows, trail, disturbed, retyped>>
  PROVE  RecInv'
<1>1. /\ kind' = kind /\ rows' = rows /\ trail' = trail /\ disturbed' = disturbed /\ retyped' = retyped
      /\ CallsOK /\ Live' = Live
  BY DEF RecInv, Live
<1>2. Moves
  BY <1>1 DEF Moves
<1>3. /\ DOMAIN calls' = 1 .. MaxRequests /\ calls'[q] = c
      /\ \A r \in 1 .. MaxRequests : r # q => calls'[r] = calls[r]
  BY <1>1 DEF CallsOK
<1>4. CallsOK'
  <2>1. ASSUME NEW r \in 1 .. MaxRequests PROVE CallOK(calls[r])'
    <3> SUFFICES ASSUME NEW d, d = calls'[r] PROVE CallOK(d)'
      OBVIOUS
    <3>1. CallOK(d)
      BY <1>1, <1>3 DEF CallsOK
    <3> QED
      BY <1>2, <3>1, CallStays
  <2> QED
    BY <1>3, <2>1 DEF CallsOK
<1>5. \A e \in trail : e.q # q /\ e.q \in 1 .. MaxRequests /\ calls'[e.q] = calls[e.q]
  <2>1. calls[q].answer = 0
    BY <1>1 DEF CallsOK, CallOK
  <2> QED
    BY <1>3, <2>1 DEF RecInv, TrailOK, Told
<1>6. \A e \in trail : Payload(e.q)' = Payload(e.q)
  BY <1>5 DEF Payload
<1>7. Records' = Records /\ \A i, t : Ref(i, t)' <=> Ref(i, t)
  BY <1>1 DEF Records, Ref, Known
<1>8. RowsOK'
  <2>1. OneLicense'
    BY <1>1, <1>7 DEF RecInv, RowsOK, OneLicense
  <2>2. \A i \in Records : RecordFits(i, rows[i])'
    BY <1>1, <1>7 DEF RecInv, RowsOK, RecordFits, InWindow, Derived
  <2>3. \A i \in SupplierIds \cap Live : SupplierFits(rows[i])'
    BY <1>1 DEF RecInv, RowsOK, SupplierFits
  <2> QED
    BY <1>1, <1>7, <2>1, <2>2, <2>3 DEF RecInv, RowsOK
<1>9. Told'
  <2>1. \A r \in 1 .. MaxRequests : calls'[r].answer \in {200, 201, 204} <=> calls[r].answer \in {200, 201, 204}
    <3>1. calls[q].answer = 0
      BY <1>1 DEF CallsOK, CallOK
    <3> QED
      BY <1>3, <3>1 DEF Granted
  <2> QED
    BY <1>1, <1>7, <2>1 DEF RecInv, TrailOK, Told
<1>10. SupplierTold' /\ Gone' /\ \A i \in Live' : Known(i)'
  <2>1. SupplierTold /\ Gone /\ \A i \in Live : Known(i)
    BY DEF RecInv, TrailOK
  <2>2. SupplierTold'
    BY <1>1, <1>6, <2>1 DEF SupplierTold
  <2>3. Gone'
    BY <1>1, <1>6, <2>1 DEF Gone
  <2> QED
    BY <1>1, <2>1, <2>2, <2>3 DEF Known
<1> QED
  BY <1>1, <1>4, <1>8, <1>9, <1>10 DEF RecInv, TrailOK

\* The audit row of a commit.
Entry(q, id) == [q |-> q, op |-> calls[q].x.op, id |-> id, tenant |-> calls[q].x.tenant]

LEMMA CommitKeeps ==
  ASSUME RecInv, Moves, NEW q \in 1 .. MaxRequests, calls[q].pc = "write",
         NEW id \in SupplierIds \cup RecordIds, NEW code \in {200, 201, 204}, Commits(q, id, code),
         NEW t, t = calls[q].x.tenant, Ref(id, t)'
  PROVE  /\ CallsOK' /\ Told' /\ trail' = trail \cup {Entry(q, id)}
         /\ \A r \in 1 .. MaxRequests : Payload(r)' = Payload(r)
         /\ \A e \in trail : e.q # q
<1>1. CallsOK /\ Told /\ kind' = kind
  BY DEF RecInv, TrailOK, Moves
<1> DEFINE c == [pc |-> "done", x |-> calls[q].x, loaded |-> NoRow, answer |-> code]
<1>2. calls' = [calls EXCEPT ![q] = c] /\ trail' = trail \cup {Entry(q, id)}
  BY DEF Commits, Answers, Entry
<1>3. c.pc = "done" /\ c.x = calls[q].x /\ c.answer = code
  OBVIOUS
<1> HIDE DEF c
<1>4. CallOK(c)
  BY <1>3 DEF CallOK
<1>5. /\ DOMAIN calls' = 1 .. MaxRequests /\ calls'[q] = c
      /\ \A r \in 1 .. MaxRequests : r # q => calls'[r] = calls[r]
  BY <1>1, <1>2 DEF CallsOK
<1>6. CallsOK'
  <2>1. ASSUME NEW r \in 1 .. MaxRequests PROVE CallOK(calls[r])'
    <3> SUFFICES ASSUME NEW d, d = calls'[r] PROVE CallOK(d)'
      OBVIOUS
    <3>1. CallOK(d)
      BY <1>1, <1>4, <1>5 DEF CallsOK
    <3> QED
      BY <3>1, CallStays
  <2> QED
    BY <1>5, <2>1 DEF CallsOK
<1>7. calls[q].answer = 0
  BY <1>1 DEF CallsOK, CallOK
<1>8. \A e \in trail : e.q # q
  BY <1>1, <1>7 DEF Told
<1>9. \A r \in 1 .. MaxRequests : Payload(r)' = Payload(r)
  BY <1>3, <1>5 DEF Payload
<1>10. Told'
  <2>1. ASSUME NEW e \in trail'
        PROVE  e.q \in 1 .. MaxRequests /\ e.id \in SupplierIds \cup RecordIds /\ Ref(e.id, e.tenant)'
    <3>1. CASE e \in trail
      <4> SUFFICES ASSUME NEW i, i = e.id, NEW u, u = e.tenant PROVE Ref(i, u)'
        BY <1>1, <3>1 DEF Told
      <4>1. Ref(i, u)
        BY <1>1, <3>1 DEF Told
      <4> QED
        BY <4>1, RefStays
    <3>2. CASE e = Entry(q, id)
      <4>1. e.q = q /\ e.id = id /\ e.tenant = t
        BY <3>2 DEF Entry
      <4> QED
        BY <4>1
    <3> QED
      BY <1>2, <3>1, <3>2
  <2>2. \A e, g \in trail' : e.q = g.q => e = g
    <3>1. Entry(q, id).q = q
      BY DEF Entry
    <3> QED
      BY <1>1, <1>2, <1>8, <3>1 DEF Told
  <2>3. ASSUME NEW r \in 1 .. MaxRequests
        PROVE  calls'[r].answer \in {200, 201, 204} <=> \E e \in trail' : e.q = r
    <3>1. CASE r = q
      <4>1. calls'[r].answer = code /\ Entry(q, id) \in trail' /\ Entry(q, id).q = r
        BY <1>2, <1>3, <1>5, <3>1 DEF Entry
      <4> QED
        BY <4>1
    <3>2. CASE r # q
      <4>1. Entry(q, id).q # r
        BY <3>2 DEF Entry
      <4> QED
        BY <1>1, <1>2, <1>5, <3>2, <4>1 DEF Told
    <3> QED
      BY <3>1, <3>2
  <2> QED
    BY <2>1, <2>2, <2>3 DEF Told
<1> QED
  BY <1>2, <1>6, <1>8, <1>9, <1>10

\* The request is refused or its constraint fails.
LEMMA FailsKeeps ==
  ASSUME RecInv, NEW q \in 1 .. MaxRequests, calls[q].pc = "write", NEW code, Refusal(code), Fails(q, code)
  PROVE  RecInv'
<1> SUFFICES ASSUME NEW c, c = [pc |-> "done", x |-> calls[q].x, loaded |-> NoRow, answer |-> code]
             PROVE  RecInv'
  OBVIOUS
<1>1. calls' = [calls EXCEPT ![q] = c] /\ UNCHANGED <<kind, rows, trail, disturbed, retyped>>
  BY DEF Fails, Answers
<1>2. c.pc = "done" /\ c.x = calls[q].x /\ c.answer = code
  OBVIOUS
<1>3. CallOK(c)
  BY <1>2 DEF CallOK, Refusal
<1>4. ~Granted(c) /\ calls[q].pc # "done" /\ c.x = calls[q].x
  BY <1>2 DEF Granted, Refusal
<1> QED
  BY <1>1, <1>3, <1>4, QuietKeeps

\* The columns of a valid payload.
LEMMA PayloadColumns ==
  ASSUME NEW k \in Kinds, NEW x \in Inputs[k], Valid(x), x.op # "delete"
  PROVE  /\ ~Given(x.p, "tenant") /\ ~Given(x.p, "hash") /\ ~Given(x.p, "count")
         /\ Given(x.p, "supplier") => x.op = "create" /\ x.kind # "supplier"
         /\ Given(x.p, "content") => x.kind \in {"schedule", "form"}
         /\ Given(x.p, "next") => x.kind = "form"
         /\ x.op = "create" /\ x.kind # "supplier" => Given(x.p, "supplier")
         /\ x.op = "create" /\ x.kind \in {"schedule", "form"} => Given(x.p, "content") /\ x.p.content # NullJson
<1>1. x.kind \in {k, "supplier"} /\ x.op \in {"create", "update", "delete"}
  BY Requests
<1>2. CASE x.kind = "supplier"
  BY <1>2 DEF Valid, SupplierValid, Given
<1>3. CASE x.kind = "license"
  BY <1>1, <1>3 DEF Valid, LicenseValid, Given, Columns
<1>4. CASE x.kind = "certificate"
  BY <1>1, <1>4 DEF Valid, CertificateValid, Given, Columns
<1>5. CASE x.kind = "loss_run"
  BY <1>1, <1>5 DEF Valid, LossRunValid, Given, Columns
<1>6. CASE x.kind = "schedule"
  BY <1>1, <1>6 DEF Valid, ScheduleValid, Given, Columns
<1>7. CASE x.kind = "form"
  BY <1>1, <1>7 DEF Valid, FormValid, Given, Columns
<1> QED
  BY <1>1, <1>2, <1>3, <1>4, <1>5, <1>6, <1>7 DEF Kinds

-----------------------------------------------------------------------------
LEMMA CheckTargetKeeps ==
  ASSUME RecInv, NEW q \in 1 .. MaxRequests, CheckTarget(q) PROVE RecInv'
<1> SUFFICES ASSUME NEW x, x = calls[q].x, NEW l, l = calls[q].loaded, NEW next, next = x.p.next,
                    NEW asks, asks = (/\ x.op # "delete" /\ Given(x.p, "next") /\ next # 0
                                      /\ x.op = "create" \/ next # l.next)
             PROVE  RecInv'
  OBVIOUS
<1>1. /\ calls[q].pc = "target" /\ UNCHANGED <<kind, rows, trail, disturbed, retyped>>
      /\ IF asks /\ (next = x.id \/ ~TargetInTenant(x.tenant, next)) THEN Answers(q, 422)
         ELSE calls' = [calls EXCEPT ![q].pc = "write"]
  BY DEF CheckTarget
<1>2. CallsOK /\ CallOK(calls[q]) /\ Pending(x, l) /\ calls[q].answer = 0 /\ kind \in Kinds
  BY <1>1 DEF RecInv, CallsOK, CallOK
<1>3. CASE Answers(q, 422)
  <2> SUFFICES ASSUME NEW c, c = [pc |-> "done", x |-> calls[q].x, loaded |-> NoRow, answer |-> 422]
               PROVE  RecInv'
    OBVIOUS
  <2>1. calls' = [calls EXCEPT ![q] = c]
    BY <1>3 DEF Answers
  <2>2. c.pc = "done" /\ c.x = calls[q].x /\ c.answer = 422
    OBVIOUS
  <2>3. CallOK(c) /\ ~Granted(c) /\ calls[q].pc # "done" /\ c.x = calls[q].x
    BY <1>1, <2>2 DEF CallOK, Granted
  <2> QED
    BY <1>1, <2>1, <2>3, QuietKeeps
<1>4. CASE /\ ~(asks /\ (next = x.id \/ ~TargetInTenant(x.tenant, next)))
           /\ calls' = [calls EXCEPT ![q].pc = "write"]
  <2> DEFINE c == [calls[q] EXCEPT !.pc = "write"]
  <2>1. calls' = [calls EXCEPT ![q] = c]
    BY <1>4
  <2>2. c.pc = "write" /\ c.x = x /\ c.loaded = l /\ c.answer = 0
    BY <1>2
  <2> HIDE DEF c
  <2>3. Targeted(x)
    <3> SUFFICES ASSUME x.kind = "form", x.op # "delete", Given(x.p, "next"), next # 0
                 PROVE  next \in RecordIds /\ Ref(next, x.tenant)
      BY DEF Targeted
    <3>1. CASE asks
      <4>1. next \in RecordIds /\ next \in Live /\ rows[next].tenant = x.tenant
        BY <1>4, <3>1 DEF TargetInTenant
      <4>2. Known(next) /\ next \notin DOMAIN FirstSuppliers
        BY <4>1, IdsApart DEF RecInv, TrailOK
      <4> QED
        BY <4>1, <4>2 DEF Ref
    <3>2. CASE ~asks
      <4>1. x.op = "update" /\ l.next = next
        BY <1>2, <3>2, Requests DEF Pending
      <4> QED
        BY <1>2, <4>1 DEF Pending, LoadedOK
    <3> QED
      BY <3>1, <3>2
  <2>4. CallOK(c) /\ ~Granted(c) /\ calls[q].pc # "done" /\ c.x = calls[q].x
    BY <1>1, <1>2, <2>2, <2>3 DEF CallOK, Granted
  <2> QED
    BY <1>1, <2>1, <2>4, QuietKeeps
<1> QED
  BY <1>1, <1>3, <1>4

LEMMA ReceiveKeeps ==
  ASSUME RecInv, NEW q \in 1 .. MaxRequests, NEW x \in Inputs[kind], Receive(q, x) PROVE RecInv'
<1> DEFINE refusal == IF ~Valid(x) THEN 422
                      ELSE IF \/ x.op = "create" /\ x.kind # "supplier" /\ ~SupplierFound(x)
                              \/ x.op # "create" /\ ~RowFound(x) THEN 404
                      ELSE IF ~Encodable(x.p) THEN 500 ELSE 0
           c == [pc |-> IF refusal # 0 THEN "done" ELSE IF x.kind = "form" THEN "target" ELSE "write",
                 x |-> x,
                 loaded |-> IF refusal = 0 /\ x.op # "create" THEN rows[x.id] ELSE NoRow,
                 answer |-> refusal]
<1>1. /\ calls[q].pc = "idle" /\ calls' = [calls EXCEPT ![q] = c]
      /\ UNCHANGED <<kind, rows, trail, disturbed, retyped>>
  BY DEF Receive
<1>2. /\ c.x = x /\ c.answer = refusal /\ refusal \in {0, 404, 422, 500}
      /\ c.pc = (IF refusal # 0 THEN "done" ELSE IF x.kind = "form" THEN "target" ELSE "write")
      /\ c.loaded = (IF refusal = 0 /\ x.op # "create" THEN rows[x.id] ELSE NoRow)
  OBVIOUS
<1>3. refusal = 0 => /\ Valid(x) /\ (x.op = "create" /\ x.kind # "supplier" => SupplierFound(x))
                     /\ x.op # "create" => RowFound(x)
  OBVIOUS
<1> HIDE DEF refusal, c
<1>4. /\ kind \in Kinds /\ x.kind \in {kind, "supplier"} /\ x.op \in {"create", "update", "delete"}
      /\ x.id \in TableIds(x.kind) \cup {0}
  BY Requests DEF RecInv
<1>5. RowsOK /\ \A i \in Live : Known(i)
  BY DEF RecInv, TrailOK
<1>6. ASSUME NEW i \in Live, NEW t, rows[i].tenant = t PROVE Ref(i, t)
  <2>1. i \in DOMAIN FirstSuppliers => FirstSuppliers[i].tenant = t
    BY <1>5, <1>6 DEF RowsOK
  <2> QED
    BY <1>5, <1>6, <2>1 DEF Ref
<1>7. refusal = 0 => Pending(x, c.loaded)
  <2> SUFFICES ASSUME refusal = 0, NEW l, l = c.loaded PROVE Pending(x, l)
    OBVIOUS
  <2>1. x.op = "create" /\ x.kind # "supplier" => Ref(x.p.supplier, x.tenant)
    BY <1>3, <1>6 DEF SupplierFound
  <2>2. x.op # "create" => x.id \in Live /\ rows[x.id].tenant = x.tenant /\ l = rows[x.id]
    BY <1>2, <1>3 DEF RowFound
  <2>3. x.op # "create" => x.id \in TableIds(x.kind) /\ Ref(x.id, x.tenant)
    BY <1>4, <1>5, <1>6, <2>2, IdsApart DEF Live, RowsOK
  <2>4. x.op # "create" => LoadedOK(x, l)
    <3> SUFFICES ASSUME x.op # "create" PROVE LoadedOK(x, l)
      OBVIOUS
    <3>1. CASE x.kind = "supplier"
      BY <1>5, <2>2, <2>3, <3>1 DEF LoadedOK, TableIds, RowsOK, SupplierFits
    <3>2. CASE x.kind # "supplier"
      <4>1. x.kind = kind /\ x.id \in Records
        BY <1>4, <2>2, <2>3, <3>2 DEF TableIds, Records
      <4>2. RecordFits(x.id, l)
        BY <1>5, <2>2, <4>1 DEF RowsOK
      <4>3. kind = "form" /\ l.next # 0 => l.next \in RecordIds /\ Ref(l.next, x.tenant)
        BY <1>6, <2>2, <4>2 DEF RecordFits, Records
      <4> QED
        BY <4>1, <4>2, <4>3 DEF RecordFits, Derived, LoadedOK
    <3> QED
      BY <3>1, <3>2
  <2> QED
    BY <1>3, <2>1, <2>3, <2>4 DEF Pending
<1>8. CallOK(c)
  BY <1>2, <1>7 DEF CallOK, Targeted
<1>9. ~Granted(c) /\ calls[q].pc # "done"
  BY <1>1, <1>2 DEF Granted
<1> QED
  BY <1>1, <1>8, <1>9, QuietKeeps

-----------------------------------------------------------------------------
\* A row of supplier or record i is written.
LEMMA PutKeeps ==
  ASSUME RecInv, NEW k \in {kind, "supplier"}, NEW i \in TableIds(k), NEW row, DOMAIN row = ColumnsOf(k),
         rows' = [rows EXCEPT ![i] = row], kind' = kind, row.tenant \in Tenants,
         i \in Live => row.tenant = rows[i].tenant,
         i \in DOMAIN FirstSuppliers => row.tenant = FirstSuppliers[i].tenant,
         retyped \subseteq retyped', disturbed \subseteq disturbed',
         k # "supplier" =>
           /\ row.supplier \in SupplierIds \cap Live /\ rows[row.supplier].tenant = row.tenant
           /\ InWindow(row) /\ Derived(i, row)',
         k = "form" /\ row.next # 0 => row.next \in Records /\ rows[row.next].tenant = row.tenant,
         k = "license" => \A j \in Records \ {i} :
           <<rows[j].tenant, rows[j].supplier, rows[j].key>> # <<row.tenant, row.supplier, row.key>>
  PROVE  /\ RowsOK' /\ Live' = Live \cup {i} /\ rows'[i] = row /\ DOMAIN rows' = DOMAIN rows
         /\ \A j \in DOMAIN rows : j # i => rows'[j] = rows[j]
<1>1. kind \in Kinds /\ RowsOK /\ i \in SupplierIds \cup RecordIds
  BY DEF RecInv, TableIds
<1>2. /\ DOMAIN rows' = DOMAIN rows /\ rows'[i] = row
      /\ \A j \in DOMAIN rows : j # i => rows'[j] = rows[j]
  BY <1>1 DEF RowsOK
<1>3. Live' = Live \cup {i}
  BY <1>1, <1>2, IsRow DEF Live, RowsOK
<1>4. Records \subseteq Records' /\ Records' = RecordIds \cap (Live \cup {i})
  BY <1>3 DEF Records
<1>5. \A j \in Live : rows'[j].tenant = rows[j].tenant
  BY <1>2 DEF Live
<1>6. ASSUME NEW j \in SupplierIds \cap Live' PROVE SupplierFits(rows[j])'
  <2>1. CASE j = i
    <3>1. k = "supplier"
      BY <2>1, IdsApart DEF TableIds
    <3> QED
      BY <1>2, <2>1, <3>1 DEF SupplierFits
  <2>2. CASE j # i
    BY <1>1, <1>2, <1>3, <1>6, <2>2 DEF RowsOK, SupplierFits
  <2> QED
    BY <2>1, <2>2
<1>7. \A j \in DOMAIN FirstSuppliers \cap Live' : rows'[j].tenant = FirstSuppliers[j].tenant
  BY <1>1, <1>2, <1>3, IdsApart DEF RowsOK
<1>8. ASSUME NEW j \in Records' PROVE RecordFits(j, rows[j])'
  <2> SUFFICES ASSUME NEW new, new = rows'[j] PROVE RecordFits(j, new)'
    OBVIOUS
  <2>1. CASE j = i
    <3>1. k = kind /\ k # "supplier" /\ new = row
      BY <1>1, <1>2, <1>8, <2>1, IdsApart, HasColumns DEF TableIds, Records
    <3>2. InWindow(new)'
      BY <3>1 DEF InWindow
    <3> QED
      BY <1>3, <1>4, <1>5, <2>1, <3>1, <3>2 DEF RecordFits, Records
  <2>2. CASE j # i
    <3>1. j \in Records /\ new = rows[j]
      BY <1>1, <1>2, <1>4, <1>8, <2>2 DEF RowsOK, Records
    <3>2. RecordFits(j, new)
      BY <1>1, <3>1 DEF RowsOK
    <3>3. InWindow(new)'
      BY <3>2 DEF RecordFits, InWindow
    <3>4. Derived(j, new)'
      BY <3>2 DEF RecordFits, Derived
    <3> QED
      BY <1>3, <1>4, <1>5, <3>2, <3>3, <3>4 DEF RecordFits, Records
  <2> QED
    BY <2>1, <2>2
<1>9. OneLicense'
  <2> SUFFICES ASSUME kind = "license" PROVE OneLicense'
    BY DEF OneLicense
  <2>1. CASE k = "license"
    BY <1>1, <1>2, <1>4, <2>1 DEF OneLicense, RowsOK, Records
  <2>2. CASE k # "license"
    <3>1. k = "supplier" /\ Records' = Records /\ i \notin RecordIds
      BY <1>4, <2>2, IdsApart DEF TableIds, Records
    <3> QED
      BY <1>1, <1>2, <3>1 DEF OneLicense, RowsOK, Records
  <2> QED
    BY <2>1, <2>2
<1> QED
  BY <1>1, <1>2, <1>3, <1>6, <1>7, <1>8, <1>9 DEF RowsOK

-----------------------------------------------------------------------------
\* The row a create builds.
Made(k, t, p, row) ==
  /\ DOMAIN row = ColumnsOf(k) /\ row.tenant = t
  /\ k # "supplier" => row.supplier = p.supplier
  /\ k \in {"schedule", "form"} => row.content = p.content /\ row.hash = Sha(p.content)
  /\ k = "schedule" => row.count = Len(p.content)
  /\ k = "form" => row.next = IF Given(p, "next") THEN p.next ELSE 0

LEMMA Builds ==
  ASSUME NEW t, NEW p, ~Given(p, "tenant"), ~Given(p, "hash"), ~Given(p, "count")
  PROVE  /\ Made("supplier", t, p, SupplierCreated(t, p))
         /\ Given(p, "supplier") =>
              /\ Made("license", t, p, LicenseCreated(t, p))
              /\ Made("certificate", t, p, CertificateCreated(t, p))
              /\ Made("loss_run", t, p, LossRunCreated(t, p))
              /\ Given(p, "content") =>
                   /\ Made("schedule", t, p, ScheduleCreated(t, p))
                   /\ Made("form", t, p, FormCreated(t, p))
<1>1. Made("supplier", t, p, SupplierCreated(t, p))
  BY DEF Made, SupplierCreated, Overlay, ColumnsOf
<1>2. ASSUME Given(p, "supplier")
      PROVE  /\ Made("license", t, p, LicenseCreated(t, p))
             /\ Made("certificate", t, p, CertificateCreated(t, p))
             /\ Made("loss_run", t, p, LossRunCreated(t, p))
  <2>1. Made("license", t, p, LicenseCreated(t, p))
    BY <1>2 DEF Made, LicenseCreated, Overlay, ColumnsOf
  <2>2. Made("certificate", t, p, CertificateCreated(t, p))
    BY <1>2 DEF Made, CertificateCreated, Overlay, ColumnsOf
  <2>3. Made("loss_run", t, p, LossRunCreated(t, p))
    BY <1>2 DEF Made, LossRunCreated, Overlay, ColumnsOf
  <2> QED
    BY <2>1, <2>2, <2>3
<1>3. ASSUME Given(p, "supplier"), Given(p, "content")
      PROVE  Made("schedule", t, p, ScheduleCreated(t, p)) /\ Made("form", t, p, FormCreated(t, p))
  <2>1. Made("schedule", t, p, ScheduleCreated(t, p))
    BY <1>3 DEF Made, ScheduleCreated, Overlay, ColumnsOf
  <2>2. Made("form", t, p, FormCreated(t, p))
    BY <1>3 DEF Made, FormCreated, Overlay, ColumnsOf
  <2> QED
    BY <2>1, <2>2
<1> QED
  BY <1>1, <1>2, <1>3

\* A step of call q that writes row i, under a key that was fresh or of a row
\* with the same supplier.
LEMMA WriteKeeps ==
  ASSUME RecInv, Moves, NEW q \in 1 .. MaxRequests, NEW i \in SupplierIds \cup RecordIds,
         trail' = trail \cup {Entry(q, i)}, calls[q].x.op # "delete",
         \A r \in 1 .. MaxRequests : Payload(r)' = Payload(r),
         Live' = Live \cup {i}, \A j \in DOMAIN rows : j # i => rows'[j] = rows[j],
         \/ ~Known(i) /\ calls[q].x.op = "create"
              /\ (i \in RecordIds => Given(Payload(q), "supplier") /\ rows'[i].supplier = Payload(q).supplier)
         \/ i \in Live /\ calls[q].x.op = "update" /\ (i \in RecordIds => rows'[i].supplier = rows[i].supplier)
  PROVE  SupplierTold' /\ Gone' /\ \A j \in Live' : Known(j)'
<1>1. SupplierTold /\ Gone /\ Told /\ (\A j \in Live : Known(j)) /\ kind' = kind /\ DOMAIN rows = SupplierIds \cup RecordIds
  BY DEF RecInv, TrailOK, Moves, RowsOK
<1>2. \A e \in trail : e.q \in 1 .. MaxRequests /\ e.id \in SupplierIds \cup RecordIds
  BY <1>1 DEF Told
<1>3. /\ Entry(q, i).q = q /\ Entry(q, i).op = calls[q].x.op /\ Entry(q, i).id = i
  BY DEF Entry
<1>4. ASSUME NEW j \in RecordIds \cap Live', Known(j)
      PROVE  j \in Live /\ rows'[j].supplier = rows[j].supplier
  BY <1>1, <1>4
<1>5. SupplierTold'
  <2>1. ASSUME NEW e \in trail', e.op = "create", e.id \in RecordIds
        PROVE  Given(Payload(e.q), "supplier")' /\ (e.id \in Live' => rows'[e.id].supplier = Payload(e.q)'.supplier)
    <3>1. CASE e \in trail
      <4>1. Known(e.id)
        BY <2>1, <3>1 DEF Known
      <4>2. Given(Payload(e.q), "supplier") /\ (e.id \in Live => rows[e.id].supplier = Payload(e.q).supplier)
        BY <1>1, <2>1, <3>1 DEF SupplierTold
      <4>3. Payload(e.q)' = Payload(e.q)
        BY <1>2, <3>1
      <4> QED
        BY <1>4, <2>1, <4>1, <4>2, <4>3 DEF Given
    <3>2. CASE e = Entry(q, i)
      <4>1. calls[q].x.op = "create" /\ Payload(q)' = Payload(q) /\ e.q = q /\ e.id = i
        BY <1>3, <2>1, <3>2
      <4> QED
        BY <2>1, <4>1 DEF Given
    <3> QED
      BY <2>1, <3>1, <3>2
  <2>2. FirstId \in Live' => rows'[FirstId].supplier = FirstRecord[kind].supplier
    <3>1. Known(FirstId) /\ FirstId \in RecordIds
      BY IdsApart DEF Known
    <3> QED
      BY <1>1, <1>4, <3>1 DEF SupplierTold
  <2> QED
    BY <1>1, <2>1, <2>2 DEF SupplierTold
<1>6. Gone'
  <2>1. ASSUME NEW e \in trail', e.op = "create", e.id \notin Live'
        PROVE  \E g \in trail' :
                 /\ g.op = "delete"
                 /\ g.id = e.id \/ (Given(Payload(e.q), "supplier")' /\ g.id = Payload(e.q)'.supplier)
    <3>1. e \in trail /\ e.id \notin Live
      BY <1>3, <2>1
    <3>2. PICK g \in trail :
            /\ g.op = "delete"
            /\ g.id = e.id \/ (Given(Payload(e.q), "supplier") /\ g.id = Payload(e.q).supplier)
      BY <1>1, <2>1, <3>1 DEF Gone
    <3>3. Payload(e.q)' = Payload(e.q)
      BY <1>2, <3>1
    <3> QED
      BY <3>2, <3>3 DEF Given
  <2>2. FirstId \notin Live' =>
          \E g \in trail' : g.op = "delete" /\ g.id \in {FirstId, FirstRecord[kind].supplier}
    BY <1>1 DEF Gone
  <2> QED
    BY <1>1, <2>1, <2>2 DEF Gone
<1>7. ASSUME NEW j \in Live' PROVE Known(j)'
  <2>1. CASE Known(j)
    BY <2>1 DEF Known
  <2>2. CASE ~Known(j)
    <3>1. j = i /\ Entry(q, i) \in trail' /\ calls[q].x.op = "create"
      BY <1>1, <1>7, <2>2
    <3> QED
      BY <1>3, <3>1 DEF Known
  <2> QED
    BY <2>1, <2>2
<1> QED
  BY <1>5, <1>6, <1>7

\* A row its table accepts has its window.
LEMMA HoldsWindow ==
  ASSUME NEW k \in Kinds, NEW i, NEW row, Holds(k, i, row), k = kind PROVE InWindow(row)
<1>1. CASE k = "license"
  BY <1>1 DEF Holds, InWindow, LicenseHolds
<1>2. CASE k = "certificate"
  BY <1>2 DEF Holds, InWindow, CertificateHolds
<1>3. CASE k = "loss_run"
  BY <1>3 DEF Holds, InWindow, LossRunHolds
<1>4. CASE k = "schedule"
  BY <1>4 DEF Holds, InWindow, ScheduleHolds
<1>5. CASE k = "form"
  BY <1>5 DEF InWindow
<1> QED
  BY <1>1, <1>2, <1>3, <1>4, <1>5 DEF Kinds

LEMMA InsertKeeps ==
  ASSUME RecInv, NEW q \in 1 .. MaxRequests, calls[q].pc = "write", NEW x, x = calls[q].x, x.op = "create",
         NEW row, Made(x.kind, x.tenant, x.p, row), NEW broken, Refusal(broken),
         Insert(q, row, broken)
  PROVE  RecInv'
<1> SUFFICES ASSUME NEW k, k = x.kind, NEW t, t = x.tenant, NEW p, p = x.p PROVE RecInv'
  OBVIOUS
<1>1. PICK i \in Unused(k) :
        IF Holds(k, i, row)
        THEN Commits(q, i, 201) /\ rows' = [rows EXCEPT ![i] = row] /\ UNCHANGED <<disturbed, retyped>>
        ELSE Fails(q, broken)
  BY DEF Insert
<1>2. CASE Fails(q, broken)
  BY <1>2, FailsKeeps
<1>3. CASE Holds(k, i, row) /\ Commits(q, i, 201) /\ rows' = [rows EXCEPT ![i] = row] /\ UNCHANGED <<disturbed, retyped>>
  <2>1. CallsOK /\ RowsOK /\ TrailOK /\ kind \in Kinds
    BY DEF RecInv
  <2>2. Pending(x, calls[q].loaded) /\ Targeted(x)
    BY <2>1 DEF CallsOK, CallOK
  <2>3. /\ x \in Inputs[kind] /\ Valid(x) /\ k \in {kind, "supplier"} /\ t \in Tenants
        /\ k # "supplier" => Ref(p.supplier, t)
        /\ k # "supplier" => Given(p, "supplier") /\ p.supplier \in SupplierIds
        /\ k \in {"schedule", "form"} => p.content # NullJson
    BY <2>1, <2>2, Requests, PayloadColumns DEF Pending
  <2>4. i \in TableIds(k) /\ i \in SupplierIds \cup RecordIds /\ ~Known(i)
    BY <1>1 DEF Unused, TableIds, Known
  <2>5. i \notin Live /\ i \notin DOMAIN FirstSuppliers
    BY <2>1, <2>4 DEF TrailOK, Known
  <2>6. /\ trail' = trail \cup {Entry(q, i)} /\ kind' = kind /\ disturbed' = disturbed /\ retyped' = retyped
    BY <1>3 DEF Commits, Entry
  <2>7. /\ DOMAIN row = ColumnsOf(k) /\ row.tenant = t /\ (k # "supplier" => row.supplier = p.supplier)
        /\ k \in {"schedule", "form"} => row.content = p.content /\ row.hash = Sha(p.content)
        /\ k = "schedule" => row.count = Len(p.content)
        /\ k = "form" => row.next = IF Given(p, "next") THEN p.next ELSE 0
    BY DEF Made
  <2>8. ASSUME k # "supplier"
        PROVE  /\ row.supplier \in SupplierIds \cap Live /\ rows[row.supplier].tenant = row.tenant
               /\ InWindow(row) /\ Derived(i, row)'
    <3>1. k = kind /\ "supplier" \in DOMAIN row
      BY <2>1, <2>3, <2>7, <2>8, HasColumns
    <3>2. row.supplier \in SupplierIds \cap Live /\ rows[row.supplier].tenant = row.tenant
      BY <1>3, <2>3, <2>7, <2>8, <3>1 DEF Holds, SupplierKeyHolds, Ref
    <3>3. InWindow(row)
      BY <1>3, <2>1, <3>1, HoldsWindow
    <3>4. Derived(i, row)'
      BY <2>3, <2>6, <2>7, <3>1 DEF Derived
    <3> QED
      BY <3>2, <3>3, <3>4
  <2>9. k = "form" /\ row.next # 0 => row.next \in Records /\ rows[row.next].tenant = row.tenant
    <3> SUFFICES ASSUME k = "form", row.next # 0 PROVE row.next \in Records /\ rows[row.next].tenant = row.tenant
      OBVIOUS
    <3>1. Given(p, "next") /\ p.next # 0 /\ row.next = p.next
      BY <2>7
    <3>2. p.next \in RecordIds /\ Ref(p.next, t)
      BY <2>2, <3>1 DEF Targeted
    <3>3. row.next \in Live
      BY <1>3 DEF Holds, FormHolds
    <3> QED
      BY <2>7, <3>1, <3>2, <3>3 DEF Ref, Records
  <2>10. k = "license" => \A j \in Records \ {i} :
           <<rows[j].tenant, rows[j].supplier, rows[j].key>> # <<row.tenant, row.supplier, row.key>>
    BY <1>3 DEF Holds, LicenseHolds, Records, Live
  <2>11. /\ RowsOK' /\ Live' = Live \cup {i} /\ rows'[i] = row /\ DOMAIN rows' = DOMAIN rows
         /\ \A j \in DOMAIN rows : j # i => rows'[j] = rows[j]
    <3>1. /\ k \in {kind, "supplier"} /\ i \in TableIds(k) /\ DOMAIN row = ColumnsOf(k)
          /\ rows' = [rows EXCEPT ![i] = row] /\ kind' = kind /\ row.tenant \in Tenants
          /\ (i \in Live => row.tenant = rows[i].tenant)
          /\ (i \in DOMAIN FirstSuppliers => row.tenant = FirstSuppliers[i].tenant)
          /\ retyped \subseteq retyped' /\ disturbed \subseteq disturbed'
      BY <1>3, <2>3, <2>4, <2>5, <2>6, <2>7
    <3>2. k # "supplier" => /\ row.supplier \in SupplierIds \cap Live /\ rows[row.supplier].tenant = row.tenant
                            /\ InWindow(row) /\ Derived(i, row)'
      BY <2>8
    <3> QED
      BY <2>9, <2>10, <3>1, <3>2, PutKeeps
  <2>12. Moves
    BY <2>1, <2>4, <2>5, <2>6, <2>11 DEF Moves, Live
  <2>13. Ref(i, t)'
    <3>1. Entry(q, i) \in trail' /\ Entry(q, i).op = "create" /\ Entry(q, i).id = i
      BY <2>6 DEF Entry
    <3> QED
      BY <2>5, <2>7, <2>11, <3>1 DEF Ref, Known
  <2>14. /\ CallsOK' /\ Told' /\ \A r \in 1 .. MaxRequests : Payload(r)' = Payload(r)
    BY <1>3, <2>4, <2>12, <2>13, CommitKeeps
  <2>15. i \in RecordIds => Given(Payload(q), "supplier") /\ rows'[i].supplier = Payload(q).supplier
    BY <2>3, <2>4, <2>7, <2>11, IdsApart DEF TableIds, Payload
  <2>16. SupplierTold' /\ Gone' /\ \A j \in Live' : Known(j)'
    BY <2>4, <2>6, <2>11, <2>12, <2>14, <2>15, WriteKeeps
  <2>17. kind' \in Kinds /\ disturbed' \cup retyped' \subseteq SupplierIds \cup RecordIds
    BY <2>6 DEF RecInv
  <2> QED
    BY <2>11, <2>14, <2>16, <2>17 DEF RecInv, TrailOK
<1> QED
  BY <1>1, <1>2, <1>3

-----------------------------------------------------------------------------
\* The row an update wants, of the one it loaded.
Wants(k, l, p, w) ==
  /\ DOMAIN w = DOMAIN l /\ w.tenant = l.tenant /\ (k # "supplier" => w.supplier = l.supplier)
  /\ k \in {"schedule", "form"} =>
       \/ w.content = NullJson
       \/ w.content = l.content /\ w.hash = l.hash /\ (k = "schedule" => w.count = l.count)
       \/ w.hash = Sha(w.content) /\ (k = "schedule" => w.count = Len(w.content))
  /\ k = "form" => w.next = IF Given(p, "next") THEN p.next ELSE l.next

LEMMA Updates ==
  ASSUME NEW p, ~Given(p, "tenant"), ~Given(p, "hash"), ~Given(p, "count"), ~Given(p, "supplier"),
         NEW k \in Kinds \cup {"supplier"}, NEW l, DOMAIN l = ColumnsOf(k)
  PROVE  /\ k = "supplier" => Wants(k, l, p, SupplierUpdated(l, p))
         /\ k = "license" => Wants(k, l, p, LicenseUpdated(l, p))
         /\ k = "certificate" => Wants(k, l, p, CertificateUpdated(l, p))
         /\ k = "loss_run" => Wants(k, l, p, LossRunUpdated(l, p))
         /\ k = "schedule" => Wants(k, l, p, ScheduleUpdated(l, p))
         /\ k = "form" => Wants(k, l, p, FormUpdated(l, p))
<1> SUFFICES ASSUME NEW o, o = Overlay(l, p)
             PROVE  /\ k = "supplier" => Wants(k, l, p, o)
                    /\ k = "license" => Wants(k, l, p, o)
                    /\ k = "certificate" => Wants(k, l, p, o)
                    /\ k = "loss_run" => Wants(k, l, p, o)
                    /\ k = "schedule" => Wants(k, l, p, ScheduleUpdated(l, p))
                    /\ k = "form" => Wants(k, l, p, FormUpdated(l, p))
  BY DEF SupplierUpdated, LicenseUpdated, CertificateUpdated, LossRunUpdated
<1>1. /\ "tenant" \in DOMAIN l /\ (k # "supplier" => "supplier" \in DOMAIN l)
      /\ k \in {"schedule", "form"} => "content" \in DOMAIN l /\ "hash" \in DOMAIN l
      /\ (k = "schedule" => "count" \in DOMAIN l) /\ (k = "form" => "next" \in DOMAIN l)
  BY HasColumns
<1>2. /\ DOMAIN o = DOMAIN l
      /\ \A f \in DOMAIN l : o[f] = IF Given(p, f) THEN p[f] ELSE l[f]
  BY DEF Overlay
<1>3. /\ o.tenant = l.tenant /\ (k # "supplier" => o.supplier = l.supplier)
      /\ k \in {"schedule", "form"} => /\ o.content = (IF Given(p, "content") THEN p.content ELSE l.content)
                                       /\ o.hash = l.hash
      /\ k = "schedule" => o.count = l.count
      /\ k = "form" => o.next = IF Given(p, "next") THEN p.next ELSE l.next
  BY <1>1, <1>2
<1>4. k \notin {"schedule", "form"} => Wants(k, l, p, o)
  BY <1>2, <1>3 DEF Wants
<1>5. ASSUME k = "schedule" PROVE Wants(k, l, p, ScheduleUpdated(l, p))
  <2>1. CASE ~(Given(p, "content") /\ p.content # NullJson)
    <3>1. ScheduleUpdated(l, p) = o
      BY <2>1 DEF ScheduleUpdated
    <3> QED
      BY <1>2, <1>3, <1>5, <2>1, <3>1 DEF Wants
  <2>2. CASE Given(p, "content") /\ p.content # NullJson
    <3> SUFFICES ASSUME NEW w, w = Overlay(o, [hash |-> Sha(p.content), count |-> Len(p.content)])
                 PROVE  Wants(k, l, p, w)
      BY <2>2 DEF ScheduleUpdated
    <3>1. /\ DOMAIN w = DOMAIN l /\ w.hash = Sha(p.content) /\ w.count = Len(p.content)
          /\ \A f \in DOMAIN l : f \notin {"hash", "count"} => w[f] = o[f]
      BY <1>1, <1>2, <1>5 DEF Overlay, Given
    <3>2. w.tenant = l.tenant /\ w.supplier = l.supplier /\ w.content = p.content
      BY <1>1, <1>3, <1>5, <2>2, <3>1
    <3> QED
      BY <1>5, <3>1, <3>2 DEF Wants
  <2> QED
    BY <2>1, <2>2
<1>6. ASSUME k = "form" PROVE Wants(k, l, p, FormUpdated(l, p))
  <2> DEFINE hashed == IF Given(p, "content") /\ p.content # NullJson
                       THEN Overlay(o, [hash |-> Sha(p.content)]) ELSE o
             w == IF Given(p, "next") /\ p.next # 0 THEN Overlay(hashed, [status |-> "superseded"]) ELSE hashed
  <2>1. FormUpdated(l, p) = w
    BY DEF FormUpdated
  <2>2. /\ DOMAIN hashed = DOMAIN l
        /\ hashed.hash = (IF Given(p, "content") /\ p.content # NullJson THEN Sha(p.content) ELSE o.hash)
        /\ \A f \in DOMAIN l : f # "hash" => hashed[f] = o[f]
    BY <1>1, <1>2, <1>6 DEF Overlay, Given
  <2> HIDE DEF hashed
  <2>3. DOMAIN w = DOMAIN l /\ \A f \in DOMAIN l : f # "status" => w[f] = hashed[f]
    BY <2>2 DEF Overlay, Given
  <2>4. /\ w.tenant = o.tenant /\ w.supplier = o.supplier /\ w.content = o.content /\ w.next = o.next
        /\ w.hash = (IF Given(p, "content") /\ p.content # NullJson THEN Sha(p.content) ELSE o.hash)
    BY <1>1, <1>6, <2>2, <2>3
  <2> HIDE DEF w
  <2>5. Wants(k, l, p, w)
    BY <1>3, <1>6, <2>3, <2>4 DEF Wants
  <2> QED
    BY <2>1, <2>5
<1> QED
  BY <1>4, <1>5, <1>6

LEMMA ShaApart == ASSUME NEW a, NEW b, Sha(a) = Sha(b) PROVE a = b
  BY DEF Sha

\* What an update writes: where what it wants is not what it loaded.
Laid(i, l, w, row) ==
  /\ DOMAIN row = DOMAIN w
  /\ \A f \in DOMAIN w : row[f] = IF PyEqual(f, l[f], w[f]) THEN rows[i][f] ELSE w[f]

\* The derived columns still tell what they are derived from.
LEMMA DerivedStays ==
  ASSUME NEW i, NEW x, x.id = i, x.kind = kind, kind \in Kinds, NEW l, LoadedOK(x, l), NEW p, NEW w, Wants(kind, l, p, w),
         DOMAIN l = ColumnsOf(kind), DOMAIN rows[i] = ColumnsOf(kind), Derived(i, rows[i]),
         NEW row, Laid(i, l, w, row), Readable(row), kind' = kind,
         disturbed' = (IF Rewrites(l, w) /\ Rewrites(l, rows[i]) THEN disturbed \cup {i} ELSE disturbed),
         retyped' = (IF \E f \in DOMAIN w : w[f] # l[f] /\ PyEqual(f, l[f], w[f])
                     THEN retyped \cup {i} ELSE retyped)
  PROVE  Derived(i, row)'
<1> SUFFICES ASSUME kind \in {"schedule", "form"} PROVE Derived(i, row)'
  BY DEF Derived
<1>1. DOMAIN w = ColumnsOf(kind) /\ {"content", "hash"} \subseteq DOMAIN w /\ (kind = "schedule" => "count" \in DOMAIN w)
  BY HasColumns DEF Wants
<1>2. row.content # NullJson
  BY <1>1 DEF Readable, Laid
<1>3. l.content # NullJson
  BY DEF LoadedOK
<1>4. retyped \subseteq retyped' /\ disturbed \subseteq disturbed'
  OBVIOUS
<1>5. ASSUME i \notin retyped'
      PROVE  /\ row.hash = Sha(row.content)
             /\ kind = "schedule" /\ i \notin disturbed' => row.count = Len(row.content)
  <2>1. \A f \in DOMAIN w : w[f] # l[f] => ~PyEqual(f, l[f], w[f])
    BY <1>5
  <2>2. \A f \in DOMAIN w : w[f] = l[f] => PyEqual(f, l[f], w[f])
    BY DEF PyEqual
  <2>3. \A f \in DOMAIN w : row[f] = IF w[f] = l[f] THEN rows[i][f] ELSE w[f]
    BY <2>1, <2>2 DEF Laid
  <2>4. /\ row.content = (IF w.content = l.content THEN rows[i].content ELSE w.content)
        /\ row.hash = (IF w.hash = l.hash THEN rows[i].hash ELSE w.hash)
        /\ kind = "schedule" => row.count = IF w.count = l.count THEN rows[i].count ELSE w.count
    BY <1>1, <2>3
  <2>5. l.hash = Sha(l.content) /\ rows[i].hash = Sha(rows[i].content)
    BY <1>4, <1>5 DEF LoadedOK, Derived
  <2>6. kind = "schedule" /\ i \notin disturbed' =>
          /\ w.content = l.content \/ rows[i].content = l.content
          /\ rows[i].count = Len(rows[i].content) /\ l.count = Len(l.content)
    <3>1. kind = "schedule" /\ i \notin disturbed' => ~(Rewrites(l, w) /\ Rewrites(l, rows[i]))
      OBVIOUS
    <3>2. "content" \in DOMAIN l
      BY <1>1 DEF Wants
    <3> QED
      BY <1>4, <1>5, <3>1, <3>2 DEF Derived, LoadedOK, Rewrites
  <2>7. w.content # NullJson
    BY <1>2, <1>3, <2>4
  <2>8. CASE w.content = l.content /\ w.hash = l.hash /\ (kind = "schedule" => w.count = l.count)
    BY <2>4, <2>5, <2>6, <2>8
  <2>9. CASE w.hash = Sha(w.content) /\ (kind = "schedule" => w.count = Len(w.content))
    <3>1. CASE w.content = l.content
      BY <2>4, <2>5, <2>6, <2>9, <3>1
    <3>2. CASE w.content # l.content
      <4>1. w.hash # l.hash
        BY <2>5, <2>9, <3>2, ShaApart
      <4> QED
        BY <2>4, <2>6, <2>9, <3>2, <4>1
    <3> QED
      BY <3>1, <3>2
  <2> QED
    BY <2>7, <2>8, <2>9 DEF Wants
<1> QED
  BY <1>2, <1>5 DEF Derived

UpdatedRow(i, l, w) == [f \in DOMAIN w |-> IF PyEqual(f, l[f], w[f]) THEN rows[i][f] ELSE w[f]]

LEMMA StoreKeeps ==
  ASSUME RecInv, NEW q \in 1 .. MaxRequests, calls[q].pc = "write", NEW x, x = calls[q].x, x.op = "update",
         NEW l, l = calls[q].loaded, NEW w, Wants(x.kind, l, x.p, w), NEW broken, Refusal(broken),
         Store(q, w, broken)
  PROVE  RecInv'
<1>a. PICK k, t, p, i : k = x.kind /\ t = x.tenant /\ p = x.p /\ i = x.id
  OBVIOUS
<1>b. PICK row : row = UpdatedRow(i, l, w)
  OBVIOUS
<1>1. \/ Fails(q, 500) \/ Fails(q, broken)
      \/ /\ rows[i] # NoRow /\ Holds(k, i, row) /\ Readable(row) /\ Commits(q, i, 200)
         /\ rows' = [rows EXCEPT ![i] = row]
         /\ disturbed' = (IF Rewrites(l, w) /\ Rewrites(l, rows[i]) THEN disturbed \cup {i} ELSE disturbed)
         /\ retyped' = (IF \E f \in DOMAIN w : w[f] # l[f] /\ PyEqual(f, l[f], w[f])
                        THEN retyped \cup {i} ELSE retyped)
  BY <1>a, <1>b DEF Store, UpdatedRow
<1>2. CASE Fails(q, 500) \/ Fails(q, broken)
  BY <1>2, FailsKeeps DEF Refusal
<1>3. CASE /\ rows[i] # NoRow /\ Holds(k, i, row) /\ Readable(row) /\ Commits(q, i, 200)
           /\ rows' = [rows EXCEPT ![i] = row]
           /\ disturbed' = (IF Rewrites(l, w) /\ Rewrites(l, rows[i]) THEN disturbed \cup {i} ELSE disturbed)
           /\ retyped' = (IF \E f \in DOMAIN w : w[f] # l[f] /\ PyEqual(f, l[f], w[f])
                          THEN retyped \cup {i} ELSE retyped)
  <2>1. CallsOK /\ RowsOK /\ TrailOK /\ kind \in Kinds
    BY DEF RecInv
  <2>2. Pending(x, l) /\ Targeted(x) /\ LoadedOK(x, l)
    BY <2>1 DEF CallsOK, CallOK, Pending
  <2>3. /\ x \in Inputs[kind] /\ Valid(x) /\ k \in {kind, "supplier"} /\ i \in TableIds(k) /\ Ref(i, t)
    BY <1>a, <2>1, <2>2, Requests DEF Pending
  <2>4. i \in Live /\ i \in SupplierIds \cup RecordIds /\ rows[i].tenant = t
    BY <1>3, <2>1, <2>3 DEF Live, RowsOK, TableIds, Ref
  <2>5. DOMAIN l = ColumnsOf(k) /\ DOMAIN w = DOMAIN l
    BY <1>a, <2>2 DEF LoadedOK, Wants
  <2>6. Laid(i, l, w, row) /\ DOMAIN row = ColumnsOf(k)
    BY <1>b, <2>5 DEF Laid, UpdatedRow
  <2>7. DOMAIN rows[i] = ColumnsOf(k) /\ rows[i].tenant \in Tenants /\ (k # "supplier" => k = kind /\ RecordFits(i, rows[i]))
    <3>1. CASE k = "supplier"
      BY <2>1, <2>3, <2>4, <3>1 DEF TableIds, RowsOK, SupplierFits
    <3>2. CASE k # "supplier"
      BY <2>1, <2>3, <2>4, <3>2 DEF TableIds, RowsOK, RecordFits, Records
    <3> QED
      BY <3>1, <3>2
  <2>8. k \in Kinds \cup {"supplier"}
    BY <2>1, <2>3
  <2>9. row.tenant = rows[i].tenant /\ (k # "supplier" => row.supplier = rows[i].supplier)
    <3>1. "tenant" \in DOMAIN w /\ (k # "supplier" => "supplier" \in DOMAIN w)
      BY <2>5, <2>8, HasColumns
    <3>2. w.tenant = l.tenant /\ (k # "supplier" => w.supplier = l.supplier)
      BY <1>a DEF Wants
    <3>3. \A f \in DOMAIN w : l[f] = w[f] => row[f] = rows[i][f]
      BY <1>b DEF PyEqual, UpdatedRow
    <3> QED
      BY <3>1, <3>2, <3>3
  <2>10. /\ trail' = trail \cup {Entry(q, i)} /\ kind' = kind
         /\ retyped \subseteq retyped' /\ disturbed \subseteq disturbed'
    BY <1>3 DEF Commits, Entry
  <2>11. ASSUME k # "supplier"
         PROVE  /\ row.supplier \in SupplierIds \cap Live /\ rows[row.supplier].tenant = row.tenant
                /\ InWindow(row) /\ Derived(i, row)'
    <3>1. k = kind /\ RecordFits(i, rows[i])
      BY <2>7, <2>11
    <3>2. InWindow(row)
      BY <1>3, <2>1, <3>1, HoldsWindow
    <3>3. Derived(i, row)'
      BY <1>a, <1>3, <2>1, <2>2, <2>5, <2>6, <2>7, <2>10, <3>1, DerivedStays DEF RecordFits
    <3> QED
      BY <2>9, <2>11, <3>1, <3>2, <3>3 DEF RecordFits
  <2>12. k = "form" /\ row.next # 0 => row.next \in Records /\ rows[row.next].tenant = row.tenant
    <3> SUFFICES ASSUME k = "form", row.next # 0 PROVE row.next \in Records /\ rows[row.next].tenant = row.tenant
      OBVIOUS
    <3>1. "next" \in DOMAIN w
      BY <2>5, <2>7, <2>8, HasColumns
    <3>2. row.next = rows[i].next \/ (row.next = w.next /\ w.next # l.next)
      BY <1>b, <3>1 DEF PyEqual, UpdatedRow
    <3>3. CASE row.next = rows[i].next
      BY <2>7, <2>9, <3>3 DEF RecordFits
    <3>4. CASE row.next = w.next /\ w.next # l.next
      <4>1. Given(p, "next") /\ p.next # 0 /\ row.next = p.next
        BY <1>a, <3>4 DEF Wants
      <4>2. p.next \in RecordIds /\ Ref(p.next, t)
        BY <1>a, <2>2, <4>1 DEF Targeted
      <4>3. row.next \in Live
        BY <1>3 DEF Holds, FormHolds
      <4> QED
        BY <2>4, <2>9, <4>1, <4>2, <4>3 DEF Ref, Records
    <3> QED
      BY <3>2, <3>3, <3>4
  <2>13. k = "license" => \A j \in Records \ {i} :
           <<rows[j].tenant, rows[j].supplier, rows[j].key>> # <<row.tenant, row.supplier, row.key>>
    BY <1>3 DEF Holds, LicenseHolds, Records, Live
  <2>14. /\ RowsOK' /\ Live' = Live \cup {i} /\ rows'[i] = row /\ DOMAIN rows' = DOMAIN rows
         /\ \A j \in DOMAIN rows : j # i => rows'[j] = rows[j]
    <3>1. /\ k \in {kind, "supplier"} /\ i \in TableIds(k) /\ DOMAIN row = ColumnsOf(k)
          /\ rows' = [rows EXCEPT ![i] = row] /\ kind' = kind /\ row.tenant \in Tenants
          /\ (i \in Live => row.tenant = rows[i].tenant)
          /\ (i \in DOMAIN FirstSuppliers => row.tenant = FirstSuppliers[i].tenant)
          /\ retyped \subseteq retyped' /\ disturbed \subseteq disturbed'
      BY <1>3, <2>1, <2>3, <2>4, <2>6, <2>7, <2>9, <2>10 DEF RowsOK
    <3>2. k # "supplier" => /\ row.supplier \in SupplierIds \cap Live /\ rows[row.supplier].tenant = row.tenant
                            /\ InWindow(row) /\ Derived(i, row)'
      BY <2>11
    <3> QED
      BY <2>12, <2>13, <3>1, <3>2, PutKeeps
  <2>15. Moves
    BY <2>1, <2>4, <2>9, <2>10, <2>14 DEF Moves, Live
  <2>16. Ref(i, t)'
    BY <2>3, <2>15, RefStays
  <2>17. /\ CallsOK' /\ Told' /\ \A r \in 1 .. MaxRequests : Payload(r)' = Payload(r)
    BY <1>a, <1>3, <2>4, <2>15, <2>16, CommitKeeps
  <2>18. i \in RecordIds => rows'[i].supplier = rows[i].supplier
    BY <2>3, <2>9, <2>14, IdsApart DEF TableIds
  <2>19. SupplierTold' /\ Gone' /\ \A j \in Live' : Known(j)'
    BY <2>4, <2>10, <2>14, <2>15, <2>17, <2>18, WriteKeeps
  <2>20. kind' \in Kinds /\ disturbed' \cup retyped' \subseteq SupplierIds \cup RecordIds
    BY <1>3, <2>4, <2>10 DEF RecInv
  <2> QED
    BY <2>14, <2>17, <2>19, <2>20 DEF RecInv, TrailOK
<1> QED
  BY <1>1, <1>2, <1>3

-----------------------------------------------------------------------------
\* What is left of a row when row i is deleted.
LEMMA Leaves ==
  ASSUME RecInv, NEW i, rows' = Without(i)
  PROVE  /\ DOMAIN rows' = DOMAIN rows /\ Live' = Live \ Removed(i)
         /\ \A j \in Live' : /\ DOMAIN rows'[j] = DOMAIN rows[j]
                             /\ \A f \in DOMAIN rows[j] : f # "next" => rows'[j][f] = rows[j][f]
                             /\ \/ rows'[j] = rows[j]
                                \/ "next" \in DOMAIN rows[j] /\ rows'[j].next = 0
                             /\ "next" \in DOMAIN rows[j] /\ rows[j].next \in Removed(i) => rows'[j].next = 0
<1>1. \A j \in Live : rows[j] # NoRow
  BY DEF Live
<1>2. /\ DOMAIN rows' = DOMAIN rows
      /\ \A j \in DOMAIN rows : rows'[j] =
            CASE j \in Removed(i) -> NoRow
              [] j \notin Removed(i) /\ "next" \in DOMAIN rows[j] /\ rows[j].next \in Removed(i) ->
                    [rows[j] EXCEPT !.next = 0]
              [] OTHER -> rows[j]
  BY DEF Without
<1>3. \A j \in Removed(i) : j \in DOMAIN rows /\ rows'[j] = NoRow
  BY <1>2 DEF Removed
<1>4. ASSUME NEW j \in DOMAIN rows, j \notin Removed(i), "next" \in DOMAIN rows[j], rows[j].next \in Removed(i)
      PROVE  /\ DOMAIN rows'[j] = DOMAIN rows[j] /\ rows'[j].next = 0
             /\ \A f \in DOMAIN rows[j] : f # "next" => rows'[j][f] = rows[j][f]
  <2>1. rows'[j] = [rows[j] EXCEPT !.next = 0]
    BY <1>2, <1>4
  <2> QED
    BY <1>4, <2>1
<1>5. ASSUME NEW j \in DOMAIN rows, j \notin Removed(i), ~("next" \in DOMAIN rows[j] /\ rows[j].next \in Removed(i))
      PROVE  rows'[j] = rows[j]
  BY <1>2, <1>5
<1>6. DOMAIN NoRow = {"tenant"}
  BY DEF NoRow
<1>7. \A j \in DOMAIN rows : j \notin Removed(i) => (rows'[j] = NoRow <=> rows[j] = NoRow)
  <2>1. ASSUME NEW j \in DOMAIN rows, j \notin Removed(i) PROVE rows'[j] = NoRow <=> rows[j] = NoRow
    <3>1. CASE "next" \in DOMAIN rows[j] /\ rows[j].next \in Removed(i)
      BY <1>4, <1>6, <2>1, <3>1
    <3>2. CASE ~("next" \in DOMAIN rows[j] /\ rows[j].next \in Removed(i))
      BY <1>5, <2>1, <3>2
    <3> QED
      BY <3>1, <3>2
  <2> QED
    BY <2>1
<1>8. Live' = Live \ Removed(i)
  BY <1>2, <1>3, <1>7 DEF Live
<1>9. ASSUME NEW j \in Live'
      PROVE  /\ DOMAIN rows'[j] = DOMAIN rows[j]
             /\ \A f \in DOMAIN rows[j] : f # "next" => rows'[j][f] = rows[j][f]
             /\ \/ rows'[j] = rows[j]
                \/ "next" \in DOMAIN rows[j] /\ rows'[j].next = 0
             /\ "next" \in DOMAIN rows[j] /\ rows[j].next \in Removed(i) => rows'[j].next = 0
  <2>1. j \in DOMAIN rows /\ j \notin Removed(i)
    BY <1>8, <1>9 DEF Live
  <2>2. CASE "next" \in DOMAIN rows[j] /\ rows[j].next \in Removed(i)
    BY <1>4, <2>1, <2>2
  <2>3. CASE ~("next" \in DOMAIN rows[j] /\ rows[j].next \in Removed(i))
    BY <1>5, <2>1, <2>3
  <2> QED
    BY <2>2, <2>3
<1> QED
  BY <1>2, <1>8, <1>9

LEMMA EraseRows ==
  ASSUME RecInv, NEW i, rows' = Without(i), kind' = kind, disturbed' = disturbed, retyped' = retyped
  PROVE  /\ RowsOK' /\ Live' = Live \ Removed(i) /\ DOMAIN rows' = DOMAIN rows
         /\ \A j \in Live' : rows'[j].tenant = rows[j].tenant
         /\ \A j \in Records' : rows'[j].supplier = rows[j].supplier
<1>1. RowsOK /\ kind \in Kinds
  BY DEF RecInv
<1>2. /\ DOMAIN rows' = DOMAIN rows /\ Live' = Live \ Removed(i)
      /\ \A j \in Live' : /\ DOMAIN rows'[j] = DOMAIN rows[j]
                          /\ \A f \in DOMAIN rows[j] : f # "next" => rows'[j][f] = rows[j][f]
                          /\ \/ rows'[j] = rows[j]
                             \/ "next" \in DOMAIN rows[j] /\ rows'[j].next = 0
                          /\ "next" \in DOMAIN rows[j] /\ rows[j].next \in Removed(i) => rows'[j].next = 0
  BY Leaves
<1>3. Records' = Records \ Removed(i)
  BY <1>2 DEF Records
<1>4. ASSUME NEW j \in SupplierIds \cap Live' PROVE rows'[j] = rows[j] /\ SupplierFits(rows[j])
  <2>1. SupplierFits(rows[j])
    BY <1>1, <1>2, <1>4 DEF RowsOK
  <2> QED
    BY <1>2, <1>4, <2>1, HasColumns DEF SupplierFits
<1>5. \A j \in Records : RecordFits(j, rows[j]) /\ DOMAIN rows[j] = ColumnsOf(kind)
  BY <1>1 DEF RowsOK, RecordFits
<1>6. ASSUME NEW j \in Records' PROVE rows'[j].tenant = rows[j].tenant /\ rows'[j].supplier = rows[j].supplier
  <2>1. j \in Records /\ j \in Live'
    BY <1>3, <1>6 DEF Records
  <2> QED
    BY <1>1, <1>2, <1>5, <2>1, HasColumns
<1>7. \A j \in Live' : rows'[j].tenant = rows[j].tenant
  <2>1. \A j \in Live' : j \in SupplierIds \/ j \in Records'
    BY <1>1, <1>2 DEF RowsOK, Live, Records
  <2> QED
    BY <1>4, <1>6, <2>1
<1>8. ASSUME NEW j \in Records' PROVE RecordFits(j, rows[j])'
  <2> SUFFICES ASSUME NEW old, old = rows[j], NEW new, new = rows'[j] PROVE RecordFits(j, new)'
    OBVIOUS
  <2>1. j \in Records /\ j \notin Removed(i) /\ j \in Live' /\ RecordFits(j, old) /\ DOMAIN old = ColumnsOf(kind)
    BY <1>3, <1>5, <1>8 DEF Records
  <2>2. /\ DOMAIN new = DOMAIN old /\ \A f \in DOMAIN old : f # "next" => new[f] = old[f]
        /\ (kind = "form" => new.next = old.next \/ new.next = 0)
        /\ (kind = "form" /\ old.next \in Removed(i) => new.next = 0)
    BY <1>1, <1>2, <2>1, HasColumns
  <2>3. new.supplier = old.supplier /\ new.tenant = old.tenant /\ new.tenant \in Tenants
    BY <1>6, <2>1 DEF RecordFits
  <2>4. new.supplier \in SupplierIds \cap Live' /\ rows'[new.supplier].tenant = new.tenant
    <3>1. old.supplier \in SupplierIds \cap Live /\ rows[old.supplier].tenant = old.tenant
      BY <2>1 DEF RecordFits
    <3>2. old.supplier # i
      BY <1>1, <2>1, HasColumns DEF Removed, Records, Live
    <3>3. "supplier" \notin DOMAIN rows[old.supplier]
      BY <1>1, <3>1, HasColumns DEF RowsOK, SupplierFits
    <3>4. old.supplier \in SupplierIds \cap Live'
      BY <1>2, <3>1, <3>2, <3>3 DEF Removed
    <3> QED
      BY <1>4, <2>3, <3>1, <3>4
  <2>5. kind = "form" /\ new.next # 0 => new.next \in Records' /\ rows'[new.next].tenant = new.tenant
    <3> SUFFICES ASSUME kind = "form", new.next # 0
                 PROVE  new.next \in Records' /\ rows'[new.next].tenant = new.tenant
      OBVIOUS
    <3>1. new.next = old.next /\ old.next \notin Removed(i)
      BY <2>2
    <3>2. old.next \in Records /\ rows[old.next].tenant = old.tenant
      BY <2>1, <3>1 DEF RecordFits
    <3>3. new.next \in Records'
      BY <1>3, <3>1, <3>2
    <3> QED
      BY <1>6, <2>3, <3>1, <3>2, <3>3
  <2>6. InWindow(new)'
    <3> SUFFICES ASSUME kind # "form" PROVE InWindow(new)'
      BY DEF InWindow
    <3>1. new.from = old.from /\ new.to = old.to
      BY <1>1, <2>1, <2>2, HasColumns
    <3> QED
      BY <2>1, <3>1 DEF RecordFits, InWindow
  <2>7. Derived(j, new)'
    <3>1. /\ kind \in {"schedule", "form"} => new.content = old.content /\ new.hash = old.hash
          /\ kind = "schedule" => new.count = old.count
      BY <1>1, <2>1, <2>2, HasColumns
    <3> QED
      BY <2>1, <3>1 DEF RecordFits, Derived
  <2> QED
    BY <2>1, <2>2, <2>3, <2>4, <2>5, <2>6, <2>7 DEF RecordFits
<1>9. OneLicense'
  <2> SUFFICES ASSUME kind = "license" PROVE OneLicense'
    BY DEF OneLicense
  <2>1. \A j \in Records' : j \in Records /\ rows'[j].key = rows[j].key
    <3> SUFFICES ASSUME NEW j \in Records' PROVE j \in Records /\ rows'[j].key = rows[j].key
      OBVIOUS
    <3>1. j \in Records /\ j \in Live'
      BY <1>3 DEF Records
    <3> QED
      BY <1>2, <1>5, <3>1, HasColumns
  <2> QED
    BY <1>1, <1>6, <2>1 DEF RowsOK, OneLicense
<1>10. RowsOK'
  <2>1. \A j \in SupplierIds \cap Live' : SupplierFits(rows'[j])
    BY <1>4
  <2>2. \A j \in DOMAIN FirstSuppliers \cap Live' : rows'[j].tenant = FirstSuppliers[j].tenant
    BY <1>1, <1>2, <1>7 DEF RowsOK
  <2> QED
    BY <1>1, <1>2, <1>8, <1>9, <2>1, <2>2 DEF RowsOK
<1> QED
  BY <1>2, <1>6, <1>7, <1>10

LEMMA EraseKeeps ==
  ASSUME RecInv, NEW q \in 1 .. MaxRequests, calls[q].pc = "write", calls[q].x.op = "delete", Erase(q)
  PROVE  RecInv'
<1>a. PICK x, i, t : x = calls[q].x /\ i = x.id /\ t = x.tenant
  OBVIOUS
<1>1. Commits(q, i, 204) /\ rows' = Without(i) /\ UNCHANGED <<disturbed, retyped>> /\ x.op = "delete"
  BY <1>a DEF Erase
<1>2. CallsOK /\ RowsOK /\ Told /\ SupplierTold /\ Gone /\ (\A j \in Live : Known(j)) /\ kind \in Kinds
  BY DEF RecInv, TrailOK
<1>3. Pending(x, calls[q].loaded)
  BY <1>2, <1>a DEF CallsOK, CallOK
<1>4. Ref(i, t) /\ i \in SupplierIds \cup RecordIds
  BY <1>1, <1>3, <1>a DEF Pending, TableIds
<1>5. /\ trail' = trail \cup {Entry(q, i)} /\ kind' = kind /\ disturbed' = disturbed /\ retyped' = retyped
  BY <1>1 DEF Commits, Entry
<1>6. Entry(q, i).q = q /\ Entry(q, i).op = "delete" /\ Entry(q, i).id = i
  BY <1>1, <1>a DEF Entry
<1>7. /\ RowsOK' /\ Live' = Live \ Removed(i) /\ DOMAIN rows' = DOMAIN rows
      /\ \A j \in Live' : rows'[j].tenant = rows[j].tenant
      /\ \A j \in Records' : rows'[j].supplier = rows[j].supplier
  BY <1>1, <1>5, EraseRows
<1>8. Moves
  BY <1>5, <1>7 DEF Moves
<1>9. Ref(i, t)'
  BY <1>4, <1>8, RefStays
<1>10. CallsOK' /\ Told' /\ \A r \in 1 .. MaxRequests : Payload(r)' = Payload(r)
  BY <1>a, <1>1, <1>4, <1>8, <1>9, CommitKeeps
<1>11. \A e \in trail : e.q \in 1 .. MaxRequests /\ Payload(e.q)' = Payload(e.q)
  BY <1>2, <1>10 DEF Told
\* A record goes with its supplier.
<1>12. ASSUME NEW j \in Live, j \notin Live' PROVE j = i \/ (j \in Records /\ rows[j].supplier = i)
  <2>1. j \in Removed(i)
    BY <1>7, <1>12
  <2>2. CASE "supplier" \in DOMAIN rows[j] /\ rows[j].supplier = i
    <3>1. j \notin SupplierIds
      BY <1>2, <1>12, <2>2, HasColumns DEF RowsOK, SupplierFits
    <3> QED
      BY <1>2, <1>12, <2>2, <3>1 DEF RowsOK, Live, Records
  <2> QED
    BY <2>1, <2>2 DEF Removed
<1>13. SupplierTold'
  <2>1. ASSUME NEW e \in trail', e.op = "create", e.id \in RecordIds
        PROVE  Given(Payload(e.q), "supplier")' /\ (e.id \in Live' => rows'[e.id].supplier = Payload(e.q)'.supplier)
    <3>1. e \in trail
      BY <1>5, <1>6, <2>1
    <3>2. Given(Payload(e.q), "supplier") /\ (e.id \in Live => rows[e.id].supplier = Payload(e.q).supplier)
      BY <1>2, <2>1, <3>1 DEF SupplierTold
    <3>3. e.id \in Live' => e.id \in Live /\ rows'[e.id].supplier = rows[e.id].supplier
      BY <1>7, <2>1 DEF Records
    <3> QED
      BY <1>11, <3>1, <3>2, <3>3 DEF Given
  <2>2. FirstId \in Live' => rows'[FirstId].supplier = FirstRecord[kind].supplier
    BY <1>2, <1>7, IdsApart DEF SupplierTold, Records
  <2> QED
    BY <1>5, <2>1, <2>2 DEF SupplierTold
<1>14. Gone'
  <2>1. ASSUME NEW e \in trail', e.op = "create", e.id \notin Live'
        PROVE  \E g \in trail' :
                 /\ g.op = "delete"
                 /\ g.id = e.id \/ (Given(Payload(e.q), "supplier")' /\ g.id = Payload(e.q)'.supplier)
    <3>1. e \in trail /\ Payload(e.q)' = Payload(e.q)
      BY <1>5, <1>6, <1>11, <2>1
    <3>2. CASE e.id \notin Live
      <4>1. PICK g \in trail :
              /\ g.op = "delete"
              /\ g.id = e.id \/ (Given(Payload(e.q), "supplier") /\ g.id = Payload(e.q).supplier)
        BY <1>2, <2>1, <3>1, <3>2 DEF Gone
      <4> QED
        BY <1>5, <3>1, <4>1 DEF Given
    <3>3. CASE e.id \in Live
      <4>1. e.id = i \/ (e.id \in Records /\ rows[e.id].supplier = i)
        BY <1>12, <2>1, <3>3
      <4>2. e.id \in Records => Given(Payload(e.q), "supplier") /\ rows[e.id].supplier = Payload(e.q).supplier
        BY <1>2, <2>1, <3>1 DEF SupplierTold, Records
      <4>3. Entry(q, i) \in trail'
        BY <1>5
      <4>4. Entry(q, i).id = e.id \/ (Given(Payload(e.q), "supplier")' /\ Entry(q, i).id = Payload(e.q)'.supplier)
        BY <1>6, <3>1, <4>1, <4>2 DEF Given
      <4> QED
        BY <1>6, <4>3, <4>4
    <3> QED
      BY <3>2, <3>3
  <2>2. ASSUME FirstId \notin Live'
        PROVE  \E g \in trail' : g.op = "delete" /\ g.id \in {FirstId, FirstRecord[kind].supplier}
    <3>1. CASE FirstId \notin Live
      BY <1>2, <1>5, <3>1 DEF Gone
    <3>2. CASE FirstId \in Live
      <4>1. FirstId = i \/ FirstRecord[kind].supplier = i
        BY <1>2, <1>12, <2>2, <3>2 DEF SupplierTold
      <4> QED
        BY <1>5, <1>6, <4>1
    <3> QED
      BY <3>1, <3>2
  <2> QED
    BY <1>5, <2>1, <2>2 DEF Gone
<1>15. \A j \in Live' : Known(j)'
  BY <1>2, <1>5, <1>7 DEF Known
<1>16. kind' \in Kinds /\ disturbed' \cup retyped' \subseteq SupplierIds \cup RecordIds
  BY <1>5 DEF RecInv
<1> QED
  BY <1>7, <1>10, <1>13, <1>14, <1>15, <1>16 DEF RecInv, TrailOK

\* A supplier update that gives nothing is committed as it is.
LEMMA EmptyUpdateKeeps ==
  ASSUME RecInv, NEW q \in 1 .. MaxRequests, calls[q].pc = "write", calls[q].x.op = "update",
         Commits(q, calls[q].x.id, 200), UNCHANGED <<rows, disturbed, retyped>>
  PROVE  RecInv'
<1>a. PICK x, i, t : x = calls[q].x /\ i = x.id /\ t = x.tenant
  OBVIOUS
<1>1. Commits(q, i, 200) /\ rows' = rows /\ disturbed' = disturbed /\ retyped' = retyped /\ x.op = "update"
  BY <1>a
<1>2. CallsOK /\ RowsOK /\ Told /\ SupplierTold /\ Gone /\ (\A j \in Live : Known(j)) /\ kind \in Kinds
  BY DEF RecInv, TrailOK
<1>3. Pending(x, calls[q].loaded)
  BY <1>2, <1>a DEF CallsOK, CallOK
<1>4. Ref(i, t) /\ i \in SupplierIds \cup RecordIds
  BY <1>1, <1>3, <1>a DEF Pending, TableIds
<1>5. trail' = trail \cup {Entry(q, i)} /\ kind' = kind
  BY <1>1 DEF Commits, Entry
<1>6. Entry(q, i).op = "update"
  BY <1>1, <1>a DEF Entry
<1>7. Live' = Live /\ Records' = Records
  BY <1>1 DEF Live, Records
<1>8. Moves
  BY <1>1, <1>5, <1>7 DEF Moves
<1>9. Ref(i, t)'
  BY <1>4, <1>8, RefStays
<1>10. CallsOK' /\ Told' /\ \A r \in 1 .. MaxRequests : Payload(r)' = Payload(r)
  BY <1>a, <1>1, <1>4, <1>8, <1>9, CommitKeeps
<1>11. \A e \in trail : e.q \in 1 .. MaxRequests /\ Payload(e.q)' = Payload(e.q)
  BY <1>2, <1>10 DEF Told
<1>12. RowsOK'
  BY <1>1, <1>2, <1>5, <1>7 DEF RowsOK, OneLicense, SupplierFits, RecordFits, InWindow, Derived
<1>13. \A e \in trail' : e.op = "create" \/ e.op = "delete" => e \in trail
  BY <1>5, <1>6
<1>14. SupplierTold'
  BY <1>1, <1>2, <1>5, <1>7, <1>11, <1>13 DEF SupplierTold, Given
<1>15. Gone'
  <2>1. ASSUME NEW e \in trail', e.op = "create", e.id \notin Live'
        PROVE  \E g \in trail' :
                 /\ g.op = "delete"
                 /\ g.id = e.id \/ (Given(Payload(e.q), "supplier")' /\ g.id = Payload(e.q)'.supplier)
    <3>1. e \in trail /\ Payload(e.q)' = Payload(e.q)
      BY <1>11, <1>13, <2>1
    <3>2. PICK g \in trail :
            /\ g.op = "delete"
            /\ g.id = e.id \/ (Given(Payload(e.q), "supplier") /\ g.id = Payload(e.q).supplier)
      BY <1>2, <1>7, <2>1, <3>1 DEF Gone
    <3> QED
      BY <1>5, <3>1, <3>2 DEF Given
  <2> QED
    BY <1>2, <1>5, <1>7, <2>1 DEF Gone
<1>16. \A j \in Live' : Known(j)'
  BY <1>2, <1>5, <1>7 DEF Known
<1>17. kind' \in Kinds /\ disturbed' \cup retyped' \subseteq SupplierIds \cup RecordIds
  BY <1>1, <1>5 DEF RecInv
<1> QED
  BY <1>10, <1>12, <1>14, <1>15, <1>16, <1>17 DEF RecInv, TrailOK

-----------------------------------------------------------------------------
\* What is known of a request about to write.
LEMMA Writing ==
  ASSUME RecInv, NEW q \in 1 .. MaxRequests, calls[q].pc = "write", NEW x, x = calls[q].x,
         NEW l, l = calls[q].loaded
  PROVE  /\ x.kind \in Kinds \cup {"supplier"}
         /\ x.op # "delete" => ~Given(x.p, "tenant") /\ ~Given(x.p, "hash") /\ ~Given(x.p, "count")
         /\ x.op = "create" /\ x.kind # "supplier" => Given(x.p, "supplier")
         /\ x.op = "create" /\ x.kind \in {"schedule", "form"} => Given(x.p, "content")
         /\ x.op = "update" => ~Given(x.p, "supplier") /\ DOMAIN l = ColumnsOf(x.kind)
<1>1. Pending(x, l) /\ kind \in Kinds
  BY DEF RecInv, CallsOK, CallOK
<1>2. x \in Inputs[kind] /\ Valid(x) /\ (x.op = "update" => DOMAIN l = ColumnsOf(x.kind))
  BY <1>1 DEF Pending, LoadedOK
<1>3. x.kind \in {kind, "supplier"}
  BY <1>1, <1>2, Requests
<1>4. CASE x.op = "delete"
  BY <1>1, <1>3, <1>4
<1>5. CASE x.op # "delete"
  <2>1. /\ ~Given(x.p, "tenant") /\ ~Given(x.p, "hash") /\ ~Given(x.p, "count")
        /\ Given(x.p, "supplier") => x.op = "create" /\ x.kind # "supplier"
        /\ x.op = "create" /\ x.kind # "supplier" => Given(x.p, "supplier")
        /\ x.op = "create" /\ x.kind \in {"schedule", "form"} => Given(x.p, "content")
    BY <1>1, <1>2, <1>5, PayloadColumns
  <2> QED
    BY <1>1, <1>2, <1>3, <2>1
<1> QED
  BY <1>4, <1>5

LEMMA Refusals == Refusal(409) /\ Refusal(500)
  BY DEF Refusal

LEMMA CreateKeeps ==
  ASSUME RecInv, NEW q \in 1 .. MaxRequests,
         \/ CreateSupplier(q) \/ CreateLicense(q) \/ CreateCertificate(q)
         \/ CreateLossRun(q) \/ CreateSchedule(q) \/ CreateForm(q)
  PROVE  RecInv'
<1>a. PICK x, l, t, p : x = calls[q].x /\ l = calls[q].loaded /\ t = x.tenant /\ p = x.p
  OBVIOUS
<1>1. \E row, broken : /\ calls[q].pc = "write" /\ x.op = "create" /\ Refusal(broken) /\ Insert(q, row, broken)
                       /\ \/ x.kind = "supplier" /\ row = SupplierCreated(t, p)
                          \/ x.kind = "license" /\ row = LicenseCreated(t, p)
                          \/ x.kind = "certificate" /\ row = CertificateCreated(t, p)
                          \/ x.kind = "loss_run" /\ row = LossRunCreated(t, p)
                          \/ x.kind = "schedule" /\ row = ScheduleCreated(t, p)
                          \/ x.kind = "form" /\ row = FormCreated(t, p)
  <2>1. CASE CreateSupplier(q)
    BY <1>a, <2>1, Refusals DEF CreateSupplier, At, Caller, Payload
  <2>2. CASE CreateLicense(q)
    BY <1>a, <2>2, Refusals DEF CreateLicense, At, Caller, Payload
  <2>3. CASE CreateCertificate(q)
    BY <1>a, <2>3, Refusals DEF CreateCertificate, At, Caller, Payload
  <2>4. CASE CreateLossRun(q)
    BY <1>a, <2>4, Refusals DEF CreateLossRun, At, Caller, Payload
  <2>5. CASE CreateSchedule(q)
    BY <1>a, <2>5, Refusals DEF CreateSchedule, At, Caller, Payload
  <2>6. CASE CreateForm(q)
    BY <1>a, <2>6, Refusals DEF CreateForm, At, Caller, Payload
  <2> QED
    BY <2>1, <2>2, <2>3, <2>4, <2>5, <2>6
<1>2. PICK row, broken :
        /\ calls[q].pc = "write" /\ x.op = "create" /\ Refusal(broken) /\ Insert(q, row, broken)
        /\ \/ x.kind = "supplier" /\ row = SupplierCreated(t, p)
           \/ x.kind = "license" /\ row = LicenseCreated(t, p)
           \/ x.kind = "certificate" /\ row = CertificateCreated(t, p)
           \/ x.kind = "loss_run" /\ row = LossRunCreated(t, p)
           \/ x.kind = "schedule" /\ row = ScheduleCreated(t, p)
           \/ x.kind = "form" /\ row = FormCreated(t, p)
  BY <1>1
<1>3. /\ ~Given(p, "tenant") /\ ~Given(p, "hash") /\ ~Given(p, "count")
      /\ x.kind # "supplier" => Given(p, "supplier")
      /\ x.kind \in {"schedule", "form"} => Given(p, "content")
  BY <1>a, <1>2, Writing
<1>4. Made(x.kind, t, p, row)
  <2>1. CASE x.kind = "supplier" /\ row = SupplierCreated(t, p)
    BY <1>3, <2>1, Builds
  <2>2. CASE x.kind = "license" /\ row = LicenseCreated(t, p)
    BY <1>3, <2>2, Builds
  <2>3. CASE x.kind = "certificate" /\ row = CertificateCreated(t, p)
    BY <1>3, <2>3, Builds
  <2>4. CASE x.kind = "loss_run" /\ row = LossRunCreated(t, p)
    BY <1>3, <2>4, Builds
  <2>5. CASE x.kind = "schedule" /\ row = ScheduleCreated(t, p)
    BY <1>3, <2>5, Builds
  <2>6. CASE x.kind = "form" /\ row = FormCreated(t, p)
    BY <1>3, <2>6, Builds
  <2> QED
    BY <1>2, <2>1, <2>2, <2>3, <2>4, <2>5, <2>6
<1> QED
  BY <1>a, <1>2, <1>4, InsertKeeps

LEMMA UpdateKeeps ==
  ASSUME RecInv, NEW q \in 1 .. MaxRequests,
         \/ UpdateSupplier(q) \/ UpdateLicense(q) \/ UpdateCertificate(q)
         \/ UpdateLossRun(q) \/ UpdateSchedule(q) \/ UpdateForm(q)
  PROVE  RecInv'
<1>a. PICK x, l, p : x = calls[q].x /\ l = calls[q].loaded /\ p = x.p
  OBVIOUS
<1>1. \/ /\ calls[q].pc = "write" /\ x.op = "update" /\ Commits(q, calls[q].x.id, 200)
         /\ UNCHANGED <<rows, disturbed, retyped>>
      \/ \E w, broken :
            /\ calls[q].pc = "write" /\ x.op = "update" /\ Refusal(broken) /\ Store(q, w, broken)
            /\ \/ x.kind = "supplier" /\ w = SupplierUpdated(l, p)
               \/ x.kind = "license" /\ w = LicenseUpdated(l, p)
               \/ x.kind = "certificate" /\ w = CertificateUpdated(l, p)
               \/ x.kind = "loss_run" /\ w = LossRunUpdated(l, p)
               \/ x.kind = "schedule" /\ w = ScheduleUpdated(l, p)
               \/ x.kind = "form" /\ w = FormUpdated(l, p)
  <2>1. CASE UpdateSupplier(q)
    BY <1>a, <2>1, Refusals DEF UpdateSupplier, At, Loaded, Payload
  <2>2. CASE UpdateLicense(q)
    BY <1>a, <2>2, Refusals DEF UpdateLicense, At, Loaded, Payload
  <2>3. CASE UpdateCertificate(q)
    BY <1>a, <2>3, Refusals DEF UpdateCertificate, At, Loaded, Payload
  <2>4. CASE UpdateLossRun(q)
    BY <1>a, <2>4, Refusals DEF UpdateLossRun, At, Loaded, Payload
  <2>5. CASE UpdateSchedule(q)
    BY <1>a, <2>5, Refusals DEF UpdateSchedule, At, Loaded, Payload
  <2>6. CASE UpdateForm(q)
    BY <1>a, <2>6, Refusals DEF UpdateForm, At, Loaded, Payload
  <2> QED
    BY <2>1, <2>2, <2>3, <2>4, <2>5, <2>6
<1>2. CASE /\ calls[q].pc = "write" /\ x.op = "update" /\ Commits(q, calls[q].x.id, 200)
           /\ UNCHANGED <<rows, disturbed, retyped>>
  BY <1>a, <1>2, EmptyUpdateKeeps
<1>3. ASSUME NEW w, NEW broken,
             /\ calls[q].pc = "write" /\ x.op = "update" /\ Refusal(broken) /\ Store(q, w, broken),
             \/ x.kind = "supplier" /\ w = SupplierUpdated(l, p)
             \/ x.kind = "license" /\ w = LicenseUpdated(l, p)
             \/ x.kind = "certificate" /\ w = CertificateUpdated(l, p)
             \/ x.kind = "loss_run" /\ w = LossRunUpdated(l, p)
             \/ x.kind = "schedule" /\ w = ScheduleUpdated(l, p)
             \/ x.kind = "form" /\ w = FormUpdated(l, p)
      PROVE  RecInv'
  <2>1. /\ x.kind \in Kinds \cup {"supplier"} /\ DOMAIN l = ColumnsOf(x.kind)
        /\ ~Given(p, "tenant") /\ ~Given(p, "hash") /\ ~Given(p, "count") /\ ~Given(p, "supplier")
    BY <1>a, <1>3, Writing
  <2>2. Wants(x.kind, l, p, w)
    <3>1. CASE x.kind = "supplier" /\ w = SupplierUpdated(l, p)
      BY <2>1, <3>1, Updates
    <3>2. CASE x.kind = "license" /\ w = LicenseUpdated(l, p)
      BY <2>1, <3>2, Updates
    <3>3. CASE x.kind = "certificate" /\ w = CertificateUpdated(l, p)
      BY <2>1, <3>3, Updates
    <3>4. CASE x.kind = "loss_run" /\ w = LossRunUpdated(l, p)
      BY <2>1, <3>4, Updates
    <3>5. CASE x.kind = "schedule" /\ w = ScheduleUpdated(l, p)
      BY <2>1, <3>5, Updates
    <3>6. CASE x.kind = "form" /\ w = FormUpdated(l, p)
      BY <2>1, <3>6, Updates
    <3> QED
      BY <1>3, <3>1, <3>2, <3>3, <3>4, <3>5, <3>6
  <2> QED
    BY <1>a, <1>3, <2>2, StoreKeeps
<1> QED
  BY <1>1, <1>2, <1>3

LEMMA DeleteKeeps ==
  ASSUME RecInv, NEW q \in 1 .. MaxRequests,
         \/ DeleteSupplier(q) \/ DeleteLicense(q) \/ DeleteCertificate(q)
         \/ DeleteLossRun(q) \/ DeleteSchedule(q) \/ DeleteForm(q)
  PROVE  RecInv'
<1>1. calls[q].pc = "write" /\ calls[q].x.op = "delete" /\ Erase(q)
  BY DEF DeleteSupplier, DeleteLicense, DeleteCertificate, DeleteLossRun, DeleteSchedule, DeleteForm, At
<1> QED
  BY <1>1, EraseKeeps

LEMMA RecStep == RecInv /\ [RecordsNext]_recordVars => RecInv'
<1> SUFFICES ASSUME RecInv, [RecordsNext]_recordVars PROVE RecInv'
  OBVIOUS
<1>1. ASSUME NEW q \in 1 .. MaxRequests, NEW x \in Inputs[kind], Receive(q, x) PROVE RecInv'
  BY <1>1, ReceiveKeeps
<1>2. ASSUME NEW q \in 1 .. MaxRequests, CheckTarget(q) PROVE RecInv'
  BY <1>2, CheckTargetKeeps
<1>3. ASSUME NEW q \in 1 .. MaxRequests,
             \/ CreateSupplier(q) \/ CreateLicense(q) \/ CreateCertificate(q)
             \/ CreateLossRun(q) \/ CreateSchedule(q) \/ CreateForm(q)
      PROVE  RecInv'
  BY <1>3, CreateKeeps
<1>4. ASSUME NEW q \in 1 .. MaxRequests,
             \/ UpdateSupplier(q) \/ UpdateLicense(q) \/ UpdateCertificate(q)
             \/ UpdateLossRun(q) \/ UpdateSchedule(q) \/ UpdateForm(q)
      PROVE  RecInv'
  BY <1>4, UpdateKeeps
<1>5. ASSUME NEW q \in 1 .. MaxRequests,
             \/ DeleteSupplier(q) \/ DeleteLicense(q) \/ DeleteCertificate(q)
             \/ DeleteLossRun(q) \/ DeleteSchedule(q) \/ DeleteForm(q)
      PROVE  RecInv'
  BY <1>5, DeleteKeeps
<1>6. ASSUME UNCHANGED recordVars PROVE RecInv'
  <2>1. /\ kind' = kind /\ rows' = rows /\ trail' = trail /\ calls' = calls
        /\ disturbed' = disturbed /\ retyped' = retyped
    BY <1>6 DEF recordVars
  <2>2. Live' = Live /\ Records' = Records
    BY <2>1 DEF Live, Records
  <2>3. Moves
    BY <2>1, <2>2 DEF Moves
  <2>4. CallsOK'
    <3>1. ASSUME NEW r \in 1 .. MaxRequests PROVE CallOK(calls[r])'
      <4> SUFFICES ASSUME NEW d, d = calls'[r] PROVE CallOK(d)'
        OBVIOUS
      <4>1. CallOK(d)
        BY <2>1 DEF RecInv, CallsOK
      <4> QED
        BY <2>3, <4>1, CallStays
    <3> QED
      BY <2>1, <3>1 DEF RecInv, CallsOK
  <2>5. RowsOK'
    BY <2>1, <2>2 DEF RecInv, RowsOK, OneLicense, SupplierFits, RecordFits, InWindow, Derived
  <2>6. \A i, t : (Ref(i, t)' <=> Ref(i, t)) /\ (Known(i)' <=> Known(i))
    BY <2>1, <2>2 DEF Ref, Known
  <2>7. \A q : Payload(q)' = Payload(q)
    BY <2>1 DEF Payload
  <2>8. Told'
    BY <2>1, <2>6 DEF RecInv, TrailOK, Told
  <2>9. SupplierTold'
    BY <2>1, <2>2, <2>7 DEF RecInv, TrailOK, SupplierTold
  <2>10. Gone'
    BY <2>1, <2>2, <2>7 DEF RecInv, TrailOK, Gone
  <2> QED
    BY <2>1, <2>2, <2>4, <2>5, <2>6, <2>8, <2>9, <2>10 DEF RecInv, TrailOK
<1> QED
  BY <1>1, <1>2, <1>3, <1>4, <1>5, <1>6 DEF RecordsNext

-----------------------------------------------------------------------------
(* What a reader of the tables sees. *)

LEMMA RecSound == RecInv => RecordsSound
<1> SUFFICES ASSUME RecInv PROVE RecordsSound
  OBVIOUS
<1>1. /\ kind \in Kinds /\ disturbed \cup retyped \subseteq SupplierIds \cup RecordIds
      /\ CallsOK /\ RowsOK /\ TrailOK
  BY DEF RecInv
<1>2. /\ DOMAIN rows = SupplierIds \cup RecordIds
      /\ \A i \in SupplierIds \cap Live : SupplierFits(rows[i])
      /\ \A i \in DOMAIN FirstSuppliers \cap Live : rows[i].tenant = FirstSuppliers[i].tenant
      /\ \A i \in Records : RecordFits(i, rows[i])
      /\ OneLicense
  BY <1>1 DEF RowsOK
<1>3. \A i \in Live : i \in SupplierIds \/ i \in Records
  BY <1>2 DEF Live, Records
<1>4. Told /\ SupplierTold /\ Gone /\ \A i \in Live : Known(i)
  BY <1>1 DEF TrailOK
<1>5. RecordsTypeOK
  <2>1. \A i \in Live : rows[i].tenant \in Tenants
    BY <1>2, <1>3 DEF SupplierFits, RecordFits
  <2>2. \A i \in Records : DOMAIN rows[i] = ColumnsOf(kind) /\ (kind # "form" => rows[i].from # 0)
    BY <1>2 DEF RecordFits, InWindow
  <2>3. \A q \in 1 .. MaxRequests :
          /\ calls[q].pc \in {"idle", "target", "write", "done"}
          /\ calls[q].answer \in {0, 200, 201, 204, 404, 409, 422, 500}
    BY <1>1 DEF CallsOK, CallOK
  <2>4. \A e \in trail : e.q \in 1 .. MaxRequests /\ e.id \in SupplierIds \cup RecordIds
    BY <1>4 DEF Told
  <2> QED
    BY <1>1, <2>1, <2>2, <2>3, <2>4 DEF RecordsTypeOK
<1>6. ReferencesInTenant
  BY <1>2 DEF ReferencesInTenant, RecordFits
<1>7. RowsConsistent
  <2>1. kind # "form" => \A i \in Records : rows[i].to > rows[i].from \/ (kind = "schedule" /\ rows[i].to = 0)
    BY <1>2 DEF RecordFits, InWindow
  <2>2. ASSUME kind = "license", NEW i \in Records, NEW j \in Records,
               rows[i].supplier = rows[j].supplier, rows[i].key = rows[j].key
        PROVE  i = j
    <3>1. rows[i].tenant = rows[j].tenant
      BY <1>2, <2>2 DEF RecordFits
    <3> QED
      BY <1>2, <2>2, <3>1 DEF OneLicense
  <2> QED
    BY <2>1, <2>2 DEF RowsConsistent
<1>8. DerivedFollowContent
  BY <1>2 DEF DerivedFollowContent, RecordFits, Derived
<1>9. RowsReadable
  BY <1>2 DEF RowsReadable, RecordFits, Derived
<1>10. TrailExplainsRows
  <2>1. {e.q : e \in trail} = {q \in 1 .. MaxRequests : calls[q].answer \in {200, 201, 204}}
    BY <1>4 DEF Told
  <2>2. \A e, g \in trail : e.q = g.q => e = g
    BY <1>4 DEF Told
  <2>3. \A i \in Live : i \in DOMAIN FirstSuppliers \/ i = FirstId
                          \/ \E e \in trail : e.op = "create" /\ e.id = i
    BY <1>4 DEF Known
  <2>4. \A e \in trail : e.op = "create" /\ e.id \notin Live =>
          \E g \in trail :
             /\ g.op = "delete"
             /\ g.id = e.id \/ (Given(Payload(e.q), "supplier") /\ g.id = Payload(e.q).supplier)
    BY <1>4 DEF Gone
  <2>5. FirstId \notin Live =>
          \E g \in trail : g.op = "delete" /\ g.id \in {FirstId, FirstRecord[kind].supplier}
    BY <1>4 DEF Gone
  <2>6. \A e \in trail : e.id \in DOMAIN FirstSuppliers => e.tenant = FirstSuppliers[e.id].tenant
    BY <1>4 DEF Told, Ref
  <2>7. \A e \in trail : e.id \in Live => e.tenant = rows[e.id].tenant
    BY <1>4 DEF Told, Ref
  <2> QED
    BY <2>1, <2>2, <2>3, <2>4, <2>5, <2>6, <2>7 DEF TrailExplainsRows
<1> QED
  BY <1>5, <1>6, <1>7, <1>8, <1>9, <1>10 DEF RecordsSound

\* The six services of a tenant's records, under overlapping requests: every
\* row kept agrees with its supplier, its schema, what is derived from it and
\* the audit trail, whatever commits between a read and the write after it.
THEOREM RecordsSafe == RecordsSpec => []RecordsSound
<1>1. RecInv /\ [RecordsNext]_recordVars => RecInv'
  BY RecStep
<1> QED
  BY RecStart, RecSound, <1>1, PTL DEF RecordsSpec

-----------------------------------------------------------------------------
(* Imports: what the proof needs said *)

Sum(c) == c.inserted + c.updated + c.skipped + c.errors
\* The codes of the dry run's findings.
Codes == {"name_required", "name_too_long", "fein_required", "fein_format", "state_required",
          "state_invalid", "email_invalid", "duplicate_fein_in_file"}
ErrorCodes == Codes \cup {"missing_columns", "parse_error", "too_many_rows", "chunk_failed",
                        "duplicate_fein_existing"}

Working == {"rows", "insert", "store"}
Plans == UNION {[S -> Deed] : S \in SUBSET Nat}
RequestRow == [pc : Pc, job : Jobs \cup {NoJob}, done : SUBSET Nat, known : SUBSET Feins,
               plan : Plans, count : Counts]

ImportTypes ==
  /\ job \in [Jobs -> Job] /\ errs \in [Jobs -> SUBSET [row : Nat, code : ErrorCodes]]
  /\ supplier \in [Feins -> Nat] /\ req \in [ImportRequests -> RequestRow]
  /\ importCalls \in 0 .. MaxImportCalls /\ importFaults \in 0 .. MaxImportFaults
  /\ stored \in [Jobs -> SUBSET Nat] /\ runs \in [Jobs -> Nat] /\ settled \subseteq Jobs

\* The dry run of j went through, and its findings are kept.
Ready(j) == LET f == job[j].file IN
  /\ job[j].status # "absent" /\ Outcome[f] = "ready" /\ Recorded[f] \subseteq errs[j]
  /\ job[j].total = Total(f) /\ job[j].invalid = Total(f) - Cardinality(KeptRows[f])

\* A run has handed out the first of the kept rows and counted each.
Streamed(r) == LET kept == KeptRows[job[req[r].job].file] IN
  /\ req[r].done \subseteq kept /\ \A d \in req[r].done, l \in kept \ req[r].done : d < l
  /\ Sum(req[r].count) = Cardinality(req[r].done)
  /\ req[r].pc \in {"insert", "store"} => Chunk(r) # {}
  /\ req[r].pc = "store" => DOMAIN req[r].plan = Chunk(r)

\* What a request plans: it stores no FEIN that is there, but for a race.
Planned(r) ==
  req[r].pc = "store" =>
    /\ \A k \in Storing(r) : supplier[k] = 0 \/ k \in raced
    /\ job[req[r].job].dup = "error" => Did(r, "update") \cup Did(r, "skip") = {}

RequestOK(r) ==
  /\ req[r].pc = "idle" <=> req[r].job = NoJob
  /\ req[r].pc # "idle" => job[req[r].job].status # "absent"
  /\ req[r].pc \in {"begin"} \cup Working => Ready(req[r].job)
  /\ req[r].pc \notin Working => req[r].done = {} /\ req[r].count = NoCounts
  /\ req[r].pc \in Working => Streamed(r) /\ Planned(r)

\* The runs of job j.
RunsOn(j) == {r \in ImportRequests : req[r].pc \in Working /\ req[r].job = j}

Explained(j, i) ==
  i \in stored[j] \/ (\E e \in errs[j] : e.row = i) \/ CoveredByFailedChunk(j, i)
Reported(j) == job[j].dup = "error" /\ j \notin unreported

\* What the only run of a job has stored and reported of the rows it handed out.
OnlyRun(j, r) ==
  /\ stored[j] \subseteq req[r].done
  /\ Cardinality(stored[j]) = req[r].count.inserted + req[r].count.updated
  /\ Reported(j) => \A i \in req[r].done : Explained(j, i)

\* ... and what it leaves.
Left(j) == LET s == job[j].summary IN
  /\ Sum(s) = job[j].total /\ job[j].imported = Cardinality(stored[j]) /\ s.errors >= job[j].invalid
  /\ Reported(j) => \A i \in KeptRows[job[j].file] : Explained(j, i)

JobOK(j) ==
  /\ job[j].status \in {"dry_run_ready", "importing", "completed"} => Ready(j)
  /\ runs[j] = 0 => stored[j] = {} /\ RunsOn(j) = {} /\ job[j].status # "completed"
  /\ runs[j] = 1 =>
       /\ \A r, o \in RunsOn(j) : r = o
       /\ \A r \in RunsOn(j) : OnlyRun(j, r)
       /\ job[j].status = "completed" => RunsOn(j) = {} /\ Left(j)
  /\ j \in settled => /\ job[j].status \in TerminalStatuses
                      /\ \A r \in ImportRequests : req[r].job = j => req[r].pc = "commit_read"

ImportInv ==
  /\ ImportTypes
  /\ \A r \in ImportRequests : RequestOK(r)
  /\ \A j \in Jobs : JobOK(j)
  /\ DuplicatesOnlyByRace

-----------------------------------------------------------------------------
(* Imported files *)

\* The least of some numbers.
LEMMA LeastOf ==
  ASSUME NEW U \in SUBSET Nat, U # {}
  PROVE  \E m \in U : \A k \in U : m <= k
<1> DEFINE R == OpToRel(<, Nat)
<1>1. \E m \in U : \A k \in U : ~(<<k, m>> \in R)
  BY WFMin, NatLessThanWellFounded, Zenon
<1>2. \A k, m \in Nat : k < m => <<k, m>> \in R
  BY DEF OpToRel
<1> HIDE DEF R
<1>3. PICK m \in U : \A k \in U : ~(<<k, m>> \in R)
  BY <1>1
<1>4. ASSUME NEW k \in U PROVE m <= k
  <2>1. k \in Nat /\ m \in Nat
    OBVIOUS
  <2>2. ~(k < m)
    BY <1>2, <1>3, <2>1
  <2> QED BY <2>1, <2>2
<1> QED BY <1>4

\* The rows of a file are numbered from 1.
LEMMA FileRows ==
  ASSUME NEW f \in Uploads
  PROVE  \E n \in Nat : Numbers(f) = 1 .. n /\ Total(f) = n
<1> DEFINE full == {l \in DOMAIN Content[f].lines : ~BlankLine(Content[f].lines[l])}
           n == Cardinality(full)
<1>1. IsFiniteSet(full) /\ n \in Nat
  <2>1. IsFiniteSet(DOMAIN Content[f].lines)
    BY ImportAssumption
  <2> QED
    BY <2>1, FS_Subset, FS_CardinalityType
<1>2. Numbers(f) = 1 .. n
  BY DEF Numbers, Rows, Parsed
<1> HIDE DEF n
<1>3. Total(f) = n
  BY <1>1, <1>2, FS_Interval DEF Total
<1> QED
  BY <1>1, <1>2, <1>3

\* The rows a file keeps are valid rows of it.
LEMMA FileKept ==
  ASSUME NEW f \in Uploads
  PROVE  /\ IsFiniteSet(Numbers(f)) /\ Numbers(f) \subseteq Nat /\ Total(f) \in Nat
         /\ KeptRows[f] \subseteq ValidRows(f) /\ ValidRows(f) \subseteq Numbers(f)
         /\ IsFiniteSet(KeptRows[f])
         /\ Cardinality(KeptRows[f]) \in Nat /\ Cardinality(KeptRows[f]) <= Total(f)
<1>1. PICK n \in Nat : Numbers(f) = 1 .. n /\ Total(f) = n
  BY FileRows
<1>2. KeptRows[f] \subseteq ValidRows(f) /\ ValidRows(f) \subseteq Numbers(f)
  BY DEF KeptRows, KeptOf, Key, ValidRows
<1>3. IsFiniteSet(1 .. n) /\ 1 .. n \subseteq Nat
  BY <1>1, FS_Interval
<1>4. IsFiniteSet(KeptRows[f]) /\ Cardinality(KeptRows[f]) <= Cardinality(Numbers(f))
  BY <1>1, <1>2, <1>3, FS_Subset
<1> QED
  BY <1>1, <1>2, <1>3, <1>4, FS_CardinalityType DEF Total

\* A valid row has the FEIN of a supplier.
LEMMA KeyTyped ==
  ASSUME NEW f \in Uploads
  PROVE  DOMAIN Key[f] = ValidRows(f) /\ \A i \in ValidRows(f) : Key[f][i] \in Feins
<1>1. DOMAIN Key[f] = ValidRows(f) /\ \A i \in ValidRows(f) : Key[f][i] = DedupeKey(Rows(f)[i], Mapping(f))
  BY DEF Key
<1>2. ASSUME NEW i \in ValidRows(f) PROVE Cell(Rows(f)[i], "fein", Mapping(f)) \in DOMAIN FeinOf
  <2> DEFINE cell == Cells(Rows(f)[i], Mapping(f))
  <2>1. RowErrors(cell) = {}
    BY DEF ValidRows
  <2>2. cell.fein = Cell(Rows(f)[i], "fein", Mapping(f))
    BY DEF Cells, Required
  <2> HIDE DEF cell
  <2>3. cell.fein \notin {Blank} \cup DOMAIN FeinOf => "fein_format" \in RowErrors(cell)
    BY DEF RowErrors, Failing
  <2>4. cell.fein = Blank => "fein_required" \in RowErrors(cell)
    BY DEF RowErrors, Failing
  <2>5. cell.fein \in DOMAIN FeinOf
    BY <2>1, <2>3, <2>4
  <2> QED
    BY <2>2, <2>5
<1> QED
  BY <1>1, <1>2 DEF DedupeKey, Feins

\* What validate_row reports.
LEMMA RowCodes == ASSUME NEW cell PROVE RowErrors(cell) \subseteq Codes
  BY DEF RowErrors, Failing, Codes

\* Four codes are finitely many.
LEMMA FourFinite == ASSUME NEW a, NEW b, NEW c, NEW d PROVE IsFiniteSet({a, b, c, d})
<1>1. IsFiniteSet({a})
  BY FS_Singleton
<1>2. IsFiniteSet({a} \cup {b})
  BY <1>1, FS_AddElement, Zenon
<1>3. IsFiniteSet(({a} \cup {b}) \cup {c})
  BY <1>2, FS_AddElement, Zenon
<1>4. IsFiniteSet((({a} \cup {b}) \cup {c}) \cup {d})
  BY <1>3, FS_AddElement, Zenon
<1>5. (({a} \cup {b}) \cup {c}) \cup {d} = {a, b, c, d}
  OBVIOUS
<1> QED
  BY <1>4, <1>5

LEMMA CodesFinite == IsFiniteSet(Codes)
<1> DEFINE a == {"name_required", "name_too_long", "fein_required", "fein_format"}
           b == {"state_required", "state_invalid", "email_invalid", "duplicate_fein_in_file"}
<1>1. IsFiniteSet(a) /\ IsFiniteSet(b)
  BY FourFinite, Zenon
<1>2. IsFiniteSet(a \cup b)
  BY <1>1, FS_Union, Zenon
<1>3. Codes = a \cup b
  BY DEF Codes
<1> QED
  BY <1>2, <1>3

\* A row's findings name the row.
LEMMA FindingsTyped ==
  ASSUME NEW f, NEW i
  PROVE  Findings(f, i) \subseteq {Error(i, c) : c \in Codes}
<1>1. "duplicate_fein_in_file" \in Codes
  BY DEF Codes
<1> QED
  BY <1>1, RowCodes DEF Findings

LEMMA FindingsFinite ==
  ASSUME NEW f, NEW i
  PROVE  IsFiniteSet(Findings(f, i)) /\ Cardinality(Findings(f, i)) \in Nat
<1> DEFINE E == {Error(i, c) : c \in Codes}
           g == [c \in Codes |-> Error(i, c)]
<1>1. g \in Surjection(Codes, E)
  BY DEF Surjection
<1>2. IsFiniteSet(E)
  BY <1>1, CodesFinite, FS_Surjection DEF ExistsSurjection
<1> HIDE DEF E
<1>3. Findings(f, i) \in SUBSET E
  BY FindingsTyped DEF E
<1> QED
  BY <1>2, <1>3, FS_Subset, FS_CardinalityType

\* A row that is not kept has a finding.
LEMMA NotKeptFound ==
  ASSUME NEW f \in Uploads, NEW i \in Numbers(f), i \notin KeptRows[f]
  PROVE  \E e \in Findings(f, i) : e.row = i
<1>1. \A c : Error(i, c).row = i
  BY DEF Error
<1>2. CASE Repeats(Key[f], i)
  BY <1>1, <1>2 DEF Findings
<1>3. CASE ~Repeats(Key[f], i)
  <2>1. i \notin ValidRows(f)
    BY <1>3, KeyTyped DEF KeptRows, KeptOf
  <2>2. RowErrors(Cells(Rows(f)[i], Mapping(f))) # {}
    BY <2>1 DEF ValidRows
  <2> QED
    BY <1>1, <1>3, <2>2 DEF Findings
<1> QED
  BY <1>2, <1>3

-----------------------------------------------------------------------------
(* The report *)

\* Of some errors any number up to all of them can be picked.
LEMMA SomeOf ==
  ASSUME NEW S, IsFiniteSet(S), NEW n \in Nat, n <= Cardinality(S)
  PROVE  \E T \in SUBSET S : Cardinality(T) = n
<1>1. PICK b \in Bijection(1 .. Cardinality(S), S) : TRUE
  BY FS_CardinalityType DEF ExistsBijection
<1> DEFINE T == {b[k] : k \in 1 .. n}
           g == [k \in 1 .. n |-> b[k]]
<1>2. Cardinality(S) \in Nat
  BY FS_CardinalityType
<1>3. T \subseteq S
  BY <1>1, <1>2 DEF Bijection, Injection, Surjection
<1>4. g \in Bijection(1 .. n, T)
  BY <1>1, <1>2 DEF Bijection, Injection, Surjection, IsInjective
<1>5. IsFiniteSet(1 .. n) /\ Cardinality(1 .. n) = n
  BY FS_Interval
<1>6. Cardinality(T) = n
  BY <1>4, <1>5, FS_Bijection DEF ExistsBijection
<1> QED
  BY <1>3, <1>6

\* What fits of a row's errors is of them, and all of them if there is room.
LEMMA FittingOf ==
  ASSUME NEW S, IsFiniteSet(S), NEW n \in Nat
  PROVE  /\ Fitting(S, n) \subseteq S
         /\ n + Cardinality(S) <= MaxRows => Fitting(S, n) = S
<1> DEFINE m == IF Cardinality(S) <= MaxRows - n THEN Cardinality(S) ELSE MaxRows - n
<1>1. Cardinality(S) \in Nat /\ MaxRows \in Nat
  BY FS_CardinalityType, ImportAssumption
<1>2. CASE n >= MaxRows
  <2>1. n + Cardinality(S) <= MaxRows => Cardinality(S) = 0
    BY <1>1, <1>2
  <2>2. n + Cardinality(S) <= MaxRows => S = {}
    BY <2>1, FS_EmptySet
  <2> QED
    BY <1>2, <2>2 DEF Fitting
<1>3. CASE ~(n >= MaxRows)
  <2>1. m \in Nat /\ m <= Cardinality(S)
    BY <1>1, <1>3
  <2> HIDE DEF m
  <2>2. \E T \in SUBSET S : Cardinality(T) = m
    BY <2>1, SomeOf
  <2>3. Fitting(S, n) \in SUBSET S /\ Cardinality(Fitting(S, n)) = m
    BY <1>3, <2>2 DEF Fitting, m
  <2>4. n + Cardinality(S) <= MaxRows => m = Cardinality(S)
    BY <1>1, <1>3 DEF m
  <2> QED
    BY <2>3, <2>4, FS_Subset
<1> QED
  BY <1>2, <1>3

\* The findings of the rows before row i.
FoundSoFar(f, i) == UNION {Found[f][k] : k \in 1 .. (i - 1)}

LEMMA FoundRows ==
  ASSUME NEW f \in Uploads
  PROVE  /\ DOMAIN Found[f] = Numbers(f)
         /\ \A i \in Numbers(f) : /\ Found[f][i] = Findings(f, i) /\ IsFiniteSet(Found[f][i])
                                  /\ \A e \in Found[f][i] : e.row = i /\ e.code \in Codes /\ e = Error(i, e.code)
<1>1. DOMAIN Found[f] = Numbers(f) /\ \A i \in Numbers(f) : Found[f][i] = Findings(f, i)
  BY DEF Found
<1>2. \A i, c : Error(i, c).row = i /\ Error(i, c).code = c
  BY DEF Error
<1>3. \A i : IsFiniteSet(Findings(f, i)) /\ Findings(f, i) \subseteq {Error(i, c) : c \in Codes}
  BY FindingsTyped, FindingsFinite
<1> QED
  BY <1>1, <1>2, <1>3

LEMMA BeforeGrows ==
  ASSUME NEW f \in Uploads, NEW i \in Numbers(f) \cup {Total(f) + 1}
  PROVE  /\ IsFiniteSet(FoundSoFar(f, i)) /\ FoundBefore(Found[f], i) = Cardinality(FoundSoFar(f, i))
         /\ Cardinality(FoundSoFar(f, i)) \in Nat
<1>1. PICK n \in Nat : Numbers(f) = 1 .. n /\ Total(f) = n
  BY FileRows
<1> DEFINE K == 1 .. (i - 1)
           W == {Found[f][k] : k \in K}
           g == [k \in K |-> Found[f][k]]
<1>2. i \in Nat /\ i >= 1 /\ K \subseteq Numbers(f)
  BY <1>1
<1>3. IsFiniteSet(K)
  BY <1>2, FS_Interval
<1>4. g \in Surjection(K, W)
  BY DEF Surjection
<1>5. IsFiniteSet(W)
  BY <1>3, <1>4, FS_Surjection DEF ExistsSurjection
<1>6. \A T \in W : IsFiniteSet(T)
  BY <1>2, FoundRows
<1> HIDE DEF W
<1>7. IsFiniteSet(UNION W)
  BY <1>5, <1>6, FS_UNION
<1> QED
  BY <1>7, FS_CardinalityType DEF FoundSoFar, W, FoundBefore

\* A report that fits has every finding of a file that is scanned to its end.
LEMMA ReportComplete ==
  ASSUME NEW f \in FitsReport, Outcome[f] = "ready", NEW i \in Numbers(f)
  PROVE  Findings(f, i) \subseteq Recorded[f]
<1>1. f \in Uploads /\ FoundBefore(Found[f], Total(f) + 1) <= MaxRows
  BY DEF FitsReport
<1>2. PICK n \in Nat : Numbers(f) = 1 .. n /\ Total(f) = n
  BY <1>1, FileRows
<1> DEFINE F == Found[f][i]
<1>3. IsFiniteSet(F) /\ F = Findings(f, i) /\ \A k \in Numbers(f) : \A e \in Found[f][k] : e.row = k
  BY <1>1, FoundRows
<1>4. /\ IsFiniteSet(FoundSoFar(f, i)) /\ FoundBefore(Found[f], i) = Cardinality(FoundSoFar(f, i))
      /\ Cardinality(FoundSoFar(f, i)) \in Nat
  BY <1>1, BeforeGrows
<1>5. /\ IsFiniteSet(FoundSoFar(f, n + 1)) /\ FoundBefore(Found[f], n + 1) = Cardinality(FoundSoFar(f, n + 1))
      /\ Cardinality(FoundSoFar(f, n + 1)) \in Nat
  BY <1>1, <1>2, BeforeGrows
<1>6. FoundSoFar(f, i) \cup F \subseteq FoundSoFar(f, n + 1)
  BY <1>2 DEF FoundSoFar
<1>7. FoundSoFar(f, i) \cap F = {}
  <2> SUFFICES ASSUME NEW e \in FoundSoFar(f, i), e \in F PROVE FALSE
    OBVIOUS
  <2>1. PICK k \in 1 .. (i - 1) : e \in Found[f][k]
    BY DEF FoundSoFar
  <2>2. k \in Numbers(f) /\ k # i
    BY <1>2
  <2> QED
    BY <1>3, <2>1, <2>2
<1> HIDE DEF F
<1>8. /\ Cardinality(F) \in Nat /\ Cardinality({}) = 0
      /\ Cardinality(FoundSoFar(f, i) \cup F) = Cardinality(FoundSoFar(f, i)) + Cardinality(F) - Cardinality(FoundSoFar(f, i) \cap F)
      /\ Cardinality(FoundSoFar(f, i) \cup F) <= Cardinality(FoundSoFar(f, n + 1))
  BY <1>3, <1>4, <1>5, <1>6, FS_Union, FS_Subset, FS_CardinalityType, FS_EmptySet
<1>9. Cardinality(FoundSoFar(f, i)) + Cardinality(F) <= MaxRows
  <2>1. MaxRows \in Nat
    BY ImportAssumption
  <2>2. Cardinality(FoundSoFar(f, i) \cap F) = 0
    BY <1>7, FS_EmptySet
  <2> QED
    BY <1>1, <1>2, <1>4, <1>5, <1>8, <2>1, <2>2
<1>10. Fitting(F, FoundBefore(Found[f], i)) = F
  BY <1>3, <1>4, <1>9, FittingOf
<1>11. i \in Scanned(f)
  <2>1. ~(Content[f].broken # 0 /\ Content[f].broken <= MaxRows + 1) /\ ~(Total(f) > MaxRows)
    BY <1>1 DEF Outcome
  <2>2. Content[f].broken \in Nat /\ MaxRows \in Nat /\ i \in Nat /\ i <= n
    BY <1>1, <1>2, ImportAssumption
  <2> QED
    BY <1>2, <2>1, <2>2 DEF Scanned
<1> QED
  BY <1>1, <1>3, <1>10, <1>11 DEF Recorded, RecordedOf, F

\* What is recorded are findings, of numbered rows and of the dry run's codes.
LEMMA RecordedTyped ==
  ASSUME NEW f \in Uploads, NEW e \in Recorded[f]
  PROVE  e \in [row : Nat, code : ErrorCodes] /\ e.code \in Codes
<1>1. PICK i \in Scanned(f) : e \in Fitting(Found[f][i], FoundBefore(Found[f], i))
  BY DEF Recorded, RecordedOf
<1>2. i \in Numbers(f) /\ i \in Nat
  BY FileKept DEF Scanned
<1>3. IsFiniteSet(Found[f][i]) /\ FoundBefore(Found[f], i) \in Nat
  BY <1>2, FoundRows, BeforeGrows
<1>4. e \in Found[f][i]
  BY <1>1, <1>3, FittingOf
<1>5. e.code \in Codes /\ e = Error(i, e.code)
  BY <1>2, <1>4, FoundRows
<1>6. Codes \subseteq ErrorCodes
  BY DEF ErrorCodes
<1> QED
  BY <1>2, <1>5, <1>6 DEF Error

-----------------------------------------------------------------------------
(* Chunks *)

\* Of rows that are left there is a first chunk, of the lowest of them.
LEMMA FirstFacts ==
  ASSUME NEW L \in SUBSET Nat, IsFiniteSet(L)
  PROVE  /\ FirstOf(L) \subseteq L /\ IsFiniteSet(FirstOf(L))
         /\ L # {} => FirstOf(L) # {}
         /\ \A c \in FirstOf(L), l \in L \ FirstOf(L) : c < l
         /\ \A i \in FirstOf(L) : Cardinality({k \in L : k < i}) < ChunkSize
<1> DEFINE UpTo(i) == {k \in L : k <= i}
           Below(i) == {k \in L : k < i}
<1>1. ChunkSize \in Nat /\ ChunkSize >= 1
  BY ImportAssumption
<1>2. \A i : Rank(L, i) = Cardinality(UpTo(i)) /\ IsFiniteSet(UpTo(i)) /\ Cardinality(UpTo(i)) \in Nat
  <2> SUFFICES ASSUME NEW i PROVE Rank(L, i) = Cardinality(UpTo(i)) /\ IsFiniteSet(UpTo(i)) /\ Cardinality(UpTo(i)) \in Nat
    OBVIOUS
  <2>1. UpTo(i) \subseteq L
    OBVIOUS
  <2> QED
    BY <2>1, FS_Subset, FS_CardinalityType DEF Rank
<1>3. FirstOf(L) \subseteq L /\ IsFiniteSet(FirstOf(L))
  BY FS_Subset DEF FirstOf
<1>4. ASSUME L # {} PROVE FirstOf(L) # {}
  <2>1. PICK m \in L : \A k \in L : m <= k
    BY <1>4, LeastOf
  <2>2. \A k \in L : k <= m <=> k = m
    <3>1. ASSUME NEW k \in L PROVE k <= m <=> k = m
      BY <2>1
    <3> QED
      BY <3>1
  <2>3. Cardinality(UpTo(m)) = 1
    <3>1. UpTo(m) = {m}
      BY <2>1, <2>2, Zenon
    <3> QED
      BY <3>1, FS_Singleton
  <2> QED
    BY <1>1, <1>2, <2>1, <2>3 DEF FirstOf
<1>5. ASSUME NEW c \in FirstOf(L), NEW l \in L \ FirstOf(L) PROVE c < l
  <2>1. c \in L /\ c \in Nat /\ l \in Nat
    BY <1>3
  <2> SUFFICES ASSUME l <= c PROVE FALSE
    BY <2>1
  <2>2. UpTo(l) \subseteq UpTo(c)
    <3>1. ASSUME NEW k \in L, k <= l PROVE k <= c
      BY <2>1, <3>1
    <3> QED
      BY <3>1
  <2>3. Cardinality(UpTo(l)) <= Cardinality(UpTo(c))
    BY <1>2, <2>2, FS_Subset
  <2>4. Cardinality(UpTo(c)) <= ChunkSize /\ ~(Cardinality(UpTo(l)) <= ChunkSize)
    BY <1>2 DEF FirstOf
  <2> QED
    BY <1>1, <1>2, <2>3, <2>4
<1>6. ASSUME NEW i \in FirstOf(L) PROVE Cardinality(Below(i)) < ChunkSize
  <2>1. i \in L /\ i \in Nat
    BY <1>3
  <2>2. /\ \A k \in UpTo(i) : k \in Below(i) \cup {i}
        /\ \A k \in Below(i) \cup {i} : k \in UpTo(i)
        /\ i \notin Below(i)
    <3>1. ASSUME NEW k \in L PROVE (k <= i <=> k < i \/ k = i) /\ ~(i < i)
      BY <2>1
    <3> QED
      BY <2>1, <3>1
  <2>3. Below(i) \subseteq L
    OBVIOUS
  <2>4. IsFiniteSet(Below(i)) /\ Cardinality(Below(i)) \in Nat
    BY <2>3, FS_Subset, FS_CardinalityType
  <2> HIDE DEF UpTo, Below
  <2>5. UpTo(i) = Below(i) \cup {i} /\ Cardinality(Below(i) \cup {i}) = Cardinality(Below(i)) + 1
    BY <2>2, <2>4, FS_AddElement
  <2>6. Cardinality(UpTo(i)) <= ChunkSize
    BY <1>2 DEF FirstOf
  <2> QED
    BY <1>1, <2>2, <2>4, <2>5, <2>6
<1> QED
  BY <1>3, <1>4, <1>5, <1>6

\* What is left for a run, and the chunk it is at.
Rest(r) == KeptRows[job[req[r].job].file] \ req[r].done

LEMMA RestFacts ==
  ASSUME ImportTypes, NEW r \in ImportRequests, req[r].job \in Jobs
  PROVE  /\ job[req[r].job].file \in Uploads
         /\ Rest(r) \in SUBSET Nat /\ IsFiniteSet(Rest(r)) /\ Chunk(r) = FirstOf(Rest(r))
         /\ Chunk(r) \subseteq Rest(r) /\ IsFiniteSet(Chunk(r)) /\ Cardinality(Chunk(r)) \in Nat
         /\ Rest(r) # {} => Chunk(r) # {}
         /\ \A c \in Chunk(r), l \in Rest(r) \ Chunk(r) : c < l
         /\ \A i \in Chunk(r) : Cardinality({k \in Rest(r) : k < i}) < ChunkSize
<1>1. job[req[r].job].file \in Uploads
  BY DEF ImportTypes, Job
<1>2. Rest(r) \in SUBSET Nat /\ IsFiniteSet(Rest(r))
  BY <1>1, FileKept, FS_Difference DEF Rest
<1>3. Chunk(r) = FirstOf(Rest(r))
  BY DEF Chunk, Rest
<1> QED
  BY <1>1, <1>2, <1>3, FirstFacts, FS_CardinalityType

\* Handing out a chunk.
LEMMA HandedOut ==
  ASSUME ImportTypes, NEW r \in ImportRequests, req[r].job \in Jobs, Streamed(r)
  PROVE  LET kept == KeptRows[job[req[r].job].file]
             more == req[r].done \cup Chunk(r)
         IN  /\ more \subseteq kept /\ IsFiniteSet(more) /\ more \in SUBSET Nat
             /\ \A d \in more, l \in kept \ more : d < l
             /\ Cardinality(more) = Cardinality(req[r].done) + Cardinality(Chunk(r))
             /\ req[r].done \cap Chunk(r) = {}
<1> DEFINE kept == KeptRows[job[req[r].job].file]
           done == req[r].done
           more == done \cup Chunk(r)
<1>1. /\ job[req[r].job].file \in Uploads /\ Rest(r) = kept \ done
      /\ Chunk(r) \subseteq Rest(r) /\ IsFiniteSet(Chunk(r))
      /\ \A c \in Chunk(r), l \in Rest(r) \ Chunk(r) : c < l
  BY RestFacts DEF Rest
<1>2. IsFiniteSet(kept) /\ kept \subseteq Nat
  BY <1>1, FileKept
<1>3. done \subseteq kept /\ \A d \in done, l \in kept \ done : d < l
  BY DEF Streamed
<1> HIDE DEF kept, done
<1>4. IsFiniteSet(done)
  BY <1>2, <1>3, FS_Subset
<1>5. done \cap Chunk(r) = {}
  BY <1>1
<1>6. IsFiniteSet(more) /\ Cardinality(more) = Cardinality(done) + Cardinality(Chunk(r)) - Cardinality(done \cap Chunk(r))
  BY <1>1, <1>4, FS_Union, Zenon
<1>7. Cardinality(done \cap Chunk(r)) = 0 /\ Cardinality(done) \in Nat /\ Cardinality(Chunk(r)) \in Nat
  BY <1>1, <1>4, <1>5, FS_EmptySet, FS_CardinalityType
<1>8. Cardinality(more) = Cardinality(done) + Cardinality(Chunk(r))
  BY <1>6, <1>7
<1>9. more \subseteq kept /\ \A d \in more, l \in kept \ more : d < l
  BY <1>1, <1>3
<1> QED
  BY <1>2, <1>5, <1>6, <1>8, <1>9 DEF kept, done

-----------------------------------------------------------------------------
(* Import requests and jobs *)

\* The bounds.
LEMMA ImportNumbers ==
  /\ Jobs \subseteq Nat /\ NoJob \notin Jobs /\ MaxImportCalls \in Nat /\ MaxImportFaults \in Nat
  BY ImportAssumption DEF Jobs, NoJob

LEMMA IdleTyped == Idle \in RequestRow /\ Idle.pc = "idle" /\ Idle.job = NoJob /\ Idle.done = {} /\ Idle.count = NoCounts
<1>1. NoPlan \in [{} -> Deed]
  BY DEF NoPlan
<1>2. NoPlan \in Plans
  BY <1>1 DEF Plans
<1>3. NoCounts \in Counts
  BY DEF NoCounts, Counts
<1> QED
  BY <1>2, <1>3 DEF Idle, RequestRow, Pc

LEMMA NothingCounted == Sum(NoCounts) = 0 /\ NoCounts.inserted + NoCounts.updated = 0
  BY DEF Sum, NoCounts

LEMMA AbsentTyped ==
  Absent \in Job /\ Absent.status = "absent"
<1>1. (CHOOSE f \in Uploads : TRUE) \in Uploads
  BY ImportAssumption
<1>2. NoCounts \in Counts
  BY DEF NoCounts, Counts
<1> QED
  BY <1>1, <1>2 DEF Absent, Job, OnDuplicate

\* No job, no request: the invariant holds.
LEMMA ImportStart == ImportInit => ImportInv
<1> SUFFICES ASSUME ImportInit PROVE ImportInv
  OBVIOUS
<1>1. ImportTypes
  BY IdleTyped, AbsentTyped, ImportNumbers DEF ImportInit, ImportTypes
<1>2. ASSUME NEW r \in ImportRequests PROVE RequestOK(r)
  <2>1. req[r] = Idle
    BY DEF ImportInit
  <2> QED
    BY <2>1, IdleTyped DEF RequestOK, Working
<1>3. ASSUME NEW j \in Jobs PROVE JobOK(j)
  <2>1. job[j].status = "absent" /\ stored[j] = {} /\ runs[j] = 0 /\ settled = {}
    BY AbsentTyped DEF ImportInit
  <2>2. RunsOn(j) = {}
    BY IdleTyped DEF ImportInit, RunsOn, Working
  <2> QED
    BY <2>1, <2>2 DEF JobOK
<1>4. DuplicatesOnlyByRace
  BY DEF ImportInit, DuplicatesOnlyByRace
<1> QED
  BY <1>1, <1>2, <1>3, <1>4 DEF ImportInv

\* A finished dry run stays one while its findings stay.
LEMMA ReadyStays ==
  ASSUME NEW j, Ready(j), job'[j].file = job[j].file, job'[j].status # "absent",
         job'[j].total = job[j].total, job'[j].invalid = job[j].invalid,
         Recorded[job[j].file] \subseteq errs[j] => Recorded[job[j].file] \subseteq errs'[j]
  PROVE  Ready(j)'
  BY DEF Ready

\* An explanation stays while its row does.
LEMMA ExplainedStays ==
  ASSUME NEW j, NEW i, Explained(j, i), job'[j].file = job[j].file,
         stored[j] \subseteq stored'[j], errs[j] \subseteq errs'[j]
  PROVE  Explained(j, i)'
  BY DEF Explained, CoveredByFailedChunk

\* A request that a step does not touch.
LEMMA RequestStays ==
  ASSUME NEW o \in ImportRequests, RequestOK(o), req'[o] = req[o],
         req[o].pc # "idle" =>
           LET j == req[o].job IN
           /\ job'[j].file = job[j].file /\ job'[j].dup = job[j].dup
           /\ job[j].status # "absent" => job'[j].status # "absent"
           /\ Ready(j) => Ready(j)',
         req[o].pc = "store" =>
           \A k \in Storing(o) : supplier[k] = 0 \/ k \in raced => supplier'[k] = 0 \/ k \in raced'
  PROVE  RequestOK(o)'
<1>1. CASE req[o].pc \notin Working
  BY <1>1 DEF RequestOK, Working
<1>2. CASE req[o].pc \in Working
  <2>1. req[o].pc # "idle" /\ req[o].pc \in {"begin"} \cup Working
    BY <1>2 DEF Working
  <2>2. Chunk(o)' = Chunk(o)
    BY <2>1 DEF Chunk
  <2>3. (\A d : Did(o, d)' = Did(o, d)) /\ Storing(o)' = Storing(o)
    BY <2>1 DEF Did, Storing
  <2>4. Streamed(o)'
    BY <1>2, <2>1, <2>2 DEF RequestOK, Streamed
  <2>5. Planned(o)'
    BY <1>2, <2>1, <2>3 DEF RequestOK, Planned
  <2> QED
    BY <1>2, <2>1, <2>4, <2>5 DEF RequestOK
<1> QED
  BY <1>1, <1>2

\* A job whose row and history a step does not touch.
LEMMA JobStays ==
  ASSUME NEW j \in Jobs, JobOK(j), job'[j] = job[j], stored'[j] = stored[j], runs'[j] = runs[j],
         errs[j] \subseteq errs'[j], unreported \subseteq unreported', j \in settled' => j \in settled,
         \A r \in ImportRequests : req'[r].job = j =>
           \/ req'[r] = req[r]
           \/ req'[r].pc = "commit_read"
           \/ /\ j \notin settled /\ req'[r].pc \notin Working
           \/ /\ j \notin settled /\ req[r].pc \in Working /\ req[r].job = j
              /\ req'[r].done = req[r].done /\ req'[r].count = req[r].count
  PROVE  JobOK(j)'
<1>1. Ready(j) => Ready(j)'
  BY DEF Ready
<1>2. \A i : Explained(j, i) => Explained(j, i)'
  BY ExplainedStays
<1>3. \A r \in RunsOn(j)' : r \in RunsOn(j) /\ req'[r].done = req[r].done /\ req'[r].count = req[r].count
  BY DEF RunsOn, Working
<1>4. Reported(j)' => Reported(j)
  BY DEF Reported
<1>5. ASSUME NEW r \in RunsOn(j)', OnlyRun(j, r) PROVE OnlyRun(j, r)'
  BY <1>2, <1>3, <1>4, <1>5 DEF OnlyRun
<1>6. Left(j) => Left(j)'
  BY <1>2, <1>4 DEF Left
<1>7. RunsOn(j)' \subseteq RunsOn(j)
  BY <1>3
<1>8. ASSUME runs'[j] = 1
      PROVE  /\ \A r, o \in RunsOn(j)' : r = o
             /\ \A r \in RunsOn(j)' : OnlyRun(j, r)'
             /\ job'[j].status = "completed" => RunsOn(j)' = {} /\ Left(j)'
  BY <1>5, <1>6, <1>7, <1>8 DEF JobOK
<1>9. ASSUME j \in settled'
      PROVE  job'[j].status \in TerminalStatuses /\ \A r \in ImportRequests : req'[r].job = j => req'[r].pc = "commit_read"
  BY <1>9 DEF JobOK
<1> QED
  BY <1>1, <1>7, <1>8, <1>9 DEF JobOK

-----------------------------------------------------------------------------
(* Steps that only move a request *)

LEMMA RequestMoves ==
  ASSUME ImportInv, NEW r \in ImportRequests, NEW q \in RequestRow, req' = [req EXCEPT ![r] = q],
         UNCHANGED <<job, errs, supplier, stored, runs, settled, raced, unreported>>,
         importCalls' \in 0 .. MaxImportCalls, importFaults' \in 0 .. MaxImportFaults,
         RequestOK(r)',
         q.pc \in Working => req[r].pc \in Working /\ q.job = req[r].job
                             /\ q.done = req[r].done /\ q.count = req[r].count,
         q.job \in settled => q.pc = "commit_read"
  PROVE  ImportInv'
<1>1. ImportTypes'
  BY DEF ImportInv, ImportTypes
<1>2. req'[r] = q /\ \A o \in ImportRequests \ {r} : req'[o] = req[o]
  BY DEF ImportInv, ImportTypes
<1>3. \A j : Ready(j) => Ready(j)'
  BY DEF Ready
<1>4. ASSUME NEW o \in ImportRequests PROVE RequestOK(o)'
  <2>1. CASE o = r
    BY <2>1
  <2>2. CASE o # r
    <3>1. RequestOK(o) /\ req'[o] = req[o]
      BY <1>2, <2>2 DEF ImportInv
    <3> QED
      BY <1>3, <3>1, RequestStays
  <2> QED
    BY <2>1, <2>2
<1>5. ASSUME NEW j \in Jobs PROVE JobOK(j)'
  <2>1. JobOK(j)
    BY DEF ImportInv
  <2>2. ASSUME NEW o \in ImportRequests, req'[o].job = j
        PROVE  \/ req'[o] = req[o]
               \/ req'[o].pc = "commit_read"
               \/ j \notin settled /\ req'[o].pc \notin Working
               \/ /\ j \notin settled /\ req[o].pc \in Working /\ req[o].job = j
                  /\ req'[o].done = req[o].done /\ req'[o].count = req[o].count
    BY <1>2, <2>2
  <2> QED
    BY <2>1, <2>2, JobStays
<1>6. DuplicatesOnlyByRace'
  BY DEF ImportInv, DuplicatesOnlyByRace
<1> QED
  BY <1>1, <1>4, <1>5, <1>6 DEF ImportInv

\* A request that is over.
LEMMA EndsKeeps ==
  ASSUME ImportInv, NEW r \in ImportRequests, Ends(r),
         UNCHANGED <<job, errs, supplier, stored, runs, settled, raced, unreported>>,
         importCalls' \in 0 .. MaxImportCalls, importFaults' \in 0 .. MaxImportFaults
  PROVE  ImportInv'
<1>1. req' = [req EXCEPT ![r] = Idle] /\ req'[r] = Idle
  BY DEF Ends, ImportInv, ImportTypes
<1>2. RequestOK(r)'
  BY <1>1, IdleTyped DEF RequestOK, Working
<1>3. Idle.job \notin settled
  BY IdleTyped, ImportNumbers DEF ImportInv, ImportTypes
<1> QED
  BY <1>1, <1>2, <1>3, IdleTyped, RequestMoves DEF Working

\* A request that arrives.
LEMMA TakesKeeps ==
  ASSUME ImportInv, NEW r \in ImportRequests, NEW j \in Jobs, NEW pc \in Pc \ ({"idle", "begin"} \cup Working),
         Takes(r, j, pc), job[j].status # "absent", j \in settled => pc = "commit_read",
         UNCHANGED <<job, errs, supplier, importFaults, history>>
  PROVE  ImportInv'
<1> DEFINE q == [Idle EXCEPT !.pc = pc, !.job = j]
<1>1. q \in RequestRow /\ q.pc = pc /\ q.job = j /\ q.done = {} /\ q.count = NoCounts
  BY IdleTyped DEF RequestRow
<1> HIDE DEF q
<1>2. req' = [req EXCEPT ![r] = q] /\ importCalls < MaxImportCalls /\ importCalls' = importCalls + 1
  BY DEF Takes, q
<1>3. req'[r] = q /\ importCalls' \in 0 .. MaxImportCalls /\ importFaults' \in 0 .. MaxImportFaults
  BY <1>2, ImportNumbers DEF ImportInv, ImportTypes
<1>4. RequestOK(r)'
  BY <1>1, <1>3, ImportNumbers DEF RequestOK, Working
<1>5. UNCHANGED <<job, errs, supplier, stored, runs, settled, raced, unreported>>
  BY DEF history
<1> QED
  BY <1>1, <1>2, <1>3, <1>4, <1>5, RequestMoves DEF Working

\* A request that goes on to a stage before its run.
LEMMA GoesKeeps ==
  ASSUME ImportInv, NEW r \in ImportRequests, NEW pc \in Pc \ ({"idle"} \cup Working), Goes(r, pc),
         req[r].pc \notin {"idle"} \cup Working, pc = "begin" => Ready(req[r].job), req[r].job \notin settled,
         UNCHANGED <<job, errs, supplier, importFaults, history, importCalls>>
  PROVE  ImportInv'
<1> DEFINE q == [req[r] EXCEPT !.pc = pc]
<1>1. req[r] \in RequestRow
  BY DEF ImportInv, ImportTypes
<1>2. /\ q \in RequestRow /\ q.pc = pc /\ q.job = req[r].job /\ q.done = req[r].done
      /\ q.count = req[r].count
  BY <1>1 DEF RequestRow
<1> HIDE DEF q
<1>3. req' = [req EXCEPT ![r] = q]
  BY <1>1 DEF Goes, q, RequestRow
<1>4. req'[r] = q
  BY <1>3 DEF ImportInv, ImportTypes
<1>5. RequestOK(r) /\ importCalls' \in 0 .. MaxImportCalls /\ importFaults' \in 0 .. MaxImportFaults
  BY DEF ImportInv, ImportTypes
<1>6. \A j : Ready(j) => Ready(j)'
  BY DEF Ready
<1>7. RequestOK(r)'
  BY <1>2, <1>4, <1>5, <1>6 DEF RequestOK, Working
<1>8. UNCHANGED <<job, errs, supplier, stored, runs, settled, raced, unreported>>
  BY DEF history
<1> QED
  BY <1>2, <1>3, <1>5, <1>7, <1>8, RequestMoves DEF Working

\* What the invariant says of one request.
LEMMA Requesting ==
  ASSUME ImportInv, NEW r \in ImportRequests
  PROVE  /\ RequestOK(r) /\ req[r] \in RequestRow
         /\ req[r].pc # "idle" => req[r].job \in Jobs
         /\ req[r].job \in settled => req[r].pc = "commit_read"
         /\ importCalls \in 0 .. MaxImportCalls /\ importFaults \in 0 .. MaxImportFaults
<1>1. RequestOK(r) /\ req[r] \in RequestRow /\ settled \subseteq Jobs
  BY DEF ImportInv, ImportTypes
<1>2. req[r].pc # "idle" => req[r].job \in Jobs
  BY <1>1 DEF RequestOK, RequestRow
<1>3. req[r].job \in settled => req[r].pc = "commit_read"
  BY <1>1 DEF ImportInv, JobOK
<1> QED
  BY <1>1, <1>2, <1>3 DEF ImportInv, ImportTypes

\* run_validation and run_commit look at the status.
LEMMA ReadsKeep ==
  ASSUME ImportInv, NEW r \in ImportRequests, ValidateRead(r) \/ CommitRead(r)
  PROVE  ImportInv'
<1>1. UNCHANGED <<job, errs, supplier, importFaults, history, importCalls>>
  BY DEF ValidateRead, CommitRead
<1>2. UNCHANGED <<job, errs, supplier, stored, runs, settled, raced, unreported>>
  BY <1>1 DEF history
<1>3. importCalls' \in 0 .. MaxImportCalls /\ importFaults' \in 0 .. MaxImportFaults
  BY <1>1, Requesting
<1>4. CASE Ends(r)
  BY <1>2, <1>3, <1>4, EndsKeeps
<1>5. CASE Goes(r, "validate") /\ req[r].pc = "validate_read"
  <2>1. req[r].job \notin settled
    BY <1>5, Requesting
  <2> QED
    BY <1>1, <1>5, <2>1, GoesKeeps DEF Pc, Working
<1>6. CASE Goes(r, "begin") /\ req[r].pc = "commit_read" /\ job[req[r].job].status = "dry_run_ready"
  <2>1. req[r].job \in Jobs
    BY <1>6, Requesting
  <2>2. JobOK(req[r].job)
    BY <2>1 DEF ImportInv
  <2>3. Ready(req[r].job) /\ req[r].job \notin settled
    BY <1>6, <2>2 DEF JobOK, TerminalStatuses
  <2> QED
    BY <1>1, <1>6, <2>3, GoesKeeps DEF Pc, Working
<1> QED
  BY <1>4, <1>5, <1>6 DEF ValidateRead, CommitRead, AtStage

\* Commits, tasks and cancellations arrive.
LEMMA ArrivalsKeep ==
  ASSUME ImportInv, NEW r \in ImportRequests, NEW j \in Jobs,
         CommitRequested(r, j) \/ TaskStarts(r, j) \/ CancelRead(r, j)
  PROVE  ImportInv'
<1>1. UNCHANGED <<job, errs, supplier, importFaults, history>>
  BY DEF CommitRequested, TaskStarts, CancelRead
<1>2. j \in settled => job[j].status \in TerminalStatuses
  BY DEF ImportInv, JobOK
<1>3. CASE Takes(r, j, "commit_read") /\ job[j].status # "absent"
  BY <1>1, <1>3, TakesKeeps DEF Pc, Working
<1>4. CASE Takes(r, j, "validate_read") /\ job[j].status = "pending"
  BY <1>1, <1>2, <1>4, TakesKeeps DEF Pc, Working, TerminalStatuses
<1>5. CASE Takes(r, j, "cancel") /\ job[j].status # "absent" /\ job[j].status \notin TerminalStatuses
  BY <1>1, <1>2, <1>5, TakesKeeps DEF Pc, Working
<1> QED
  BY <1>3, <1>4, <1>5 DEF CommitRequested, TaskStarts, CancelRead, Present

\* A request dies.
LEMMA DiesKeeps ==
  ASSUME ImportInv, NEW r \in ImportRequests, Dies(r)
  PROVE  ImportInv'
<1>1. /\ Ends(r) /\ UNCHANGED <<job, errs, supplier, stored, runs, settled, raced, unreported, importCalls>>
      /\ importFaults < MaxImportFaults /\ importFaults' = importFaults + 1
  BY DEF Dies
<1>2. importCalls' \in 0 .. MaxImportCalls /\ importFaults' \in 0 .. MaxImportFaults
  BY <1>1, Requesting, ImportNumbers
<1> QED
  BY <1>1, <1>2, EndsKeeps

\* The rows a run is at.
LEMMA RunAt ==
  ASSUME ImportInv, NEW r \in ImportRequests, req[r].pc \in Working
  PROVE  LET f == job[req[r].job].file IN
         /\ req[r].job \in Jobs /\ f \in Uploads /\ job[req[r].job].dup \in OnDuplicate
         /\ Streamed(r) /\ Ready(req[r].job) /\ req[r].job \notin settled
         /\ Chunk(r) \subseteq KeptRows[f] /\ Chunk(r) \in SUBSET Nat /\ IsFiniteSet(Chunk(r))
         /\ \A i \in Chunk(r) : i \in ValidRows(f) /\ Key[f][i] \in Feins
<1>1. req[r].job \in Jobs /\ RequestOK(r) /\ req[r].job \notin settled
  BY Requesting DEF Working
<1>2. job[req[r].job] \in Job /\ ImportTypes
  BY <1>1 DEF ImportInv, ImportTypes
<1>3. Chunk(r) \subseteq Rest(r) /\ Rest(r) \in SUBSET Nat /\ IsFiniteSet(Chunk(r))
  BY <1>1, <1>2, RestFacts
<1>4. job[req[r].job].file \in Uploads /\ job[req[r].job].dup \in OnDuplicate
  BY <1>2 DEF Job
<1>5. Chunk(r) \subseteq KeptRows[job[req[r].job].file]
  BY <1>3 DEF Rest
<1> QED
  BY <1>1, <1>3, <1>4, <1>5, FileKept, KeyTyped DEF RequestOK

\* The chunk's first look at the tenant's FEINs.
LEMMA ReadExistingKeeps ==
  ASSUME ImportInv, NEW r \in ImportRequests, ReadExisting(r)
  PROVE  ImportInv'
<1> DEFINE found == Existing(job[req[r].job].file, Chunk(r))
           q == [req[r] EXCEPT !.pc = "insert", !.known = found]
<1>1. /\ req[r].pc = "rows" /\ Chunk(r) # {} /\ req' = [req EXCEPT ![r] = q]
      /\ UNCHANGED <<job, errs, supplier, importFaults, history, importCalls>>
  BY DEF ReadExisting, AtStage
<1>2. req[r].pc \in Working /\ RequestOK(r) /\ req[r] \in RequestRow
  BY <1>1, Requesting DEF Working
<1>3. found \subseteq Feins
  BY <1>2, RunAt DEF Existing
<1> HIDE DEF found
<1>4. /\ q \in RequestRow /\ q.pc = "insert" /\ q.job = req[r].job /\ q.done = req[r].done
      /\ q.count = req[r].count
  BY <1>2, <1>3 DEF RequestRow, Pc
<1> HIDE DEF q
<1>5. req'[r] = q
  BY <1>1 DEF ImportInv, ImportTypes
<1>6. \A j : Ready(j) => Ready(j)'
  BY <1>1 DEF Ready
<1>7. Chunk(r)' = Chunk(r)
  BY <1>1, <1>4, <1>5 DEF Chunk
<1>8. Streamed(r)' /\ Planned(r)'
  BY <1>1, <1>2, <1>4, <1>5, <1>7 DEF RequestOK, Streamed, Planned
<1>9. RequestOK(r)'
  BY <1>1, <1>2, <1>4, <1>5, <1>6, <1>8 DEF RequestOK, Working
<1>10. UNCHANGED <<job, errs, supplier, stored, runs, settled, raced, unreported>>
  BY <1>1 DEF history
<1>11. importCalls' \in 0 .. MaxImportCalls /\ importFaults' \in 0 .. MaxImportFaults
  BY <1>1, Requesting
<1>12. req[r].job \notin settled
  BY <1>2, RunAt
<1> QED
  BY <1>1, <1>2, <1>4, <1>9, <1>10, <1>11, <1>12, RequestMoves

\* insert_batch looks again; what it plans to insert was not there.
LEMMA InsertBatchKeeps ==
  ASSUME ImportInv, NEW r \in ImportRequests, InsertBatch(r)
  PROVE  ImportInv'
<1> DEFINE j == req[r].job
           f == job[j].file
           chunk == Chunk(r)
           now == Existing(f, chunk)
           deed(k) == IF job[j].dup = "error" /\ k \in req[r].known THEN "duplicate"
                      ELSE IF k \in now THEN job[j].dup ELSE "insert"
           plan == [i \in chunk |-> deed(Key[f][i])]
           q == [req[r] EXCEPT !.pc = "store", !.plan = plan]
<1>1. /\ req[r].pc = "insert" /\ req' = [req EXCEPT ![r] = q]
      /\ UNCHANGED <<job, errs, supplier, importFaults, history, importCalls>>
  BY DEF InsertBatch, AtStage
<1>2. req[r].pc \in Working /\ RequestOK(r) /\ req[r] \in RequestRow
  BY <1>1, Requesting DEF Working
<1>3. /\ job[j].dup \in OnDuplicate /\ j \notin settled /\ chunk \in SUBSET Nat
      /\ \A i \in chunk : Key[f][i] \in Feins
  BY <1>2, RunAt
<1>4. DOMAIN plan = chunk /\ \A i \in chunk : plan[i] = deed(Key[f][i])
  OBVIOUS
<1>5. plan \in [chunk -> Deed]
  BY <1>3 DEF OnDuplicate, Deed
<1>6. ASSUME NEW i \in chunk, plan[i] = "insert" PROVE supplier[Key[f][i]] = 0
  <2>1. Key[f][i] \notin now
    BY <1>3, <1>6 DEF OnDuplicate
  <2>2. ~(supplier[Key[f][i]] > 0)
    BY <2>1 DEF Existing
  <2>3. supplier[Key[f][i]] \in Nat
    BY <1>3 DEF ImportInv, ImportTypes
  <2> QED
    BY <2>2, <2>3
<1>7. job[j].dup = "error" => \A i \in chunk : plan[i] \notin {"update", "skip"}
  OBVIOUS
<1> HIDE DEF plan
<1>8. plan \in Plans
  BY <1>3, <1>5 DEF Plans
<1>9. /\ q \in RequestRow /\ q.pc = "store" /\ q.job = req[r].job /\ q.done = req[r].done
      /\ q.count = req[r].count /\ q.plan = plan
  BY <1>2, <1>8 DEF RequestRow, Pc
<1> HIDE DEF q, chunk
<1>10. req'[r] = q
  BY <1>1 DEF ImportInv, ImportTypes
<1>11. \A k : Ready(k) => Ready(k)'
  BY <1>1 DEF Ready
<1>12. Chunk(r)' = Chunk(r)
  BY <1>1, <1>9, <1>10 DEF Chunk
<1>13. \A d : Did(r, d)' = {i \in chunk : plan[i] = d}
  BY <1>4, <1>9, <1>10 DEF Did, plan
<1>14. Storing(r)' = {Key[f][i] : i \in Did(r, "insert")'}
  BY <1>1, <1>9, <1>10 DEF Storing
<1>15. \A k \in Storing(r)' : supplier'[k] = 0
  BY <1>1, <1>6, <1>13, <1>14
<1>16. job'[req'[r].job].dup = "error" => Did(r, "update")' \cup Did(r, "skip")' = {}
  BY <1>1, <1>7, <1>9, <1>10, <1>13
<1>17. Streamed(r)' /\ Planned(r)'
  <2>1. chunk # {} /\ Streamed(r)
    BY <1>1, <1>2 DEF RequestOK, Streamed, chunk
  <2>2. DOMAIN req'[r].plan = Chunk(r)'
    BY <1>5, <1>9, <1>10, <1>12 DEF chunk
  <2>3. Streamed(r)'
    BY <1>1, <1>9, <1>10, <1>12, <2>1, <2>2 DEF Streamed, chunk
  <2> QED
    BY <2>3, <1>15, <1>16 DEF Planned
<1>18. RequestOK(r)'
  BY <1>1, <1>2, <1>9, <1>10, <1>11, <1>17 DEF RequestOK, Working
<1>19. UNCHANGED <<job, errs, supplier, stored, runs, settled, raced, unreported>>
  BY <1>1 DEF history
<1>20. importCalls' \in 0 .. MaxImportCalls /\ importFaults' \in 0 .. MaxImportFaults
  BY <1>1, Requesting
<1> QED
  BY <1>1, <1>2, <1>3, <1>9, <1>18, <1>19, <1>20, RequestMoves

-----------------------------------------------------------------------------
(* Steps that write a job *)

\* A step of one request that writes its job.
LEMMA JobMoves ==
  ASSUME ImportInv, NEW r \in ImportRequests, NEW j \in Jobs, NEW row \in Job, NEW q \in RequestRow,
         job' = [job EXCEPT ![j] = row], req' = [req EXCEPT ![r] = q], q.job \in {j, NoJob},
         req[r].job \in {j, NoJob},
         errs' \in [Jobs -> SUBSET [row : Nat, code : ErrorCodes]], \A k \in Jobs \ {j} : errs'[k] = errs[k],
         runs' \in [Jobs -> Nat], \A k \in Jobs \ {j} : runs'[k] = runs[k],
         settled' \subseteq settled \cup {j}, UNCHANGED <<supplier, stored, raced, unreported>>,
         importCalls' \in 0 .. MaxImportCalls, importFaults' \in 0 .. MaxImportFaults,
         \A o \in ImportRequests \ {r} : req[o].job = j =>
           /\ row.file = job[j].file /\ row.dup = job[j].dup /\ row.status # "absent"
           /\ Ready(j) => Ready(j)',
         RequestOK(r)', JobOK(j)'
  PROVE  ImportInv'
<1>1. ImportTypes'
  BY DEF ImportInv, ImportTypes
<1>2. req'[r] = q /\ (\A o \in ImportRequests \ {r} : req'[o] = req[o]) /\ job'[j] = row
      /\ \A k \in Jobs \ {j} : job'[k] = job[k]
  BY DEF ImportInv, ImportTypes
<1>3. \A k \in Jobs \ {j} : Ready(k) => Ready(k)'
  BY <1>2 DEF Ready
<1>4. ASSUME NEW o \in ImportRequests \ {r} PROVE RequestOK(o)'
  <2>1. RequestOK(o) /\ req'[o] = req[o] /\ (req[o].pc # "idle" => req[o].job \in Jobs)
    BY <1>2, Requesting
  <2>2. CASE req[o].job = j
    BY <1>2, <2>1, <2>2, RequestStays
  <2>3. CASE req[o].job # j
    BY <1>2, <1>3, <2>1, <2>3, RequestStays
  <2> QED
    BY <2>2, <2>3
<1>5. ASSUME NEW k \in Jobs \ {j} PROVE JobOK(k)'
  <2>1. JobOK(k) /\ k # NoJob
    BY ImportNumbers DEF ImportInv
  <2>2. \A o \in ImportRequests : req'[o].job = k => req'[o] = req[o]
    BY <1>2, <2>1
  <2>3. job'[k] = job[k] /\ stored'[k] = stored[k] /\ runs'[k] = runs[k] /\ errs[k] \subseteq errs'[k]
        /\ unreported \subseteq unreported' /\ (k \in settled' => k \in settled)
    BY <1>2
  <2> QED
    BY <2>1, <2>2, <2>3, JobStays
<1>6. DuplicatesOnlyByRace'
  BY DEF ImportInv, DuplicatesOnlyByRace
<1> QED
  BY <1>1, <1>4, <1>5, <1>6 DEF ImportInv

\* The pending job of an upload is a new one.
LEMMA UploadKeeps ==
  ASSUME ImportInv, NEW r \in ImportRequests, NEW j \in Jobs, NEW offer \in Offers,
         Upload(r, j, offer.file, offer.dup)
  PROVE  ImportInv'
<1> DEFINE row == [Absent EXCEPT !.status = "pending", !.file = offer.file, !.dup = offer.dup]
           q == [Idle EXCEPT !.pc = "validate", !.job = j]
<1>1. /\ req[r].pc = "idle" /\ (\A k \in Jobs : Present(k) <=> k < j) /\ job' = [job EXCEPT ![j] = row]
      /\ Takes(r, j, "validate") /\ UNCHANGED <<errs, supplier, importFaults, history>>
  BY DEF Upload, Free
<1>2. row \in Job /\ row.status = "pending"
  <2>1. offer.file \in Uploads /\ offer.dup \in OnDuplicate
    BY ImportAssumption DEF OnDuplicate
  <2> QED
    BY <2>1, AbsentTyped DEF Job, ImportStatus
<1>3. q \in RequestRow /\ q.pc = "validate" /\ q.job = j /\ q.done = {} /\ q.count = NoCounts
  BY IdleTyped DEF RequestRow, Pc
<1>4. req' = [req EXCEPT ![r] = q] /\ importCalls < MaxImportCalls /\ importCalls' = importCalls + 1
  BY <1>1 DEF Takes
<1> HIDE DEF row, q
<1>5. req'[r] = q /\ (\A o \in ImportRequests \ {r} : req'[o] = req[o]) /\ job'[j] = row
  BY <1>1, <1>4 DEF ImportInv, ImportTypes
<1>6. importCalls' \in 0 .. MaxImportCalls /\ importFaults' \in 0 .. MaxImportFaults
  BY <1>1, <1>4, ImportNumbers, Requesting
<1>7. job[j].status = "absent"
  BY <1>1, ImportNumbers DEF Present
<1>8. \A o \in ImportRequests : req[o].job # j
  <2> SUFFICES ASSUME NEW o \in ImportRequests, req[o].job = j PROVE FALSE
    OBVIOUS
  <2>1. RequestOK(o)
    BY Requesting
  <2> QED
    BY <1>7, <2>1, ImportNumbers DEF RequestOK
<1>9. RequestOK(r)'
  BY <1>2, <1>3, <1>5, ImportNumbers DEF RequestOK, Working
<1>10. RunsOn(j)' = {}
  BY <1>3, <1>5, <1>8 DEF RunsOn, Working
<1>11. JobOK(j)'
  <2>1. JobOK(j) /\ runs'[j] = runs[j] /\ stored'[j] = stored[j] /\ settled' = settled
    BY <1>1 DEF ImportInv, history
  <2>2. j \notin settled
    BY <1>7, <2>1 DEF JobOK, TerminalStatuses
  <2> QED
    BY <1>2, <1>5, <1>10, <2>1, <2>2 DEF JobOK
<1>12. /\ errs' \in [Jobs -> SUBSET [row : Nat, code : ErrorCodes]] /\ errs' = errs
       /\ runs' \in [Jobs -> Nat] /\ runs' = runs
       /\ settled' = settled /\ UNCHANGED <<supplier, stored, raced, unreported>>
  BY <1>1 DEF ImportInv, ImportTypes, history
<1>13. req[r].job = NoJob
  BY <1>1, Requesting DEF RequestOK
<1> QED
  BY <1>1, <1>2, <1>3, <1>4, <1>6, <1>8, <1>9, <1>11, <1>12, <1>13, JobMoves

\* A request that ends by writing a status other than completed.
LEMMA StatusWritten ==
  ASSUME ImportInv, NEW r \in ImportRequests, NEW j \in Jobs, j = req[r].job, req[r].pc # "idle",
         NEW row \in Job, row.file = job[j].file, row.dup = job[j].dup,
         row.status \notin {"absent", "importing", "completed"},
         job' = [job EXCEPT ![j] = row], Ends(r),
         errs' \in [Jobs -> SUBSET [row : Nat, code : ErrorCodes]],
         \A k \in Jobs \ {j} : errs'[k] = errs[k], errs[j] \subseteq errs'[j],
         Ready(j) \/ row.status = "dry_run_ready" => Ready(j)',
         j \notin settled,
         settled' = settled \/ (/\ settled' = settled \cup {j} /\ row.status \in TerminalStatuses
                                /\ \A o \in ImportRequests \ {r} : req[o].job # j),
         UNCHANGED <<supplier, stored, runs, raced, unreported>>,
         importCalls' \in 0 .. MaxImportCalls, importFaults' \in 0 .. MaxImportFaults
  PROVE  ImportInv'
<1>1. req' = [req EXCEPT ![r] = Idle]
  BY DEF Ends
<1>2. req'[r] = Idle /\ (\A o \in ImportRequests \ {r} : req'[o] = req[o]) /\ job'[j] = row
  BY <1>1 DEF ImportInv, ImportTypes
<1>3. RequestOK(r)'
  BY <1>2, IdleTyped DEF RequestOK, Working
<1>4. \A o \in RunsOn(j)' : o \in RunsOn(j) /\ req'[o] = req[o]
  BY <1>2, IdleTyped DEF RunsOn, Working
<1>5. JobOK(j)'
  <2>1. JobOK(j) /\ runs'[j] = runs[j] /\ stored'[j] = stored[j] /\ unreported' = unreported
    BY DEF ImportInv
  <2>2. \A i : Explained(j, i) => Explained(j, i)'
    BY <1>2, <2>1, ExplainedStays
  <2>3. Reported(j)' => Reported(j)
    BY <1>2, <2>1 DEF Reported
  <2>4. ASSUME NEW o \in RunsOn(j)', OnlyRun(j, o) PROVE OnlyRun(j, o)'
    BY <1>4, <2>1, <2>2, <2>3, <2>4 DEF OnlyRun
  <2>5. ASSUME runs'[j] = 1 PROVE (\A o, p \in RunsOn(j)' : o = p) /\ \A o \in RunsOn(j)' : OnlyRun(j, o)'
    BY <1>4, <2>1, <2>4, <2>5 DEF JobOK
  <2>6. runs'[j] = 0 => stored'[j] = {} /\ RunsOn(j)' = {}
    BY <1>4, <2>1 DEF JobOK
  <2>7. ASSUME j \in settled'
        PROVE  job'[j].status \in TerminalStatuses /\ \A o \in ImportRequests : req'[o].job = j => req'[o].pc = "commit_read"
    <3>1. Idle.job # j
      BY IdleTyped, ImportNumbers
    <3> QED
      BY <1>2, <2>7, <3>1
  <2> QED
    BY <1>2, <2>5, <2>6, <2>7 DEF JobOK
<1>7. runs' \in [Jobs -> Nat] /\ settled' \subseteq settled \cup {j} /\ \A k \in Jobs \ {j} : runs'[k] = runs[k]
  BY DEF ImportInv, ImportTypes
<1> QED
  BY <1>1, <1>3, <1>5, <1>7, IdleTyped, JobMoves

\* A terminal status written when nobody else is at work.
LEMMA SettlesTells ==
  ASSUME ImportInv, NEW r \in ImportRequests, NEW j, Settles(r, j)
  PROVE  settled' = settled \/ (settled' = settled \cup {j} /\ \A o \in ImportRequests \ {r} : req[o].job # j)
  BY DEF Settles

\* The cancellation writes its status.
LEMMA CancelWriteKeeps ==
  ASSUME ImportInv, NEW r \in ImportRequests, CancelWrite(r)
  PROVE  ImportInv'
<1>a. req[r].job \in Jobs
  BY Requesting DEF CancelWrite, AtStage
<1>b. PICK j \in Jobs : j = req[r].job
  BY <1>a
<1> DEFINE row == [job[j] EXCEPT !.status = "canceled"]
<1>1. /\ req[r].pc = "cancel" /\ job' = [job EXCEPT ![j].status = "canceled"] /\ Settles(r, j) /\ Ends(r)
      /\ UNCHANGED <<errs, supplier, importFaults, stored, runs, raced, orphaned, unreported, importCalls>>
  BY <1>b DEF CancelWrite, AtStage
<1>2. j \in Jobs /\ j \notin settled /\ importCalls' \in 0 .. MaxImportCalls /\ importFaults' \in 0 .. MaxImportFaults
  BY <1>1, <1>b, Requesting
<1>3. job[j] \in Job
  BY <1>2 DEF ImportInv, ImportTypes
<1>4. /\ row \in Job /\ row.status = "canceled" /\ row.file = job[j].file /\ row.dup = job[j].dup
      /\ row.total = job[j].total /\ row.invalid = job[j].invalid
  BY <1>3 DEF Job, ImportStatus
<1>5. job' = [job EXCEPT ![j] = row]
  BY <1>1, <1>2
<1> HIDE DEF row
<1>6. job'[j] = row
  BY <1>2, <1>5 DEF ImportInv, ImportTypes
<1>7. Ready(j) => Ready(j)'
  BY <1>1, <1>4, <1>6, ReadyStays
<1>8. errs' \in [Jobs -> SUBSET [row : Nat, code : ErrorCodes]] /\ errs' = errs
  BY <1>1 DEF ImportInv, ImportTypes
<1>9. settled' = settled \/ (settled' = settled \cup {j} /\ \A o \in ImportRequests \ {r} : req[o].job # j)
  BY <1>1, SettlesTells
<1>10. row.status \in TerminalStatuses /\ row.status \notin {"absent", "importing", "completed", "dry_run_ready"}
  BY <1>4 DEF TerminalStatuses
<1>11. j = req[r].job /\ req[r].pc # "idle"
  BY <1>1, <1>b
<1> QED
  BY <1>1, <1>2, <1>4, <1>5, <1>7, <1>8, <1>9, <1>10, <1>11, StatusWritten

\* A run stops where the file cannot be read on.
LEMMA FatalKeeps ==
  ASSUME ImportInv, NEW r \in ImportRequests, Fatal(r)
  PROVE  ImportInv'
<1>a. req[r].job \in Jobs
  BY Requesting DEF Fatal, AtStage
<1>b. PICK j \in Jobs : j = req[r].job
  BY <1>a
<1> DEFINE row == [job[j] EXCEPT !.status = "failed", !.summary = req[r].count,
                                 !.imported = req[r].count.inserted + req[r].count.updated]
<1>1. /\ req[r].pc = "rows" /\ job' = [job EXCEPT ![j] = row] /\ Settles(r, j) /\ Ends(r)
      /\ importFaults < MaxImportFaults /\ importFaults' = importFaults + 1
      /\ UNCHANGED <<errs, supplier, stored, runs, raced, orphaned, unreported, importCalls>>
  BY <1>b DEF Fatal, AtStage
<1>2. j \in Jobs /\ j \notin settled /\ importCalls' \in 0 .. MaxImportCalls /\ importFaults' \in 0 .. MaxImportFaults
  BY <1>1, <1>b, Requesting, ImportNumbers
<1>3. job[j] \in Job
  BY <1>2 DEF ImportInv, ImportTypes
<1>4. req[r].count \in Counts /\ req[r].count.inserted + req[r].count.updated \in Nat
  <2>1. req[r].count \in Counts
    BY Requesting DEF RequestRow
  <2> QED
    BY <2>1 DEF Counts
<1>5. /\ row \in Job /\ row.status = "failed" /\ row.file = job[j].file /\ row.dup = job[j].dup
      /\ row.total = job[j].total /\ row.invalid = job[j].invalid
  BY <1>3, <1>4 DEF Job, ImportStatus
<1> HIDE DEF row
<1>6. job'[j] = row
  BY <1>1, <1>2 DEF ImportInv, ImportTypes
<1>7. Ready(j) => Ready(j)'
  BY <1>1, <1>5, <1>6, ReadyStays
<1>8. errs' \in [Jobs -> SUBSET [row : Nat, code : ErrorCodes]] /\ errs' = errs
  BY <1>1 DEF ImportInv, ImportTypes
<1>9. settled' = settled \/ (settled' = settled \cup {j} /\ \A o \in ImportRequests \ {r} : req[o].job # j)
  BY <1>1, SettlesTells
<1>10. row.status \in TerminalStatuses /\ row.status \notin {"absent", "importing", "completed", "dry_run_ready"}
  BY <1>5 DEF TerminalStatuses
<1>11. j = req[r].job /\ req[r].pc # "idle"
  BY <1>1, <1>b
<1> QED
  BY <1>1, <1>2, <1>5, <1>7, <1>8, <1>9, <1>10, <1>11, StatusWritten

\* The dry run ends, ready or failed.
LEMMA ValidateKeeps ==
  ASSUME ImportInv, NEW r \in ImportRequests, Validate(r)
  PROVE  ImportInv'
<1>a. req[r].job \in Jobs
  BY Requesting DEF Validate, AtStage
<1>b. PICK j \in Jobs : j = req[r].job
  BY <1>a
<1> DEFINE f == job[j].file
           good == [job[j] EXCEPT !.status = "dry_run_ready", !.total = Tally(f).total,
                                  !.valid = Tally(f).valid, !.invalid = Tally(f).invalid]
           bad == [job[j] EXCEPT !.status = "failed", !.invalid = AtLeastOne(job[j].invalid)]
           first == {Error(0, Outcome[f])}
           more == IF Outcome[f] = "missing_columns" THEN {} ELSE Recorded[f]
<1>1. /\ req[r].pc = "validate" /\ Ends(r)
      /\ UNCHANGED <<supplier, importFaults, stored, runs, raced, orphaned, unreported, importCalls>>
  BY <1>b DEF Validate, AtStage
<1>2. j \in Jobs /\ j \notin settled /\ importCalls' \in 0 .. MaxImportCalls /\ importFaults' \in 0 .. MaxImportFaults
  BY <1>1, <1>b, Requesting
<1>3. job[j] \in Job /\ f \in Uploads /\ errs[j] \subseteq [row : Nat, code : ErrorCodes]
  BY <1>2 DEF ImportInv, ImportTypes, Job
<1>4. Recorded[f] \subseteq [row : Nat, code : ErrorCodes]
  BY <1>3, RecordedTyped
<1>5. j = req[r].job /\ req[r].pc # "idle"
  BY <1>1, <1>b
<1>6. CASE /\ Outcome[f] = "ready" /\ job' = [job EXCEPT ![j] = good]
           /\ errs' = [errs EXCEPT ![j] = @ \cup Recorded[f]] /\ settled' = settled
  <2>1. Tally(f).total = Total(f) /\ Tally(f).invalid = Total(f) - Cardinality(KeptRows[f])
        /\ Tally(f).valid = Cardinality(KeptRows[f])
    BY DEF Tally
  <2>2. Total(f) \in Nat /\ Cardinality(KeptRows[f]) \in Nat /\ Total(f) - Cardinality(KeptRows[f]) \in Nat
    BY <1>3, FileKept
  <2>3. /\ good \in Job /\ good.status = "dry_run_ready" /\ good.file = f /\ good.dup = job[j].dup
        /\ good.total = Total(f) /\ good.invalid = Total(f) - Cardinality(KeptRows[f])
    BY <1>3, <2>1, <2>2 DEF Job, ImportStatus
  <2> HIDE DEF good
  <2>4. job'[j] = good /\ errs'[j] = errs[j] \cup Recorded[f] /\ \A k \in Jobs \ {j} : errs'[k] = errs[k]
    BY <1>2, <1>6 DEF ImportInv, ImportTypes
  <2>5. errs' \in [Jobs -> SUBSET [row : Nat, code : ErrorCodes]]
    BY <1>2, <1>3, <1>4, <1>6 DEF ImportInv, ImportTypes
  <2>6. Ready(j)'
    BY <1>6, <2>3, <2>4 DEF Ready
  <2>7. good.status \notin {"absent", "importing", "completed"}
    BY <2>3
  <2> HIDE DEF f
  <2>8. good.file = job[j].file
    BY <2>3 DEF f
  <2> QED
    BY <1>1, <1>2, <1>5, <1>6, <2>3, <2>4, <2>5, <2>6, <2>7, <2>8, StatusWritten
<1>7. CASE /\ Outcome[f] # "ready" /\ job' = [job EXCEPT ![j] = bad]
           /\ errs' = [errs EXCEPT ![j] = @ \cup first \cup more] /\ Settles(r, j)
  <2>0. AtLeastOne(job[j].invalid) \in Nat
    BY <1>3 DEF Job, AtLeastOne
  <2>1. /\ bad \in Job /\ bad.status = "failed" /\ bad.file = f /\ bad.dup = job[j].dup
    BY <1>3, <2>0 DEF Job, ImportStatus
  <2>2. Error(0, Outcome[f]) \in [row : Nat, code : ErrorCodes]
    <3>1. Outcome[f] \in {"missing_columns", "parse_error", "too_many_rows"}
      BY <1>3, <1>7 DEF Outcome
    <3> QED
      BY <3>1 DEF Error, ErrorCodes
  <2>3. first \cup more \subseteq [row : Nat, code : ErrorCodes]
    BY <1>4, <2>2
  <2> HIDE DEF bad, first, more
  <2>4. job'[j] = bad /\ errs'[j] = errs[j] \cup first \cup more /\ \A k \in Jobs \ {j} : errs'[k] = errs[k]
    BY <1>2, <1>7 DEF ImportInv, ImportTypes
  <2>5. errs' \in [Jobs -> SUBSET [row : Nat, code : ErrorCodes]]
    BY <1>2, <1>3, <2>3, <1>7 DEF ImportInv, ImportTypes
  <2>6. ~Ready(j)
    BY <1>7 DEF Ready
  <2>7. settled' = settled \/ (settled' = settled \cup {j} /\ \A o \in ImportRequests \ {r} : req[o].job # j)
    BY <1>7, SettlesTells
  <2>8. bad.status \in TerminalStatuses /\ bad.status \notin {"absent", "importing", "completed", "dry_run_ready"}
    BY <2>1 DEF TerminalStatuses
  <2>9. bad.file = job[j].file /\ job' = [job EXCEPT ![j] = bad]
    BY <1>7, <2>1
  <2> HIDE DEF f
  <2> QED
    BY <1>1, <1>2, <1>5, <2>1, <2>4, <2>5, <2>6, <2>7, <2>8, <2>9, StatusWritten
<1>8. ASSUME Outcome[f] = "ready"
      PROVE  /\ job' = [job EXCEPT ![j] = good]
             /\ errs' = [errs EXCEPT ![j] = @ \cup Recorded[f]] /\ settled' = settled
  BY <1>b, <1>8, Zenon DEF Validate
<1>9. ASSUME Outcome[f] # "ready" PROVE job' = [job EXCEPT ![j] = bad]
  BY <1>b, <1>9 DEF Validate
<1>10. ASSUME Outcome[f] # "ready" PROVE errs' = [errs EXCEPT ![j] = @ \cup first \cup more]
  BY <1>b, <1>10 DEF Validate
<1>11. ASSUME Outcome[f] # "ready" PROVE Settles(r, j)
  BY <1>b, <1>11 DEF Validate
<1> QED
  BY <1>6, <1>7, <1>8, <1>9, <1>10, <1>11

\* A run begins: the first of its job, or one of several.
LEMMA BeginKeeps ==
  ASSUME ImportInv, NEW r \in ImportRequests, Begin(r)
  PROVE  ImportInv'
<1>a. req[r].job \in Jobs /\ req[r].job \notin settled /\ req[r] \in RequestRow /\ RequestOK(r)
  BY Requesting DEF Begin, AtStage
<1>b. PICK j \in Jobs : j = req[r].job
  BY <1>a
<1> DEFINE row == [job[j] EXCEPT !.status = "importing"]
           q == [req[r] EXCEPT !.pc = "rows"]
           Stays(e) == e.code \notin {"chunk_failed", "duplicate_fein_existing"}
<1>1. /\ req[r].pc = "begin" /\ job' = [job EXCEPT ![j].status = "importing"]
      /\ errs' = [errs EXCEPT ![j] = {e \in @ : Stays(e)}]
      /\ Goes(r, "rows") /\ runs' = [runs EXCEPT ![j] = @ + 1]
      /\ UNCHANGED <<supplier, importFaults, stored, settled, raced, orphaned, unreported, importCalls>>
  BY <1>b DEF Begin, AtStage
<1>2. importCalls' \in 0 .. MaxImportCalls /\ importFaults' \in 0 .. MaxImportFaults
  BY <1>1, Requesting
<1>3. job[j] \in Job /\ job[j].file \in Uploads /\ runs[j] \in Nat
  BY DEF ImportInv, ImportTypes, Job
<1>4. /\ row \in Job /\ row.status = "importing" /\ row.file = job[j].file /\ row.dup = job[j].dup
      /\ row.total = job[j].total /\ row.invalid = job[j].invalid
  BY <1>3 DEF Job, ImportStatus
<1>5. job' = [job EXCEPT ![j] = row]
  BY <1>1, <1>3
<1>6. /\ q \in RequestRow /\ q.pc = "rows" /\ q.job = j /\ q.done = {} /\ q.count = NoCounts
  BY <1>1, <1>a, <1>b DEF RequestRow, Pc, RequestOK, Working
<1>7. req' = [req EXCEPT ![r] = q]
  BY <1>1, <1>a DEF Goes
<1> HIDE DEF row, q
<1>8. /\ job'[j] = row /\ req'[r] = q /\ (\A o \in ImportRequests \ {r} : req'[o] = req[o])
      /\ errs'[j] = {e \in errs[j] : Stays(e)} /\ runs'[j] = runs[j] + 1
      /\ (\A k \in Jobs \ {j} : errs'[k] = errs[k] /\ runs'[k] = runs[k])
  BY <1>1, <1>5, <1>7 DEF ImportInv, ImportTypes
<1>9. /\ errs' \in [Jobs -> SUBSET [row : Nat, code : ErrorCodes]] /\ runs' \in [Jobs -> Nat]
  BY <1>1 DEF ImportInv, ImportTypes
<1>10. Ready(j)
  BY <1>1, <1>a, <1>b DEF RequestOK
<1>11. \A e \in Recorded[job[j].file] : Stays(e)
  <2>1. \A c \in Codes : c \notin {"chunk_failed", "duplicate_fein_existing"}
    BY DEF Codes
  <2> QED
    BY <1>3, <2>1, RecordedTyped
<1> HIDE DEF Stays
<1>12. Recorded[job[j].file] \subseteq errs[j] => Recorded[job[j].file] \subseteq errs'[j]
  BY <1>8, <1>11
<1>13. Ready(j)'
  BY <1>4, <1>8, <1>10, <1>12, ReadyStays
<1>14. RequestOK(r)'
  <2>1. Streamed(r)'
    BY <1>6, <1>8, NothingCounted, FS_EmptySet DEF Streamed
  <2>2. Planned(r)'
    BY <1>6, <1>8 DEF Planned
  <2>3. req'[r].job = j /\ req'[r].pc = "rows" /\ job'[j].status # "absent"
    BY <1>4, <1>6, <1>8
  <2> QED
    BY <1>13, <2>1, <2>2, <2>3, ImportNumbers DEF RequestOK, Working
<1>15. JobOK(j)'
  <2>1. JobOK(j) /\ stored'[j] = stored[j] /\ settled' = settled
    BY <1>1 DEF ImportInv
  <2>2. runs'[j] # 0 /\ (runs'[j] = 1 => runs[j] = 0)
    BY <1>3, <1>8
  <2>3. ASSUME runs'[j] = 1
        PROVE  (\A o, p \in RunsOn(j)' : o = p) /\ \A o \in RunsOn(j)' : OnlyRun(j, o)'
    <3>1. RunsOn(j) = {} /\ stored'[j] = {}
      BY <2>1, <2>2, <2>3 DEF JobOK
    <3>2. RunsOn(j)' \subseteq {r}
      BY <1>8, <3>1 DEF RunsOn
    <3>3. OnlyRun(j, r)'
      BY <1>6, <1>8, <3>1, NothingCounted, FS_EmptySet DEF OnlyRun
    <3> QED
      BY <3>2, <3>3
  <2>4. job'[j].status = "importing" /\ j \notin settled'
    BY <1>4, <1>8, <1>a, <1>b, <2>1
  <2> QED
    BY <1>13, <2>2, <2>3, <2>4 DEF JobOK
<1>16. q.job \in {j, NoJob} /\ req[r].job \in {j, NoJob}
  BY <1>6, <1>b
<1>17. settled' \subseteq settled \cup {j} /\ UNCHANGED <<supplier, stored, raced, unreported>>
  BY <1>1
<1>18. row.status # "absent"
  BY <1>4
<1> QED
  BY <1>2, <1>4, <1>5, <1>6, <1>7, <1>8, <1>9, <1>13, <1>14, <1>15, <1>16, <1>17, <1>18, JobMoves

\* A run has handed out all kept rows: its counters add up to the file.
LEMMA FinishKeeps ==
  ASSUME ImportInv, NEW r \in ImportRequests, Finish(r)
  PROVE  ImportInv'
<1>a. req[r].job \in Jobs /\ req[r].job \notin settled /\ req[r] \in RequestRow /\ RequestOK(r)
  BY Requesting DEF Finish, AtStage
<1>b. PICK j \in Jobs : j = req[r].job
  BY <1>a
<1> DEFINE f == job[j].file
           c == req[r].count
           row == [job[j] EXCEPT !.status = "completed", !.summary = Result(r),
                                 !.imported = Result(r).inserted + Result(r).updated]
<1>1. /\ req[r].pc = "rows" /\ Chunk(r) = {} /\ job' = [job EXCEPT ![j] = row] /\ Settles(r, j) /\ Ends(r)
      /\ UNCHANGED <<errs, supplier, importFaults, stored, runs, raced, orphaned, unreported, importCalls>>
  BY <1>b DEF Finish, AtStage
<1>2. importCalls' \in 0 .. MaxImportCalls /\ importFaults' \in 0 .. MaxImportFaults
  BY <1>1, Requesting
<1>3. job[j] \in Job /\ f \in Uploads /\ c \in Counts
  BY <1>a DEF ImportInv, ImportTypes, Job, RequestRow
<1>4. req[r].pc \in Working /\ r \in RunsOn(j) /\ Ready(j) /\ Streamed(r)
  BY <1>1, <1>a, <1>b DEF Working, RequestOK, RunsOn
<1>5. req[r].done = KeptRows[f]
  <2>1. Rest(r) = {} /\ req[r].done \subseteq KeptRows[f]
    <3>1. ImportTypes
      BY DEF ImportInv
    <3> QED
      BY <1>1, <1>4, <1>b, <3>1, RestFacts DEF Streamed
  <2> QED
    BY <1>b, <2>1 DEF Rest
<1>6. Total(f) \in Nat /\ Cardinality(KeptRows[f]) \in Nat /\ Cardinality(KeptRows[f]) <= Total(f)
  BY <1>3, FileKept
<1>7. /\ Result(r) \in Counts /\ Result(r).inserted = c.inserted /\ Result(r).updated = c.updated
      /\ Result(r).skipped = c.skipped
      /\ Result(r).errors = c.errors + Total(f) - Cardinality(KeptRows[f])
  BY <1>3, <1>6, <1>b DEF Result, Counts
<1>8. /\ Sum(Result(r)) = Total(f) /\ Result(r).errors >= Total(f) - Cardinality(KeptRows[f])
      /\ Result(r).inserted + Result(r).updated = c.inserted + c.updated
      /\ Result(r).inserted + Result(r).updated \in Nat
  <2>1. Sum(c) = Cardinality(KeptRows[f])
    BY <1>4, <1>5 DEF Streamed
  <2>2. c.inserted \in Nat /\ c.updated \in Nat /\ c.skipped \in Nat /\ c.errors \in Nat
    BY <1>3 DEF Counts
  <2> QED
    BY <1>6, <1>7, <2>1, <2>2 DEF Sum
<1>9. /\ row \in Job /\ row.status = "completed" /\ row.file = f /\ row.dup = job[j].dup
      /\ row.total = job[j].total /\ row.invalid = job[j].invalid
      /\ row.summary = Result(r) /\ row.imported = c.inserted + c.updated
  BY <1>3, <1>7, <1>8 DEF Job, ImportStatus
<1> HIDE DEF row
<1>10. req' = [req EXCEPT ![r] = Idle]
  BY <1>1 DEF Ends
<1>11. req'[r] = Idle /\ (\A o \in ImportRequests \ {r} : req'[o] = req[o]) /\ job'[j] = row
  BY <1>1, <1>10 DEF ImportInv, ImportTypes
<1>12. RequestOK(r)'
  BY <1>11, IdleTyped DEF RequestOK, Working
<1>13. Ready(j)'
  BY <1>1, <1>4, <1>9, <1>11, ReadyStays
<1>14. \A o \in RunsOn(j)' : o \in RunsOn(j) /\ o # r /\ req'[o] = req[o]
  BY <1>11, IdleTyped DEF RunsOn, Working
<1>15. settled' = settled \/ (settled' = settled \cup {j} /\ \A o \in ImportRequests \ {r} : req[o].job # j)
  BY <1>1, SettlesTells
<1>16. JobOK(j)'
  <2>1. JobOK(j) /\ stored'[j] = stored[j] /\ runs'[j] = runs[j] /\ runs[j] # 0
    BY <1>1, <1>4 DEF ImportInv, JobOK
  <2>2. ASSUME runs[j] = 1 PROVE RunsOn(j)' = {} /\ Left(j)'
    <3>1. (\A o, p \in RunsOn(j) : o = p) /\ OnlyRun(j, r)
      BY <1>4, <2>1, <2>2 DEF JobOK
    <3>2. RunsOn(j)' = {}
      BY <1>4, <1>14, <3>1
    <3>3. \A i : Explained(j, i) => Explained(j, i)'
      BY <1>1, <1>9, <1>11, ExplainedStays
    <3>4. Reported(j)' => Reported(j)
      BY <1>1, <1>9, <1>11 DEF Reported
    <3>5. Reported(j)' => \A i \in KeptRows[f] : Explained(j, i)'
      BY <1>5, <3>1, <3>3, <3>4 DEF OnlyRun
    <3>6. job[j].total = Total(f) /\ job[j].invalid = Total(f) - Cardinality(KeptRows[f])
      BY <1>4 DEF Ready
    <3>7. Cardinality(stored[j]) = c.inserted + c.updated
      BY <3>1 DEF OnlyRun
    <3> HIDE DEF f, c
    <3>8. Sum(job'[j].summary) = job'[j].total /\ job'[j].imported = Cardinality(stored'[j])
          /\ job'[j].summary.errors >= job'[j].invalid /\ job'[j].file = f
      BY <1>8, <1>9, <1>11, <2>1, <3>6, <3>7
    <3> QED
      BY <3>2, <3>5, <3>8 DEF Left
  <2>3. ASSUME j \in settled'
        PROVE  job'[j].status \in TerminalStatuses /\ \A o \in ImportRequests : req'[o].job = j => req'[o].pc = "commit_read"
    <3>1. Idle.job # j
      BY IdleTyped, ImportNumbers
    <3>2. \A o \in ImportRequests \ {r} : req[o].job # j
      BY <1>15, <1>a, <1>b, <2>3
    <3> QED
      BY <1>9, <1>11, <3>1, <3>2 DEF TerminalStatuses
  <2> QED
    BY <1>13, <2>1, <2>2, <2>3 DEF JobOK
<1>17. Idle.job \in {j, NoJob} /\ req[r].job \in {j, NoJob}
  BY IdleTyped, <1>b
<1>18. /\ settled' \subseteq settled \cup {j} /\ UNCHANGED <<supplier, stored, raced, unreported>>
       /\ errs' \in [Jobs -> SUBSET [row : Nat, code : ErrorCodes]] /\ runs' \in [Jobs -> Nat]
       /\ errs' = errs /\ runs' = runs
  BY <1>1, <1>15 DEF ImportInv, ImportTypes
<1>19. row.status # "absent"
  BY <1>9
<1> QED
  BY <1>1, <1>2, <1>9, <1>10, <1>12, <1>13, <1>16, <1>17, <1>18, <1>19, IdleTyped, JobMoves

-----------------------------------------------------------------------------
(* Chunks that end *)

\* A step of one run that may store rows and report some.
LEMMA RunMoves ==
  ASSUME ImportInv, NEW r \in ImportRequests, NEW j \in Jobs, j = req[r].job, NEW q \in RequestRow,
         q.job = j, req' = [req EXCEPT ![r] = q],
         errs' \in [Jobs -> SUBSET [row : Nat, code : ErrorCodes]],
         \A k \in Jobs \ {j} : errs'[k] = errs[k], errs[j] \subseteq errs'[j],
         stored' \in [Jobs -> SUBSET Nat], \A k \in Jobs \ {j} : stored'[k] = stored[k],
         supplier' \in [Feins -> Nat], unreported \subseteq unreported',
         UNCHANGED <<job, runs, settled>>,
         importCalls' \in 0 .. MaxImportCalls, importFaults' \in 0 .. MaxImportFaults,
         \A o \in ImportRequests \ {r} : req[o].pc = "store" =>
           \A k \in Storing(o) : supplier[k] = 0 \/ k \in raced => supplier'[k] = 0 \/ k \in raced',
         RequestOK(r)', JobOK(j)', DuplicatesOnlyByRace'
  PROVE  ImportInv'
<1>1. ImportTypes'
  BY DEF ImportInv, ImportTypes
<1>2. req'[r] = q /\ (\A o \in ImportRequests \ {r} : req'[o] = req[o])
  BY DEF ImportInv, ImportTypes
<1>3. \A k \in Jobs : errs[k] \subseteq errs'[k]
  BY DEF ImportInv, ImportTypes
<1>4. \A k \in Jobs : Ready(k) => Ready(k)'
  BY <1>3 DEF Ready
<1>5. ASSUME NEW o \in ImportRequests \ {r} PROVE RequestOK(o)'
  <2>1. RequestOK(o) /\ req'[o] = req[o] /\ (req[o].pc # "idle" => req[o].job \in Jobs)
    BY <1>2, Requesting
  <2> QED
    BY <1>4, <2>1, RequestStays
<1>6. ASSUME NEW k \in Jobs \ {j} PROVE JobOK(k)'
  <2>1. JobOK(k)
    BY DEF ImportInv
  <2>2. \A o \in ImportRequests : req'[o].job = k => req'[o] = req[o]
    BY <1>2
  <2> QED
    BY <1>3, <2>1, <2>2, JobStays
<1> QED
  BY <1>1, <1>5, <1>6 DEF ImportInv

\* A run after its chunk.
LEMMA ChunkDone ==
  ASSUME ImportInv, NEW r \in ImportRequests, req[r].pc \in {"insert", "store"}, NEW n \in Counts, After(r, n)
  PROVE  \E q \in RequestRow :
           /\ req' = [req EXCEPT ![r] = q] /\ q.job = req[r].job /\ q.pc = "rows" /\ q.count = n
           /\ q.done = req[r].done \cup Chunk(r)
<1> DEFINE q == [req[r] EXCEPT !.pc = "rows", !.done = req[r].done \cup Chunk(r),
                               !.known = {}, !.plan = NoPlan, !.count = n]
<1>1. req[r].pc \in Working
  BY DEF Working
<1>2. req[r] \in RequestRow /\ Chunk(r) \in SUBSET Nat
  BY <1>1, Requesting, RunAt
<1>3. NoPlan \in Plans
  BY IdleTyped DEF Idle, RequestRow
<1>4. /\ q \in RequestRow /\ q.job = req[r].job /\ q.pc = "rows" /\ q.count = n
      /\ q.done = req[r].done \cup Chunk(r)
  BY <1>2, <1>3 DEF RequestRow, Pc
<1>5. req' = [req EXCEPT ![r] = q]
  BY DEF After
<1> HIDE DEF q
<1> QED
  BY <1>4, <1>5

\* Its request is in order when its counters have the chunk's rows.
LEMMA ChunkCounted ==
  ASSUME ImportInv, NEW r \in ImportRequests, req[r].pc \in {"insert", "store"}, NEW q \in RequestRow,
         NEW j \in Jobs, j = req[r].job,
         req' = [req EXCEPT ![r] = q], q.job = j, q.pc = "rows", q.done = req[r].done \cup Chunk(r),
         Sum(q.count) = Sum(req[r].count) + Cardinality(Chunk(r)),
         UNCHANGED job, errs[j] \subseteq errs'[j]
  PROVE  RequestOK(r)' /\ Ready(j)' /\ Ready(j)
<1>1. req[r].pc \in Working
  BY DEF Working
<1>2. Streamed(r) /\ Ready(j)
  BY <1>1, RunAt
<1>3. ImportTypes
  BY DEF ImportInv
<1>4. req'[r] = q
  BY DEF ImportInv, ImportTypes
<1>5. /\ q.done \subseteq KeptRows[job[j].file] /\ \A d \in q.done, l \in KeptRows[job[j].file] \ q.done : d < l
      /\ Cardinality(q.done) = Cardinality(req[r].done) + Cardinality(Chunk(r))
  BY <1>2, <1>3, HandedOut
<1>6. Sum(q.count) = Cardinality(q.done)
  BY <1>2, <1>5 DEF Streamed
<1>7. Streamed(r)'
  BY <1>4, <1>5, <1>6 DEF Streamed
<1>8. Planned(r)'
  BY <1>4 DEF Planned
<1>9. Ready(j)'
  BY <1>2 DEF Ready
<1>10. job'[j].status # "absent"
  BY <1>2 DEF Ready
<1> QED
  BY <1>2, <1>4, <1>7, <1>8, <1>9, <1>10, ImportNumbers DEF RequestOK, Working

\* A job is in order after a chunk if its only run is.
LEMMA ChunkOfJob ==
  ASSUME ImportInv, NEW r \in ImportRequests, req[r].pc \in {"insert", "store"}, NEW q \in RequestRow,
         NEW j \in Jobs, j = req[r].job, req' = [req EXCEPT ![r] = q], q.job = j,
         UNCHANGED <<job, runs, settled>>, Ready(j)',
         runs[j] = 1 /\ OnlyRun(j, r) => OnlyRun(j, r)'
  PROVE  JobOK(j)'
<1>1. JobOK(j) /\ req[r].pc \in Working /\ r \in RunsOn(j) /\ j \notin settled
  <2>1. req[r].pc \in Working
    BY DEF Working
  <2> QED
    BY <2>1, RunAt DEF ImportInv, RunsOn
<1>2. req'[r] = q /\ (\A o \in ImportRequests \ {r} : req'[o] = req[o])
  BY DEF ImportInv, ImportTypes
<1>3. RunsOn(j)' \subseteq RunsOn(j)
  BY <1>1, <1>2 DEF RunsOn
<1>4. runs[j] # 0
  BY <1>1 DEF JobOK
<1>5. ASSUME runs[j] = 1
      PROVE  /\ \A o, p \in RunsOn(j)' : o = p
             /\ \A o \in RunsOn(j)' : OnlyRun(j, o)'
             /\ job[j].status # "completed"
  <2>1. (\A o, p \in RunsOn(j) : o = p) /\ OnlyRun(j, r) /\ job[j].status # "completed"
    BY <1>1, <1>5 DEF JobOK
  <2>2. \A o \in RunsOn(j)' : o = r
    BY <1>1, <1>3, <2>1
  <2> QED
    BY <1>5, <2>1, <2>2
<1> QED
  BY <1>1, <1>4, <1>5 DEF JobOK

\* A failed chunk: its first row stands for each of its rows.
LEMMA ChunkFailsKeeps ==
  ASSUME ImportInv, NEW r \in ImportRequests, ChunkFails(r)
  PROVE  ImportInv'
<1>a. /\ req[r].job \in Jobs /\ req[r] \in RequestRow /\ req[r].pc \in {"insert", "store"}
      /\ req[r].pc \in Working /\ RequestOK(r)
  BY Requesting DEF ChunkFails, AtStage, Working
<1>b. PICK j \in Jobs : j = req[r].job
  BY <1>a
<1> DEFINE m == Min(Chunk(r))
           c == req[r].count
           n == ChunkLost(r)
           kept == KeptRows[job[j].file]
<1>1. /\ importFaults < MaxImportFaults /\ importFaults' = importFaults + 1 /\ After(r, n)
      /\ \/ errs' = [errs EXCEPT ![j] = @ \cup {Error(m, "chunk_failed")}] /\ unreported' = unreported
         \/ unreported' = unreported \cup {j} /\ errs' = errs
      /\ UNCHANGED <<job, supplier, stored, runs, settled, raced, orphaned, importCalls>>
  BY <1>b DEF ChunkFails
<1>2. importCalls' \in 0 .. MaxImportCalls /\ importFaults' \in 0 .. MaxImportFaults
  BY <1>1, Requesting, ImportNumbers
<1>3. Chunk(r) # {} /\ Chunk(r) \in SUBSET Nat /\ Cardinality(Chunk(r)) \in Nat
  <2>1. Chunk(r) # {} /\ Chunk(r) \in SUBSET Nat /\ IsFiniteSet(Chunk(r))
    BY <1>a, RunAt DEF Streamed
  <2> QED
    BY <2>1, FS_CardinalityType
<1>4. m \in Chunk(r) /\ m \in Nat /\ \A k \in Chunk(r) : m <= k
  <2>1. \E x \in Chunk(r) : \A k \in Chunk(r) : x <= k
    BY <1>3, LeastOf
  <2> QED
    BY <1>3, <2>1 DEF Min
<1>5. /\ n \in Counts /\ n.inserted = c.inserted /\ n.updated = c.updated
      /\ Sum(n) = Sum(c) + Cardinality(Chunk(r))
  <2>1. c \in Counts
    BY <1>a DEF RequestRow
  <2> HIDE DEF c
  <2>2. /\ n \in Counts /\ n.inserted = c.inserted /\ n.updated = c.updated
        /\ n.skipped = c.skipped /\ n.errors = c.errors + Cardinality(Chunk(r))
    BY <1>3, <2>1 DEF ChunkLost, Counts, c
  <2> QED
    BY <1>3, <2>1, <2>2 DEF Sum, Counts
<1> HIDE DEF m, n
<1>6. PICK q \in RequestRow :
        /\ req' = [req EXCEPT ![r] = q] /\ q.job = req[r].job /\ q.pc = "rows" /\ q.count = n
        /\ q.done = req[r].done \cup Chunk(r)
  BY <1>1, <1>5, <1>a, ChunkDone
<1>7. /\ errs' \in [Jobs -> SUBSET [row : Nat, code : ErrorCodes]]
      /\ (\A k \in Jobs \ {j} : errs'[k] = errs[k]) /\ errs[j] \subseteq errs'[j]
      /\ Error(m, "chunk_failed") \in errs'[j] \/ j \in unreported'
  <2>1. Error(m, "chunk_failed") \in [row : Nat, code : ErrorCodes]
    BY <1>4 DEF Error, ErrorCodes
  <2> QED
    BY <1>1, <2>1 DEF ImportInv, ImportTypes
<1>8. Sum(q.count) = Sum(req[r].count) + Cardinality(Chunk(r))
  BY <1>5, <1>6
<1>9. RequestOK(r)' /\ Ready(j)'
  BY <1>1, <1>6, <1>7, <1>8, <1>a, <1>b, ChunkCounted
<1>10. req'[r] = q
  BY <1>6 DEF ImportInv, ImportTypes
<1>11. ASSUME NEW i \in Chunk(r), Error(m, "chunk_failed") \in errs'[j] PROVE Explained(j, i)'
  <2>1. ImportTypes /\ Streamed(r)
    BY <1>a, RunAt DEF ImportInv
  <2>2. /\ Chunk(r) \subseteq Rest(r) /\ Rest(r) \in SUBSET Nat /\ IsFiniteSet(Rest(r))
        /\ Cardinality({k \in Rest(r) : k < i}) < ChunkSize
    BY <1>a, <2>1, RestFacts
  <2>3. ASSUME NEW k \in kept \cap m .. (i - 1) PROVE k \in Rest(r) /\ k < i
    <3>1. i \in Nat /\ k \in Nat /\ m <= k /\ k <= i - 1
      BY <1>3, <1>4
    <3>2. k \notin req[r].done
      <4> SUFFICES ASSUME k \in req[r].done PROVE FALSE
        OBVIOUS
      <4>1. m \in kept \ req[r].done
        BY <1>4, <1>b, <2>2 DEF Rest
      <4>2. k < m
        BY <1>b, <2>1, <4>1 DEF Streamed
      <4> QED
        BY <1>4, <3>1, <4>2
    <3> QED
      BY <1>b, <3>1, <3>2 DEF Rest
  <2> DEFINE low == {k \in Rest(r) : k < i}
             mid == kept \cap m .. (i - 1)
  <2>4. mid \subseteq low /\ low \subseteq Rest(r)
    BY <2>3
  <2>5. IsFiniteSet(low) /\ Cardinality(low) < ChunkSize
    BY <2>2, <2>4, FS_Subset
  <2> HIDE DEF low
  <2>6. Cardinality(mid) <= Cardinality(low) /\ Cardinality(mid) \in Nat /\ Cardinality(low) \in Nat
    BY <2>4, <2>5, FS_Subset, FS_CardinalityType
  <2>7. Cardinality(mid) < ChunkSize
    BY <2>5, <2>6, ImportAssumption
  <2>8. \E e \in errs'[j] : /\ e.code = "chunk_failed" /\ e.row <= i
                            /\ Cardinality(KeptRows[job[j].file] \cap e.row .. (i - 1)) < ChunkSize
    BY <1>4, <1>11, <2>7 DEF Error
  <2> QED
    BY <1>1, <2>8 DEF Explained, CoveredByFailedChunk
<1>12. ASSUME OnlyRun(j, r) PROVE OnlyRun(j, r)'
  <2>1. stored'[j] = stored[j] /\ (Reported(j)' => Reported(j) /\ j \notin unreported')
    BY <1>1 DEF Reported
  <2>2. \A i : Explained(j, i) => Explained(j, i)'
    BY <1>1, <1>7, <2>1, ExplainedStays
  <2>3. Reported(j)' => \A i \in q.done : Explained(j, i)'
    BY <1>6, <1>7, <1>11, <1>12, <2>1, <2>2 DEF OnlyRun
  <2>4. stored'[j] \subseteq q.done /\ Cardinality(stored'[j]) = q.count.inserted + q.count.updated
    BY <1>5, <1>6, <1>12, <2>1 DEF OnlyRun
  <2> QED
    BY <1>10, <2>3, <2>4 DEF OnlyRun
<1>13. JobOK(j)'
  BY <1>1, <1>6, <1>9, <1>12, <1>a, <1>b, ChunkOfJob
<1>14. DuplicatesOnlyByRace'
  BY <1>1 DEF ImportInv, DuplicatesOnlyByRace
<1>15. /\ stored' \in [Jobs -> SUBSET Nat] /\ stored' = stored /\ supplier' \in [Feins -> Nat]
       /\ unreported \subseteq unreported'
       /\ \A o \in ImportRequests \ {r} : req[o].pc = "store" =>
            \A k \in Storing(o) : supplier[k] = 0 \/ k \in raced => supplier'[k] = 0 \/ k \in raced'
  BY <1>1 DEF ImportInv, ImportTypes
<1> QED
  BY <1>1, <1>2, <1>6, <1>7, <1>9, <1>13, <1>14, <1>15, <1>b, RunMoves

\* Counting two sets that share nothing.
LEMMA Apart ==
  ASSUME NEW A, NEW B, IsFiniteSet(A), IsFiniteSet(B), A \cap B = {}
  PROVE  /\ IsFiniteSet(A \cup B) /\ Cardinality(A \cup B) = Cardinality(A) + Cardinality(B)
         /\ Cardinality(A) \in Nat /\ Cardinality(B) \in Nat
<1>1. Cardinality(A) \in Nat /\ Cardinality(B) \in Nat /\ Cardinality({}) = 0
  BY FS_CardinalityType, FS_EmptySet
<1>2. IsFiniteSet(A \cup B) /\ Cardinality(A \cup B) = Cardinality(A) + Cardinality(B) - Cardinality(A \cap B)
  BY FS_Union, Zenon
<1>3. Cardinality(A \cap B) = 0
  BY <1>1
<1>4. \A a, b, n \in Nat : n = 0 => a + b - n = a + b
  OBVIOUS
<1>5. Cardinality(A) + Cardinality(B) - Cardinality(A \cap B) = Cardinality(A) + Cardinality(B)
  BY <1>1, <1>3, <1>4
<1> QED
  BY <1>1, <1>2, <1>5, Zenon

\* insert_batch does one thing with each row of its chunk.
LEMMA PlanParts ==
  ASSUME ImportInv, NEW r \in ImportRequests, req[r].pc = "store"
  PROVE  \E ins, upd, skp, bad :
         /\ ins = Did(r, "insert") /\ upd = Did(r, "update") /\ skp = Did(r, "skip")
         /\ bad = Did(r, "error") \cup Did(r, "duplicate")
         /\ Chunk(r) = ins \cup upd \cup skp \cup bad
         /\ ins \cap upd = {}
         /\ IsFiniteSet(ins) /\ IsFiniteSet(upd) /\ IsFiniteSet(skp) /\ IsFiniteSet(bad)
         /\ Cardinality(Chunk(r)) =
              Cardinality(ins) + Cardinality(upd) + Cardinality(skp) + Cardinality(bad)
<1>a. PICK ins : ins = Did(r, "insert")
  OBVIOUS
<1>b. PICK upd : upd = Did(r, "update")
  OBVIOUS
<1>c. PICK skp : skp = Did(r, "skip")
  OBVIOUS
<1>d. PICK bad : bad = Did(r, "error") \cup Did(r, "duplicate")
  OBVIOUS
<1>1. req[r].pc \in Working /\ req[r] \in RequestRow
  BY Requesting DEF Working
<1>2. DOMAIN req[r].plan = Chunk(r) /\ IsFiniteSet(Chunk(r))
  BY <1>1, RunAt DEF Streamed
<1>3. \A i \in Chunk(r) : req[r].plan[i] \in Deed
  <2>1. req[r].plan \in Plans
    BY <1>1 DEF RequestRow
  <2>2. PICK S \in SUBSET Nat : req[r].plan \in [S -> Deed]
    BY <2>1 DEF Plans
  <2> QED
    BY <1>2, <2>2
<1>4. \A i : /\ i \in ins <=> i \in Chunk(r) /\ req[r].plan[i] = "insert"
             /\ i \in upd <=> i \in Chunk(r) /\ req[r].plan[i] = "update"
             /\ i \in skp <=> i \in Chunk(r) /\ req[r].plan[i] = "skip"
             /\ i \in bad <=> i \in Chunk(r) /\ req[r].plan[i] \in {"error", "duplicate"}
  BY <1>2, <1>a, <1>b, <1>c, <1>d DEF Did
<1>5. Chunk(r) = ((ins \cup upd) \cup skp) \cup bad
  BY <1>3, <1>4 DEF Deed
<1>6. ins \cap upd = {} /\ (ins \cup upd) \cap skp = {} /\ ((ins \cup upd) \cup skp) \cap bad = {}
  BY <1>4
<1>7. IsFiniteSet(ins) /\ IsFiniteSet(upd) /\ IsFiniteSet(skp) /\ IsFiniteSet(bad)
  BY <1>2, <1>4, FS_Subset
<1>8. IsFiniteSet(ins \cup upd) /\ Cardinality(ins \cup upd) = Cardinality(ins) + Cardinality(upd)
  BY <1>6, <1>7, Apart
<1>9. /\ IsFiniteSet((ins \cup upd) \cup skp)
      /\ Cardinality((ins \cup upd) \cup skp) = Cardinality(ins \cup upd) + Cardinality(skp)
  BY <1>6, <1>7, <1>8, Apart
<1>10. Cardinality(((ins \cup upd) \cup skp) \cup bad) = Cardinality((ins \cup upd) \cup skp) + Cardinality(bad)
  BY <1>6, <1>7, <1>9, Apart
<1>11. Cardinality(Chunk(r)) =
         Cardinality(ins) + Cardinality(upd) + Cardinality(skp) + Cardinality(bad)
  BY <1>5, <1>8, <1>9, <1>10
<1> QED
  BY <1>5, <1>6, <1>7, <1>11, <1>a, <1>b, <1>c, <1>d

\* A chunk that commits: its rows are counted once each and stored or reported.
LEMMA StoreChunkKeeps ==
  ASSUME ImportInv, NEW r \in ImportRequests, StoreChunk(r)
  PROVE  ImportInv'
<1>a. /\ req[r].job \in Jobs /\ req[r] \in RequestRow /\ req[r].pc = "store"
      /\ req[r].pc \in Working /\ RequestOK(r)
  BY Requesting DEF StoreChunk, AtStage, Working
<1>b. PICK j \in Jobs : j = req[r].job
  BY <1>a
<1>c. PICK ins, upd, skp, bad :
        /\ ins = Did(r, "insert") /\ upd = Did(r, "update") /\ skp = Did(r, "skip")
        /\ bad = Did(r, "error") \cup Did(r, "duplicate")
        /\ Chunk(r) = ins \cup upd \cup skp \cup bad
        /\ ins \cap upd = {}
        /\ IsFiniteSet(ins) /\ IsFiniteSet(upd) /\ IsFiniteSet(skp) /\ IsFiniteSet(bad)
        /\ Cardinality(Chunk(r)) =
             Cardinality(ins) + Cardinality(upd) + Cardinality(skp) + Cardinality(bad)
  BY <1>a, PlanParts
<1>d. PICK dbl : dbl = Did(r, "duplicate")
  OBVIOUS
<1> DEFINE c == req[r].count
           n == [inserted |-> c.inserted + Cardinality(ins),
                 updated |-> c.updated + Cardinality(upd),
                 skipped |-> c.skipped + Cardinality(skp),
                 errors |-> c.errors + Cardinality(bad)]
           told == {Error(i, "duplicate_fein_existing") : i \in dbl}
<1>1. /\ supplier' = [k \in Feins |-> IF k \in Storing(r) THEN supplier[k] + 1 ELSE supplier[k]]
      /\ errs' = [errs EXCEPT ![j] = @ \cup told]
      /\ After(r, n)
      /\ stored' = [stored EXCEPT ![j] = @ \cup ins \cup upd]
  BY <1>b, <1>c, <1>d DEF StoreChunk
<1>2. /\ raced' = raced \cup {k \in Storing(r) :
                       \E o \in ImportRequests \ {r} : AtStage(o, "store") /\ k \in Storing(o)}
      /\ unreported' = IF Did(r, "error") = {} THEN unreported ELSE unreported \cup {j}
      /\ UNCHANGED <<job, importFaults, runs, settled, orphaned, importCalls>>
  BY <1>b DEF StoreChunk
<1>3. importCalls' \in 0 .. MaxImportCalls /\ importFaults' \in 0 .. MaxImportFaults
  BY <1>2, Requesting
<1>4. Streamed(r) /\ Planned(r) /\ Chunk(r) \in SUBSET Nat /\ IsFiniteSet(Chunk(r))
  BY <1>a, RunAt DEF RequestOK
<1>6. /\ Cardinality(ins) \in Nat /\ Cardinality(upd) \in Nat
      /\ Cardinality(skp) \in Nat /\ Cardinality(bad) \in Nat
  BY <1>c, FS_CardinalityType
<1>7. /\ n \in Counts /\ n.inserted + n.updated = c.inserted + c.updated + (Cardinality(ins) + Cardinality(upd))
      /\ Sum(n) = Sum(c) + Cardinality(Chunk(r)) /\ c.inserted + c.updated \in Nat
  <2>1. c \in Counts
    BY <1>a DEF RequestRow
  <2> HIDE DEF c
  <2>2. /\ c.inserted \in Nat /\ c.updated \in Nat /\ c.skipped \in Nat /\ c.errors \in Nat
    BY <2>1 DEF Counts
  <2> QED
    BY <1>c, <1>6, <2>2 DEF Sum, Counts
<1> HIDE DEF n, told
<1>8. PICK q \in RequestRow :
        /\ req' = [req EXCEPT ![r] = q] /\ q.job = req[r].job /\ q.pc = "rows" /\ q.count = n
        /\ q.done = req[r].done \cup Chunk(r)
  BY <1>1, <1>7, <1>a, ChunkDone
<1>9. /\ told \in SUBSET [row : Nat, code : ErrorCodes] /\ \A i \in dbl : \E e \in told : e.row = i
  <2>1. dbl \subseteq Nat
    BY <1>4, <1>c, <1>d
  <2>2. "duplicate_fein_existing" \in ErrorCodes
    BY DEF ErrorCodes
  <2>3. \A i \in dbl : /\ Error(i, "duplicate_fein_existing") \in [row : Nat, code : ErrorCodes]
                       /\ Error(i, "duplicate_fein_existing").row = i
    BY <2>1, <2>2 DEF Error
  <2> QED
    BY <2>3 DEF told
<1>10. /\ errs' \in [Jobs -> SUBSET [row : Nat, code : ErrorCodes]]
       /\ (\A k \in Jobs \ {j} : errs'[k] = errs[k]) /\ errs'[j] = errs[j] \cup told
  BY <1>1, <1>9 DEF ImportInv, ImportTypes
<1>11. /\ stored' \in [Jobs -> SUBSET Nat] /\ stored'[j] = stored[j] \cup (ins \cup upd)
       /\ \A k \in Jobs \ {j} : stored'[k] = stored[k]
  <2>1. ins \cup upd \subseteq Nat
    BY <1>4, <1>c
  <2> QED
    BY <1>1, <2>1 DEF ImportInv, ImportTypes
<1>12. supplier' \in [Feins -> Nat]
  BY <1>1 DEF ImportInv, ImportTypes
<1>13. Sum(q.count) = Sum(req[r].count) + Cardinality(Chunk(r))
  BY <1>7, <1>8
<1>14. RequestOK(r)' /\ Ready(j)'
  BY <1>2, <1>8, <1>10, <1>13, <1>a, <1>b, ChunkCounted
<1>15. req'[r] = q
  BY <1>8 DEF ImportInv, ImportTypes
<1>16. ASSUME NEW i \in Chunk(r), Reported(j)' PROVE Explained(j, i)'
  <2>1. job[j].dup = "error" /\ j \notin unreported'
    BY <1>2, <1>16 DEF Reported
  <2>2. upd \cup skp = {} /\ Did(r, "error") = {}
    BY <1>2, <1>4, <1>a, <1>b, <1>c, <2>1 DEF Planned
  <2>3. i \in ins \/ i \in dbl
    BY <1>c, <1>d, <2>2
  <2> QED
    BY <1>9, <1>10, <1>11, <2>3 DEF Explained
<1>17. ASSUME OnlyRun(j, r) PROVE OnlyRun(j, r)'
  <2>1. Reported(j)' => Reported(j)
    BY <1>2 DEF Reported
  <2>2. \A i : Explained(j, i) => Explained(j, i)'
    BY <1>2, <1>10, <1>11, ExplainedStays
  <2>3. Reported(j)' => \A i \in q.done : Explained(j, i)'
    BY <1>8, <1>16, <1>17, <2>1, <2>2 DEF OnlyRun
  <2>4. stored'[j] \subseteq q.done
    BY <1>c, <1>8, <1>11, <1>17 DEF OnlyRun
  <2>5. stored[j] \cap (ins \cup upd) = {} /\ IsFiniteSet(stored[j])
    <3>1. ImportTypes
      BY DEF ImportInv
    <3>2. /\ IsFiniteSet(req[r].done \cup Chunk(r)) /\ req[r].done \cap Chunk(r) = {}
      BY <1>4, <1>a, <3>1, HandedOut
    <3>3. stored[j] \subseteq req[r].done
      BY <1>17 DEF OnlyRun
    <3>4. stored[j] \subseteq req[r].done \cup Chunk(r)
      BY <3>3
    <3>5. IsFiniteSet(stored[j])
      BY <3>2, <3>4, FS_Subset
    <3> QED
      BY <1>c, <3>2, <3>3, <3>5
  <2>6. IsFiniteSet(ins \cup upd) /\ Cardinality(ins \cup upd) = Cardinality(ins) + Cardinality(upd)
    BY <1>c, Apart
  <2>7. Cardinality(stored[j] \cup (ins \cup upd)) = Cardinality(stored[j]) + Cardinality(ins \cup upd)
    BY <2>5, <2>6, Apart
  <2>8. Cardinality(stored[j]) = c.inserted + c.updated
    BY <1>17 DEF OnlyRun
  <2>9. Cardinality(stored'[j]) = q.count.inserted + q.count.updated
    BY <1>7, <1>8, <1>11, <2>6, <2>7, <2>8
  <2> QED
    BY <1>15, <2>3, <2>4, <2>9 DEF OnlyRun
<1>18. JobOK(j)'
  BY <1>2, <1>8, <1>14, <1>17, <1>a, <1>b, ChunkOfJob
<1>19. \A k \in Feins : supplier'[k] = IF k \in Storing(r) THEN supplier[k] + 1 ELSE supplier[k]
  BY <1>1
<1>20. DuplicatesOnlyByRace'
  <2>1. ASSUME NEW k \in Feins, supplier'[k] > 1 PROVE k \in raced'
    <3>1. CASE k \in Storing(r)
      <4>1. supplier[k] = 0 \/ k \in raced
        BY <1>4, <1>a, <3>1 DEF Planned
      <4>2. supplier[k] # 0
        BY <1>19, <2>1, <3>1
      <4> QED
        BY <1>2, <4>1, <4>2
    <3>2. CASE k \notin Storing(r)
      <4>1. supplier[k] > 1
        BY <1>19, <2>1, <3>2
      <4>2. k \in raced
        BY <4>1 DEF ImportInv, DuplicatesOnlyByRace
      <4> QED
        BY <1>2, <4>2
    <3> QED
      BY <3>1, <3>2
  <2> QED
    BY <2>1 DEF DuplicatesOnlyByRace
<1>21. ASSUME NEW o \in ImportRequests \ {r}, req[o].pc = "store", NEW k \in Storing(o),
              supplier[k] = 0 \/ k \in raced
       PROVE  supplier'[k] = 0 \/ k \in raced'
  <2>1. k \in Feins
    <3>1. req[o].pc \in Working
      BY <1>21 DEF Working
    <3>2. DOMAIN req[o].plan = Chunk(o) /\ \A i \in Chunk(o) : Key[job[req[o].job].file][i] \in Feins
      BY <1>21, <3>1, RunAt DEF Streamed
    <3> QED
      BY <1>21, <3>2 DEF Storing, Did
  <2>2. CASE k \in Storing(r)
    BY <1>2, <1>21, <2>2 DEF AtStage
  <2>3. CASE k \notin Storing(r)
    BY <1>2, <1>19, <1>21, <2>1, <2>3
  <2> QED
    BY <2>2, <2>3
<1>22. errs[j] \subseteq errs'[j] /\ unreported \subseteq unreported'
  BY <1>2, <1>10
<1> QED
  BY <1>2, <1>3, <1>8, <1>10, <1>11, <1>12, <1>14, <1>18, <1>20, <1>21, <1>22, <1>b, RunMoves

-----------------------------------------------------------------------------
(* Every step of an import, and what the invariant gives *)

LEMMA ImportIdle ==
  ASSUME ImportInv, UNCHANGED importVars
  PROVE  ImportInv'
<1>1. UNCHANGED <<job, errs, supplier, req, importCalls, importFaults, stored, runs, settled, raced, unreported>>
  BY DEF importVars
<1>2. \A j : Ready(j) => Ready(j)'
  BY <1>1 DEF Ready
<1>3. ASSUME NEW r \in ImportRequests PROVE RequestOK(r)'
  BY <1>1, <1>2, RequestStays DEF ImportInv
<1>4. ASSUME NEW j \in Jobs PROVE JobOK(j)'
  BY <1>1, JobStays DEF ImportInv
<1>5. ImportTypes' /\ DuplicatesOnlyByRace'
  BY <1>1 DEF ImportInv, ImportTypes, DuplicatesOnlyByRace
<1> QED
  BY <1>3, <1>4, <1>5 DEF ImportInv

\* A request goes on.
LEMMA WorksKeeps ==
  ASSUME ImportInv, NEW r \in ImportRequests, Works(r)
  PROVE  ImportInv'
<1>1. CASE ValidateRead(r) \/ CommitRead(r)
  BY <1>1, ReadsKeep
<1>2. CASE Validate(r)
  BY <1>2, ValidateKeeps
<1>3. CASE Begin(r)
  BY <1>3, BeginKeeps
<1>4. CASE ReadExisting(r)
  BY <1>4, ReadExistingKeeps
<1>5. CASE InsertBatch(r)
  BY <1>5, InsertBatchKeeps
<1>6. CASE StoreChunk(r)
  BY <1>6, StoreChunkKeeps
<1>7. CASE Finish(r)
  BY <1>7, FinishKeeps
<1>8. CASE CancelWrite(r)
  BY <1>8, CancelWriteKeeps
<1> QED
  BY <1>1, <1>2, <1>3, <1>4, <1>5, <1>6, <1>7, <1>8 DEF Works

\* The invariant is inductive.
LEMMA ImportStep == ImportInv /\ [ImportNext]_importVars => ImportInv'
<1> SUFFICES ASSUME ImportInv, [ImportNext]_importVars PROVE ImportInv'
  OBVIOUS
<1>1. CASE UNCHANGED importVars
  BY <1>1, ImportIdle
<1>2. ASSUME NEW r \in ImportRequests, Works(r) PROVE ImportInv'
  BY <1>2, WorksKeeps
<1>3. ASSUME NEW r \in ImportRequests, ChunkFails(r) \/ Fatal(r) \/ Dies(r) PROVE ImportInv'
  BY <1>3, ChunkFailsKeeps, FatalKeeps, DiesKeeps
<1>4. ASSUME NEW r \in ImportRequests, NEW j \in Jobs,
             CommitRequested(r, j) \/ TaskStarts(r, j) \/ CancelRead(r, j)
      PROVE  ImportInv'
  BY <1>4, ArrivalsKeep
<1>5. ASSUME NEW r \in ImportRequests, NEW j \in Jobs, NEW offer \in Offers,
             Upload(r, j, offer.file, offer.dup)
      PROVE  ImportInv'
  BY <1>5, UploadKeeps
<1> QED
  BY <1>1, <1>2, <1>3, <1>4, <1>5 DEF ImportNext

LEMMA ImportTypesHold == ASSUME ImportInv PROVE ImportTypeOK
<1>1. ASSUME NEW r \in ImportRequests
      PROVE  /\ req[r].pc \in Pc
             /\ req[r].job \in Jobs \cup {NoJob}
             /\ (req[r].pc = "idle") <=> (req[r].job = NoJob)
             /\ req[r].pc # "idle" => job[req[r].job].status # "absent"
             /\ req[r].known \subseteq Feins
             /\ \A i \in DOMAIN req[r].plan : req[r].plan[i] \in Deed
             /\ req[r].count \in Counts
  <2>1. req[r] \in RequestRow /\ RequestOK(r)
    BY Requesting
  <2>2. req[r].plan \in Plans
    BY <2>1 DEF RequestRow
  <2>3. \A i \in DOMAIN req[r].plan : req[r].plan[i] \in Deed
    BY <2>2 DEF Plans
  <2> QED
    BY <2>1, <2>3 DEF RequestRow, RequestOK
<1>2. \A j \in Jobs : \A e \in errs[j] : e.row \in Nat
  BY DEF ImportInv, ImportTypes
<1> QED
  BY <1>1, <1>2 DEF ImportInv, ImportTypes, ImportTypeOK

\* Kept rows are stored or reported; the others are in the dry run's report.
LEMMA AllExplained == ASSUME ImportInv PROVE EveryRowExplained
<1> SUFFICES ASSUME NEW j \in Jobs, job[j].status = "completed", runs[j] = 1, job[j].dup = "error",
                    j \notin unreported, job[j].file \in FitsReport, NEW i \in Numbers(job[j].file)
             PROVE  \/ i \in stored[j]
                    \/ \E e \in errs[j] : e.row = i
                    \/ CoveredByFailedChunk(j, i)
  BY DEF EveryRowExplained
<1>1. Left(j) /\ Ready(j) /\ Reported(j)
  BY DEF ImportInv, JobOK, Reported
<1>2. job[j].file \in Uploads
  BY DEF ImportInv, ImportTypes, Job
<1>3. CASE i \in KeptRows[job[j].file]
  BY <1>1, <1>3 DEF Left, Explained
<1>4. CASE i \notin KeptRows[job[j].file]
  <2>1. PICK e \in Findings(job[j].file, i) : e.row = i
    BY <1>2, <1>4, NotKeptFound
  <2>2. Outcome[job[j].file] = "ready" /\ Recorded[job[j].file] \subseteq errs[j]
    BY <1>1 DEF Ready
  <2>3. e \in Recorded[job[j].file]
    BY <1>2, <2>1, <2>2, ReportComplete
  <2> QED
    BY <2>1, <2>2, <2>3
<1> QED
  BY <1>3, <1>4

LEMMA ImportsFollow == ImportInv => ImportsSound
<1> SUFFICES ASSUME ImportInv PROVE ImportsSound
  OBVIOUS
<1>1. RowsAccountedFor
  <2> SUFFICES ASSUME NEW j \in Jobs, job[j].status = "completed", runs[j] = 1
               PROVE  LET s == job[j].summary IN
                      /\ s.inserted + s.updated + s.skipped + s.errors = job[j].total
                      /\ job[j].imported = Cardinality(stored[j])
                      /\ s.errors >= job[j].invalid
                      /\ job[j].total = Total(job[j].file)
    BY DEF RowsAccountedFor
  <2>1. Left(j) /\ Ready(j)
    BY DEF ImportInv, JobOK
  <2> QED
    BY <2>1 DEF Left, Ready, Sum
<1> QED
  BY <1>1, ImportTypesHold, AllExplained DEF ImportsSound, ImportInv

\* run_commit and insert_batch: a job completed by its only commit accounts
\* for each row of its file and explains those it did not store, and only
\* chunks stored at the same moment give two suppliers one FEIN.
THEOREM ImportsAccountForRows == ImportSpec => []ImportsSound
<1>1. ImportSpec => []ImportInv
  BY ImportStart, ImportStep, PTL DEF ImportSpec
<1> QED
  BY <1>1, ImportsFollow, PTL

\* A step leaves the status of every settled job.
LEMMA SettledStep ==
  ASSUME ImportInv, [ImportNext]_importVars
  PROVE  \A j \in settled : job'[j].status = job[j].status
<1> SUFFICES ASSUME NEW j \in settled PROVE job'[j] = job[j]
  OBVIOUS
<1>1. j \in Jobs /\ job[j].status # "absent"
  BY DEF ImportInv, ImportTypes, JobOK, TerminalStatuses
<1>2. \A r \in ImportRequests : req[r].job = j => req[r].pc = "commit_read"
  BY <1>1 DEF ImportInv, JobOK
<1>3. job \in [Jobs -> Job]
  BY DEF ImportInv, ImportTypes
<1>4. CASE job' = job
  BY <1>4
<1>5. ASSUME NEW k, k # j, NEW row, job' = [job EXCEPT ![k] = row] PROVE job'[j] = job[j]
  BY <1>1, <1>3, <1>5
<1>6. ASSUME NEW r \in ImportRequests, Works(r) \/ ChunkFails(r) \/ Fatal(r) \/ Dies(r)
      PROVE  job'[j] = job[j]
  <2>1. CASE Validate(r)
    BY <1>2, <1>4, <1>5, <2>1 DEF Validate, AtStage
  <2>2. CASE Begin(r)
    BY <1>2, <1>5, <2>2 DEF Begin, AtStage
  <2>3. CASE Finish(r)
    BY <1>2, <1>5, <2>3 DEF Finish, AtStage
  <2>4. CASE Fatal(r)
    BY <1>2, <1>5, <2>4 DEF Fatal, AtStage
  <2>5. CASE CancelWrite(r)
    BY <1>2, <1>5, <2>5 DEF CancelWrite, AtStage
  <2>6. CASE \/ ValidateRead(r) \/ CommitRead(r) \/ ReadExisting(r) \/ InsertBatch(r) \/ StoreChunk(r)
             \/ ChunkFails(r) \/ Dies(r)
    BY <1>4, <2>6
       DEF ValidateRead, CommitRead, ReadExisting, InsertBatch, StoreChunk, ChunkFails, Dies
  <2> QED
    BY <1>6, <2>1, <2>2, <2>3, <2>4, <2>5, <2>6 DEF Works
<1>7. ASSUME NEW r \in ImportRequests, NEW k \in Jobs,
             CommitRequested(r, k) \/ TaskStarts(r, k) \/ CancelRead(r, k)
      PROVE  job'[j] = job[j]
  BY <1>4, <1>7 DEF CommitRequested, TaskStarts, CancelRead
<1>8. ASSUME NEW r \in ImportRequests, NEW k \in Jobs, NEW offer \in Offers,
             Upload(r, k, offer.file, offer.dup)
      PROVE  job'[j] = job[j]
  <2>1. k # j
    <3>1. ~(k < k)
      BY ImportNumbers
    <3> QED
      BY <1>1, <1>8, <3>1 DEF Upload, Present
  <2> QED
    BY <1>5, <1>8, <2>1 DEF Upload
<1> QED
  BY <1>4, <1>6, <1>7, <1>8 DEF ImportNext, importVars

\* commit_import, run_commit, cancel_import and the tasks: whatever comes
\* after a job ended with nobody else at work on it leaves its status.
THEOREM SettledStay == ImportSpec => SettledIsFinal
<1>1. ImportSpec => []ImportInv
  BY ImportStart, ImportStep, PTL DEF ImportSpec
<1>2. ImportInv /\ [ImportNext]_importVars => [\A j \in settled : job'[j].status = job[j].status]_importVars
  BY SettledStep
<1> QED
  BY <1>1, <1>2, PTL DEF ImportSpec, SettledIsFinal
=============================================================================
