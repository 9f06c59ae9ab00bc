---------------------------- MODULE InboundEmail ----------------------------
(***************************************************************************)
(* Inbound email: Postmark posts a message until it is answered with 2xx,   *)
(* and the IMAP poller, started every minute whether or not the last poll   *)
(* is over, walks the mailbox behind a cursor kept in a file.  Both hand    *)
(* what they get to ingest, which stores one row per Message-ID and routes  *)
(* it by the tenant's rules.  The row, its attachments and its draft commit *)
(* together, and a second INSERT of the Message-ID waits for the first, so  *)
(* everything from the INSERT to the commit is one step.                    *)
(*                                                                          *)
(* A letter is what a channel delivers.  Its fields hold what the code      *)
(* compares: the slug and token of its address, the domain the code derives *)
(* from its sender, the subjects' patterns it matches.                      *)
(***************************************************************************)
EXTENDS Naturals, FiniteSets, Sequences, SequencesExt, AvScanner

CONSTANTS
    Letters,        \* names of letters
    Letter,         \* Letters -> what is in one
    Mailbox,        \* the letters of the IMAP mailbox, by UID
    Tenant,         \* slug -> [active, token, suppliers]
    RuleDef,        \* rules the tenant may create, in order of creation
    FirstRules,     \* the rule tables a tenant may start with
    Priorities,     \* bound: priorities rules are created with
    Patches,        \* bound: <<field, value>> pairs rules are updated with
    PortalSeeded,   \* whether a portal exists
    PostmarkSecret, \* settings.postmark_webhook_secret
    MaxEmailSize, MaxAttachmentSize,    \* settings.inbound_max_*_size_mb
    InDevelopment,  \* settings.is_development
    Hooks,          \* webhook requests running at once
    Pollers,        \* polls running at once
    MaxEdits,       \* bound: rule edits in one behaviour
    MaxRetries,     \* bound: operator retries and quarantines
    MaxMailFaults   \* bound: dying requests and polls, failed fetches

Rules == DOMAIN RuleDef
MessageIds == {Letter[l].mid : l \in Letters}
Uids == DOMAIN Mailbox
MailActors == Hooks \cup Pollers

MailStatus == {"parsing", "routed", "quarantined", "failed"}
RuleActions == {"create_submission", "quarantine", "discard", "tag_only"}
NoRule == [prio |-> 0, active |-> FALSE, action |-> "none"]
RuleRow == [prio : Nat, active : BOOLEAN, action : RuleActions]

\* A field a mail has not, or a setting that is not set, is "none".
ASSUME MailAssumption ==
    /\ Letters # {} /\ Mailbox \in Seq(Letters)
    /\ \A r \in Rules : RuleDef[r].action \in RuleActions
    /\ FirstRules \subseteq [Rules -> {NoRule} \cup RuleRow]
    /\ Priorities \subseteq 0 .. 999
    /\ \A patch \in Patches : \/ patch[1] = "prio" /\ patch[2] \in 0 .. 999
                              \/ patch[1] = "active" /\ patch[2] \in BOOLEAN
                              \/ patch[1] = "action" /\ patch[2] \in RuleActions
    /\ Hooks \cap Pollers = {}
    /\ {MaxEdits, MaxRetries, MaxMailFaults} \subseteq Nat

VARIABLES
    mail,       \* inbound_emails, by Message-ID
    rules,      \* inbound_routing_rules of the tenant
    drafts,     \* draft submissions made of a Message-ID
    post,       \* what Postmark knows of a letter
    cursor,     \* last UID in the state file
    actor,      \* webhook requests and polls in progress
    edits, retries, mailFaults, \* bounds
    rerouted,   \* history: routings an operator asked for, by Message-ID
    refused,    \* history: letters ingest turned down
    unfetched,  \* history: UIDs a fetch failed for
    ordered     \* history: pairs of rules the last reorder listed in this order,
                \* while no rule was touched since

mailVars == <<mail, rules, drafts, post, cursor, actor, edits, retries, mailFaults,
              rerouted, refused, unfetched, ordered>>
mailHistory == <<rerouted, refused, unfetched, ordered>>

NoMail == [status |-> "absent", letter |-> CHOOSE l \in Letters : TRUE, atts |-> {}, draft |-> FALSE]
Rested == [pc |-> "idle", letter |-> CHOOSE l \in Letters : TRUE, uids |-> <<>>]

-----------------------------------------------------------------------------
(* What ingest makes of a letter *)

\* parse_to_address, _resolve_tenant and the tenant's routing token, if it
\* has one.
Addressee(l) ==
    {s \in DOMAIN Tenant :
        /\ Letter[l].slug = s
        /\ Tenant[s].active
        /\ Tenant[s].token \in {"none", Letter[l].token}}

TooLarge(l) ==
    \/ \E i \in DOMAIN Letter[l].atts : Letter[l].atts[i].size > MaxAttachmentSize
    \/ Letter[l].size > MaxEmailSize

\* The webhook's shared secret; without one only development is let in.
VerifySecret(l) ==
    IF PostmarkSecret = "none" THEN InDevelopment ELSE Letter[l].secret = PostmarkSecret

\* What a channel takes for the sender: a mailbox letter's From header is kept
\* whole, so a display name hides the address.
Sender(l) ==
    IF Letter[l].via = "imap" /\ Letter[l].named THEN [email |-> "?", domain |-> "?"]
    ELSE [email |-> Letter[l].from, domain |-> Letter[l].domain]

\* Parts without content are dropped.
Attachments(l) == SelectSeq(Letter[l].atts, LAMBDA a : a.bytes # "none")

AllowedExtensions == {"pdf", "doc", "docx", "xls", "xlsx", "csv", "eml", "txt", "png", "jpg", "jpeg"}
SanitizeExtension(ext) == IF ext \in AllowedExtensions THEN ext ELSE "bin"

Turned(l) == TooLarge(l) \/ Addressee(l) = {}

\* score_spam in twentieths.
Least(a, b) == IF a <= b THEN a ELSE b
ScoreSpam(l) ==
    LET s == Letter[l].spam
        score == Least(12, 4 * s.hits) + (IF s.caps THEN 2 ELSE 0) + (IF s.numeric THEN 4 ELSE 0)
    IN  Least(20, IF s.flag /\ score < 19 THEN 19 ELSE score)

Held(l) == ScoreSpam(l) >= 18

\* Storage takes a file the scanner passed.
Stores(bytes, clamd) == EnforceClean(bytes, clamd) = "passed"

\* The attachments kept: an allowed extension, stored, one per content.
Kept(l, clamd) ==
    LET atts == Attachments(l)
        taken(i) == SanitizeExtension(atts[i].ext) # "bin" /\ Stores(atts[i].bytes, clamd)
    IN  {[kind |-> atts[i].ext, bytes |-> atts[i].bytes] :
            i \in {i \in DOMAIN atts :
                     taken(i) /\ \A k \in 1 .. (i - 1) : taken(k) => atts[k].bytes # atts[i].bytes}}

-----------------------------------------------------------------------------
(* Rules *)

RuleMatches(r, l, atts) ==
    /\ RuleDef[r].domain \in {"none", Sender(l).domain}
    /\ RuleDef[r].subject \in {"none"} \cup Letter[l].subjects
    /\ RuleDef[r].kind \in {"none"} \cup {a.kind : a \in atts}

\* ORDER BY priority, created_at.
Before(a, b) ==
    rules[a].prio < rules[b].prio \/ (rules[a].prio = rules[b].prio /\ a < b)

\* The action of the first active rule that matches, or the fallback's.
Matching(l, atts) == {r \in Rules : rules[r].active /\ RuleMatches(r, l, atts)}
SelectRule(l, atts) ==
    {r \in Matching(l, atts) : \A o \in Matching(l, atts) \ {r} : Before(r, o)}
SelectedAction(l, atts) ==
    IF SelectRule(l, atts) = {} THEN "create_submission"
    ELSE rules[CHOOSE r \in SelectRule(l, atts) : TRUE].action

\* The supplier named by a tag, by the exact address, by the domain; a tag or
\* an address two suppliers share raises.
ResolveSupplier(l) ==
    LET known == Tenant[Letter[l].slug].suppliers
        tagged == {s \in known : Letter[l].tag # "none" /\ Letter[l].tag \in {s.id, s.email}}
        exact == {s \in known : s.email = Sender(l).email}
        near == {s \in known : s.domain = Sender(l).domain}
    IN  IF Cardinality(tagged) > 1 THEN "raises"
        ELSE IF Cardinality(tagged) = 1 THEN "found"
        ELSE IF Cardinality(exact) > 1 THEN "raises"
        ELSE IF exact \cup near # {} THEN "found" ELSE "unresolved"

\* The status a routing leaves and whether it made a draft.
RouteResult(l, atts) ==
    LET action == SelectedAction(l, atts)
        who == ResolveSupplier(l)
    IN  CASE action = "quarantine" -> [status |-> "quarantined", draft |-> FALSE]
          [] action = "create_submission" /\ who = "raises" -> [status |-> "failed", draft |-> FALSE]
          [] action = "create_submission" /\ who = "found" /\ PortalSeeded ->
                [status |-> "routed", draft |-> TRUE]
          [] OTHER -> [status |-> "routed", draft |-> FALSE]

-----------------------------------------------------------------------------
InboundTypeOK ==
    /\ \A m \in MessageIds :
          /\ mail[m].status \in MailStatus \cup {"absent"}
          /\ mail[m].status # "absent" => Letter[mail[m].letter].mid = m /\ ~Turned(mail[m].letter)
          /\ mail[m].draft => drafts[m] > 0
    /\ \A r \in Rules : rules[r] \in {NoRule} \cup RuleRow
    /\ drafts \in [MessageIds -> Nat]
    /\ post \in [Letters -> {"unsent", "sent", "answered"}]
    /\ cursor \in Uids \cup {0}
    /\ \A a \in MailActors :
          /\ actor[a].pc \in {"idle", "look", "land", "answer", "fetch", "save"}
          /\ actor[a].pc = "idle" => actor[a].uids = <<>>

MailInit ==
    /\ mail = [m \in MessageIds |-> NoMail]
    /\ rules \in FirstRules
    /\ drafts = [m \in MessageIds |-> 0]
    /\ post = [l \in Letters |-> "unsent"]
    /\ cursor = 0
    /\ actor = [a \in MailActors |-> Rested]
    /\ edits = 0 /\ retries = 0 /\ mailFaults = 0
    /\ rerouted = [m \in MessageIds |-> 0]
    /\ refused = {}
    /\ unfetched = {}
    /\ ordered = {}

MailBounds == <<edits, retries, mailFaults>>

-----------------------------------------------------------------------------
(* The Postmark webhook *)

\* Postmark sends a letter, and sends it again until it is answered.
PostmarkSends(h, l) ==
    /\ Letter[l].via = "postmark"
    /\ VerifySecret(l)
    /\ actor[h].pc = "idle"
    /\ post[l] \in {"unsent", "sent"}
    /\ post' = [post EXCEPT ![l] = "sent"]
    /\ actor' = [actor EXCEPT ![h] = [pc |-> "look", letter |-> l, uids |-> <<>>]]
    /\ UNCHANGED <<mail, rules, drafts, cursor, MailBounds, mailHistory>>

\* 2xx, also for a letter nobody can take; a letter too large gets 413, and
\* Postmark goes on trying.
PostmarkAnswered(h) ==
    LET l == actor[h].letter IN
    /\ actor[h].pc = "answer"
    /\ post' = [post EXCEPT ![l] = IF l \in refused /\ TooLarge(l) THEN "sent" ELSE "answered"]
    /\ actor' = [actor EXCEPT ![h] = Rested]
    /\ UNCHANGED <<mail, rules, drafts, cursor, MailBounds, mailHistory>>

-----------------------------------------------------------------------------
(* The IMAP poller *)

\* poll_once reads the cursor and lists the UIDs above it.
PollStarts(p) ==
    /\ actor[p].pc = "idle"
    /\ cursor < Len(Mailbox)
    /\ actor' = [actor EXCEPT ![p] =
                    [pc |-> "fetch", letter |-> @.letter,
                     uids |-> [i \in 1 .. (Len(Mailbox) - cursor) |-> cursor + i]]]
    /\ UNCHANGED <<mail, rules, drafts, post, cursor, MailBounds, mailHistory>>

NextUid(p) == Head(actor[p].uids)

\* Mutant: the cursor moves before the letter is stored.
FetchThenSave(p) ==
    LET l == Mailbox[NextUid(p)] IN
    /\ actor[p].pc = "fetch"
    /\ actor[p].uids # <<>>
    /\ cursor' = NextUid(p)
    /\ actor' = [actor EXCEPT ![p] = [pc |-> IF Letter[l].mid = "none" THEN "save" ELSE "look",
                                      letter |-> l, uids |-> @.uids]]
    /\ refused' = IF Letter[l].mid = "none" THEN refused \cup {l} ELSE refused
    /\ UNCHANGED <<mail, rules, drafts, post, MailBounds, rerouted, unfetched, ordered>>

\* A letter without a Message-ID is counted as an error and passed.
Fetch(p) ==
    LET l == Mailbox[NextUid(p)] IN
    /\ actor[p].pc = "fetch"
    /\ actor[p].uids # <<>>
    /\ actor' = [actor EXCEPT ![p] = [pc |-> IF Letter[l].mid = "none" THEN "save" ELSE "look",
                                      letter |-> l, uids |-> @.uids]]
    /\ refused' = IF Letter[l].mid = "none" THEN refused \cup {l} ELSE refused
    /\ UNCHANGED <<mail, rules, drafts, post, cursor, MailBounds, rerouted, unfetched, ordered>>

\* A fetch that fails is skipped; the cursor passes it with the next letter.
FetchFails(p) ==
    /\ actor[p].pc = "fetch"
    /\ actor[p].uids # <<>>
    /\ mailFaults < MaxMailFaults
    /\ mailFaults' = mailFaults + 1
    /\ unfetched' = unfetched \cup {NextUid(p)}
    /\ actor' = [actor EXCEPT ![p] = [pc |-> "fetch", letter |-> @.letter, uids |-> Tail(@.uids)]]
    /\ UNCHANGED <<mail, rules, drafts, post, cursor, edits, retries, rerouted, refused, ordered>>

\* _save_state, with the poll's own view of the file.
SaveCursor(p) ==
    /\ actor[p].pc = "save"
    /\ cursor' = NextUid(p)
    /\ actor' = [actor EXCEPT ![p] = [pc |-> "fetch", letter |-> @.letter, uids |-> Tail(@.uids)]]
    /\ UNCHANGED <<mail, rules, drafts, post, MailBounds, mailHistory>>

PollEnds(p) ==
    /\ actor[p].pc = "fetch"
    /\ actor[p].uids = <<>>
    /\ actor' = [actor EXCEPT ![p] = Rested]
    /\ UNCHANGED <<mail, rules, drafts, post, cursor, MailBounds, mailHistory>>

-----------------------------------------------------------------------------
(* ingest *)

Handled(a) == actor' = [actor EXCEPT ![a].pc = IF a \in Hooks THEN "answer" ELSE "save"]

\* Duplicate, too large, nobody's: all before anything is written.
Look(a) ==
    LET l == actor[a].letter IN
    /\ actor[a].pc = "look"
    /\ IF mail[Letter[l].mid].status # "absent" THEN Handled(a) /\ UNCHANGED refused
       ELSE IF Turned(l) THEN Handled(a) /\ refused' = refused \cup {l}
       ELSE actor' = [actor EXCEPT ![a].pc = "land"] /\ UNCHANGED refused
    /\ UNCHANGED <<mail, rules, drafts, post, cursor, MailBounds, rerouted, unfetched, ordered>>

\* The row, its attachments and its routing.
Landed(l, clamd) ==
    LET atts == Kept(l, clamd)
        result == IF Held(l) THEN [status |-> "quarantined", draft |-> FALSE] ELSE RouteResult(l, atts)
    IN  [status |-> result.status, letter |-> l, atts |-> atts, draft |-> result.draft]

\* The INSERT loses against a row that was committed meanwhile.
Land(a, clamd) ==
    LET l == actor[a].letter
        m == Letter[l].mid
    IN  /\ actor[a].pc = "land"
        /\ IF mail[m].status # "absent" THEN UNCHANGED <<mail, drafts>>
           ELSE /\ mail' = [mail EXCEPT ![m] = Landed(l, clamd)]
                /\ drafts' = [drafts EXCEPT ![m] = IF Landed(l, clamd).draft THEN @ + 1 ELSE @]
        /\ Handled(a)
        /\ UNCHANGED <<rules, post, cursor, MailBounds, mailHistory>>

\* A request or a poll dies, or raises what nobody catches: nothing of it is
\* answered or saved.
MailActorDies(a) ==
    /\ actor[a].pc # "idle"
    /\ mailFaults < MaxMailFaults
    /\ mailFaults' = mailFaults + 1
    /\ actor' = [actor EXCEPT ![a] = Rested]
    /\ UNCHANGED <<mail, rules, drafts, post, cursor, edits, retries, mailHistory>>

-----------------------------------------------------------------------------
(* Operators *)

\* POST /inbound/{id}/retry and the task of the same effect: routed again by
\* the rules of the day.
RetryRouting(m) ==
    LET result == RouteResult(mail[m].letter, mail[m].atts) IN
    /\ mail[m].status # "absent"
    /\ retries < MaxRetries
    /\ retries' = retries + 1
    /\ mail' = [mail EXCEPT ![m] = [status |-> result.status, letter |-> @.letter, atts |-> @.atts,
                                    draft |-> result.draft]]
    /\ drafts' = [drafts EXCEPT ![m] = IF result.draft THEN @ + 1 ELSE @]
    /\ rerouted' = [rerouted EXCEPT ![m] = @ + 1]
    /\ UNCHANGED <<rules, post, cursor, actor, edits, mailFaults, refused, unfetched, ordered>>

Quarantine(m) ==
    /\ mail[m].status # "absent"
    /\ retries < MaxRetries
    /\ retries' = retries + 1
    /\ mail' = [mail EXCEPT ![m].status = "quarantined"]
    /\ UNCHANGED <<rules, drafts, post, cursor, actor, edits, mailFaults, mailHistory>>

Edited == edits < MaxEdits /\ edits' = edits + 1

CreateRule(r, prio, active) ==
    /\ rules[r] = NoRule
    /\ \A o \in Rules : o < r => rules[o] # NoRule
    /\ Edited
    /\ rules' = [rules EXCEPT ![r] = [prio |-> prio, active |-> active, action |-> RuleDef[r].action]]
    /\ ordered' = {}
    /\ UNCHANGED <<mail, drafts, post, cursor, actor, retries, mailFaults, rerouted, refused, unfetched>>

\* Any field but the matchers, which RuleDef fixes.
UpdateRule(r, field, value) ==
    /\ rules[r] # NoRule
    /\ Edited
    /\ rules' = [rules EXCEPT ![r][field] = value]
    /\ ordered' = {}
    /\ UNCHANGED <<mail, drafts, post, cursor, actor, retries, mailFaults, rerouted, refused, unfetched>>

\* A deleted rule leaves the others as they are.
DeleteRule(r) ==
    /\ rules[r] # NoRule
    /\ Edited
    /\ rules' = [rules EXCEPT ![r] = NoRule]
    /\ ordered' = {pair \in ordered : r \notin {pair[1], pair[2]}}
    /\ UNCHANGED <<mail, drafts, post, cursor, actor, retries, mailFaults, rerouted, refused, unfetched>>

\* The rules listed are renumbered 10, 20, ...; a repeated or unknown id
\* refuses the request.
ReorderRules(order) ==
    /\ \A i \in DOMAIN order : rules[order[i]] # NoRule
    /\ Edited
    /\ rules' = [r \in Rules |->
                   IF \E i \in DOMAIN order : order[i] = r
                   THEN [rules[r] EXCEPT !.prio = 10 * (CHOOSE i \in DOMAIN order : order[i] = r)]
                   ELSE rules[r]]
    /\ ordered' = {pair \in Rules \X Rules :
                     \E i, k \in DOMAIN order : i < k /\ pair = <<order[i], order[k]>>}
    /\ UNCHANGED <<mail, drafts, post, cursor, actor, retries, mailFaults, rerouted, refused, unfetched>>

Orders == {s \in SeqOf(Rules, Cardinality(Rules)) : s # <<>> /\ IsInjective(s)}

-----------------------------------------------------------------------------
MailWorks(a) ==
    \/ Look(a) \/ \E clamd \in Clamd : Land(a, clamd)
    \/ a \in Hooks /\ PostmarkAnswered(a)
    \/ a \in Pollers /\ (Fetch(a) \/ SaveCursor(a) \/ PollEnds(a))

Deliveries ==
    \/ \E a \in MailActors : MailWorks(a) \/ MailActorDies(a)
    \/ \E h \in Hooks, l \in Letters : PostmarkSends(h, l)
    \/ \E p \in Pollers : PollStarts(p) \/ FetchFails(p)
    \/ \E m \in MessageIds : RetryRouting(m) \/ Quarantine(m)

RuleEdits ==
    \/ \E r \in Rules :
          \/ DeleteRule(r)
          \/ \E prio \in Priorities, active \in BOOLEAN : CreateRule(r, prio, active)
          \/ \E patch \in Patches : UpdateRule(r, patch[1], patch[2])
    \/ \E order \in Orders : ReorderRules(order)

MailNext == Deliveries \/ RuleEdits
MailSpec == MailInit /\ [][MailNext]_mailVars

-----------------------------------------------------------------------------
(* Properties *)

Accounted(l) == mail[Letter[l].mid].status # "absent" \/ l \in refused

\* What Postmark was told is taken, and what the cursor has passed, is stored
\* under its Message-ID or was turned down, whichever way requests, polls and
\* crashes interleave; the one way to lose a letter is a fetch that failed.
AckedIsStored ==
    /\ \A l \in Letters : post[l] = "answered" => Accounted(l)
    /\ \A u \in Uids : u <= cursor => Accounted(Mailbox[u]) \/ u \in unfetched

\* Deliveries, polls and races make one draft of a Message-ID at most; only an
\* operator's retry makes another.
OneDraftPerRouting == \A m \in MessageIds : drafts[m] <= 1 + rerouted[m]

\* Spam becomes a draft only when an operator routes it.
SpamHeld ==
    \A m \in MessageIds :
        mail[m].status # "absent" /\ ScoreSpam(mail[m].letter) >= 18 => drafts[m] <= rerouted[m]

\* After a reorder, and while no rule is edited, no letter takes a rule when a
\* rule listed before it is active and matches.
ReorderRespected ==
    \A l \in Letters : \A pair \in ordered :
        pair[1] \in Matching(l, {}) => pair[2] \notin SelectRule(l, {})

\* With a daemon that answers, fails or is gone, no infected attachment is
\* stored while the gate is set to fail closed.
NoInfectedAttachment ==
    AvFailClosed /\ AvBackend = "clamd" =>
        \A m \in MessageIds : \A a \in mail[m].atts : a.bytes \notin {"virus", "eicar"}

\* The routers' base class: "re-running a router for the same email MUST NOT
\* create duplicate domain rows".
RouterIdempotent == \A m \in MessageIds : drafts[m] <= 1

\* A letter that was taken is stored once and becomes at most one draft, by
\* the rules in their order, and nothing harmful gets through, whichever way
\* it came and whatever overlapped (ingest, poll_once, enforce_clean).
MailSound ==
    /\ InboundTypeOK
    /\ AckedIsStored
    /\ OneDraftPerRouting
    /\ SpamHeld
    /\ ReorderRespected
    /\ NoInfectedAttachment
=============================================================================
