---------------------------- MODULE MCIntake --------------------------------
(* Imports and inbound email for TLC: files, letters, spellings and bounds. *)
(* A behaviour explores one of the parts.                                   *)
EXTENDS ImportJobs, InboundEmail

VARIABLE part

intakeVars == <<importVars, mailVars, part>>

Spellings == [dashed1 |-> "f1", plain1 |-> "f1", dashed2 |-> "f2", plain3 |-> "f3"]
States == [tx |-> "TX", TX |-> "TX"]

NoMapping == [h \in {} |-> ""]
TaxMapping == [taxno |-> "fein"]
File(lines, mapping) ==
    [ext |-> "csv", tooLarge |-> FALSE, bytes |-> "plain", broken |-> 0,
     header |-> <<"company", "taxno", "", "state", "email">>, lines |-> lines, mapping |-> mapping]

\* A repeated FEIN in two spellings, then two more rows: two chunks, the last
\* of them short.
Mixed == File(<<<<"a", "dashed1", "x", "tx", "">>, <<"b", "plain1", "", "TX">>, <<"", "">>,
                <<"c", "dashed2", "", "tx">>, <<"d", "plain3", "", "tx", "e@x">>>>, TaxMapping)
\* One row of a FEIN that Mixed has too.
Single == File(<<<<"e", "plain1", "", "tx">>>>, TaxMapping)
\* Rows with several errors each.
Faulty == File(<<<<"", "odd", "", "zz">>, <<"b">>, <<"d", "plain3", "", "tx">>>>, TaxMapping)
Unmapped == File(<<<<"a", "dashed1", "", "tx">>>>, NoMapping)
TooLong == File([i \in 1 .. 6 |-> <<"a", "dashed2", "", "tx">>], TaxMapping)
Broken == [File(<<<<"", "dashed1", "", "tx">>, <<"a", "dashed2", "", "tx">>>>, TaxMapping)
              EXCEPT !.broken = 2]
Empty == File(<<>>, [company |-> "name", taxno |-> "fein", state |-> "state"])
Infected == [Mixed EXCEPT !.bytes = "virus"]

MCContent == [mixed |-> Mixed, single |-> Single, faulty |-> Faulty, unmapped |-> Unmapped,
              long |-> TooLong, broken |-> Broken, empty |-> Empty, infected |-> Infected]
MCOffers == [file : {"single"}, dup : {"skip", "update"}] \cup
            [file : {"mixed", "faulty", "unmapped", "long", "broken", "empty", "infected"},
             dup : {"error"}]

-----------------------------------------------------------------------------
Plain(mid, via) ==
    [mid |-> mid, via |-> via, secret |-> "s", slug |-> "acme", token |-> "t", size |-> 1,
     spam |-> [hits |-> 0, caps |-> FALSE, numeric |-> FALSE, flag |-> FALSE],
     from |-> "a@x", domain |-> "x", named |-> via = "imap", subjects |-> {"coi"}, tag |-> "none",
     atts |-> <<[ext |-> "pdf", bytes |-> "doc", size |-> 1], [ext |-> "txt", bytes |-> "doc", size |-> 1]>>]
\* Reaches the spam threshold exactly: three keywords, capitals, digits.
Junk == [Plain("m2", "imap") EXCEPT
            !.spam = [hits |-> 3, caps |-> TRUE, numeric |-> TRUE, flag |-> FALSE],
            !.atts = <<[ext |-> "exe", bytes |-> "doc", size |-> 1], [ext |-> "pdf", bytes |-> "virus", size |-> 1]>>]
Large == [Plain("m3", "postmark") EXCEPT !.size = 4]
MCLetter == [hook |-> Plain("m1", "postmark"), copy |-> Plain("m1", "imap"), junk |-> Junk,
             large |-> Large]
MCMailbox == <<"copy", "junk">>
MCTenant == [acme |-> [active |-> TRUE, token |-> "t",
                       suppliers |-> {[id |-> "s1", email |-> "b@x", domain |-> "x"]}]]
MCRuleDef == <<[domain |-> "none", subject |-> "coi", kind |-> "none", action |-> "create_submission"],
               [domain |-> "x", subject |-> "none", kind |-> "none", action |-> "quarantine"]>>
NoRules == [r \in DOMAIN MCRuleDef |-> NoRule]
TwoRules == [r \in DOMAIN MCRuleDef |->
               [prio |-> 30 - 10 * r, active |-> r = 1, action |-> MCRuleDef[r].action]]
MCFirstRules == {NoRules, TwoRules}
MCPatches == {<<"prio", 5>>, <<"active", FALSE>>, <<"action", "discard">>}

-----------------------------------------------------------------------------
IntakeInit ==
    /\ ImportInit /\ MailInit /\ part \in {"imports", "mail", "rules"}
    /\ rules = IF part = "mail" THEN TwoRules ELSE NoRules
IntakeNext ==
    /\ UNCHANGED part
    /\ \/ part = "imports" /\ ImportNext /\ UNCHANGED mailVars
       \/ part = "mail" /\ Deliveries /\ UNCHANGED importVars
       \/ part = "rules" /\ RuleEdits /\ UNCHANGED importVars
IntakeSpec ==
    /\ IntakeInit /\ [][IntakeNext]_intakeVars
    /\ \A r \in ImportRequests : WF_importVars(part = "imports" /\ Works(r))
=============================================================================
