---------------------------- MODULE PortalSession ----------------------------
(***************************************************************************)
(* One attempt of a Playwright submitter to file an application with a     *)
(* carrier portal: validation, browser, login, form, click, confirmation,  *)
(* screenshot and teardown (PlaywrightSubmitter._run_sync_pipeline and the *)
(* five registered subclasses).                                            *)
(*                                                                         *)
(* The portal is external and may show anything at each page: a captcha,   *)
(* another page than expected, a form without a label, a page that never   *)
(* comes to rest.  A page is a record of what the code looks at; what is   *)
(* not looked at may be anything.                                          *)
(*                                                                         *)
(* base.py imports three helper modules from app.automation, and they are  *)
(* in app.automation.submitters: as the tree stands every attempt ends at  *)
(* that import.  HelpersFound says which cases are considered; the rest of *)
(* the module is the attempt of a build in which the import succeeds.      *)
(***************************************************************************)
EXTENDS Naturals, Sequences

CONSTANTS
    Portals,     \* platforms attempted: a subset of DOMAIN Submitter
    Oddities,    \* kinds of value one field of the payload may have
    HelpersFound \* whether the imports of base.py succeed: a subset of BOOLEAN

\* The kinds of value the code distinguishes: no key, "", blanks, an empty
\* list, a list of one empty string, a usable one, and one that str() takes
\* but int() or join() does not.
ValueKinds == {"none", "empty", "blank", "nolist", "hollow", "text", "bad"}

ASSUME PortalAssumption == Oddities \subseteq ValueKinds /\ HelpersFound \subseteq BOOLEAN

-----------------------------------------------------------------------------
(* The submitters: the required fields, all fields in the order they are   *)
(* typed, the one computed with int() and the one joined from a list.      *)

AmTrust ==
    [required |-> {"named_insured", "fein", "effective_date", "premium_cents", "line_of_business"},
     fills |-> <<"named_insured", "fein", "effective_date", "line_of_business", "premium_cents",
                 "producer_code", "state">>,
     priced |-> {"premium_cents"}, joined |-> {}]

Markel ==
    [required |-> {"named_insured", "fein", "effective_date", "premium_cents", "line_of_business",
                   "target_states"},
     fills |-> <<"named_insured", "fein", "effective_date", "line_of_business", "premium_cents",
                 "target_states", "agency_code">>,
     priced |-> {"premium_cents"}, joined |-> {"target_states"}]

AppliedEpic ==
    [required |-> {"named_insured", "account_number", "fein", "effective_date", "premium_cents",
                   "line_of_business"},
     fills |-> <<"named_insured", "account_number", "fein", "effective_date", "line_of_business",
                 "premium_cents", "producer">>,
     priced |-> {"premium_cents"}, joined |-> {}]

VertaforeAMS360 ==
    [required |-> {"named_insured", "fein", "ams360_agency_code", "effective_date", "premium_cents",
                   "line_of_business"},
     fills |-> <<"named_insured", "fein", "ams360_agency_code", "effective_date",
                 "line_of_business", "premium_cents">>,
     priced |-> {"premium_cents"}, joined |-> {}]

Sircon ==
    [required |-> {"legal_name", "ein", "npn", "license_states"},
     fills |-> <<"legal_name", "ein", "npn", "license_states", "agency_name">>,
     priced |-> {}, joined |-> {"license_states"}]

\* SUBMITTER_REGISTRY.
Submitter ==
    [amtrust |-> AmTrust, markel |-> Markel, applied_epic |-> AppliedEpic,
     vertafore_ams360 |-> VertaforeAMS360, vertafore_sircon |-> Sircon]

Fields(portal) == {Submitter[portal].fills[i] : i \in DOMAIN Submitter[portal].fills}

Payloads(portal) ==
    LET usual == [f \in Fields(portal) |-> "text"] IN
    {usual} \cup {[usual EXCEPT ![f] = kind] : f \in Fields(portal), kind \in Oddities}

-----------------------------------------------------------------------------
VARIABLES
    portal,      \* the platform of this attempt
    payload,     \* what the submission asks to file
    stage,       \* where the attempt is
    browser,     \* whether the attempt holds a browser, what is up, which closers failed
    typed,       \* fields whose value stands in its input on the form
    filed,       \* the portal has taken the form
    shots,       \* labels of the screenshots saved
    raised,      \* the exception being handled
    result,      \* what submit() returned or raised
    challenged   \* the page that showed a captcha

portalVars == <<portal, payload, stage, browser, typed, filed, shots, raised, result, challenged>>

\* What is up, each with the closer of its own, and what a closer takes down:
\* Chromium its contexts, and Playwright's driver whatever it has launched.
Closers == {"context", "browser", "playwright"}
Closes(closer) ==
    CASE closer = "context" -> {"context"}
      [] closer = "browser" -> {"context", "browser"}
      [] OTHER -> Closers

Stages == {"start", "fields", "resolve", "launch", "login", "navigate", "fill", "click", "confirm",
           "screenshot", "unwind", "teardown", "ended"}
Typed == {"captcha", "auth", "validation", "timeout", "drift"}
Untyped == {"pw_timeout", "other"}
Errors == Typed \cup {"network"}

PortalTypeOK ==
    /\ portal \in Portals
    /\ payload \in [Fields(portal) -> ValueKinds]
    /\ stage \in Stages
    /\ browser \in [held: BOOLEAN, up: SUBSET Closers, stuck: SUBSET Closers]
    /\ typed \subseteq Fields(portal)
    /\ filed \in BOOLEAN
    /\ shots \subseteq {"confirmation", "failure", "unhandled"}
    /\ raised \in Errors \cup Untyped \cup {"none"}
    /\ result \in Errors \cup {"none", "success", "import"}
    /\ challenged \in {"nowhere", "login", "form", "confirmation"}

PortalInit ==
    /\ portal \in Portals
    /\ payload \in Payloads(portal)
    /\ stage = "start"
    /\ browser = [held |-> FALSE, up |-> {}, stuck |-> {}]
    /\ typed = {} /\ filed = FALSE /\ shots = {}
    /\ raised = "none" /\ result = "none" /\ challenged = "nowhere"

Ended(r) == stage' = "ended" /\ result' = r

-----------------------------------------------------------------------------
(* Before the browser: exceptions leave _run_sync_pipeline as they are *)

\* The imports at the head of _run_sync_pipeline: a ModuleNotFoundError.
ImportHelpers(found) ==
    /\ stage = "start"
    /\ IF found THEN stage' = "fields" /\ UNCHANGED result ELSE Ended("import")
    /\ UNCHANGED <<portal, payload, browser, typed, filed, shots, raised, challenged>>

\* require_fields.
RequireFields ==
    /\ stage = "fields"
    /\ IF \E f \in Submitter[portal].required : payload[f] \in {"none", "empty", "blank", "nolist"}
       THEN Ended("validation")
       ELSE stage' = "resolve" /\ UNCHANGED result
    /\ UNCHANGED <<portal, payload, browser, typed, filed, shots, raised, challenged>>

\* _resolve_url and then _resolve_credentials.
Resolve(hasUrl, hasCredentials) ==
    /\ stage = "resolve"
    /\ IF hasUrl /\ hasCredentials
       THEN stage' = "launch" /\ UNCHANGED result
       ELSE Ended(IF hasUrl THEN "auth" ELSE "validation")
    /\ UNCHANGED <<portal, payload, browser, typed, filed, shots, raised, challenged>>

-----------------------------------------------------------------------------
(* The browser's steps: e is what the step raises, "none" if nothing *)

Proceed(e, next) ==
    /\ stage' = IF e = "none" THEN next ELSE "unwind"
    /\ raised' = e
    /\ UNCHANGED <<portal, payload, result>>

LaunchBrowser ==
    /\ stage = "launch"
    /\ Proceed("none", "login")
    /\ browser' = [held |-> TRUE, up |-> Closers, stuck |-> {}]
    /\ UNCHANGED <<typed, filed, shots, challenged>>

\* How far _launch_browser may come before something fails.
PartlyUp == {{}, {"playwright"}, {"playwright", "browser"}, Closers}

\* Once Playwright has started its own stop cleans up; when that raises too its
\* exception takes the place of the first.  The attempt holds no browser.
LaunchFails(e, up, stops) ==
    /\ stage = "launch"
    /\ stops \/ up # {}
    /\ Proceed(IF stops THEN e ELSE "other", "login")
    /\ browser' = [held |-> FALSE, up |-> IF stops THEN {} ELSE up,
                   stuck |-> IF stops THEN {} ELSE {"playwright"}]
    /\ UNCHANGED <<typed, filed, shots, challenged>>

\* detect_captcha knows the elements and the scripts of three vendors.
Captchas == {"no", "element", "script"}
DetectCaptcha(page) == page.captcha # "no"

\* detect_auth_wall with the path fragment every submitter expects.
AuthWall(url) == url # "dashboard"

LoginPages == [loads: {"none", "pw_timeout", "other"}, captcha: Captchas, form: BOOLEAN,
               button: BOOLEAN, rests: BOOLEAN, url: {"dashboard", "login", "elsewhere"}]

\* _login.
LoginError(page) ==
    IF page.loads # "none" THEN page.loads
    ELSE IF DetectCaptcha(page) THEN "captcha"
    ELSE IF ~page.form THEN "auth"
    ELSE IF ~page.button THEN "pw_timeout"
    ELSE IF ~page.rests THEN "timeout"
    ELSE IF AuthWall(page.url) THEN "auth" ELSE "none"

PortalLogin(page) ==
    /\ stage = "login"
    /\ Proceed(LoginError(page), "navigate")
    /\ challenged' = IF page.loads = "none" /\ page.captcha # "no" THEN "login" ELSE challenged
    /\ UNCHANGED <<browser, typed, filed, shots>>

FormPages == [link: BOOLEAN, rests: BOOLEAN, captcha: Captchas]

\* _navigate_to_new_submission.
NavigateError(page) ==
    IF ~page.link THEN "drift"
    ELSE IF ~page.rests THEN "timeout"
    ELSE IF DetectCaptcha(page) THEN "captcha" ELSE "none"

Navigate(page) ==
    /\ stage = "navigate"
    /\ Proceed(NavigateError(page), "fill")
    /\ challenged' = IF page.captcha # "no" THEN "form" ELSE challenged
    /\ UNCHANGED <<browser, typed, filed, shots>>

-----------------------------------------------------------------------------
(* The form *)

\* What fill_by_label finds for a label: the input by its label or through
\* the label's "for"; no label, no "for"; an id or an option that is not
\* there, for which Playwright waits in vain; an element without handle.
LabelKinds == {"label", "for", "unlabelled", "dangling", "detached", "nohandle"}
FillByLabel(kind) ==
    CASE kind \in {"label", "for"} -> "none"
      [] kind = "detached" -> "pw_timeout"
      [] OTHER -> "drift"

\* The field is in the list of fills and its text is not empty.
Given(f) ==
    /\ payload[f] \in {"blank", "hollow", "text", "bad"}
    /\ payload[f] = "hollow" => f \notin Submitter[portal].joined

\* The fills _fill_form has still to make.
Remaining ==
    LET fills == Submitter[portal].fills IN
    {i \in DOMAIN fills : Given(fills[i]) /\ fills[i] \notin typed}

\* The texts are put together before the first is typed: int() of a premium
\* that is no number, or join() of a list of something else, raises.
Unwritable ==
    \/ \E f \in Submitter[portal].priced : payload[f] \in {"bad", "hollow"}
    \/ \E f \in Submitter[portal].joined : payload[f] = "bad"

\* _fill_form, one field at a time, in the order of the fills.
Fill(kind) ==
    /\ stage = "fill"
    /\ ~Unwritable
    /\ \E i \in Remaining :
         /\ \A j \in Remaining : i <= j
         /\ typed' = IF FillByLabel(kind) = "none"
                     THEN typed \cup {Submitter[portal].fills[i]} ELSE typed
    /\ Proceed(FillByLabel(kind), "fill")
    /\ UNCHANGED <<browser, filed, shots, challenged>>

WriteFails ==
    /\ stage = "fill"
    /\ Unwritable
    /\ Proceed("other", "fill")
    /\ UNCHANGED <<browser, typed, filed, shots, challenged>>

\* All is typed; _attach_files does nothing in every submitter.
FormFilled ==
    /\ stage = "fill"
    /\ Remaining = {}
    /\ Proceed("none", "click")
    /\ UNCHANGED <<browser, typed, filed, shots, challenged>>

\* The click of _submit_and_capture: no button to click, or the portal takes
\* the form or refuses it.
Click(hasButton, takes) ==
    /\ stage = "click"
    /\ Proceed(IF hasButton THEN "none" ELSE "pw_timeout", "confirm")
    /\ filed' = (hasButton /\ takes)
    /\ UNCHANGED <<browser, typed, shots, challenged>>

\* A portal that did not take the form shows no reference in its place.
ConfirmationPages ==
    {page \in [rests: BOOLEAN, captcha: Captchas, reference: {"none", "malformed", "good"}] :
        page.reference = "good" => filed}

\* Mutant: whatever stands where the reference should be is taken for it.
ConfirmUnmatched(page) ==
    IF ~page.rests THEN "timeout"
    ELSE IF DetectCaptcha(page) THEN "captcha"
    ELSE IF page.reference = "none" THEN "drift" ELSE "none"

\* The rest of _submit_and_capture.
ConfirmError(page) ==
    IF ~page.rests THEN "timeout"
    ELSE IF DetectCaptcha(page) THEN "captcha"
    ELSE IF page.reference = "none" THEN "drift"
    ELSE IF page.reference = "malformed" THEN "validation" ELSE "none"

PortalConfirm(page) ==
    /\ stage = "confirm"
    /\ Proceed(ConfirmError(page), "screenshot")
    /\ challenged' = IF page.captcha # "no" THEN "confirmation" ELSE challenged
    /\ UNCHANGED <<browser, typed, filed, shots>>

-----------------------------------------------------------------------------
(* The end of the attempt *)

\* _capture_screenshot of the confirmation: when the page or the store fails
\* the exception is handled like any other.
Capture(saved) ==
    /\ stage = "screenshot"
    /\ IF saved
       THEN /\ shots' = shots \cup {"confirmation"}
            /\ stage' = "teardown"
            /\ result' = "success"
            /\ UNCHANGED raised
       ELSE stage' = "unwind" /\ raised' = "other" /\ UNCHANGED <<shots, result>>
    /\ UNCHANGED <<portal, payload, browser, typed, filed, challenged>>

\* Typed errors are raised again as they are; Playwright's timeouts become
\* PortalTimeoutError and everything else PortalNetworkError.
Wrapped(e) ==
    CASE e = "pw_timeout" -> "timeout"
      [] e = "other" -> "network"
      [] OTHER -> e

\* The except branches of _run_sync_pipeline with _safe_capture_screenshot.
Unwind(saved) ==
    /\ stage = "unwind"
    /\ shots' = IF saved /\ browser.held
                THEN shots \cup {IF raised \in Typed THEN "failure" ELSE "unhandled"}
                ELSE shots
    /\ result' = Wrapped(raised)
    /\ stage' = IF browser.held THEN "teardown" ELSE "ended"
    /\ UNCHANGED <<portal, payload, browser, typed, filed, raised, challenged>>

\* What is still up when the closers that ran without an exception are done.
LeftBy(closers) == {part \in browser.up : \A c \in closers : part \notin Closes(c)}

\* Mutant: one try around all three closers.
TeardownOneTry(failing) ==
    LET first == {c \in failing : \A d \in failing : Closes(c) \subseteq Closes(d)} IN
    /\ stage = "teardown"
    /\ browser' = [held |-> browser.held, stuck |-> first,
                   up |-> LeftBy({c \in Closers : \A d \in first : Closes(c) # Closes(d) /\ Closes(c) \subseteq Closes(d)})]
    /\ stage' = "ended"
    /\ UNCHANGED <<portal, payload, typed, filed, shots, raised, result, challenged>>

\* _teardown_browser: context, browser, Playwright; a closer that fails leaves
\* what it should have closed and does not keep the next from running.
Teardown(failing) ==
    /\ stage = "teardown"
    /\ browser' = [held |-> browser.held, stuck |-> failing, up |-> LeftBy(Closers \ failing)]
    /\ stage' = "ended"
    /\ UNCHANGED <<portal, payload, typed, filed, shots, raised, result, challenged>>

-----------------------------------------------------------------------------
PortalNext ==
    \/ \E found \in HelpersFound : ImportHelpers(found)
    \/ RequireFields
    \/ \E a, b \in BOOLEAN : Resolve(a, b) \/ Click(a, b)
    \/ LaunchBrowser
    \/ \E e \in Untyped, up \in PartlyUp, stops \in BOOLEAN : LaunchFails(e, up, stops)
    \/ \E page \in LoginPages : PortalLogin(page)
    \/ \E page \in FormPages : Navigate(page)
    \/ \E kind \in LabelKinds : Fill(kind)
    \/ WriteFails
    \/ FormFilled
    \/ \E page \in ConfirmationPages : PortalConfirm(page)
    \/ \E saved \in BOOLEAN : Capture(saved) \/ Unwind(saved)
    \/ \E failing \in SUBSET Closers : Teardown(failing)

PortalSpec == PortalInit /\ [][PortalNext]_portalVars

-----------------------------------------------------------------------------
(* Properties *)

\* The form the portal takes holds what the submission asks for: every
\* required field, and every optional one the payload has (_fill_form stops
\* at the first label that is not there).  A list of one empty string passes
\* require_fields and leaves its field untyped.
FiledAsAsked ==
    filed => \A f \in Fields(portal) :
               \/ f \in typed
               \/ payload[f] = "hollow"
               \/ f \notin Submitter[portal].required /\ payload[f] \in {"none", "empty", "nolist"}

\* A success carries its evidence: the portal took the form and the page that
\* says so was saved; and it never hides a captcha (_run_sync_pipeline).
SuccessIsEvidenced ==
    result = "success" => filed /\ "confirmation" \in shots /\ challenged = "nowhere"

\* A captcha met before the form was sent means it was not sent: the login
\* page's ends the attempt as blocked, the form page's ends it somehow.
CaptchaStopsFiling ==
    /\ challenged \in {"login", "form"} => ~filed
    /\ challenged = "login" /\ stage = "ended" => result = "captcha"

\* An attempt leaves nothing running that a working closer could have taken
\* down, whatever was raised on the way and whichever of the other closers fail:
\* all three run when the browser came up, Playwright's stop when it did not.
BrowserReleased ==
    stage = "ended" =>
        \A c \in (IF browser.held THEN Closers ELSE {"playwright"}) \ browser.stuck :
            browser.up \cap Closes(c) = {}

\* _classify_failure's families of the errors a submitter raises.
Family(e) ==
    CASE e = "captcha" -> "captcha"
      [] e \in {"auth", "validation", "import"} -> "permanent"
      [] OTHER -> "transient"

\* The attempt keeps the contract the submission pipeline relies on.
Contract == INSTANCE SubmitterContract WITH
    Families <- {"captcha", "permanent", "transient"},
    phase <- IF result = "success" THEN "sign"
             ELSE IF result # "none" THEN "failing"
             ELSE IF filed THEN "filed" ELSE "submit",
    family <- IF result \notin {"none", "success"} THEN Family(result) ELSE "none"

SubmitterKeepsContract == Contract!Spec

\* One attempt at a portal, whatever the portal shows: it files what was asked
\* for, claims success only with evidence, stops at a captcha and gives its
\* browser back (_run_sync_pipeline).
AttemptSound ==
    /\ PortalTypeOK
    /\ FiledAsAsked
    /\ SuccessIsEvidenced
    /\ CaptchaStopsFiling
    /\ BrowserReleased
=============================================================================
