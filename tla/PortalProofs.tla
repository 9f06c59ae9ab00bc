---------------------------- MODULE PortalProofs -----------------------------
(***************************************************************************)
(* Proofs about PortalSession, its refinement of SubmitterContract, and    *)
(* PortalMonitor, for every portal, every mix of inputs and every number   *)
(* of smoke runs.                                                          *)
(*                                                                         *)
(* Sessions.  What a result may claim depends on how far the session came: *)
(* StageTells ties the stage to what was filled, sent and captured, and    *)
(* CaptchaTold keeps that a page asking for a captcha was answered by      *)
(* stopping.  With both, each step maps to a step of the contract or       *)
(* leaves its state alone.                                                 *)
(*                                                                         *)
(* The monitor.  While no observation was lost, Honest says that the file  *)
(* is what was observed and remembers the last announcement, Announced     *)
(* that the outage going on was announced or a run is about to do it, and  *)
(* Due that an alert about to be sent is the first of its outage or a      *)
(* cooldown after the last one.                                            *)
(***************************************************************************)
EXTENDS PortalSession, PortalMonitor, TLAPS

-----------------------------------------------------------------------------
(* Sessions with a carrier's portal *)

Before == {"start", "fields", "resolve", "launch"}
AtWork == {"login", "navigate", "fill", "click", "confirm", "screenshot"}

\* What require_fields let through.
RequiredGiven ==
    \A f \in Submitter[portal].required : payload[f] \notin {"none", "empty", "blank", "nolist"}

\* What the stage of an attempt says about it.
StageTells ==
    /\ stage \in Before => ~browser.held
    /\ stage \in Before \cup AtWork => result = "none" /\ challenged = "nowhere" /\ raised = "none"
    /\ stage \in (Before \cup AtWork) \ {"confirm", "screenshot"} => ~filed
    /\ stage \in AtWork \cup {"resolve", "launch"} => RequiredGiven
    /\ stage \in {"click", "confirm", "screenshot"} => Remaining = {}
    /\ stage = "screenshot" => filed
    /\ stage = "unwind" => raised # "none" /\ result = "none"
    /\ stage \in {"teardown", "ended"} => result # "none"

\* A captcha at login is what the attempt ends with.
CaptchaTold ==
    /\ challenged \in {"login", "form"} => ~filed
    /\ challenged = "login" => \/ stage = "unwind" /\ raised = "captcha"
                               \/ stage \in {"teardown", "ended"} /\ result = "captcha"

\* Without a browser, only a stop that failed leaves anything up.
StopTells ==
    ~browser.held /\ "playwright" \notin browser.stuck => browser.up = {}

AttemptInv ==
    /\ PortalTypeOK /\ StageTells /\ CaptchaTold /\ StopTells
    /\ FiledAsAsked /\ SuccessIsEvidenced /\ BrowserReleased

LEMMA AttemptStart == PortalInit => AttemptInv
<1> SUFFICES ASSUME PortalInit PROVE AttemptInv
  OBVIOUS
<1>1. payload \in [Fields(portal) -> ValueKinds]
  <2>1. [f \in Fields(portal) |-> "text"] \in [Fields(portal) -> ValueKinds]
    BY DEF ValueKinds
  <2>2. Oddities \subseteq ValueKinds
    BY PortalAssumption
  <2>3. payload \in Payloads(portal)
    BY DEF PortalInit
  <2> QED
    BY <2>1, <2>2, <2>3 DEF Payloads
<1>2. PortalTypeOK
  BY <1>1 DEF PortalInit, PortalTypeOK, Stages, Closers
<1>3. StageTells
  BY DEF PortalInit, StageTells, Before, AtWork
<1>4. CaptchaTold /\ FiledAsAsked /\ SuccessIsEvidenced /\ BrowserReleased /\ StopTells
  BY DEF PortalInit, CaptchaTold, FiledAsAsked, SuccessIsEvidenced, BrowserReleased, StopTells, StopTells
<1> QED
  BY <1>2, <1>3, <1>4 DEF AttemptInv

\* The steps before the browser is launched.
LEMMA PrepareStep ==
  ASSUME AttemptInv,
         \/ \E found \in HelpersFound : ImportHelpers(found)
         \/ RequireFields
         \/ \E a, b \in BOOLEAN : Resolve(a, b)
  PROVE  AttemptInv'
<1>1. /\ stage \in {"start", "fields", "resolve"}
      /\ UNCHANGED <<portal, payload, browser, typed, filed, shots, raised, challenged>>
      /\ \/ stage' \in {"fields", "resolve", "launch"} /\ result' = result
         \/ stage' = "ended" /\ result' \in {"import", "validation", "auth"}
      /\ stage' = "resolve" => RequiredGiven
      /\ stage' = "launch" => stage = "resolve"
  BY DEF ImportHelpers, RequireFields, Resolve, Ended, RequiredGiven
<1>2. PortalTypeOK'
  BY <1>1 DEF AttemptInv, PortalTypeOK, Stages, Errors, Typed
<1>3. RequiredGiven' = RequiredGiven /\ Remaining' = Remaining
  BY <1>1 DEF RequiredGiven, Remaining, Given
<1>4. StageTells'
  BY <1>1, <1>3 DEF AttemptInv, StageTells, Before, AtWork
<1>5. CaptchaTold' /\ FiledAsAsked' /\ SuccessIsEvidenced' /\ BrowserReleased' /\ StopTells'
  BY <1>1 DEF AttemptInv, StageTells, Before, AtWork, CaptchaTold, FiledAsAsked, SuccessIsEvidenced,
     BrowserReleased, StopTells
<1> QED
  BY <1>2, <1>4, <1>5 DEF AttemptInv

\* The errors of the pages are errors the attempt knows.
LEMMA PageErrors ==
  /\ \A page \in LoginPages : LoginError(page) \in Errors \cup Untyped \cup {"none"}
  /\ \A page \in FormPages : NavigateError(page) \in Errors \cup Untyped \cup {"none"}
  /\ \A page : ConfirmError(page) \in Errors \cup Untyped \cup {"none"}
  /\ \A kind : FillByLabel(kind) \in Errors \cup Untyped \cup {"none"}
  BY DEF LoginPages, FormPages, LoginError, NavigateError, ConfirmError, FillByLabel, Errors, Typed,
     Untyped, DetectCaptcha, AuthWall

\* A browser that comes up is held; one that does not was stopped, or its stop
\* is among what failed.
LEMMA LaunchStep ==
  ASSUME AttemptInv,
         \/ LaunchBrowser
         \/ \E e \in Untyped, up \in PartlyUp, stops \in BOOLEAN : LaunchFails(e, up, stops)
  PROVE  AttemptInv'
<1>1. /\ stage = "launch"
      /\ \/ stage' = "login" /\ raised' = "none"
         \/ stage' = "unwind" /\ raised' \in Untyped
      /\ UNCHANGED <<portal, payload, result, typed, filed, shots, challenged>>
  BY DEF LaunchBrowser, LaunchFails, Proceed, Untyped
<1>2. browser' \in [held: BOOLEAN, up: SUBSET Closers, stuck: SUBSET Closers] /\ StopTells'
  <2>1. CASE LaunchBrowser
    BY <2>1 DEF LaunchBrowser, StopTells, Closers
  <2>2. ASSUME NEW e \in Untyped, NEW up \in PartlyUp, NEW stops \in BOOLEAN, LaunchFails(e, up, stops)
        PROVE  browser' \in [held: BOOLEAN, up: SUBSET Closers, stuck: SUBSET Closers] /\ StopTells'
    BY <2>2 DEF LaunchFails, StopTells, PartlyUp, Closers
  <2> QED
    BY <2>1, <2>2
<1>3. PortalTypeOK'
  BY <1>1, <1>2 DEF AttemptInv, PortalTypeOK, Stages, Untyped
<1>4. RequiredGiven' = RequiredGiven /\ Remaining' = Remaining
  BY <1>1 DEF RequiredGiven, Remaining, Given
<1>5. StageTells'
  BY <1>1, <1>4 DEF AttemptInv, StageTells, Before, AtWork, Untyped
<1>6. CaptchaTold' /\ FiledAsAsked' /\ SuccessIsEvidenced' /\ BrowserReleased'
  BY <1>1 DEF AttemptInv, StageTells, Before, AtWork, CaptchaTold, FiledAsAsked, SuccessIsEvidenced,
     BrowserReleased
<1> QED
  BY <1>2, <1>3, <1>5, <1>6 DEF AttemptInv

LEMMA PortalLoginStep ==
  ASSUME AttemptInv, NEW page \in LoginPages, PortalLogin(page)
  PROVE  AttemptInv'
<1> DEFINE e == LoginError(page)
<1>1. /\ stage = "login" /\ raised' = e
      /\ stage' = IF e = "none" THEN "navigate" ELSE "unwind"
      /\ challenged' = IF page.loads = "none" /\ page.captcha # "no" THEN "login" ELSE challenged
      /\ UNCHANGED <<portal, payload, result, browser, typed, filed, shots>>
  BY DEF PortalLogin, Proceed
<1>2. page.loads = "none" /\ page.captcha # "no" => e = "captcha"
  BY DEF LoginError, DetectCaptcha
<1>3. PortalTypeOK'
  BY <1>1, PageErrors DEF AttemptInv, PortalTypeOK, Stages
<1>4. RequiredGiven' = RequiredGiven /\ Remaining' = Remaining
  BY <1>1 DEF RequiredGiven, Remaining, Given
<1> HIDE DEF e
<1>5. StageTells'
  BY <1>1, <1>2, <1>4 DEF AttemptInv, StageTells, Before, AtWork
<1>6. CaptchaTold' /\ FiledAsAsked' /\ SuccessIsEvidenced' /\ BrowserReleased' /\ StopTells'
  BY <1>1, <1>2 DEF AttemptInv, StageTells, Before, AtWork, CaptchaTold, FiledAsAsked, SuccessIsEvidenced,
     BrowserReleased, StopTells
<1> QED
  BY <1>3, <1>5, <1>6 DEF AttemptInv

LEMMA NavigateStep ==
  ASSUME AttemptInv, NEW page \in FormPages, Navigate(page)
  PROVE  AttemptInv'
<1> DEFINE e == NavigateError(page)
<1>1. /\ stage = "navigate" /\ raised' = e
      /\ stage' = IF e = "none" THEN "fill" ELSE "unwind"
      /\ challenged' = IF page.captcha # "no" THEN "form" ELSE challenged
      /\ UNCHANGED <<portal, payload, result, browser, typed, filed, shots>>
  BY DEF Navigate, Proceed
<1>2. page.captcha # "no" => e # "none"
  BY DEF NavigateError, DetectCaptcha
<1>3. PortalTypeOK'
  BY <1>1, PageErrors DEF AttemptInv, PortalTypeOK, Stages
<1>4. RequiredGiven' = RequiredGiven /\ Remaining' = Remaining
  BY <1>1 DEF RequiredGiven, Remaining, Given
<1> HIDE DEF e
<1>5. StageTells'
  BY <1>1, <1>2, <1>4 DEF AttemptInv, StageTells, Before, AtWork
<1>6. CaptchaTold' /\ FiledAsAsked' /\ SuccessIsEvidenced' /\ BrowserReleased' /\ StopTells'
  BY <1>1, <1>2 DEF AttemptInv, StageTells, Before, AtWork, CaptchaTold, FiledAsAsked, SuccessIsEvidenced,
     BrowserReleased, StopTells
<1> QED
  BY <1>3, <1>5, <1>6 DEF AttemptInv

\* The form: fields are typed one by one until none remains.
LEMMA FormStep ==
  ASSUME AttemptInv, (\E kind \in LabelKinds : Fill(kind)) \/ WriteFails \/ FormFilled
  PROVE  AttemptInv'
<1>1. PICK e \in Errors \cup Untyped \cup {"none"} :
        /\ stage = "fill" /\ raised' = e
        /\ stage' \in IF e = "none" THEN {"fill", "click"} ELSE {"unwind"}
        /\ stage' = "click" => Remaining = {} /\ typed' = typed
        /\ UNCHANGED <<portal, payload, result, browser, filed, shots, challenged>>
        /\ typed \subseteq typed' /\ typed' \subseteq typed \cup Fields(portal)
  <2>1. ASSUME NEW kind \in LabelKinds, Fill(kind)
        PROVE  \E e \in Errors \cup Untyped \cup {"none"} :
        /\ stage = "fill" /\ raised' = e
        /\ stage' \in IF e = "none" THEN {"fill", "click"} ELSE {"unwind"}
        /\ stage' = "click" => Remaining = {} /\ typed' = typed
        /\ UNCHANGED <<portal, payload, result, browser, filed, shots, challenged>>
        /\ typed \subseteq typed' /\ typed' \subseteq typed \cup Fields(portal)
    <3>1. PICK i \in Remaining :
            typed' = IF FillByLabel(kind) = "none"
                     THEN typed \cup {Submitter[portal].fills[i]} ELSE typed
      BY <2>1 DEF Fill
    <3>2. Submitter[portal].fills[i] \in Fields(portal)
      BY <3>1 DEF Remaining, Fields
    <3>3. /\ stage = "fill" /\ raised' = FillByLabel(kind)
          /\ stage' \in IF FillByLabel(kind) = "none" THEN {"fill", "click"} ELSE {"unwind"}
          /\ stage' = "click" => Remaining = {} /\ typed' = typed
          /\ UNCHANGED <<portal, payload, result, browser, filed, shots, challenged>>
          /\ typed \subseteq typed' /\ typed' \subseteq typed \cup Fields(portal)
      BY <2>1, <3>1, <3>2 DEF Fill, Proceed
    <3> QED
      BY <3>3, PageErrors
  <2>2. ASSUME WriteFails \/ FormFilled
        PROVE  \E e \in {"other", "none"} :
        /\ stage = "fill" /\ raised' = e
        /\ stage' \in IF e = "none" THEN {"fill", "click"} ELSE {"unwind"}
        /\ stage' = "click" => Remaining = {} /\ typed' = typed
        /\ UNCHANGED <<portal, payload, result, browser, filed, shots, challenged>>
        /\ typed \subseteq typed' /\ typed' \subseteq typed \cup Fields(portal)
    BY <2>2 DEF WriteFails, FormFilled, Proceed
  <2>3. {"other", "none"} \subseteq Errors \cup Untyped \cup {"none"}
    BY DEF Untyped
  <2> QED
    BY <2>1, <2>2, <2>3
<1>2. PortalTypeOK'
  BY <1>1 DEF AttemptInv, PortalTypeOK, Stages
<1>3. RequiredGiven' = RequiredGiven /\ (stage' = "click" => Remaining' = {})
  BY <1>1 DEF RequiredGiven, Remaining, Given
<1>4. StageTells'
  BY <1>1, <1>3 DEF AttemptInv, StageTells, Before, AtWork
<1>5. CaptchaTold' /\ FiledAsAsked' /\ SuccessIsEvidenced' /\ BrowserReleased' /\ StopTells'
  BY <1>1 DEF AttemptInv, StageTells, Before, AtWork, CaptchaTold, FiledAsAsked, SuccessIsEvidenced,
     BrowserReleased, StopTells
<1> QED
  BY <1>2, <1>4, <1>5 DEF AttemptInv

\* With nothing remaining to type, what is not typed was not given.
LEMMA ClickStep ==
  ASSUME AttemptInv, NEW hasButton \in BOOLEAN, NEW takes \in BOOLEAN, Click(hasButton, takes)
  PROVE  AttemptInv'
<1>1. /\ stage = "click" /\ raised' = IF hasButton THEN "none" ELSE "pw_timeout"
      /\ stage' = IF hasButton THEN "confirm" ELSE "unwind"
      /\ filed' = (hasButton /\ takes)
      /\ UNCHANGED <<portal, payload, result, browser, typed, shots, challenged>>
  BY DEF Click, Proceed
<1>2. PortalTypeOK'
  BY <1>1 DEF AttemptInv, PortalTypeOK, Stages, Untyped
<1>3. RequiredGiven' = RequiredGiven /\ Remaining' = Remaining
  BY <1>1 DEF RequiredGiven, Remaining, Given
<1>4. StageTells'
  BY <1>1, <1>3 DEF AttemptInv, StageTells, Before, AtWork
<1>5. FiledAsAsked'
  <2> SUFFICES ASSUME NEW f \in Fields(portal), f \notin typed
               PROVE  \/ payload[f] = "hollow"
                      \/ f \notin Submitter[portal].required /\ payload[f] \in {"none", "empty", "nolist"}
    BY <1>1 DEF FiledAsAsked
  <2>1. Remaining = {} /\ RequiredGiven
    BY <1>1 DEF AttemptInv, StageTells, AtWork
  <2>2. PICK i \in DOMAIN Submitter[portal].fills : f = Submitter[portal].fills[i]
    BY DEF Fields
  <2>3. ~Given(f)
    BY <2>1, <2>2 DEF Remaining
  <2>4. payload[f] \in ValueKinds
    BY DEF AttemptInv, PortalTypeOK
  <2> QED
    BY <2>1, <2>3, <2>4 DEF Given, RequiredGiven, ValueKinds
<1>6. CaptchaTold' /\ SuccessIsEvidenced' /\ BrowserReleased' /\ StopTells'
  BY <1>1 DEF AttemptInv, StageTells, Before, AtWork, CaptchaTold, SuccessIsEvidenced,
     BrowserReleased, StopTells
<1> QED
  BY <1>2, <1>4, <1>5, <1>6 DEF AttemptInv

LEMMA PortalConfirmStep ==
  ASSUME AttemptInv, NEW page \in ConfirmationPages, PortalConfirm(page)
  PROVE  AttemptInv'
<1> DEFINE e == ConfirmError(page)
<1>1. /\ stage = "confirm" /\ raised' = e
      /\ stage' = IF e = "none" THEN "screenshot" ELSE "unwind"
      /\ challenged' = IF page.captcha # "no" THEN "confirmation" ELSE challenged
      /\ UNCHANGED <<portal, payload, result, browser, typed, filed, shots>>
  BY DEF PortalConfirm, Proceed
<1>2. /\ e = "none" => filed /\ page.captcha = "no"
  BY DEF ConfirmError, DetectCaptcha, ConfirmationPages
<1>3. PortalTypeOK'
  BY <1>1, PageErrors DEF AttemptInv, PortalTypeOK, Stages
<1>4. RequiredGiven' = RequiredGiven /\ Remaining' = Remaining
  BY <1>1 DEF RequiredGiven, Remaining, Given
<1> HIDE DEF e
<1>5. StageTells'
  BY <1>1, <1>2, <1>4 DEF AttemptInv, StageTells, Before, AtWork
<1>6. CaptchaTold' /\ FiledAsAsked' /\ SuccessIsEvidenced' /\ BrowserReleased' /\ StopTells'
  BY <1>1, <1>2 DEF AttemptInv, StageTells, Before, AtWork, CaptchaTold, FiledAsAsked, SuccessIsEvidenced,
     BrowserReleased, StopTells
<1> QED
  BY <1>3, <1>5, <1>6 DEF AttemptInv

LEMMA CaptureStep ==
  ASSUME AttemptInv, NEW saved \in BOOLEAN, Capture(saved)
  PROVE  AttemptInv'
<1>1. /\ stage = "screenshot"
      /\ \/ /\ shots' = shots \cup {"confirmation"} /\ stage' = "teardown" /\ result' = "success"
            /\ raised' = raised
         \/ stage' = "unwind" /\ raised' = "other" /\ UNCHANGED <<shots, result>>
      /\ UNCHANGED <<portal, payload, browser, typed, filed, challenged>>
  BY DEF Capture
<1>2. PortalTypeOK'
  BY <1>1 DEF AttemptInv, PortalTypeOK, Stages, Untyped
<1>3. RequiredGiven' = RequiredGiven /\ Remaining' = Remaining
  BY <1>1 DEF RequiredGiven, Remaining, Given
<1>4. StageTells'
  BY <1>1, <1>3 DEF AttemptInv, StageTells, Before, AtWork
<1>5. CaptchaTold' /\ FiledAsAsked' /\ SuccessIsEvidenced' /\ BrowserReleased' /\ StopTells'
  BY <1>1 DEF AttemptInv, StageTells, Before, AtWork, CaptchaTold, FiledAsAsked, SuccessIsEvidenced,
     BrowserReleased, StopTells
<1> QED
  BY <1>2, <1>4, <1>5 DEF AttemptInv

LEMMA WrappedKnown ==
  ASSUME PortalTypeOK, raised # "none"
  PROVE  /\ Wrapped(raised) \in Errors
         /\ raised = "captcha" => Wrapped(raised) = "captcha"
  BY DEF PortalTypeOK, Wrapped, Errors, Typed, Untyped

LEMMA UnwindStep ==
  ASSUME AttemptInv, NEW saved \in BOOLEAN, Unwind(saved)
  PROVE  AttemptInv'
<1>1. /\ stage = "unwind"
      /\ shots' \subseteq shots \cup {"failure", "unhandled"}
      /\ result' = Wrapped(raised)
      /\ stage' = IF browser.held THEN "teardown" ELSE "ended"
      /\ UNCHANGED <<portal, payload, browser, typed, filed, raised, challenged>>
  BY DEF Unwind
<1>2. /\ result' \in Errors
      /\ raised = "captcha" => result' = "captcha"
  BY <1>1, WrappedKnown DEF AttemptInv, StageTells
<1>3. PortalTypeOK'
  BY <1>1, <1>2 DEF AttemptInv, PortalTypeOK, Stages
<1>4. result' \notin {"none", "success"}
  BY <1>2 DEF Errors, Typed
<1>5. StageTells'
  BY <1>1, <1>4 DEF StageTells, Before, AtWork
<1>6. CaptchaTold' /\ FiledAsAsked' /\ SuccessIsEvidenced' /\ BrowserReleased' /\ StopTells'
  BY <1>1, <1>2, <1>4 DEF AttemptInv, CaptchaTold, FiledAsAsked, SuccessIsEvidenced, BrowserReleased, StopTells
<1> QED
  BY <1>3, <1>5, <1>6 DEF AttemptInv

\* A closer that worked left nothing of what it closes, and Playwright's closes all.
LEMMA TeardownStep ==
  ASSUME AttemptInv, NEW failing \in SUBSET Closers, Teardown(failing)
  PROVE  AttemptInv'
<1>1. /\ stage = "teardown" /\ stage' = "ended"
      /\ browser' = [held |-> browser.held, stuck |-> failing, up |-> LeftBy(Closers \ failing)]
      /\ UNCHANGED <<portal, payload, typed, filed, shots, raised, result, challenged>>
  BY DEF Teardown
<1>2. browser.held \in BOOLEAN /\ browser.up \subseteq Closers
  BY DEF AttemptInv, PortalTypeOK
<1>3. LeftBy(Closers \ failing) \subseteq Closers
  BY <1>2 DEF LeftBy
<1>4. \A c \in Closers \ failing : LeftBy(Closers \ failing) \cap Closes(c) = {}
  BY DEF LeftBy
<1>5. Closes("playwright") = Closers /\ "playwright" \in Closers
  BY DEF Closes, Closers
<1>6. /\ browser'.held = browser.held /\ browser'.stuck = failing
      /\ browser'.up = LeftBy(Closers \ failing)
  BY <1>1
<1>7. PortalTypeOK'
  BY <1>1, <1>2, <1>3 DEF AttemptInv, PortalTypeOK, Stages
<1>8. StageTells'
  BY <1>1 DEF AttemptInv, StageTells, Before, AtWork
<1>9. StopTells'
  BY <1>3, <1>4, <1>5, <1>6 DEF StopTells
<1>10. BrowserReleased'
  BY <1>4, <1>5, <1>6 DEF BrowserReleased
<1>11. CaptchaTold' /\ FiledAsAsked' /\ SuccessIsEvidenced'
  BY <1>1 DEF AttemptInv, CaptchaTold, FiledAsAsked, SuccessIsEvidenced
<1> QED
  BY <1>7, <1>8, <1>9, <1>10, <1>11 DEF AttemptInv

LEMMA AttemptStep ==
  ASSUME AttemptInv, [PortalNext]_portalVars
  PROVE  AttemptInv'
<1>1. ASSUME UNCHANGED portalVars PROVE AttemptInv'
  <2>1. UNCHANGED <<portal, payload, stage, browser, typed, filed, shots, raised, result, challenged>>
    BY <1>1 DEF portalVars
  <2>2. PortalTypeOK'
    BY <2>1 DEF AttemptInv, PortalTypeOK
  <2>3. RequiredGiven' = RequiredGiven /\ Remaining' = Remaining
    BY <2>1 DEF RequiredGiven, Remaining, Given
  <2>4. StageTells'
    BY <2>1, <2>3 DEF AttemptInv, StageTells
  <2>5. CaptchaTold' /\ FiledAsAsked' /\ SuccessIsEvidenced' /\ BrowserReleased' /\ StopTells'
    BY <2>1 DEF AttemptInv, CaptchaTold, FiledAsAsked, SuccessIsEvidenced, BrowserReleased, StopTells
  <2> QED
    BY <2>2, <2>4, <2>5 DEF AttemptInv
<1> QED
  BY <1>1, PrepareStep, LaunchStep, PortalLoginStep, NavigateStep, FormStep, ClickStep, PortalConfirmStep, CaptureStep,
     UnwindStep, TeardownStep DEF PortalNext

\* One attempt at a portal, whatever the portal shows and whichever fields the
\* submitter has: it files what was asked for, claims success only with evidence,
\* stops at a captcha and gives its browser back (_run_sync_pipeline).
THEOREM AttemptsSound == PortalSpec => []AttemptSound
<1>1. PortalInit => AttemptInv
  BY AttemptStart
<1>2. AttemptInv /\ [PortalNext]_portalVars => AttemptInv'
  BY AttemptStep
<1>3. AttemptInv => AttemptSound
  <2> SUFFICES ASSUME AttemptInv PROVE AttemptSound
    OBVIOUS
  <2>1. CaptchaStopsFiling
    BY DEF AttemptInv, CaptchaTold, CaptchaStopsFiling
  <2> QED
    BY <2>1 DEF AttemptInv, AttemptSound
<1> QED
  BY <1>1, <1>2, <1>3, PTL DEF PortalSpec

-----------------------------------------------------------------------------
\* The refinement: what an attempt does to the contract's phase and family.
Phase == IF result = "success" THEN "sign"
         ELSE IF result # "none" THEN "failing"
         ELSE IF filed THEN "filed" ELSE "submit"
Told == IF result \notin {"none", "success"} THEN Family(result) ELSE "none"

LEMMA FamilyKnown == \A e : Family(e) \in {"captcha", "permanent", "transient"}
  BY DEF Family

\* Every step of an attempt leaves result and filed alone, files, fails before
\* there is a result, or succeeds once the form is filed.
LEMMA AttemptMoves ==
  ASSUME AttemptInv, [PortalNext]_portalVars
  PROVE  \/ result' = result /\ filed' = filed
         \/ result = "none" /\ result' = "none" /\ ~filed /\ filed'
         \/ result = "none" /\ result' \notin {"none", "success"} /\ filed' = filed
         \/ result = "none" /\ result' = "success" /\ filed /\ filed' = filed
<1> DEFINE Goal == \/ result' = result /\ filed' = filed
                   \/ result = "none" /\ result' = "none" /\ ~filed /\ filed'
                   \/ result = "none" /\ result' \notin {"none", "success"} /\ filed' = filed
                   \/ result = "none" /\ result' = "success" /\ filed /\ filed' = filed
<1>1. stage \in Before \cup AtWork => result = "none"
  BY DEF AttemptInv, StageTells
<1>2. stage \in {"start", "fields", "resolve", "click"} => result = "none" /\ ~filed
  BY DEF AttemptInv, StageTells, Before, AtWork
<1>3. ASSUME NEW found \in HelpersFound, ImportHelpers(found) PROVE Goal
  BY <1>3, <1>2 DEF ImportHelpers, Ended
<1>4. ASSUME RequireFields PROVE Goal
  BY <1>4, <1>2 DEF RequireFields, Ended
<1>5. ASSUME NEW a \in BOOLEAN, NEW b \in BOOLEAN, Resolve(a, b) PROVE Goal
  BY <1>5, <1>2 DEF Resolve, Ended
<1>6. ASSUME NEW a \in BOOLEAN, NEW b \in BOOLEAN, Click(a, b) PROVE Goal
  <2>1. result = "none" /\ filed = FALSE /\ result' = result /\ filed' \in BOOLEAN
    BY <1>6, <1>2 DEF Click, Proceed, AttemptInv, PortalTypeOK
  <2> QED
    BY <2>1
<1>7. ASSUME NEW saved \in BOOLEAN, Capture(saved) PROVE Goal
  <2>1. stage = "screenshot" /\ filed /\ result = "none"
    BY <1>7 DEF Capture, AttemptInv, StageTells, AtWork
  <2> QED
    BY <1>7, <2>1 DEF Capture
<1>8. ASSUME NEW saved \in BOOLEAN, Unwind(saved) PROVE Goal
  <2>1. stage = "unwind" /\ raised # "none" /\ result = "none" /\ PortalTypeOK
    BY <1>8 DEF Unwind, AttemptInv, StageTells
  <2>2. result' \in Errors
    BY <1>8, <2>1, WrappedKnown DEF Unwind
  <2> QED
    BY <1>8, <2>1, <2>2 DEF Unwind, Errors, Typed
<1>9. ASSUME \/ LaunchBrowser
             \/ \E e \in Untyped, up \in PartlyUp, stops \in BOOLEAN : LaunchFails(e, up, stops)
             \/ \E page \in LoginPages : PortalLogin(page)
             \/ \E page \in FormPages : Navigate(page)
             \/ \E kind \in LabelKinds : Fill(kind)
             \/ WriteFails \/ FormFilled
             \/ \E page \in ConfirmationPages : PortalConfirm(page)
             \/ \E failing \in SUBSET Closers : Teardown(failing)
      PROVE  Goal
  BY <1>9 DEF LaunchBrowser, LaunchFails, PortalLogin, Navigate, Fill, WriteFails, FormFilled, PortalConfirm, Teardown,
     Proceed
<1>10. ASSUME UNCHANGED portalVars PROVE Goal
  BY <1>10 DEF portalVars
<1> QED
  BY <1>3, <1>4, <1>5, <1>6, <1>7, <1>8, <1>9, <1>10 DEF PortalNext

\* An attempt keeps the contract the submission pipeline relies on: it files at
\* most once, captures only what was filed, and ends with one error of a family
\* the pipeline tells apart (_run_sync_pipeline, _classify_failure).
THEOREM ContractKept == PortalSpec => SubmitterKeepsContract
<1>1. PortalInit => Contract!Init
  BY DEF PortalInit, Contract!Init
<1>2. AttemptInv /\ [PortalNext]_portalVars => [Contract!Next]_<<Phase, Told>>
  <2> SUFFICES ASSUME AttemptInv, [PortalNext]_portalVars
               PROVE  Contract!Next \/ UNCHANGED <<Phase, Told>>
    OBVIOUS
  <2>1. CASE result' = result /\ filed' = filed
    BY <2>1 DEF Phase, Told, Family
  <2>2. CASE result = "none" /\ result' = "none" /\ ~filed /\ filed'
    BY <2>2 DEF Contract!Next, Contract!Files
  <2>3. CASE result = "none" /\ result' \notin {"none", "success"} /\ filed' = filed
    <3>1. Family(result') \in {"captcha", "permanent", "transient"}
      BY FamilyKnown
    <3> QED
      BY <2>3, <3>1 DEF Contract!Next, Contract!Fails
  <2>4. CASE result = "none" /\ result' = "success" /\ filed /\ filed' = filed
    BY <2>4 DEF Contract!Next, Contract!Captures
  <2> QED
    BY <2>1, <2>2, <2>3, <2>4, AttemptMoves
<1>3. PortalInit => AttemptInv
  BY AttemptStart
<1>4. AttemptInv /\ [PortalNext]_portalVars => AttemptInv'
  BY AttemptStep
<1> QED
  BY <1>1, <1>2, <1>3, <1>4, PTL DEF PortalSpec, SubmitterKeepsContract, Contract!Spec, Phase, Told

-----------------------------------------------------------------------------
(* The monitor of the portals *)

\* A failure alert for p is about to be sent by r.
Alarm(r, p) ==
  /\ smoke[r].pc = "notify" /\ Registered[smoke[r].at] = p
  /\ smoke[r].kind \in {"drift", "persistent_failure"}

\* The file says of p what was observed, and remembers when it was last announced.
Honest(p) ==
  /\ statefile[p].fails = streak[p]
  /\ statefile[p].status = "fail" <=> streak[p] > 0
  /\ statefile[p].status = "fail" => statefile[p].alerted # Never
  /\ paged[p].at <= statefile[p].alerted /\ statefile[p].alerted <= smokeTime
  /\ seen[p] <= smokeTime

\* The alert of the outage died with its run, nothing was recorded as announced
\* since, and no failure was observed a cooldown later.
Delayed(p) ==
  /\ missed[p].outage = outage[p] /\ statefile[p].alerted <= missed[p].at
  /\ seen[p] = missed[p].at \/ seen[p] - missed[p].at < AlertCooldown

\* The outage that is going on was announced, or is about to be, or is delayed.
Announced(p) ==
  streak[p] > 0 =>
    paged[p].outage = outage[p] \/ (\E r \in SmokeRuns : Alarm(r, p)) \/ Delayed(p)

\* An alert about to be sent is of this minute, and the first of its outage or due.
Due(r, p) ==
  Alarm(r, p) =>
    /\ statefile[p].alerted = smokeTime /\ seen[p] = smokeTime
    /\ paged[p].outage = outage[p] =>
         paged[p].at = smokeTime \/ smokeTime - paged[p].at >= AlertCooldown

MonitorInv ==
  /\ MonitorTypeOK
  /\ \A p \in Probed : paged[p].outage <= outage[p]
  /\ ~disturbed => \A p \in Probed :
       Honest(p) /\ Announced(p) /\ \A r \in SmokeRuns : Due(r, p)

LEMMA MonitorConstants ==
  /\ Registered \in Seq(Declared) /\ Len(Registered) \in Nat /\ Len(Registered) >= 1
  /\ \A i \in 1 .. Len(Registered) : Registered[i] \in Probed
  /\ Probed \subseteq Declared
  /\ AlertCooldown \in Nat /\ MaxSmokeTime \in Nat /\ MaxSmokeRuns \in Nat /\ MaxSmokeFaults \in Nat
<1>1. Registered \in Seq(Declared) /\ Registered # <<>>
  BY MonitorAssumption
<1>2. Len(Registered) \in Nat /\ Len(Registered) >= 1
  BY <1>1
<1>3. \A i \in 1 .. Len(Registered) : Registered[i] \in Declared
  BY <1>1
<1>4. DOMAIN Registered = 1 .. Len(Registered)
  BY <1>1
<1> QED
  BY <1>1, <1>2, <1>3, <1>4, MonitorAssumption DEF Probed

LEMMA EmptyFile == Empty \in [Probed -> Snapshot] /\ \A p \in Probed : Empty[p] = Unseen
<1>1. Unseen \in Snapshot
  BY MonitorConstants DEF Unseen, Snapshot, Never
<1> QED
  BY <1>1 DEF Empty

\* What is entered in a record of alerts.
LEMMA EntersAlarm ==
  ASSUME MonitorTypeOK, NEW r \in SmokeRuns,
         NEW record \in [Probed -> [outage: Nat, at: Never..MaxSmokeTime]]
  PROVE  /\ Entered(record, smoke[r]) \in [Probed -> [outage: Nat, at: Never..MaxSmokeTime]]
         /\ \A q \in Probed : Entered(record, smoke[r])[q] =
              IF Alarm(r, q) THEN [outage |-> outage[q], at |-> smokeTime] ELSE record[q]
<1> DEFINE p == Registered[smoke[r].at]
           alert == [outage |-> outage[p], at |-> smokeTime]
<1>1. smoke[r] \in SmokeRun /\ outage \in [Probed -> Nat] /\ smokeTime \in 0 .. MaxSmokeTime
  BY DEF MonitorTypeOK
<1>2. p \in Probed
  BY <1>1, MonitorConstants DEF SmokeRun
<1>3. alert \in [outage: Nat, at: Never..MaxSmokeTime]
  BY <1>1, <1>2, MonitorConstants DEF Never
<1>4. Entered(record, smoke[r]) = IF Alerting(smoke[r]) THEN [record EXCEPT ![p] = alert] ELSE record
  BY DEF Entered
<1>5. \A q \in Probed : Alarm(r, q) <=> Alerting(smoke[r]) /\ q = p
  BY DEF Alarm, Alerting
<1> HIDE DEF alert, p
<1>6. \A q \in Probed : Entered(record, smoke[r])[q] = IF Alarm(r, q) THEN alert ELSE record[q]
  BY <1>2, <1>3, <1>4, <1>5
<1>7. \A q \in Probed : Alarm(r, q) => alert = [outage |-> outage[q], at |-> smokeTime]
  BY <1>5 DEF alert
<1>8. Entered(record, smoke[r]) \in [Probed -> [outage: Nat, at: Never..MaxSmokeTime]]
  BY <1>2, <1>3, <1>4
<1> QED
  BY <1>6, <1>7, <1>8

LEMMA NoRunIsRun == NoRun \in SmokeRun /\ NoRun.pc = "idle"
<1>1. 1 \in 1 .. Len(Registered)
  BY MonitorConstants
<1> QED
  BY <1>1, EmptyFile DEF NoRun, SmokeRun, AlertKinds

LEMMA NextIsRun ==
  ASSUME NEW run \in SmokeRun
  PROVE  NextPlatform(run) \in SmokeRun /\ NextPlatform(run).pc # "notify"
<1>1. CASE ~(run.at < Len(Registered))
  BY <1>1, NoRunIsRun DEF NextPlatform
<1>2. CASE run.at < Len(Registered)
  <2> DEFINE a == [run EXCEPT !.pc = "load"]
             b == [a EXCEPT !.at = @ + 1]
             c == [b EXCEPT !.kind = "noop"]
             d == [c EXCEPT !.loaded = Empty]
  <2>1. NextPlatform(run) = d
    BY <1>2 DEF NextPlatform
  <2>2. a \in SmokeRun /\ a.pc = "load" /\ a.at = run.at
    BY DEF SmokeRun
  <2> HIDE DEF a
  <2>3. a.at + 1 \in 1 .. Len(Registered)
    BY <1>2, <2>2, MonitorConstants DEF SmokeRun
  <2>4. b \in SmokeRun /\ b.pc = "load"
    BY <2>2, <2>3 DEF SmokeRun
  <2> HIDE DEF b
  <2>5. c \in SmokeRun /\ c.pc = "load"
    BY <2>4 DEF SmokeRun, AlertKinds
  <2> HIDE DEF c
  <2>6. d \in SmokeRun /\ d.pc = "load"
    BY <2>5, EmptyFile DEF SmokeRun
  <2> QED
    BY <2>1, <2>6
<1> QED
  BY <1>1, <1>2

LEMMA MonitorStart == MonitorInit => MonitorInv
<1> SUFFICES ASSUME MonitorInit PROVE MonitorInv
  OBVIOUS
<1>1. statefile \in [Probed -> Snapshot] /\ \A p \in Probed : statefile[p] = Unseen
  BY EmptyFile DEF MonitorInit
<1>2. smoke \in [SmokeRuns -> SmokeRun] /\ \A r \in SmokeRuns : smoke[r].pc = "idle"
  BY NoRunIsRun DEF MonitorInit
<1>3. /\ smokeTime = 0 /\ smokeTime \in 0 .. MaxSmokeTime /\ smokeRuns \in 0 .. MaxSmokeRuns
      /\ smokeFaults \in 0 .. MaxSmokeFaults
  BY MonitorConstants DEF MonitorInit
<1>4. streak \in [Probed -> Nat] /\ outage \in [Probed -> Nat]
  BY DEF MonitorInit
<1>5. /\ {paged, missed} \subseteq [Probed -> [outage: Nat, at: Never..MaxSmokeTime]]
      /\ seen \in [Probed -> Never..MaxSmokeTime]
  <2>1. [outage |-> 0, at |-> Never] \in [outage: Nat, at: Never..MaxSmokeTime]
        /\ Never \in Never..MaxSmokeTime
    BY MonitorConstants DEF Never
  <2> QED
    BY <2>1 DEF MonitorInit
<1>6. disturbed \in BOOLEAN
  BY DEF MonitorInit
<1>7. MonitorTypeOK
  BY <1>1, <1>2, <1>3, <1>4, <1>5, <1>6 DEF MonitorTypeOK
<1>8. ASSUME NEW p \in Probed PROVE Honest(p) /\ Announced(p) /\ paged[p].outage <= outage[p]
  <2>1. streak[p] = 0 /\ outage[p] = 0 /\ paged[p] = [outage |-> 0, at |-> Never] /\ seen[p] = Never
    BY DEF MonitorInit
  <2>2. statefile[p].status = "none" /\ statefile[p].fails = 0 /\ statefile[p].alerted = -1
    BY <1>1 DEF Unseen, Never
  <2> QED
    BY <1>3, <2>1, <2>2 DEF Honest, Announced, Never
<1>9. \A p \in Probed, r \in SmokeRuns : Due(r, p)
  BY <1>2 DEF Due, Alarm
<1> QED
  BY <1>7, <1>8, <1>9 DEF MonitorInv

\* A step of a run that neither writes the file nor sends an alert.
LEMMA RunMoves ==
  ASSUME MonitorInv, NEW r \in SmokeRuns, NEW run \in SmokeRun, run.pc # "notify",
         smoke' = [smoke EXCEPT ![r] = run],
         smokeRuns' \in 0 .. MaxSmokeRuns, smokeFaults' \in 0 .. MaxSmokeFaults,
         disturbed' \in BOOLEAN, ~disturbed' => ~disturbed /\ smoke[r].pc # "notify",
         UNCHANGED <<statefile, smokeTime, observed, paged, missed>>
  PROVE  MonitorInv'
<1>1. MonitorTypeOK
  BY DEF MonitorInv
<1>2. smoke' \in [SmokeRuns -> SmokeRun]
  BY <1>1 DEF MonitorTypeOK
<1>3. MonitorTypeOK'
  BY <1>1, <1>2 DEF MonitorTypeOK, observed
<1>4. smoke'[r] = run /\ \A o \in SmokeRuns : o # r => smoke'[o] = smoke[o]
  BY <1>1 DEF MonitorTypeOK
<1>5. ASSUME ~disturbed', NEW p \in Probed
      PROVE  Honest(p)' /\ Announced(p)' /\ \A o \in SmokeRuns : Due(o, p)'
  <2>1. Honest(p) /\ Announced(p) /\ \A o \in SmokeRuns : Due(o, p)
    BY <1>5 DEF MonitorInv
  <2>2. \A o \in SmokeRuns : Alarm(o, p)' <=> Alarm(o, p)
    BY <1>4, <1>5 DEF Alarm
  <2>3. Honest(p)'
    BY <2>1 DEF Honest, observed
  <2>4. Announced(p)'
    BY <2>1, <2>2 DEF Announced, Delayed, observed
  <2>5. \A o \in SmokeRuns : Due(o, p)'
    BY <2>1, <2>2 DEF Due, observed
  <2> QED
    BY <2>3, <2>4, <2>5
<1>6. \A p \in Probed : paged'[p].outage <= outage'[p]
  BY DEF MonitorInv, observed
<1> QED
  BY <1>3, <1>5, <1>6 DEF MonitorInv

LEMMA RunAllStep ==
  ASSUME MonitorInv, NEW r \in SmokeRuns, RunAll(r)
  PROVE  MonitorInv'
<1>1. PICK site \in [Probed -> Sites] :
        smoke' = [smoke EXCEPT ![r] = [NoRun EXCEPT !.pc = "load",
                                        !.results = [p \in Probed |-> SmokeTest(site[p])]]]
  BY DEF RunAll
<1> DEFINE a == [NoRun EXCEPT !.pc = "load"]
           results == [p \in Probed |-> SmokeTest(site[p])]
           run == [a EXCEPT !.results = results]
<1>2. smoke' = [smoke EXCEPT ![r] = run]
  BY <1>1
<1>3. a \in SmokeRun /\ a.pc = "load"
  BY NoRunIsRun DEF SmokeRun
<1>4. results \in [Probed -> {"pass", "fail"}]
  BY DEF SmokeTest
<1> HIDE DEF a, results
<1>5. run \in SmokeRun /\ run.pc # "notify"
  BY <1>3, <1>4 DEF SmokeRun
<1> HIDE DEF run
<1>6. smokeRuns' \in 0 .. MaxSmokeRuns /\ smokeFaults' \in 0 .. MaxSmokeFaults
  BY MonitorConstants DEF RunAll, MonitorInv, MonitorTypeOK
<1>7. smoke[r].pc # "notify" /\ disturbed' = disturbed /\ disturbed \in BOOLEAN
  BY DEF RunAll, MonitorInv, MonitorTypeOK
<1>8. UNCHANGED <<statefile, smokeTime, observed, paged, missed>>
  BY DEF RunAll
<1> QED
  BY <1>2, <1>5, <1>6, <1>7, <1>8, RunMoves

LEMMA LoadStep ==
  ASSUME MonitorInv, NEW r \in SmokeRuns, NEW readable \in BOOLEAN, Load(r, readable)
  PROVE  MonitorInv'
<1> DEFINE a == [smoke[r] EXCEPT !.pc = "save"]
           loaded == IF readable THEN statefile ELSE Empty
           run == [a EXCEPT !.loaded = loaded]
<1>1. smoke' = [smoke EXCEPT ![r] = run]
  BY DEF Load
<1>2. smoke[r] \in SmokeRun /\ statefile \in [Probed -> Snapshot] /\ disturbed \in BOOLEAN
  BY DEF MonitorInv, MonitorTypeOK
<1>3. a \in SmokeRun /\ a.pc = "save"
  BY <1>2 DEF SmokeRun
<1>4. loaded \in [Probed -> Snapshot]
  BY <1>2, EmptyFile
<1> HIDE DEF a, loaded
<1>5. run \in SmokeRun /\ run.pc # "notify"
  BY <1>3, <1>4 DEF SmokeRun
<1> HIDE DEF run
<1>6. smokeRuns' \in 0 .. MaxSmokeRuns /\ smokeFaults' \in 0 .. MaxSmokeFaults
  BY MonitorConstants DEF Load, MonitorInv, MonitorTypeOK
<1>7. smoke[r].pc # "notify" /\ disturbed' \in BOOLEAN /\ (~disturbed' => ~disturbed)
  BY <1>2 DEF Load
<1>8. UNCHANGED <<statefile, smokeTime, observed, paged, missed>>
  BY DEF Load
<1> QED
  BY <1>1, <1>5, <1>6, <1>7, <1>8, RunMoves

\* A run that dies with an alert it has recorded leaves the outage delayed.
LEMMA SmokeCrashStep ==
  ASSUME MonitorInv, NEW r \in SmokeRuns, SmokeCrash(r)
  PROVE  MonitorInv'
<1>1. /\ smoke' = [smoke EXCEPT ![r] = NoRun] /\ missed' = Entered(missed, smoke[r])
      /\ UNCHANGED <<statefile, smokeTime, smokeRuns, streak, outage, seen, paged, disturbed>>
  BY DEF SmokeCrash, observed
<1>2. MonitorTypeOK
  BY DEF MonitorInv
<1>3. smokeFaults' \in 0 .. MaxSmokeFaults
  BY <1>2, MonitorConstants DEF SmokeCrash, MonitorTypeOK
<1>4. /\ missed \in [Probed -> [outage: Nat, at: Never..MaxSmokeTime]]
      /\ smoke \in [SmokeRuns -> SmokeRun] /\ smokeTime \in Nat
  BY <1>2, MonitorConstants DEF MonitorTypeOK
<1>5. /\ smoke' \in [SmokeRuns -> SmokeRun] /\ smoke'[r].pc = "idle"
      /\ \A o \in SmokeRuns : o # r => smoke'[o] = smoke[o]
  BY <1>1, <1>4, NoRunIsRun
<1>6. /\ missed' \in [Probed -> [outage: Nat, at: Never..MaxSmokeTime]]
      /\ \A q \in Probed : missed'[q] =
           IF Alarm(r, q) THEN [outage |-> outage[q], at |-> smokeTime] ELSE missed[q]
  BY <1>1, <1>2, <1>4, EntersAlarm
<1>7. MonitorTypeOK'
  BY <1>1, <1>2, <1>3, <1>5, <1>6 DEF MonitorTypeOK
<1>8. ASSUME ~disturbed', NEW q \in Probed
      PROVE  Honest(q)' /\ Announced(q)' /\ \A o \in SmokeRuns : Due(o, q)'
  <2>1. Honest(q) /\ Announced(q) /\ \A o \in SmokeRuns : Due(o, q)
    BY <1>1, <1>8 DEF MonitorInv
  <2>2. \A o \in SmokeRuns : Alarm(o, q)' <=> o # r /\ Alarm(o, q)
    BY <1>5 DEF Alarm
  <2>3. Honest(q)'
    BY <2>1, <1>1 DEF Honest
  <2>4. Announced(q)'
    <3>1. CASE Alarm(r, q)
      <4>1. missed'[q].outage = outage[q] /\ missed'[q].at = smokeTime
        BY <3>1, <1>6
      <4>2. statefile[q].alerted = smokeTime /\ seen[q] = smokeTime
        BY <3>1, <2>1 DEF Due
      <4>3. Delayed(q)'
        BY <4>1, <4>2, <1>1, <1>4 DEF Delayed
      <4> QED
        BY <4>3 DEF Announced
    <3>2. CASE ~Alarm(r, q)
      <4>1. missed'[q] = missed[q]
        BY <3>2, <1>6
      <4>2. Delayed(q)' <=> Delayed(q)
        BY <4>1, <1>1 DEF Delayed
      <4> QED
        BY <2>1, <2>2, <3>2, <4>2, <1>1 DEF Announced
    <3> QED
      BY <3>1, <3>2
  <2>5. \A o \in SmokeRuns : Due(o, q)'
    BY <2>1, <2>2, <1>1 DEF Due
  <2> QED
    BY <2>3, <2>4, <2>5
<1> QED
  BY <1>1, <1>7, <1>8 DEF MonitorInv

\* What _decide makes of a snapshot.
LEMMA Decided ==
  ASSUME NEW prev \in Snapshot, NEW status \in {"pass", "fail"}, smokeTime \in 0 .. MaxSmokeTime
  PROVE  /\ Decide(prev, status) \in Snapshot
         /\ Decide(prev, status).status = status
         /\ Decide(prev, status).fails = (IF status = "pass" THEN 0 ELSE prev.fails + 1)
         /\ Decide(prev, status).alerted =
              (IF Kind(prev, status) = "noop" THEN prev.alerted ELSE smokeTime)
         /\ Kind(prev, status) \in AlertKinds
         /\ Kind(prev, status) = "drift" <=> status = "fail" /\ prev.status # "fail"
         /\ Kind(prev, status) = "persistent_failure" <=>
              status = "fail" /\ prev.status = "fail" /\ Eligible(prev)
<1>1. /\ Kind(prev, status) \in AlertKinds
      /\ Kind(prev, status) = "drift" <=> status = "fail" /\ prev.status # "fail"
      /\ Kind(prev, status) = "persistent_failure" <=>
           status = "fail" /\ prev.status = "fail" /\ Eligible(prev)
  BY DEF Kind, AlertKinds
<1>2. /\ prev.changed \in Never .. MaxSmokeTime /\ prev.alerted \in Never .. MaxSmokeTime
      /\ prev.fails \in Nat
  BY DEF Snapshot
<1>3. smokeTime \in Never .. MaxSmokeTime
  BY MonitorConstants DEF Never
<1> DEFINE changed == IF prev.status = status THEN prev.changed ELSE smokeTime
           alerted == IF Kind(prev, status) = "noop" THEN prev.alerted ELSE smokeTime
           fails == IF status = "pass" THEN 0 ELSE prev.fails + 1
<1>4. Decide(prev, status) = [status |-> status, changed |-> changed, alerted |-> alerted, fails |-> fails]
  BY DEF Decide
<1>5. changed \in Never .. MaxSmokeTime /\ alerted \in Never .. MaxSmokeTime /\ fails \in Nat
  BY <1>2, <1>3
<1> HIDE DEF changed, alerted, fails
<1>6. [status |-> status, changed |-> changed, alerted |-> alerted, fails |-> fails] \in Snapshot
  BY <1>5 DEF Snapshot
<1> QED
  BY <1>1, <1>4, <1>6 DEF changed, alerted, fails

LEMMA SaveStep ==
  ASSUME MonitorInv, NEW r \in SmokeRuns, NEW writable \in BOOLEAN, Save(r, writable)
  PROVE  MonitorInv'
<1> DEFINE run == smoke[r]
           p == Registered[run.at]
           prev == run.loaded[p]
           status == run.results[p]
           kind == Kind(prev, status)
           new == [run.loaded EXCEPT ![p] = Decide(prev, status)]
           next == IF kind = "noop" THEN NextPlatform(run)
                   ELSE [run EXCEPT !.pc = "notify", !.kind = kind]
<1>1. /\ run.pc = "save"
      /\ smokeFaults' = IF writable THEN smokeFaults ELSE smokeFaults + 1
      /\ writable \/ smokeFaults < MaxSmokeFaults
      /\ statefile' = Saved(new, writable)
      /\ disturbed' = (disturbed \/ ~writable \/ run.loaded # statefile)
      /\ smoke' = [smoke EXCEPT ![r] = next]
      /\ streak' = [streak EXCEPT ![p] = IF status = "pass" THEN 0 ELSE @ + 1]
      /\ outage' = [outage EXCEPT ![p] = IF status = "fail" /\ streak[p] = 0 THEN @ + 1 ELSE @]
      /\ seen' = [seen EXCEPT ![p] = smokeTime]
      /\ UNCHANGED <<smokeTime, smokeRuns, paged, missed>>
  BY DEF Save
<1>2. MonitorTypeOK
  BY DEF MonitorInv
<1>3. /\ statefile \in [Probed -> Snapshot] /\ smoke \in [SmokeRuns -> SmokeRun]
      /\ smokeTime \in 0 .. MaxSmokeTime /\ streak \in [Probed -> Nat] /\ outage \in [Probed -> Nat]
      /\ paged \in [Probed -> [outage: Nat, at: Never..MaxSmokeTime]] /\ disturbed \in BOOLEAN
      /\ missed \in [Probed -> [outage: Nat, at: Never..MaxSmokeTime]]
      /\ seen \in [Probed -> Never..MaxSmokeTime]
  BY <1>2 DEF MonitorTypeOK
<1>4. run \in SmokeRun
  BY <1>3
<1>5. run.at \in 1 .. Len(Registered) /\ run.loaded \in [Probed -> Snapshot]
      /\ run.results \in [Probed -> {"pass", "fail"}]
  BY <1>4 DEF SmokeRun
<1>6. p \in Probed
  BY <1>5, MonitorConstants
<1>7. prev \in Snapshot /\ status \in {"pass", "fail"}
  BY <1>5, <1>6
<1>8. /\ Decide(prev, status) \in Snapshot
      /\ Decide(prev, status).status = status
      /\ Decide(prev, status).fails = (IF status = "pass" THEN 0 ELSE prev.fails + 1)
      /\ Decide(prev, status).alerted = (IF kind = "noop" THEN prev.alerted ELSE smokeTime)
      /\ kind \in AlertKinds
      /\ kind = "drift" <=> status = "fail" /\ prev.status # "fail"
      /\ kind = "persistent_failure" <=> status = "fail" /\ prev.status = "fail" /\ Eligible(prev)
  BY <1>3, <1>7, Decided
<1>9. next \in SmokeRun /\ (kind = "noop" => next.pc # "notify")
      /\ (kind # "noop" => next.pc = "notify" /\ next.at = run.at /\ next.kind = kind)
  <2>1. CASE kind = "noop"
    BY <2>1, <1>4, NextIsRun
  <2>2. CASE kind # "noop"
    <3> DEFINE a == [run EXCEPT !.pc = "notify"]
               k == kind
               b == [a EXCEPT !.kind = k]
    <3> HIDE DEF k
    <3>1. a \in SmokeRun /\ a.pc = "notify" /\ a.at = run.at
      BY <1>4 DEF SmokeRun
    <3>2. next = b
      BY <2>2 DEF k
    <3>3. k \in AlertKinds
      BY <1>8 DEF k
    <3> HIDE DEF a, next
    <3>4. b \in SmokeRun /\ b.pc = "notify" /\ b.at = run.at /\ b.kind = k
      BY <3>1, <3>3 DEF SmokeRun
    <3> QED
      BY <2>2, <3>2, <3>4 DEF k
  <2> QED
    BY <2>1, <2>2
<1>10. new \in [Probed -> Snapshot] /\ new[p] = Decide(prev, status)
       /\ \A q \in Probed : q # p => new[q] = run.loaded[q]
  BY <1>5, <1>6, <1>8
<1> HIDE DEF new, next, kind, prev, status
<1>11. /\ smoke' \in [SmokeRuns -> SmokeRun] /\ smoke'[r] = next
       /\ \A o \in SmokeRuns : o # r => smoke'[o] = smoke[o]
  BY <1>1, <1>3, <1>9
<1>12. /\ streak' \in [Probed -> Nat] /\ outage' \in [Probed -> Nat]
       /\ streak'[p] = (IF status = "pass" THEN 0 ELSE streak[p] + 1)
       /\ outage'[p] = (IF status = "fail" /\ streak[p] = 0 THEN outage[p] + 1 ELSE outage[p])
       /\ seen' \in [Probed -> Never..MaxSmokeTime] /\ seen'[p] = smokeTime
       /\ \A q \in Probed : q # p => streak'[q] = streak[q] /\ outage'[q] = outage[q] /\ seen'[q] = seen[q]
  <2>1. smokeTime \in Never .. MaxSmokeTime
    BY <1>3, MonitorConstants DEF Never
  <2> QED
    BY <2>1, <1>1, <1>3, <1>6
<1>13. statefile' \in [Probed -> Snapshot]
  BY <1>1, <1>3, <1>10 DEF Saved
<1>14. smokeFaults' \in 0 .. MaxSmokeFaults /\ smokeRuns' \in 0 .. MaxSmokeRuns
  BY <1>1, <1>2, MonitorConstants DEF MonitorTypeOK
<1>15. disturbed' \in BOOLEAN
  BY <1>1
<1>16. MonitorTypeOK'
  BY <1>1, <1>3, <1>11, <1>12, <1>13, <1>14, <1>15 DEF MonitorTypeOK
<1>17. \A q \in Probed : /\ paged[q].outage \in Nat /\ paged[q].at \in Int
                         /\ missed[q].outage \in Nat /\ missed[q].at \in Int
  BY <1>3 DEF Never
<1>18. \A q \in Probed : paged'[q].outage <= outage'[q]
  <2> SUFFICES ASSUME NEW q \in Probed PROVE paged[q].outage <= outage'[q]
    BY <1>1
  <2>1. paged[q].outage <= outage[q] /\ outage[q] \in Nat /\ paged[q].outage \in Nat
    BY <1>3, <1>17 DEF MonitorInv
  <2>2. outage'[q] \in {outage[q], outage[q] + 1}
    BY <1>12
  <2> QED
    BY <2>1, <2>2
<1>19. ASSUME ~disturbed', NEW q \in Probed
       PROVE  Honest(q)' /\ Announced(q)' /\ \A o \in SmokeRuns : Due(o, q)'
  <2>1. ~disturbed /\ writable /\ run.loaded = statefile
    BY <1>1, <1>19
  <2>2. statefile' = new
    BY <1>1, <2>1 DEF Saved
  <2>3. Honest(q) /\ Announced(q) /\ \A o \in SmokeRuns : Due(o, q)
    BY <2>1 DEF MonitorInv
  <2>4. \A o \in SmokeRuns : o # r => (Alarm(o, q)' <=> Alarm(o, q))
    BY <1>11 DEF Alarm
  <2>5. ~Alarm(r, q)
    BY <1>1 DEF Alarm
  <2>6. Alarm(r, q)' => q = p /\ kind \in {"drift", "persistent_failure"}
    BY <1>8, <1>9, <1>11 DEF Alarm, AlertKinds
  <2>7. CASE q # p
    <3>1. /\ statefile'[q] = statefile[q] /\ streak'[q] = streak[q] /\ outage'[q] = outage[q]
          /\ seen'[q] = seen[q]
      BY <2>1, <2>2, <2>7, <1>10, <1>12
    <3>2. \A o \in SmokeRuns : Alarm(o, q)' <=> Alarm(o, q)
      BY <2>4, <2>5, <2>6, <2>7
    <3>3. Honest(q)'
      BY <3>1, <2>3, <1>1 DEF Honest
    <3>4. Announced(q)'
      BY <3>1, <3>2, <2>3, <1>1 DEF Announced, Delayed
    <3>5. \A o \in SmokeRuns : Due(o, q)'
      BY <3>1, <3>2, <2>3, <1>1 DEF Due
    <3> QED
      BY <3>3, <3>4, <3>5
  <2>8. CASE q = p
    <3> DEFINE file == statefile[q]
    <3>1. /\ streak'[q] = (IF status = "pass" THEN 0 ELSE streak[q] + 1)
          /\ outage'[q] = (IF status = "fail" /\ streak[q] = 0 THEN outage[q] + 1 ELSE outage[q])
          /\ seen'[q] = smokeTime
      BY <2>8, <1>12
    <3>2. prev = file /\ file \in Snapshot
      BY <2>1, <2>8, <1>7 DEF prev
    <3>3. /\ statefile'[q].status = status
          /\ statefile'[q].fails = (IF status = "pass" THEN 0 ELSE file.fails + 1)
          /\ statefile'[q].alerted = (IF kind = "noop" THEN file.alerted ELSE smokeTime)
      BY <2>2, <2>8, <3>2, <1>8, <1>10
    <3>4. /\ file.fails = streak[q] /\ (file.status = "fail" <=> streak[q] > 0)
          /\ file.status = "fail" => file.alerted # Never
          /\ paged[q].at <= file.alerted /\ file.alerted <= smokeTime
      BY <2>3 DEF Honest
    <3>5. /\ kind = "drift" <=> status = "fail" /\ file.status # "fail"
          /\ kind = "persistent_failure" <=> status = "fail" /\ file.status = "fail" /\ Eligible(file)
          /\ status \in {"pass", "fail"} /\ kind \in AlertKinds
      BY <1>7, <1>8, <3>2
    <3>6. /\ streak[q] \in Nat /\ outage[q] \in Nat /\ smokeTime \in Nat
          /\ paged[q].outage \in Nat /\ paged[q].at \in Int /\ AlertCooldown \in Nat
          /\ missed[q].outage \in Nat /\ missed[q].at \in Int
      BY <1>3, <1>17, MonitorConstants
    <3>7. file.alerted \in Int /\ file.alerted >= -1 /\ file.fails \in Nat
      BY <3>2, MonitorConstants DEF Snapshot, Never
    <3> HIDE DEF file
    <3>8. Honest(q)'
      <4>1. statefile'[q].fails = streak'[q]
        BY <3>3, <3>4, <3>1
      <4>2. statefile'[q].status = "fail" <=> streak'[q] > 0
        BY <3>3, <3>5, <3>6, <3>1
      <4>3. statefile'[q].status = "fail" => statefile'[q].alerted # Never
        BY <3>3, <3>4, <3>5, <3>6 DEF Never
      <4>4. paged[q].at <= statefile'[q].alerted /\ statefile'[q].alerted <= smokeTime
        BY <3>3, <3>4, <3>6, <3>7
      <4> QED
        BY <4>1, <4>2, <4>3, <4>4, <3>1, <3>6, <1>1 DEF Honest
    <3>9. Announced(q)'
      <4> SUFFICES ASSUME status = "fail", paged[q].outage # outage'[q]
                   PROVE  (\E o \in SmokeRuns : Alarm(o, q)') \/ Delayed(q)'
        BY <1>1, <3>1, <3>5 DEF Announced
      <4>1. CASE kind \in {"drift", "persistent_failure"}
        <5>1. next.pc = "notify" /\ next.at = run.at /\ next.kind = kind
          BY <4>1, <1>9
        <5>2. Alarm(r, q)'
          BY <2>8, <4>1, <5>1, <1>11 DEF Alarm
        <5> QED
          BY <5>2
      <4>2. CASE kind \notin {"drift", "persistent_failure"}
        <5>1. file.status = "fail" /\ streak[q] > 0
          BY <4>2, <3>4, <3>5
        <5>2. outage'[q] = outage[q]
          BY <5>1, <3>6, <3>1
        <5>3. CASE \E o \in SmokeRuns : Alarm(o, q)
          <6>1. PICK o \in SmokeRuns : Alarm(o, q)
            BY <5>3
          <6>2. o # r
            BY <6>1, <2>5, <2>8
          <6> QED
            BY <6>1, <6>2, <2>4, <2>8
        <5>4. CASE Delayed(q)
          <6>1. kind = "noop" \/ kind = "recovery"
            BY <4>2, <3>5 DEF AlertKinds
          <6>2. ~Eligible(file)
            BY <5>1, <4>2, <3>5
          <6>3. smokeTime - file.alerted < AlertCooldown
            BY <6>2, <3>6, <3>7 DEF Eligible
          <6>4. missed[q].outage = outage[q] /\ file.alerted <= missed[q].at
            BY <5>4 DEF Delayed, file
          <6>5. kind = "noop"
            BY <6>1, <1>7, <3>2, <5>1 DEF kind, Kind
          <6>6. statefile'[q].alerted = file.alerted
            BY <6>5, <3>3
          <6>7. seen'[q] - missed[q].at < AlertCooldown
            BY <6>3, <6>4, <3>1, <3>6, <3>7
          <6> QED
            BY <6>4, <6>6, <6>7, <5>2, <1>1 DEF Delayed
        <5> QED
          BY <5>1, <5>2, <5>3, <5>4, <2>3, <2>8 DEF Announced
      <4> QED
        BY <4>1, <4>2
    <3>10. ASSUME NEW o \in SmokeRuns PROVE Due(o, q)'
      <4> SUFFICES ASSUME Alarm(o, q)'
                   PROVE  /\ statefile'[q].alerted = smokeTime /\ seen'[q] = smokeTime
                          /\ paged[q].outage = outage'[q] =>
                               paged[q].at = smokeTime \/ smokeTime - paged[q].at >= AlertCooldown
        BY <1>1 DEF Due
      <4>1. paged[q].outage <= outage[q]
        BY DEF MonitorInv
      <4>2. CASE o = r
        <5>1. kind \in {"drift", "persistent_failure"}
          BY <4>2, <2>6, <2>8
        <5>2. statefile'[q].alerted = smokeTime
          BY <5>1, <3>3
        <5>3. CASE kind = "drift"
          <6>1. streak[q] = 0 /\ status = "fail"
            BY <5>3, <3>4, <3>5, <3>6
          <6>2. outage'[q] = outage[q] + 1
            BY <6>1, <3>1
          <6> QED
            BY <5>2, <6>2, <4>1, <3>6, <3>1
        <5>4. CASE kind = "persistent_failure"
          <6>1. smokeTime - file.alerted >= AlertCooldown
            BY <5>4, <3>4, <3>5 DEF Eligible
          <6> QED
            BY <5>2, <6>1, <3>4, <3>6, <3>7, <3>1
        <5> QED
          BY <5>1, <5>3, <5>4
      <4>3. CASE o # r
        <5>1. Alarm(o, q) /\ Due(o, q)
          BY <4>3, <2>3, <2>4, <2>8
        <5>2. /\ file.alerted = smokeTime
              /\ paged[q].outage = outage[q] =>
                   paged[q].at = smokeTime \/ smokeTime - paged[q].at >= AlertCooldown
          BY <5>1 DEF Due, file
        <5>3. outage'[q] \in {outage[q], outage[q] + 1}
          BY <3>1
        <5>4. paged[q].outage = outage'[q] => outage'[q] = outage[q]
          BY <5>3, <4>1, <3>6
        <5> QED
          BY <5>2, <5>4, <3>3, <3>1
      <4> QED
        BY <4>2, <4>3
    <3> QED
      BY <3>8, <3>9, <3>10
  <2> QED
    BY <2>7, <2>8
<1> QED
  BY <1>16, <1>18, <1>19 DEF MonitorInv

LEMMA NotifyStep ==
  ASSUME MonitorInv, NEW r \in SmokeRuns, Notify(r)
  PROVE  MonitorInv'
<1> DEFINE run == smoke[r]
<1>1. /\ run.pc = "notify" /\ paged' = Entered(paged, run)
      /\ smoke' = [smoke EXCEPT ![r] = NextPlatform(run)]
      /\ UNCHANGED <<statefile, smokeTime, smokeRuns, smokeFaults, streak, outage, seen, missed, disturbed>>
  BY DEF Notify, observed
<1>2. MonitorTypeOK
  BY DEF MonitorInv
<1>3. /\ smoke \in [SmokeRuns -> SmokeRun] /\ outage \in [Probed -> Nat] /\ smokeTime \in Nat
      /\ paged \in [Probed -> [outage: Nat, at: Never..MaxSmokeTime]]
  BY <1>2, MonitorConstants DEF MonitorTypeOK
<1>4. NextPlatform(run) \in SmokeRun /\ NextPlatform(run).pc # "notify"
  BY <1>3, NextIsRun
<1>5. /\ smoke' \in [SmokeRuns -> SmokeRun] /\ smoke'[r].pc # "notify"
      /\ \A o \in SmokeRuns : o # r => smoke'[o] = smoke[o]
  BY <1>1, <1>3, <1>4
<1>6. /\ paged' \in [Probed -> [outage: Nat, at: Never..MaxSmokeTime]]
      /\ \A q \in Probed : paged'[q] =
           IF Alarm(r, q) THEN [outage |-> outage[q], at |-> smokeTime] ELSE paged[q]
  BY <1>1, <1>2, <1>3, EntersAlarm
<1>7. MonitorTypeOK'
  BY <1>1, <1>2, <1>5, <1>6 DEF MonitorTypeOK
<1>8. ASSUME NEW q \in Probed PROVE paged'[q].outage <= outage'[q]
  <2>1. paged[q].outage <= outage[q] /\ outage[q] \in Nat
    BY <1>3 DEF MonitorInv
  <2>2. paged'[q].outage \in {outage[q], paged[q].outage}
    BY <1>6
  <2> QED
    BY <1>1, <2>1, <2>2
<1>9. ASSUME ~disturbed', NEW q \in Probed
      PROVE  Honest(q)' /\ Announced(q)' /\ \A o \in SmokeRuns : Due(o, q)'
  <2>1. Honest(q) /\ Announced(q) /\ \A o \in SmokeRuns : Due(o, q)
    BY <1>1, <1>9 DEF MonitorInv
  <2>2. \A o \in SmokeRuns : Alarm(o, q)' <=> o # r /\ Alarm(o, q)
    BY <1>5 DEF Alarm
  <2>3. Delayed(q)' <=> Delayed(q)
    BY <1>1 DEF Delayed
  <2>4. CASE Alarm(r, q)
    <3>1. paged'[q].outage = outage[q] /\ paged'[q].at = smokeTime
      BY <2>4, <1>6
    <3>2. statefile[q].alerted = smokeTime
      BY <2>1, <2>4 DEF Due
    <3>3. Honest(q)'
      BY <2>1, <3>1, <3>2, <1>1, <1>3 DEF Honest
    <3>4. Announced(q)'
      BY <3>1, <1>1 DEF Announced
    <3>5. \A o \in SmokeRuns : Due(o, q)'
      BY <2>1, <2>2, <3>1, <1>1 DEF Due
    <3> QED
      BY <3>3, <3>4, <3>5
  <2>5. CASE ~Alarm(r, q)
    <3>1. paged'[q] = paged[q]
      BY <2>5, <1>6
    <3>2. Honest(q)'
      BY <2>1, <3>1, <1>1 DEF Honest
    <3>3. Announced(q)'
      BY <2>1, <2>2, <2>3, <2>5, <3>1, <1>1 DEF Announced
    <3>4. \A o \in SmokeRuns : Due(o, q)'
      BY <2>1, <2>2, <3>1, <1>1 DEF Due
    <3> QED
      BY <3>2, <3>3, <3>4
  <2> QED
    BY <2>4, <2>5
<1> QED
  BY <1>7, <1>8, <1>9 DEF MonitorInv

LEMMA SmokeTickStep ==
  ASSUME MonitorInv, SmokeTick
  PROVE  MonitorInv'
<1>1. /\ smokeTime < MaxSmokeTime /\ \A r \in SmokeRuns : smoke[r].pc \in {"idle", "load"}
      /\ smokeTime' = smokeTime + 1
      /\ UNCHANGED <<statefile, smoke, smokeRuns, smokeFaults, streak, outage, seen, paged, missed, disturbed>>
  BY DEF SmokeTick, observed
<1>2. MonitorTypeOK
  BY DEF MonitorInv
<1>3. smokeTime' \in 0 .. MaxSmokeTime
  BY <1>1, <1>2, MonitorConstants DEF MonitorTypeOK
<1>4. MonitorTypeOK'
  BY <1>1, <1>2, <1>3 DEF MonitorTypeOK
<1>5. ASSUME ~disturbed', NEW q \in Probed
      PROVE  Honest(q)' /\ Announced(q)' /\ \A o \in SmokeRuns : Due(o, q)'
  <2>1. Honest(q) /\ Announced(q)
    BY <1>1, <1>5 DEF MonitorInv
  <2>2. statefile[q] \in Snapshot /\ smokeTime \in Nat
    BY <1>2, MonitorConstants DEF MonitorTypeOK
  <2>3. statefile[q].alerted \in Int /\ seen[q] \in Int
    BY <1>2, <2>2 DEF Snapshot, Never, MonitorTypeOK
  <2>4. Honest(q)'
    BY <1>1, <2>1, <2>2, <2>3 DEF Honest
  <2>5. Announced(q)'
    BY <1>1, <2>1 DEF Announced, Alarm, Delayed
  <2>6. \A o \in SmokeRuns : Due(o, q)'
    BY <1>1 DEF Due, Alarm
  <2> QED
    BY <2>4, <2>5, <2>6
<1> QED
  BY <1>1, <1>4, <1>5 DEF MonitorInv

LEMMA MonitorInductive == MonitorSpec => []MonitorInv
<1>1. ASSUME MonitorInv, MonitorNext PROVE MonitorInv'
  BY <1>1, RunAllStep, LoadStep, SmokeCrashStep, SaveStep, NotifyStep, SmokeTickStep DEF MonitorNext
<1>2. ASSUME MonitorInv, UNCHANGED monitorVars PROVE MonitorInv'
  BY <1>2 DEF monitorVars, observed, MonitorInv, MonitorTypeOK, Honest, Announced, Delayed, Due, Alarm
<1> QED
  BY MonitorStart, <1>1, <1>2, PTL DEF MonitorSpec

LEMMA MonitorInvGives == MonitorInv => MonitorSound
<1> SUFFICES ASSUME MonitorInv PROVE MonitorSound
  OBVIOUS
<1>1. MonitorTypeOK
  BY DEF MonitorInv
<1>2. CoverageTruthful
  <2> SUFFICES ASSUME ~disturbed PROVE CoverageTruthful
    BY DEF CoverageTruthful
  <2>1. ASSUME NEW p \in Probed
        PROVE  /\ statefile[p].fails = streak[p]
               /\ Coverage(p) = "down" <=> streak[p] >= 3
               /\ Coverage(p) = "degraded" <=> streak[p] \in 1..2
    <3>1. Honest(p)
      BY DEF MonitorInv
    <3>2. streak[p] \in Nat
      BY <1>1 DEF MonitorTypeOK
    <3>3. CASE streak[p] > 0
      <4>1. statefile[p].status = "fail" /\ statefile[p].fails = streak[p]
        BY <3>1, <3>3 DEF Honest
      <4>2. Coverage(p) = IF streak[p] >= 3 THEN "down" ELSE "degraded"
        BY <4>1 DEF Coverage, DeriveHealth, DownAfter
      <4> QED
        BY <3>2, <3>3, <4>1, <4>2
    <3>4. CASE ~(streak[p] > 0)
      <4>1. statefile[p].status # "fail" /\ statefile[p].fails = streak[p]
        BY <3>1, <3>4 DEF Honest
      <4>2. Coverage(p) \in {"healthy", "unknown"}
        BY <4>1 DEF Coverage, DeriveHealth
      <4> QED
        BY <3>2, <3>4, <4>1, <4>2
    <3> QED
      BY <3>3, <3>4
  <2> QED
    BY <2>1 DEF CoverageTruthful, Coverage
<1>3. OutageAnnounced
  BY DEF MonitorInv, OutageAnnounced, Announced, Alarm, Delayed
<1> QED
  BY <1>1, <1>2, <1>3 DEF MonitorSound

\* The smoke tests tell the truth however runs overlap, crash and are delivered again,
\* as long as no observation was lost: the coverage page counts the failures in a row
\* (SmokeStateTracker.observe, _derive_health), and every outage is announced
\* (_dispatch_alerts).
THEOREM MonitorTruthful == MonitorSpec => []MonitorSound
  BY MonitorInductive, MonitorInvGives, PTL

LEMMA MonitorSpaces ==
  ASSUME MonitorInv, MonitorNext, NEW p \in Probed,
         ~disturbed, paged'[p] # paged[p], paged'[p].outage = paged[p].outage
  PROVE  paged'[p].at - paged[p].at >= AlertCooldown
<1>1. \E r \in SmokeRuns : Notify(r)
  BY DEF MonitorNext, SmokeTick, RunAll, SmokeCrash, Load, Save
<1> PICK r \in SmokeRuns : Notify(r)
  BY <1>1
<1>2. paged' = Entered(paged, smoke[r])
  BY DEF Notify
<1>3. MonitorTypeOK /\ paged \in [Probed -> [outage: Nat, at: Never..MaxSmokeTime]] /\ smokeTime \in Nat
  <2>1. MonitorTypeOK
    BY DEF MonitorInv
  <2> QED
    BY <2>1, MonitorConstants DEF MonitorTypeOK
<1>4. paged[p] = [outage |-> paged[p].outage, at |-> paged[p].at] /\ paged[p].at \in Int
  BY <1>3 DEF Never
<1>5. Alarm(r, p) /\ paged'[p] = [outage |-> outage[p], at |-> smokeTime]
  BY <1>2, <1>3, EntersAlarm
<1>6. Due(r, p)
  BY DEF MonitorInv
<1>7. paged'[p].outage = outage[p] /\ paged'[p].at = smokeTime
  BY <1>5
<1>8. paged[p].at # smokeTime
  BY <1>4, <1>5, <1>7
<1> QED
  BY <1>4, <1>5, <1>6, <1>7, <1>8 DEF Due

\* While no observation was lost, two failure alerts of one outage are at least the
\* cooldown apart, however many runs are at work (SmokeStateTracker._decide).
THEOREM AlertsStaySpaced == MonitorSpec => AlertsSpaced
<1>1. MonitorInv /\ [MonitorNext]_monitorVars =>
        [\A p \in Probed :
           (~disturbed /\ paged'[p] # paged[p] /\ paged'[p].outage = paged[p].outage)
             => paged'[p].at - paged[p].at >= AlertCooldown]_monitorVars
  BY MonitorSpaces
<1> QED
  BY MonitorInductive, <1>1, PTL DEF MonitorSpec, AlertsSpaced
=============================================================================
