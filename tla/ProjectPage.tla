----------------------------- MODULE ProjectPage -----------------------------
(***************************************************************************)
(* The project-check page: the form and the result of assets/demo.js, the  *)
(* optional assistance of assets/ai.js, and the service behind it, which   *)
(* has a copy of the matcher (ai/service.py, ai/explain.py).               *)
(*                                                                         *)
(* The page has one thread, but every request to the service suspends its  *)
(* handler.  Meanwhile the applicant goes on: edits, submits, switches the *)
(* language, presses other buttons.  A resumed handler finds the elements  *)
(* it writes to by their id in whatever the page then shows, while the     *)
(* buttons that it held before belong to the old elements.  The wording,   *)
(* the language and the sample are left out: switching the language        *)
(* matters here because it renders everything again.                       *)
(***************************************************************************)
EXTENDS Screening, Naturals

CONSTANTS
    PageRules,      \* the rules of the deployed page
    ServiceRules,   \* the rules the running service has loaded
    Calls,          \* handlers that can wait at a time
    MaxPresses,     \* bound on the requests
    NoCall, NoPanel, NoText, NoBody, NoResult, NoClaim

ASSUME PageAssumption ==
    /\ \A base \in {PageRules, ServiceRules} : base \in [DOMAIN base -> Rules]
    /\ MaxPresses \in Nat
    /\ \A ids \in SUBSET (DOMAIN PageRules \cup DOMAIN ServiceRules) : NoClaim # ids

VARIABLES
    form,           \* the answers in the form, and the place in its text field
    result,         \* LAST_INTAKE with LAST_RESULTS or LAST_UNRESOLVED
    health,         \* serviceHealth is set
    enable,         \* the button "Use AI assistance"
    draft,          \* the button of the free-text field, if there is one
    panel,          \* #aiResultPanel under the result
    calls,          \* suspended handlers
    presses

vars == <<form, result, health, enable, draft, panel, calls, presses>>

\* A button that is "left" is disabled, and no handler will enable it again.
Buttons == {"none", "ready", "busy", "hidden", "left"}
RuleIds == DOMAIN PageRules \cup DOMAIN ServiceRules

\* A text of the service is told apart by what it is about.
Texts == [of : Intakes, rules : SUBSET RuleIds]

Forms == [place : Places \cup {NoPlace}, facts : Sheets]

Claims == {NoClaim} \cup SUBSET RuleIds

Results ==
    {r \in [kind : {"rules", "review"}, intake : Intakes, rules : Claims] :
        r.kind = "review" <=> r.rules = NoClaim}

Panels ==
    [review : BOOLEAN, button : Buttons, explained : Texts \cup {NoText},
     questions : Texts \cup {NoText}, ask : Buttons, answer : Texts \cup {NoText}]

\* A suspended handler: mine tells whether the buttons it holds are still on
\* the page; claim is matched_rule_ids.
Requests ==
    [kind : {"explain", "after", "only", "ask"}, mine : BOOLEAN, intake : Intakes, claim : Claims]
Errands == [kind : {"probe", "draft"}, mine : BOOLEAN]
Handlers == Requests \cup Errands

Waits(k, kind) == calls[k] # NoCall /\ calls[k].kind = kind

\* What becomes of the calls when elements are rendered again.
Disowned(cs, kinds) ==
    [k \in Calls |-> IF cs[k] # NoCall /\ cs[k].kind \in kinds
                     THEN [cs[k] EXCEPT !.mine = FALSE] ELSE cs[k]]

PanelKinds == {"explain", "after", "only", "ask"}

-----------------------------------------------------------------------------
(* The result area.                                                        *)

\* attachResultControls, called by the observer of #results in the same task.
Attached(res, alive) ==
    IF alive /\ res # NoResult
    THEN [review |-> res.kind = "review", button |-> "ready", explained |-> NoText,
          questions |-> NoText, ask |-> "none", answer |-> NoText]
    ELSE NoPanel

Render(res, cs) ==
    /\ result' = res
    /\ panel' = Attached(res, health)
    /\ calls' = Disowned(cs, PanelKinds)

\* invalidateRenderedProjectResult.
Invalidate(cs) == Render(NoResult, cs)

ScreenResult(intake) ==
    IF Unresolved(intake) = {}
    THEN [kind |-> "rules", intake |-> intake, rules |-> Screen(PageRules, intake)]
    ELSE [kind |-> "review", intake |-> intake, rules |-> NoClaim]

\* A change of an answer that is asked for.
Change(n, v) ==
    /\ n \in {"project_type"} \cup Asked(form.facts)
    /\ v \in Allowed(n) \ {form.facts[n]}
    /\ form' = [form EXCEPT !.facts[n] = v]
    /\ Invalidate(calls)
    /\ UNCHANGED <<health, enable, draft, presses>>

\* Text typed into the jurisdiction field; NoPlace is any other text.
Type(place) ==
    /\ place # form.place
    /\ form' = [form EXCEPT !.place = place]
    /\ Invalidate(calls)
    /\ UNCHANGED <<health, enable, draft, presses>>

\* Submit: without a registered place the result is cleared; without an answer
\* to every question the browser reports them and nothing happens.
Submit ==
    LET intake == [place |-> form.place, facts |-> Shown(form.facts)]
    IN  /\ \/ form.place = NoPlace /\ Invalidate(calls)
           \/ intake \in Intakes /\ Render(ScreenResult(intake), calls)
        /\ UNCHANGED <<form, health, enable, draft, presses>>

\* The language is switched: the result is rendered again, then (in a task of
\* its own that nothing here can tell apart) the assistance too.
Toggle ==
    /\ Render(result, Disowned(calls, {"probe", "draft"}))
    /\ enable' = IF health THEN "hidden" ELSE "ready"
    /\ draft' = IF health THEN "ready" ELSE "none"
    /\ UNCHANGED <<form, health, presses>>

-----------------------------------------------------------------------------
(* Buttons of the assistance.                                              *)

Start(k, handler) ==
    /\ calls[k] = NoCall
    /\ presses < MaxPresses
    /\ presses' = presses + 1
    /\ calls' = [calls EXCEPT ![k] = handler]

\* enableAssistance forgets an earlier answer before it probes again.
Enable(k) ==
    /\ enable = "ready"
    /\ enable' = "busy"
    /\ health' = FALSE
    /\ Start(k, [kind |-> "probe", mine |-> TRUE])
    /\ UNCHANGED <<form, result, draft, panel>>

\* draftAnswers.
Draft(k) ==
    /\ draft = "ready"
    /\ draft' = "busy"
    /\ Start(k, [kind |-> "draft", mine |-> TRUE])
    /\ UNCHANGED <<form, result, health, enable, panel>>

\* explainResult, or draftQuestionsOnly when a fact was unresolved.
Explain(k) ==
    /\ panel # NoPanel /\ panel.button = "ready"
    /\ panel' = [panel EXCEPT !.button = "busy"]
    /\ Start(k, [kind |-> IF panel.review THEN "only" ELSE "explain", mine |-> TRUE,
                 intake |-> result.intake, claim |-> IF panel.review THEN NoClaim ELSE result.rules])
    /\ UNCHANGED <<form, result, health, enable, draft>>

\* askQuestion; the Enter key calls it while the button is disabled too.
Ask(k) ==
    /\ panel # NoPanel /\ panel.ask \in {"ready", "busy"}
    /\ panel' = [panel EXCEPT !.ask = "busy"]
    /\ Start(k, [kind |-> "ask", mine |-> TRUE, intake |-> result.intake, claim |-> result.rules])
    /\ UNCHANGED <<form, result, health, enable, draft>>

-----------------------------------------------------------------------------
(* The service, and what a resumed handler does with its reply.            *)

\* Mutant: the service does not compare the rules it matched.
AgreesAlways(call) == TRUE

\* matched_rules: MatcherDisagreement, unless the request names no rules.
Agrees(call) == call.claim = NoClaim \/ call.claim = Screen(ServiceRules, call.intake)

TextFor(call) == [of |-> call.intake, rules |-> Screen(ServiceRules, call.intake)]

\* A reply is a text; NoText for an error status, a connection lost before the
\* status came or the page's own timeout; or, as fetchJsonWithTimeout hides
\* what goes wrong while a body is read, an accepted reply without a body.
Replies(call) == {NoText} \cup {text \in {NoBody, TextFor(call)} : Agrees(call)}

HasBody(text) == text \notin {NoText, NoBody}

Finished(cs, k) == [cs EXCEPT ![k] = NoCall]

\* The panel when a renderer throws: the button that the handler had disabled
\* stays so.
LeftBehind(k) ==
    IF calls[k].mine /\ panel # NoPanel THEN [panel EXCEPT !.button = "left"] ELSE panel

\* The probes of one press: some candidate answered, or none did.  Another
\* press may have found the service meanwhile.
ProbeReply(k) ==
    /\ Waits(k, "probe")
    /\ \E up \in BOOLEAN :
         /\ health' = (health \/ up)
         /\ IF calls[k].mine THEN enable' = IF health' THEN "hidden" ELSE "ready"
                             ELSE UNCHANGED enable
         /\ IF health' THEN draft' = "ready" ELSE UNCHANGED draft
         /\ calls' = Finished(IF health' THEN Disowned(calls, {"draft"}) ELSE calls, k)
    /\ UNCHANGED <<form, result, panel, presses>>

\* Mutant: the answers are filled in and the old result stays.
DraftReplyKeepsResult(k) ==
    /\ Waits(k, "draft")
    /\ draft' = IF calls[k].mine THEN "ready" ELSE draft
    /\ \/ UNCHANGED <<form, result, panel>> /\ calls' = Finished(calls, k)
       \/ \E facts \in Sheets, place \in Places \cup {form.place} :
            /\ Complete(facts)
            /\ form' = [place |-> place, facts |-> facts]
            /\ calls' = Finished(calls, k)
            /\ UNCHANGED <<result, panel>>
    /\ UNCHANGED <<health, enable, presses>>

\* No draft changes nothing, nor does one without a body, which fails before it
\* touches the form.  The drafted answers replace those in the form, edits made
\* meanwhile included, and the result is cleared.  A type the text does not
\* tell is left unanswered, as are the questions of other types; a place the
\* registry does not have leaves the field alone.
DraftReply(k) ==
    /\ Waits(k, "draft")
    /\ draft' = IF calls[k].mine THEN "ready" ELSE draft
    /\ \/ UNCHANGED <<form, result, panel>> /\ calls' = Finished(calls, k)
       \/ \E facts \in Sheets, place \in Places \cup {form.place} :
            /\ Complete(facts)
            /\ form' = [place |-> place, facts |-> facts]
            /\ Invalidate(Finished(calls, k))
    /\ UNCHANGED <<health, enable, presses>>

\* Mutant: after an error the button stays disabled.
ExplainReplyStuck(k) ==
    /\ Waits(k, "explain")
    /\ \E text \in Replies(calls[k]) :
         \/ /\ text = NoText
            /\ calls' = Finished(calls, k) /\ UNCHANGED panel
         \/ /\ HasBody(text) /\ panel # NoPanel
            /\ panel' = [panel EXCEPT !.explained = text]
            /\ calls' = [calls EXCEPT ![k].kind = "after"]
         \/ /\ text = NoBody \/ (HasBody(text) /\ panel = NoPanel)
            /\ panel' = LeftBehind(k)
            /\ calls' = Finished(calls, k)
    /\ UNCHANGED <<form, result, health, enable, draft, presses>>

\* explainResult goes on to ask for questions.  Without a body to render, or
\* without a panel to render it in, the handler ends in a TypeError.
ExplainReply(k) ==
    /\ Waits(k, "explain")
    /\ \E text \in Replies(calls[k]) :
         \/ /\ text = NoText
            /\ panel' = IF calls[k].mine /\ panel # NoPanel
                        THEN [panel EXCEPT !.button = "ready"] ELSE panel
            /\ calls' = Finished(calls, k)
         \/ /\ HasBody(text) /\ panel # NoPanel
            /\ panel' = [panel EXCEPT !.explained = text]
            /\ calls' = [calls EXCEPT ![k].kind = "after"]
         \/ /\ text = NoBody \/ (HasBody(text) /\ panel = NoPanel)
            /\ panel' = LeftBehind(k)
            /\ calls' = Finished(calls, k)
    /\ UNCHANGED <<form, result, health, enable, draft, presses>>

\* The end of explainResult: the questions, if they came, and the ask box,
\* which takes the place of an older one; a TypeError comes before the box.
AfterReply(k) ==
    /\ Waits(k, "after")
    /\ \E text \in Replies(calls[k]) :
         \/ /\ text # NoBody
            /\ panel' = IF panel = NoPanel THEN NoPanel
                        ELSE [panel EXCEPT
                                 !.questions = IF text = NoText THEN @ ELSE text,
                                 !.button = IF calls[k].mine THEN "hidden" ELSE @,
                                 !.ask = "ready", !.answer = NoText]
            /\ calls' = Finished(Disowned(calls, {"ask"}), k)
         \/ /\ text = NoBody
            /\ panel' = LeftBehind(k)
            /\ calls' = Finished(calls, k)
    /\ UNCHANGED <<form, result, health, enable, draft, presses>>

\* The end of draftQuestionsOnly.
OnlyReply(k) ==
    /\ Waits(k, "only")
    /\ \E text \in Replies(calls[k]) :
         \/ /\ text # NoBody
            /\ panel' = IF panel = NoPanel THEN NoPanel
                        ELSE [panel EXCEPT
                                 !.questions = IF text = NoText THEN @ ELSE text,
                                 !.button = IF ~calls[k].mine THEN @
                                            ELSE IF text = NoText THEN "ready" ELSE "hidden"]
         \/ /\ text = NoBody
            /\ panel' = LeftBehind(k)
    /\ calls' = Finished(calls, k)
    /\ UNCHANGED <<form, result, health, enable, draft, presses>>

\* The end of askQuestion; #aiAnswer is there when an ask box is.  The button
\* is enabled before the answer is rendered, so no body is like no answer.
AskReply(k) ==
    /\ Waits(k, "ask")
    /\ \E text \in Replies(calls[k]) :
         /\ panel' = IF panel = NoPanel \/ panel.ask = "none" THEN panel
                     ELSE [panel EXCEPT
                              !.answer = IF HasBody(text) THEN text ELSE @,
                              !.ask = IF calls[k].mine THEN "ready" ELSE @]
         /\ calls' = Finished(calls, k)
    /\ UNCHANGED <<form, result, health, enable, draft, presses>>

Init ==
    /\ form = [place |-> NoPlace, facts |-> [n \in Names |-> NoAnswer]]
    /\ result = NoResult
    /\ health = FALSE
    /\ enable = "ready" /\ draft = "none"
    /\ panel = NoPanel
    /\ calls = [k \in Calls |-> NoCall]
    /\ presses = 0

Reply(k) ==
    \/ ProbeReply(k) \/ DraftReply(k) \/ ExplainReply(k)
    \/ AfterReply(k) \/ OnlyReply(k) \/ AskReply(k)

Next ==
    \/ \E n \in Names, v \in Answers : Change(n, v)
    \/ \E place \in Places \cup {NoPlace} : Type(place)
    \/ Submit \/ Toggle
    \/ \E k \in Calls : Enable(k) \/ Draft(k) \/ Explain(k) \/ Ask(k) \/ Reply(k)

Spec == Init /\ [][Next]_vars

\* Every request ends: with a reply, or with the timeout of
\* fetchJsonWithTimeout.  The applicant may stop at any time.
FairSpec == Spec /\ \A k \in Calls : WF_vars(Reply(k))

-----------------------------------------------------------------------------
(* Properties.                                                             *)

\* Types of the variables; a panel is always under a result of its kind.
TypeOK ==
    /\ form \in Forms
    /\ result \in Results \cup {NoResult}
    /\ health \in BOOLEAN
    /\ enable \in Buttons /\ draft \in Buttons
    /\ panel \in Panels \cup {NoPanel}
    /\ panel # NoPanel => result # NoResult /\ panel.review = (result.kind = "review")
    /\ calls \in [Calls -> Handlers \cup {NoCall}]
    /\ presses \in 0 .. MaxPresses

\* What the page shows as the result is what the matcher says of the answers
\* that are in the form now, and of all of them: though drafts arrive late,
\* answers change and everything is rendered again, no result outlives its
\* answers, and none is shown while a material fact is unknown.
ResultOfForm ==
    result # NoResult =>
        LET now == [place |-> form.place, facts |-> Shown(form.facts)] IN
        /\ result.intake = now
        /\ result.kind = "review" <=> Unresolved(now) # {}
        /\ result.kind = "rules" => result.rules = Screen(PageRules, now)

\* An explanation on the page, a late one under a newer result included, is of
\* a complete set of answers and of the very rules that the page matched for
\* them, though the service may have loaded other rules than the page.
ExplainedAsMatched ==
    panel # NoPanel /\ panel.explained # NoText =>
        /\ Unresolved(panel.explained.of) = {}
        /\ panel.explained.rules = Screen(PageRules, panel.explained.of)

Waiting ==
    \/ "busy" \in {enable, draft}
    \/ panel # NoPanel /\ "busy" \in {panel.button, panel.ask}

\* A button that waits for the service comes back, or is rendered anew: no
\* order of replies, errors, edits and language switches leaves one waiting
\* for good.  What this does not cover is the button whose explanation or
\* questions came without a body, which is "left": its handler is gone, and
\* only rendering the result again brings a fresh one.
ButtonsComeBack == Waiting ~> ~Waiting

\* "When material facts are unknown, only the staff-question draft is offered"
\* (README.md): under a result that needs staff review there is neither an
\* explanation nor a question box.
OnlyQuestionsWhenUnknown ==
    panel # NoPanel /\ result.kind = "review" =>
        panel.explained = NoText /\ panel.ask = "none"
=============================================================================
