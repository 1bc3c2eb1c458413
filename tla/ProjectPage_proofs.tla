------------------------- MODULE ProjectPage_proofs -------------------------
(***************************************************************************)
(* Proofs about ProjectPage, for every rule base of the page and of the    *)
(* service, every vocabulary of answers and any number of suspended        *)
(* handlers.  What makes the invariants inductive is what a waiting        *)
(* "explain" handler carries (CallsMatched): the page forgets the result   *)
(* that it was pressed under, the handler does not.                        *)
(***************************************************************************)
EXTENDS ProjectPage, TLAPS

Slots == [Calls -> Handlers \cup {NoCall}]

Matched(intake, ids) == Unresolved(intake) = {} /\ ids = Screen(PageRules, intake)

CallsMatched(cs) ==
    \A k \in Calls : cs[k] # NoCall /\ cs[k].kind = "explain" =>
                        Matched(cs[k].intake, cs[k].claim)

IInv == TypeOK /\ ResultOfForm /\ ExplainedAsMatched /\ CallsMatched(calls)

-----------------------------------------------------------------------------
(* Lemmas about the operators.                                             *)

\* Screening returns ids of the base, whichever of the two it is given.
LEMMA ScreenIds ==
    ASSUME NEW intake, NEW base \in {PageRules, ServiceRules}
    PROVE  Screen(base, intake) \in SUBSET RuleIds /\ Screen(base, intake) # NoClaim
<1>1. Screen(base, intake) \in SUBSET RuleIds
  BY DEF Screen, RuleIds
<1> QED BY <1>1, PageAssumption DEF RuleIds

\* Elements that are rendered again change nothing else about a handler.
LEMMA DisownedKeeps ==
    ASSUME NEW cs \in Slots, CallsMatched(cs), NEW kinds
    PROVE  Disowned(cs, kinds) \in Slots /\ CallsMatched(Disowned(cs, kinds))
<1> DEFINE ds == Disowned(cs, kinds)
<1>1. ASSUME NEW k \in Calls
      PROVE  /\ ds[k] \in Handlers \cup {NoCall}
             /\ ds[k] # NoCall /\ ds[k].kind = "explain" => Matched(ds[k].intake, ds[k].claim)
  <2>1. CASE cs[k] \notin Handlers \/ cs[k].kind \notin kinds \/ cs[k] = NoCall
    <3>1. ds[k] = cs[k]
      BY <2>1 DEF Disowned, Slots
    <3> QED BY <3>1 DEF CallsMatched, Slots
  <2>2. CASE cs[k] \in Requests /\ cs[k].kind \in kinds /\ cs[k] # NoCall
    <3>1. ds[k] = [cs[k] EXCEPT !.mine = FALSE]
      BY <2>2 DEF Disowned
    <3>2. /\ ds[k] \in Requests
          /\ ds[k].kind = cs[k].kind /\ ds[k].intake = cs[k].intake /\ ds[k].claim = cs[k].claim
      BY <2>2, <3>1 DEF Requests
    <3> QED BY <2>2, <3>2 DEF Handlers, CallsMatched
  <2>3. CASE cs[k] \in Errands /\ cs[k].kind \in kinds /\ cs[k] # NoCall
    <3>1. ds[k] = [cs[k] EXCEPT !.mine = FALSE]
      BY <2>3 DEF Disowned
    <3>2. ds[k] \in Errands /\ ds[k].kind # "explain"
      BY <2>3, <3>1 DEF Errands
    <3> QED BY <3>2 DEF Handlers
  <2> QED BY <2>1, <2>2, <2>3 DEF Handlers
<1>2. ds = [k \in Calls |-> ds[k]]
  BY DEF Disowned
<1> QED BY <1>1, <1>2 DEF Slots, CallsMatched

\* A handler that ends leaves the others alone.
LEMMA FinishedKeeps ==
    ASSUME NEW cs \in Slots, CallsMatched(cs), NEW k \in Calls
    PROVE  Finished(cs, k) \in Slots /\ CallsMatched(Finished(cs, k))
  BY DEF Slots, CallsMatched, Finished

\* A button starts a handler that is told apart by what it carries.
LEMMA StartKeeps ==
    ASSUME NEW k \in Calls, NEW handler \in Handlers, IInv, Start(k, handler),
           handler.kind = "explain" => Matched(handler.intake, handler.claim)
    PROVE  calls' \in Slots /\ CallsMatched(calls') /\ presses' \in 0 .. MaxPresses
<1>1. calls \in Slots /\ CallsMatched(calls)
  BY DEF IInv, TypeOK, Slots
<1>2. calls' \in Slots /\ CallsMatched(calls')
  BY <1>1 DEF Start, Slots, CallsMatched
<1>3. presses' \in 0 .. MaxPresses
  BY PageAssumption DEF IInv, TypeOK, Start
<1> QED BY <1>2, <1>3

\* Whatever is rendered, the new panel fits the new result and holds no text.
LEMMA RenderKeeps ==
    ASSUME NEW res \in Results \cup {NoResult}, NEW cs \in Slots, CallsMatched(cs),
           health \in BOOLEAN, Render(res, cs)
    PROVE  /\ result' = res
           /\ panel' \in Panels \cup {NoPanel}
           /\ panel' # NoPanel => result' # NoResult /\ panel'.review = (result'.kind = "review")
           /\ panel' # NoPanel => panel'.explained = NoText
           /\ calls' \in Slots /\ CallsMatched(calls')
<1>1. calls' \in Slots /\ CallsMatched(calls')
  BY DisownedKeeps DEF Render
<1>2. CASE health /\ res # NoResult
  <2>1. panel' = [review |-> res.kind = "review", button |-> "ready", explained |-> NoText,
                  questions |-> NoText, ask |-> "none", answer |-> NoText]
    BY <1>2 DEF Render, Attached
  <2>2. panel' \in Panels
    BY <2>1 DEF Panels, Buttons
  <2>3. panel'.review = (res.kind = "review") /\ panel'.explained = NoText
    BY <2>1, Zenon
  <2> QED BY <1>1, <1>2, <2>2, <2>3 DEF Render
<1>3. CASE ~(health /\ res # NoResult)
  BY <1>1, <1>3 DEF Render, Attached
<1> QED BY <1>2, <1>3

\* A submitted intake is screened into a result of one of the two kinds.
LEMMA ScreenResultType ==
    ASSUME NEW intake \in Intakes
    PROVE  /\ ScreenResult(intake) \in Results
           /\ ScreenResult(intake).intake = intake
           /\ ScreenResult(intake).kind = "review" <=> Unresolved(intake) # {}
           /\ ScreenResult(intake).kind = "rules" =>
                 ScreenResult(intake).rules = Screen(PageRules, intake)
<1>1. Screen(PageRules, intake) \in SUBSET RuleIds /\ Screen(PageRules, intake) # NoClaim
  BY ScreenIds
<1>2. CASE Unresolved(intake) = {}
  <2>1. ScreenResult(intake) = [kind |-> "rules", intake |-> intake,
                                rules |-> Screen(PageRules, intake)]
    BY <1>2 DEF ScreenResult
  <2> QED BY <1>1, <1>2, <2>1 DEF Results, Claims
<1>3. CASE Unresolved(intake) # {}
  <2>1. ScreenResult(intake) = [kind |-> "review", intake |-> intake, rules |-> NoClaim]
    BY <1>3 DEF ScreenResult
  <2> QED BY <1>3, <2>1 DEF Results, Claims
<1> QED BY <1>2, <1>3

\* What the service sends back is about the intake it was sent.
LEMMA ReplyType ==
    ASSUME NEW call \in Requests, NEW text \in Replies(call)
    PROVE  /\ HasBody(text) => text \in Texts
           /\ HasBody(text) /\ Matched(call.intake, call.claim) =>
                 Matched(text.of, text.rules)
<1>1. CASE ~HasBody(text)
  BY <1>1
<1>2. CASE HasBody(text)
  <2>1. text = TextFor(call) /\ Agrees(call)
    BY <1>2 DEF Replies, HasBody
  <2>2. text.of = call.intake /\ text.rules = Screen(ServiceRules, call.intake)
    BY <2>1 DEF TextFor
  <2>3. text \in Texts
    BY <2>1, ScreenIds DEF TextFor, Texts, Requests
  <2>4. Matched(call.intake, call.claim) => Matched(text.of, text.rules)
    BY <2>1, <2>2, ScreenIds DEF Agrees, Matched
  <2> QED BY <2>3, <2>4
<1> QED BY <1>1, <1>2

-----------------------------------------------------------------------------
(* The invariant.                                                          *)

\* What a step has to show when it renders the result area anew.
LEMMA RenderedInvariant ==
    ASSUME IInv, NEW res \in Results \cup {NoResult}, NEW cs \in Slots, CallsMatched(cs),
           Render(res, cs), form' \in Forms, health' \in BOOLEAN, enable' \in Buttons,
           draft' \in Buttons, presses' \in 0 .. MaxPresses,
           res = NoResult \/ (res = result /\ form' = form)
              \/ /\ res = ScreenResult([place |-> form'.place, facts |-> Shown(form'.facts)])
                 /\ [place |-> form'.place, facts |-> Shown(form'.facts)] \in Intakes
    PROVE  IInv'
<1>1. /\ result' = res
      /\ panel' \in Panels \cup {NoPanel}
      /\ panel' # NoPanel => result' # NoResult /\ panel'.review = (result'.kind = "review")
      /\ panel' # NoPanel => panel'.explained = NoText
      /\ calls' \in Slots /\ CallsMatched(calls')
  BY RenderKeeps DEF IInv, TypeOK
<1>2. TypeOK'
  BY <1>1 DEF TypeOK, Slots
<1>3. ResultOfForm'
  <2>1. CASE res = NoResult
    BY <1>1, <2>1 DEF ResultOfForm
  <2>2. CASE res = result /\ form' = form
    BY <1>1, <2>2 DEF ResultOfForm, IInv
  <2>3. CASE /\ res = ScreenResult([place |-> form'.place, facts |-> Shown(form'.facts)])
             /\ [place |-> form'.place, facts |-> Shown(form'.facts)] \in Intakes
    BY <1>1, <2>3, ScreenResultType DEF ResultOfForm
  <2> QED BY <2>1, <2>2, <2>3
<1>4. ExplainedAsMatched'
  BY <1>1 DEF ExplainedAsMatched
<1> QED BY <1>1, <1>2, <1>3, <1>4 DEF IInv

\* What a step has to show when it leaves the form and the result alone.
LEMMA QuietInvariant ==
    ASSUME IInv, UNCHANGED <<form, result>>, health' \in BOOLEAN, enable' \in Buttons,
           draft' \in Buttons, presses' \in 0 .. MaxPresses,
           calls' \in Slots, CallsMatched(calls'), panel' \in Panels \cup {NoPanel},
           panel' # NoPanel => panel # NoPanel /\ panel'.review = panel.review,
           panel' # NoPanel /\ panel'.explained # NoText /\ panel'.explained # panel.explained =>
              Matched(panel'.explained.of, panel'.explained.rules)
    PROVE  IInv'
<1>1. TypeOK'
  BY DEF IInv, TypeOK, Slots
<1>2. ResultOfForm'
  BY DEF IInv, ResultOfForm
<1>3. ExplainedAsMatched'
  BY DEF IInv, ExplainedAsMatched, Matched
<1> QED BY <1>1, <1>2, <1>3 DEF IInv

\* A handler that throws leaves the texts of the panel as they are.
LEMMA LeftBehindKeeps ==
    ASSUME panel \in Panels \cup {NoPanel}, NEW k \in Calls, panel' = LeftBehind(k)
    PROVE  /\ panel' \in Panels \cup {NoPanel}
           /\ panel' # NoPanel => /\ panel # NoPanel /\ panel'.review = panel.review
                                  /\ panel'.explained = panel.explained
  BY DEF LeftBehind, Panels, Buttons

\* A request in a slot is one of the shape that its kind tells.
LEMMA WaitingRequest ==
    ASSUME calls \in Slots, NEW k \in Calls, NEW kind \in PanelKinds, Waits(k, kind)
    PROVE  calls[k] \in Requests
  BY DEF Slots, Handlers, Requests, Errands, Waits, PanelKinds

\* The page as it is loaded satisfies the invariant.
THEOREM Initial == Init => IInv
<1> SUFFICES ASSUME Init PROVE IInv
  OBVIOUS
<1>1. form \in Forms
  <2>1. [n \in Names |-> NoAnswer] \in Sheets
    BY DEF Sheets
  <2> QED BY <2>1 DEF Init, Forms
<1>2. TypeOK
  <2>1. 0 \in 0 .. MaxPresses
    BY PageAssumption
  <2> QED BY <1>1, <2>1 DEF Init, TypeOK, Buttons
<1> QED BY <1>2 DEF Init, IInv, ResultOfForm, ExplainedAsMatched, CallsMatched

\* Every step of the applicant, and every reply of the service, preserves it.
THEOREM Invariance == IInv /\ [Next]_vars => IInv'
<1> SUFFICES ASSUME IInv, [Next]_vars PROVE IInv'
  OBVIOUS
<1>0. /\ TypeOK /\ ResultOfForm /\ ExplainedAsMatched
      /\ calls \in Slots /\ CallsMatched(calls)
      /\ NoResult \in Results \cup {NoResult}
      /\ result \in Results \cup {NoResult}
      /\ panel \in Panels \cup {NoPanel}
  BY DEF IInv, TypeOK, Slots
<1>1. ASSUME NEW n \in Names, NEW v \in Answers, Change(n, v) PROVE IInv'
  <2>1. form' \in Forms
    BY <1>0, <1>1 DEF Change, TypeOK, Forms, Sheets, Allowed
  <2> QED BY <1>0, <1>1, <2>1, RenderedInvariant DEF Change, Invalidate, TypeOK
<1>2. ASSUME NEW place \in Places \cup {NoPlace}, Type(place) PROVE IInv'
  <2>1. form' \in Forms
    BY <1>0, <1>2 DEF Type, TypeOK, Forms
  <2> QED BY <1>0, <1>2, <2>1, RenderedInvariant DEF Type, Invalidate, TypeOK
<1>3. CASE Submit
  <2>1. form' = form /\ form' \in Forms
    BY <1>0, <1>3 DEF Submit, TypeOK
  <2>2. CASE Invalidate(calls)
    BY <1>0, <1>3, <2>1, <2>2, RenderedInvariant DEF Submit, Invalidate, TypeOK
  <2>3. CASE LET intake == [place |-> form.place, facts |-> Shown(form.facts)]
             IN  intake \in Intakes /\ Render(ScreenResult(intake), calls)
    <3>1. ScreenResult([place |-> form.place, facts |-> Shown(form.facts)]) \in Results
      BY <2>3, ScreenResultType
    <3> QED BY <1>0, <1>3, <2>1, <2>3, <3>1, RenderedInvariant DEF Submit, TypeOK
  <2> QED BY <1>3, <2>2, <2>3 DEF Submit
<1>4. CASE Toggle
  <2>1. Disowned(calls, {"probe", "draft"}) \in Slots
        /\ CallsMatched(Disowned(calls, {"probe", "draft"}))
    BY <1>0, DisownedKeeps
  <2>2. form' \in Forms /\ enable' \in Buttons /\ draft' \in Buttons
    BY <1>0, <1>4 DEF Toggle, TypeOK, Buttons
  <2> QED BY <1>0, <1>4, <2>1, <2>2, RenderedInvariant DEF Toggle, TypeOK
<1>5. ASSUME NEW k \in Calls, Enable(k) PROVE IInv'
  <2>1. [kind |-> "probe", mine |-> TRUE] \in Handlers
    BY DEF Handlers, Errands
  <2>2. calls' \in Slots /\ CallsMatched(calls') /\ presses' \in 0 .. MaxPresses
    BY <1>5, <2>1, StartKeeps DEF Enable
  <2> QED BY <1>0, <1>5, <2>2, QuietInvariant DEF Enable, TypeOK, Buttons
<1>6. ASSUME NEW k \in Calls, Draft(k) PROVE IInv'
  <2>1. [kind |-> "draft", mine |-> TRUE] \in Handlers
    BY DEF Handlers, Errands
  <2>2. calls' \in Slots /\ CallsMatched(calls') /\ presses' \in 0 .. MaxPresses
    BY <1>6, <2>1, StartKeeps DEF Draft
  <2> QED BY <1>0, <1>6, <2>2, QuietInvariant DEF Draft, TypeOK, Buttons
<1>7. ASSUME NEW k \in Calls, Explain(k) PROVE IInv'
  <2> DEFINE handler == [kind |-> IF panel.review THEN "only" ELSE "explain", mine |-> TRUE,
                         intake |-> result.intake,
                         claim |-> IF panel.review THEN NoClaim ELSE result.rules]
  <2>1. result \in Results /\ panel \in Panels /\ panel.review = (result.kind = "review")
    BY <1>0, <1>7 DEF Explain, TypeOK
  <2>2. handler \in Requests
    BY <2>1 DEF Requests, Results, Claims
  <2>3. handler.kind = "explain" => Matched(handler.intake, handler.claim)
    <3> SUFFICES ASSUME handler.kind = "explain" PROVE Matched(result.intake, result.rules)
      OBVIOUS
    <3>1. result.kind = "rules"
      BY <2>1 DEF Results
    <3> QED BY <1>0, <2>1, <3>1, <1>7 DEF ResultOfForm, Matched, Explain, TypeOK
  <2>4. calls' \in Slots /\ CallsMatched(calls') /\ presses' \in 0 .. MaxPresses
    BY <1>7, <2>2, <2>3, StartKeeps DEF Explain, Handlers
  <2>5. panel' \in Panels /\ panel'.review = panel.review /\ panel'.explained = panel.explained
    BY <1>7, <2>1 DEF Explain, Panels, Buttons
  <2> QED BY <1>0, <1>7, <2>1, <2>4, <2>5, QuietInvariant DEF Explain, TypeOK
<1>8. ASSUME NEW k \in Calls, Ask(k) PROVE IInv'
  <2> DEFINE handler == [kind |-> "ask", mine |-> TRUE, intake |-> result.intake,
                         claim |-> result.rules]
  <2>1. result \in Results /\ panel \in Panels
    BY <1>0, <1>8 DEF Ask, TypeOK
  <2>2. handler \in Requests /\ handler.kind # "explain"
    BY <2>1 DEF Requests, Results
  <2>3. calls' \in Slots /\ CallsMatched(calls') /\ presses' \in 0 .. MaxPresses
    BY <1>8, <2>2, StartKeeps DEF Ask, Handlers
  <2>4. panel' \in Panels /\ panel'.review = panel.review /\ panel'.explained = panel.explained
    BY <1>8, <2>1 DEF Ask, Panels, Buttons
  <2> QED BY <1>0, <1>8, <2>1, <2>3, <2>4, QuietInvariant DEF Ask, TypeOK
<1>9. ASSUME NEW k \in Calls, ProbeReply(k) PROVE IInv'
  <2>1. Disowned(calls, {"draft"}) \in Slots /\ CallsMatched(Disowned(calls, {"draft"}))
    BY <1>0, DisownedKeeps
  <2>2. calls' \in Slots /\ CallsMatched(calls')
    BY <1>0, <1>9, <2>1, FinishedKeeps DEF ProbeReply
  <2>3. enable' \in Buttons /\ draft' \in Buttons /\ health' \in BOOLEAN
    BY <1>0, <1>9 DEF ProbeReply, TypeOK, Buttons
  <2> QED BY <1>0, <1>9, <2>2, <2>3, QuietInvariant DEF ProbeReply, TypeOK
<1>10. ASSUME NEW k \in Calls, DraftReply(k) PROVE IInv'
  <2>1. Finished(calls, k) \in Slots /\ CallsMatched(Finished(calls, k))
    BY <1>0, <1>10, FinishedKeeps
  <2>2. draft' \in Buttons
    BY <1>0, <1>10 DEF DraftReply, TypeOK, Buttons
  <2>3. CASE UNCHANGED <<form, result, panel>> /\ calls' = Finished(calls, k)
    BY <1>0, <1>10, <2>1, <2>2, <2>3, QuietInvariant DEF DraftReply, TypeOK
  <2>4. ASSUME NEW facts \in Sheets, NEW place \in Places \cup {form.place},
               form' = [place |-> place, facts |-> facts], Invalidate(Finished(calls, k))
        PROVE  IInv'
    <3>1. form' \in Forms
      BY <1>0, <2>4 DEF TypeOK, Forms
    <3> QED BY <1>0, <1>10, <2>1, <2>2, <2>4, <3>1, RenderedInvariant
            DEF DraftReply, Invalidate, TypeOK
  <2> QED BY <1>10, <2>3, <2>4 DEF DraftReply
<1>11. ASSUME NEW k \in Calls, ExplainReply(k) PROVE IInv'
  <2>1. calls[k] \in Requests /\ calls[k].kind = "explain" /\ calls[k] # NoCall
    BY <1>0, <1>11, WaitingRequest DEF ExplainReply, PanelKinds, Waits
  <2>2. Matched(calls[k].intake, calls[k].claim)
    BY <1>0, <2>1 DEF CallsMatched
  <2>3. Finished(calls, k) \in Slots /\ CallsMatched(Finished(calls, k))
    BY <1>0, FinishedKeeps
  <2>4. UNCHANGED <<form, result, health, enable, draft, presses>>
    BY <1>11 DEF ExplainReply
  <2>5. PICK text \in Replies(calls[k]) :
          \/ /\ text = NoText
             /\ panel' = IF calls[k].mine /\ panel # NoPanel
                         THEN [panel EXCEPT !.button = "ready"] ELSE panel
             /\ calls' = Finished(calls, k)
          \/ /\ HasBody(text) /\ panel # NoPanel
             /\ panel' = [panel EXCEPT !.explained = text]
             /\ calls' = [calls EXCEPT ![k].kind = "after"]
          \/ /\ panel' = LeftBehind(k)
             /\ calls' = Finished(calls, k)
    BY <1>11 DEF ExplainReply
  <2>6. HasBody(text) => text \in Texts /\ Matched(text.of, text.rules)
    BY <2>1, <2>2, ReplyType
  <2>7. CASE /\ panel' = IF calls[k].mine /\ panel # NoPanel
                         THEN [panel EXCEPT !.button = "ready"] ELSE panel
             /\ calls' = Finished(calls, k)
    <3>1. /\ panel' \in Panels \cup {NoPanel}
          /\ panel' # NoPanel => /\ panel # NoPanel /\ panel'.review = panel.review
                                 /\ panel'.explained = panel.explained
      BY <1>0, <2>7 DEF Panels, Buttons
    <3> QED BY <1>0, <2>3, <2>4, <2>7, <3>1, QuietInvariant DEF TypeOK
  <2>8. CASE /\ HasBody(text) /\ panel # NoPanel
             /\ panel' = [panel EXCEPT !.explained = text]
             /\ calls' = [calls EXCEPT ![k].kind = "after"]
    <3>1. panel' \in Panels /\ panel'.review = panel.review /\ panel'.explained = text
      BY <1>0, <2>6, <2>8 DEF Panels
    <3>2. calls' \in Slots /\ CallsMatched(calls')
      BY <1>0, <2>1, <2>8 DEF Slots, CallsMatched, Handlers, Requests
    <3> QED BY <1>0, <2>4, <2>6, <2>8, <3>1, <3>2, QuietInvariant DEF TypeOK
  <2>9. CASE panel' = LeftBehind(k) /\ calls' = Finished(calls, k)
    <3>1. /\ panel' \in Panels \cup {NoPanel}
          /\ panel' # NoPanel => /\ panel # NoPanel /\ panel'.review = panel.review
                                 /\ panel'.explained = panel.explained
      BY <1>0, <2>9, LeftBehindKeeps
    <3> QED BY <1>0, <2>3, <2>4, <2>9, <3>1, QuietInvariant DEF TypeOK
  <2> QED BY <2>5, <2>7, <2>8, <2>9
<1>12. ASSUME NEW k \in Calls, AfterReply(k) PROVE IInv'
  <2>1. calls[k] \in Requests
    BY <1>0, <1>12, WaitingRequest DEF AfterReply, PanelKinds
  <2>2. UNCHANGED <<form, result, health, enable, draft, presses>>
    BY <1>12 DEF AfterReply
  <2>3. PICK text \in Replies(calls[k]) :
          \/ /\ text # NoBody
             /\ panel' = IF panel = NoPanel THEN NoPanel
                         ELSE [panel EXCEPT
                                  !.questions = IF text = NoText THEN @ ELSE text,
                                  !.button = IF calls[k].mine THEN "hidden" ELSE @,
                                  !.ask = "ready", !.answer = NoText]
          \/ panel' = LeftBehind(k)
    BY <1>12 DEF AfterReply
  <2>4. HasBody(text) => text \in Texts
    BY <2>1, ReplyType
  <2>5. /\ panel' \in Panels \cup {NoPanel}
        /\ panel' # NoPanel => /\ panel # NoPanel /\ panel'.review = panel.review
                               /\ panel'.explained = panel.explained
    <3>1. CASE panel' = LeftBehind(k)
      BY <1>0, <3>1, LeftBehindKeeps
    <3>2. CASE /\ text # NoBody
               /\ panel' = IF panel = NoPanel THEN NoPanel
                           ELSE [panel EXCEPT
                                    !.questions = IF text = NoText THEN @ ELSE text,
                                    !.button = IF calls[k].mine THEN "hidden" ELSE @,
                                    !.ask = "ready", !.answer = NoText]
      BY <1>0, <2>4, <3>2 DEF Panels, Buttons, HasBody
    <3> QED BY <2>3, <3>1, <3>2
  <2>6. Disowned(calls, {"ask"}) \in Slots /\ CallsMatched(Disowned(calls, {"ask"}))
    BY <1>0, DisownedKeeps
  <2>7. calls' \in Slots /\ CallsMatched(calls')
    BY <1>0, <1>12, <2>6, FinishedKeeps DEF AfterReply
  <2> QED BY <1>0, <2>2, <2>5, <2>7, QuietInvariant DEF TypeOK
<1>13. ASSUME NEW k \in Calls, OnlyReply(k) PROVE IInv'
  <2>1. calls[k] \in Requests
    BY <1>0, <1>13, WaitingRequest DEF OnlyReply, PanelKinds
  <2>2. UNCHANGED <<form, result, health, enable, draft, presses>>
    BY <1>13 DEF OnlyReply
  <2>3. PICK text \in Replies(calls[k]) :
          \/ /\ text # NoBody
             /\ panel' = IF panel = NoPanel THEN NoPanel
                         ELSE [panel EXCEPT
                                  !.questions = IF text = NoText THEN @ ELSE text,
                                  !.button = IF ~calls[k].mine THEN @
                                             ELSE IF text = NoText THEN "ready" ELSE "hidden"]
          \/ panel' = LeftBehind(k)
    BY <1>13 DEF OnlyReply
  <2>4. HasBody(text) => text \in Texts
    BY <2>1, ReplyType
  <2>5. /\ panel' \in Panels \cup {NoPanel}
        /\ panel' # NoPanel => /\ panel # NoPanel /\ panel'.review = panel.review
                               /\ panel'.explained = panel.explained
    <3>1. CASE panel' = LeftBehind(k)
      BY <1>0, <3>1, LeftBehindKeeps
    <3>2. CASE /\ text # NoBody
               /\ panel' = IF panel = NoPanel THEN NoPanel
                           ELSE [panel EXCEPT
                                    !.questions = IF text = NoText THEN @ ELSE text,
                                    !.button = IF ~calls[k].mine THEN @
                                               ELSE IF text = NoText THEN "ready" ELSE "hidden"]
      BY <1>0, <2>4, <3>2 DEF Panels, Buttons, HasBody
    <3> QED BY <2>3, <3>1, <3>2
  <2>6. calls' \in Slots /\ CallsMatched(calls')
    BY <1>0, <1>13, FinishedKeeps DEF OnlyReply
  <2> QED BY <1>0, <2>2, <2>5, <2>6, QuietInvariant DEF TypeOK
<1>14. ASSUME NEW k \in Calls, AskReply(k) PROVE IInv'
  <2>1. calls[k] \in Requests
    BY <1>0, <1>14, WaitingRequest DEF AskReply, PanelKinds
  <2>2. UNCHANGED <<form, result, health, enable, draft, presses>>
    BY <1>14 DEF AskReply
  <2>3. PICK text \in Replies(calls[k]) :
          panel' = IF panel = NoPanel \/ panel.ask = "none" THEN panel
                   ELSE [panel EXCEPT
                            !.answer = IF HasBody(text) THEN text ELSE @,
                            !.ask = IF calls[k].mine THEN "ready" ELSE @]
    BY <1>14 DEF AskReply
  <2>4. HasBody(text) => text \in Texts
    BY <2>1, ReplyType
  <2>5. /\ panel' \in Panels \cup {NoPanel}
        /\ panel' # NoPanel => /\ panel # NoPanel /\ panel'.review = panel.review
                               /\ panel'.explained = panel.explained
    BY <1>0, <2>3, <2>4 DEF Panels, Buttons
  <2>6. calls' \in Slots /\ CallsMatched(calls')
    BY <1>0, <1>14, FinishedKeeps DEF AskReply
  <2> QED BY <1>0, <2>2, <2>5, <2>6, QuietInvariant DEF TypeOK
<1>15. CASE UNCHANGED vars
  <2>1. UNCHANGED <<form, result, health, enable, draft, panel, calls, presses>>
    BY <1>15 DEF vars
  <2> QED BY <1>0, <2>1, QuietInvariant DEF TypeOK
<1> QED BY <1>1, <1>2, <1>3, <1>4, <1>5, <1>6, <1>7, <1>8, <1>9, <1>10, <1>11, <1>12,
           <1>13, <1>14, <1>15 DEF Next, Reply
-----------------------------------------------------------------------------
(* The theorems.                                                           *)

\* The variables keep their types, and a panel is always under a result of
\* its own kind, in whatever order handlers resume.
THEOREM TypeCorrect == Spec => []TypeOK
<1>1. IInv => TypeOK
  BY DEF IInv
<1> QED BY <1>1, Initial, Invariance, PTL DEF Spec

\* The result on the page is that of the answers in the form: for every
\* vocabulary and rule base, no late draft or edit leaves an older one behind
\* (renderResults and invalidateRenderedProjectResult in assets/demo.js).
THEOREM ResultMatchesForm == Spec => []ResultOfForm
<1>1. IInv => ResultOfForm
  BY DEF IInv
<1> QED BY <1>1, Initial, Invariance, PTL DEF Spec

\* An explanation on the page is of the rules that the page itself matched,
\* whatever rules the service has loaded (matched_rules in ai/explain.py).
THEOREM ExplanationsMatch == Spec => []ExplainedAsMatched
<1>1. IInv => ExplainedAsMatched
  BY DEF IInv
<1> QED BY <1>1, Initial, Invariance, PTL DEF Spec
=============================================================================
