------------------------------ MODULE AiService ------------------------------
(***************************************************************************)
(* The optional AI service behind the project-check page (ai/service.py):  *)
(* explanations and answers (ai/explain.py), questions for staff           *)
(* (ai/staff_questions.py) and drafts of the form (ai/intake.py).  It has  *)
(* no state but what it loaded when it started; the handlers of different  *)
(* requests share nothing but that and the budget, which is AiBudget's, so *)
(* one request at a time is looked at.                                     *)
(*                                                                         *)
(* The model may write anything.  A handler goes through the reply item by *)
(* item, so the reply is chosen item by item, where the handler reads it.  *)
(***************************************************************************)
EXTENDS Screening, Corpus

CONSTANTS
    Contexts,       \* what the service can have loaded
    Questions,      \* free questions, told apart by the passages that they match
    Descriptions,   \* what applicants write about their project
    Quotes,         \* quotes that the model can give
    Claims,         \* claims that it can write: sets of citations
    WrittenPlaces,  \* jurisdiction names that it can copy
    AnswerClaims,   \* claims of an answer that are read
    MaxQuestions,   \* MAX_QUESTIONS
    MaxRead,        \* bound on the items of one reply
    MinSupport,     \* the least quote that supports a value, in words
    NoClaim, NoRequest, Missing, Unread, Other, Null

\* A citation names a passage that exists, in whatever document, or none.
PassageNames == UNION {Passages(c.documents, DOMAIN c.documents) : c \in Contexts}
Citations    == [passage : PassageNames \cup {Null}, quote : Quotes]

RuleIds == UNION {DOMAIN c.rules : c \in Contexts}

\* A jurisdiction's name, without the words "city of" or "county of" in front:
\* its stem, and whether "county" follows.
PlaceNames == [stem : Words, county : BOOLEAN]

ASSUME ServiceAssumption ==
    /\ \A c \in Contexts :
          /\ DOMAIN c.rules \subseteq Nat /\ IsFiniteSet(DOMAIN c.rules)
          /\ c.rules \in [DOMAIN c.rules -> Rules]
          /\ c.sources \in [DOMAIN c.rules -> Seq(STRING)]
          /\ \A s \in DOMAIN c.documents : c.documents[s] \in Documents /\ WellSplit(c.documents[s])
          /\ \A r \in DOMAIN c.rules :
                /\ c.scores[r] \in [PassageNames -> Nat]
                /\ \A p, q \in PassageNames :
                      c.scores[r][p] = c.scores[r][q] => c.scores[r][p] = 0 \/ p = q
          /\ c.registry \in [Places -> [name : PlaceNames, kind : {"city", "county"}]]
    /\ Questions \cap {"explain", "staff", "intake"} = {}
    /\ Unknown \notin Types /\ IsFiniteSet(Places)
    /\ Quotes \subseteq Texts /\ Null \notin Quotes
    /\ Descriptions \subseteq Texts
    /\ Claims \subseteq SUBSET Citations
    /\ WrittenPlaces \subseteq [words : Texts, front : {"none", "city of", "county of"}, name : PlaceNames]
    /\ {AnswerClaims, MaxQuestions, MaxRead, MinSupport} \subseteq Nat \ {0}

VARIABLES
    context,        \* what the running service has loaded
    request,        \* the request it works on
    status,
    offered,        \* passages offered to the model
    read,           \* items of the reply read so far
    shown,          \* claims that go to the applicant
    pointers,       \* what the drafted staff questions point at
    fields,         \* fields of the draft read so far
    place           \* the jurisdiction of the draft

vars    == <<context, request, status, offered, read, shown, pointers, fields, place>>
drafted == <<fields, place>>
told    == <<offered, shown, pointers>>

\* What validate_intake lets through: some of the answers, and any place.
Sent == {i \in [place : Places \cup {NoPlace}, facts : Sheets] : i.facts["project_type"] \in Types}

ResultRequests ==
    [kind : {"explain", "staff"} \cup Questions, intake : Sent, claim : {NoClaim} \cup SUBSET RuleIds]
IntakeRequests == [kind : {"intake"}, text : Descriptions]

NoFields == [n \in Names |-> Unread]

-----------------------------------------------------------------------------
(* Requests about a result.                                                *)

Matched(req) == Screen(context.rules, req.intake)

Take(req, outcome) ==
    /\ request' = req
    /\ status' = outcome
    /\ read' = 0
    /\ UNCHANGED <<context, drafted>>

\* matched_rules: the caller claims another result.
Disagree(req) ==
    /\ req.claim \notin {NoClaim, Matched(req)}
    /\ Take(req, "disagreement")
    /\ UNCHANGED told

\* Nothing to explain: the model is not asked.
NothingMatched(req) ==
    /\ req.claim \in {NoClaim, Matched(req)}
    /\ req.kind # "staff" /\ Matched(req) = {}
    /\ Take(req, "answered")
    /\ UNCHANGED told

PassagesFor(req) ==
    IF req.kind = "staff" THEN {}
    ELSE IF req.kind = "explain" THEN GroundingPassages(context, Matched(req))
    ELSE QuestionPassages(context, Matched(req), context.questions[req.kind])

Consult(req) ==
    /\ req.claim \in {NoClaim, Matched(req)}
    /\ req.kind = "staff" \/ Matched(req) # {}
    /\ Take(req, "asked")
    /\ offered' = PassagesFor(req)
    /\ UNCHANGED <<shown, pointers>>

Limit(kind) == IF kind = "explain" THEN MaxRead ELSE IF kind = "staff" THEN MaxQuestions ELSE AnswerClaims

Reading(kinds) == status = "asked" /\ request.kind \in kinds /\ read < Limit(request.kind)

\* Mutant: the passage that is cited need not have been offered.
VerifyAnyCitation(c) == c.passage # Null /\ VerifyQuote(context.documents, c.passage[1], c.quote)

VerifyCitation(c) ==
    c.passage \in offered /\ VerifyQuote(context.documents, c.passage[1], c.quote)

\* Mutant: one good citation is enough.
SurvivesOnOne(claim) == \E c \in claim : VerifyCitation(c)

\* _verify_claim: {} is a malformed or empty claim, or one without a citation.
Survives(claim) == claim # {} /\ \A c \in claim : VerifyCitation(c)

ReadClaim(claim) ==
    /\ Reading({"explain"} \cup Questions)
    /\ shown' = IF Survives(claim) THEN shown \cup {claim} ELSE shown
    /\ read' = read + 1
    /\ UNCHANGED <<context, request, status, offered, pointers, drafted>>

\* unresolved_facts, and what the form asks for.
KnownFacts(intake) == {f \in Facts : intake.facts[f] = Unknown} \cup Asked(intake.facts)

\* A pointer that does not resolve is dropped, the question kept.
ReadQuestion(rule, fact) ==
    /\ Reading({"staff"})
    /\ pointers' = pointers \cup
         {[rule |-> IF rule \in Matched(request) THEN rule ELSE Null,
           fact |-> IF fact \in KnownFacts(request.intake) THEN fact ELSE Null]}
    /\ read' = read + 1
    /\ UNCHANGED <<context, request, status, offered, shown, drafted>>

-----------------------------------------------------------------------------
(* Drafts of the form.                                                     *)

Describe(text) ==
    /\ request' = [kind |-> "intake", text |-> text]
    /\ status' = "asked"
    /\ UNCHANGED <<context, told, read, drafted>>

Replies == {Missing} \cup [value : Answers \cup {Unknown, Other}, quote : Quotes \cup {<< >>}]

\* _quote_supports
Supports(quote, text) == Len(quote) >= MinSupport /\ Occurs(quote, text)

Fields == [value : Answers \cup {Unknown}, quote : Quotes \cup {Null},
           status : {"extracted", "unknown", "not_applicable", "downgraded"}]

Nothing(why) == [value |-> Unknown, quote |-> Null, status |-> why]

\* Mutant: a value that is in the list is taken without a quote.
FieldFromValue(values, raw, text) ==
    IF raw = Missing THEN Nothing("unknown")
    ELSE IF raw.value \notin values \cup {Unknown} THEN Nothing("downgraded")
    ELSE IF raw.value = Unknown THEN Nothing("unknown")
    ELSE [value |-> raw.value, status |-> "extracted",
          quote |-> IF Supports(raw.quote, text) THEN raw.quote ELSE Null]

\* _field_from, for a field that applies.
FieldFrom(values, raw, text) ==
    IF raw = Missing THEN Nothing("unknown")
    ELSE IF raw.value \notin values \cup {Unknown} THEN Nothing("downgraded")
    ELSE IF raw.value = Unknown THEN Nothing("unknown")
    ELSE IF ~Supports(raw.quote, text) THEN Nothing("downgraded")
    ELSE [value |-> raw.value, quote |-> raw.quote, status |-> "extracted"]

Extracting(n) == status = "asked" /\ request.kind = "intake" /\ fields[n] = Unread

\* extract_intake: the project type first.
ReadType(raw) ==
    /\ Extracting("project_type")
    /\ fields' = [fields EXCEPT !["project_type"] = FieldFrom(Types, raw, request.text)]
    /\ UNCHANGED <<context, request, status, told, read, place>>

\* Mutant: every fact applies.
Everything(type) == Facts

\* material_fields, of an unknown project type nothing.
Applicable(type) == IF type \in Types THEN Material[type] ELSE {}

ReadFact(f, raw) ==
    /\ Extracting(f)
    /\ fields["project_type"] # Unread
    /\ fields' = [fields EXCEPT ![f] =
                    IF f \in Applicable(fields["project_type"].value)
                    THEN FieldFrom(Values[f], raw, request.text)
                    ELSE Nothing("not_applicable")]
    /\ UNCHANGED <<context, request, status, told, read, place>>

-----------------------------------------------------------------------------
(* The jurisdiction that the description names.                            *)

WantsCounty(written) == written.front = "county of" \/ written.name.county

\* Mutant: any place whose name begins like the one that is written.
SameStem(written) == {p \in Places : context.registry[p].name.stem = written.name.stem}

\* resolve_jurisdiction: the places with the very name, or if there is none and
\* a county is meant, the county of that name.
ExactPlaces(written) ==
    LET exact == {p \in Places : context.registry[p].name = written.name}
    IN  IF exact # {} \/ ~WantsCounty(written) THEN exact
        ELSE {p \in Places : /\ context.registry[p].kind = "county"
                             /\ context.registry[p].name = [written.name EXCEPT !.county = TRUE]}

\* Mutant: the first place of several is taken.
ResolvedFirst(written, quote, text) ==
    IF /\ Supports(quote, text) \/ Supports(written.words, text)
       /\ ExactPlaces(written) # {}
    THEN CHOOSE p \in Places : p \in ExactPlaces(written)
    ELSE NoPlace

\* The words or the quote must be in the description; one place must remain.
Resolved(written, quote, text) ==
    IF /\ Supports(quote, text) \/ Supports(written.words, text)
       /\ Cardinality(ExactPlaces(written)) = 1
    THEN CHOOSE p \in Places : p \in ExactPlaces(written)
    ELSE NoPlace

FieldsRead == status = "asked" /\ request.kind = "intake" /\ \A n \in Names : fields[n] # Unread

ReadPlace(written, quote) ==
    /\ FieldsRead /\ place = Unread
    /\ place' = [slug |-> Resolved(written, quote, request.text), written |-> written, quote |-> quote]
    /\ UNCHANGED <<context, request, status, told, read, fields>>

\* No name at all.
ReadNoPlace ==
    /\ FieldsRead /\ place = Unread
    /\ place' = Null
    /\ UNCHANGED <<context, request, status, told, read, fields>>

-----------------------------------------------------------------------------

\* The provider fails or refuses, or the reply is not what the handler can read.
NoReply ==
    /\ status = "asked" /\ read = 0 /\ fields = NoFields /\ place = Unread
    /\ status' = "failed"
    /\ UNCHANGED <<context, request, told, read, drafted>>

Reply ==
    /\ status = "asked"
    /\ request.kind = "intake" => place # Unread
    /\ status' = "answered"
    /\ UNCHANGED <<context, request, told, read, drafted>>

\* The response is sent and forgotten.
Forget ==
    /\ status \in {"answered", "disagreement", "failed"}
    /\ status' = "idle" /\ request' = NoRequest /\ read' = 0
    /\ offered' = {} /\ shown' = {} /\ pointers' = {}
    /\ fields' = NoFields /\ place' = Unread
    /\ UNCHANGED context

\* The service is started again, from another commit.
Restart(c) ==
    /\ status = "idle"
    /\ context' = c
    /\ UNCHANGED <<request, status, told, read, drafted>>

Init ==
    /\ context \in Contexts
    /\ request = NoRequest /\ status = "idle" /\ read = 0
    /\ offered = {} /\ shown = {} /\ pointers = {}
    /\ fields = NoFields /\ place = Unread

Receive ==
    /\ status = "idle"
    /\ \/ \E req \in ResultRequests : Disagree(req) \/ NothingMatched(req) \/ Consult(req)
       \/ \E text \in Descriptions : Describe(text)

ReadItem ==
    \/ \E claim \in Claims : ReadClaim(claim)
    \/ \E rule \in RuleIds \cup {Other}, fact \in Facts \cup {Other} : ReadQuestion(rule, fact)
    \/ \E raw \in Replies : ReadType(raw) \/ \E f \in Facts : ReadFact(f, raw)
    \/ \E written \in WrittenPlaces, quote \in Quotes \cup {<< >>} : ReadPlace(written, quote)
    \/ ReadNoPlace

Next ==
    \/ Receive \/ ReadItem \/ NoReply \/ Reply \/ Forget
    \/ \E c \in Contexts : Restart(c)

Spec == Init /\ [][Next]_vars

-----------------------------------------------------------------------------
(* Properties.                                                             *)

\* Types of the variables.
TypeOK ==
    /\ context \in Contexts
    /\ request \in IF status = "idle" THEN {NoRequest} ELSE ResultRequests \cup IntakeRequests
    /\ status \in {"idle", "asked", "answered", "disagreement", "failed"}
    /\ offered \subseteq PassageNames
    /\ read \in Nat
    /\ read > 0 => status # "idle" /\ request.kind # "intake" /\ read <= Limit(request.kind)
    /\ shown \subseteq Claims
    /\ pointers \subseteq [rule : RuleIds \cup {Null}, fact : Facts \cup {Null}]
    /\ fields \in [Names -> Fields \cup {Unread}]
    /\ place \in [slug : Places \cup {NoPlace}, written : WrittenPlaces, quote : Quotes \cup {<< >>}]
                    \cup {Unread, Null}

\* Whatever the model writes, each claim that is shown stands on documents that
\* rules which match these answers depend on: each of its citations quotes
\* enough words of such a document, none is of another document or made up,
\* and a claim with one bad citation is not shown with the others.
ShownIsGrounded ==
    \A claim \in shown :
        /\ claim # {}
        /\ \A c \in claim :
              /\ Len(c.quote) >= MinQuote
              /\ \E r \in Matched(request) :
                    c.passage \in ScopeOf(context, {r}) /\ Occurs(c.quote, context.documents[c.passage[1]].text)

\* As long as no more rules match than passages are offered, the model, when it
\* is asked, is offered the first passage of every rule, the one with the rule's own excerpt
\* if that is found: a rule with many good passages starves no other, and the
\* passages for a question push none of these out.
EveryRuleHeard ==
    /\ status = "asked" /\ read = 0 /\ request.kind \in {"explain"} \cup Questions
    /\ Cardinality(Matched(request)) <= MaxPassages
    =>
        \A r \in Matched(request) :
            /\ ExcerptPassage(context, r) \subseteq offered
            /\ DOMAIN ListOf(context, r) # {} => DOMAIN ListOf(context, r) \cap offered # {}

\* What the draft writes into the form.
Draft == [n \in Names |-> IF \/ fields[n].status = "not_applicable"
                             \/ n = "project_type" /\ fields[n].value = Unknown
                          THEN NoAnswer ELSE fields[n].value]

\* The draft is one that the form can show: no answer to a question that its
\* own project type does not ask, whatever the model wrote and in whatever
\* order its mistakes are found, no value that the form does not have, and
\* nothing but "I'm not sure" without words of the description behind it.
DraftFitsForm ==
    status = "answered" /\ request.kind = "intake" =>
        /\ Draft = Shown(Draft)
        /\ \A n \in Names :
              /\ Draft[n] \in Allowed(n) \cup {NoAnswer, Unknown}
              /\ Draft[n] \notin {NoAnswer, Unknown} =>
                    fields[n].quote # Null /\ Supports(fields[n].quote, request.text)

Filled == place \notin {Unread, Null} /\ place.slug # NoPlace

Called(name) == {p \in Places : context.registry[p].name = name}

Counties == {p \in Places : context.registry[p].kind = "county"}

\* A jurisdiction is filled in only for words of the description, and only if
\* it is the one place that can be meant: the only one with the name that was
\* written or, where no place has that name and a county is spoken of, the only
\* county with the name that this county would have.
PlaceAsWritten ==
    Filled =>
        LET written == place.written.name IN
        /\ Supports(place.quote, request.text) \/ Supports(place.written.words, request.text)
        /\ \/ Called(written) = {place.slug}
           \/ /\ Called(written) = {} /\ WantsCounty(place.written)
              /\ Called([written EXCEPT !.county = TRUE]) \cap Counties = {place.slug}

\* A description that names a county has a county filled in, if anything:
\* "Condado de Yolo" is Yolo County (tests/test_ai_intake.py, the test of
\* cities, counties and ambiguity), and so is every county written like this.
CountyAsWritten ==
    Filled /\ WantsCounty(place.written) /\ Occurs(place.written.words, request.text) =>
        place.slug \in Counties
=============================================================================
