--------------------------- MODULE AiService_proofs ---------------------------
(***************************************************************************)
(* What the service lets through, for every rule base, every set of        *)
(* documents and whatever the model writes.                                *)
(*                                                                         *)
(* The invariant says what the handlers rely on: the passages offered are  *)
(* of sources of rules that match, what was let through passed the checks  *)
(* against this very request, and nothing is left over between requests.   *)
(***************************************************************************)
EXTENDS AiService, WellFoundedInduction, FiniteSetTheorems, TLAPS

-----------------------------------------------------------------------------
(* Passages.                                                               *)

\* The passage of an excerpt belongs to a source that the rule depends on.
LEMMA ExcerptInScope ==
    ASSUME NEW ctx, NEW r
    PROVE  ExcerptPassage(ctx, r) \subseteq ScopeOf(ctx, {r})
<1> SUFFICES ASSUME NEW p \in ExcerptPassage(ctx, r) PROVE p \in ScopeOf(ctx, {r})
    OBVIOUS
<1>1. PICK k \in DOMAIN ctx.sources[r] :
          /\ ctx.sources[r][k] \in DOMAIN ctx.documents
          /\ p \in {ctx.sources[r][k]} \X Holding(ctx.documents[ctx.sources[r][k]], ctx.excerpts[r])
    BY DEF ExcerptPassage
<1>2. ctx.sources[r][k] \in UNION {DependsOn(ctx, s) : s \in {r}}
    BY DEF DependsOn
<1>3. p \in {ctx.sources[r][k]} \X DOMAIN ctx.documents[ctx.sources[r][k]].ends
    BY <1>1 DEF Holding
<1> QED
    BY <1>1, <1>2, <1>3 DEF ScopeOf, Passages

\* A rule's list holds passages of its own sources.
LEMMA ListInScope ==
    ASSUME NEW ctx, NEW r
    PROVE  DOMAIN ListOf(ctx, r) \subseteq ScopeOf(ctx, {r})
BY ExcerptInScope DEF ListOf, Ranked

\* grounding_passages offers passages of sources of these rules.
LEMMA GroundingInScope ==
    ASSUME NEW ctx, NEW rules, NEW p \in GroundingPassages(ctx, rules)
    PROVE  \E r \in rules : p \in ScopeOf(ctx, {r})
BY ListInScope DEF GroundingPassages

\* A passage in the scope of several rules is in the scope of one.
LEMMA ScopeOfOne ==
    ASSUME NEW ctx, NEW rules, NEW p \in ScopeOf(ctx, rules)
    PROVE  \E r \in rules : p \in ScopeOf(ctx, {r})
BY DEF ScopeOf, Passages

\* So do the passages for a question.
LEMMA QuestionInScope ==
    ASSUME NEW ctx, NEW rules, NEW score, NEW p \in QuestionPassages(ctx, rules, score)
    PROVE  \E r \in rules : p \in ScopeOf(ctx, {r})
BY GroundingInScope, ScopeOfOne DEF QuestionPassages, Ranked

\* Scopes name passages that exist.
LEMMA ScopeExists ==
    ASSUME NEW ctx \in Contexts, NEW rules
    PROVE  ScopeOf(ctx, rules) \subseteq PassageNames
<1>1. ScopeOf(ctx, rules) \subseteq Passages(ctx.documents, DOMAIN ctx.documents)
    BY DEF ScopeOf, Passages
<1> QED
    BY <1>1 DEF PassageNames

-----------------------------------------------------------------------------
(* The invariant.                                                          *)

\* Nothing of a request is left when it is done.
Clean ==
    status = "idle" =>
        /\ read = 0 /\ offered = {} /\ shown = {} /\ pointers = {}
        /\ fields = NoFields /\ place = Unread

OfferedInScope == \A p \in offered : \E r \in Matched(request) : p \in ScopeOf(context, {r})

ShownSurvive == \A claim \in shown : Survives(claim)

\* What _field_from lets through for a field that applies.
Backed(n, field, text) ==
    /\ field.status # "not_applicable"
    /\ field.value \in Allowed(n) \cup {Unknown}
    /\ field.value # Unknown => field.quote # Null /\ Supports(field.quote, text)

\* The project type is read first and decides which facts apply.
FieldsFit ==
    /\ fields["project_type"] # Unread => Backed("project_type", fields["project_type"], request.text)
    /\ \A f \in Facts : fields[f] # Unread =>
          /\ fields["project_type"] # Unread
          /\ IF f \in Applicable(fields["project_type"].value)
             THEN Backed(f, fields[f], request.text)
             ELSE fields[f].status = "not_applicable"

\* The place is read last.
PlaceLast ==
    /\ place # Unread => \A n \in Names : fields[n] # Unread
    /\ status = "answered" /\ request.kind = "intake" => place # Unread

IInv ==
    /\ TypeOK /\ Clean
    /\ OfferedInScope /\ ShownSurvive
    /\ FieldsFit /\ PlaceLast /\ PlaceAsWritten

LEMMA InitInv == Init => IInv
<1> SUFFICES ASSUME Init PROVE IInv
    OBVIOUS
<1>1. TypeOK
    BY DEF Init, TypeOK, NoFields
<1>2. Clean
    BY DEF Init, Clean
<1>3. OfferedInScope /\ ShownSurvive /\ PlaceAsWritten
    BY DEF Init, OfferedInScope, ShownSurvive, PlaceAsWritten, Filled
<1>4. FieldsFit /\ PlaceLast
    BY DEF Init, FieldsFit, PlaceLast, NoFields, Names
<1> QED
    BY <1>1, <1>2, <1>3, <1>4 DEF IInv

-----------------------------------------------------------------------------
(* What the handlers compute.                                              *)

\* _field_from gives a field of the draft that can be backed.
LEMMA FieldFromBacked ==
    ASSUME NEW n \in Names, NEW raw \in Replies, NEW text
    PROVE  /\ FieldFrom(Allowed(n), raw, text) \in Fields
           /\ Backed(n, FieldFrom(Allowed(n), raw, text), text)
<1> DEFINE field == FieldFrom(Allowed(n), raw, text)
<1>1. \A why \in {"unknown", "downgraded"} : Nothing(why) \in Fields /\ Backed(n, Nothing(why), text)
    BY DEF Nothing, Fields, Backed
<1>2. CASE field \in {Nothing("unknown"), Nothing("downgraded")}
    BY <1>1, <1>2
<1>3. CASE field \notin {Nothing("unknown"), Nothing("downgraded")}
    <2>1. /\ raw # Missing /\ raw.value \in Allowed(n) /\ Supports(raw.quote, text)
          /\ field = [value |-> raw.value, quote |-> raw.quote, status |-> "extracted"]
        BY <1>3 DEF FieldFrom
    <2>2. raw.quote \in Quotes \cup {<< >>} /\ raw.value \in Answers
        BY <2>1 DEF Replies, Answers
    <2>3. raw.quote # << >>
        <3>1. MinSupport \in Nat \ {0}
            BY ServiceAssumption
        <3>2. Len(raw.quote) >= MinSupport
            BY <2>1 DEF Supports
        <3>3. Len(<< >>) = 0
            OBVIOUS
        <3> QED
            BY <3>1, <3>2, <3>3, SMT
    <2>4. raw.quote \in Quotes /\ raw.quote # Null
        BY <2>2, <2>3, ServiceAssumption
    <2>5. field \in Fields
        BY <2>1, <2>2, <2>4 DEF Fields
    <2> QED
        BY <2>1, <2>4, <2>5 DEF Backed
<1> QED
    BY <1>2, <1>3

\* resolve_jurisdiction gives the one place that is called so, or none.
LEMMA ResolvedAsWritten ==
    ASSUME TypeOK, NEW written \in WrittenPlaces, NEW quote, NEW text
    PROVE  LET slug == Resolved(written, quote, text)
           IN  /\ slug \in Places \cup {NoPlace}
               /\ slug # NoPlace =>
                     /\ Supports(quote, text) \/ Supports(written.words, text)
                     /\ \/ Called(written.name) = {slug}
                        \/ /\ Called(written.name) = {} /\ WantsCounty(written)
                           /\ Called([written.name EXCEPT !.county = TRUE]) \cap Counties = {slug}
<1> DEFINE slug == Resolved(written, quote, text)
<1>1. CASE slug = NoPlace
    BY <1>1
<1>2. CASE slug # NoPlace
    <2>1. /\ Supports(quote, text) \/ Supports(written.words, text)
          /\ Cardinality(ExactPlaces(written)) = 1
          /\ slug = CHOOSE p \in Places : p \in ExactPlaces(written)
        BY <1>2 DEF Resolved
    <2>2. ExactPlaces(written) \subseteq Places
        BY DEF ExactPlaces
    <2>3. PICK only : ExactPlaces(written) = {only}
        <3>1. IsFiniteSet(ExactPlaces(written))
            BY <2>2, ServiceAssumption, FS_Subset
        <3> QED
            BY <2>1, <3>1, FS_Singleton
    <2>4. slug = only
        BY <2>1, <2>2, <2>3
    <2>5. CASE Called(written.name) # {} \/ ~WantsCounty(written)
        <3>1. ExactPlaces(written) = Called(written.name)
            BY <2>5 DEF ExactPlaces, Called
        <3> QED
            BY <2>1, <2>2, <2>3, <2>4, <3>1
    <2>6. CASE Called(written.name) = {} /\ WantsCounty(written)
        <3>1. ExactPlaces(written) = Called([written.name EXCEPT !.county = TRUE]) \cap Counties
            BY <2>6 DEF ExactPlaces, Called, Counties
        <3> QED
            BY <2>1, <2>2, <2>3, <2>4, <2>6, <3>1
    <2> QED
        BY <2>5, <2>6
<1> QED
    BY <1>1, <1>2

-----------------------------------------------------------------------------
(* The handlers keep the invariant.                                        *)

\* A request about a result is taken: nothing is left of an earlier one.
LEMMA ReceiveInv ==
    ASSUME IInv, status = "idle", NEW req \in ResultRequests,
           Disagree(req) \/ NothingMatched(req) \/ Consult(req)
    PROVE  IInv'
<1> USE DEF IInv
<1>1. /\ request' = req /\ status' \in {"disagreement", "answered", "asked"} /\ read' = 0
      /\ context' = context /\ shown' = {} /\ pointers' = {} /\ fields' = NoFields /\ place' = Unread
    BY DEF Clean, Disagree, NothingMatched, Consult, Take, told, drafted
<1>2. req.kind # "intake"
    BY ServiceAssumption DEF ResultRequests
<1>3. \A p \in offered' : \E r \in Matched(req) : p \in ScopeOf(context, {r})
    <2>1. CASE offered' = {}
        BY <2>1
    <2>2. CASE offered' = PassagesFor(req)
        BY <2>2, GroundingInScope, QuestionInScope DEF PassagesFor
    <2> QED
        BY <2>1, <2>2 DEF Clean, Disagree, NothingMatched, Consult, Take, told
<1>4. OfferedInScope'
    BY <1>1, <1>3 DEF OfferedInScope, Matched
<1>5. TypeOK'
    <2>1. offered' \subseteq PassageNames
        BY <1>3, ScopeExists DEF TypeOK
    <2>2. fields' \in [Names -> Fields \cup {Unread}]
        BY <1>1 DEF NoFields
    <2> QED
        BY <1>1, <2>1, <2>2 DEF TypeOK
<1>6. Clean' /\ ShownSurvive' /\ PlaceAsWritten'
    BY <1>1 DEF Clean, ShownSurvive, PlaceAsWritten, Filled
<1>7. FieldsFit' /\ PlaceLast'
    BY <1>1, <1>2 DEF FieldsFit, PlaceLast, NoFields, Names
<1> QED
    BY <1>4, <1>5, <1>6, <1>7

\* A request for a draft is taken.
LEMMA DescribeInv ==
    ASSUME IInv, status = "idle", NEW text \in Descriptions, Describe(text)
    PROVE  IInv'
<1> USE DEF IInv
<1>1. /\ request' = [kind |-> "intake", text |-> text] /\ status' = "asked" /\ read' = 0
      /\ context' = context /\ offered' = {} /\ shown' = {} /\ pointers' = {}
      /\ fields' = NoFields /\ place' = Unread
    BY DEF Clean, Describe, told, drafted
<1>2. TypeOK'
    <2>1. request' \in IntakeRequests
        BY <1>1 DEF IntakeRequests
    <2>2. fields' \in [Names -> Fields \cup {Unread}]
        BY <1>1 DEF NoFields
    <2> QED
        BY <1>1, <2>1, <2>2 DEF TypeOK
<1>3. Clean' /\ OfferedInScope' /\ ShownSurvive' /\ PlaceAsWritten'
    BY <1>1 DEF Clean, OfferedInScope, ShownSurvive, PlaceAsWritten, Filled
<1>4. FieldsFit' /\ PlaceLast'
    BY <1>1 DEF FieldsFit, PlaceLast, NoFields, Names
<1> QED
    BY <1>2, <1>3, <1>4

\* Counting an item that was read.
LEMMA ReadCounted ==
    ASSUME TypeOK, NEW kinds \in SUBSET ({"explain", "staff"} \cup Questions), Reading(kinds)
    PROVE  /\ request \in ResultRequests /\ request.kind # "intake"
           /\ read + 1 \in Nat /\ read + 1 <= Limit(request.kind)
<1>1. request.kind \in kinds /\ request.kind # "intake"
    BY ServiceAssumption DEF Reading
<1>2. request \in ResultRequests
    BY <1>1 DEF TypeOK, Reading, IntakeRequests
<1>3. {AnswerClaims, MaxQuestions, MaxRead} \subseteq Nat
    BY ServiceAssumption
<1>4. Limit(request.kind) \in Nat /\ read \in Nat /\ read < Limit(request.kind)
    BY <1>3 DEF Limit, TypeOK, Reading
<1> QED
    BY <1>1, <1>2, <1>4, SMT

LEMMA ReadClaimInv ==
    ASSUME IInv, NEW claim \in Claims, ReadClaim(claim)
    PROVE  IInv'
<1> USE DEF IInv
<1>1. /\ request \in ResultRequests /\ request.kind # "intake"
      /\ read + 1 \in Nat /\ read + 1 <= Limit(request.kind)
    BY ReadCounted DEF ReadClaim
<1>2. /\ status = "asked" /\ read' = read + 1 /\ shown' = IF Survives(claim) THEN shown \cup {claim} ELSE shown
      /\ UNCHANGED <<context, request, status, offered, pointers, fields, place>>
    BY DEF ReadClaim, Reading, drafted
<1>3. TypeOK'
    BY <1>1, <1>2 DEF TypeOK, Limit
<1>4. ShownSurvive'
    BY <1>2 DEF ShownSurvive, Survives, VerifyCitation
<1>5. Clean' /\ OfferedInScope'
    BY <1>2 DEF Clean, OfferedInScope, Matched
<1>6. FieldsFit' /\ PlaceLast' /\ PlaceAsWritten'
    BY <1>2 DEF FieldsFit, PlaceLast, PlaceAsWritten, Filled, Called, Counties, WantsCounty
<1> QED
    BY <1>3, <1>4, <1>5, <1>6

LEMMA ReadQuestionInv ==
    ASSUME IInv, NEW rule, NEW fact, ReadQuestion(rule, fact)
    PROVE  IInv'
<1> USE DEF IInv
<1> DEFINE pointer == [rule |-> IF rule \in Matched(request) THEN rule ELSE Null,
                       fact |-> IF fact \in KnownFacts(request.intake) THEN fact ELSE Null]
<1>1. /\ request \in ResultRequests /\ request.kind # "intake"
      /\ read + 1 \in Nat /\ read + 1 <= Limit(request.kind)
    BY ReadCounted DEF ReadQuestion
<1>2. /\ status = "asked" /\ read' = read + 1 /\ pointers' = pointers \cup {pointer}
      /\ UNCHANGED <<context, request, status, offered, shown, fields, place>>
    BY DEF ReadQuestion, Reading, drafted
<1>3. Matched(request) \subseteq RuleIds
    BY DEF Matched, Screen, RuleIds, TypeOK
<1>4. KnownFacts(request.intake) \subseteq Facts
    <2>1. Asked(request.intake.facts) \subseteq Facts
        BY ScreeningAssumption DEF Asked
    <2> QED
        BY <2>1 DEF KnownFacts
<1>5. pointer \in [rule : RuleIds \cup {Null}, fact : Facts \cup {Null}]
    BY <1>3, <1>4
<1>6. TypeOK'
    BY <1>1, <1>2, <1>5 DEF TypeOK, Limit
<1>7. Clean' /\ OfferedInScope' /\ ShownSurvive'
    BY <1>2 DEF Clean, OfferedInScope, ShownSurvive, Survives, VerifyCitation, Matched
<1>8. FieldsFit' /\ PlaceLast' /\ PlaceAsWritten'
    BY <1>2 DEF FieldsFit, PlaceLast, PlaceAsWritten, Filled, Called, Counties, WantsCounty
<1> QED
    BY <1>6, <1>7, <1>8

LEMMA ReadTypeInv ==
    ASSUME IInv, NEW raw \in Replies, ReadType(raw)
    PROVE  IInv'
<1> USE DEF IInv
<1> DEFINE field == FieldFrom(Types, raw, request.text)
<1>1. /\ status = "asked" /\ request.kind = "intake" /\ fields["project_type"] = Unread
      /\ fields' = [fields EXCEPT !["project_type"] = field]
      /\ UNCHANGED <<context, request, status, offered, read, shown, pointers, place>>
    BY DEF ReadType, Extracting, told
<1>2. "project_type" \in Names /\ Allowed("project_type") = Types
    BY DEF Names, Allowed
<1>3. field \in Fields /\ Backed("project_type", field, request.text)
    BY <1>2, FieldFromBacked
<1>4. fields \in [Names -> Fields \cup {Unread}] /\ fields' \in [Names -> Fields \cup {Unread}]
    BY <1>1, <1>3 DEF TypeOK
<1>5. TypeOK'
    BY <1>1, <1>4 DEF TypeOK, Limit
<1>6. FieldsFit'
    <2>1. \A f \in Facts : f \in Names /\ f # "project_type"
        BY ScreeningAssumption DEF Names
    <2>2. \A f \in Facts : fields'[f] = Unread
        BY <1>1, <1>4, <2>1 DEF FieldsFit
    <2>3. fields'["project_type"] = field
        BY <1>1, <1>2, <1>4
    <2> QED
        BY <1>1, <1>3, <2>2, <2>3 DEF FieldsFit
<1>7. PlaceLast' /\ PlaceAsWritten'
    <2>1. place = Unread
        BY <1>1, <1>2 DEF PlaceLast
    <2> QED
        BY <1>1, <2>1 DEF PlaceLast, PlaceAsWritten, Filled
<1>8. Clean' /\ OfferedInScope' /\ ShownSurvive'
    BY <1>1 DEF Clean, OfferedInScope, ShownSurvive, Survives, VerifyCitation, Matched
<1> QED
    BY <1>5, <1>6, <1>7, <1>8

LEMMA ReadFactInv ==
    ASSUME IInv, NEW f \in Facts, NEW raw \in Replies, ReadFact(f, raw)
    PROVE  IInv'
<1> USE DEF IInv
<1> DEFINE type  == fields["project_type"].value
           field == IF f \in Applicable(type) THEN FieldFrom(Values[f], raw, request.text)
                    ELSE Nothing("not_applicable")
<1>1. /\ status = "asked" /\ request.kind = "intake" /\ fields[f] = Unread
      /\ fields["project_type"] # Unread
      /\ fields' = [fields EXCEPT ![f] = field]
      /\ UNCHANGED <<context, request, status, offered, read, shown, pointers, place>>
    BY DEF ReadFact, Extracting, told
<1>2. f \in Names /\ Allowed(f) = Values[f] /\ "project_type" \in Names /\ f # "project_type"
    BY ScreeningAssumption DEF Names, Allowed
<1>3. /\ field \in Fields
      /\ IF f \in Applicable(type) THEN Backed(f, field, request.text) ELSE field.status = "not_applicable"
    <2>1. CASE f \in Applicable(type)
        BY <1>2, <2>1, FieldFromBacked
    <2>2. CASE f \notin Applicable(type)
        BY <2>2 DEF Nothing, Fields
    <2> QED
        BY <2>1, <2>2
<1>4. fields \in [Names -> Fields \cup {Unread}] /\ fields' \in [Names -> Fields \cup {Unread}]
    BY <1>1, <1>3 DEF TypeOK
<1>5. TypeOK'
    BY <1>1, <1>4 DEF TypeOK, Limit
<1>6. FieldsFit'
    <2>1. fields'["project_type"] = fields["project_type"] /\ fields'[f] = field
        BY <1>1, <1>2, <1>4
    <2>2. \A g \in Facts : g # f => fields'[g] = fields[g]
        BY <1>1, <1>4 DEF Names
    <2> QED
        BY <1>1, <1>3, <2>1, <2>2 DEF FieldsFit
<1>7. PlaceLast' /\ PlaceAsWritten'
    <2>1. place = Unread
        BY <1>1, <1>2 DEF PlaceLast
    <2> QED
        BY <1>1, <2>1 DEF PlaceLast, PlaceAsWritten, Filled
<1>8. Clean' /\ OfferedInScope' /\ ShownSurvive'
    BY <1>1 DEF Clean, OfferedInScope, ShownSurvive, Survives, VerifyCitation, Matched
<1> QED
    BY <1>5, <1>6, <1>7, <1>8

LEMMA ReadPlaceInv ==
    ASSUME IInv,
           \/ ReadNoPlace
           \/ \E written \in WrittenPlaces, quote \in Quotes \cup {<< >>} : ReadPlace(written, quote)
    PROVE  IInv'
<1> USE DEF IInv
<1>1. /\ FieldsRead
      /\ UNCHANGED <<context, request, status, offered, read, shown, pointers, fields>>
    BY DEF ReadPlace, ReadNoPlace, told
<1>2. /\ place' \in [slug : Places \cup {NoPlace}, written : WrittenPlaces, quote : Quotes \cup {<< >>}]
                        \cup {Unread, Null}
      /\ PlaceAsWritten'
    <2>1. CASE ReadNoPlace
        BY <2>1 DEF ReadNoPlace, PlaceAsWritten, Filled
    <2>2. ASSUME NEW written \in WrittenPlaces, NEW quote \in Quotes \cup {<< >>}, ReadPlace(written, quote)
          PROVE  <1>2!1 /\ <1>2!2
        <3> DEFINE slug == Resolved(written, quote, request.text)
        <3>1. place' = [slug |-> slug, written |-> written, quote |-> quote]
            BY <2>2 DEF ReadPlace
        <3>2. /\ slug \in Places \cup {NoPlace}
              /\ slug # NoPlace =>
                    /\ Supports(quote, request.text) \/ Supports(written.words, request.text)
                    /\ \/ Called(written.name) = {slug}
                       \/ /\ Called(written.name) = {} /\ WantsCounty(written)
                          /\ Called([written.name EXCEPT !.county = TRUE]) \cap Counties = {slug}
            BY ResolvedAsWritten
        <3> HIDE DEF slug
        <3> QED
            BY <1>1, <3>1, <3>2 DEF PlaceAsWritten, Filled, Called, Counties, WantsCounty
    <2> QED
        BY <2>1, <2>2
<1>3. TypeOK'
    BY <1>1, <1>2 DEF TypeOK, Limit
<1>4. FieldsFit' /\ PlaceLast'
    BY <1>1 DEF FieldsRead, FieldsFit, PlaceLast
<1>5. Clean' /\ OfferedInScope' /\ ShownSurvive'
    BY <1>1 DEF FieldsRead, Clean, OfferedInScope, ShownSurvive, Survives, VerifyCitation, Matched
<1> QED
    BY <1>2, <1>3, <1>4, <1>5

\* The response is ready, or there is none.
LEMMA ReplyInv ==
    ASSUME IInv, NoReply \/ Reply
    PROVE  IInv'
<1> USE DEF IInv
<1>1. /\ status = "asked" /\ status' \in {"failed", "answered"}
      /\ status' = "answered" /\ request.kind = "intake" => place # Unread
      /\ UNCHANGED <<context, request, offered, read, shown, pointers, fields, place>>
    BY DEF NoReply, Reply, told, drafted
<1>2. TypeOK' /\ Clean' /\ PlaceLast'
    BY <1>1 DEF TypeOK, Clean, PlaceLast, Limit
<1>3. OfferedInScope' /\ ShownSurvive'
    BY <1>1 DEF OfferedInScope, ShownSurvive, Survives, VerifyCitation, Matched
<1>4. FieldsFit' /\ PlaceAsWritten'
    BY <1>1 DEF FieldsFit, PlaceAsWritten, Filled, Called, Counties
<1> QED
    BY <1>2, <1>3, <1>4

\* Between requests there is nothing that could be wrong.
LEMMA IdleInv ==
    ASSUME IInv, Forget \/ \E c \in Contexts : Restart(c)
    PROVE  IInv'
<1> USE DEF IInv
<1>1. /\ status' = "idle" /\ request' = NoRequest /\ read' = 0 /\ context' \in Contexts
      /\ offered' = {} /\ shown' = {} /\ pointers' = {} /\ fields' = NoFields /\ place' = Unread
    BY DEF Forget, Restart, told, drafted, Clean, TypeOK
<1>2. TypeOK'
    BY <1>1 DEF TypeOK, NoFields
<1>3. Clean' /\ OfferedInScope' /\ ShownSurvive' /\ PlaceAsWritten'
    BY <1>1 DEF Clean, OfferedInScope, ShownSurvive, PlaceAsWritten, Filled
<1>4. FieldsFit' /\ PlaceLast'
    BY <1>1 DEF FieldsFit, PlaceLast, NoFields, Names
<1> QED
    BY <1>2, <1>3, <1>4

LEMMA NextInv == IInv /\ [Next]_vars => IInv'
<1> SUFFICES ASSUME IInv, [Next]_vars PROVE IInv'
    OBVIOUS
<1>1. CASE Receive
    BY <1>1, ReceiveInv, DescribeInv DEF Receive
<1>2. CASE ReadItem
    BY <1>2, ReadClaimInv, ReadQuestionInv, ReadTypeInv, ReadFactInv, ReadPlaceInv DEF ReadItem
<1>3. CASE NoReply \/ Reply
    BY <1>3, ReplyInv
<1>4. CASE Forget \/ \E c \in Contexts : Restart(c)
    BY <1>4, IdleInv
<1>5. CASE UNCHANGED vars
    <2> USE <1>5 DEF vars, IInv
    <2>1. TypeOK' /\ Clean' /\ PlaceLast' /\ FieldsFit'
        BY DEF TypeOK, Clean, PlaceLast, FieldsFit, Limit
    <2>2. OfferedInScope' /\ ShownSurvive' /\ PlaceAsWritten'
        BY DEF OfferedInScope, ShownSurvive, PlaceAsWritten, Filled, Called, Counties, Survives, VerifyCitation, Matched
    <2> QED
        BY <2>1, <2>2
<1> QED
    BY <1>1, <1>2, <1>3, <1>4, <1>5 DEF Next

LEMMA Invariance == Spec => []IInv
BY InitInv, NextInv, PTL DEF Spec

-----------------------------------------------------------------------------
(* What follows.                                                           *)

\* The variables keep their types, whatever the model writes.
THEOREM TypeCorrect == Spec => []TypeOK
<1>1. IInv => TypeOK
    BY DEF IInv
<1> QED
    BY <1>1, Invariance, PTL

\* A claim of explain.py is shown only with quotes from documents that rules
\* which match the request depend on, whatever rules and documents are loaded.
THEOREM ClaimsAreGrounded == Spec => []ShownIsGrounded
<1>1. ASSUME IInv PROVE ShownIsGrounded
    <2> SUFFICES ASSUME NEW claim \in shown
                 PROVE  /\ claim # {}
                        /\ \A c \in claim :
                              /\ Len(c.quote) >= MinQuote
                              /\ \E r \in Matched(request) :
                                    /\ c.passage \in ScopeOf(context, {r})
                                    /\ Occurs(c.quote, context.documents[c.passage[1]].text)
        BY DEF ShownIsGrounded
    <2>1. Survives(claim)
        BY <1>1 DEF IInv, ShownSurvive
    <2> QED
        BY <1>1, <2>1 DEF IInv, OfferedInScope, Survives, VerifyCitation, VerifyQuote
<1> QED
    BY <1>1, Invariance, PTL

\* A draft of intake.py fits the form of its own project type and has words of
\* the description behind every answer.
THEOREM DraftsFit == Spec => []DraftFitsForm
<1>1. ASSUME IInv PROVE DraftFitsForm
    <2> SUFFICES ASSUME status = "answered", request.kind = "intake"
                 PROVE  /\ Draft = Shown(Draft)
                        /\ \A n \in Names :
                              /\ Draft[n] \in Allowed(n) \cup {NoAnswer, Unknown}
                              /\ Draft[n] \notin {NoAnswer, Unknown} =>
                                    fields[n].quote # Null /\ Supports(fields[n].quote, request.text)
        BY DEF DraftFitsForm
    <2> DEFINE type == fields["project_type"].value
    <2>1. \A n \in Names : fields[n] # Unread
        BY <1>1 DEF IInv, PlaceLast
    <2>2. Backed("project_type", fields["project_type"], request.text)
        BY <1>1, <2>1 DEF IInv, FieldsFit, Names
    <2>3. \A f \in Facts : IF f \in Applicable(type) THEN Backed(f, fields[f], request.text)
                           ELSE fields[f].status = "not_applicable"
        BY <1>1, <2>1 DEF IInv, FieldsFit, Names
    <2>4. \A f \in Facts : f # "project_type"
        BY ScreeningAssumption
    <2>5. Draft["project_type"] = IF type = Unknown THEN NoAnswer ELSE type
        BY <2>2 DEF Draft, Backed, Names
    <2>6. \A f \in Facts : Draft[f] = IF f \in Applicable(type) THEN fields[f].value ELSE NoAnswer
        BY <2>3, <2>4 DEF Draft, Backed, Names
    <2>7. Asked(Draft) = Applicable(type)
        <3>1. type \in Types \cup {Unknown}
            BY <2>2 DEF Backed, Allowed
        <3> QED
            BY <2>5, <3>1, ScreeningAssumption, ServiceAssumption DEF Asked, Applicable
    <2>8. Draft = Shown(Draft)
        <3>1. \A n \in Names : Draft[n] = IF n \in {"project_type"} \cup Asked(Draft) THEN Draft[n] ELSE NoAnswer
            BY <2>6, <2>7 DEF Names
        <3>2. Draft = [n \in Names |-> Draft[n]]
            BY DEF Draft
        <3> QED
            BY <3>1, <3>2 DEF Shown
    <2>9. ASSUME NEW n \in Names
          PROVE  /\ Draft[n] \in Allowed(n) \cup {NoAnswer, Unknown}
                 /\ Draft[n] \notin {NoAnswer, Unknown} =>
                       fields[n].quote # Null /\ Supports(fields[n].quote, request.text)
        <3>1. CASE n = "project_type"
            BY <2>2, <2>5, <3>1 DEF Backed
        <3>2. CASE n \in Facts
            BY <2>3, <2>6, <3>2 DEF Backed
        <3> QED
            BY <3>1, <3>2 DEF Names
    <2> QED
        BY <2>8, <2>9
<1> QED
    BY <1>1, Invariance, PTL

\* A jurisdiction that resolve_jurisdiction fills in is the one place that can
\* be meant by what was written, in any registry, places of one name included.
THEOREM PlacesAreAsWritten == Spec => []PlaceAsWritten
<1>1. IInv => PlaceAsWritten
    BY DEF IInv
<1> QED
    BY <1>1, Invariance, PTL

-----------------------------------------------------------------------------
(* The lists of the rules.                                                 *)

\* The values of a function on a finite domain are finitely many, and no more.
LEMMA FiniteRange ==
    ASSUME NEW f, IsFiniteSet(DOMAIN f), f \in [DOMAIN f -> {f[x] : x \in DOMAIN f}]
    PROVE  /\ IsFiniteSet({f[x] : x \in DOMAIN f})
           /\ Cardinality({f[x] : x \in DOMAIN f}) <= Cardinality(DOMAIN f)
<1> DEFINE S == DOMAIN f
           T == {f[x] : x \in S}
<1>1. f \in Surjection(S, T)
    BY DEF Surjection
<1>2. IsFiniteSet(S)
    OBVIOUS
<1> HIDE DEF S, T
<1>3. IsFiniteSet(T) /\ Cardinality(T) <= Cardinality(S)
    BY <1>1, <1>2, FS_Surjection
<1> QED
    BY <1>3 DEF S, T

\* A document has finitely many passages, a rule finitely many sources.
LEMMA ScopeFinite ==
    ASSUME NEW ctx \in Contexts, NEW r \in DOMAIN ctx.rules
    PROVE  IsFiniteSet(ScopeOf(ctx, {r}))
<1> DEFINE deps == ctx.sources[r]
           docs == ctx.documents
           named == {deps[k] : k \in DOMAIN deps}
           part == [s \in named \cap DOMAIN docs |-> {s} \X DOMAIN docs[s].ends]
           parts == {part[s] : s \in DOMAIN part}
<1>1. deps \in Seq(STRING)
    BY ServiceAssumption
<1>2. IsFiniteSet(named)
    <2>1. DOMAIN deps = 1 .. Len(deps) /\ Len(deps) \in Nat /\ deps \in [1 .. Len(deps) -> STRING]
        BY <1>1
    <2>2. IsFiniteSet(DOMAIN deps)
        BY <2>1, FS_Interval
    <2>3. deps \in [DOMAIN deps -> {deps[x] : x \in DOMAIN deps}]
        BY <2>1
    <2> HIDE DEF deps
    <2> QED
        BY <2>2, <2>3, FiniteRange
<1>3. ASSUME NEW s \in DOMAIN docs PROVE IsFiniteSet({s} \X DOMAIN docs[s].ends)
    <2> DEFINE numbers == DOMAIN docs[s].ends
    <2>1. docs[s].ends \in Seq(Nat)
        BY ServiceAssumption DEF Documents
    <2>2. numbers = 1 .. Len(docs[s].ends) /\ Len(docs[s].ends) \in Nat
        BY <2>1
    <2>3. IsFiniteSet(numbers)
        BY <2>2, FS_Interval
    <2>4. IsFiniteSet({s})
        BY FS_Singleton
    <2> HIDE DEF numbers
    <2>5. IsFiniteSet({s} \X numbers)
        BY <2>3, <2>4, FS_Product
    <2> QED
        BY <2>5 DEF numbers
<1>4. IsFiniteSet(named \cap DOMAIN docs)
    <2> HIDE DEF named, docs
    <2> QED
        BY <1>2, FS_Intersection
<1>5. IsFiniteSet(parts)
    <2>1. IsFiniteSet(DOMAIN part) /\ part \in [DOMAIN part -> {part[x] : x \in DOMAIN part}]
        BY <1>4
    <2> HIDE DEF part
    <2> QED
        BY <2>1, FiniteRange
<1>6. \A T \in parts : IsFiniteSet(T)
    BY <1>3
<1>7. IsFiniteSet(UNION parts)
    <2> HIDE DEF parts
    <2> QED
        BY <1>5, <1>6, FS_UNION
<1>8. ScopeOf(ctx, {r}) = UNION parts
    <2>1. UNION {DependsOn(ctx, s) : s \in {r}} = named
        BY DEF DependsOn
    <2> QED
        BY <2>1 DEF ScopeOf, Passages
<1> QED
    BY <1>7, <1>8

\* An excerpt is found in one passage, or none.
LEMMA OneExcerptPassage ==
    ASSUME NEW ctx \in Contexts, NEW r \in DOMAIN ctx.rules,
           NEW p \in ExcerptPassage(ctx, r), NEW q \in ExcerptPassage(ctx, r)
    PROVE  p = q
<1> DEFINE deps == ctx.sources[r]
           held(k) == Holding(ctx.documents[deps[k]], ctx.excerpts[r])
           Has(k) == deps[k] \in DOMAIN ctx.documents /\ held(k) # {}
           First == {k \in DOMAIN deps : Has(k) /\ \A j \in 1 .. k - 1 : ~Has(j)}
<1>1. PICK k \in First : p \in {deps[k]} \X held(k)
    BY DEF ExcerptPassage
<1>2. PICK l \in First : q \in {deps[l]} \X held(l)
    BY DEF ExcerptPassage
<1>3. k = l
    <2>1. deps \in Seq(STRING)
        BY ServiceAssumption
    <2>2. k \in Nat \ {0} /\ l \in Nat \ {0}
        BY <2>1
    <2>3. /\ Has(k) /\ \A j \in 1 .. k - 1 : ~Has(j)
          /\ Has(l) /\ \A j \in 1 .. l - 1 : ~Has(j)
        OBVIOUS
    <2> HIDE DEF Has
    <2> QED
        BY <2>2, <2>3
<1>4. ASSUME NEW m \in held(k), NEW n \in held(k) PROVE m = n
    <2> DEFINE doc == ctx.documents[deps[k]]
               Here(i) == Occurs(Kept(ctx.excerpts[r])[1], PassageText(doc, i))
    <2>1. doc.ends \in Seq(Nat)
        BY ServiceAssumption DEF Documents
    <2>2. m \in Nat \ {0} /\ n \in Nat \ {0}
        <3>1. m \in DOMAIN doc.ends /\ n \in DOMAIN doc.ends
            BY DEF Holding
        <3>2. DOMAIN doc.ends = 1 .. Len(doc.ends) /\ Len(doc.ends) \in Nat
            BY <2>1
        <3> HIDE DEF doc
        <3> QED
            BY <3>1, <3>2
    <2>3. /\ Here(m) /\ \A i \in 1 .. m - 1 : ~Here(i)
          /\ Here(n) /\ \A i \in 1 .. n - 1 : ~Here(i)
        BY Zenon DEF Holding
    <2> HIDE DEF Here
    <2> QED
        BY <2>2, <2>3
<1> QED
    BY <1>1, <1>2, <1>3, <1>4

\* The passages of a list that are better than one of it.
Better(ctx, r, p) ==
    LET best == Ranked(ctx.scores[r], ScopeOf(ctx, {r}), PerRule)
    IN  {q \in best \ ExcerptPassage(ctx, r) : ctx.scores[r][q] > ctx.scores[r][p]}

LEMMA PlacesOfList ==
    ASSUME NEW ctx \in Contexts, NEW r \in DOMAIN ctx.rules, NEW p \in DOMAIN ListOf(ctx, r)
    PROVE  /\ IsFiniteSet(ExcerptPassage(ctx, r)) /\ IsFiniteSet(Better(ctx, r, p))
           /\ Cardinality(ExcerptPassage(ctx, r)) \in Nat /\ Cardinality(Better(ctx, r, p)) \in Nat
           /\ p \in ExcerptPassage(ctx, r) => ListOf(ctx, r)[p] = 1
           /\ p \notin ExcerptPassage(ctx, r) =>
                 ListOf(ctx, r)[p] = Cardinality(ExcerptPassage(ctx, r)) + 1 + Cardinality(Better(ctx, r, p))
<1>1. IsFiniteSet(ScopeOf(ctx, {r}))
    BY ScopeFinite
<1>2. Better(ctx, r, p) \subseteq ScopeOf(ctx, {r}) /\ ExcerptPassage(ctx, r) \subseteq ScopeOf(ctx, {r})
    BY ExcerptInScope DEF Better, Ranked
<1>3. IsFiniteSet(ExcerptPassage(ctx, r)) /\ IsFiniteSet(Better(ctx, r, p))
    BY <1>1, <1>2, FS_Subset
<1>4. Cardinality(ExcerptPassage(ctx, r)) \in Nat /\ Cardinality(Better(ctx, r, p)) \in Nat
    BY <1>3, FS_CardinalityType
<1>5. /\ p \in ExcerptPassage(ctx, r) => ListOf(ctx, r)[p] = 1
      /\ p \notin ExcerptPassage(ctx, r) =>
            ListOf(ctx, r)[p] = Cardinality(ExcerptPassage(ctx, r)) + 1 + Cardinality(Better(ctx, r, p))
    BY DEF ListOf, Better
<1> QED
    BY <1>3, <1>4, <1>5

\* Two passages of the words of a rule have different scores.
LEMMA ScoresDiffer ==
    ASSUME NEW ctx \in Contexts, NEW r \in DOMAIN ctx.rules,
           NEW p \in Ranked(ctx.scores[r], ScopeOf(ctx, {r}), PerRule),
           NEW q \in Ranked(ctx.scores[r], ScopeOf(ctx, {r}), PerRule)
    PROVE  /\ ctx.scores[r][p] \in Nat /\ ctx.scores[r][q] \in Nat
           /\ p # q => ctx.scores[r][p] < ctx.scores[r][q] \/ ctx.scores[r][q] < ctx.scores[r][p]
<1>1. p \in PassageNames /\ q \in PassageNames
    BY ScopeExists DEF Ranked
<1>2. ctx.scores[r][p] > 0 /\ ctx.scores[r][q] > 0
    BY DEF Ranked
<1>3. ctx.scores[r] \in [PassageNames -> Nat]
    BY ServiceAssumption
<1>4. ctx.scores[r][p] = ctx.scores[r][q] => ctx.scores[r][p] = 0 \/ p = q
    <2>1. \A a, b \in PassageNames :
             ctx.scores[r][a] = ctx.scores[r][b] => ctx.scores[r][a] = 0 \/ a = b
        BY ServiceAssumption, Zenon
    <2> QED
        BY <1>1, <2>1, Zenon
<1> QED
    BY <1>1, <1>2, <1>3, <1>4

\* A list has one passage in its first place.
LEMMA OneInFirstPlace ==
    ASSUME NEW ctx \in Contexts, NEW r \in DOMAIN ctx.rules,
           NEW p \in DOMAIN ListOf(ctx, r), NEW q \in DOMAIN ListOf(ctx, r)
    PROVE  /\ ListOf(ctx, r)[p] \in Nat \ {0}
           /\ ListOf(ctx, r)[p] = 1 /\ ListOf(ctx, r)[q] = 1 => p = q
<1> DEFINE held == ExcerptPassage(ctx, r)
           best == Ranked(ctx.scores[r], ScopeOf(ctx, {r}), PerRule)
<1>1. p \in held \cup best /\ q \in held \cup best
    BY DEF ListOf
<1>2. ListOf(ctx, r)[p] \in Nat \ {0}
    BY PlacesOfList
<1> SUFFICES ASSUME ListOf(ctx, r)[p] = 1, ListOf(ctx, r)[q] = 1 PROVE p = q
    BY <1>2
<1>3. CASE held # {}
    <2>1. Cardinality(held) # 0
        BY <1>3, PlacesOfList, FS_EmptySet
    <2>2. p \in held /\ q \in held
        BY <2>1, PlacesOfList
    <2> QED
        BY <2>2, OneExcerptPassage
<1>4. CASE held = {}
    <2>1. p \in best /\ q \in best
        BY <1>1, <1>4
    <2>2. Cardinality(Better(ctx, r, p)) = 0 /\ Cardinality(Better(ctx, r, q)) = 0
        BY <1>4, PlacesOfList, FS_EmptySet
    <2>3. Better(ctx, r, p) = {} /\ Better(ctx, r, q) = {}
        BY <2>2, PlacesOfList, FS_EmptySet
    <2>4. ~(ctx.scores[r][q] > ctx.scores[r][p]) /\ ~(ctx.scores[r][p] > ctx.scores[r][q])
        BY <2>1, <2>3, <1>4 DEF Better
    <2> QED
        BY <2>1, <2>4, ScoresDiffer
<1> QED
    BY <1>3, <1>4

\* A list that is not empty has a passage in its first place.
LEMMA SomeInFirstPlace ==
    ASSUME NEW ctx \in Contexts, NEW r \in DOMAIN ctx.rules, DOMAIN ListOf(ctx, r) # {}
    PROVE  \E p \in DOMAIN ListOf(ctx, r) : ListOf(ctx, r)[p] = 1
<1> DEFINE held == ExcerptPassage(ctx, r)
           best == Ranked(ctx.scores[r], ScopeOf(ctx, {r}), PerRule)
<1>1. CASE held # {}
    BY <1>1, PlacesOfList DEF ListOf
<1>2. CASE held = {}
    <2>1. DOMAIN ListOf(ctx, r) = best
        BY <1>2 DEF ListOf
    <2> DEFINE Key(p) == Better(ctx, r, p)
               Keys == {Key(p) : p \in best}
    <2>2. Keys \subseteq FiniteSubsetsOf(best) /\ Keys # {}
        <3>1. \A p \in best : IsFiniteSet(Key(p)) /\ Key(p) \in SUBSET best
            BY <2>1, PlacesOfList DEF Better
        <3>2. best # {}
            BY <2>1
        <3> HIDE DEF Key, best
        <3> QED
            BY <3>1, <3>2 DEF FiniteSubsetsOf
    <2>3. PICK K \in Keys : \A L \in Keys : ~(<<L, K>> \in StrictSubsetOrdering(best))
        <3> HIDE DEF Keys
        <3>1. IsWellFoundedOn(StrictSubsetOrdering(best), FiniteSubsetsOf(best))
            <4> HIDE DEF best
            <4> QED
                BY FS_StrictSubsetOrderingWellFounded
        <3> QED
            BY <2>2, <3>1, WFMin
    <2>4. PICK p \in best : K = Key(p)
        BY <2>3
    <2>5. Key(p) = {}
        <3> SUFFICES ASSUME NEW q \in Key(p) PROVE FALSE
            OBVIOUS
        <3>1. q \in best /\ ctx.scores[r][q] > ctx.scores[r][p]
            BY DEF Better
        <3>2. Key(q) \subseteq Key(p) /\ q \notin Key(q)
            <4>1. /\ ctx.scores[r][p] \in Nat /\ ctx.scores[r][q] \in Nat
                  /\ \A z \in best : ctx.scores[r][z] \in Nat
                BY <3>1, ScoresDiffer
            <4>2. ASSUME NEW z \in Key(q) PROVE z \in Key(p)
                <5>1. /\ z \in best /\ z \notin ExcerptPassage(ctx, r)
                      /\ ctx.scores[r][z] > ctx.scores[r][q]
                    BY <4>2 DEF Better
                <5>2. ctx.scores[r][z] > ctx.scores[r][p]
                    BY <3>1, <4>1, <5>1
                <5> QED
                    BY <5>1, <5>2 DEF Better
            <4>3. q \notin Key(q)
                BY <4>1 DEF Better
            <4> QED
                BY <4>2, <4>3
        <3>3. Key(q) \in SUBSET best /\ Key(p) \in SUBSET best
            BY DEF Better
        <3>4. <<Key(q), Key(p)>> \in StrictSubsetOrdering(best)
            BY <3>2, <3>3 DEF StrictSubsetOrdering
        <3> QED
            BY <2>3, <2>4, <3>1, <3>4
    <2>6. p \in DOMAIN ListOf(ctx, r) /\ ListOf(ctx, r)[p] = 1
        BY <1>2, <2>1, <2>4, <2>5, PlacesOfList, FS_EmptySet
    <2> QED
        BY <2>6
<1> QED
    BY <1>1, <1>2

\* Dealt out in turn, a passage that is first in a list comes up in the first
\* round, where each other rule puts one passage before it at most.
LEMMA FirstPlaceIsOffered ==
    ASSUME NEW ctx \in Contexts, NEW rules \in SUBSET DOMAIN ctx.rules,
           Cardinality(rules) <= MaxPassages,
           NEW r \in rules, NEW p \in DOMAIN ListOf(ctx, r), ListOf(ctx, r)[p] = 1
    PROVE  p \in GroundingPassages(ctx, rules)
<1> DEFINE lists == [s \in rules |-> ListOf(ctx, s)]
           all == UNION {DOMAIN lists[s] : s \in rules}
           before == {q \in all : Earlier(lists, q, p)}
           Firsts(s) == {q \in DOMAIN ListOf(ctx, s) : ListOf(ctx, s)[q] = 1}
           others == {s \in rules \ {r} : Firsts(s) # {}}
           first == [s \in others |-> CHOOSE q \in Firsts(s) : TRUE]
           firsts == {first[s] : s \in DOMAIN first}
<1>1. before \subseteq firsts
    <2> SUFFICES ASSUME NEW q \in before PROVE q \in firsts
        OBVIOUS
    <2>1. PICK s \in rules : /\ q \in DOMAIN ListOf(ctx, s)
                             /\ \/ ListOf(ctx, s)[q] < ListOf(ctx, r)[p]
                                \/ ListOf(ctx, s)[q] = ListOf(ctx, r)[p] /\ s < r
        BY DEF Earlier
    <2>2. r \in Nat /\ s \in Nat /\ ListOf(ctx, s)[q] \in Nat \ {0}
        BY <2>1, OneInFirstPlace, ServiceAssumption
    <2>3. ListOf(ctx, s)[q] = 1 /\ s < r
        BY <2>1, <2>2
    <2>4. s \in others /\ q \in Firsts(s)
        BY <2>1, <2>2, <2>3
    <2>5. first[s] \in Firsts(s)
        BY <2>4
    <2>6. first[s] = q
        BY <2>1, <2>3, <2>5, OneInFirstPlace
    <2> QED
        BY <2>4, <2>6
<1>2. IsFiniteSet(rules) /\ Cardinality(rules) \in Nat
    <2>1. IsFiniteSet(DOMAIN ctx.rules)
        BY ServiceAssumption
    <2> QED
        BY <2>1, FS_Subset, FS_CardinalityType
<1>3. IsFiniteSet(rules \ {r}) /\ Cardinality(rules \ {r}) = Cardinality(rules) - 1
    BY <1>2, FS_RemoveElement
<1>4. IsFiniteSet(others) /\ Cardinality(others) <= Cardinality(rules \ {r}) /\ Cardinality(others) \in Nat
    BY <1>3, FS_Subset, FS_CardinalityType
<1>5. IsFiniteSet(firsts) /\ Cardinality(firsts) <= Cardinality(others)
    <2>1. DOMAIN first = others /\ first \in [DOMAIN first -> {first[s] : s \in DOMAIN first}]
        OBVIOUS
    <2> HIDE DEF first, others
    <2> QED
        BY <1>4, <2>1, FiniteRange
<1>6. IsFiniteSet(before) /\ Cardinality(before) <= Cardinality(firsts)
      /\ Cardinality(before) \in Nat /\ Cardinality(firsts) \in Nat
    <2> HIDE DEF before, firsts
    <2> QED
        BY <1>1, <1>5, FS_Subset, FS_CardinalityType
<1>7. Cardinality(before) < MaxPassages
    <2>1. MaxPassages \in Nat
        BY CorpusAssumption
    <2> HIDE DEF before, firsts, others
    <2> QED
        BY <1>2, <1>3, <1>4, <1>5, <1>6, <2>1
<1>8. p \in all
    OBVIOUS
<1> QED
    BY <1>7, <1>8 DEF GroundingPassages

\* No more rules than passages are offered: each is heard.
LEMMA RuleIsHeard ==
    ASSUME NEW ctx \in Contexts, NEW rules \in SUBSET DOMAIN ctx.rules,
           Cardinality(rules) <= MaxPassages, NEW r \in rules
    PROVE  /\ ExcerptPassage(ctx, r) \subseteq GroundingPassages(ctx, rules)
           /\ DOMAIN ListOf(ctx, r) # {} =>
                 DOMAIN ListOf(ctx, r) \cap GroundingPassages(ctx, rules) # {}
<1>1. ASSUME NEW p \in ExcerptPassage(ctx, r) PROVE p \in GroundingPassages(ctx, rules)
    <2>1. p \in DOMAIN ListOf(ctx, r)
        BY DEF ListOf
    <2>2. ListOf(ctx, r)[p] = 1
        BY <2>1, PlacesOfList
    <2> QED
        BY <2>1, <2>2, FirstPlaceIsOffered
<1>2. ASSUME DOMAIN ListOf(ctx, r) # {}
      PROVE  DOMAIN ListOf(ctx, r) \cap GroundingPassages(ctx, rules) # {}
    <2>1. PICK p \in DOMAIN ListOf(ctx, r) : ListOf(ctx, r)[p] = 1
        BY <1>2, SomeInFirstPlace
    <2> QED
        BY <2>1, FirstPlaceIsOffered
<1> QED
    BY <1>1, <1>2

\* What the rules that match are heard with is among the passages offered, as
\* long as the request is worked on.
OfferedToAll ==
    status = "asked" /\ request.kind \in {"explain"} \cup Questions =>
        GroundingPassages(context, Matched(request)) \subseteq offered

LEMMA OfferedToAllNext == IInv /\ OfferedToAll /\ [Next]_vars => OfferedToAll'
<1> SUFFICES ASSUME IInv, OfferedToAll, [Next]_vars, status' = "asked",
                    request'.kind \in {"explain"} \cup Questions
             PROVE  (GroundingPassages(context, Matched(request)) \subseteq offered)'
    BY DEF OfferedToAll
<1>0. \A kind \in Questions : kind # "staff" /\ kind # "explain" /\ kind # "intake"
    BY ServiceAssumption, Zenon
<1>1. CASE Receive
    <2>1. PICK req \in ResultRequests : Consult(req)
        <3>1. CASE \E req \in ResultRequests : Disagree(req) \/ NothingMatched(req) \/ Consult(req)
            BY <3>1 DEF Disagree, NothingMatched, Take
        <3>2. CASE \E text \in Descriptions : Describe(text)
            BY <1>0, <3>2 DEF Describe
        <3> QED
            BY <1>1, <3>1, <3>2 DEF Receive
    <2>2. request' = req /\ context' = context /\ offered' = PassagesFor(req)
        BY <2>1 DEF Consult, Take
    <2>3. req.kind = "explain" \/ (req.kind \in Questions /\ req.kind # "staff" /\ req.kind # "explain")
        BY <1>0, <2>2
    <2>4. GroundingPassages(context, Matched(req)) \subseteq PassagesFor(req)
        BY <2>3 DEF PassagesFor, QuestionPassages
    <2> QED
        BY <2>2, <2>4 DEF Matched
<1>2. CASE ReadItem \/ UNCHANGED vars
    <2>1. status = "asked" /\ UNCHANGED <<context, request, offered>>
        BY <1>2 DEF ReadItem, ReadClaim, ReadQuestion, ReadType, ReadFact, ReadPlace, ReadNoPlace, told, vars
    <2> QED
        BY <2>1 DEF OfferedToAll, Matched
<1>3. CASE NoReply \/ Reply \/ Forget
    BY <1>3 DEF NoReply, Reply, Forget
<1>4. CASE \E c \in Contexts : Restart(c)
    BY <1>4 DEF Restart
<1> QED
    BY <1>1, <1>2, <1>3, <1>4 DEF Next

\* However many passages share words with some rule or with the question, no
\* rule that matches goes unheard in grounding_passages (explain.py), as long
\* as no more match than are offered.
THEOREM RulesAreHeard == Spec => []EveryRuleHeard
<1>1. Init => OfferedToAll
    BY DEF Init, OfferedToAll
<1>2. Spec => []OfferedToAll
    BY <1>1, OfferedToAllNext, Invariance, PTL DEF Spec
<1>3. ASSUME IInv, OfferedToAll PROVE EveryRuleHeard
    <2> SUFFICES ASSUME status = "asked", request.kind \in {"explain"} \cup Questions,
                        Cardinality(Matched(request)) <= MaxPassages, NEW r \in Matched(request)
                 PROVE  /\ ExcerptPassage(context, r) \subseteq offered
                        /\ DOMAIN ListOf(context, r) # {} => DOMAIN ListOf(context, r) \cap offered # {}
        BY DEF EveryRuleHeard
    <2>1. context \in Contexts /\ Matched(request) \in SUBSET DOMAIN context.rules
        BY <1>3 DEF IInv, TypeOK, Matched, Screen
    <2>2. GroundingPassages(context, Matched(request)) \subseteq offered
        BY <1>3 DEF OfferedToAll
    <2> QED
        BY <2>1, <2>2, RuleIsHeard
<1> QED
    BY <1>2, <1>3, Invariance, PTL

=============================================================================
