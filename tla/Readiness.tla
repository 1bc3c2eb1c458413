------------------------------- MODULE Readiness -------------------------------
(***************************************************************************)
(* readiness.py, journey.py and workflow_registry.py: whether the items of *)
(* one packet are reported present, against one workflow whose sources are *)
(* pinned, and the journey that leads from a screened case to that packet; *)
(* and what the published page (assets/demo.js) makes of the bundle.       *)
(* Operators only: the files are in Journey.                               *)
(***************************************************************************)
EXTENDS Verification, Availability

CONSTANTS
    Facts,          \* facts of the workflow
    FactSource,     \* fact -> the bound source it is read from, or NoSource
    NoSource,
    Applicability,  \* conditions under which the workflow is the right one
    Requirements,   \* sequence of [when: conditions, parent: earlier index or 0]
    Bound,          \* sources the workflow binds
    Matching,       \* rule texts that match the golden case
    RouteTexts,     \* rule texts that are route records
    CitedSource     \* the source whose URL each rule cites

Tri       == {"yes", "no", "unknown"}
Known     == Tri \ {"unknown"}
Inventory == {"present", "missing", "unknown", "conflicting"}
Asserted  == {"applicant_assertion", "synthetic_applicant_assertion"}
Fixture   == "synthetic_public_record_fixture"
Items_    == DOMAIN Requirements

Conditions == [fact : Facts, equals : Known]

ASSUME ReadinessAssumption ==
    /\ FactSource \in [Facts -> Bound \cup {NoSource}] /\ NoSource \notin Sources
    /\ Bound \subseteq Sources /\ Bound # {}
    /\ Applicability \subseteq Conditions /\ Applicability # {}
    /\ Requirements \in Seq([when : SUBSET Conditions, parent : Nat]) \ {<< >>}
    /\ \A i \in Items_ : Requirements[i].parent < i
    /\ CitedSource \in [Rules -> Sources]
    /\ \A r \in Rules : CitedSource[r] \in DependsOn[r]

-----------------------------------------------------------------------------
(* The evaluation.                                                         *)

\* Mutant: what is not known does not hold.
ConditionStateOfKnown(when, facts) ==
    IF \E c \in when : facts[c.fact] # c.equals THEN "does_not_apply" ELSE "applies"

\* _condition_state: one contradiction settles it, whatever is unknown.
ConditionState(when, facts) ==
    LET known == {c \in when : facts[c.fact] # "unknown"}
    IN  IF \E c \in known : facts[c.fact] # c.equals THEN "does_not_apply"
        ELSE IF known # when THEN "unknown"
        ELSE "applies"

\* _inventory_finding
ItemFinding(reported) == IF reported = "unknown" THEN "needs_staff_review" ELSE reported

\* _requirement_finding: a part of a document is looked for when the document,
\* which comes earlier, was found present.
RequirementFinding(i, facts, inventory, found) ==
    LET state  == ConditionState(Requirements[i].when, facts)
        parent == Requirements[i].parent
    IN  CASE state = "does_not_apply" -> "not_applicable"
          [] state = "unknown"        -> "needs_staff_review"
          [] state = "applies" /\ parent # 0 /\ found[parent] # "present"
                                      -> "not_evaluated"
          [] OTHER                    -> ItemFinding(inventory[i])

\* _active_findings
FindingsOf(facts, inventory) ==
    LET finding[i \in Items_] == RequirementFinding(i, facts, inventory, finding)
    IN  finding

Everywhere(status) == [i \in Items_ |-> status]

\* _overall_status
Overall(findings) ==
    LET seen == {findings[i] : i \in Items_}
    IN  IF "missing" \in seen THEN "known_gaps"
        ELSE IF seen \cap {"conflicting", "needs_staff_review", "not_evaluated"} # {}
        THEN "needs_review"
        ELSE "no_known_gaps_in_bounded_manifest"

\* _append_unknown_questions: the facts that staff are asked about.
Asked(when, facts) == {c.fact : c \in {d \in when : facts[d.fact] = "unknown"}}

Questions(facts) ==
    UNION {Asked(Requirements[i].when, facts) :
              i \in {j \in Items_ : ConditionState(Requirements[j].when, facts) = "unknown"}}

\* _sources_current
SourcesCurrent(workflow, day, changed) ==
    /\ Bound \cap changed = {}
    /\ \A s \in Bound : InWindow(workflow.bound[s].on, day)

\* Mutant: the review falls due with the freshest source.
ReviewDueOfFreshest(workflow) == Max({workflow.bound[s].on : s \in Bound}) + MaxAge

\* _source_review_due_on
ReviewDue(workflow) == Min({workflow.bound[s].on : s \in Bound}) + MaxAge

\* _evaluation_outcome and evaluate_readiness.  A packet of another workflow,
\* jurisdiction or project type does not apply (same: it is of this one).
Evaluate(workflow, packet, day, changed) ==
    LET applies  == IF packet.same THEN ConditionState(Applicability, packet.facts)
                                   ELSE "does_not_apply"
        current  == SourcesCurrent(workflow, day, changed)
        findings == IF ~current THEN Everywhere("needs_staff_review")
                    ELSE IF applies # "applies" THEN Everywhere("not_evaluated")
                    ELSE FindingsOf(packet.facts, packet.inventory)
    IN  [applicability |-> applies,
         source        |-> IF current THEN "current" ELSE "source_review_required",
         findings      |-> findings,
         overall       |-> IF ~current THEN "source_review_required"
                           ELSE IF applies = "does_not_apply" THEN "outside_bounded_workflow"
                           ELSE IF applies = "unknown" THEN "needs_review"
                           ELSE Overall(findings),
         questions     |-> IF ~current \/ applies = "does_not_apply" THEN {}
                           ELSE IF applies = "unknown" THEN Asked(Applicability, packet.facts)
                           ELSE Questions(packet.facts),
         on |-> day, due |-> ReviewDue(workflow),
         workflow |-> workflow, packet |-> packet]

-----------------------------------------------------------------------------
(* Loading the files.  registry: source -> [digest, on] (data/sources.json).*)

\* load_sources: no date lies in the future.
RegistryLoads(registry, day) == \A s \in Sources : registry[s].on <= day

\* load_readiness_workflow: bound to the registry as it is, and mapped from
\* exactly those bytes, not before they were read.
WorkflowLoads(workflow, registry, day) ==
    /\ RegistryLoads(registry, day)
    /\ \A s \in Bound : workflow.bound[s] = registry[s]
    /\ \A s \in Bound : workflow.inputs[s] = workflow.bound[s].digest
    /\ \A s \in Bound : workflow.updated >= workflow.bound[s].on
    /\ workflow.updated <= day

\* load_readiness_packet, _packet_fact_evidence: a fact that has a source is a
\* fixture read on the day of the binding, any other is somebody's assertion.
PacketLoads(packet, workflow, day) ==
    /\ \A f \in Facts :
          IF FactSource[f] = NoSource
          THEN packet.from[f] \in Asserted /\ packet.read[f] = Undated
          ELSE /\ packet.from[f] = Fixture
               /\ packet.read[f] = workflow.bound[FactSource[f]].on
               /\ packet.facts[f] # "unknown"
    /\ packet.synthetic \/ \A f \in Facts : packet.from[f] = "applicant_assertion"
    /\ packet.on <= day

\* The packet of one workflow, as it is read on the given day.
PacketOf(workflow, day) ==
    [facts     |-> [f \in Facts |->
                      IF \E c \in Applicability : c.fact = f
                      THEN (CHOOSE c \in Applicability : c.fact = f).equals ELSE "unknown"],
     from      |-> [f \in Facts |-> IF FactSource[f] = NoSource
                                    THEN "synthetic_applicant_assertion" ELSE Fixture],
     read      |-> [f \in Facts |-> IF FactSource[f] = NoSource THEN Undated
                                    ELSE workflow.bound[FactSource[f]].on],
     inventory |-> [i \in Items_ |-> "present"],
     on |-> day, synthetic |-> TRUE, same |-> TRUE]

\* What a reviewer of the remedies reads: the action copy, and the
\* requirements it is bound to (_remedy_content_fingerprint).
RemedyContent(remedies) == <<remedies.copy, remedies.items>>
NoReview == [read |-> << >>, on |-> Undated]

\* Mutant: a review outlives the copy it was of.
RemediesLoadUnread(remedies, workflow, day) ==
    /\ remedies.workflow = workflow
    /\ remedies.items = workflow.items
    /\ remedies.updated <= day
    /\ remedies.review # NoReview => remedies.review.on \in remedies.updated .. day

\* load_readiness_remedies
RemediesLoad(remedies, workflow, day) ==
    /\ remedies.workflow = workflow
    /\ remedies.items = workflow.items
    /\ remedies.updated <= day
    /\ remedies.review # NoReview =>
          /\ remedies.review.on \in remedies.updated .. day
          /\ remedies.review.read = RemedyContent(remedies)

\* load_workflow_registry: the five input files are the ones that were pinned.
Pinned == {"workflow", "packet", "remedies", "journey", "record"}
PinsHold(files) == \A name \in Pinned : files.pins[name] = files[name]

-----------------------------------------------------------------------------
(* The journey.                                                            *)

Matched(rules) == {r \in Rules : rules[r].body \in Matching}
IsRoute(rule)  == rule.body \in RouteTexts
Conditioned    == {c.fact : c \in Applicability}

\* _candidate_routes, at the day of the packet: no route is out of its window.
RoutesHold(files, day) ==
    /\ Matched(files.rules) = files.golden
    /\ \A r \in files.journey.routes :
          /\ r \in files.golden
          /\ IsRoute(files.rules[r])
          /\ files.rules[r].verified # Undated
          /\ InWindow(files.rules[r].verified, day)

\* _applicability_facts
FactsHold(files) ==
    /\ Cardinality(Conditioned) = Cardinality(Applicability)
    /\ files.journey.editable \subseteq Conditioned
    /\ \A c \in Applicability : files.packet.facts[c.fact] = c.equals
    /\ \A f \in files.journey.editable : files.packet.from[f] \in Asserted

\* _validate_readiness_binding and resolve_journey
JourneyResolves(files, result) ==
    /\ files.packet.synthetic
    /\ result.applicability = "applies" /\ result.source = "current"
    /\ RoutesHold(files, result.on)
    /\ FactsHold(files)

Envelope(files, result) ==
    [routes   |-> files.journey.routes,
     editable |-> files.journey.editable,
     asOf     |-> result.on,
     due      |-> Min({files.rules[r].verified : r \in files.journey.routes}) + MaxAge]

-----------------------------------------------------------------------------
(* The bundle (build_bundle, _canonical_readiness_records).  The packet is *)
(* evaluated on its own day, with no source changed.                       *)

RegistryDigests(registry) == [s \in Sources |-> registry[s].digest]

\* The committed snapshot is of the committed registry.
ChangedSources(files) ==
    {s \in Sources : files.observed[s] # files.registry[s].digest}

\* Every dated citation has evidence that was preserved before it.
CitationsHold(rules, registry) ==
    \A r \in Rules : rules[r].verified # Undated =>
                        registry[CitedSource[r]].on <= rules[r].verified

Canonical(files) == Evaluate(files.workflow, files.packet, files.packet.on, {})

Buildable(files, day) ==
    LET asOf == files.packet.on
    IN  /\ RegistryLoads(files.registry, day)
        /\ CitationsHold(files.rules, files.registry)
        /\ files.copies = RegistryDigests(files.registry)
        /\ LedgerLoadsFor({}, files.ledger, files.rules, day)
        /\ PinsHold(files)
        /\ WorkflowLoads(files.workflow, files.registry, asOf)
        /\ PacketLoads(files.packet, files.workflow, asOf)
        /\ files.packet.synthetic /\ files.packet.same
        /\ RemediesLoad(files.remedies, files.workflow, asOf)
        /\ JourneyResolves(files, Canonical(files))
        /\ Loads(files.record, day)
        /\ files.recorded = RegistryDigests(files.registry)

Bundle(files) ==
    [workflow |-> files.workflow, packet |-> files.packet, remedies |-> files.remedies,
     result |-> Canonical(files), journey |-> Envelope(files, Canonical(files)),
     rules |-> files.rules, golden |-> files.golden, record |-> files.record,
     changed |-> ChangedSources(files)]

-----------------------------------------------------------------------------
(* The page.                                                               *)

\* normalizeReadinessData and validReadinessData: of everything the builder
\* has checked once, only the dates can speak against a bundle later.
PageReads(bundle, clock) ==
    bundle.remedies.review # NoReview => bundle.remedies.review.on <= clock

\* resolveJourney: one editable fact, and no matched route left out.
PageJourney(bundle, clock) ==
    /\ PageReads(bundle, clock)
    /\ Cardinality(bundle.journey.editable) = 1
    /\ Matched(bundle.rules) = bundle.golden
    /\ bundle.journey.routes = {r \in Matched(bundle.rules) : IsRoute(bundle.rules[r])}
    /\ bundle.journey.asOf <= bundle.journey.due

\* readinessSourceIsCurrent
PageSourceCurrent(bundle, clock) ==
    /\ bundle.result.source = "current"
    /\ Bound \cap bundle.changed = {}
    /\ clock <= bundle.result.due

\* Mutant: the rules of the routes are not looked at again.
JourneyCurrentByDates(bundle, clock) ==
    /\ bundle.journey.asOf <= clock /\ clock <= bundle.journey.due
    /\ PageSourceCurrent(bundle, clock)

\* journeySourcesAreCurrent
JourneyCurrent(bundle, clock) ==
    /\ bundle.journey.asOf <= clock /\ clock <= bundle.journey.due
    /\ PageSourceCurrent(bundle, clock)
    /\ \A r \in bundle.journey.routes : RuleStatus(bundle, r, clock) = "verified"

\* journeyHandoffState for the unchanged sample intake and the answer given to
\* the one editable question; journeyQueryState asks nothing.
Handoff(bundle, clock, answer) ==
    LET question == CHOOSE f \in bundle.journey.editable : TRUE
        wanted   == CHOOSE v \in Known : [fact |-> question, equals |-> v] \in Applicability
    IN  IF ~PageJourney(bundle, clock) THEN "unavailable"
        ELSE IF ~JourneyCurrent(bundle, clock) THEN "source_review_required"
        ELSE IF ~PageLoads(bundle.record, clock) THEN "program_status_review_required"
        ELSE IF answer = "unknown" THEN "unknown"
        ELSE IF answer # wanted THEN "does_not_apply"
        ELSE "simulation_ready"
=============================================================================
