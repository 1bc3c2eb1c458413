------------------------------- MODULE BetaGate -------------------------------
(***************************************************************************)
(* beta_gate.py and beta_operations.py: the record that binds twelve       *)
(* artifacts by the SHA-256 of their bytes and says that nothing has been  *)
(* tested or approved; what is read to believe it; and what re-deriving    *)
(* its pins may change.  A tree maps the names of files to their contents, *)
(* and a SHA-256 is what it is of.  Operators only: the commands and the   *)
(* editors are in GateRun.                                                 *)
(***************************************************************************)
EXTENDS Readiness

CONSTANTS
    BoundDocs,      \* documents pinned in beta_operations.py
    EvidenceDocs,   \* documents that a control cites
    Exported,       \* files that profile v2 lists
    SnapshotLock    \* the one lock id that the ledgers share

ASSUME BetaGateAssumption == FirstText \in Matching \cap RouteTexts

\* RECOMPUTABLE_ARTIFACT_IDS, and _NOT_RUN_ARTIFACT_SHA256: the planning
\* ledgers, which are pinned in the code as well.
Repinned  == {"reference_journey", "reference_packet", "rule_verification", "source_state"}
Frozen    == {"beta_operations", "content_review", "external_evidence_gate",
              "heldout_evaluation", "manual_evidence", "participant_sessions",
              "public_synthetic_export", "source_change_rehearsal"}
Artifacts == Repinned \cup Frozen

\* _EXPORT_EXCLUDED_PATHS
Excluded == {"gate", "gate_code"}

-----------------------------------------------------------------------------
(* The planning ledgers.  `executed` holds the parts of a ledger that claim *)
(* to have happened: a status other than not_run, a count other than zero,  *)
(* a field other than null.  Wording, and fields that no validator looks    *)
(* at, are the part "elsewhere".                                            *)

\* _validate_external_gate
ExternalParts == {"artifact_lock", "internal_dry_run", "recruitment", "partner_gate", "decision"}

\* _validate_content_review
ContentParts == {"artifact_lock", "reviewer_slots", "rows", "cross_cutting_checks", "gate"}

\* _validate_participants
ParticipantParts == {"artifact_lock", "scorecards", "aggregate", "privacy_protocol"}

\* _validate_manual
ManualParts == {"artifact_lock", "manual_checks", "spanish_semantic_reviews", "privacy_protocol"}

\* _validate_rehearsal
RehearsalParts == {"artifact_lock", "simulation_contract", "stages", "aggregate",
                   "partner_burden_decision", "execution", "publication_receipt",
                   "observed_impact", "timing"}

\* load_evaluation_manifest
HeldoutParts == {"freeze", "inputs", "output"}

\* load_beta_operations_readiness: _validate_boundary, _validate_deployment,
\* _validate_records_boundary, _validate_export_boundary and _validate_approvals.
OperationsParts == {"boundary", "deployment", "records_boundary", "export_boundary", "approvals"}

LedgerParts ==
    [external_evidence_gate  |-> ExternalParts,
     content_review          |-> ContentParts,
     participant_sessions    |-> ParticipantParts,
     manual_evidence         |-> ManualParts,
     source_change_rehearsal |-> RehearsalParts,
     heldout_evaluation      |-> HeldoutParts,
     beta_operations         |-> OperationsParts \cup {"controls"},
     public_synthetic_export |-> {}]

NothingRun(tree) == \A id \in Frozen : tree[id].executed \cap LedgerParts[id] = {}

\* What the external gate repeats of the other four ledgers
\* (_derived_content_summary .. _derived_rehearsal_summary).
Summarised ==
    [content_review          |-> {"gate"},
     participant_sessions    |-> {"aggregate"},
     manual_evidence         |-> {},
     source_change_rehearsal |-> {"aggregate", "timing", "execution"}]

Summaries(tree) ==
    [id \in DOMAIN Summarised |-> tree[id].executed \cap Summarised[id]]

\* _validate_document_bindings, _validate_control and _validate_controls: the
\* pinned documents are the committed ones, and every cited file exists.
OperationsHold(tree, day) ==
    /\ tree.beta_operations.on <= day
    /\ \A d \in BoundDocs : tree.beta_operations.docs[d] = FirstText /\ tree.docs[d] = FirstText
    /\ \A d \in EvidenceDocs : tree.docs[d] # Absent

-----------------------------------------------------------------------------
(* What the ledgers say of the reference journey.                          *)

\* The identity and fingerprints that _reference_fields compares.
Reference(tree) ==
    [workflow |-> tree.workflow, packet |-> tree.packet,
     journey |-> tree.journey, case |-> tree.golden]

RouteDates(output)  == <<output.envelope.asOf, output.envelope.due>>
PacketDates(output) == <<output.on, output.due>>

\* _validate_shared_lock_contract
LockShared(tree) ==
    \A id \in {"participant_sessions", "source_change_rehearsal"} :
        tree[id].lock = tree.external_evidence_gate.lock

\* What each ledger repeats of them: the content review and the rehearsal fewer.
Repeated ==
    LET identity == {"workflow", "packet", "journey"}
    IN  [external_evidence_gate  |-> identity \cup {"case"},
         participant_sessions    |-> identity \cup {"case"},
         manual_evidence         |-> identity \cup {"case"},
         source_change_rehearsal |-> identity,
         content_review          |-> identity \ {"packet"}]

\* _validate_cross_bindings
CrossBound(tree, gate) ==
    LET journey == tree.reference_journey
        packet  == tree.reference_packet
        answers == tree.external_evidence_gate.answers
    IN  /\ journey.names = gate.reference
        /\ packet.workflow = gate.reference.workflow
        /\ packet.packet = gate.reference.packet
        /\ \A id \in DOMAIN Repeated : \A part \in Repeated[id] :
              tree[id].names[part] = gate.reference[part]
        /\ LockShared(tree)
        /\ answers.remedies = tree.content_review.remedies
        /\ answers.routes = RouteDates(journey)
        /\ tree.manual_evidence.routes = RouteDates(journey)
        /\ answers.packet = PacketDates(packet)
        /\ tree.content_review.items = packet.workflow.items

\* _validate_reference_artifacts: the sample packet has a gap.
ReferenceShown(tree) ==
    /\ tree.reference_packet.overall = "known_gaps"
    /\ tree.reference_journey.manifest = tree.reference_packet

\* The sources that the adopted snapshot saw change, or could not read.
Unread(tree)  == {s \in Sources : tree.source_state.observed[s] = NoDigest}
Drifted(tree) == {s \in Sources \ Unread(tree) :
                     tree.source_state.observed[s] # tree.source_state.recorded[s]}

\* to_manifest and resolve_journey: what the two generated files should be.
PacketOutput(tree) == Evaluate(tree.workflow, tree.packet, tree.packet.on, Drifted(tree))

JourneyOutput(tree) ==
    [names |-> Reference(tree), envelope |-> Envelope(tree, PacketOutput(tree)),
     manifest |-> PacketOutput(tree)]

\* _validate_canonical_reference_outputs: both are rebuilt from their inputs on
\* the packet's own day, told of the changed sources; the program page is read
\* by today's rules and must say what the frozen answer key says.
OutputsCanonical(tree, day) ==
    LET asOf == tree.packet.on
    IN  /\ PinsHold(tree)
        /\ WorkflowLoads(tree.workflow, tree.registry, asOf)
        /\ PacketLoads(tree.packet, tree.workflow, asOf)
        /\ tree.packet.same
        /\ tree.reference_packet = PacketOutput(tree)
        /\ JourneyResolves(tree, PacketOutput(tree))
        /\ tree.reference_journey = JourneyOutput(tree)
        /\ Loads(tree.record, day)
        /\ tree.external_evidence_gate.answers.program = tree.record

-----------------------------------------------------------------------------
(* Currency.                                                               *)

\* _reference_currency_blockers: what has lapsed is reported, not refused.
Blockers(tree, day) ==
    {b \in {"route_source", "packet_source", "program_availability"} :
        CASE b = "route_source"  -> day > tree.reference_journey.envelope.due
          [] b = "packet_source" -> \/ tree.reference_packet.source # "current"
                                    \/ day > tree.reference_packet.due
          [] OTHER               -> ~Counts(tree.external_evidence_gate.answers.program, day)}

RulesOf(tree) == [rules |-> tree.rules, ledger |-> tree.rule_verification, changed |-> Drifted(tree)]

\* Every rule stays at the floor (coverage.machine_linked = coverage.total).
NothingReviewed(tree, day) ==
    /\ LedgerLoads(tree.rule_verification, tree.rules, day)
    /\ Coverage(RulesOf(tree), day)[Floor] = Cardinality(Rules)

\* _rule_currency_counts
StaleRules(tree, day)   == {r \in Rules : StatusIn(RulesOf(tree), r, day).stale}
UnverifiedRules(tree)   == {r \in Rules : tree.rules[r].verified = Undated}

-----------------------------------------------------------------------------
(* Validation: load_beta_gate on a captured tree and a record.             *)

\* The tree of the commit in which _NOT_RUN_ARTIFACT_SHA256, the documents'
\* digests and the first record were written.
FirstStamp    == [digest |-> CHOOSE d \in Digests : TRUE, on |-> 0]
FirstWorkflow == [bound |-> [s \in Bound |-> FirstStamp],
                  inputs |-> [s \in Bound |-> FirstStamp.digest],
                  updated |-> FirstDay, items |-> FirstText]
FirstPacket   == [PacketOf(FirstWorkflow, FirstDay) EXCEPT !.inventory[1] = "missing"]
FirstInputs   ==
    [workflow |-> FirstWorkflow, packet |-> FirstPacket,
     remedies |-> [workflow |-> FirstWorkflow, items |-> FirstText, copy |-> FirstText,
                   updated |-> FirstDay, review |-> NoReview],
     journey  |-> [routes   |-> Rules,
                   editable |-> {CHOOSE f \in Conditioned : FactSource[f] = NoSource}],
     record   |-> [checked |-> FirstDay, due |-> FirstDay + 1, sound |-> TRUE]]

FirstFiles ==
    FirstInputs @@
    [registry |-> [s \in Sources |-> FirstStamp], golden |-> Rules, pins |-> FirstInputs,
     source_state |-> [recorded |-> [s \in Sources |-> FirstStamp.digest],
                       observed |-> [s \in Sources |-> FirstStamp.digest],
                       reviewed |-> TRUE],
     rules |-> [r \in Rules |-> [cite |-> FirstText, verified |-> FirstDay, body |-> FirstText]],
     rule_verification |-> SetToSeq({Unreviewed(r) : r \in Rules}),
     docs |-> [d \in BoundDocs \cup EvidenceDocs |-> FirstText]]

FirstOutputs ==
    [reference_packet |-> PacketOutput(FirstFiles), reference_journey |-> JourneyOutput(FirstFiles)]

FirstLedgers ==
    LET common == [executed |-> {}, names |-> Reference(FirstFiles), lock |-> SnapshotLock]
        routes == RouteDates(FirstOutputs.reference_journey)
        reviewed == RemedyContent(FirstFiles.remedies)
    IN  [participant_sessions    |-> common,
         source_change_rehearsal |-> common,
         content_review  |-> common @@ [remedies |-> reviewed, items |-> FirstText],
         manual_evidence |-> common @@ [routes |-> routes, rules |-> Rules],
         external_evidence_gate |-> common @@
            [answers   |-> [remedies |-> reviewed, routes |-> routes,
                            packet  |-> PacketDates(FirstOutputs.reference_packet),
                            program |-> FirstFiles.record],
             summaries |-> [id \in DOMAIN Summarised |-> {}]],
         heldout_evaluation      |-> [executed |-> {}],
         beta_operations         |-> [executed |-> {}, on |-> FirstDay,
                                      docs |-> [d \in BoundDocs |-> FirstText]],
         public_synthetic_export |-> [executed |-> {}, lists |-> Exported]]

FirstTree == FirstLedgers @@ FirstOutputs @@ FirstFiles

\* Mutant: what a planning ledger says is believed if its digest is recorded.
FrozenHoldUnpinned(gate) == Frozen \subseteq DOMAIN gate.bind

\* _validate_not_run_pins
FrozenHold(gate) == \A id \in Frozen : gate.bind[id] = FirstLedgers[id]

\* _load_bindings
Bindings(tree) == [a \in Artifacts |-> tree[a]]

\* _validate_export_boundary: neither profile carries the gate, and the bytes
\* of the second are the ones that the constant in the code names.
ExportBounded(tree, anchor) ==
    /\ tree.public_synthetic_export.lists \cap Excluded = {}
    /\ tree.profile = anchor
    /\ DOMAIN tree.profile \cap Excluded = {}

\* Everything that load_beta_gate checks before the aggregate.
Coherent(tree, gate, anchor, day) ==
    /\ gate.claims = {} /\ gate.on <= day
    /\ gate.bind = Bindings(tree)
    /\ NothingRun(tree)
    /\ ReferenceShown(tree)
    /\ CrossBound(tree, gate)
    /\ tree.external_evidence_gate.summaries = Summaries(tree)
    /\ FrozenHold(gate)
    /\ RegistryLoads(tree.registry, day)
    /\ tree.source_state.recorded = RegistryDigests(tree.registry)
    /\ tree.source_state.reviewed
    /\ OutputsCanonical(tree, day)
    /\ NothingReviewed(tree, day)
    /\ tree.manual_evidence.rules = Rules
    /\ OperationsHold(tree, day)
    /\ ExportBounded(tree, anchor)

\* _validate_aggregate: what the record must say of the tree on the day.
Aggregate(tree, gate, day) ==
    [fingerprint |-> gate.bind,
     changed     |-> Cardinality(Drifted(tree)),
     unread      |-> Cardinality(Unread(tree)),
     blockers    |-> Blockers(tree, day),
     stale       |-> Cardinality(StaleRules(tree, day)),
     unverified  |-> Cardinality(UnverifiedRules(tree))]

\* load_beta_gate: refused, refused for the aggregate only, or a summary.
Verdict(tree, gate, anchor, day) ==
    IF ~Coherent(tree, gate, anchor, day) THEN "invalid"
    ELSE IF gate.aggregate # Aggregate(tree, gate, day) THEN "mismatch"
    ELSE "valid"

-----------------------------------------------------------------------------
(* Re-derivation.                                                          *)

\* Mutant: only what lies under data/ is looked at again.
ReprofiledData(profile, tree) ==
    [name \in DOMAIN profile |-> IF name = "docs" THEN profile[name] ELSE tree[name]]

\* _recompute_export_profile: membership stays, digests follow the tree.
Reprofiled(profile, tree) == [name \in DOMAIN profile |-> tree[name]]

\* _recompute_binding_pins: a planning ledger that changed stops everything.
FrozenMoved(tree) == {id \in Frozen : tree.gate.bind[id] # tree[id]}

Repin(tree) ==
    LET bind == [a \in Artifacts |-> IF a \in Frozen THEN tree.gate.bind[a] ELSE tree[a]]
    IN  [tree.gate EXCEPT !.bind = bind, !.aggregate.fingerprint = bind]

\* The first record and profile, as the tool would have derived them.
FirstGate ==
    LET draft == [bind |-> Bindings(FirstTree), reference |-> Reference(FirstTree),
                  on |-> FirstDay, claims |-> {}]
    IN  draft @@ [aggregate |-> Aggregate(FirstTree, draft, FirstDay)]

FirstProfile == [name \in Exported |-> FirstTree[name]]

GateTree ==
    [name \in DOMAIN FirstTree \cup {"gate", "profile"} |->
        CASE name = "gate"    -> FirstGate
          [] name = "profile" -> FirstProfile
          [] OTHER            -> FirstTree[name]]
=============================================================================
