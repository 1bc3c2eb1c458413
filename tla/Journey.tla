-------------------------------- MODULE Journey --------------------------------
(***************************************************************************)
(* The files that the packet journey is made of, the people who edit them  *)
(* one commit at a time, and the bundle that build_demo_bundle.py writes   *)
(* when, and only when, everything loads.                                  *)
(***************************************************************************)
EXTENDS Readiness

CONSTANTS
    JourneyDays,    \* bound: edits go on until this day
    MaxChanges      \* bound: commits

ASSUME JourneyAssumption ==
    /\ JourneyDays \in Days /\ MaxChanges \in Nat
    /\ Digests # {} /\ FirstText \in Matching \cap RouteTexts

VARIABLES
    files,      \* the working tree, as one record
    site,       \* the published bundle, or << >>
    changes,
    readings    \* history: who read which remedies on which day

journeyVars == <<today, files, site, changes, readings>>

Stamps == [digest : Digests, on : Days]

Workflows == [bound : [Bound -> Stamps], inputs : [Bound -> Digests],
              updated : Days, items : Texts]

Packets == [facts : [Facts -> Tri], from : [Facts -> Asserted \cup {Fixture}],
            read : [Facts -> Days \cup {Undated}],
            inventory : [Items_ -> Inventory], on : Days,
            synthetic : BOOLEAN, same : BOOLEAN]

JourneyTypeOK ==
    /\ files.registry \in [Sources -> Stamps]
    /\ files.workflow \in Workflows
    /\ files.packet \in Packets
    /\ files.golden \in SUBSET Rules
    /\ site # << >> => site.workflow \in Workflows /\ site.packet \in Packets
    /\ changes \in 0 .. MaxChanges

\* A tree in order: the sources were last read on day 0, the rules verified
\* and the packet written today, and nothing has been reviewed.
JourneyInit ==
    /\ today = FirstDay
    /\ LET digest   == CHOOSE d \in Digests : TRUE
            stamp    == [digest |-> digest, on |-> 0]
            workflow == [bound |-> [s \in Bound |-> stamp],
                         inputs |-> [s \in Bound |-> digest],
                         updated |-> today, items |-> FirstText]
            inputs   == [workflow |-> workflow,
                         packet   |-> PacketOf(workflow, today),
                         remedies |-> [workflow |-> workflow, items |-> FirstText,
                                       copy |-> FirstText, updated |-> today,
                                       review |-> NoReview],
                         journey  |-> [routes   |-> Rules,
                                       editable |-> {CHOOSE f \in Conditioned :
                                                        FactSource[f] = NoSource}],
                         record   |-> [checked |-> today, due |-> today + 2, sound |-> TRUE]]
        IN  files =
              [workflow |-> inputs.workflow, packet |-> inputs.packet,
               remedies |-> inputs.remedies, journey |-> inputs.journey,
               record   |-> inputs.record,
               registry |-> [s \in Sources |-> stamp], copies |-> [s \in Sources |-> digest],
               recorded |-> [s \in Sources |-> digest], observed |-> [s \in Sources |-> digest],
               rules    |-> [r \in Rules |-> [cite |-> FirstText, verified |-> today,
                                              body |-> FirstText]],
               ledger   |-> SetToSeq({Unreviewed(r) : r \in Rules}),
               golden   |-> Rules, pins |-> inputs]
    /\ site = << >> /\ changes = 0 /\ readings = {}

Change == changes < MaxChanges /\ changes' = changes + 1

\* A source is fetched again: its digest and date, and the preserved copy
\* unless that is forgotten.
Refetch(s, digest) ==
    /\ Change
    /\ \E copied \in BOOLEAN :
          files' = [files EXCEPT !.registry[s] = [digest |-> digest, on |-> today],
                                 !.copies[s]   = IF copied THEN digest ELSE @]
    /\ UNCHANGED <<today, site, readings>>

\* A snapshot of the registry as it is is adopted, in which s serves digest.
Observe(s, digest) ==
    /\ Change
    /\ files' = [files EXCEPT !.recorded = RegistryDigests(files.registry),
                              !.observed = [RegistryDigests(files.registry)
                                              EXCEPT ![s] = digest]]
    /\ UNCHANGED <<today, site, readings>>

\* A rule is verified again, or rewritten.
Reverify(r) ==
    /\ Change
    /\ \E rule \in {[files.rules[r] EXCEPT !.verified = d] : d \in {Undated, today}}
                     \cup {[files.rules[r] EXCEPT !.body = t] : t \in Texts} :
          files' = [files EXCEPT !.rules[r] = rule]
    /\ UNCHANGED <<today, site, readings>>

\* The workflow is bound to the registry as it is, with the packet and the
\* remedies that rest on it; or only the workflow is.
Rebind ==
    /\ Change
    /\ \E items \in Texts, all \in BOOLEAN :
        LET workflow == [bound |-> [s \in Bound |-> files.registry[s]],
                         inputs |-> [s \in Bound |-> files.registry[s].digest],
                         updated |-> today, items |-> items]
        IN  files' = IF all
                     THEN [files EXCEPT !.workflow = workflow,
                                        !.packet = PacketOf(workflow, today),
                                        !.remedies.workflow = workflow,
                                        !.remedies.items = items]
                     ELSE [files EXCEPT !.workflow = workflow]
    /\ UNCHANGED <<today, site, readings>>

\* Somebody edits the packet: an answer, an item, its day, where a fact is
\* from, what it is a packet of.
EditPacket ==
    /\ Change
    /\ \E packet \in {[files.packet EXCEPT !.facts[f] = v] : f \in Facts, v \in Tri}
                \cup {[files.packet EXCEPT !.inventory[i] = v] : i \in Items_, v \in Inventory}
                \cup {[files.packet EXCEPT !.from[f] = "applicant_assertion"] : f \in Facts}
                \cup {[files.packet EXCEPT !.on = today],
                      [files.packet EXCEPT !.synthetic = ~@],
                      [files.packet EXCEPT !.same = ~@]} :
          files' = [files EXCEPT !.packet = packet]
    /\ UNCHANGED <<today, site, readings>>

\* The action copy is rewritten; its date may be forgotten.
EditRemedies ==
    /\ Change
    /\ \E copy \in Texts, dated \in BOOLEAN :
          files' = [files EXCEPT !.remedies.copy = copy,
                                 !.remedies.updated = IF dated THEN today ELSE @]
    /\ UNCHANGED <<today, site, readings>>

\* A person reviews the copy as it stands.
ReviewRemedies ==
    /\ Change
    /\ files' = [files EXCEPT !.remedies.review =
                    [read |-> RemedyContent(files.remedies), on |-> today]]
    /\ readings' = readings \cup {[read |-> RemedyContent(files.remedies), on |-> today]}
    /\ UNCHANGED <<today, site>>

EditJourney ==
    /\ Change
    /\ \/ \E routes \in SUBSET Rules \ {{}} : files' = [files EXCEPT !.journey.routes = routes]
       \/ \E editable \in SUBSET Facts \ {{}} :
             files' = [files EXCEPT !.journey.editable = editable]
       \/ \E golden \in SUBSET Rules \ {{}} : files' = [files EXCEPT !.golden = golden]
    /\ UNCHANGED <<today, site, readings>>

\* The program page is read again.
RenewRecord(span) ==
    /\ Change
    /\ files' = [files EXCEPT !.record = [checked |-> today, due |-> today + span,
                                          sound |-> TRUE]]
    /\ UNCHANGED <<today, site, readings>>

\* The registry pins the five inputs as they are.
Pin ==
    /\ ~PinsHold(files)
    /\ files' = [files EXCEPT !.pins = [name \in Pinned |-> files[name]]]
    /\ UNCHANGED <<today, site, changes, readings>>

BuildSite ==
    /\ Buildable(files, today)
    /\ site' = Bundle(files)
    /\ UNCHANGED <<today, files, changes, readings>>

JourneyDay ==
    /\ today < JourneyDays
    /\ NextDay
    /\ UNCHANGED <<files, site, changes, readings>>

JourneyNext ==
    \/ \E s \in Sources, digest \in Digests : Refetch(s, digest) \/ Observe(s, digest)
    \/ \E r \in Rules : Reverify(r)
    \/ Rebind
    \/ EditPacket
    \/ EditRemedies
    \/ ReviewRemedies
    \/ EditJourney
    \/ \E span \in {0, 1, 3} : RenewRecord(span)
    \/ Pin
    \/ BuildSite
    \/ JourneyDay

JourneySpec == JourneyInit /\ [][JourneyNext]_journeyVars

-----------------------------------------------------------------------------
\* When the page, by whatever clock, hands a visitor on to the packet, the
\* evaluation that Python would make of the same records on that day, told of
\* every changed source the bundle carries, still applies to current sources;
\* every route it named is verified inside its window; and the program page was
\* read recently enough.  The bundle was evaluated once, on the packet's day.
ReadyMeansReevaluates ==
    site # << >> =>
        \A clock \in 0 .. JourneyDays + MaxAge + 1 :
            (\E answer \in Tri : Handoff(site, clock, answer) = "simulation_ready") =>
                LET again == Evaluate(site.workflow, site.packet, clock, site.changed)
                IN  /\ again.source = "current" /\ again.applicability = "applies"
                    /\ again.findings = site.result.findings
                    /\ \A r \in site.journey.routes :
                          /\ DependsOn[r] \cap site.changed = {}
                          /\ InWindow(site.rules[r].verified, clock)
                    /\ Counts(site.record, clock)

\* The facts, after some of them were answered.
Answered(facts, answers) ==
    [f \in Facts |-> IF f \in DOMAIN answers THEN answers[f] ELSE facts[f]]

\* A finding that is published, other than a question, survives every answer
\* that staff or the applicant may still give: unknowns are never read in
\* anybody's favour, nor against them ("without treating unknowns as
\* favorable", evaluate_readiness).
FindingsSurviveAnswers ==
    site # << >> =>
        LET packet == site.packet
            now    == FindingsOf(packet.facts, packet.inventory)
            open   == {f \in Facts : packet.facts[f] = "unknown"}
        IN  \A answers \in [open -> Known] :
                LET later == FindingsOf(Answered(packet.facts, answers), packet.inventory)
                IN  /\ \A i \in Items_ :
                          now[i] \notin {"needs_staff_review", "not_evaluated"} =>
                              later[i] = now[i]
                    /\ Overall(now) = "no_known_gaps_in_bounded_manifest" =>
                          Overall(later) = Overall(now)

\* Action copy that the page shows as reviewed was read by somebody, as
\* published and for the requirements as published, on the day it says, not
\* before the copy was last dated nor after the packet's own day.
ReviewedCopyWasRead ==
    site # << >> /\ site.remedies.review # NoReview =>
        /\ [read |-> <<site.remedies.copy, site.workflow.items>>,
            on   |-> site.remedies.review.on] \in readings
        /\ site.remedies.review.on \in site.remedies.updated .. site.result.on
=============================================================================
