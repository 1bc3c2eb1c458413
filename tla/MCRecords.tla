------------------------------ MODULE MCRecords ------------------------------
(***************************************************************************)
(* The record machines and the review clocks on small instances that share *)
(* one calendar, one set of sources and one rule.  They have no step in    *)
(* common, so each is explored alone: part says which one is there, and    *)
(* the variables of the others stay empty.                                 *)
(***************************************************************************)
EXTENDS ReviewerPromotion, AvailabilityWatch, Journey, GateRun, Clocks

VARIABLE part

recordsVars == <<part, promotionVars, availabilityVars, journeyVars, gateVars, clockVars>>

promotionRest    == <<tree, members, page, edits, reviews, attested>>
availabilityRest == <<schedule, record, pending, renewals, moved, proposed, written, announced>>
journeyRest      == <<files, site, changes, readings>>
gateRest         == <<repo, anchor, proc, gateEdits>>
clockRest        == <<filing, current, remaining, status>>

NoPromotion ==
    tree = << >> /\ members = {} /\ page = << >> /\ edits = 0 /\ reviews = {} /\ attested = {}
NoAvailability ==
    /\ schedule = << >> /\ record = Absent /\ pending = NotOwed /\ renewals = 0
    /\ moved = {} /\ proposed = {} /\ written = FirstDay /\ announced = FALSE
NoJourney == files = << >> /\ site = << >> /\ changes = 0 /\ readings = {}
NoGate    == repo = << >> /\ anchor = << >> /\ proc = Idle /\ gateEdits = 0
NoClocks  == filing = << >> /\ current = 0 /\ remaining = 0 /\ status = NotReturned

RecordsInit ==
    \/ /\ part = "promotion" /\ PromotionInit
       /\ NoAvailability /\ NoJourney /\ NoGate /\ NoClocks
    \/ /\ part = "availability" /\ AvailabilityInit
       /\ NoPromotion /\ NoJourney /\ NoGate /\ NoClocks
    \/ /\ part = "journey" /\ JourneyInit
       /\ NoPromotion /\ NoAvailability /\ NoGate /\ NoClocks
    \/ /\ part = "gate" /\ GateInit
       /\ NoPromotion /\ NoAvailability /\ NoJourney /\ NoClocks
    \/ /\ part = "clocks" /\ ClocksInit
       /\ NoPromotion /\ NoAvailability /\ NoJourney /\ NoGate

RecordsNext ==
    /\ UNCHANGED part
    /\ \/ /\ part = "promotion" /\ PromotionNext
          /\ UNCHANGED <<availabilityRest, journeyRest, gateRest, clockRest>>
       \/ /\ part = "availability" /\ AvailabilityNext
          /\ UNCHANGED <<promotionRest, journeyRest, gateRest, clockRest>>
       \/ /\ part = "journey" /\ JourneyNext
          /\ UNCHANGED <<promotionRest, availabilityRest, gateRest, clockRest>>
       \/ /\ part = "gate" /\ GateNext
          /\ UNCHANGED <<promotionRest, availabilityRest, journeyRest, clockRest>>
       \/ /\ part = "clocks" /\ ClocksNext
          /\ UNCHANGED <<promotionRest, availabilityRest, journeyRest, gateRest>>

RecordsSpec == RecordsInit /\ [][RecordsNext]_recordsVars

\* The values that the variables of the machine that is there may have.  The
\* run leaves it out; to check it, add it to the invariants of Records.cfg.
RecordsTypeOK ==
    CASE part = "promotion"    -> ReviewerPromotionTypeOK
      [] part = "availability" -> AvailabilityWatchTypeOK
      [] part = "journey"      -> JourneyTypeOK
      [] part = "gate"         -> GateRunTypeOK
      [] part = "clocks"       -> ClocksTypeOK

-----------------------------------------------------------------------------
OneRule      == {"r1"}
ThreeSources == {"s1", "s2", "s3"}
BoundSources == {"s1", "s2"}
RuleSources  == [r \in OneRule |-> {"s1", "s3"}]
RuleCites    == [r \in OneRule |-> "s1"]
NoCases      == {}
NoCaseRules  == << >>
LevelOf      == [reader |-> "human_reviewed", council |-> "jurisdiction_approved"]

\* A plan, a city read from s2, and a flood zone that only asks for more.
ThreeFacts    == {"plan", "city", "flood"}
SourceOfFact  == [plan |-> "none", city |-> "s2", flood |-> "none"]
Applies       == {[fact |-> "plan", equals |-> "yes"], [fact |-> "city", equals |-> "yes"]}
TwoItems      == << [when |-> {}, parent |-> 0],
                    [when |-> {[fact |-> "flood", equals |-> "yes"]}, parent |-> 1] >>

\* Mondays; Mondays and Thursdays; the first of a month or a Monday.
Term(v)     == {[low |-> v, high |-> v, step |-> 1]}
Weekly      == {[month |-> {Every}, dom |-> {Every}, dow |-> Term(1)]}
TwiceAWeek  == Weekly \cup {[month |-> {Every}, dom |-> {Every}, dow |-> Term(4)]}
MonthOrWeek == {[month |-> {Every}, dom |-> Term(1), dow |-> Term(1)]}
ThreeSchedules ==
    {[crons |-> crons, fires |-> {n \in 1 .. Horizon : \E c \in crons : FiresOn(c, n)}] :
        crons \in {Weekly, TwiceAWeek, MonthOrWeek}}

\* The lead of each of them suffices.
ASSUME EnoughLead == YearCovers

\* Two places: what lies before the rules in the order of their paths, and the
\* rest.  One part of a ledger that a validator reads, one of a list that none
\* looks at, and one that a person may decide.
TwoPlaces ==
    << {"record", "heldout_evaluation", "public_synthetic_export", "profile", "golden",
        "reference_journey", "journey", "reference_packet", "remedies", "packet", "workflow"},
       {"rules", "source_state", "registry", "beta_operations", "gate", "rule_verification",
        "content_review", "external_evidence_gate", "manual_evidence", "participant_sessions",
        "source_change_rehearsal", "pins", "docs"} >>
ThreeParts ==
    {<<"content_review", "rows">>, <<"participant_sessions", "elsewhere">>,
     <<"external_evidence_gate", "decision">>}

\* Closures on weekdays and one on a weekend.
Calendars == SUBSET {1, 2, 4, 5}
=============================================================================
