----------------------------- MODULE Verification -----------------------------
(***************************************************************************)
(* rule_verification.py and reviewer_roster.py: who reviewed which text of *)
(* which rule, and the level in force on a given day.  The published page  *)
(* (assets/demo.js) reads a bundle of the rules and the ledger, without    *)
(* the roster, by the clock of whoever looks at it.  Operators only: the   *)
(* files and the people who edit them are in ReviewerPromotion.            *)
(***************************************************************************)
EXTENDS Calendar, SourceState, SequencesExt

CONSTANTS
    Texts,          \* wordings of a citation or of the rest of a rule
    FirstText,      \* the wording first committed
    People,         \* reviewer names
    NoOne,          \* an absent name
    Roles,          \* roster roles
    RoleLevel,      \* the one level each role supports
    MaxAge,         \* DEFAULT_MAX_AGE_DAYS, SOURCE_MAX_AGE_DAYS (180)
    CoiAge          \* COI_ATTESTATION_MAX_AGE_DAYS (365)

Floor     == "machine_linked"
Reviewed  == {"human_reviewed", "jurisdiction_approved"}
Levels    == {Floor} \cup Reviewed
Undated   == NoDate         \* verified_on: null

ASSUME VerificationAssumption ==
    /\ IsFiniteSet(Rules)
    /\ NoOne \notin People /\ FirstText \in Texts
    /\ RoleLevel \in [Roles -> Reviewed]
    /\ MaxAge \in Nat /\ CoiAge \in Nat

\* What a rule says: its citation with the date of the source evidence, and
\* every other field (criteria, scope, pathway, notes, dependencies, ...).
Contents == [cite : Texts, verified : {Undated} \cup Days, body : Texts]

\* citation_fingerprint and rule_fingerprint, as what they hash.
CitationPrint(rule) == <<rule.cite, rule.verified>>
RulePrint(rule)     == <<rule.cite, rule.verified, rule.body>>
NoPrint             == << >>

Prints == {NoPrint} \cup (Texts \X ({Undated} \cup Days))
            \cup (Texts \X ({Undated} \cup Days) \X Texts)

\* One line of the ledger.
LedgerLines == [rule : Rules, level : Levels, who : People \cup {NoOne},
             on : {Undated} \cup Days, cited : Prints, whole : Prints]

Unreviewed(r) ==
    [rule |-> r, level |-> Floor, who |-> NoOne, on |-> Undated,
     cited |-> NoPrint, whole |-> NoPrint]

-----------------------------------------------------------------------------
(* The roster: dated attestations of no conflict of interest.              *)

Members == [who : People, role : Roles, attested : Days]

\* load_reviewer_roster: one bad member rejects the file.
RosterLoads(roster, day) ==
    /\ Reviewed \subseteq {RoleLevel[x] : x \in Roles}
    /\ \A m \in roster : m.attested <= day /\ day - m.attested <= CoiAge
    /\ \A m, n \in roster : m.who = n.who /\ m.role = n.role => m = n

\* Mutant: any role will do.
AllowsAnyRole(roster, who, level, day) ==
    \E m \in roster : m.who = who /\ day - m.attested \in 0 .. CoiAge

\* ReviewerRoster.allows
Allows(roster, who, level, day) ==
    \E m \in roster :
        /\ m.who = who
        /\ RoleLevel[m.role] = level
        /\ day - m.attested \in 0 .. CoiAge

-----------------------------------------------------------------------------
(* Loading the ledger.                                                     *)

Claims(entry) == <<entry.who, entry.on, entry.cited, entry.whole>>
NoClaims      == <<NoOne, Undated, NoPrint, NoPrint>>

\* Mutant: the citation is compared, the rest of the rule is not.
ReviewHoldsOfCitation(entry, rule) ==
    /\ NoOne # entry.who /\ entry.on # Undated
    /\ rule.verified # Undated /\ entry.on >= rule.verified
    /\ entry.cited = CitationPrint(rule)

\* _validate_reviewed_level: complete, later than the evidence, and of the
\* rule as it now stands.
ReviewHolds(entry, rule) ==
    /\ NoOne # entry.who /\ entry.on # Undated
    /\ rule.verified # Undated /\ entry.on >= rule.verified
    /\ entry.cited = CitationPrint(rule)
    /\ entry.whole = RulePrint(rule)

\* _entry
Valid(entry, rules, day) ==
    /\ entry.on <= day
    /\ IF entry.level = Floor
       THEN Claims(entry) = NoClaims
       ELSE ReviewHolds(entry, rules[entry.rule])

Permitted(entry, roster, day) ==
    entry.level \in Reviewed => Allows(roster, entry.who, entry.level, day)

Of(ledger, r) == {k \in DOMAIN ledger : ledger[k].rule = r}

\* load_rule_verifications with strict and require_complete, without a roster
\* (the harness, the export and the beta gate).
LedgerLoads(ledger, rules, day) ==
    /\ \A k \in DOMAIN ledger : Valid(ledger[k], rules, day)
    /\ \A r \in Rules : Cardinality(Of(ledger, r)) = 1

\* The same with the roster (the build of the bundle).
LedgerLoadsFor(roster, ledger, rules, day) ==
    /\ LedgerLoads(ledger, rules, day)
    /\ \A k \in DOMAIN ledger : Permitted(ledger[k], roster, day)

\* The entry that a load keeps of a rule.  A tolerant load drops what is not
\* valid and every rule that is then named more than once; where the strict
\* one succeeds it keeps the same.
Kept(ledger, rules, day, r) ==
    LET valid == {k \in Of(ledger, r) : Valid(ledger[k], rules, day)}
    IN  IF Cardinality(valid) = 1
        THEN ledger[CHOOSE k \in valid : TRUE] ELSE Unreviewed(r)

-----------------------------------------------------------------------------
(* The level in force.                                                     *)

InWindow(on, day) == day - on \in 0 .. MaxAge

\* The three source reasons of effective_status, and nothing else holds a rule.
SourceHeld(r, rule, changed, day) ==
    \/ DependsOn[r] \cap changed # {}
    \/ rule.verified = Undated
    \/ ~InWindow(rule.verified, day)

\* effective_status: `stale` also marks a floor that is not a decayed claim.
EffectiveStatus(r, rule, entry, changed, day) ==
    IF SourceHeld(r, rule, changed, day) THEN [level |-> Floor, stale |-> TRUE]
    ELSE IF entry.level = Floor          THEN [level |-> Floor, stale |-> FALSE]
    ELSE IF ~InWindow(entry.on, day)     THEN [level |-> Floor, stale |-> TRUE]
    ELSE [level |-> entry.level, stale |-> FALSE]

StatusIn(tree, r, day) ==
    EffectiveStatus(r, tree.rules[r], Kept(tree.ledger, tree.rules, day, r),
                    tree.changed, day)

\* level_coverage
Coverage(tree, day) ==
    [level \in Levels |->
        Cardinality({r \in Rules : StatusIn(tree, r, day).level = level})]

-----------------------------------------------------------------------------
(* The published page.                                                     *)

\* normalizeRuleVerifications: one entry that does not hold voids the ledger.
PageLedgerHolds(page, clock) ==
    /\ Len(page.ledger) = Cardinality(Rules)
    /\ \A r \in Rules : Cardinality(Of(page.ledger, r)) = 1
    /\ \A k \in DOMAIN page.ledger :
          LET entry == page.ledger[k]
          IN  IF entry.level = Floor
              THEN Claims(entry) = NoClaims
              ELSE entry.on <= clock /\ ReviewHolds(entry, page.rules[entry.rule])

\* Mutant: the browser knows of the source window, not of a changed source.
RuleStatusByDate(page, r, clock) ==
    LET on == page.rules[r].verified
    IN  IF on = Undated THEN "unverified"
        ELSE IF clock - on < 0 \/ clock - on > MaxAge THEN "stale"
        ELSE "verified"

\* ruleStatus
RuleStatus(page, r, clock) ==
    LET on == page.rules[r].verified
    IN  IF DependsOn[r] \cap page.changed # {} THEN "stale"
        ELSE IF on = Undated THEN "unverified"
        ELSE IF clock - on < 0 \/ clock - on > MaxAge THEN "stale"
        ELSE "verified"

\* effectiveRuleVerification: the level shown for a rule.
Shown(page, r, clock) ==
    LET entry == page.ledger[CHOOSE k \in Of(page.ledger, r) : TRUE]
        age   == clock - entry.on
    IN  IF \/ RuleStatus(page, r, clock) # "verified"
           \/ ~PageLedgerHolds(page, clock)
           \/ entry.level = Floor
           \/ age < 0 \/ age > MaxAge
        THEN Floor ELSE entry.level
=============================================================================
