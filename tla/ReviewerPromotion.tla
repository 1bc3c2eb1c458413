-------------------------- MODULE ReviewerPromotion --------------------------
(***************************************************************************)
(* The rules, the verification ledger and the reviewer roster as files     *)
(* that people edit, and the bundle built from them (build_demo_bundle.py) *)
(* that the published page reads by its own clock.                         *)
(***************************************************************************)
EXTENDS Verification

CONSTANTS
    ReviewDays,     \* bound: reviewing goes on until this day
    MaxEdits        \* bound: commits

ASSUME ReviewerPromotionAssumption ==
    ReviewDays \in FirstDay .. LastDay /\ MaxEdits \in Nat

VARIABLES
    tree,       \* the committed rules, ledger and changed sources
    members,    \* reviewer-roster.json
    page,       \* the published bundle: a tree, or << >> before the first build
    edits,
    reviews,    \* history: who read which wording of a rule, when, for what
    attested    \* history: who could support which level when page was built

promotionVars == <<today, tree, members, page, edits, reviews, attested>>

\* What is committed together: the rules, their ledger, the changed sources.
Trees == [rules : [Rules -> Contents], ledger : Seq(LedgerLines), changed : SUBSET Sources]

\* What a person read on a day, and the level that was recorded for it.
Reviews == [rule : Rules, level : Reviewed, who : People, on : Days, read : Contents]

ReviewerPromotionTypeOK ==
    /\ today \in 0 .. ReviewDays
    /\ tree \in Trees
    /\ page # << >> => page \in Trees
    /\ members \in SUBSET Members
    /\ reviews \in SUBSET Reviews
    /\ edits \in 0 .. MaxEdits

PromotionInit ==
    /\ today = FirstDay
    /\ tree = [rules   |-> [r \in Rules |-> [cite |-> FirstText, verified |-> FirstDay,
                                             body |-> FirstText]],
               ledger  |-> SetToSeq({Unreviewed(r) : r \in Rules}),
               changed |-> {}]
    /\ members = {} /\ page = << >> /\ edits = 0
    /\ reviews = {} /\ attested = {}

Commit == edits < MaxEdits /\ edits' = edits + 1

\* A person edits a rule: its wording, or its citation, re-verified or not.
EditRule(r) ==
    /\ Commit
    /\ \/ \E t \in Texts : tree' = [tree EXCEPT !.rules[r].body = t]
       \/ \E t \in Texts, d \in {Undated, today} :
             tree' = [tree EXCEPT !.rules[r].cite = t, !.rules[r].verified = d]
    /\ UNCHANGED <<today, members, page, reviews, attested>>

\* A source snapshot is adopted in which s has or has not changed.
AdoptSnapshot(s) ==
    /\ Commit
    /\ tree' = [tree EXCEPT !.changed = IF s \in @ THEN @ \ {s} ELSE @ \cup {s}]
    /\ UNCHANGED <<today, members, page, reviews, attested>>

\* A named person compares a rule with its source and records it.
Review(who, k, level) ==
    LET r == tree.ledger[k].rule
        rule == tree.rules[r]
    IN  /\ Commit
        /\ tree' = [tree EXCEPT !.ledger[k] =
              [rule |-> r, level |-> level, who |-> who, on |-> today,
               cited |-> CitationPrint(rule), whole |-> RulePrint(rule)]]
        /\ reviews' = reviews \cup
              {[rule |-> r, level |-> level, who |-> who, on |-> today, read |-> rule]}
        /\ UNCHANGED <<today, members, page, attested>>

\* A slip: a level demoted with its claims, claims removed below the level, an
\* entry repeated or dropped.
Slip(k) ==
    LET entry == tree.ledger[k]
    IN  /\ Commit
        /\ \/ tree' = [tree EXCEPT !.ledger[k].level = Floor]
           \/ tree' = [tree EXCEPT !.ledger[k].who = NoOne]
           \/ tree' = [tree EXCEPT !.ledger[k] = Unreviewed(entry.rule)]
           \/ /\ Len(tree.ledger) <= Cardinality(Rules)
              /\ tree' = [tree EXCEPT !.ledger = Append(@, entry)]
           \/ /\ Len(tree.ledger) > 1
              /\ tree' = [tree EXCEPT !.ledger =
                    [j \in 1 .. Len(@) - 1 |-> IF j < k THEN @[j] ELSE @[j + 1]]]
        /\ UNCHANGED <<today, members, page, reviews, attested>>

\* A person attests, or attests again, or leaves.
Attest(who, role) ==
    /\ Commit
    /\ members' = {m \in members : m.who # who \/ m.role # role}
                    \cup {[who |-> who, role |-> role, attested |-> today]}
    /\ UNCHANGED <<today, tree, page, reviews, attested>>

Leave(m) ==
    /\ Commit
    /\ members' = members \ {m}
    /\ UNCHANGED <<today, tree, page, reviews, attested>>

\* build_demo_bundle: nothing is published unless ledger and roster load.
Build ==
    /\ RosterLoads(members, today)
    /\ LedgerLoadsFor(members, tree.ledger, tree.rules, today)
    /\ page' = tree
    /\ attested' = {[who |-> m.who, level |-> RoleLevel[m.role]] : m \in members}
    /\ UNCHANGED <<today, tree, members, edits, reviews>>

ReviewDay ==
    /\ today < ReviewDays
    /\ NextDay
    /\ UNCHANGED <<tree, members, page, edits, reviews, attested>>

PromotionNext ==
    \/ \E r \in Rules : EditRule(r)
    \/ \E s \in Sources : AdoptSnapshot(s)
    \/ \E who \in People, k \in DOMAIN tree.ledger, level \in Reviewed :
          Review(who, k, level)
    \/ \E k \in DOMAIN tree.ledger : Slip(k)
    \/ \E who \in People, role \in Roles : Attest(who, role)
    \/ \E m \in members : Leave(m)
    \/ Build
    \/ ReviewDay

PromotionSpec == PromotionInit /\ [][PromotionNext]_promotionVars

-----------------------------------------------------------------------------
\* A level above the floor, whatever the clock of whoever looks at the page,
\* was given by a person who read exactly the wording that the page publishes,
\* at most a window before that clock and not before its source evidence, who
\* had attested for that level when the page was built; and no source of the
\* rule had changed.  "A promotion cannot reach published surfaces without an
\* attested reviewer" (load_rule_verifications).
LevelIsEarned ==
    page # << >> =>
        \A r \in Rules, clock \in 0 .. ReviewDays :
            LET level == Shown(page, r, clock)
            IN  level # Floor =>
                  /\ DependsOn[r] \cap page.changed = {}
                  /\ \E review \in reviews :
                        /\ review.rule = r /\ review.level = level
                        /\ review.read = page.rules[r]
                        /\ clock - review.on \in 0 .. MaxAge
                        /\ page.rules[r].verified \in 0 .. review.on
                        /\ [who |-> review.who, level |-> level] \in attested
=============================================================================
