------------------------------ MODULE Screening ------------------------------
(***************************************************************************)
(* The deterministic matcher, once in screening.py and once, ported by     *)
(* hand, in assets/demo.js.  A rule base is a function from rule ids to    *)
(* rules; an operator takes the base, because the page and the service     *)
(* each have their own.                                                    *)
(***************************************************************************)
CONSTANTS
    Types,          \* project types
    Facts,          \* names of the other facts
    Values,         \* the answers that each fact can have
    Unknown,        \* the answer "I'm not sure"
    NoAnswer,       \* null: the question was not answered, or not asked
    Material,       \* the facts that each project type asks for
    Places,         \* slugs of the registered jurisdictions
    NoPlace         \* no registered jurisdiction was named

ASSUME ScreeningAssumption ==
    /\ "project_type" \notin Facts
    /\ NoAnswer \notin Types
    /\ \A f \in Facts : NoAnswer \notin Values[f]
    /\ Material \in [Types -> SUBSET Facts]
    /\ NoPlace \notin Places

Names == {"project_type"} \cup Facts

Allowed(n) == IF n = "project_type" THEN Types ELSE Values[n]
Answers    == UNION {Allowed(n) : n \in Names}
Sheets     == {s \in [Names -> Answers \cup {NoAnswer}] :
                  \A n \in Names : s[n] \in Allowed(n) \cup {NoAnswer}}

\* eq and in compare with one value or with several; an absent answer is none
\* of them.  The form has no numbers, so lte and gte accept nothing.
Criteria == [field : Names, values : SUBSET Answers]
Rules    == [scope : Places \cup {"statewide"}, criteria : SUBSET Criteria \ {{}}]

Matches(rule, facts) == \A c \in rule.criteria : facts[c.field] \in c.values

\* screen: statewide rules and those of the place, if they match.
Screen(base, intake) ==
    {id \in DOMAIN base : /\ base[id].scope \in {"statewide", intake.place}
                          /\ Matches(base[id], intake.facts)}

Asked(facts) == IF facts["project_type"] \in Types THEN Material[facts["project_type"]] ELSE {}

\* The answers that the form shows: to the project type and what it asks for.
Shown(facts) ==
    [n \in Names |-> IF n \in {"project_type"} \cup Asked(facts) THEN facts[n] ELSE NoAnswer]

\* A sheet with an answer, "I'm not sure" included, to all that is asked.
Complete(facts) ==
    /\ facts = Shown(facts)
    /\ \A f \in Asked(facts) : facts[f] # NoAnswer

\* What the form submits.
Intakes == {i \in [place : Places, facts : Sheets] :
               i.facts["project_type"] \in Types /\ Complete(i.facts)}

Unresolved(intake) == {f \in Asked(intake.facts) : intake.facts[f] \in {NoAnswer, Unknown}}
=============================================================================
