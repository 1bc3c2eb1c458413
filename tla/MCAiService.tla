----------------------------- MODULE MCAiService -----------------------------
(***************************************************************************)
(* The service on small instances: what it does for one request, and how   *)
(* its threads charge requests to a counter in memory.  A handler charges  *)
(* its request before it works on it and neither looks at the other's      *)
(* state, so each is explored alone: part says which one is there, and the *)
(* variables of the other stay as they are.                                *)
(*                                                                         *)
(* Requests: a statute of two passages, a code section, and a memo that    *)
(* shares words with the statute; two statewide rules and a local one; a   *)
(* city and a county of one name, and a county that shares its name with   *)
(* no city, or, in the other commit, a city registered twice.              *)
(***************************************************************************)
EXTENDS AiService, AiBudget, TLC

CONSTANTS q1, nothing, t1, t2, c1, c2, i1

VARIABLE part

serviceVars == <<part, vars, budgetVars>>

ServiceInit ==
    /\ part \in {"requests", "budget"}
    /\ Init /\ BudgetInit

ServiceNext ==
    /\ UNCHANGED part
    /\ \/ part = "requests" /\ Next /\ UNCHANGED budgetVars
       \/ part = "budget" /\ BudgetNext /\ UNCHANGED vars

ServiceSpec == ServiceInit /\ [][ServiceNext]_serviceVars

\* Two threads of one process, within one UTC day.
OneDay     == [t \in 0..MaxTime |-> 0]
TwoThreads == [t \in {t1, t2} |-> i1]

MCTypes    == {"adu", "split"}
MCFacts    == {"parking", "lot"}
MCValues   == [f \in MCFacts |-> {"yes", "unknown"}]
MCMaterial == "adu" :> {"parking"} @@ "split" :> {"lot"}

City == "la"  County == "la-county"  Rural == "yolo-county"
MCPlaces == {City, County, Rural}

Statute == [text |-> <<1, 2, 3>>, ends |-> <<1, 3>>]
Section == [text |-> <<4, 5>>, ends |-> <<2>>]
Memo    == [text |-> <<1, 2>>, ends |-> <<2>>]

Is(f, values) == [field |-> f, values |-> values]

MCRules ==
    << [scope |-> "statewide", criteria |-> {Is("project_type", {"adu"})}],
       [scope |-> "statewide", criteria |-> {Is("project_type", {"adu"}), Is("parking", {"yes"})}],
       [scope |-> City, criteria |-> {Is("project_type", {"adu", "split"})}] >>

Score(a, b, c, d) ==
    <<"statute", 1>> :> a @@ <<"statute", 2>> :> b @@ <<"section", 1>> :> c @@ <<"memo", 1>> :> d

Registry ==
    City :> [name |-> [stem |-> 9, county |-> FALSE], kind |-> "city"]
    @@ County :> [name |-> [stem |-> 9, county |-> TRUE], kind |-> "county"]
    @@ Rural :> [name |-> [stem |-> 6, county |-> TRUE], kind |-> "county"]

Full ==
    [rules |-> MCRules, sources |-> << <<"statute">>, <<"section">>, <<"memo", "statute">> >>,
     excerpts |-> << << <<2, 3>> >>, << >>, << <<1>>, <<3>> >> >>,
     documents |-> "statute" :> Statute @@ "section" :> Section @@ "memo" :> Memo,
     scores |-> <<Score(2, 1, 0, 0), Score(0, 0, 1, 0), Score(2, 0, 0, 3)>>,
     questions |-> q1 :> Score(0, 1, 3, 2), registry |-> Registry]

\* The memo has no copy in this commit, and two places have one name.
Without ==
    [Full EXCEPT !.registry[Rural] = [name |-> [stem |-> 9, county |-> FALSE], kind |-> "city"],
                 !.documents = "statute" :> Statute @@ "section" :> Section,
                 !.excerpts[1] = << <<1, 2>> >>, !.scores[3] = Score(1, 2, 0, 0)]

MCContexts  == {Full, Without}
MCQuestions == {q1}
MCQuotes    == {<<1, 2>>, <<2, 3>>, <<3>>, <<4, 5>>}
Cites(p, quotes) == {[passage |-> p, quote |-> quote] : quote \in quotes}
MCCitations ==
    Cites(<<"statute", 1>>, MCQuotes) \cup Cites(<<"section", 1>>, {<<4, 5>>, <<1, 2>>})
        \cup Cites(<<"memo", 1>>, {<<1, 2>>}) \cup Cites(<<"statute", 2>>, {<<2, 3>>}) \cup Cites(nothing, {<<1, 2>>})
MCClaims == {{c} : c \in MCCitations}
    \cup {{c, d} : c \in Cites(<<"statute", 1>>, {<<1, 2>>}), d \in MCCitations} \cup {{}}

MCDescriptions == {<<8, 9, 1, 2, 3>>, <<9, 8, 3>>, <<8, 6, 4, 5>>}
Written(front, stem, county, words) ==
    [words |-> words, front |-> front, name |-> [stem |-> stem, county |-> county]]
MCWrittenPlaces ==
    {Written("none", 9, FALSE, <<9>>), Written("none", 9, TRUE, <<9, 8>>), Written("none", 6, FALSE, <<6>>),
     Written("county of", 9, FALSE, <<8, 9>>), Written("county of", 6, FALSE, <<8, 6>>)}
=============================================================================
