------------------------------ MODULE Evaluation ------------------------------
(***************************************************************************)
(* conformance_evaluation.py: a held-out evaluation of the ordinance       *)
(* scanner.  A plan pins the scanner and its checks, a case set is frozen, *)
(* the scanner predicts without a key, two people label the same passages  *)
(* and a third settles what they disagree on, and the counts are scored    *)
(* and validated again, each step by a command of its own over files that  *)
(* people go on editing.  A SHA-256 is what it is of; a person who writes  *)
(* one down writes that of what is there.                                  *)
(***************************************************************************)
EXTENDS Integers, FiniteSets, Functions

CONSTANTS
    Codes,          \* what a source file (scanner, checks, evaluator) may be
    ChecksOf,       \* the check ids that a check registry lists
    Finds,          \* [Codes -> [Codes -> [Excerpts -> SUBSET check ids]]]
    Excerpts,       \* passages
    RightLabels,    \* the label that a reader gives: [Excerpts -> [check ids -> Labels]]
    CaseNames, Stratum, Aim, Role,
    Documents,      \* [id, doc]: a source, by its id and address, and the bytes retrieved
    FirstCode, FirstPassages, FirstSource,   \* what is there at first
    Development,    \* sources that influenced the checks
    Minimum,        \* coverage_contract: [stratum -> [label -> Nat]]
    MaxMoment,      \* bound: the last moment
    MaxRevisions,   \* bound: edits
    None            \* no file

Labels  == {"should_flag", "should_stay_quiet", "reference_abstain"}
Strata  == {"official", "synthetic"}
RoleFor == [should_flag |-> "candidate_flag", should_stay_quiet |-> "candidate_near_miss"]
CheckIds == UNION Range(ChecksOf)

ASSUME EvaluationAssumption ==
    /\ IsFiniteSet(CaseNames) /\ IsFiniteSet(CheckIds)
    /\ DOMAIN ChecksOf = Codes
    /\ Finds \in [Codes -> [Codes -> [Excerpts -> SUBSET CheckIds]]]
    /\ RightLabels \in [Excerpts -> [CheckIds -> Labels]]
    /\ Stratum \in [CaseNames -> Strata] /\ Aim \in [CaseNames -> CheckIds]
    /\ Role \in [CaseNames -> {"candidate_flag", "candidate_near_miss"}]
    /\ Minimum \in [Strata -> [{"should_flag", "should_stay_quiet"} -> Nat]]
    /\ MaxMoment \in Nat /\ MaxRevisions \in Nat

VARIABLES
    now,        \* the clock of the people who date the files
    disk,       \* scanner, checks, evaluator, plan, cases, key, predictions, result
    run,        \* the command that is running, or the outcome of the last
    revisions

evaluationVars == <<now, disk, run, revisions>>

\* expected_pair_keys: every case with every check of the plan.
PairsOf(plan) == CaseNames \X plan.ids

-----------------------------------------------------------------------------
(* The loaders.                                                            *)

\* load_evaluation_manifest: the pins are those of the files, and the plan
\* lists the live checks.
PlanLoads(files) ==
    /\ files.scanner = files.plan.scanner
    /\ files.checks = files.plan.checks
    /\ ChecksOf[files.checks] = files.plan.ids

\* _validate_case_source_identity: a source has one document.
OneDocument(cases) ==
    \A b, c \in {c \in CaseNames : Stratum[c] = "official"} :
        cases.source[b].id = cases.source[c].id => cases.source[b] = cases.source[c]

\* load_case_set, _parse_case, _parse_case_source, _reject_development_source
CasesLoad(cases, plan) ==
    /\ \A c \in CaseNames : Aim[c] \in plan.ids
    /\ \A c \in {c \in CaseNames : Stratum[c] = "official"} :
          /\ cases.retrieved <= cases.frozen
          /\ \A d \in Development : /\ cases.source[c].id # d.id
                                    /\ cases.source[c].doc # d.doc
    /\ Cardinality(Range(cases.passage)) = Cardinality(CaseNames)
    /\ OneDocument(cases)

\* _validate_coverage: targeted pairs of the right role and label.
Covered(plan, final) ==
    \A s \in Strata, check \in plan.ids, label \in DOMAIN RoleFor :
        Cardinality({c \in CaseNames :
                        /\ Aim[c] = check /\ Stratum[c] = s
                        /\ Role[c] = RoleFor[label]
                        /\ final[<<c, check>>] = label}) >= Minimum[s][label]

Disagreed(key) == {p \in DOMAIN key.first : key.first[p] # key.second[p]}

\* Mutant: the key is held to the freeze and the checks only.
KeyIsOfFreeze(key, plan, cases) == key.freeze = cases.freeze /\ key.checks = plan.checks

\* What the key says it labels, by its digests.
KeyIsOf(key, plan, cases) ==
    /\ key.freeze = cases.freeze /\ key.cases = cases
    /\ key.checks = plan.checks

\* load_answer_key: two readers and a third, of these passages and checks, in
\* the order freeze, labels, adjudication, unblinding; what they agreed on stands.
KeyLoads(key, plan, cases) ==
    /\ KeyIsOf(key, plan, cases)
    /\ key.people = 3
    /\ ~key.seen
    /\ {DOMAIN key.first, DOMAIN key.second, DOMAIN key.final} = {PairsOf(plan)}
    /\ key.recorded = Disagreed(key)
    /\ \A p \in PairsOf(plan) \ Disagreed(key) : key.final[p] = key.first[p]
    /\ cases.frozen <= key.reviewed /\ key.reviewed <= key.adjudicated
    /\ key.unblinded # None /\ key.adjudicated <= key.unblinded
    /\ key.lawAsOf <= key.unblinded
    /\ Covered(plan, key.final)

\* Mutant: predictions are held to the freeze and the plan only.
PredictedForFreeze(predictions, plan, cases) ==
    predictions.freeze = cases.freeze /\ predictions.plan = plan

\* What the predictions say they are of, by their digests.
PredictedFor(predictions, plan, cases) ==
    predictions.freeze = cases.freeze /\ predictions.plan = plan /\ predictions.cases = cases

\* load_predictions
PredictionsLoad(predictions, plan, cases, evaluator) ==
    /\ PredictedFor(predictions, plan, cases)
    /\ predictions.evaluator = evaluator
    /\ DOMAIN predictions.found = CaseNames
    /\ \A c \in CaseNames : predictions.found[c] \subseteq plan.ids
    /\ cases.frozen <= predictions.at

-----------------------------------------------------------------------------
(* Scoring.                                                                *)

\* _cell
Cell(label, observed) ==
    CASE label = "reference_abstain" -> "reference_abstain"
      [] label = "should_flag"       -> IF observed THEN "flag_flagged" ELSE "flag_quiet"
      [] OTHER                       -> IF observed THEN "quiet_flagged" ELSE "quiet_quiet"

\* score_predictions: a receipt names what it is of, and has a cell for every
\* pair.  The counts, per partition and check, follow from the cells.  That a
\* person wrote into it is history.
Score(plan, cases, key, predictions, at) ==
    LET cells == [p \in PairsOf(plan) |->
                    Cell(key.final[p], p[2] \in predictions.found[p[1]])]
    IN  [plan |-> plan, cases |-> cases, key |-> key, predictions |-> predictions,
         at |-> at, cells |-> cells, misstated |-> FALSE]

\* Predictions come before the unblinding, which comes before the score.
Scorable(key, predictions, at) == predictions.at < key.unblinded /\ key.unblinded <= at

-----------------------------------------------------------------------------
(* People.                                                                 *)

\* No command: nothing has been read.
Stopped ==
    [at |-> "none", exit |-> "none", command |-> None, amended |-> FALSE,
     code |-> None, dated |-> None, plan |-> None, cases |-> None, evaluator |-> None,
     found |-> None, key |-> None, predictions |-> None, shown |-> None]

\* Files are written.  Which commands saw it while they ran is history.
Put(files) ==
    /\ files # disk
    /\ disk' = files
    /\ run' = IF run.at = "none" THEN Stopped ELSE [run EXCEPT !.amended = TRUE]
    /\ UNCHANGED now

Amend(files) ==
    /\ revisions < MaxRevisions /\ revisions' = revisions + 1
    /\ Put(files)

\* Code is edited; the plan is made anew for the code as it is.
EditCode(name, code) == Amend([disk EXCEPT ![name] = code])

PlanFor(scanner, checks) == [scanner |-> scanner, checks |-> checks, ids |-> ChecksOf[checks]]

Replan == Amend([disk EXCEPT !.plan = PlanFor(disk.scanner, disk.checks)])

\* The cases with another passage or source for one of them.
Recast(c, passage, source, again) ==
    [disk.cases EXCEPT
        !.passage[c] = passage, !.source[c] = source,
        !.retrieved = IF source = disk.cases.source[c] THEN @ ELSE now,
        !.freeze = IF again THEN 1 - @ ELSE @,
        !.frozen = IF again THEN now ELSE @]

\* A case gets another passage or source.  The set is frozen anew, under a new
\* freeze id, or the old one is left on it.
ChangeCase(c) ==
    \E passage \in Excerpts, source \in Documents, again \in BOOLEAN :
        /\ (passage = disk.cases.passage[c]) # (source = disk.cases.source[c])
        /\ Amend([disk EXCEPT !.cases = Recast(c, passage, source, again)])

\* Two people label the frozen passages and a third settles it.  One thing may be
\* out of the ordinary: they differ on a pair, the third is one of the two, or
\* they had seen the predictions.
WaysToLabel ==
    [slip : {{}} \cup {{p} : p \in PairsOf(disk.plan)}, people : {3}, seen : {FALSE}]
        \cup [slip : {{}}, people : {2}, seen : {FALSE}]
        \cup [slip : {{}}, people : {3}, seen : {disk.predictions # None}]

Label ==
    /\ disk.key = None
    /\ \E way \in WaysToLabel :
        LET right == [p \in PairsOf(disk.plan) |-> RightLabels[disk.cases.passage[p[1]]][p[2]]]
        IN  Amend([disk EXCEPT !.key =
                  [freeze |-> disk.cases.freeze, cases |-> disk.cases, checks |-> disk.checks,
                   people |-> way.people, seen |-> way.seen, first |-> right,
                   second |-> [p \in DOMAIN right |->
                                 IF p \in way.slip THEN "reference_abstain" ELSE right[p]],
                   recorded |-> way.slip, final |-> right, lawAsOf |-> now,
                   reviewed |-> now, adjudicated |-> now, unblinded |-> None]])

\* The adjudicator goes back on a pair, a disagreement or not.
Readjudicate ==
    /\ disk.key # None
    /\ \E p \in DOMAIN disk.key.final :
          Amend([disk EXCEPT !.key.final[p] = "reference_abstain", !.key.adjudicated = now])

Unblind ==
    /\ disk.key # None /\ disk.key.unblinded = None
    /\ Put([disk EXCEPT !.key.unblinded = now]) /\ UNCHANGED revisions

\* Somebody turns a miss into a hit in the result, which is history too.
Misstate ==
    /\ disk.result # None
    /\ \E p \in DOMAIN disk.result.cells :
          LET cell == Cell(disk.result.key.final[p], disk.result.key.final[p] = "should_flag")
          IN  /\ cell # disk.result.cells[p]
              /\ Amend([disk EXCEPT !.result.cells[p] = cell, !.result.misstated = TRUE])

\* An output is put aside, for nothing is ever written over.
PutAside(name) == disk[name] # None /\ Amend([disk EXCEPT ![name] = None])

Moment ==
    /\ now < MaxMoment /\ now' = now + 1
    /\ UNCHANGED <<disk, run, revisions>>

-----------------------------------------------------------------------------
(* The commands predict, score and validate-result.                        *)

Quiet      == UNCHANGED <<now, revisions>>
Step(next) == run' = next /\ UNCHANGED disk /\ Quiet
End(exit)  == [Stopped EXCEPT !.exit = exit]
Refuse     == Step(End("refused"))

\* A process starts with the code that is there, and reads the plan.
Start(command) ==
    /\ run.at = "none"
    /\ Step([Stopped EXCEPT !.at = "plan", !.exit = "running", !.command = command,
                            !.code = disk.scanner, !.dated = now])

ReadPlan ==
    /\ run.at = "plan"
    /\ IF PlanLoads(disk) THEN Step([run EXCEPT !.at = "cases", !.plan = disk.plan])
                          ELSE Refuse

ReadCases ==
    /\ run.at = "cases"
    /\ IF CasesLoad(disk.cases, run.plan)
       THEN Step([run EXCEPT !.at = IF run.command = "predict" THEN "hash" ELSE "key",
                             !.cases = disk.cases])
       ELSE Refuse

\* generate_blind_predictions: the three digests, then the registry once more,
\* and a scan with the code that the process started with.
HashCode ==
    /\ run.at = "hash"
    /\ IF /\ run.cases.frozen <= run.dated
          /\ disk.scanner = run.plan.scanner /\ disk.checks = run.plan.checks
       THEN Step([run EXCEPT !.at = "scan", !.evaluator = disk.evaluator])
       ELSE Refuse

Scan ==
    /\ run.at = "scan"
    /\ IF ChecksOf[disk.checks] # run.plan.ids THEN Refuse
       ELSE Step([run EXCEPT !.at = "predicted",
                             !.found = [c \in CaseNames |->
                                Finds[run.code][disk.checks][run.cases.passage[c]]]])

\* write_json_exclusive: never over a file that is there.
WritePredictions ==
    /\ run.at = "predicted"
    /\ IF disk.predictions # None THEN Refuse
       ELSE /\ disk' = [disk EXCEPT !.predictions =
                 [freeze |-> run.cases.freeze, plan |-> run.plan, cases |-> run.cases,
                  evaluator |-> run.evaluator, found |-> run.found, at |-> run.dated,
                  amended |-> run.amended]]
            /\ run' = End("written") /\ Quiet

ReadKey ==
    /\ run.at = "key"
    /\ IF disk.key # None /\ KeyLoads(disk.key, run.plan, run.cases)
       THEN Step([run EXCEPT !.at = "predictions", !.key = disk.key])
       ELSE Refuse

ReadPredictions ==
    /\ run.at = "predictions"
    /\ IF /\ disk.predictions # None
          /\ PredictionsLoad(disk.predictions, run.plan, run.cases, disk.evaluator)
       THEN Step([run EXCEPT !.at = IF run.command = "score" THEN "score" ELSE "compare",
                             !.predictions = disk.predictions])
       ELSE Refuse

\* score_predictions, written exclusively.
WriteResult ==
    /\ run.at = "score"
    /\ IF disk.result # None \/ ~Scorable(run.key, run.predictions, run.dated) THEN Refuse
       ELSE LET result == Score(run.plan, run.cases, run.key, run.predictions, run.dated)
            IN  /\ disk' = [disk EXCEPT !.result = result]
                /\ run' = [Stopped EXCEPT !.exit = "accepted", !.shown = result]
                /\ Quiet

\* Mutant: the result is scored again as of now.
CompareAsOfNow(result) == run.dated

\* load_result scores again as of the moment that the receipt names.
CompareAsOf(result) == result.at

\* load_result: the stored receipt is what the files score now.
CompareResult ==
    /\ run.at = "compare"
    /\ IF /\ disk.result # None
          /\ Scorable(run.key, run.predictions, CompareAsOf(disk.result))
          /\ [Score(run.plan, run.cases, run.key, run.predictions,
                    CompareAsOf(disk.result))
                EXCEPT !.misstated = disk.result.misstated] = disk.result
       THEN Step([Stopped EXCEPT !.exit = "accepted", !.shown = disk.result])
       ELSE Refuse

-----------------------------------------------------------------------------
EvaluationInit ==
    /\ now = 0 /\ revisions = 0 /\ run = Stopped
    /\ disk = [scanner |-> FirstCode, checks |-> FirstCode, evaluator |-> FirstCode,
               plan |-> PlanFor(FirstCode, FirstCode),
               key |-> None, predictions |-> None, result |-> None,
               cases |-> [freeze |-> 0, frozen |-> 0, retrieved |-> 0,
                          passage |-> FirstPassages, source |-> [c \in CaseNames |-> FirstSource]]]

Edits ==
    \/ \E name \in {"scanner", "checks", "evaluator"}, code \in Codes : EditCode(name, code)
    \/ Replan
    \/ \E c \in CaseNames : ChangeCase(c)
    \/ Label \/ Readjudicate \/ Unblind \/ Misstate
    \/ \E name \in {"key", "predictions", "result"} : PutAside(name)
    \/ Moment

EvaluationNext ==
    \/ Edits
    \/ \E command \in {"predict", "score", "validate"} : Start(command)
    \/ ReadPlan \/ ReadCases
    \/ HashCode \/ Scan \/ WritePredictions
    \/ ReadKey \/ ReadPredictions \/ WriteResult \/ CompareResult

EvaluationSpec == EvaluationInit /\ [][EvaluationNext]_evaluationVars

-----------------------------------------------------------------------------
(* Properties.                                                             *)

\* A result that score writes or validate-result accepts is of one corpus: its
\* cells are of the passages that were frozen, labelled and scanned, by the
\* scanner and checks of the plan unless these were edited during the scan, and
\* the scan came before the unblinding, whatever was edited in between.
ResultOfOneCorpus ==
    run.exit = "accepted" =>
        LET result == run.shown
            finds  == Finds[result.plan.scanner][result.plan.checks]
        IN  /\ DOMAIN result.cells = PairsOf(result.plan)
            /\ result.predictions.at < result.key.unblinded
            /\ \A p \in DOMAIN result.cells :
                  LET passage == result.cases.passage[p[1]]
                      label   == result.key.final[p]
                      cells   == {Cell(label, b) : b \in
                                     IF result.predictions.amended THEN BOOLEAN
                                     ELSE {p[2] \in finds[passage]}}
                  IN  /\ label \in {RightLabels[passage][p[2]], "reference_abstain"}
                      /\ result.cells[p] \in cells

\* The files are those that a receipt was scored from.
ScoredFrom(result) ==
    /\ disk.plan = result.plan /\ disk.cases = result.cases
    /\ disk.key = result.key /\ disk.predictions = result.predictions
    /\ disk.scanner = result.plan.scanner /\ disk.checks = result.plan.checks
    /\ disk.evaluator = result.predictions.evaluator

\* A receipt holds for as long as the files it was scored from are there and
\* nobody writes into it: validate-result refuses it at no later moment.
ReceiptRevalidates ==
    [][ /\ run.at # "none" /\ run'.exit = "refused" /\ run.command = "validate"
        /\ ~run.amended /\ disk.result # None /\ ScoredFrom(disk.result)
        => disk.result.misstated ]_evaluationVars
=============================================================================
