----------------------------- MODULE MCReceipts -----------------------------
(***************************************************************************)
(* Three chains of files that others are to rely on, on small instances:   *)
(* the evidence package, the held-out evaluation and the prepared release  *)
(* receipts.  They have no step in common, so part says which one runs and *)
(* the others stay as they start.                                          *)
(***************************************************************************)
EXTENDS MCEvidenceExport, Evaluation, PackageWriter

CONSTANTS w1, w2

VARIABLE part

receiptsVars == <<part, vars, evaluationVars, packageVars>>

ReceiptsInit ==
    /\ part \in {"export", "evaluation", "package"}
    /\ Init /\ EvaluationInit /\ PackageInit

ReceiptsNext ==
    /\ UNCHANGED part
    /\ \/ part = "export" /\ Next /\ UNCHANGED <<evaluationVars, packageVars>>
       \/ part = "evaluation" /\ EvaluationNext /\ UNCHANGED <<vars, packageVars>>
       \/ part = "package" /\ PackageNext /\ UNCHANGED <<vars, evaluationVars>>

ReceiptsSpec == ReceiptsInit /\ [][ReceiptsNext]_receiptsVars

-----------------------------------------------------------------------------
\* Two scanners of the same two checks; a passage for each check and one for both.
TwoCodes      == {"v1", "v2"}
TwoChecks     == [c \in TwoCodes |-> {"a", "b"}]
ThreePassages == {"x", "y", "z"}
Flags == [v1 |-> [x |-> {"a"}, y |-> {"a", "b"}, z |-> {"b"}],
          v2 |-> [x |-> {"a", "b"}, y |-> {}, z |-> {"a", "b"}]]
FoundBy == [s \in TwoCodes |-> [k \in TwoCodes |-> [e \in ThreePassages |->
               Flags[s][e] \cap Flags[k][e]]]]
LabelOf ==
    [e \in ThreePassages |-> [k \in {"a", "b"} |->
        IF e = "z" \/ <<e, k>> \in {<<"x", "a">>, <<"y", "b">>}
        THEN "should_flag" ELSE "should_stay_quiet"]]
TwoCases == {"c1", "c2"}
BothOfficial == [c \in TwoCases |-> "official"]
AimOf == [c1 |-> "a", c2 |-> "b"]
BothFlag == [c \in TwoCases |-> "candidate_flag"]
Doc(i, d) == [id |-> i, doc |-> d]
ThreeDocs == {Doc("o", 1), Doc("o", 2), Doc("o", 3)}
Developed == {Doc("d", 3)}
PassageOf == [c1 |-> "x", c2 |-> "y"]
FirstDoc == Doc("o", 1)
OneFlag == [official |-> [should_flag |-> 1, should_stay_quiet |-> 0],
            synthetic |-> [should_flag |-> 0, should_stay_quiet |-> 0]]

ThreeReceipts == <<"approval", "publication", "rollback">>
TwoWriters    == {w1, w2}
=============================================================================
