---------------------------- MODULE MCSourceWatch ----------------------------
(* Small instances of SourceWatch: a rule that depends on a statute and on *)
(* the handbook it cites, and a rule with its cited statute alone.         *)
EXTENDS SourceWatch

CONSTANTS statute, handbook, parking, height, k1, k2

TwoSources == <<statute, handbook>>
OneSource  == <<statute>>

OneDep   == [r \in {height} |-> {statute, handbook}]
OneCites == [r \in {height} |-> handbook]
OwnDep   == [r \in {parking} |-> {statute}]
OwnCites == [r \in {parking} |-> statute]
=============================================================================
