------------------------- MODULE MCEvidenceExport -------------------------
(* Values for the model checker.                                           *)
EXTENDS EvidenceExport

CONSTANTS b1, b2, c1, v1, v2

TwoBuilders == {b1, b2}
OneBuilder  == {b1}
SecondBuilder == {b2}
Nobody      == {}
OneConsumer == {c1}
TwoVersions == {v1, v2}
OneVersion  == {v1}
FirstListed == {b1}
=============================================================================
