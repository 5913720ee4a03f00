------------------------- MODULE MCDurableWorkflows -------------------------
(***************************************************************************)
(* Instances of DurableWorkflows for TLC.                                  *)
(***************************************************************************)
EXTENDS DurableWorkflows, TLC

CONSTANTS r1, a, b

OneRun == [s \in Steps |-> r1]
Apart == [s \in Steps |-> {}]
InOrder == [s \in Steps |-> IF s = b THEN {a} ELSE {}]

Kind(retrySafe, available) == [retrySafe : retrySafe, available : available]

Mixed == [s \in Steps |-> Kind({s = b}, {TRUE})]
Redactable == [s \in Steps |-> Kind({FALSE}, BOOLEAN)]
=============================================================================
