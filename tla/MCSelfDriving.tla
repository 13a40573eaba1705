---------------------------- MODULE MCSelfDriving ----------------------------
(* SelfDriving for TLC: pods 1, 2, ... of one node.  Against a diff of -3 or *)
(* so, pod 1 has a low minimum and is a special case, pod 2 is not.          *)
EXTENDS SelfDriving

CONSTANT OnlyNode

MCDiffs == {-3, 0, 3}

MCNodeOf == [p \in Pods |-> OnlyNode]

MCMinCpu == [p \in Pods |-> IF p = 1 THEN 1 ELSE 4]

=============================================================================
