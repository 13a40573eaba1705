--------------------------- MODULE MCSchedulable ---------------------------
(* SchedulableStrategy for TLC.  Requests are interchangeable and so are     *)
(* nodes, as long as no liveness property is checked.                        *)
EXTENDS SchedulableStrategy, TLC

Interchangeable == Permutations(Callers) \cup Permutations(Nodes)

=============================================================================
