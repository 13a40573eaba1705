----------------------------- MODULE MCTargets -----------------------------
(* Targets for TLC.  Set points ascend, as in config.yaml: [5, 50, 80, 100]. *)
EXTENDS Targets

MCTwoSetpoints == <<1, 2>>

=============================================================================
