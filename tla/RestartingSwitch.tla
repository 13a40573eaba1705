-------------------------- MODULE RestartingSwitch --------------------------
(***************************************************************************)
(* What StrategySwitch promises when the process that keeps it may end at   *)
(* any moment and start again.  While it is up it is a StrategySwitch;      *)
(* while it is down nothing happens; and when it is up again, work in       *)
(* progress is gone, calls without an answer get none, and no command is    *)
(* remembered: the switch is off until a Start takes effect anew.           *)
(*                                                                         *)
(* A client that waits at that moment has called the new process already.   *)
(***************************************************************************)
EXTENDS StrategySwitch

VARIABLE up                \* is the process running?

upVars == <<vars, up>>

WhileUp ==
  /\ up
  /\ Next
  /\ UNCHANGED up

End ==
  /\ up
  /\ up' = FALSE
  /\ UNCHANGED vars

Restart ==
  /\ ~up
  /\ up' = TRUE
  /\ desired' = Stop
  /\ working' = FALSE
  /\ phase' \in [Clients -> {"idle", "waiting"}]
  /\ wants' \in [Clients -> Commands]

RestartingInit == Init /\ up = TRUE

RestartingNext == WhileUp \/ End \/ Restart

RestartingSpec == RestartingInit /\ [][RestartingNext]_upVars

=============================================================================
