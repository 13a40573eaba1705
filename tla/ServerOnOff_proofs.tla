------------------------- MODULE ServerOnOff_proofs -------------------------
(***************************************************************************)
(* Theorems about ServerOnOff for any number of requests, goroutines and    *)
(* nodes.  Its steps are steps of StrategyLoop, leave its variables alone,  *)
(* or set them to its initial values, so Inv of StrategyLoop_proofs holds   *)
(* through every restart; what it adds is where a retry may be running.     *)
(* The refinement at the end maps the steps of the loop to those of a       *)
(* switch, a panic to the end of its process, and Boot to its restart.      *)
(***************************************************************************)
EXTENDS ServerOnOff, StrategyLoop_proofs

OnOffInv ==
  /\ Inv
  /\ OnOffTypeOK
  /\ \A l \in Loops : retrying[l] # {} => loop[l] = "reconcile"

(* Both an Init and a Boot leave the start/stop protocol as main finds it.  *)
LEMMA OpenedIsTyped ==
  reachable \in [Nodes -> BOOLEAN] => Opened \in [Nodes -> SwitchStates]
BY DEF Opened, SwitchStates

LEMMA OnOffInitInv == OnOffInit => OnOffInv
<1> SUFFICES ASSUME OnOffInit PROVE OnOffInv
  OBVIOUS
<1>1. Inv
  BY InitInv DEF OnOffInit, Init
<1>2. OnOffTypeOK
  BY <1>1, OpenedIsTyped DEF OnOffInit, OnOffTypeOK, Inv, Steps
<1> QED
  BY <1>1, <1>2 DEF OnOffInv, OnOffInit

(* A step of the strategy is one of the start/stop protocol, or none of its *)
(* variables change.                                                        *)
LEMMA StepsOfTheLoop ==
  ASSUME OnOffNext, ~Boot
  PROVE  [Next]_vars
<1>1. ASSUME NEW n \in Nodes, BmcGoes(n) \/ BmcComes(n) PROVE UNCHANGED vars
  BY <1>1 DEF BmcGoes, BmcComes
<1>2. ASSUME NEW t \in Threads, CallStep(t) PROVE Next
  BY <1>2 DEF CallStep, Next
<1>3. ASSUME NEW l \in Loops, PollStep(l) PROVE Next
  BY <1>3 DEF PollStep, Next, LoopStep
<1>4. ASSUME NEW l \in Loops, ReconcileStep(l) PROVE Reconciled(l) \/ UNCHANGED vars
  BY <1>4 DEF ReconcileStep, Ask, AskFails, Check, CheckFails, CheckPanics, RetryFails,
              Retried, CheckedAll
<1>5. \A l \in Loops : Reconciled(l) => Next
  BY DEF Next, LoopStep
<1> QED
  BY <1>1, <1>2, <1>3, <1>4, <1>5 DEF OnOffNext

(* A boot establishes Inv as Init does.                                     *)
LEMMA BootInv == Boot => Inv'
<1> SUFFICES ASSUME Boot PROVE Inv'
  OBVIOUS
<1> USE DEF Threads, Commands, ThreadStates, Critical, LoopStates, Start, Stop
<1>1. /\ \A l \in Loops : loop'[l] = "none" /\ run'[l] = FALSE
      /\ \A t \in Threads : op'[t] = Start /\ pc'[t] \notin Critical
      /\ ~initialized' /\ ~isRunning' /\ ~locked'
  BY DEF Boot
<1>2. TypeOK'
  BY DEF Boot, TypeOK
<1> QED
  BY <1>1, <1>2
  DEF Inv, Mutex, OnePoller, Launched, StartLaunches, Agreement, Accepted

(* Only the end of a reconcile takes a loop out of it.                      *)
LEMMA OtherStepsKeepReconcile ==
  ASSUME OnOffInv, NEW t \in Threads, NEW l \in Loops, NEW k \in Loops,
         CallStep(t) \/ PollStep(l), loop[k] = "reconcile"
  PROVE  loop'[k] = "reconcile"
<1>0. loop \in [Loops -> LoopStates]
  BY DEF OnOffInv, Inv, TypeOK
<1>1. ASSUME CallStep(t) PROVE loop'[k] = "reconcile"
  BY <1>0, <1>1 DEF CallStep, ThreadStep, Call, Lock, Launch, AlreadyLaunched, Unlock, Return, loopVars
<1>2. ASSUME PollStep(l) PROVE loop'[k] = "reconcile"
  BY <1>0, <1>2 DEF PollStep, Receive, NoCommand, Apply, Wake, LoopGoto
<1> QED
  BY <1>1, <1>2

LEMMA OnOffNextInv == OnOffInv /\ [OnOffNext]_allVars => OnOffInv'
<1> SUFFICES ASSUME OnOffInv, [OnOffNext]_allVars PROVE OnOffInv'
  OBVIOUS
<1> DEFINE Retrying == \A l \in Loops : retrying[l] # {} => loop[l] = "reconcile"
<1>0. /\ loop \in [Loops -> LoopStates]
      /\ reachable \in [Nodes -> BOOLEAN] /\ switch \in [Nodes -> SwitchStates]
      /\ up \in BOOLEAN /\ step \in [Loops -> Steps]
      /\ left \in [Loops -> SUBSET Nodes] /\ retrying \in [Loops -> SUBSET Nodes]
      /\ Retrying
  BY DEF OnOffInv, OnOffTypeOK, Inv, TypeOK
<1> DEFINE Own == /\ up \in BOOLEAN
                  /\ reachable \in [Nodes -> BOOLEAN] /\ switch \in [Nodes -> SwitchStates]
                  /\ step \in [Loops -> Steps]
                  /\ left \in [Loops -> SUBSET Nodes] /\ retrying \in [Loops -> SUBSET Nodes]
<1>1. Inv'
  <2>1. CASE Boot
    BY <2>1, BootInv
  <2>2. CASE ~Boot
    <3>1. [Next]_vars
      BY <2>2, StepsOfTheLoop DEF allVars
    <3> QED
      BY <3>1, NextInv DEF OnOffInv
  <2> QED
    BY <2>1, <2>2
<1>2. Own' /\ Retrying'
  <2>1. ASSUME NEW n \in Nodes, BmcGoes(n) \/ BmcComes(n) PROVE Own' /\ Retrying'
    BY <1>0, <2>1 DEF BmcGoes, BmcComes, SwitchStates, vars
  <2>2. ASSUME NEW t \in Threads, CallStep(t) PROVE Own' /\ Retrying'
    <3>1. \A k \in Loops : loop[k] = "reconcile" => loop'[k] = "reconcile"
      BY <2>2, OtherStepsKeepReconcile
    <3> QED
      BY <1>0, <2>2, <3>1 DEF CallStep, onOffVars, bmcVars
  <2>3. ASSUME NEW l \in Loops, PollStep(l) PROVE Own' /\ Retrying'
    <3>1. \A k \in Loops : loop[k] = "reconcile" => loop'[k] = "reconcile"
      BY <2>3, OtherStepsKeepReconcile DEF Threads
    <3> QED
      BY <1>0, <2>3, <3>1 DEF PollStep, onOffVars, bmcVars
  <2>4. ASSUME NEW l \in Loops, NEW reported \in SUBSET Nodes, Ask(l, reported)
        PROVE  Own' /\ Retrying'
    BY <1>0, <2>4 DEF Ask, Reconciling, Steps, bmcVars, vars
  <2>5. ASSUME NEW l \in Loops, AskFails(l) PROVE Own' /\ Retrying'
    BY <1>0, <2>5 DEF AskFails, Reconciling, Reconciled, LoopGoto, onOffVars, bmcVars
  <2>6. ASSUME NEW l \in Loops, NEW n \in Nodes, Check(l, n) PROVE Own' /\ Retrying'
    BY <1>0, <2>6 DEF Check, bmcVars, vars
  <2>7. ASSUME NEW l \in Loops, NEW n \in Nodes, CheckFails(l, n) PROVE Own' /\ Retrying'
    BY <1>0, <2>7 DEF CheckFails, Reconciling, bmcVars, vars
  <2>8. ASSUME NEW l \in Loops, NEW n \in Nodes, CheckPanics(l, n) PROVE Own' /\ Retrying'
    BY <1>0, <2>8 DEF CheckPanics, bmcVars, vars
  <2>9. ASSUME NEW l \in Loops, NEW n \in Nodes, RetryFails(l, n) \/ Retried(l, n)
        PROVE  Own' /\ Retrying'
    BY <1>0, <2>9 DEF RetryFails, Retried, SwitchStates, vars
  <2>10. ASSUME NEW l \in Loops, CheckedAll(l) PROVE Own' /\ Retrying'
    BY <1>0, <2>10 DEF CheckedAll, Reconciling, Reconciled, LoopGoto, Steps, bmcVars
  <2>11. ASSUME Boot PROVE Own' /\ Retrying'
    BY <1>0, <2>11, OpenedIsTyped DEF Boot, Steps
  <2>12. CASE UNCHANGED allVars
    BY <1>0, <2>12 DEF allVars, vars, onOffVars, bmcVars
  <2> QED
    BY <2>1, <2>2, <2>3, <2>4, <2>5, <2>6, <2>7, <2>8, <2>9, <2>10, <2>11, <2>12
    DEF OnOffNext, ReconcileStep
<1> QED
  BY <1>1, <1>2 DEF OnOffInv, OnOffTypeOK, Inv

(* OnOffInv holds in every reachable state, restarts included.              *)
THEOREM OnOffInvariance == OnOffSpec => []OnOffInv
  BY OnOffInitInv, OnOffNextInv, PTL DEF OnOffSpec

-----------------------------------------------------------------------------
(* Every variable of the strategy and of its BMCs keeps its type.           *)
THEOREM OnOffTypeCorrect == OnOffSpec => []OnOffTypeOK
<1>1. OnOffInv => OnOffTypeOK
  BY DEF OnOffInv
<1> QED
  BY <1>1, OnOffInvariance, PTL

(* Nothing is retried for a strategy that is off: a retry runs in a         *)
(* reconcile, and a Stop takes effect only between two of them.             *)
THEOREM OffLeavesTheBmcsAlone == OnOffSpec => []RetriesOnlyWhenOn
<1>1. OnOffInv => RetriesOnlyWhenOn
  BY DEF OnOffInv, Inv, Agreement, RetriesOnlyWhenOn, Desired, SwitchedOn
<1> QED
  BY <1>1, OnOffInvariance, PTL

(* The barrier of Stop holds across panics and restarts (strategy.go Stop,  *)
(* serveronoff.go Reconcile).                                               *)
THEOREM BarrierSurvivesRestarts == OnOffSpec => []StopIsABarrier
<1>1. Inv => StopIsABarrier
  BY InvIsABarrier
<1> QED
  BY <1>1, OnOffInvariance, PTL DEF OnOffInv

-----------------------------------------------------------------------------
(* The refinement of a switch that restarts.                                *)

(* What StrategyLoop_proofs shows of Switch holds of Restarting's switch.   *)
LEMMA OneSwitch ==
  /\ Switch!Init => Restarting!Init
  /\ [Switch!Next]_Switch!vars => [Restarting!Next]_Restarting!vars
<1>1. Switch!Init => Restarting!Init
  BY DEF Switch!Init, Restarting!Init, Switch!Commands, Restarting!Commands,
         Switch!Start, Restarting!Start, Switch!Stop, Restarting!Stop
<1>2. Switch!Next => Restarting!Next
  BY DEF Switch!Next, Restarting!Next, Switch!Commands, Restarting!Commands,
         Switch!Start, Restarting!Start, Switch!Stop, Restarting!Stop,
         Switch!Invoke, Restarting!Invoke, Switch!TakeEffect, Restarting!TakeEffect,
         Switch!Answer, Restarting!Answer, Switch!BeginWork, Restarting!BeginWork,
         Switch!FinishWork, Restarting!FinishWork
<1>3. Switch!vars = Restarting!vars
  BY DEF Switch!vars, Restarting!vars
<1> QED
  BY <1>1, <1>2, <1>3 DEF Switch!vars, Restarting!vars

(* What a boot leaves is a switch that is off.                              *)
LEMMA BootRestarts == Boot => Restarting!Restart
<1> SUFFICES ASSUME Boot PROVE Restarting!Restart
  OBVIOUS
<1>1. /\ ~up /\ up' = TRUE
      /\ \A l \in Loops : loop'[l] = "none"
      /\ op' = [t \in Threads |-> Start]
      /\ \A t \in Threads : pc'[t] \in {"idle", "lock"}
  BY DEF Boot
<1>2. Desired' = Stop /\ Working' = FALSE
  BY <1>1 DEF Desired, SwitchedOn, Working
<1>3. \A t \in Threads : AbstractPhase(t)' \in {"idle", "waiting"}
  BY <1>1 DEF AbstractPhase
<1> QED
  BY <1>1, <1>2, <1>3
  DEF Restarting!Restart, Restarting!Commands, Restarting!Start, Restarting!Stop, Start, Stop

(* While the process is down, nothing happens but at the BMCs.              *)
LEMMA NothingWhileDown ==
  ASSUME OnOffNext, ~Boot, ~up
  PROVE  UNCHANGED <<vars, up>>
BY DEF OnOffNext, BmcGoes, BmcComes, CallStep, PollStep, ReconcileStep, Ask, AskFails, Check,
       CheckFails, CheckPanics, RetryFails, Retried, CheckedAll, Reconciling, onOffVars

(* Only a panic ends the process, and it changes nothing else of the switch. *)
LEMMA OnlyPanicsEnd ==
  ASSUME OnOffNext, up
  PROVE  \/ up' = up
         \/ up' = FALSE /\ UNCHANGED vars
BY DEF OnOffNext, Boot, BmcGoes, BmcComes, CallStep, PollStep, ReconcileStep, Ask, AskFails,
       Check, CheckFails, CheckPanics, RetryFails, Retried, CheckedAll, onOffVars

(* A step that changes nothing of the strategy changes nothing of a switch. *)
LEMMA StutterOfTheSwitch == UNCHANGED vars => UNCHANGED Restarting!vars
<1> SUFFICES ASSUME UNCHANGED vars PROVE UNCHANGED Restarting!vars
  OBVIOUS
<1>1. Desired' = Desired /\ Working' = Working
  BY DEF vars, Desired, SwitchedOn, Working
<1>2. \A t \in Threads : AbstractPhase(t)' = AbstractPhase(t)
  BY DEF vars, AbstractPhase
<1> QED
  BY <1>1, <1>2 DEF Restarting!vars, vars

(* The strategy implements the switch that restarts: however long it        *)
(* retries and whenever it panics, its callers see commands that take       *)
(* effect one by one, outside reconciles, and a switch that is off after a  *)
(* boot (strategy.go Start, Stop, run; main.go initOrchestrator).           *)
THEOREM RestartingRefinement == OnOffSpec => ImplementsRestartingSwitch
<1>1. OnOffInit => Restarting!RestartingInit
  BY InitRefines, OneSwitch DEF OnOffInit, Init, Restarting!RestartingInit
<1>2. OnOffInv /\ OnOffInv' /\ [OnOffNext]_allVars
        => [Restarting!RestartingNext]_Restarting!upVars
  <2> SUFFICES ASSUME OnOffInv, OnOffInv', [OnOffNext]_allVars
               PROVE  [Restarting!RestartingNext]_Restarting!upVars
    OBVIOUS
  <2>1. CASE Boot
    BY <2>1, BootRestarts DEF Restarting!RestartingNext
  <2>2. CASE UNCHANGED <<vars, up>>
    BY <2>2, StutterOfTheSwitch DEF Restarting!upVars
  <2>3. CASE OnOffNext /\ ~Boot /\ up /\ up' = up
    <3>1. [Next]_vars
      BY <2>3, StepsOfTheLoop
    <3>2. [Switch!Next]_Switch!vars
      BY <3>1, StepRefines DEF OnOffInv
    <3>3. [Restarting!Next]_Restarting!vars
      BY <3>2, OneSwitch
    <3> QED
      BY <2>3, <3>3 DEF Restarting!RestartingNext, Restarting!WhileUp, Restarting!upVars
  <2>4. CASE up /\ up' = FALSE /\ UNCHANGED vars
    BY <2>4, StutterOfTheSwitch DEF Restarting!RestartingNext, Restarting!End
  <2> QED
    BY <2>1, <2>2, <2>3, <2>4, NothingWhileDown, OnlyPanicsEnd DEF allVars, onOffVars
<1> QED
  BY <1>1, <1>2, OnOffInvariance, PTL
  DEF OnOffSpec, ImplementsRestartingSwitch, Restarting!RestartingSpec

=============================================================================
