------------------------ MODULE StrategyLoop_proofs ------------------------
(***************************************************************************)
(* Theorems about StrategyLoop for any number of callers and any number of  *)
(* goroutines that run() could launch.                                      *)
(*                                                                         *)
(* The safety properties are not inductive on their own.  Inv adds what the *)
(* code relies on without saying it: who may be between Lock and Unlock,    *)
(* that the loop exists as soon as initialized is set, and that the loop's  *)
(* local variable run, the field isRunning and the last command agree.      *)
(***************************************************************************)
EXTENDS StrategyLoop, TLAPS

(* mu: at most one thread is between Lock and Unlock, and only while it is locked. *)
Mutex ==
  /\ \A t \in Threads : pc[t] \in Critical => locked
  /\ \A t, u \in Threads : pc[t] \in Critical /\ pc[u] \in Critical => t = u

(* initialized tells whether there is a polling goroutine. *)
Launched == initialized <=> \E l \in Loops : loop[l] # "none"

(* Only Start goes through the launch test, main only starts, and a Start   *)
(* that has passed the test finds the goroutine there.                      *)
StartLaunches ==
  /\ op[Main] = Start
  /\ \A t \in Threads :
       /\ pc[t] = "init" => op[t] = Start
       /\ pc[t] = "send" /\ op[t] = Start => initialized
       /\ pc[t] = "unlock" => initialized

(* The loop's local, its field, and what it is doing. *)
Agreement ==
  /\ \A l \in Loops : loop[l] = "reconcile" => run[l]
  /\ \A l \in Loops : loop[l] \notin {"none", "apply"} => (isRunning <=> run[l])
  /\ ~initialized => ~isRunning

(* A command whose send has completed is the one the loop holds or applied. *)
Accepted ==
  \A t \in Threads, l \in Loops :
    pc[t] = "unlock" /\ loop[l] # "none" =>
      IF loop[l] = "apply" THEN command[l] = op[t] ELSE run[l] <=> op[t] = Start

Inv ==
  /\ TypeOK
  /\ Mutex
  /\ OnePoller
  /\ Launched
  /\ StartLaunches
  /\ Agreement
  /\ Accepted

(* Init establishes Inv: nobody is in the mutex and no loop exists.         *)
LEMMA InitInv == Init => Inv
<1> SUFFICES ASSUME Init PROVE Inv
  OBVIOUS
<1> USE DEF Threads, Commands, ThreadStates, Critical, LoopStates, Start, Stop
<1>1. /\ pc \in [Threads -> {"idle", "lock"}]
      /\ published \in BOOLEAN
      /\ InitCommon
  BY DEF Init, InitStartedByMain, InitOnlyConstructed
<1>2. /\ \A l \in Loops : loop[l] = "none" /\ run[l] = FALSE
      /\ \A t \in Threads : op[t] = Start /\ pc[t] \notin Critical
      /\ ~initialized /\ ~isRunning /\ ~locked
  BY <1>1 DEF InitCommon
<1>3. TypeOK
  BY <1>1 DEF TypeOK, InitCommon
<1> QED
  BY <1>2, <1>3
  DEF Inv, Mutex, OnePoller, Launched, StartLaunches, Agreement, Accepted

(* Every step of a caller or of the loop preserves Inv.                     *)
LEMMA NextInv == Inv /\ [Next]_vars => Inv'
<1> SUFFICES ASSUME Inv, [Next]_vars PROVE Inv'
  OBVIOUS
<1> USE DEF Inv, TypeOK, Mutex, OnePoller, Launched, StartLaunches, Agreement, Accepted,
            Threads, Commands, ThreadStates, Critical, LoopStates, Start, Stop,
            Goto, LoopGoto, callVars, loopVars
<1>1. ASSUME NEW t \in Threads, NEW cmd \in Commands, Call(t, cmd) PROVE Inv'
  BY <1>1, MainAssumption DEF Call
<1>2. ASSUME NEW t \in Threads, Lock(t) PROVE Inv'
  BY <1>2 DEF Lock
<1>3. ASSUME NEW t \in Threads, Launch(t) PROVE Inv'
  BY <1>3 DEF Launch
<1>4. ASSUME NEW t \in Threads, AlreadyLaunched(t) PROVE Inv'
  BY <1>4 DEF AlreadyLaunched
<1>5. ASSUME NEW t \in Threads, Unlock(t) PROVE Inv'
  BY <1>5 DEF Unlock
<1>6. ASSUME NEW t \in Threads, Return(t) PROVE Inv'
  BY <1>6 DEF Return
<1>7. ASSUME NEW l \in Loops, NEW t \in Threads, Receive(l, t) PROVE Inv'
  BY <1>7 DEF Receive
<1>8. ASSUME NEW l \in Loops, NoCommand(l) PROVE Inv'
  BY <1>8 DEF NoCommand, WorkOrSleep
<1>9. ASSUME NEW l \in Loops, Apply(l) PROVE Inv'
  <2>1. TypeOK'
    BY <1>9 DEF Apply, WorkOrSleep
  <2>2. OnePoller' /\ Launched' /\ Mutex' /\ StartLaunches'
    BY <1>9 DEF Apply, WorkOrSleep
  <2>3. /\ loop[l] = "apply"
        /\ \A k \in Loops : k # l => loop[k] = "none" /\ loop'[k] = "none"
        /\ loop'[l] = IF command[l] = Start THEN "reconcile" ELSE "sleep"
        /\ run'[l] = (command[l] = Start)
        /\ isRunning' = (command[l] = Start)
        /\ initialized'
    BY <1>9 DEF Apply, WorkOrSleep
  <2>4. Agreement'
    <3>1. CASE command[l] = Start
      BY <2>3, <3>1 DEF Apply
    <3>2. CASE command[l] = Stop
      BY <2>3, <3>2 DEF Apply
    <3> QED
      BY <3>1, <3>2
  <2>5. Accepted'
    <3>1. op' = op /\ pc' = pc
      BY <1>9 DEF Apply
    <3>2. SUFFICES ASSUME NEW t \in Threads, pc[t] = "unlock"
                   PROVE  run'[l] <=> op[t] = Start
      BY <2>3, <3>1
    <3>3. op[t] = command[l]
      BY <2>3, <3>2
    <3> QED
      BY <2>3, <3>3
  <2> QED
    BY <2>1, <2>2, <2>4, <2>5
<1>10. ASSUME NEW l \in Loops, Reconciled(l) PROVE Inv'
  BY <1>10 DEF Reconciled
<1>11. ASSUME NEW l \in Loops, Wake(l) PROVE Inv'
  BY <1>11 DEF Wake
<1>12. CASE UNCHANGED vars
  BY <1>12 DEF vars
<1> QED
  BY <1>1, <1>2, <1>3, <1>4, <1>5, <1>6, <1>7, <1>8, <1>9, <1>10, <1>11, <1>12
  DEF Next, ThreadStep, LoopStep

(* Inv holds in every reachable state of the start/stop protocol.           *)
THEOREM Invariance == Spec => []Inv
  BY InitInv, NextInv, PTL DEF Spec

-----------------------------------------------------------------------------
(* Every variable keeps its type.                                           *)
THEOREM TypeCorrect == Spec => []TypeOK
<1>1. Inv => TypeOK
  BY DEF Inv
<1> QED
  BY <1>1, Invariance, PTL

(* However many Starts race, run() is called once (strategy.go Start).      *)
THEOREM AtMostOnePoller == Spec => []OnePoller
<1>1. Inv => OnePoller
  BY DEF Inv
<1> QED
  BY <1>1, Invariance, PTL

(* Between its completed send and its unlock, a caller's command is the one *)
(* in effect, and no reconcile is in progress if that command is Stop.      *)
LEMMA InvIsABarrier == Inv => StopIsABarrier
<1> SUFFICES ASSUME Inv, NEW t \in Threads, pc[t] = "unlock"
             PROVE  Desired = op[t] /\ (op[t] = Stop => ~Working)
  BY DEF StopIsABarrier
<1>1. op[t] \in {Start, Stop} /\ Start # Stop
  BY DEF Inv, TypeOK, Commands, Start, Stop
<1>2. PICK l \in Loops : loop[l] # "none" /\ \A k \in Loops : loop[k] # "none" => k = l
  BY DEF Inv, StartLaunches, Launched, OnePoller
<1>3. SwitchedOn(l) <=> op[t] = Start
  BY <1>2 DEF Inv, TypeOK, LoopStates, Accepted, SwitchedOn
<1>4. \A k \in Loops : SwitchedOn(k) => k = l
  BY <1>2 DEF SwitchedOn
<1>5. Desired = op[t]
  BY <1>1, <1>3, <1>4 DEF Desired
<1>6. Working => op[t] = Start
  BY <1>2 DEF Inv, Working, Agreement, Accepted
<1> QED
  BY <1>1, <1>5, <1>6

(* Hence Stop is a barrier (strategy.go Stop, run).                         *)
THEOREM BarrierHolds == Spec => []StopIsABarrier
  BY InvIsABarrier, Invariance, PTL

(* IsRunning reports the command in effect whenever the loop is not between *)
(* a receive and the assignment that follows it.                            *)
THEOREM IsRunningCorrect == Spec => []IsRunningIsCurrent
<1>1. Inv => IsRunningIsCurrent
  <2> SUFFICES ASSUME Inv, \A l \in Loops : loop[l] # "apply"
               PROVE  isRunning <=> Desired = Start
    BY DEF IsRunningIsCurrent
  <2>1. CASE initialized
    <3>1. PICK l \in Loops : loop[l] # "none" /\ \A k \in Loops : loop[k] # "none" => k = l
      BY <2>1 DEF Inv, Launched, OnePoller
    <3>2. SwitchedOn(l) <=> isRunning
      BY <3>1 DEF Inv, TypeOK, LoopStates, Agreement, SwitchedOn
    <3>3. \A k \in Loops : SwitchedOn(k) => k = l
      BY <3>1 DEF SwitchedOn
    <3> QED
      BY <3>2, <3>3 DEF Desired, Start, Stop
  <2>2. CASE ~initialized
    <3>1. \A l \in Loops : ~SwitchedOn(l)
      BY <2>2 DEF Inv, Launched, SwitchedOn
    <3> QED
      BY <2>2, <3>1 DEF Inv, Agreement, Desired, Start, Stop
  <2> QED
    BY <2>1, <2>2
<1> QED
  BY <1>1, Invariance, PTL

(* The only send that nobody will receive is that of a Stop before every    *)
(* Start.                                                                   *)
THEOREM StrandedOnlyEarly == Spec => []OnlyAnEarlyStopIsStranded
<1>1. Inv => OnlyAnEarlyStopIsStranded
  BY DEF Inv, TypeOK, Commands, Launched, StartLaunches, OnlyAnEarlyStopIsStranded,
         Threads, Start, Stop
<1> QED
  BY <1>1, Invariance, PTL

-----------------------------------------------------------------------------
(* The refinement.  A command takes effect when the loop receives it; the   *)
(* mutex, the launch and the sleep are invisible to the abstract switch.    *)

(* With the loop identified, the switch's two derived variables read off it. *)
ReadOffTheLoop ==
  \A l \in Loops : loop[l] # "none" =>
    /\ Desired = IF SwitchedOn(l) THEN Start ELSE Stop
    /\ Working = (loop[l] = "reconcile")

LEMMA OfTheLoop == OnePoller => ReadOffTheLoop
<1> SUFFICES ASSUME OnePoller, NEW l \in Loops, loop[l] # "none"
             PROVE  /\ Desired = IF SwitchedOn(l) THEN Start ELSE Stop
                    /\ Working = (loop[l] = "reconcile")
  BY DEF ReadOffTheLoop
<1>1. \A k \in Loops : loop[k] # "none" => k = l
  BY DEF OnePoller
<1>2. \A k \in Loops : SwitchedOn(k) => k = l
  BY <1>1 DEF SwitchedOn
<1> QED
  BY <1>1, <1>2 DEF Desired, Working

(* A step that moves neither a loop nor a phase is a stutter of the switch. *)
LEMMA CallerStutters ==
  ASSUME UNCHANGED <<op, loop, run, command>>,
         \A t \in Threads : AbstractPhase(t)' = AbstractPhase(t)
  PROVE  UNCHANGED Switch!vars
<1>1. Desired' = Desired /\ Working' = Working
  BY DEF Desired, SwitchedOn, Working
<1> QED
  BY <1>1 DEF Switch!vars

(* The steps of the callers, seen on the switch.                            *)
LEMMA CallerRefines ==
  ASSUME Inv, Inv', NEW t \in Threads, ThreadStep(t)
  PROVE  [Switch!Next]_Switch!vars
<1> USE DEF Goto, callVars, loopVars
<1>0. /\ pc \in [Threads -> ThreadStates] /\ op \in [Threads -> Commands]
      /\ loop \in [Loops -> LoopStates]
  BY DEF Inv, TypeOK
<1>1. ASSUME NEW cmd \in Commands, Call(t, cmd) PROVE Switch!Invoke(t, cmd)
  <2>1. Desired' = Desired /\ Working' = Working
    BY <1>1 DEF Call, Desired, SwitchedOn, Working
  <2>2. /\ AbstractPhase(t) = "idle"
        /\ \A u \in Threads :
             AbstractPhase(u)' = IF u = t THEN "waiting" ELSE AbstractPhase(u)
    BY <1>0, <1>1 DEF Call, AbstractPhase, ThreadStates
  <2> QED
    BY <1>0, <1>1, <2>1, <2>2 DEF Call, Switch!Invoke
<1>2. ASSUME Lock(t) \/ AlreadyLaunched(t) \/ Unlock(t) PROVE UNCHANGED Switch!vars
  <2>1. /\ UNCHANGED <<op, loop, run, command>>
        /\ \A u \in Threads : AbstractPhase(u)' = AbstractPhase(u)
    BY <1>0, <1>2 DEF Lock, AlreadyLaunched, Unlock, AbstractPhase
  <2> QED
    BY <2>1, CallerStutters
<1>3. ASSUME Launch(t) PROVE UNCHANGED Switch!vars
  <2>1. PICK l \in Loops : /\ loop' = [loop EXCEPT ![l] = "select"]
                          /\ run' = [run EXCEPT ![l] = FALSE]
    BY <1>3 DEF Launch
  <2>2. \A k \in Loops : loop[k] = "none"
    BY <1>3 DEF Launch, Inv, Launched
  <2>3. Desired = Stop /\ ~Working
    BY <2>2 DEF Desired, SwitchedOn, Working
  <2>4. \A k \in Loops : ~SwitchedOn(k)' /\ loop'[k] # "reconcile"
    BY <2>1, <2>2, <1>0 DEF SwitchedOn, Inv, TypeOK
  <2>5. Desired' = Stop /\ ~Working'
    BY <2>4 DEF Desired, Working
  <2>6. \A u \in Threads : AbstractPhase(u)' = AbstractPhase(u)
    BY <1>0, <1>3 DEF Launch, AbstractPhase
  <2> QED
    BY <1>3, <2>3, <2>5, <2>6 DEF Launch, Switch!vars, Working
<1>4. ASSUME Return(t) PROVE Switch!Answer(t)
  <2>1. Desired' = Desired /\ Working' = Working
    BY <1>4 DEF Return, Desired, SwitchedOn, Working
  <2>2. /\ AbstractPhase(t) = "answered"
        /\ \A u \in Threads :
             AbstractPhase(u)' = IF u = t THEN "idle" ELSE AbstractPhase(u)
    BY <1>0, <1>4 DEF Return, AbstractPhase, ThreadStates
  <2> QED
    BY <1>0, <1>4, <2>1, <2>2 DEF Return, Switch!Answer
<1> QED
  BY <1>1, <1>2, <1>3, <1>4
  DEF ThreadStep, Switch!Next, Switch!Commands, Commands, Switch!Start, Switch!Stop, Start, Stop

(* The steps of the loop, seen on the switch.                               *)
LEMMA LoopRefines ==
  ASSUME Inv, Inv', NEW l \in Loops, LoopStep(l)
  PROVE  [Switch!Next]_Switch!vars
<1>next. OnePoller' => ReadOffTheLoop'
  BY OfTheLoop, PTL
<1> USE DEF LoopGoto, callVars, Start, Stop, Switch!Start, Switch!Stop
<1>0. /\ pc \in [Threads -> ThreadStates] /\ op \in [Threads -> Commands]
      /\ loop \in [Loops -> LoopStates] /\ run \in [Loops -> BOOLEAN]
      /\ command \in [Loops -> Commands]
      /\ OnePoller /\ OnePoller'
  BY DEF Inv, TypeOK
<1>1. loop[l] # "none" /\ loop'[l] # "none"
  BY <1>0 DEF LoopStep, Receive, NoCommand, Apply, Reconciled, Wake, WorkOrSleep
<1>2. /\ Desired = IF SwitchedOn(l) THEN Start ELSE Stop
      /\ Working = (loop[l] = "reconcile")
  BY <1>0, <1>1, OfTheLoop DEF ReadOffTheLoop
<1>4. /\ Desired' = IF SwitchedOn(l)' THEN Start ELSE Stop
      /\ Working' = (loop'[l] = "reconcile")
  BY <1>0, <1>1, <1>next DEF ReadOffTheLoop
<1>5. ASSUME NEW t \in Threads, Receive(l, t) PROVE Switch!TakeEffect(t)
  <2>1. ~Working /\ ~Working'
    BY <1>0, <1>2, <1>4, <1>5 DEF Receive
  <2>2. Desired' = op[t]
    BY <1>0, <1>4, <1>5 DEF Receive, SwitchedOn, Commands
  <2>3. /\ AbstractPhase(t) = "waiting"
        /\ \A u \in Threads :
             AbstractPhase(u)' = IF u = t THEN "answered" ELSE AbstractPhase(u)
    BY <1>0, <1>5 DEF Receive, Goto, AbstractPhase, ThreadStates
  <2> QED
    BY <1>5, <2>1, <2>2, <2>3 DEF Receive, Switch!TakeEffect, Working
<1>6. ASSUME NoCommand(l) \/ Apply(l) \/ Reconciled(l) \/ Wake(l)
      PROVE  /\ op' = op /\ \A u \in Threads : AbstractPhase(u)' = AbstractPhase(u)
             /\ SwitchedOn(l)' <=> SwitchedOn(l)
             /\ Desired' = Desired
  <2>1. op' = op /\ pc' = pc
    BY <1>6 DEF NoCommand, Apply, Reconciled, Wake
  <2>2. SwitchedOn(l)' <=> SwitchedOn(l)
    BY <1>0, <1>6 DEF NoCommand, Apply, Reconciled, Wake, WorkOrSleep, SwitchedOn, Commands
  <2> QED
    BY <1>2, <1>4, <2>1, <2>2 DEF AbstractPhase
<1>7. ASSUME NoCommand(l) \/ Apply(l) \/ Reconciled(l) \/ Wake(l), Working' = Working
      PROVE  UNCHANGED Switch!vars
  BY <1>6, <1>7 DEF Switch!vars
<1>8. ASSUME NoCommand(l) \/ Apply(l), Working' # Working PROVE Switch!BeginWork
  <2>1. SwitchedOn(l) /\ ~Working /\ Working'
    BY <1>0, <1>2, <1>4, <1>8 DEF NoCommand, Apply, WorkOrSleep, SwitchedOn, Commands
  <2> QED
    BY <1>2, <1>6, <1>8, <2>1 DEF Switch!BeginWork, Working
<1>9. ASSUME Reconciled(l) PROVE Switch!FinishWork
  <2>1. Working /\ ~Working'
    BY <1>0, <1>2, <1>4, <1>9 DEF Reconciled
  <2> QED
    BY <1>6, <1>9, <2>1 DEF Switch!FinishWork, Working
<1>10. ASSUME Wake(l) PROVE Working' = Working
  BY <1>0, <1>2, <1>4, <1>10 DEF Wake
<1> QED
  BY <1>5, <1>7, <1>8, <1>9, <1>10 DEF LoopStep, Switch!Next

(* Every initial state is one of the switch: off, no work, no answers.      *)
LEMMA InitRefines == Init => Switch!Init
<1> SUFFICES ASSUME Init PROVE Switch!Init
  OBVIOUS
<1>1. /\ pc \in [Threads -> {"idle", "lock"}]
      /\ op = [t \in Threads |-> Start]
      /\ \A l \in Loops : loop[l] = "none"
  BY DEF Init, InitStartedByMain, InitOnlyConstructed, InitCommon
<1>2. Desired = Stop /\ Working = FALSE
  BY <1>1 DEF Desired, SwitchedOn, Working
<1>3. \A t \in Threads : AbstractPhase(t) \in {"idle", "waiting"}
  BY <1>1 DEF AbstractPhase
<1> QED
  BY <1>1, <1>2, <1>3
  DEF Switch!Init, Switch!Commands, Switch!Start, Switch!Stop, Start, Stop

(* Every step is a step of the switch or a stutter.                         *)
LEMMA StepRefines == Inv /\ Inv' /\ [Next]_vars => [Switch!Next]_Switch!vars
<1> SUFFICES ASSUME Inv, Inv', [Next]_vars PROVE [Switch!Next]_Switch!vars
  OBVIOUS
<1>1. CASE UNCHANGED vars
  <2>1. /\ UNCHANGED <<op, loop, run, command>>
        /\ \A u \in Threads : AbstractPhase(u)' = AbstractPhase(u)
    BY <1>1 DEF vars, AbstractPhase
  <2> QED
    BY <2>1, CallerStutters
<1> QED
  BY <1>1, CallerRefines, LoopRefines DEF Next

(* StrategyLoop implements the on/off switch: its start/stop protocol gives *)
(* the calls one order, in which none takes effect during a reconcile.      *)
THEOREM Refinement == Spec => ImplementsSwitch
  BY InitRefines, StepRefines, Invariance, PTL DEF Spec, ImplementsSwitch, Switch!Spec

=============================================================================
