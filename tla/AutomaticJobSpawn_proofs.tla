----------------------- MODULE AutomaticJobSpawn_proofs -----------------------
(***************************************************************************)
(* Theorems about AutomaticJobSpawn for any number of clients and nodes,    *)
(* any size of a burst, any pause and any sleep not longer than the pause.  *)
(***************************************************************************)
EXTENDS AutomaticJobSpawn, TLAPS

(* TypeOK in two parts: the requests and the switch, and the reconcile.     *)
SwitchTypes ==
  /\ phase \in [Clients -> Switch!Phases]
  /\ wants \in [Clients -> Switch!Commands]
  /\ desired \in Switch!Commands
  /\ working \in BOOLEAN

BurstTypes ==
  /\ step \in {"query", "add", "sleep"}
  /\ sleep \in 0..ReconciliationDelay
  /\ spawnCount \in 0..MaxBurstPerNode
  /\ resetTime \in 0..BurstResetTimeout
  /\ burst \in Nat
  /\ idle \in 0..BurstResetTimeout
  /\ excess \in 0..MaxExcess

(* AddWorkload is called only by a reconcile in progress, which is one of a *)
(* spawner that is on.                                                      *)
ReconcileWorks ==
  /\ step # "query" => working
  /\ working => desired = Switch!Start

(* AddWorkload is called with a counter and a time that allow it.  After a  *)
(* reset, what is left of resetTime and the time since the last job make up *)
(* the pause; otherwise the counter knows of all the jobs of the burst but  *)
(* the excess.                                                              *)
Counted ==
  /\ step = "add" => spawnCount < MaxBurstPerNode /\ resetTime = 0
  /\ \/ burst <= spawnCount + excess
     \/ idle + resetTime >= BurstResetTimeout

(* After a counted job the reconcile sleeps before it ends: what is left of *)
(* the sleep and the time since the job make up the delay.                  *)
Sleeps ==
  excess = 0 => IF step = "sleep" THEN idle + sleep >= ReconciliationDelay
                ELSE idle >= ReconciliationDelay

Numbers == BurstTypes /\ BurstIsBounded /\ Counted /\ Sleeps

Control == SwitchTypes /\ ReconcileWorks

Inv == Control /\ Numbers

LEMMA InitInv == Init => Inv
<1> SUFFICES ASSUME Init PROVE Inv
  OBVIOUS
<1>1. Control
  BY Zenon
  DEF Init, Boot, Switch!Init, Switch!Phases, Switch!Commands, Switch!Start,
      Switch!Stop, Control, SwitchTypes, ReconcileWorks
<1>2. Numbers
  BY SpawnAssumption
  DEF Init, Boot, Numbers, BurstTypes, BurstIsBounded, Counted, Sleeps
<1> QED
  BY <1>1, <1>2 DEF Inv

(* Steps of a reconcile that goes on, and time.                             *)
LEMMA GoesOn ==
  ASSUME Inv, UNCHANGED switchVars, step' # "query" => step # "query" \/ working
  PROVE  Control'
BY DEF Inv, Control, SwitchTypes, ReconcileWorks, switchVars

LEMMA TickInv == Inv /\ Tick => Inv'
<1> SUFFICES ASSUME Inv, Tick PROVE Inv'
  OBVIOUS
<1>1. Control'
  BY GoesOn DEF Tick
<1>2. Numbers'
  BY SpawnAssumption
  DEF Tick, Left, Inv, Numbers, BurstTypes, BurstIsBounded, Counted, Sleeps
<1> QED
  BY <1>1, <1>2 DEF Inv

(* The loop begins a reconcile, or a request takes a step.                  *)
LEMMA SwitchInv == Inv /\ (Begin \/ SwitchStep) => Inv'
<1> SUFFICES ASSUME Inv, Begin \/ SwitchStep PROVE Inv'
  OBVIOUS
<1>1. UNCHANGED <<step, sleep, burstVars, historyVars>>
  BY DEF Begin, SwitchStep
<1>2. Numbers'
  BY <1>1 DEF Inv, Numbers, BurstTypes, BurstIsBounded, Counted, Sleeps,
              burstVars, historyVars
<1>3. ASSUME Begin PROVE Control'
  BY <1>1, <1>3 DEF Begin, Switch!BeginWork, Inv, Control, SwitchTypes, ReconcileWorks
<1>4. ASSUME SwitchStep PROVE Control'
  BY <1>1, <1>4 DEF SwitchStep, Switch!Invoke, Switch!TakeEffect, Switch!Answer,
                    Switch!Phases, Inv, Control, SwitchTypes, ReconcileWorks
<1> QED
  BY <1>2, <1>3, <1>4 DEF Inv

(* FinishWork ends a reconcile.                                             *)
LEMMA FinishControl == Inv /\ Switch!FinishWork /\ step' = "query" => Control'
BY Zenon DEF Switch!FinishWork, Inv, Control, SwitchTypes, ReconcileWorks

(* A reconcile that ends, with an error or after its sleep, leaves the      *)
(* counter and the history alone.                                           *)
LEMMA EndInv == Inv /\ (QueryFails \/ AddFails \/ Finish) => Inv'
<1> SUFFICES ASSUME Inv, QueryFails \/ AddFails \/ Finish PROVE Inv'
  OBVIOUS
<1>1. Switch!FinishWork /\ step' = "query" /\ UNCHANGED <<sleep, burstVars, historyVars>>
  BY DEF QueryFails, AddFails, Finish
<1>2. step = "sleep" => sleep = 0
  BY DEF QueryFails, AddFails, Finish, Passed
<1>3. Numbers'
  BY <1>1, <1>2 DEF Inv, Numbers, BurstTypes, BurstIsBounded, Counted, Sleeps,
                    burstVars, historyVars
<1> QED
  BY <1>1, <1>3, FinishControl DEF Inv

LEMMA QueriedInv ==
  ASSUME NEW diffs, Inv, Reset(diffs) \/ Spawn(diffs) \/ NoSpawn(diffs)
  PROVE  Inv'
<1>1. PICK next \in {"add", "sleep"} : Queried(next)
  BY DEF Reset, Spawn, NoSpawn
<1>2. Control'
  BY <1>1, GoesOn DEF Queried
<1>3. Numbers'
  BY SpawnAssumption
  DEF Reset, Spawn, NoSpawn, Queried, shouldReset, shouldSpawn, Passed, burstVars,
      historyVars, Inv, Numbers, BurstTypes, BurstIsBounded, Counted, Sleeps
<1> QED
  BY <1>2, <1>3 DEF Inv

(* A job that is counted, or whose reply is lost.                           *)
LEMMA AddInv == Inv /\ (AddWorkload \/ ReplyLost) => Inv'
<1>1. ASSUME Inv, AddWorkload PROVE Inv'
  <2>1. Control'
    BY <1>1, GoesOn DEF AddWorkload
  <2>2. Numbers'
    BY <1>1, SpawnAssumption
    DEF AddWorkload, JobCreated, Inv, Numbers, BurstTypes, BurstIsBounded, Counted, Sleeps
  <2> QED
    BY <2>1, <2>2 DEF Inv
<1>2. ASSUME Inv, ReplyLost PROVE Inv'
  <2>1. Control'
    BY <1>2, FinishControl DEF ReplyLost
  <2>2. Numbers'
    BY <1>2, SpawnAssumption
    DEF ReplyLost, JobCreated, burstVars, Inv, Numbers, BurstTypes, BurstIsBounded,
        Counted, Sleeps
  <2> QED
    BY <2>1, <2>2 DEF Inv
<1> QED
  BY <1>1, <1>2

LEMMA RestartInv == Inv /\ Restart => Inv'
<1> SUFFICES ASSUME Inv, Restart PROVE Inv'
  OBVIOUS
<1>1. Control'
  BY Zenon DEF Restart, Switch!Phases, Switch!Commands, Switch!Stop, Control,
               SwitchTypes, ReconcileWorks
<1>2. Numbers'
  BY SpawnAssumption
  DEF Restart, Inv, Numbers, BurstTypes, BurstIsBounded, Counted, Sleeps
<1> QED
  BY <1>1, <1>2 DEF Inv

LEMMA NextInv == Inv /\ [Next]_vars => Inv'
<1> SUFFICES ASSUME Inv, [Next]_vars PROVE Inv'
  OBVIOUS
<1>1. CASE UNCHANGED vars
  BY <1>1 DEF vars, switchVars, burstVars, historyVars, Inv, Control, SwitchTypes,
              ReconcileWorks, Numbers, BurstTypes, BurstIsBounded, Counted, Sleeps
<1>2. CASE Tick
  BY <1>2, TickInv
<1>3. CASE ReconcileStep
  BY <1>3, SwitchInv, EndInv, QueriedInv, AddInv DEF ReconcileStep
<1>4. CASE SwitchStep
  BY <1>4, SwitchInv
<1>5. CASE Restart
  BY <1>5, RestartInv
<1> QED
  BY <1>1, <1>2, <1>3, <1>4, <1>5 DEF Next

(* The inductive invariant.                                                 *)
THEOREM Invariance == Spec => []Inv
BY InitInv, NextInv, PTL DEF Spec

(* The variables keep their types: the counter never exceeds the burst.     *)
THEOREM SpawnTypeCorrect == Spec => []TypeOK
<1>1. Inv => TypeOK
  BY DEF Inv, Control, SwitchTypes, Numbers, BurstTypes, TypeOK
<1> QED
  BY <1>1, Invariance, PTL

(* Bursts are bounded, whatever requests, failures and restarts come        *)
(* between the jobs (spawn.go Reconcile).                                   *)
THEOREM BurstsAreBounded == Spec => []BurstIsBounded
<1>1. Inv => BurstIsBounded
  BY DEF Inv, Numbers
<1> QED
  BY <1>1, Invariance, PTL

(* Only AddWorkload and a lost reply create a job.                          *)
LEMMA JobsAreAdded ==
  ASSUME Inv, [Next]_vars, NewJob
  PROVE  step = "add" /\ (AddWorkload \/ ReplyLost)
<1>1. CASE UNCHANGED vars
  BY <1>1 DEF NewJob, vars, historyVars
<1>2. CASE Tick
  BY <1>2, SpawnAssumption DEF NewJob, Tick, Inv, Numbers, BurstTypes
<1>3. CASE ReconcileStep
  BY <1>3 DEF NewJob, ReconcileStep, Begin, QueryFails, Reset, Spawn, NoSpawn, Queried,
              AddWorkload, AddFails, ReplyLost, Finish, historyVars
<1>4. CASE SwitchStep
  BY <1>4 DEF NewJob, SwitchStep, historyVars
<1>5. CASE Restart
  BY <1>5 DEF NewJob, Restart
<1> QED
  BY <1>1, <1>2, <1>3, <1>4, <1>5 DEF Next

(* No job is created after a Stop that has taken effect.                    *)
THEOREM StoppedSpawnerCreatesNothing == Spec => OnlyAStartedSpawnerCreates
<1>1. Inv /\ [Next]_vars => [NewJob => desired = Switch!Start /\ working]_vars
  BY JobsAreAdded DEF Inv, Control, ReconcileWorks
<1> QED
  BY <1>1, Invariance, PTL DEF Spec, OnlyAStartedSpawnerCreates

(* Counted jobs are a sleep apart.                                          *)
THEOREM CountedJobsAreApart == Spec => SleepsBetweenJobs
<1>1. ASSUME Inv, AddWorkload \/ ReplyLost, excess' = 0
      PROVE  idle >= ReconciliationDelay
  <2>1. idle = BurstResetTimeout \/ excess = 0
    BY <1>1, SpawnAssumption
    DEF AddWorkload, ReplyLost, JobCreated, Inv, Numbers, BurstTypes
  <2>2. step = "add"
    BY <1>1 DEF AddWorkload, ReplyLost
  <2> QED
    BY <1>1, <2>1, <2>2, SpawnAssumption DEF Inv, Numbers, Sleeps, BurstTypes
<1>2. Inv /\ [Next]_vars =>
        [NewJob /\ excess' = 0 => idle >= ReconciliationDelay]_vars
  BY <1>1, JobsAreAdded
<1> QED
  BY <1>2, Invariance, PTL DEF Spec, SleepsBetweenJobs

=============================================================================
