-------------------------- MODULE AutomaticJobSpawn --------------------------
(***************************************************************************)
(* The automatic job spawn strategy (pkg/scheduling/spawn.go): while it is  *)
(* on and some node has room, it creates stress jobs, one per reconcile, in *)
(* bursts with a pause between them.  Its start/stop protocol is taken at   *)
(* the level of StrategySwitch, which StrategyLoop implements.              *)
(*                                                                         *)
(* Time passes in ticks.  resetTime is kept as the time left until it, so   *)
(* that it is in the past when nothing is left; time.Sleep likewise.        *)
(***************************************************************************)
EXTENDS Naturals

CONSTANTS
  Clients,                 \* goroutines serving PUT /automatic-job-spawn
  Nodes,
  MaxBurstPerNode,         \* jobs in a burst (for all nodes together)
  BurstResetTimeout,       \* ticks from the reset of the counter to the next job
  ReconciliationDelay,     \* ticks a reconcile sleeps at its end
  MaxExcess                \* bound: see excess

ASSUME SpawnAssumption ==
  /\ MaxBurstPerNode \in Nat \ {0}
  /\ BurstResetTimeout \in Nat \ {0}
  /\ ReconciliationDelay \in 0..BurstResetTimeout
  /\ MaxExcess \in Nat

VARIABLES
  phase, wants, desired, working,
  step, sleep,             \* the reconcile: control, and its sleep
  spawnCount, resetTime,
  burst, idle,             \* jobs created without a pause between them, and the
                           \* time since the last one, up to BurstResetTimeout
  excess                   \* the jobs of the burst that the code cannot know of:
                           \* one per lost reply, a full count per restart

Switch == INSTANCE StrategySwitch

switchVars == <<phase, wants, desired, working>>
burstVars == <<spawnCount, resetTime>>
historyVars == <<burst, idle, excess>>
vars == <<switchVars, step, sleep, burstVars, historyVars>>

(* A process that has just been booted: the spawner is constructed, not     *)
(* started, and resetTime is the time of its construction.                  *)
Boot ==
  /\ Switch!Init
  /\ \A c \in Clients : phase[c] = "idle"
  /\ step = "query"
  /\ sleep = 0
  /\ spawnCount = 0
  /\ resetTime = 0

Init ==
  /\ Boot
  /\ burst = 0
  /\ idle = BurstResetTimeout
  /\ excess = 0

-----------------------------------------------------------------------------
(* Time. *)

Left(t) == IF t = 0 THEN 0 ELSE t - 1

Tick ==
  /\ sleep' = Left(sleep)
  /\ resetTime' = Left(resetTime)
  /\ idle' = IF idle < BurstResetTimeout THEN idle + 1 ELSE idle
  /\ UNCHANGED <<switchVars, step, spawnCount, burst, excess>>

-----------------------------------------------------------------------------
(* Reconcile. *)

Begin ==
  /\ Switch!BeginWork
  /\ UNCHANGED <<step, sleep, burstVars, historyVars>>

(* The query of the diffs failed; the error goes to the loop, without a     *)
(* sleep.                                                                   *)
QueryFails ==
  /\ step = "query"
  /\ Switch!FinishWork
  /\ UNCHANGED <<step, sleep, burstVars, historyVars>>

(* What Prometheus reports: of some nodes, is cpu_diff at least 0?          *)
Diffs == UNION {[S -> BOOLEAN] : S \in SUBSET Nodes}

Passed(t) == t = 0

shouldReset == Passed(resetTime) /\ spawnCount >= MaxBurstPerNode

(* Mutant of shouldSpawn: the burst counter is not looked at. *)
shouldSpawnAlways == Passed(resetTime)

shouldSpawn == spawnCount < MaxBurstPerNode /\ Passed(resetTime)

Queried(next) ==
  /\ working
  /\ step = "query"
  /\ step' = next
  /\ sleep' = IF next = "sleep" THEN ReconciliationDelay ELSE sleep
  /\ UNCHANGED <<switchVars, historyVars>>

(* Mutant of Reset: the counter is not set back. *)
ResetTimeOnly(diffs) ==
  /\ DOMAIN diffs # {}
  /\ shouldReset
  /\ resetTime' = BurstResetTimeout
  /\ UNCHANGED spawnCount
  /\ Queried("sleep")

(* Mutant of Reset: the pause is taken from the end of the reconcile, not   *)
(* from now.                                                                *)
ResetAfterSleep(diffs) ==
  /\ DOMAIN diffs # {}
  /\ shouldReset
  /\ spawnCount' = 0
  /\ resetTime' = ReconciliationDelay + BurstResetTimeout
  /\ Queried("sleep")

(* At the first node of the reply.  The new resetTime is in the future, so  *)
(* the nodes after it cannot get a job in this reconcile.                   *)
Reset(diffs) ==
  /\ DOMAIN diffs # {}
  /\ shouldReset
  /\ spawnCount' = 0
  /\ resetTime' = BurstResetTimeout
  /\ Queried("sleep")

(* Mutant of Spawn: AddWorkload is called in a goroutine of its own. *)
SpawnInBackground(diffs) ==
  /\ step = "query"
  /\ \E n \in DOMAIN diffs : diffs[n]
  /\ shouldSpawn
  /\ step' = "add"
  /\ Switch!FinishWork
  /\ UNCHANGED <<sleep, burstVars, historyVars>>

(* The first node of the reply with room makes the loop call AddWorkload,   *)
(* which does not place the job on that node.                               *)
Spawn(diffs) ==
  /\ \E n \in DOMAIN diffs : diffs[n]
  /\ shouldSpawn
  /\ Queried("add")
  /\ UNCHANGED burstVars

NoSpawn(diffs) ==
  /\ DOMAIN diffs = {} \/ ~shouldReset
  /\ (\A n \in DOMAIN diffs : ~diffs[n]) \/ ~shouldSpawn
  /\ Queried("sleep")
  /\ UNCHANGED burstVars

(* A job is created now: it goes on with a burst, or begins one if there    *)
(* was no job for BurstResetTimeout.                                        *)
JobCreated(unknown) ==
  /\ idle' = 0
  /\ IF idle = BurstResetTimeout THEN burst' = 1 /\ excess' = unknown
     ELSE burst' = burst + 1 /\ excess' = excess + unknown
  /\ excess' <= MaxExcess

AddWorkload ==
  /\ step = "add"
  /\ JobCreated(0)
  /\ spawnCount' = spawnCount + 1
  /\ step' = "sleep"
  /\ sleep' = ReconciliationDelay
  /\ UNCHANGED <<switchVars, resetTime>>

(* A query of the CPU counts, a query or a prediction for Tawa, or the      *)
(* creation failed; nothing is counted and nobody sleeps.                   *)
AddFails ==
  /\ step = "add"
  /\ step' = "query"
  /\ Switch!FinishWork
  /\ UNCHANGED <<sleep, burstVars, historyVars>>

(* The job was created, and the reply of the API lost. *)
ReplyLost ==
  /\ step = "add"
  /\ JobCreated(1)
  /\ step' = "query"
  /\ Switch!FinishWork
  /\ UNCHANGED <<sleep, burstVars>>

(* Mutant of Finish: the sleep is cut short. *)
FinishAtOnce ==
  /\ step = "sleep"
  /\ step' = "query"
  /\ Switch!FinishWork
  /\ UNCHANGED <<sleep, burstVars, historyVars>>

Finish ==
  /\ step = "sleep"
  /\ Passed(sleep)
  /\ step' = "query"
  /\ Switch!FinishWork
  /\ UNCHANGED <<sleep, burstVars, historyVars>>

-----------------------------------------------------------------------------
(* The process ends, by a panic in the loop of a strategy (for one, that of *)
(* GetNodeCpuDiff when Tawa names a node Prometheus does not know) or by    *)
(* its pod being deleted, and boots again.                                  *)
Restart ==
  /\ excess + MaxBurstPerNode <= MaxExcess
  /\ phase' = [c \in Clients |-> "idle"]
  /\ wants' \in [Clients -> Switch!Commands]
  /\ desired' = Switch!Stop
  /\ working' = FALSE
  /\ step' = "query"
  /\ sleep' = 0
  /\ spawnCount' = 0
  /\ resetTime' = 0
  /\ excess' = excess + MaxBurstPerNode
  /\ UNCHANGED <<burst, idle>>

SwitchStep ==
  /\ \E c \in Clients :
       \/ \E cmd \in Switch!Commands : Switch!Invoke(c, cmd)
       \/ Switch!TakeEffect(c)
       \/ Switch!Answer(c)
  /\ UNCHANGED <<step, sleep, burstVars, historyVars>>

ReconcileStep ==
  \/ Begin
  \/ QueryFails
  \/ \E diffs \in Diffs : Reset(diffs) \/ Spawn(diffs) \/ NoSpawn(diffs)
  \/ AddWorkload
  \/ AddFails
  \/ ReplyLost
  \/ Finish

Next == Tick \/ ReconcileStep \/ SwitchStep \/ Restart

(* Time passes, the loop runs, and neither Prometheus nor the API fails for *)
(* ever, nor are all nodes full for ever.                                   *)
Fairness ==
  /\ WF_vars(Tick)
  /\ WF_vars(ReconcileStep)
  /\ SF_vars(\E diffs \in Diffs : Reset(diffs))
  /\ SF_vars(\E diffs \in Diffs : Spawn(diffs))
  /\ SF_vars(AddWorkload)

Spec == Init /\ [][Next]_vars

FairSpec == Spec /\ Fairness

-----------------------------------------------------------------------------
(* Properties. *)

TypeOK ==
  /\ phase \in [Clients -> Switch!Phases]
  /\ wants \in [Clients -> Switch!Commands]
  /\ desired \in Switch!Commands
  /\ working \in BOOLEAN
  /\ step \in {"query", "add", "sleep"}
  /\ sleep \in 0..ReconciliationDelay
  /\ spawnCount \in 0..MaxBurstPerNode
  /\ resetTime \in 0..BurstResetTimeout
  /\ burst \in Nat
  /\ idle \in 0..BurstResetTimeout
  /\ excess \in 0..MaxExcess

(* However the requests switch the spawner off and on, which reconciles     *)
(* fail, and wherever in a burst a failure comes: jobs that are not a       *)
(* BurstResetTimeout apart are no more than MaxBurstPerNode, but for those  *)
(* whose reply was lost and those of an earlier life of the process         *)
(* (spawn.go Reconcile, shouldReset, shouldSpawn).                          *)
BurstIsBounded == burst <= MaxBurstPerNode + excess

NewJob == burst' # burst \/ (idle # 0 /\ idle' = 0)

(* No job is created once a Stop has taken effect, or a restart, until the  *)
(* next Start has, and none by a reconcile that has returned (spawn.go      *)
(* Reconcile, Stop).                                                        *)
OnlyAStartedSpawnerCreates == [][NewJob => desired = Switch!Start /\ working]_vars

(* Jobs that follow each other by less than the sleep at the end of a       *)
(* reconcile are ones whose reply was lost, or of an earlier life           *)
(* (spawn.go 83-91): a counted job is followed by the sleep.                *)
SleepsBetweenJobs ==
  [][NewJob /\ excess' = 0 => idle >= ReconciliationDelay]_vars

(* A spawner that stays on goes on to create jobs: neither a full counter,  *)
(* nor failures, nor lost replies stop it for good (spawn.go shouldReset).  *)
SpawningGoesOn == <>[](desired = Switch!Start) => []<>(idle = 0)

=============================================================================
