# target-exporter in TLA+

target-exporter is a Go service of a Kubernetes cluster. It exports a CPU target
and a "schedulable" flag for every node to Prometheus, where the Telemetry Aware
Scheduler reads them. It creates and deletes stress jobs. It runs a number of
*strategies* in the background that change the exported values, the jobs and the
CPU limits of their pods. All of this is switched and set through an HTTP API.

This directory holds TLA+ models of its core, the TLC runs that check them on
small instances, and proofs checked by TLAPS. `PROJECT.json` lists the
components, the runs, the lines each definition stands for, the hazards the
properties are aimed at, and what disagrees with the code's own documents.

    tlc -workers 2 -config StrategyLoop.cfg StrategyLoop.tla
    tlapm StrategyLoop_proofs.tla

## The system

| Part (under `src/`) | State it keeps | Operations |
|---|---|---|
| strategy loop, `pkg/scheduling/strategy.go` | `mu`, `initialized`, `isRunning`, an unbuffered channel; the loop's `run` and `command` | `Start`, `Stop`, `IsRunning`, the goroutine of `run` |
| exported cells, `orchestration.go` (`Target`, `Schedulable`) | per node a gauge and a field | `Set`, `GetTarget`, `IsSchedulable` |
| schedulable strategy, `schedulable.go` | the schedulable cells | `Reconcile`, `Stop`, `findSchedulableNode` |
| targets and the reduceTargets strategy, `reducetarget.go`, `routes.go` | the target cells | `POST /targets`, `Reconcile` |
| jobs, `kubeclient.go`, `job.go`, `orchestration.go`, `routes.go` | none: the jobs and pods of the API | `POST /workloads`, `POST /job-scenario`, `CheckStartJobs`, `DELETE /workloads/completed`, `DELETE /workloads/pending/last` |
| self-driving strategy, `selfdriving.go` | the skip list; the CPU limits of the pods | `Reconcile`, `PATCH /workload` |
| tawa strategy, `tawa.go` | none | an empty `Reconcile`; while on, `AddWorkload` asks an external service for a node |
| automatic job spawn, `spawn.go` | a burst counter and its reset time | `Reconcile`, `PUT /automatic-job-spawn` |
| server on/off, `serveronoff.go`, `pkg/serverswitch`, `main.go` | BMC connections | `initServerOnOff`, `Reconcile` (its switching is commented out), `retryServerConn` |
| HTTP API, `pkg/infrastructure` | none | the handlers, one goroutine per request |
| boot, `main.go` | configuration | starts two strategies, serves, hands the orchestrator to the handlers |
| `pkg/promclient`, `pkg/pyzhm`, charts | none | queries, conversions, deployment |

How they interact. A handler calls `Start` or `Stop` of a strategy, which sends a
command to the strategy's loop over a channel, the mutex held. The loop, when it
is on, calls the strategy's `Reconcile` once a second; that one queries
Prometheus and the Kubernetes API and then `Set`s cells, or patches pods. Other
handlers `Set` the same cells and change the same jobs and pods without any lock
in common. `CheckStartJobs` is a goroutine of its own.

What is hard about it: the rendezvous on an unbuffered channel under a mutex (who
waits for whom, and for ever?); `Set` in two halves by several goroutines; a
`Stop` that goes on to write after the mutex is released; lists of jobs and pods
that are stale when they are used, with names that are used again; calls of the
API that fail, or succeed and lose their reply, halfway through a loop; a list
from which items are removed while it is ranged over; a counter and a time that
are to bound bursts of jobs over failures and restarts; and a reconcile that may
not return, or end the process.

## The modules

`StrategyLoop` implements `StrategySwitch`; `SchedulableStrategy` composes
`StrategyLoop` and `ExportedCells`; `ServerOnOff` extends `StrategyLoop` by a
reconcile and implements `RestartingSwitch`, which extends `StrategySwitch`; `Targets` composes `StrategySwitch` and `ExportedCells`;
`AutomaticJobSpawn` works on `StrategySwitch`; `Jobs` and `SelfDriving` stand
alone.

**StrategySwitch** is what `Start` and `Stop` promise: a command takes effect in
one step between the call and its return, work is done only while the last
command in effect is Start, and a Stop takes effect only when no work is in
progress.

**RestartingSwitch** is what is left of that promise when the process may end and
start again. While it is `up` it is a `StrategySwitch`; while it is down nothing
happens; `Restart` forgets the last command, the work in progress and every call
without an answer. A waiting call after a restart is a new one, `main`'s for example.

**StrategyLoop** is `BaseConcurrentStrategy`. `pc[t]` is where a goroutine is in
`Start`/`Stop`: waiting for `mu` ("lock"), testing `initialized` ("init"),
blocked on the channel ("send"), before the deferred unlock ("unlock"), about to
return ("return"). `loop[l]` is where a polling goroutine is. `Receive` is the
rendezvous: both sides move. `NoCommand` is the `default` branch of the `select`
and is taken only if no sender is blocked. The initial states are the two ways
`main` treats a strategy: started by `main` before a handler can reach it, or
only constructed. Until `main` has handed over the orchestrator (`published`), a
request that needs it meets a nil pointer, which the recovery middleware answers
with 500; such a request has no effect and is not in the model.

**ExportedCells** is `Target` and `Schedulable`: `Set` is `SetGauge`, then
`SetField`. A goroutine puts the Sets it is going to make in its `plan`.
`torn` is a history variable: the nodes two of whose Sets have overlapped.

**SchedulableStrategy** adds the reconcile to `StrategyLoop`: query (which may
fail: the code logs this and goes on without diffs), look for an exported node in
the random order of a map, withdraw it if it is full and pick one with room.
Its `Stop` is the inherited one followed, outside the mutex, by a Set of every
cell. The load of each node ("room", "full", "silent") drifts at any time.

**Targets** is `POST /targets` and the reducer, the start/stop protocol at the
level of `StrategySwitch`. The reducer's two reads of a target and its Set are
steps of their own, so that a POST may come in between.

**Jobs** has the API's jobs (by name, with a uid) and pods as its state, and the
three kinds of goroutines that work on them. Each call of the API is one step.
`ListSuspended` keeps the last listed job for every entry: `GetSuspendedJobs`
appends the address of its loop variable. Outside the code: a job's pod is
scheduled, runs, and succeeds or fails; another pod may follow one that failed (the
prototype has `restartPolicy` Never and `backoffLimit` 4), until the job fails, by
that limit or by its deadline. A failed pod stays in the API (a DELETE pending of its job
would take it along), but no call of the code looks at it, so that the model keeps the
latest pod only. Deleting a
completed job orphans its pod; deleting a pending one takes its pod along; an update
of a job that has changed since it was read is refused. `ClearFails` and
`PendingFails` are the error returns of the two DELETE functions.

**SelfDriving** is the reconcile of the self-driving strategy for a set of nodes
with pods: query, refresh the skip list, list the pods and compute their updates,
patch one pod after the other. `Fails` is any call that fails; `PatchReplyLost` is
a patch whose reply is lost. The refresh is computed as the code does it, by
index, and so is its panic, after which the process starts again. `counted` are the
nodes whose CPU counts the reconcile got: the error of that query is overwritten, and
the reconcile goes on without. For a node without a count the limits of special pods
are divided by 0, and so updates become infinite or NaN (`NotFinite`); multiplied by
the count of 0 each becomes 0 or NaN, which `int64` converts as the processor does
(`Quantities`): to 0 on arm64, to the least integer on amd64, where the limit comes
out negative and the API refuses it.

**AutomaticJobSpawn** is the reconcile of `spawn.go`, its start and stop at the
level of `StrategySwitch`. Time passes in ticks; `resetTime` and `time.Sleep` are
kept as the time left. One reconcile is: query the diffs (`QueryFails`), then for
the reply as a whole reset the counter (`Reset`; the new reset time is in the
future, so no node of the reply gets a job), call `AddWorkload` (`Spawn`), or
neither (`NoSpawn`); then the creation, which may fail (`AddFails`), or succeed and
lose its reply (`ReplyLost`), neither of them counted nor followed by the sleep.
`Restart` is the end of the process at any point, by a panic in some strategy's loop
(`GetNodeCpuDiff` on a node Prometheus does not know is one) or from outside; it
forgets the counter, the reset time and that the spawner was on. `burst`, `idle` and
`excess` are history: the jobs created without a pause of `BurstResetTimeout`, the
time since the last one, and how many of the burst the code cannot know of.

**ServerOnOff** is the one strategy whose reconcile need not return. It asks the
BMC of every node that Prometheus reports, in any order, and after an error
reconnects until that succeeds (`RetryFails`, `Retried`). `switch[n]` is the entry of
the map of connections: "none" if it could not be opened at boot, "broken" once the
BMC has gone. A check on "none" dereferences nil (`CheckPanics`): nothing moves until
`Boot`, which is `initServerOnOff` and `initOrchestrator` again. `CheckPanics` maps to
`End` of `RestartingSwitch`, `Boot` to `Restart`, the retries to stutters of it.

What was abstracted. Usages, diffs and CPU are small integers or signs; a
fraction of an update is kept exact and truncated where the code makes a quantity
of it. A list call that fails before anything has happened changes nothing and is
a stutter. In `Jobs`, rendering a job and creating it are one step. `SelfDriving`
leaves out the pods of the scheduler itself, which the code always skips, treats
the refresh of the skip list as one step (it is one goroutine's own list; only the
phases of pods can change meanwhile) and leaves its start and stop to
`StrategyLoop`.

## The runs

| Run | What it shows |
|---|---|
| `strategy_loop` | Two request goroutines, `main`, room for two polling goroutines. Stop is a barrier, one goroutine polls, IsRunning is current, only a Stop before every Start is stranded, launched calls return, on leads to work, and the loop implements the switch. |
| `early_stop` | *Violated:* every PUT is answered. A Stop before the first Start blocks for ever with the mutex held. |
| `schedulable` | Two nodes, two clients and `main`. Once off and quiet, every node is exported, in the gauge and in the field, whatever a Start did during the Stop; the loop's Sets follow a diff that was read; gauge and field differ only through overlapping Sets. |
| `schedulable_settles` | One client, no overlap. Until a Stop is called one node at most is exported, in the gauges and in the fields, however often Start is called and whatever the load does. With a steady load the exports settle on nodes that are not full, on one at least if one has room. |
| `schedulable_restart` | *Violated:* at most one node is exported. After a Stop and a Start all nodes with room stay exported. |
| `targets` | One poster against the reducer, two nodes and two set points. A stopped reducer has no Set left, overlaps only tear, underused targets come down. |
| `jobs` | One poster, two DELETE requests, one of which may also delete a pending job, the starter, and a cluster that moves at any time; names used again. A DELETE deletes no job but what it saw to be completed or pending, unless another took the name; an answer without an error left no completed job it listed, nor the pod it succeeded with, also if the two requests shared the work; the starter starts what it read, and early only under a name that was used again; the last listed job is started once due. |
| `jobs_due` | *Violated:* every due job is started. Of two only the last listed one is. |
| `selfdriving` | Two pods, errors, lost replies, restarts. No pod is on the skip list twice, one item to remove is removed exactly, with more of them the refresh panics just if the index of one is beyond the end of the list as it has become (and removes the right number otherwise), the updates sum to the diff of the node if its CPU count is known, no limit is adjusted if it is not, a skip ends. |
| `selfdriving_refresh` | *Violated:* the refresh removes the expired items and no others. Two of them make it panic, or remove a third. |
| `automatic_spawn` | Two clients. Jobs less than a `BurstResetTimeout` apart are at most `MaxBurstPerNode`, but for lost replies and restarts, whatever switches, failures and lost replies come between them; no job after a Stop or before a Start; a sleep between any two counted jobs; a spawner that stays on goes on to spawn. |
| `server_on_off` | Two clients, `main`, two BMCs. A strategy that is off reconnects to nothing; once all BMCs answer, every call of Start and Stop returns and the process stays up; through all crashes and restarts it implements `RestartingSwitch`. |

`CHECK_DEADLOCK FALSE` stands in the two configurations of `StrategyLoop`
because a strategy stranded by an early Stop, with both clients waiting, really
is stuck; the run `early_stop` is about just that.

### Bounds, and why they are enough

- *Goroutines.* Two clients and `main` are the fewest for one holding the mutex,
  one waiting for it, and a boot in progress. `StrategyLoop` has room for a second
  polling goroutine so that `OnePoller` can fail. `schedulable` has two clients so
  that a Start may run during the second half of a Stop.
- *Nodes and set points.* Two nodes: one to withdraw, one to pick. Two set points,
  for a way down and a lowest one at which a target must stay.
- *Jobs.* Two DELETE requests, so that one deletes what the other has listed; only
  one of them (`Pickers`) also serves DELETE pending, which is enough for each kind to
  meet the other and for completed to meet completed. `MaxJobs` = 2 jobs under two
  names: a name that one request has freed is used again while the other's list is
  stale. A scenario has two jobs, dated 1, a workload one without a date; `MaxClock` = 2
  ticks, one before and one after that date. An early start under a name that was
  used again takes three jobs, so that this exception of `StartsAtItsDate` is
  beyond the run and covered by its theorem.
- *SelfDriving.* `MaxLimit` = 9; a patch beyond it is refused like a negative one.
  Diffs are -3, 0 and 3, one on either side of the slack of 2 and one within. The
  minimums make pod 1 a special case against a diff of -3 and pod 2 not. Two pods
  are enough for a duplicate and for two updates that share a diff; three are
  used to find `RefreshRemovesExpired` violated (a full exploration with three is
  beyond ten million states).
- *AutomaticJobSpawn.* The constants of the code, a tick being 20 seconds: 4 jobs, 3
  ticks, a sleep of 1. `MaxExcess` = 9 leaves room in one burst for two restarts
  and a lost reply, or for nine lost replies, which is more than two full bursts.
- *ServerOnOff.* Two BMCs, for one that is retried while the other goes or comes.
  Crashes and restarts are not bounded.
- *Symmetry* (clients and nodes) is used in `schedulable` only, which checks no
  liveness property.

### Fairness, and why the code justifies it

The Go scheduler runs every runnable goroutine: weak fairness of each goroutine's
own steps. `sync.Mutex` goes over to handing the lock to the first waiter once it
has waited a millisecond: strong fairness of `Lock`. Requests never have to come,
and no user has to be quiet: the liveness properties say "if the load is steady
from some point on" themselves. In `StrategyLoop` a reconcile returns, which holds of
all strategies but server on/off; `ServerOnOff` does not assume it: there each step of
the reconcile is fair, a reconnection to a BMC that goes on to answer succeeds, and
its properties say "once all BMCs answer". Kubernetes restarts a container that ended
(`Boot`). Prometheus and the
Kubernetes API may fail any number of times, but not always: strong fairness of
the query, or of the update of a job. Go starts the iteration of a map at a random
element: strong fairness of finding each exported node. In `AutomaticJobSpawn`,
`SpawningGoesOn` assumes that the query, the creation, and a reply with room come again
and again (strong fairness of `Reset`, `Spawn`, `AddWorkload`); restarts are bounded
by `MaxExcess`, so that a spawner can stay on. In `SelfDriving`, `SkipEnds`
also assumes that some node is in violation again and again, for the list is
refreshed only then.

## What is proved

All of this is for any sets of goroutines, any values and (where it matters,
finitely many) nodes. Eight modules hold theorems, one per model but the two
abstract switches. Every safety property of every passing run is a theorem,
refinements and action properties included; the three that state an
implementation rest on the same step-by-step argument.

**StrategyLoop_proofs.** The safety properties are not inductive. `Inv` adds what
the code relies on without saying it: at most one thread is between Lock and
Unlock, and only while the mutex is locked (`Mutex`); `initialized` is set exactly
if there is a polling goroutine (`Launched`); only a Start goes through the launch
test, and a Start that has passed it finds the goroutine there (`StartLaunches`);
the loop's `run`, the field `isRunning` and what the loop is doing agree
(`Agreement`); a command whose send has completed is the one the loop holds or has
applied (`Accepted`). From it follow `TypeCorrect`, `BarrierHolds`,
`AtMostOnePoller`, `IsRunningCorrect`, `StrandedOnlyEarly`, and `Refinement`: the
initial states are initial states of `StrategySwitch` and each step maps to one of
its steps or to a stutter. (The refinement is of the safety part.) Its two halves, `InitRefines` and `StepRefines`,
are lemmas of their own, for `SchedulableStrategy` and `ServerOnOff` use them.

**ExportedCells_proofs.** A node whose Sets never overlapped has at most one
goroutine halfway through a Set, its gauge holds that goroutine's value, and if
nobody is halfway gauge and field agree (`Untorn`). Without the second part the
end of one Set could pair its field with the gauge of another.

**SchedulableStrategy_proofs.** Every step of the strategy is a step of the loop
and a step of the cells, or leaves them alone (`LoopStepOrStutter`,
`CellsStepOrStutter`), so that both invariants carry over. To these `LoopPlans` and
`CallerPlans` add where in the code Sets are made, and `Exports` says: while the
strategy is off, each node is exported already or there is a Stop that has taken
effect and is still to Set it (or a Start is waiting, which will end "off"). This
is inductive because a Stop takes effect only outside a reconcile, so that from
then on all Sets are TRUE until the next Start. It gives `StoppedExportsAll`; the
other safety theorems are of `SetsFollowDiffs`, `OnlyOverlapsTear` and the types.

What the violated run `schedulable_restart` shows to need a Stop is proved to need
one: `OneExportedUntilAStop`. `AtMostOneExported` alone is not inductive, for the loop
withdraws one node and exports another in four assignments. `OneExportInv` adds
what the loop is about to Set: a withdrawal comes first and is of the one exported node,
an export comes last, and by then no other node is exported; and no two Sets overlap. Callers leave the cells alone as long as no
Stop is called, and only one loop reconciles (`OneLoopSets`).

`SchedulableIsASwitch` says that the strategy, whose `Stop` goes on after the inherited
one and whose reconcile makes steps of its own, still implements `StrategySwitch`.

**Targets_proofs.** The same composition over `StrategySwitch`:
`StoppedReducerIsQuiet`, `OnlyOverlapsTear` and the types, for which
`LowerSetpointIsLower` shows that the reducer's choice is a level not above the
target.

**AutomaticJobSpawn_proofs.** `BurstIsBounded` is not inductive: what the code relies
on is the relation of the counter, the reset time and the clock. `Counted` says that
either the counter knows of every job of the burst but the excess, or the counter was
reset and the time left until `resetTime` and the time since the last job make up
`BurstResetTimeout`, so that the next job begins a new burst. `Sleeps` says the same of
the sleep at the end of a reconcile, `ReconcileWorks` that only a reconcile of a spawner
that is on gets as far as `AddWorkload`. `BurstsAreBounded`,
`StoppedSpawnerCreatesNothing` and `CountedJobsAreApart` follow, for every burst size
and every timeout at least as long as the sleep.

**ServerOnOff_proofs.** The invariant is that of `StrategyLoop_proofs`, whose lemmas
are used for the steps the two share, and where in a reconcile checks and retries are
made. `Boot` establishes it anew, so that it is an invariant of a process that crashes
at any point: `OffLeavesTheBmcsAlone`, and `BarrierSurvivesRestarts`, that Stop is a
barrier also across crashes. `RestartingRefinement` is the refinement of
`RestartingSwitch`: while the process is up a step is one that `StepRefines` maps, or
one of the reconcile that changes nothing the switch sees; a panic is the only step to
`down`, and takes nothing with it that was not the process's own; and what `Boot` leaves
is an initial state but for `up`.

**Jobs_proofs.** The goroutines meet only in the API. The proof says once what any step
does to the jobs and pods that exist (`ApiMoves`: a job keeps its uid and its start, is
not suspended again and stays completed; a new job has a new uid; a pod that succeeded
can only go), and then that what each goroutine knows survives such a step. `ApiInv` is
about the API alone (uids are distinct; a job with a pod is not suspended; the pod of a
completed job succeeded or is gone), `StarterInv` about the job the starter read, and
`CleanerInv` about each DELETE request: while it deletes jobs, those of its list that
are there under the uid listed are completed and still to be deleted; while it deletes
pods, a pod of its list is gone or still to be deleted. The theorems
`StaleListsDeleteNothingElse`, `ClearingIsComplete` and `StartsNoJobEarly` are for any
number of DELETE requests, of which the run has two. `ClearingIsComplete` is about the
completed jobs a request listed, the pods they succeeded with and the succeeded pods it
listed. It says nothing of failed pods of those jobs, which the code does not delete.

**SelfDriving_proofs.** `refreshSkiplist` is a recursive function, which TLA+ defines by
a CHOOSE; that there is such a function at all (`RecursionExists`), and hence that its
equation holds (`RefreshEquation`), is proved first, by way of a least index at which
it would fail. `RemovingKeepsDistinct` shows that a removal by any index makes no
duplicate, `RefreshedIsDistinct` the same of the whole refresh. The invariant adds that
no pod that is still to be patched is on the skip list (`NoneSkipped`), for patches are
made one by one and each adds its pod. It gives `SkipsAreDistinct` and the types.
`RefreshedIsExact` follows the recursion for a list with one item to remove: unchanged
up to that item, without it afterwards; hence `OneExpiryRemovesIt`. With two it is
false, as the run `selfdriving_refresh` shows; `PanicsJustBeyondTheEnd` says exactly
which lists it panics on, for any number of items. Its induction (`RefreshedCounts`)
carries the length: up to an index, the refresh has removed as many items as were to be
removed, unless one of them stood beyond the end that those before it left.

`SharesAreExact` is about the updates of a node: with the case distinction of
`getViolatingPodsDelta` they sum to its diff, with no remainder, for any finite number
of pods of a node whose CPU count is known. `UncountedPodsKeepTheirLimits` is about the
others: whatever a division by 0 is converted to, a patch that the API accepts writes
back the limit that was listed. The sum over a set is a fold, again a function that has to be shown to exist
(`SumsExist`); `SumsAdd`, `SumOfConstants` and `SumOfMultiples` are what it takes of
sums, by a smallest set that would be a counterexample, and `SharesSumToDiff` and
`SpecialSharesSumToDiff` the two cases of the code, without and with pods that are
already near their minimum.

Assumptions: `MainAssumption` (main is not a request goroutine), `SchedAssumption`
(request goroutines are not loops; finitely many nodes), `TargetsAssumption` (the
same for the reducer; the unknown node is none of the nodes; set points are
levels, levels naturals), `SpawnAssumption` (a burst and a timeout of at least 1, a
sleep no longer than the timeout), `JobsAssumption` (finitely many names, numbered
from 1, as the API lists them; `Pickers` are DELETE requests), `SelfDrivingAssumption` (finitely many nodes and pods;
limits in the range of the bound). TLC evaluates them in the runs.

Only model-checked: the liveness properties (`LaunchedCallsReturn`, `OnLeadsToWork`,
`ExportSettles`, `UnderusedComesDown`, `LastListedJobStarts`, `SkipEnds`,
`SpawningGoesOn`, `CallsReturnOnceReachable`, `StaysUpOnceReachable`), which rest on
fairness and are out of this prover's reach, and the four violated ones, which are
counterexamples and not facts about every instance.

## Disagreements with the code's documents

Each is a run that TLC finds violated; `PROJECT.json` quotes the lines.

- `Stop` before the first `Start` of a strategy never returns and keeps the mutex,
  though the handler means to answer "success" (`strategy.go:61`).
- After a Stop and a Start the schedulable strategy leaves every node with room
  exported, where the diagram says one is picked (`schedulable.go:59`).
- Of several suspended jobs only the last of the list of jobs is ever started: all
  entries point at the loop variable (`kubeclient.go:225`).
- The refresh of the skip list panics, or removes the wrong item, if two items are
  to be removed (`selfdriving.go:135`).

Met in reading, with no run of their own:

- The reducer drops a target to the lowest set point, where the comment says "reduce
  to previous set point" (`reducetarget.go:33`), because the list of `config.yaml`
  ascends and `getLowerSetpoint` takes the first that is lower.
- A positive diff lowers a CPU limit, possibly below the minimum of its job, where the
  comment says that the adjustment surely does not (`selfdriving.go:332`), and
  that "positive values mean that the pod CPU limit can be increased" (`selfdriving.go:323`).
- Of the pods that are to be throttled, one whose minimum is below the diff (a "special"
  one) gets its limit minus its minimum as its update, which is added
  (`selfdriving.go:381`, `103`): its limit goes up. The comments have it that negative
  values throttle and that such pods get "a lesser delta" (`selfdriving.go:323`,
  `346-349`, `363`). `UpdatesSumToDiff` says that the other pods make up for it.
- The error of the query of CPU counts is overwritten by the next one
  (`selfdriving.go:50`). The pods of a node without a count are patched to the limit
  they have, and are left alone for a minute as if they had been adjusted.
- The reducer may overwrite, and even raise, a target that a POST has set since it
  read the usages (`reducetarget.go:41-44`).
- A failed pod of a job that was retried and completed outlives
  `DELETE /workloads/completed`, which deletes succeeded pods only
  (`kubeclient.go:123`).
- `MaxBurstPerNode` is documented as "how many jobs per node at most" and
  `BurstResetTimeout` as "by default set to 5 mins" (`spawn.go:14-18`); the counter is
  one for all nodes, and the timeout is one minute. `AutomaticJobSpawn` has it as coded.
- The answer of `DELETE /workloads/completed` says "success" if a *pod* was deleted
  (`kubeclient.go:130`), not if a job was (`routes.go:214-216`).

## Not modelled

- *GET handlers, JSON binding, CORS, charts and configuration*: no state.
- *promclient, pyzhm*: their answers and failures appear as choices of the
  environment in the modules that call them; the conversion of samples does not.
- *The node Tawa chooses*: a remote call and a look-up, with no state behind it.
- *Shutdown*: waits 30 seconds for the requests, then exits.
- *A node Prometheus reports and the configuration does not have*: `SchedulableStrategy`
  and `ServerOnOff` have the nodes of the configuration only. Such a node is a nil
  pointer in both reconciles (`schedulable.go:51`, `serveronoff.go:43`) whatever the
  rest of the system does, so that a process that meets it ends and boots for ever.
- *Failed pods*, which no call of the code deletes or looks at, *and the answers of the
  DELETE requests*.
- *A request that reaches the API before `main` has handed over the orchestrator*: a nil
  pointer, answered 500, without effect.
- *A PATCH /workload that the self-driving strategy overwrites*, and *a scenario that
  fails half way* and is sent again: both are in the models (`PatchWorkload` between
  `ListPods` and `Patched`; `AddFails`), but nothing in the code or its documents says
  what should happen, so that no property is stated.

## The plan

Done: `StrategySwitch` and `RestartingSwitch`, the abstract specifications;
`StrategyLoop`, `ExportedCells`, `SchedulableStrategy`, `Targets`, `Jobs`, `SelfDriving`,
`AutomaticJobSpawn` and `ServerOnOff` with their proofs.

Next, in this order:

1. `RestartingSwitch` as the abstraction of `AutomaticJobSpawn` too, whose `Restart` is
   one step where the switch has two.
2. The answers of the DELETE requests in `Jobs`, which two requests that share the work
   get differently.
