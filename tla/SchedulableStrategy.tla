------------------------ MODULE SchedulableStrategy ------------------------
(***************************************************************************)
(* The schedulable strategy (pkg/scheduling/schedulable.go): while it is    *)
(* on, one node whose CPU usage is below its target is exported to the      *)
(* Telemetry Aware Scheduler as schedulable; switching it off exports all.  *)
(*                                                                         *)
(* The strategy is a BaseConcurrentStrategy (StrategyLoop) whose reconcile  *)
(* queries Prometheus, looks for the exported node and Sets cells           *)
(* (ExportedCells).  Its Stop is the base Stop followed by a Set of every   *)
(* cell, in the goroutine of the request and outside the mutex.             *)
(***************************************************************************)
EXTENDS StrategyLoop, Sequences, SequencesExt, FiniteSets

CONSTANT Nodes

ASSUME SchedAssumption ==
  /\ Threads \cap Loops = {}
  /\ IsFiniteSet(Nodes)

VARIABLES
  load,                    \* environment: the sign of each node's cpu_diff, if any
  gauge, field, plan, half, torn,
  step,                    \* per goroutine: where its reconcile or its Stop is
  diffs                    \* per loop: the diffs it read, none if the query failed

Actors == Threads \cup Loops

Cells == INSTANCE ExportedCells WITH Values <- BOOLEAN

cellVars == <<gauge, field, plan, half, torn>>
schedVars == <<load, gauge, field, plan, half, torn, step, diffs>>
allVars == <<vars, schedVars>>

(* A loop's reconcile goes through "query", "find" and "set"; a caller's    *)
(* Stop through "base" (the inherited Stop) and "set".                      *)
Steps == {"query", "find", "set", "base"}

(* "room": usage below the target, diff > 0.  "full": diff <= 0.  "silent": *)
(* Prometheus has no sample of the node.                                    *)
Loads == {"room", "full", "silent"}

SchedInit ==
  /\ InitStartedByMain
  /\ Cells!InitWith([n \in Nodes |-> FALSE])
  /\ load \in [Nodes -> Loads]
  /\ step = [a \in Actors |-> IF a \in Loops THEN "query" ELSE "base"]
  /\ diffs = [l \in Loops |-> <<>>]

(* Workloads come and go, and so do node exporters. *)
Drift(n) ==
  /\ \E new \in Loads \ {load[n]} : load' = [load EXCEPT ![n] = new]
  /\ UNCHANGED <<vars, cellVars, step, diffs>>

-----------------------------------------------------------------------------
(* The loop: Reconcile, one run of it between "reconcile" and "sleep". *)

(* Which of the nodes that have a diff have a positive one. *)
Reply(ld) == [n \in {m \in Nodes : ld[m] # "silent"} |-> ld[n] = "room"]

Query(l) ==
  /\ loop[l] = "reconcile"
  /\ step[l] = "query"
  /\ diffs' = [diffs EXCEPT ![l] = Reply(load)]
  /\ step' = [step EXCEPT ![l] = "find"]
  /\ UNCHANGED <<vars, load, cellVars>>

(* The error is only logged: the reconcile goes on with no diffs. *)
QueryFails(l) ==
  /\ loop[l] = "reconcile"
  /\ step[l] = "query"
  /\ diffs' = [diffs EXCEPT ![l] = <<>>]
  /\ step' = [step EXCEPT ![l] = "find"]
  /\ UNCHANGED <<vars, load, cellVars>>

(* Mutant of Roomy: the comparison is turned round. *)
NotRoomy(l) == {n \in DOMAIN diffs[l] : ~diffs[l][n]}

Roomy(l) == {n \in DOMAIN diffs[l] : diffs[l][n]}

(* A pick of a node with diff > 0: the first one in the order of the reply. *)
Picks(l) ==
  IF Roomy(l) = {} THEN {<<>>}
  ELSE {<<[node |-> n, value |-> TRUE]>> : n \in Roomy(l)}

(* findSchedulableNode returned "". *)
NoneExported(l) ==
  /\ step[l] = "find"
  /\ \A n \in Nodes : ~field[n]
  /\ \E writes \in Picks(l) : Cells!Intend(l, writes)
  /\ step' = [step EXCEPT ![l] = "set"]
  /\ UNCHANGED <<vars, load, diffs>>

(* Mutant of FullNode: the exhausted node is not withdrawn. *)
PickMore(l, current) ==
  /\ step[l] = "find"
  /\ field[current]
  /\ current \in DOMAIN diffs[l] \ Roomy(l)
  /\ \E writes \in Picks(l) : Cells!Intend(l, writes)
  /\ step' = [step EXCEPT ![l] = "set"]
  /\ UNCHANGED <<vars, load, diffs>>

(* findSchedulableNode returned a node (map order: any) with diff <= 0. *)
FullNode(l, current) ==
  /\ step[l] = "find"
  /\ field[current]
  /\ current \in DOMAIN diffs[l] \ Roomy(l)
  /\ \E writes \in Picks(l) :
       Cells!Intend(l, <<[node |-> current, value |-> FALSE]>> \o writes)
  /\ step' = [step EXCEPT ![l] = "set"]
  /\ UNCHANGED <<vars, load, diffs>>

(* findSchedulableNode returned a node with room, or one without a diff. *)
KeepNode(l, current) ==
  /\ step[l] = "find"
  /\ field[current]
  /\ current \notin DOMAIN diffs[l] \ Roomy(l)
  /\ step' = [step EXCEPT ![l] = "set"]
  /\ UNCHANGED <<vars, load, diffs, cellVars>>

SchedReconciled(l) ==
  /\ step[l] = "set"
  /\ Cells!Idle(l)
  /\ Reconciled(l)
  /\ step' = [step EXCEPT ![l] = "query"]
  /\ diffs' = [diffs EXCEPT ![l] = <<>>]
  /\ UNCHANGED <<load, cellVars>>

-----------------------------------------------------------------------------
(* The callers.  Stop is the base Stop, then Set(true) on every cell. *)

AllTrue(order) == [i \in DOMAIN order |-> [node |-> order[i], value |-> TRUE]]

(* Mutant of BaseStopReturns: Stop is the inherited one. *)
OnlyBaseStop(t) ==
  /\ op[t] = Stop
  /\ Return(t)
  /\ UNCHANGED schedVars

(* The base Stop returned: range over the map of cells, in any order. *)
BaseStopReturns(t) ==
  /\ op[t] = Stop
  /\ pc[t] = "return"
  /\ step[t] = "base"
  /\ step' = [step EXCEPT ![t] = "set"]
  /\ \E order \in SetToSeqs(Nodes) : Cells!Intend(t, AllTrue(order))
  /\ UNCHANGED <<vars, load, diffs>>

SchedStopReturns(t) ==
  /\ step[t] = "set"
  /\ Cells!Idle(t)
  /\ Return(t)
  /\ step' = [step EXCEPT ![t] = "base"]
  /\ UNCHANGED <<load, diffs, cellVars>>

StartReturns(t) ==
  /\ op[t] = Start
  /\ Return(t)
  /\ UNCHANGED schedVars

CallerStep(t) ==
  \/ /\ \/ \E cmd \in Commands : Call(t, cmd)
        \/ Lock(t)
        \/ Launch(t)
        \/ AlreadyLaunched(t)
        \/ Unlock(t)
     /\ UNCHANGED schedVars
  \/ StartReturns(t)
  \/ BaseStopReturns(t)
  \/ SchedStopReturns(t)

PollStep(l) ==
  \/ /\ \/ \E t \in Threads : Receive(l, t)
        \/ NoCommand(l)
        \/ Apply(l)
        \/ Wake(l)
     /\ UNCHANGED schedVars
  \/ SchedReconciled(l)

Choose(l) ==
  \/ NoneExported(l)
  \/ \E n \in Nodes : FullNode(l, n) \/ KeepNode(l, n)

SetStep(a) ==
  /\ Cells!SetGauge(a) \/ Cells!SetField(a)
  /\ UNCHANGED <<vars, load, step, diffs>>

SchedNext ==
  \/ \E t \in Threads : CallerStep(t)
  \/ \E l \in Loops : PollStep(l) \/ Query(l) \/ QueryFails(l) \/ Choose(l)
  \/ \E a \in Actors : SetStep(a)
  \/ \E n \in Nodes : Drift(n)

(* As in StrategyLoop, for the steps added here.  Prometheus does not fail  *)
(* for ever (strong fairness of Query), and the map iteration that looks    *)
(* for an exported node starts at a random one, so that every exported node *)
(* is found again and again (strong fairness of FullNode).                  *)
SchedFairness ==
  /\ \A t \in Threads :
       /\ SF_allVars(Lock(t) /\ UNCHANGED schedVars)
       /\ WF_allVars(/\ Launch(t) \/ AlreadyLaunched(t) \/ Unlock(t)
                     /\ UNCHANGED schedVars)
       /\ WF_allVars(StartReturns(t) \/ BaseStopReturns(t) \/ SchedStopReturns(t))
  /\ \A l \in Loops :
       /\ WF_allVars(PollStep(l) \/ Query(l) \/ QueryFails(l) \/ Choose(l))
       /\ SF_allVars(Query(l))
       /\ \A n \in Nodes : SF_allVars(FullNode(l, n))
  /\ \A a \in Actors : WF_allVars(SetStep(a))

SchedSpec == SchedInit /\ [][SchedNext]_allVars

SchedFairSpec == SchedSpec /\ SchedFairness

-----------------------------------------------------------------------------
(* Properties. *)

SchedTypeOK ==
  /\ TypeOK
  /\ Cells!TypeOK
  /\ load \in [Nodes -> Loads]
  /\ step \in [Actors -> Steps]
  /\ diffs \in [Loops -> UNION {[S -> BOOLEAN] : S \in SUBSET Nodes}]

(* Once the strategy is off and every request is answered, every node is    *)
(* exported, whatever reconciles and other requests ran during the Stop     *)
(* (schedulable.go Stop).                                                   *)
StoppedExportsAll ==
  initialized /\ Desired = Stop /\ (\A t \in Threads : pc[t] = "idle")
    => \A n \in Nodes : gauge[n] /\ field[n]

(* What a reconcile reads is what is exported, but for overlapping Sets.    *)
OnlyOverlapsTear == Cells!OnlyOverlapsTear

(* The loop's own Sets never withdraw a node without a diff that says the   *)
(* node is exhausted, and never export one without a diff that says it has  *)
(* room (schedulable.go Reconcile).                                         *)
SetsFollowDiffs ==
  \A l \in Loops : \A i \in DOMAIN plan[l] :
    LET w == plan[l][i] IN w.node \in DOMAIN diffs[l] /\ diffs[l][w.node] = w.value

Settled(ld) == load = ld /\ Desired = Start

(* With the strategy on and the load steady, the exports settle on nodes    *)
(* that are not full, and on one at least if a node has room:               *)
(* "Target-exporter picks one node schedulable := 1 where cpu_diff > 0 else *)
(* 0" (collab-diag.drawio).  A node that falls silent keeps its export.     *)
ExportSettles ==
  \A ld \in [Nodes -> Loads] :
    <>[]Settled(ld) =>
      <>[](/\ \A n \in Nodes : gauge[n] => ld[n] # "full"
           /\ (\E n \in Nodes : ld[n] = "room") => \E n \in Nodes : gauge[n])

NoStopCalled == \A t \in Threads : op[t] = Start

AtMostOneExported ==
  \A m, n \in Nodes : /\ gauge[m] /\ gauge[n] => m = n
                      /\ field[m] /\ field[n] => m = n

(* As long as nobody calls Stop, that one node is never joined by another,  *)
(* not even while it is being replaced, however many Starts are called,     *)
(* queries fail and loads change: the loop withdraws the gauge and the      *)
(* field of a full node before it picks the next (schedulable.go            *)
(* Reconcile, findSchedulableNode, orchestration.go Set).                   *)
OneExportUntilAStop == []NoStopCalled => []AtMostOneExported

(* "... picks one node": between reconciles of a strategy that is on and    *)
(* has no request to serve, at most one is exported.                        *)
OneNodeExported ==
  (\A l \in Loops : loop[l] = "sleep") /\ (\A t \in Threads : pc[t] = "idle")
    /\ Desired = Start
    => \A m, n \in Nodes : gauge[m] /\ gauge[n] => m = n

=============================================================================
