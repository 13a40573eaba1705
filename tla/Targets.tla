------------------------------ MODULE Targets ------------------------------
(***************************************************************************)
(* The CPU targets of the nodes: the handler of POST /targets (routes.go)   *)
(* and the reduceTargets strategy (reducetarget.go), which lowers the       *)
(* target of a node whose average usage is below it.  Both Set the same     *)
(* cells (ExportedCells).  The strategy's start/stop protocol is taken at   *)
(* the level of StrategySwitch, which StrategyLoop implements.              *)
(***************************************************************************)
EXTENDS Naturals, Sequences, SequencesExt, FiniteSets

CONSTANTS
  Posters,                 \* goroutines serving POST /targets
  Clients,                 \* goroutines serving PUT /reduce-targets
  Reducer,                 \* the strategy's loop
  Nodes,
  Unknown,                 \* a node name that is not in the configuration
  Levels,                  \* targets and usages, in percent
  Setpoints                \* the configured sequence of set points

ASSUME TargetsAssumption ==
  /\ Reducer \notin Posters
  /\ IsFiniteSet(Nodes)
  /\ Unknown \notin Nodes
  /\ Levels \subseteq Nat
  /\ Setpoints \in Seq(Levels)

VARIABLES
  gauge, field, plan, half, torn,
  answer,                  \* per poster: where its request is
  phase, wants, desired, working,
  step, todo,              \* the reconcile: control, and the nodes it has left
  usage                    \* the average usages, as of its last query

Cells == INSTANCE ExportedCells WITH
           Actors <- Posters \cup {Reducer}, Values <- Levels
Switch == INSTANCE StrategySwitch

cellVars == <<gauge, field, plan, half, torn>>
switchVars == <<phase, wants, desired, working>>
reduceVars == <<step, todo, usage>>
vars == <<cellVars, switchVars, reduceVars, answer>>

Init ==
  /\ \E v \in [Nodes -> Levels] : Cells!InitWith(v)
  /\ answer = [p \in Posters |-> "none"]
  /\ usage \in [Nodes -> Levels]
  /\ Switch!Init
  /\ \A c \in Clients : phase[c] = "idle"
  /\ step = "query"
  /\ todo = <<>>

-----------------------------------------------------------------------------
(* POST /targets. *)

(* A map of nodes to levels is written in the order of its iteration: any.  *)
Writes(request) ==
  {[i \in DOMAIN order |-> [node |-> order[i], value |-> request[order[i]]]] :
     order \in SetToSeqs(DOMAIN request)}

Requests == UNION {[S -> Levels] : S \in SUBSET (Nodes \cup {Unknown})}

(* checkMissingNodes found none. *)
PostAccepted(p, request) ==
  /\ answer[p] \in {"none", "success", "rejected"}
  /\ DOMAIN request \subseteq Nodes
  /\ \E writes \in Writes(request) : Cells!Intend(p, writes)
  /\ answer' = [answer EXCEPT ![p] = "writing"]
  /\ UNCHANGED <<switchVars, reduceVars>>

(* One missing node fails the whole request. *)
PostRejected(p, request) ==
  /\ answer[p] \in {"none", "success", "rejected"}
  /\ ~(DOMAIN request \subseteq Nodes)
  /\ answer' = [answer EXCEPT ![p] = "rejected"]
  /\ UNCHANGED <<cellVars, switchVars, reduceVars>>

PostAnswered(p) ==
  /\ answer[p] = "writing"
  /\ Cells!Idle(p)
  /\ answer' = [answer EXCEPT ![p] = "success"]
  /\ UNCHANGED <<cellVars, switchVars, reduceVars>>

-----------------------------------------------------------------------------
(* The reducer: Reconcile of reducetarget.go. *)

Begin ==
  /\ Switch!BeginWork
  /\ UNCHANGED <<cellVars, reduceVars, answer>>

(* The average usages of the nodes that have samples, and an order of the   *)
(* iteration over these; the other nodes are passed over.                   *)
Query ==
  /\ working
  /\ step = "query"
  /\ usage' \in [Nodes -> Levels]
  /\ \E sampled \in SUBSET Nodes : todo' \in SetToSeqs(sampled)
  /\ step' = "compare"
  /\ UNCHANGED <<cellVars, switchVars, answer>>

(* An error is returned to the loop, which logs it. *)
QueryFails ==
  /\ step = "query"
  /\ Switch!FinishWork
  /\ UNCHANGED <<cellVars, reduceVars, answer>>

(* The first set point of the list that is below the target, if any. *)
LowerSetpoint(target) ==
  LET lower == {i \in DOMAIN Setpoints : Setpoints[i] < target}
  IN  IF lower = {} THEN target
      ELSE Setpoints[CHOOSE i \in lower : \A j \in lower : i <= j]

AboveUsage(n) == usage[n] < field[n]

Skip ==
  /\ step = "compare"
  /\ todo # <<>>
  /\ ~AboveUsage(Head(todo))
  /\ todo' = Tail(todo)
  /\ UNCHANGED <<cellVars, switchVars, step, usage, answer>>

(* avgUsage.Data < target.GetTarget(): the first read of the target. *)
Compare ==
  /\ step = "compare"
  /\ todo # <<>>
  /\ AboveUsage(Head(todo))
  /\ step' = "lower"
  /\ UNCHANGED <<cellVars, switchVars, todo, usage, answer>>

(* Mutant of Lower: the set point list is ignored. *)
LowerToSame ==
  /\ step = "lower"
  /\ Cells!Intend(Reducer, <<[node |-> Head(todo), value |-> field[Head(todo)]]>>)
  /\ step' = "set"
  /\ UNCHANGED <<switchVars, todo, usage, answer>>

(* target.Set(getLowerSetpoint(setpoints, target.GetTarget())): the second. *)
Lower ==
  /\ step = "lower"
  /\ Cells!Intend(Reducer,
       <<[node |-> Head(todo), value |-> LowerSetpoint(field[Head(todo)])]>>)
  /\ step' = "set"
  /\ UNCHANGED <<switchVars, todo, usage, answer>>

(* Mutant of Lowered: the loop goes on while the Set is still running. *)
LoweredEarly ==
  /\ step = "set"
  /\ todo' = Tail(todo)
  /\ step' = "compare"
  /\ UNCHANGED <<cellVars, switchVars, usage, answer>>

Lowered ==
  /\ step = "set"
  /\ Cells!Idle(Reducer)
  /\ todo' = Tail(todo)
  /\ step' = "compare"
  /\ UNCHANGED <<cellVars, switchVars, usage, answer>>

Finish ==
  /\ step = "compare"
  /\ todo = <<>>
  /\ Switch!FinishWork
  /\ step' = "query"
  /\ UNCHANGED <<cellVars, todo, usage, answer>>

-----------------------------------------------------------------------------
(* The requests that switch the strategy, and the Sets. *)

SwitchStep ==
  /\ \E c \in Clients :
       \/ \E cmd \in Switch!Commands : Switch!Invoke(c, cmd)
       \/ Switch!TakeEffect(c)
       \/ Switch!Answer(c)
  /\ UNCHANGED <<cellVars, reduceVars, answer>>

SetStep(a) ==
  /\ Cells!SetGauge(a) \/ Cells!SetField(a)
  /\ UNCHANGED <<switchVars, reduceVars, answer>>

ReduceStep ==
  \/ Begin
  \/ Query
  \/ QueryFails
  \/ Skip
  \/ Compare
  \/ Lower
  \/ Lowered
  \/ Finish

PostStep(p) ==
  \/ \E request \in Requests : PostAccepted(p, request) \/ PostRejected(p, request)
  \/ PostAnswered(p)

Next ==
  \/ \E p \in Posters : PostStep(p)
  \/ ReduceStep
  \/ SwitchStep
  \/ \E a \in Posters \cup {Reducer} : SetStep(a)

(* The loop polls every second, a Set is two assignments, and a query       *)
(* answers for all nodes again and again.                                   *)
Fairness ==
  /\ WF_vars(ReduceStep)
  /\ SF_vars(Query /\ ToSet(todo') = Nodes)
  /\ \A a \in Posters \cup {Reducer} : WF_vars(SetStep(a))

Spec == Init /\ [][Next]_vars

FairSpec == Spec /\ Fairness

-----------------------------------------------------------------------------
(* Properties. *)

TypeOK ==
  /\ Cells!TypeOK
  /\ answer \in [Posters -> {"none", "writing", "success", "rejected"}]
  /\ usage \in [Nodes -> Levels]
  /\ step \in {"query", "compare", "lower", "set"}
  /\ todo \in Seq(Nodes)

(* Once a Stop of the strategy has returned, the reducer has no Set left to *)
(* make (reducetarget.go Stop).                                             *)
StoppedReducerIsQuiet == desired = Switch!Stop /\ ~working => Cells!Idle(Reducer)

(* The targets the strategies read are those exported, but for overlaps.    *)
OnlyOverlapsTear == Cells!OnlyOverlapsTear

(* With the strategy on, steady usages and no more requests, the targets of *)
(* underused nodes come down until no set point is below them               *)
(* (reducetarget.go Reconcile, getLowerSetpoint).                           *)
UnderusedComesDown ==
  \A u \in [Nodes -> Levels] :
    <>[](usage = u /\ desired = Switch!Start /\ \A p \in Posters : answer[p] # "writing")
      => <>[](\A n \in Nodes : u[n] >= field[n] \/ LowerSetpoint(field[n]) = field[n])

=============================================================================
