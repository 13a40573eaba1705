--------------------- MODULE SchedulableStrategy_proofs ---------------------
(***************************************************************************)
(* Theorems about SchedulableStrategy for any number of callers, loops and  *)
(* nodes.  A step of the strategy is a step of the start/stop protocol and  *)
(* a step of the cells, or leaves them alone; what is proved of these holds *)
(* here too.  The last section is about runs without a Stop, in which one   *)
(* node at most is exported.                                                *)
(***************************************************************************)
EXTENDS SchedulableStrategy, StrategyLoop_proofs, FiniteSetTheorems

CellsP == INSTANCE ExportedCells_proofs WITH Values <- BOOLEAN

(* A loop Sets in the last part of a reconcile, a caller after a base Stop. *)
LoopPlans ==
  \A l \in Loops :
    /\ step[l] \in {"query", "find", "set"}
    /\ loop[l] # "reconcile" => step[l] = "query"
    /\ step[l] # "set" => plan[l] = <<>>

CallerPlans ==
  \A t \in Threads :
    /\ step[t] \in {"base", "set"}
    /\ step[t] = "set" => pc[t] = "return" /\ op[t] = Stop
    /\ step[t] = "base" => plan[t] = <<>>
    /\ \A i \in DOMAIN plan[t] : plan[t][i].value = TRUE

SchedTypes ==
  /\ Cells!TypeOK
  /\ load \in [Nodes -> Loads]
  /\ step \in [Actors -> Steps]
  /\ diffs \in [Loops -> UNION {[S -> BOOLEAN] : S \in SUBSET Nodes}]

Base == Inv /\ SchedTypes /\ LoopPlans /\ CallerPlans

(* Sets a loop may make, given the diffs it has read.                       *)
FollowsDiffs(l, writes) ==
  \A i \in DOMAIN writes :
    writes[i].node \in DOMAIN diffs[l] /\ diffs[l][writes[i].node] = writes[i].value

(* Every step is one of the start/stop protocol, or leaves it alone.        *)
LEMMA LoopStepOrStutter == [SchedNext]_allVars => [Next]_vars
  BY DEF SchedNext, CallerStep, PollStep, StartReturns, BaseStopReturns, SchedStopReturns,
         SchedReconciled, Query, QueryFails, Choose, NoneExported, FullNode, KeepNode,
         SetStep, Drift, Next, ThreadStep, LoopStep, allVars

(* An order of the nodes is a sequence in which each of them occurs.        *)
LEMMA Orders ==
  ASSUME NEW order \in SetToSeqs(Nodes)
  PROVE  /\ order \in Seq(Nodes)
         /\ \A n \in Nodes : \E i \in DOMAIN order : order[i] = n
<1> DEFINE D == 1..Cardinality(Nodes)
<1>1. Cardinality(Nodes) \in Nat /\ IsFiniteSet(Nodes)
  BY SchedAssumption, FS_CardinalityType
<1>2. order \in [D -> Nodes] /\ \A i, j \in D : i # j => order[i] # order[j]
  BY DEF SetToSeqs
<1>3. order \in Injection(D, Nodes)
  BY <1>2 DEF Injection, IsInjective
<1>4. IsFiniteSet(D) /\ Cardinality(D) = Cardinality(Nodes)
  BY <1>1, FS_Interval, SMT
<1>5. order \in Surjection(D, Nodes)
  BY <1>1, <1>3, <1>4, FS_Injection
<1>6. order \in Seq(Nodes) /\ DOMAIN order = D
  BY <1>1, <1>2
<1> QED
  BY <1>5, <1>6 DEF Surjection

(* The Sets a goroutine intends are writes of nodes.                        *)
LEMMA PicksAreWrites ==
  ASSUME Base, NEW l \in Loops, NEW writes \in Picks(l)
  PROVE  /\ writes \in Seq(Cells!Write)
         /\ \A i \in DOMAIN writes :
              writes[i].node \in Roomy(l) /\ writes[i].value = TRUE
<1>1. diffs[l] \in UNION {[S -> BOOLEAN] : S \in SUBSET Nodes}
  BY DEF Base, SchedTypes
<1>2. Roomy(l) \subseteq Nodes
  BY <1>1 DEF Roomy
<1>3. CASE writes = <<>>
  BY <1>3
<1>4. ASSUME NEW n \in Roomy(l), writes = <<[node |-> n, value |-> TRUE]>>
      PROVE  /\ writes \in Seq(Cells!Write)
             /\ \A i \in DOMAIN writes :
                  writes[i].node \in Roomy(l) /\ writes[i].value = TRUE
  <2>1. [node |-> n, value |-> TRUE] \in Cells!Write
    BY <1>2, <1>4 DEF Cells!Write
  <2> QED
    BY <1>4, <2>1
<1> QED
  BY <1>3, <1>4 DEF Picks

LEMMA AllTrueAreWrites ==
  ASSUME NEW order \in Seq(Nodes)
  PROVE  /\ AllTrue(order) \in Seq(Cells!Write)
         /\ DOMAIN AllTrue(order) = DOMAIN order
         /\ \A i \in DOMAIN order :
              AllTrue(order)[i].node = order[i] /\ AllTrue(order)[i].value = TRUE
<1>1. \A i \in DOMAIN order : [node |-> order[i], value |-> TRUE] \in Cells!Write
  BY DEF Cells!Write
<1> QED
  BY <1>1 DEF AllTrue

(* The Sets of a reconcile that found no exported node, or a full one.      *)
LEMMA ChoiceOfWrites ==
  ASSUME Base, NEW l \in Loops, NoneExported(l) \/ \E n \in Nodes : FullNode(l, n)
  PROVE  \E writes \in Seq(Cells!Write) :
           /\ Cells!Intend(l, writes)
           /\ FollowsDiffs(l, writes)
<1>0. diffs[l] \in UNION {[S -> BOOLEAN] : S \in SUBSET Nodes}
  BY DEF Base, SchedTypes
<1>1. \A n \in DOMAIN diffs[l] : n \in Nodes /\ (diffs[l][n] = TRUE <=> n \in Roomy(l))
                                 /\ (diffs[l][n] = FALSE <=> n \notin Roomy(l))
  BY <1>0 DEF Roomy
<1>2. Roomy(l) \subseteq DOMAIN diffs[l]
  BY DEF Roomy
<1>3. CASE NoneExported(l)
  <2>1. PICK writes \in Picks(l) : Cells!Intend(l, writes)
    BY <1>3 DEF NoneExported
  <2>2. writes \in Seq(Cells!Write)
        /\ \A i \in DOMAIN writes : writes[i].node \in Roomy(l) /\ writes[i].value = TRUE
    BY <2>1, PicksAreWrites
  <2>3. FollowsDiffs(l, writes)
    BY <1>1, <1>2, <2>2 DEF FollowsDiffs
  <2> QED
    BY <2>1, <2>2, <2>3
<1>4. ASSUME NEW n \in Nodes, FullNode(l, n)
      PROVE  \E writes \in Seq(Cells!Write) :
               /\ Cells!Intend(l, writes)
               /\ FollowsDiffs(l, writes)
  <2> DEFINE off == [node |-> n, value |-> FALSE]
  <2>1. PICK writes \in Picks(l) : Cells!Intend(l, <<off>> \o writes)
    BY <1>4 DEF FullNode
  <2>2. off \in Cells!Write /\ n \in DOMAIN diffs[l] \ Roomy(l)
    BY <1>4 DEF FullNode, Cells!Write
  <2>3. writes \in Seq(Cells!Write)
        /\ \A i \in DOMAIN writes : writes[i].node \in Roomy(l) /\ writes[i].value = TRUE
    BY <2>1, PicksAreWrites
  <2> HIDE DEF off
  <2>4. /\ <<off>> \o writes \in Seq(Cells!Write)
        /\ \A i \in DOMAIN (<<off>> \o writes) :
             (<<off>> \o writes)[i] = off \/ \E j \in DOMAIN writes : (<<off>> \o writes)[i] = writes[j]
    BY <2>2, <2>3
  <2>5. off.node = n /\ off.value = FALSE
    BY DEF off
  <2>6. n \in DOMAIN diffs[l] /\ diffs[l][n] = FALSE
    BY <1>1, <2>2
  <2>7. FollowsDiffs(l, <<off>> \o writes)
    <3>1. \A j \in DOMAIN writes : /\ writes[j].node \in DOMAIN diffs[l]
                                   /\ diffs[l][writes[j].node] = writes[j].value
      BY <1>1, <1>2, <2>3
    <3>2. ASSUME NEW w, w = off \/ \E j \in DOMAIN writes : w = writes[j]
          PROVE  w.node \in DOMAIN diffs[l] /\ diffs[l][w.node] = w.value
      BY <2>5, <2>6, <3>1, <3>2
    <3> QED
      BY <2>4, <3>2 DEF FollowsDiffs
  <2> QED
    BY <2>1, <2>4, <2>7
<1> QED
  BY <1>3, <1>4

(* Every step is one of the cells, or leaves them alone.                    *)
LEMMA CellsStepOrStutter ==
  ASSUME Base, [SchedNext]_allVars
  PROVE  [CellsP!Next]_CellsP!vars
<1> USE DEF cellVars, CellsP!vars
<1>1. ASSUME NEW a \in Actors, NEW writes \in Seq(Cells!Write), Cells!Intend(a, writes)
      PROVE  CellsP!Next
  <2>1. CellsP!Intend(a, writes) /\ writes \in Seq(CellsP!Write)
    BY <1>1 DEF Cells!Intend, CellsP!Intend, Cells!Idle, CellsP!Idle, Cells!Write, CellsP!Write
  <2> QED
    BY <2>1 DEF CellsP!Next
<1>2. ASSUME NEW t \in Threads, CallerStep(t) PROVE [CellsP!Next]_CellsP!vars
  <2>1. ASSUME BaseStopReturns(t) PROVE CellsP!Next
    <3>1. PICK order \in SetToSeqs(Nodes) : Cells!Intend(t, AllTrue(order))
      BY <2>1 DEF BaseStopReturns
    <3> QED
      BY <1>1, <3>1, Orders, AllTrueAreWrites DEF Actors
  <2> QED
    BY <1>2, <2>1 DEF CallerStep, StartReturns, SchedStopReturns, schedVars
<1>3. ASSUME NEW l \in Loops, PollStep(l) \/ Query(l) \/ QueryFails(l) \/ Choose(l)
      PROVE  [CellsP!Next]_CellsP!vars
  <2>1. ASSUME NoneExported(l) \/ \E n \in Nodes : FullNode(l, n) PROVE CellsP!Next
    BY <1>1, <2>1, ChoiceOfWrites DEF Actors
  <2> QED
    BY <1>3, <2>1 DEF PollStep, SchedReconciled, Query, QueryFails, Choose, KeepNode, schedVars
<1>4. ASSUME NEW a \in Actors, SetStep(a) PROVE CellsP!Next
  <2>1. CellsP!SetGauge(a) \/ CellsP!SetField(a)
    BY <1>4 DEF SetStep, Cells!SetGauge, CellsP!SetGauge, Cells!SetField, CellsP!SetField,
                Cells!Idle, CellsP!Idle, Cells!Current, CellsP!Current,
                Cells!Halfway, CellsP!Halfway
  <2> QED
    BY <2>1 DEF CellsP!Next
<1>5. CASE (\E n \in Nodes : Drift(n)) \/ UNCHANGED allVars
  BY <1>5 DEF Drift, allVars, schedVars
<1> QED
  BY <1>2, <1>3, <1>4, <1>5 DEF SchedNext

-----------------------------------------------------------------------------
(* What a goroutine's own Set does to its plan. *)
LEMMA SetStepPlans ==
  ASSUME SchedTypes, NEW a \in Actors, SetStep(a)
  PROVE  /\ plan[a] # <<>> /\ plan[a] \in Seq(Cells!Write)
         /\ plan' \in [Actors -> Seq(Cells!Write)]
         /\ \A b \in Actors : b # a => plan'[b] = plan[b]
         /\ plan'[a] = plan[a] \/ plan'[a] = Tail(plan[a])
<1>1. plan \in [Actors -> Seq(Cells!Write)] /\ (half[a] => plan[a] # <<>>)
  BY DEF SchedTypes, Cells!TypeOK
<1>2. CASE Cells!SetGauge(a)
  BY <1>1, <1>2 DEF Cells!SetGauge, Cells!Idle
<1>3. CASE Cells!SetField(a)
  BY <1>1, <1>3 DEF Cells!SetField
<1> QED
  BY <1>2, <1>3 DEF SetStep

(* Loops and callers make Sets only where the code makes them.              *)
LEMMA PlansPreserved ==
  ASSUME Base, [SchedNext]_allVars
  PROVE  LoopPlans' /\ CallerPlans'
<1>0. /\ pc \in [Threads -> ThreadStates] /\ op \in [Threads -> Commands]
      /\ loop \in [Loops -> LoopStates]
      /\ plan \in [Actors -> Seq(Cells!Write)]
      /\ step \in [Actors -> Steps]
      /\ Threads \cap Loops = {}
      /\ LoopPlans /\ CallerPlans /\ SchedTypes
  BY SchedAssumption DEF Base, Inv, TypeOK, SchedTypes, Cells!TypeOK
<1>1. CASE UNCHANGED allVars
  BY <1>0, <1>1 DEF allVars, vars, schedVars, LoopPlans, CallerPlans
<1>2. ASSUME NEW t \in Threads,
             (\E cmd \in Commands : Call(t, cmd)) \/ Lock(t) \/ Launch(t)
               \/ AlreadyLaunched(t) \/ Unlock(t),
             UNCHANGED schedVars
      PROVE  LoopPlans' /\ CallerPlans'
  <2>1. /\ \A l \in Loops : loop'[l] = "reconcile" <=> loop[l] = "reconcile"
        /\ \A u \in Threads : pc[u] = "return" => pc'[u] = "return" /\ op'[u] = op[u]
    BY <1>0, <1>2 DEF Call, Lock, Launch, AlreadyLaunched, Unlock, Goto, loopVars
  <2> QED
    BY <1>0, <1>2, <2>1 DEF LoopPlans, CallerPlans, schedVars
<1>3. ASSUME NEW t \in Threads, StartReturns(t) PROVE LoopPlans' /\ CallerPlans'
  BY <1>0, <1>3 DEF StartReturns, Return, Goto, loopVars, schedVars, LoopPlans, CallerPlans,
                    Start, Stop
<1>4. ASSUME NEW t \in Threads, BaseStopReturns(t) PROVE LoopPlans' /\ CallerPlans'
  <2>1. PICK order \in SetToSeqs(Nodes) : Cells!Intend(t, AllTrue(order))
    BY <1>4 DEF BaseStopReturns
  <2>2. order \in Seq(Nodes)
    BY <2>1, Orders
  <2>3. \A i \in DOMAIN AllTrue(order) : AllTrue(order)[i].value = TRUE
    BY <2>2, AllTrueAreWrites
  <2>4. /\ plan'[t] = AllTrue(order)
        /\ \A b \in Actors : b # t => plan'[b] = plan[b] /\ step'[b] = step[b]
        /\ step'[t] = "set" /\ pc[t] = "return" /\ op[t] = Stop
        /\ UNCHANGED vars
    BY <1>0, <1>4, <2>1 DEF BaseStopReturns, Cells!Intend, Actors
  <2> QED
    BY <1>0, <2>3, <2>4 DEF LoopPlans, CallerPlans, vars, Actors
<1>5. ASSUME NEW t \in Threads, SchedStopReturns(t) PROVE LoopPlans' /\ CallerPlans'
  <2>1. /\ plan' = plan /\ plan[t] = <<>>
        /\ \A b \in Actors : step'[b] = IF b = t THEN "base" ELSE step[b]
        /\ UNCHANGED <<loop, op>>
        /\ \A u \in Threads : u # t => pc'[u] = pc[u]
    BY <1>0, <1>5 DEF SchedStopReturns, Return, Goto, loopVars, cellVars, Cells!Idle
  <2> QED
    BY <1>0, <2>1 DEF LoopPlans, CallerPlans, Actors
<1>6. ASSUME NEW l \in Loops, UNCHANGED schedVars,
             (\E t \in Threads : Receive(l, t)) \/ NoCommand(l) \/ Apply(l) \/ Wake(l)
      PROVE  LoopPlans' /\ CallerPlans'
  <2>1. /\ \A k \in Loops : loop[k] = "reconcile" => loop'[k] = "reconcile"
        /\ \A u \in Threads : pc[u] = "return" => pc'[u] = "return" /\ op'[u] = op[u]
    BY <1>0, <1>6 DEF Receive, NoCommand, Apply, Wake, Goto, LoopGoto, callVars
  <2> QED
    BY <1>0, <1>6, <2>1 DEF LoopPlans, CallerPlans, schedVars
<1>7. ASSUME NEW l \in Loops, SchedReconciled(l) PROVE LoopPlans' /\ CallerPlans'
  <2>1. /\ plan' = plan /\ plan[l] = <<>>
        /\ \A b \in Actors : step'[b] = IF b = l THEN "query" ELSE step[b]
        /\ UNCHANGED <<pc, op>>
        /\ \A k \in Loops : k # l => loop'[k] = loop[k]
    BY <1>0, <1>7 DEF SchedReconciled, Reconciled, LoopGoto, callVars, cellVars, Cells!Idle
  <2> QED
    BY <1>0, <2>1 DEF LoopPlans, CallerPlans, Actors
<1>8. ASSUME NEW l \in Loops, Query(l) \/ QueryFails(l) PROVE LoopPlans' /\ CallerPlans'
  <2>1. /\ UNCHANGED <<vars, plan>> /\ loop[l] = "reconcile" /\ step[l] = "query"
        /\ \A b \in Actors : step'[b] = IF b = l THEN "find" ELSE step[b]
    BY <1>0, <1>8 DEF Query, QueryFails, cellVars
  <2> QED
    BY <1>0, <2>1 DEF LoopPlans, CallerPlans, Actors, vars
<1>9. ASSUME NEW l \in Loops, Choose(l) PROVE LoopPlans' /\ CallerPlans'
  <2>1. /\ UNCHANGED vars /\ step[l] = "find"
        /\ \A b \in Actors : step'[b] = IF b = l THEN "set" ELSE step[b]
        /\ \A b \in Actors : b # l => plan'[b] = plan[b]
    BY <1>0, <1>9 DEF Choose, NoneExported, FullNode, KeepNode, cellVars, Cells!Intend
  <2>2. loop[l] = "reconcile"
    BY <1>0, <2>1 DEF LoopPlans
  <2> QED
    BY <1>0, <2>1, <2>2 DEF LoopPlans, CallerPlans, Actors, vars
<1>10. ASSUME NEW a \in Actors, SetStep(a) PROVE LoopPlans' /\ CallerPlans'
  <2>1. UNCHANGED <<vars, step>>
    BY <1>10 DEF SetStep
  <2>2. /\ plan[a] # <<>> /\ plan[a] \in Seq(Cells!Write)
        /\ \A b \in Actors : b # a => plan'[b] = plan[b]
        /\ plan'[a] = plan[a] \/ plan'[a] = Tail(plan[a])
    BY <1>0, <1>10, SetStepPlans
  <2>3. LoopPlans'
    BY <1>0, <2>1, <2>2 DEF LoopPlans, Actors, vars
  <2>4. \A i \in DOMAIN Tail(plan[a]) : i + 1 \in DOMAIN plan[a] /\ Tail(plan[a])[i] = plan[a][i+1]
    BY <2>2
  <2>5. CallerPlans'
    <3> SUFFICES ASSUME NEW t \in Threads, NEW i \in DOMAIN plan'[t]
                 PROVE  plan'[t][i].value = TRUE
      BY <1>0, <2>1, <2>2 DEF CallerPlans, Actors, vars
    <3>1. \A j \in DOMAIN plan[t] : plan[t][j].value = TRUE
      BY <1>0 DEF CallerPlans
    <3>2. CASE t = a /\ plan'[a] = Tail(plan[a])
      BY <2>4, <3>1, <3>2
    <3> QED
      BY <2>2, <3>1, <3>2 DEF Actors
  <2> QED
    BY <2>3, <2>5
<1>11. ASSUME NEW n \in Nodes, Drift(n) PROVE LoopPlans' /\ CallerPlans'
  BY <1>0, <1>11 DEF Drift, vars, cellVars, LoopPlans, CallerPlans
<1> QED
  BY <1>1, <1>2, <1>3, <1>4, <1>5, <1>6, <1>7, <1>8, <1>9, <1>10, <1>11
  DEF SchedNext, CallerStep, PollStep

(* The variables added here keep their types.                               *)
LEMMA TypesPreserved ==
  ASSUME Base, CellsP!CellInv, [SchedNext]_allVars
  PROVE  SchedTypes' /\ CellsP!CellInv'
<1>1. CellsP!CellInv'
  BY CellsStepOrStutter, CellsP!NextCellInv
<1>2. Cells!TypeOK'
  BY <1>1 DEF CellsP!CellInv, CellsP!TypeOK, Cells!TypeOK, CellsP!Write, Cells!Write
<1>3. SchedTypes
  BY DEF Base
<1>4. load' \in [Nodes -> Loads]
  BY <1>3 DEF SchedTypes, SchedNext, CallerStep, PollStep, StartReturns, BaseStopReturns,
     SchedStopReturns, SchedReconciled, Query, QueryFails, Choose, NoneExported, FullNode,
     KeepNode, SetStep, Drift, allVars, schedVars
<1>5. step' \in [Actors -> Steps]
  BY <1>3 DEF SchedTypes, SchedNext, CallerStep, PollStep, StartReturns, BaseStopReturns,
     SchedStopReturns, SchedReconciled, Query, QueryFails, Choose, NoneExported, FullNode,
     KeepNode, SetStep, Drift, allVars, schedVars, Steps
<1>6. diffs' \in [Loops -> UNION {[S -> BOOLEAN] : S \in SUBSET Nodes}]
  <2> DEFINE D == UNION {[S -> BOOLEAN] : S \in SUBSET Nodes}
  <2>1. diffs \in [Loops -> D]
    BY <1>3 DEF SchedTypes
  <2>2. <<>> \in D
    <3>1. <<>> \in [{} -> BOOLEAN]
      OBVIOUS
    <3> QED
      BY <3>1
  <2>3. Reply(load) \in D
    <3>1. Reply(load) \in [{m \in Nodes : load[m] # "silent"} -> BOOLEAN]
      BY DEF Reply
    <3> QED
      BY <3>1
  <2> HIDE DEF D
  <2>4. \/ diffs' = diffs
        \/ \E l \in Loops : \/ diffs' = [diffs EXCEPT ![l] = <<>>]
                            \/ diffs' = [diffs EXCEPT ![l] = Reply(load)]
    BY DEF SchedNext, CallerStep, PollStep, StartReturns, BaseStopReturns,
     SchedStopReturns, SchedReconciled, Query, QueryFails, Choose, NoneExported, FullNode,
     KeepNode, SetStep, Drift, allVars, schedVars
  <2>5. diffs' \in [Loops -> D]
    BY <2>1, <2>2, <2>3, <2>4
  <2> QED
    BY <2>5 DEF D
<1> QED
  BY <1>1, <1>2, <1>4, <1>5, <1>6 DEF SchedTypes

(* A loop's plan follows the diffs it read, from the choice to the last Set. *)
LEMMA FollowPreserved ==
  ASSUME Base, Base', SetsFollowDiffs, [SchedNext]_allVars
  PROVE  SetsFollowDiffs'
<1>0. /\ step \in [Actors -> Steps] /\ LoopPlans /\ LoopPlans' /\ CallerPlans /\ SchedTypes
      /\ diffs \in [Loops -> UNION {[S -> BOOLEAN] : S \in SUBSET Nodes}]
      /\ Threads \cap Loops = {}
  BY SchedAssumption DEF Base, SchedTypes
<1> SUFFICES ASSUME NEW k \in Loops PROVE FollowsDiffs(k, plan[k])'
  BY DEF SetsFollowDiffs, FollowsDiffs
<1>1. FollowsDiffs(k, plan[k])
  BY DEF SetsFollowDiffs, FollowsDiffs
<1>2. CASE UNCHANGED <<plan, diffs>>
  BY <1>1, <1>2 DEF FollowsDiffs
<1>3. CASE plan'[k] = <<>>
  BY <1>3 DEF FollowsDiffs
<1>4. ASSUME NEW l \in Loops, NoneExported(l) \/ \E n \in Nodes : FullNode(l, n)
      PROVE  FollowsDiffs(k, plan[k])'
  <2>1. PICK writes \in Seq(Cells!Write) : Cells!Intend(l, writes) /\ FollowsDiffs(l, writes)
    BY <1>4, ChoiceOfWrites
  <2>2. diffs' = diffs
    BY <1>4 DEF NoneExported, FullNode
  <2>3. plan \in [Actors -> Seq(Cells!Write)]
    BY <1>0 DEF SchedTypes, Cells!TypeOK
  <2>4. plan'[k] = IF k = l THEN writes ELSE plan[k]
    BY <2>1, <2>3 DEF Cells!Intend, Actors
  <2> QED
    BY <1>1, <2>1, <2>2, <2>4 DEF FollowsDiffs
<1>5. ASSUME NEW a \in Actors, SetStep(a) PROVE FollowsDiffs(k, plan[k])'
  <2>1. /\ plan[a] # <<>> /\ plan[a] \in Seq(Cells!Write)
        /\ \A b \in Actors : b # a => plan'[b] = plan[b]
        /\ plan'[a] = plan[a] \/ plan'[a] = Tail(plan[a])
    BY <1>0, <1>5, SetStepPlans
  <2>2. diffs' = diffs
    BY <1>5 DEF SetStep
  <2>3. \A i \in DOMAIN Tail(plan[a]) : i + 1 \in DOMAIN plan[a] /\ Tail(plan[a])[i] = plan[a][i+1]
    BY <2>1
  <2>4. CASE k = a /\ plan'[a] = Tail(plan[a])
    BY <1>1, <2>2, <2>3, <2>4 DEF FollowsDiffs
  <2>5. CASE plan'[k] = plan[k]
    BY <1>1, <2>2, <2>5 DEF FollowsDiffs
  <2> QED
    BY <2>1, <2>4, <2>5 DEF Actors
<1>6. ASSUME NEW l \in Loops, SchedReconciled(l) \/ Query(l) \/ QueryFails(l)
      PROVE  FollowsDiffs(k, plan[k])'
  <2>1. plan[l] = <<>> /\ plan' = plan /\ \A j \in Loops : j # l => diffs'[j] = diffs[j]
    BY <1>0, <1>6 DEF SchedReconciled, Query, QueryFails, cellVars, Cells!Idle, LoopPlans
  <2> QED
    BY <1>1, <1>3, <2>1 DEF FollowsDiffs
<1>7. ASSUME NEW t \in Threads, BaseStopReturns(t) PROVE FollowsDiffs(k, plan[k])'
  <2>1. plan'[k] = plan[k] /\ diffs' = diffs
    BY <1>0, <1>7 DEF BaseStopReturns, Cells!Intend, SchedTypes, Cells!TypeOK, Actors
  <2> QED
    BY <1>1, <2>1 DEF FollowsDiffs
<1> QED
  BY <1>2, <1>4, <1>5, <1>6, <1>7
  DEF SchedNext, CallerStep, PollStep, StartReturns, SchedStopReturns, Choose, KeepNode,
      Drift, allVars, schedVars, cellVars

-----------------------------------------------------------------------------
(* What a strategy that is off exports.  While it is off the only Sets are  *)
(* those of Stops, all TRUE, and each node is exported already or there is  *)
(* a Stop that has taken effect and still has to Set it.                    *)

Exported(n) == gauge[n] = TRUE /\ field[n] = TRUE

(* t's Stop has taken effect and is still to Set node n, or half has.       *)
Exporting(t, n) ==
  \/ pc[t] \in {"unlock", "return"} /\ op[t] = Stop /\ step[t] = "base"
  \/ step[t] = "set" /\ \E i \in DOMAIN plan[t] :
                           /\ plan[t][i].node = n
                           /\ i = 1 /\ half[t] => gauge[n] = TRUE

(* A Start, perhaps the first one, is waiting for the loop to receive it.   *)
Starting == \E t \in Threads : pc[t] = "send" /\ op[t] = Start

Exports ==
  initialized /\ Desired = Stop =>
    Starting \/ \A n \in Nodes : Exported(n) \/ \E t \in Threads : Exporting(t, n)

(* While a loop reconciles, the last command in effect is Start.            *)
LEMMA ReconcilesOn ==
  ASSUME Inv, NEW l \in Loops, loop[l] = "reconcile"
  PROVE  Desired = Start
  BY DEF Inv, Agreement, Desired, SwitchedOn

(* Only Receive changes the command in effect.                              *)
LEMMA DesiredUnchanged ==
  ASSUME Inv, NEW l \in Loops, NoCommand(l) \/ Apply(l) \/ Reconciled(l) \/ Wake(l)
  PROVE  Desired' = Desired
<1>1. /\ loop \in [Loops -> LoopStates] /\ run \in [Loops -> BOOLEAN]
      /\ command \in [Loops -> Commands]
      /\ Agreement
  BY DEF Inv, TypeOK
<1>2. \A k \in Loops : SwitchedOn(k)' <=> SwitchedOn(k)
  <2>1. CASE NoCommand(l) \/ Reconciled(l) \/ Wake(l)
    BY <1>1, <2>1 DEF NoCommand, Reconciled, Wake, LoopGoto, WorkOrSleep, SwitchedOn, Agreement
  <2>2. CASE Apply(l)
    BY <1>1, <2>2 DEF Apply, LoopGoto, WorkOrSleep, SwitchedOn, Commands, Start, Stop
  <2> QED
    BY <2>1, <2>2
<1> QED
  BY <1>2 DEF Desired

LEMMA DesiredReceived ==
  ASSUME Inv, NEW l \in Loops, NEW t \in Threads, Receive(l, t)
  PROVE  Desired' = op[t] /\ pc'[t] = "unlock" /\ op' = op
<1>1. /\ loop \in [Loops -> LoopStates] /\ command \in [Loops -> Commands]
      /\ op \in [Threads -> Commands] /\ pc \in [Threads -> ThreadStates]
      /\ OnePoller
  BY DEF Inv, TypeOK
<1>2. \A k \in Loops : k # l => loop'[k] = "none"
  BY <1>1 DEF Receive, LoopGoto, OnePoller
<1>3. SwitchedOn(l)' <=> op[t] = Start
  BY <1>1 DEF Receive, LoopGoto, SwitchedOn
<1> QED
  BY <1>1, <1>2, <1>3 DEF Desired, SwitchedOn, Receive, Goto, Commands

(* The base Stop, and what surrounds it, loses no Set of a stopping thread. *)
LEMMA CallsKeepExports ==
  ASSUME Base, Exports, NEW t \in Threads, UNCHANGED schedVars,
         (\E cmd \in Commands : Call(t, cmd)) \/ Lock(t) \/ Launch(t)
           \/ AlreadyLaunched(t) \/ Unlock(t) \/ StartReturns(t)
  PROVE  Exports'
<1>0. /\ pc \in [Threads -> ThreadStates] /\ op \in [Threads -> Commands]
      /\ loop \in [Loops -> LoopStates] /\ run \in [Loops -> BOOLEAN]
      /\ CallerPlans /\ StartLaunches
  BY DEF Base, Inv, TypeOK
<1>1. CASE Launch(t) \/ AlreadyLaunched(t)
  <2>1. pc'[t] = "send" /\ op'[t] = Start
    BY <1>0, <1>1 DEF Launch, AlreadyLaunched, Goto, StartLaunches
  <2> QED
    BY <2>1 DEF Exports, Starting
<1>2. CASE (\E cmd \in Commands : Call(t, cmd)) \/ Lock(t) \/ Unlock(t) \/ StartReturns(t)
  <2>1. /\ UNCHANGED <<initialized, loop, run, command, gauge, field, plan, half, step>>
        /\ \A u \in Threads : u # t => pc'[u] = pc[u] /\ op'[u] = op[u]
    BY <1>0, <1>2 DEF Call, Lock, Unlock, StartReturns, Return, Goto, loopVars, schedVars
  <2>2. Desired' = Desired
    BY <2>1 DEF Desired, SwitchedOn
  <2>3. \/ pc[t] \in {"idle", "lock"}
        \/ pc[t] = "unlock" /\ pc'[t] = "return" /\ op'[t] = op[t]
        \/ pc[t] = "return" /\ op[t] = Start
    BY <1>0, <1>2 DEF Call, Lock, Unlock, StartReturns, Return, Goto
  <2>4. Starting => Starting'
    BY <2>1, <2>3 DEF Starting
  <2>5. \A u \in Threads, n \in Nodes : Exporting(u, n) => Exporting(u, n)'
    <3> SUFFICES ASSUME NEW u \in Threads, NEW n \in Nodes, Exporting(u, n)
                 PROVE  Exporting(u, n)'
      OBVIOUS
    <3>1. CASE step[u] = "set"
      BY <2>1, <3>1 DEF Exporting
    <3>2. CASE step[u] = "base" /\ pc[u] \in {"unlock", "return"} /\ op[u] = Stop
      <4>1. pc'[u] \in {"unlock", "return"} /\ op'[u] = Stop
        BY <2>1, <2>3, <3>2 DEF Start, Stop
      <4> QED
        BY <2>1, <3>2, <4>1 DEF Exporting
    <3> QED
      BY <3>1, <3>2 DEF Exporting
  <2> QED
    BY <2>1, <2>2, <2>4, <2>5 DEF Exports, Exported
<1> QED
  BY <1>1, <1>2

(* A Stop plans a Set of every node, and returns when it has none left.     *)
LEMMA StopKeepsExports ==
  ASSUME Base, Exports, NEW t \in Threads, BaseStopReturns(t) \/ SchedStopReturns(t)
  PROVE  Exports'
<1>0. /\ pc \in [Threads -> ThreadStates] /\ step \in [Actors -> Steps]
      /\ plan \in [Actors -> Seq(Cells!Write)] /\ half \in [Actors -> BOOLEAN]
      /\ half[t] => plan[t] # <<>>
      /\ CallerPlans
  BY DEF Base, Inv, TypeOK, SchedTypes, Cells!TypeOK, Actors
<1>1. /\ UNCHANGED <<initialized, loop, run, command, gauge, field, half, op>>
      /\ \A u \in Threads : u # t => pc'[u] = pc[u] /\ step'[u] = step[u] /\ plan'[u] = plan[u]
      /\ pc[t] = "return"
  BY <1>0 DEF BaseStopReturns, SchedStopReturns, Return, Goto, loopVars, vars, cellVars,
              Cells!Intend, Actors
<1>2. Desired' = Desired
  BY <1>1 DEF Desired, SwitchedOn
<1>3. Starting => Starting'
  BY <1>1 DEF Starting
<1>4. \A u \in Threads, n \in Nodes : u # t /\ Exporting(u, n) => Exporting(u, n)'
  BY <1>1 DEF Exporting
<1>5. CASE BaseStopReturns(t)
  <2>1. PICK order \in SetToSeqs(Nodes) : Cells!Intend(t, AllTrue(order))
    BY <1>5 DEF BaseStopReturns
  <2>2. /\ order \in Seq(Nodes)
        /\ \A n \in Nodes : \E i \in DOMAIN order : order[i] = n
    BY <2>1, Orders
  <2>3. plan'[t] = AllTrue(order) /\ step'[t] = "set" /\ ~half'[t]
    BY <1>0, <1>5, <2>1 DEF BaseStopReturns, Cells!Intend, Cells!Idle, Actors
  <2>4. \A n \in Nodes : \E i \in DOMAIN plan'[t] : plan'[t][i].node = n
    <3>1. /\ DOMAIN AllTrue(order) = DOMAIN order
          /\ \A i \in DOMAIN order : AllTrue(order)[i].node = order[i]
      BY <2>2, AllTrueAreWrites
    <3> QED
      BY <2>2, <2>3, <3>1
  <2>5. \A n \in Nodes : Exporting(t, n)'
    BY <2>3, <2>4 DEF Exporting
  <2> QED
    BY <1>1, <1>2, <1>3, <2>5 DEF Exports
<1>6. CASE SchedStopReturns(t)
  <2>1. \A n \in Nodes : ~Exporting(t, n)
    BY <1>6 DEF SchedStopReturns, Cells!Idle, Exporting
  <2> QED
    BY <1>1, <1>2, <1>3, <1>4, <2>1 DEF Exports, Exported
<1> QED
  BY <1>5, <1>6

(* A Set of a Stop exports its node, and undoes nothing that is exported.   *)
LEMMA SetKeepsExports ==
  ASSUME Base, Exports, NEW a \in Actors, SetStep(a)
  PROVE  Exports'
<1>0. /\ gauge \in [Nodes -> BOOLEAN] /\ field \in [Nodes -> BOOLEAN]
      /\ plan \in [Actors -> Seq(Cells!Write)] /\ half \in [Actors -> BOOLEAN]
      /\ CallerPlans /\ LoopPlans /\ Inv
  BY DEF Base, SchedTypes, Cells!TypeOK
<1>1. UNCHANGED <<vars, step>> /\ Desired' = Desired /\ (Starting => Starting')
  BY DEF SetStep, vars, Desired, SwitchedOn, Starting
<1>2. plan[a] # <<>> /\ plan[a] \in Seq(Cells!Write)
  BY SetStepPlans DEF Base
<1>3. CASE a \in Loops
  <2>1. loop[a] = "reconcile"
    BY <1>0, <1>2, <1>3 DEF LoopPlans
  <2>2. Desired = Start
    BY <1>0, <1>3, <2>1, ReconcilesOn
  <2> QED
    BY <1>1, <2>2 DEF Exports, Start, Stop
<1>4. CASE a \in Threads
  <2> DEFINE m == Cells!Current(a).node
  <2>1. plan[a][1].value = TRUE /\ m = plan[a][1].node /\ m \in Nodes
        /\ Cells!Current(a).value = TRUE
    <3>1. 1 \in DOMAIN plan[a] /\ plan[a][1] \in Cells!Write /\ Head(plan[a]) = plan[a][1]
      BY <1>2
    <3>2. plan[a][1].value = TRUE
      BY <1>0, <1>4, <3>1 DEF CallerPlans
    <3> QED
      BY <3>1, <3>2 DEF Cells!Current, Cells!Write
  <2>2. step[a] = "set"
    BY <1>0, <1>2, <1>4 DEF CallerPlans
  <2> HIDE DEF m
  <2>3. CASE Cells!SetGauge(a)
    <3>1. /\ field' = field /\ plan' = plan
          /\ \A n \in Nodes : gauge'[n] = IF n = m THEN TRUE ELSE gauge[n]
          /\ \A b \in Actors : b # a => half'[b] = half[b]
      BY <1>0, <2>1, <2>3 DEF Cells!SetGauge, m
    <3>2. \A n \in Nodes : Exported(n) => Exported(n)'
      BY <3>1 DEF Exported
    <3>3. ASSUME NEW u \in Threads, NEW n \in Nodes, Exporting(u, n)
          PROVE  Exporting(u, n)'
      <4>1. CASE step[u] = "base"
        BY <1>1, <3>3, <4>1 DEF Exporting, vars
      <4>2. CASE step[u] = "set"
        <5>1. PICK i \in DOMAIN plan[u] :
                plan[u][i].node = n /\ (i = 1 /\ half[u] => gauge[n] = TRUE)
          BY <3>3, <4>2 DEF Exporting
        <5>2. i = 1 /\ half'[u] => gauge'[n] = TRUE
          BY <2>1, <3>1, <5>1 DEF Actors
        <5> QED
          BY <1>1, <3>1, <4>2, <5>1, <5>2 DEF Exporting
      <4> QED
        BY <3>3, <4>1, <4>2 DEF Exporting
    <3> QED
      BY <1>1, <3>2, <3>3 DEF Exports, vars
  <2>4. CASE Cells!SetField(a)
    <3>1. /\ gauge' = gauge /\ half[a] /\ ~half'[a] /\ plan'[a] = Tail(plan[a])
          /\ \A n \in Nodes : field'[n] = IF n = m THEN TRUE ELSE field[n]
          /\ \A b \in Actors : b # a => half'[b] = half[b] /\ plan'[b] = plan[b]
      BY <1>0, <2>1, <2>4 DEF Cells!SetField, m
    <3>2. \A n \in Nodes : Exported(n) => Exported(n)'
      BY <3>1 DEF Exported
    <3>3. ASSUME NEW u \in Threads, NEW n \in Nodes, Exporting(u, n)
          PROVE  Exporting(u, n)' \/ Exported(n)'
      <4>1. CASE u # a
        BY <1>1, <3>1, <3>3, <4>1 DEF Exporting, vars, Actors
      <4>2. CASE u = a
        <5>1. PICK i \in DOMAIN plan[a] :
                plan[a][i].node = n /\ (i = 1 /\ half[a] => gauge[n] = TRUE)
          BY <2>2, <3>3, <4>2 DEF Exporting
        <5>2. CASE i = 1
          BY <2>1, <3>1, <5>1, <5>2 DEF Exported
        <5>3. CASE i # 1
          <6>1. i - 1 \in DOMAIN Tail(plan[a]) /\ Tail(plan[a])[i-1] = plan[a][i]
            BY <1>2, <5>3
          <6> QED
            BY <1>1, <2>2, <3>1, <4>2, <5>1, <6>1 DEF Exporting
        <5> QED
          BY <5>2, <5>3
      <4> QED
        BY <4>1, <4>2
    <3> QED
      BY <1>1, <3>2, <3>3 DEF Exports, vars
  <2> QED
    BY <2>3, <2>4 DEF SetStep
<1> QED
  BY <1>3, <1>4 DEF Actors

(* The loop, when it is off, leaves the exports alone.                      *)
LEMMA LoopKeepsExports ==
  ASSUME Base, Exports, NEW l \in Loops,
         (PollStep(l) \/ Query(l) \/ QueryFails(l) \/ Choose(l))
  PROVE  Exports'
<1>0. Inv /\ LoopPlans /\ CallerPlans /\ step \in [Actors -> Steps] /\ Threads \cap Loops = {}
  BY SchedAssumption DEF Base, SchedTypes
<1>1. ASSUME NEW t \in Threads, Receive(l, t), UNCHANGED schedVars PROVE Exports'
  <2>1. Desired' = op[t] /\ pc'[t] = "unlock" /\ op' = op
    BY <1>0, <1>1, DesiredReceived
  <2>2. pc[t] = "send" /\ step[t] = "base" /\ step'[t] = "base"
    BY <1>0, <1>1 DEF Receive, Goto, CallerPlans, schedVars
  <2>3. Desired' = Stop => \A n \in Nodes : Exporting(t, n)'
    BY <2>1, <2>2 DEF Exporting
  <2> QED
    BY <2>3 DEF Exports
<1>2. ASSUME NoCommand(l) \/ Apply(l) \/ Reconciled(l) \/ Wake(l),
             UNCHANGED <<gauge, field, plan, half>>,
             \A t \in Threads : step'[t] = step[t]
      PROVE  Exports'
  <2>1. Desired' = Desired /\ UNCHANGED <<pc, op, initialized>>
    BY <1>0, <1>2, DesiredUnchanged DEF NoCommand, Apply, Reconciled, Wake, callVars
  <2> QED
    BY <1>2, <2>1 DEF Exports, Exported, Exporting, Starting
<1>3. CASE SchedReconciled(l)
  <2>1. \A t \in Threads : step'[t] = step[t]
    BY <1>0, <1>3 DEF SchedReconciled, Actors
  <2> QED
    BY <1>2, <1>3, <2>1 DEF SchedReconciled, cellVars
<1>4. CASE Query(l) \/ QueryFails(l) \/ Choose(l)
  <2>1. UNCHANGED vars /\ step[l] \in {"query", "find"}
        /\ (step[l] = "query" => loop[l] = "reconcile")
    BY <1>4 DEF Query, QueryFails, Choose, NoneExported, FullNode, KeepNode
  <2>2. loop[l] = "reconcile"
    BY <1>0, <2>1 DEF LoopPlans
  <2>3. Desired = Start /\ Desired' = Desired
    BY <1>0, <2>1, <2>2, ReconcilesOn DEF vars, Desired, SwitchedOn
  <2> QED
    BY <2>3 DEF Exports, Start, Stop
<1> QED
  BY <1>1, <1>2, <1>3, <1>4 DEF PollStep, schedVars

-----------------------------------------------------------------------------
SchedInv == Base /\ CellsP!CellInv /\ SetsFollowDiffs /\ Exports

LEMMA InitSchedInv == SchedInit => SchedInv
<1> SUFFICES ASSUME SchedInit PROVE SchedInv
  OBVIOUS
<1>1. Inv
  BY InitInv DEF SchedInit, Init
<1>2. CellsP!Init
  <2>1. [n \in Nodes |-> FALSE] \in [Nodes -> BOOLEAN]
    OBVIOUS
  <2> QED
    BY <2>1 DEF SchedInit, Cells!InitWith, CellsP!Init, CellsP!InitWith
<1>3. CellsP!CellInv
  BY <1>2, CellsP!InitCellInv
<1>4. Cells!TypeOK
  BY <1>3 DEF CellsP!CellInv, CellsP!TypeOK, Cells!TypeOK, CellsP!Write, Cells!Write
<1>5. /\ step = [a \in Actors |-> IF a \in Loops THEN "query" ELSE "base"]
      /\ \A a \in Actors : plan[a] = <<>>
      /\ \A l \in Loops : diffs[l] = <<>> /\ loop[l] = "none"
      /\ ~initialized
  BY DEF SchedInit, InitStartedByMain, InitCommon, Cells!InitWith, Actors
<1>6. diffs \in [Loops -> UNION {[S -> BOOLEAN] : S \in SUBSET Nodes}]
  <2>1. <<>> \in [{} -> BOOLEAN]
    OBVIOUS
  <2> QED
    BY <2>1 DEF SchedInit
<1>7. SchedTypes
  BY <1>4, <1>5, <1>6 DEF SchedTypes, SchedInit, Steps
<1>8. LoopPlans /\ CallerPlans
  BY <1>5, SchedAssumption DEF LoopPlans, CallerPlans, Actors
<1>9. SetsFollowDiffs /\ Exports
  BY <1>5 DEF SetsFollowDiffs, Exports, Actors
<1> QED
  BY <1>1, <1>3, <1>7, <1>8, <1>9 DEF SchedInv, Base

LEMMA NextSchedInv == SchedInv /\ [SchedNext]_allVars => SchedInv'
<1> SUFFICES ASSUME SchedInv, [SchedNext]_allVars PROVE SchedInv'
  OBVIOUS
<1>0. Base /\ CellsP!CellInv /\ SetsFollowDiffs /\ Exports
  BY DEF SchedInv
<1>1. Base' /\ CellsP!CellInv'
  <2>1. Inv'
    BY <1>0, LoopStepOrStutter, NextInv DEF Base
  <2> QED
    BY <1>0, <2>1, TypesPreserved, PlansPreserved DEF Base
<1>2. SetsFollowDiffs'
  BY <1>0, <1>1, FollowPreserved
<1>3. Exports'
  <2>1. ASSUME NEW t \in Threads, CallerStep(t) PROVE Exports'
    BY <1>0, <2>1, CallsKeepExports, StopKeepsExports DEF CallerStep, StartReturns
  <2>2. ASSUME UNCHANGED <<vars, cellVars, step>> PROVE Exports'
    BY <1>0, <2>2 DEF vars, cellVars, Exports, Exported, Exporting, Starting, Desired, SwitchedOn
  <2> QED
    BY <1>0, <2>1, <2>2, LoopKeepsExports, SetKeepsExports
    DEF SchedNext, Drift, allVars, schedVars, cellVars
<1> QED
  BY <1>1, <1>2, <1>3 DEF SchedInv

(* SchedInv holds in every reachable state of the strategy.                 *)
THEOREM SchedInvariance == SchedSpec => []SchedInv
  BY InitSchedInv, NextSchedInv, PTL DEF SchedSpec

(* Every variable of the schedulable strategy keeps its type.               *)
THEOREM SchedTypeCorrect == SchedSpec => []SchedTypeOK
<1>1. SchedInv => SchedTypeOK
  BY DEF SchedInv, Base, SchedTypes, SchedTypeOK, Inv
<1> QED
  BY <1>1, SchedInvariance, PTL

(* A strategy that is off and has no request to serve exports every node,   *)
(* gauge and field, for any number of clients and nodes.                    *)
THEOREM StoppedStrategyExportsAll == SchedSpec => []StoppedExportsAll
<1>1. SchedInv => StoppedExportsAll
  <2> SUFFICES ASSUME SchedInv, initialized, Desired = Stop,
                      \A t \in Threads : pc[t] = "idle"
               PROVE  \A n \in Nodes : gauge[n] /\ field[n]
    BY DEF StoppedExportsAll
  <2>1. ~Starting /\ \A t \in Threads, n \in Nodes : ~Exporting(t, n)
    BY DEF SchedInv, Base, CallerPlans, Starting, Exporting
  <2> QED
    BY <2>1 DEF SchedInv, Exports, Exported
<1> QED
  BY <1>1, SchedInvariance, PTL

(* The strategies read what is exported, but for Sets that overlapped.      *)
THEOREM OnlyOverlappingSetsTear == SchedSpec => []OnlyOverlapsTear
<1>1. SchedInv => OnlyOverlapsTear
  BY DEF SchedInv, CellsP!CellInv, CellsP!Untorn, OnlyOverlapsTear, Cells!OnlyOverlapsTear,
         CellsP!Halfway, Cells!Halfway, CellsP!Current, Cells!Current
<1> QED
  BY <1>1, SchedInvariance, PTL

(* No node is withdrawn or exported by the loop against the diffs it read.  *)
THEOREM LoopFollowsDiffs == SchedSpec => []SetsFollowDiffs
<1>1. SchedInv => SetsFollowDiffs
  BY DEF SchedInv
<1> QED
  BY <1>1, SchedInvariance, PTL

-----------------------------------------------------------------------------
(* One export until a Stop.                                                 *)

(* A Set that withdraws a node is the loop's first, of the exported node.   *)
Withdraws(l, i) ==
  /\ i = 1
  /\ \A m \in Nodes : gauge[m] = TRUE \/ field[m] = TRUE => m = plan[l][1].node

(* One that exports a node is its last; when it comes, no other node is.    *)
Picked(l, i) ==
  /\ i = Len(plan[l])
  /\ i = 1 => \A m \in Nodes :
                 /\ field[m] = FALSE
                 /\ gauge[m] = TRUE => half[l] = TRUE /\ m = plan[l][1].node

LoneExport ==
  \A m, n \in Nodes : /\ gauge[m] = TRUE /\ gauge[n] = TRUE => m = n
                      /\ field[m] = TRUE /\ field[n] = TRUE => m = n

LoneSets ==
  \A l \in Loops : \A i \in DOMAIN plan[l] :
    /\ plan[l][i].value = FALSE => Withdraws(l, i)
    /\ plan[l][i].value = TRUE => Picked(l, i)

OneExportInv == torn = {} /\ LoneExport /\ LoneSets

(* Until a Stop is called, nobody makes Sets but the loop that reconciles.  *)
LEMMA OneLoopSets ==
  ASSUME Base, NoStopCalled, NEW l \in Loops, step[l] # "query",
         NEW a \in Actors, a # l
  PROVE  plan[a] = <<>> /\ half[a] = FALSE
<1>0. /\ half \in [Actors -> BOOLEAN] /\ (half[a] => plan[a] # <<>>)
      /\ LoopPlans /\ CallerPlans /\ OnePoller
  BY DEF Base, SchedTypes, Cells!TypeOK, Inv
<1>1. CASE a \in Threads
  BY <1>0, <1>1 DEF NoStopCalled, CallerPlans, Start, Stop
<1>2. CASE a \in Loops
  <2>1. loop[l] = "reconcile" /\ (plan[a] # <<>> => loop[a] = "reconcile")
    BY <1>0, <1>2 DEF LoopPlans
  <2> QED
    BY <1>0, <1>2, <2>1 DEF OnePoller
<1> QED
  BY <1>1, <1>2 DEF Actors

(* While the loop chooses, no Set is halfway: gauges and fields agree.      *)
LEMMA ChoosesFromTheExports ==
  ASSUME SchedInv, NoStopCalled, torn = {}, NEW l \in Loops, step[l] = "find"
  PROVE  gauge = field /\ plan[l] = <<>> /\ half[l] = FALSE
<1>0. /\ gauge \in [Nodes -> BOOLEAN] /\ field \in [Nodes -> BOOLEAN]
      /\ half \in [Actors -> BOOLEAN] /\ (half[l] => plan[l] # <<>>)
      /\ LoopPlans /\ Base /\ CellsP!CellInv
  BY DEF SchedInv, Base, SchedTypes, Cells!TypeOK, Actors
<1>1. plan[l] = <<>> /\ half[l] = FALSE
  BY <1>0 DEF LoopPlans, Actors
<1>2. \A a \in Actors : half[a] = FALSE
  BY <1>0, <1>1, OneLoopSets
<1>3. \A n \in Nodes : gauge[n] = field[n]
  BY <1>0, <1>2 DEF CellsP!CellInv, CellsP!Untorn, CellsP!Halfway
<1> QED
  BY <1>0, <1>1, <1>3

(* Sets that withdraw the exported node first, and export one last.         *)
KeepsToOne(writes) ==
  \A i \in DOMAIN writes :
    /\ writes[i].value = FALSE =>
         i = 1 /\ \A m \in Nodes : field[m] = TRUE => m = writes[1].node
    /\ writes[i].value = TRUE =>
         i = Len(writes) /\ (i = 1 => \A m \in Nodes : field[m] = FALSE)

LEMMA OneOrTwoWrites ==
  ASSUME NEW x, NEW y
  PROVE  /\ DOMAIN <<x>> = {1} /\ Len(<<x>>) = 1 /\ <<x>>[1] = x
         /\ <<x>> \o <<>> = <<x>>
         /\ DOMAIN (<<x>> \o <<y>>) = {1, 2} /\ Len(<<x>> \o <<y>>) = 2
         /\ (<<x>> \o <<y>>)[1] = x /\ (<<x>> \o <<y>>)[2] = y
<1> DEFINE S == {x, y}
<1>1. <<x>> \in Seq(S) /\ <<y>> \in Seq(S)
  OBVIOUS
<1> QED
  BY <1>1

LEMMA PicksKeepToOne ==
  ASSUME NEW l \in Loops, NEW writes \in Picks(l)
  PROVE  /\ (\A m \in Nodes : field[m] = FALSE) => KeepsToOne(writes)
         /\ \A n \in Nodes : (\A m \in Nodes : field[m] = TRUE => m = n) =>
              KeepsToOne(<<[node |-> n, value |-> FALSE]>> \o writes)
<1>1. CASE writes = <<>>
  <2>1. DOMAIN writes = {}
    BY <1>1
  <2>2. KeepsToOne(writes)
    BY <2>1 DEF KeepsToOne
  <2>3. ASSUME NEW n \in Nodes, \A m \in Nodes : field[m] = TRUE => m = n
        PROVE  KeepsToOne(<<[node |-> n, value |-> FALSE]>> \o writes)
    <3> DEFINE x == [node |-> n, value |-> FALSE]
    <3>1. x.node = n /\ x.value = FALSE
      OBVIOUS
    <3> HIDE DEF x
    <3>2. KeepsToOne(<<x>>)
      BY <2>3, <3>1, OneOrTwoWrites DEF KeepsToOne
    <3> QED
      BY <1>1, <3>2, OneOrTwoWrites DEF x
  <2> QED
    BY <2>2, <2>3
<1>2. ASSUME NEW k \in Roomy(l), writes = <<[node |-> k, value |-> TRUE]>>
      PROVE  /\ (\A m \in Nodes : field[m] = FALSE) => KeepsToOne(writes)
             /\ \A n \in Nodes : (\A m \in Nodes : field[m] = TRUE => m = n) =>
                  KeepsToOne(<<[node |-> n, value |-> FALSE]>> \o writes)
  <2> DEFINE y == [node |-> k, value |-> TRUE]
  <2>1. y.value = TRUE /\ writes = <<y>>
    BY <1>2
  <2> HIDE DEF y
  <2>2. (\A m \in Nodes : field[m] = FALSE) => KeepsToOne(<<y>>)
    BY <2>1, OneOrTwoWrites DEF KeepsToOne
  <2>3. ASSUME NEW n \in Nodes, \A m \in Nodes : field[m] = TRUE => m = n
        PROVE  KeepsToOne(<<[node |-> n, value |-> FALSE]>> \o <<y>>)
    <3> DEFINE x == [node |-> n, value |-> FALSE]
               xy == <<x>> \o <<y>>
    <3>1. x.node = n /\ x.value = FALSE
      OBVIOUS
    <3> HIDE DEF x
    <3>2. DOMAIN xy = {1, 2} /\ Len(xy) = 2 /\ xy[1] = x /\ xy[2] = y
      BY OneOrTwoWrites
    <3> HIDE DEF xy
    <3>3. KeepsToOne(xy)
      BY <2>1, <2>3, <3>1, <3>2 DEF KeepsToOne
    <3> QED
      BY <3>3 DEF x, xy
  <2> QED
    BY <2>1, <2>2, <2>3
<1> QED
  BY <1>1, <1>2 DEF Picks

(* What a reconcile decides to Set keeps the exports to one node.           *)
LEMMA ChoiceKeepsOne ==
  ASSUME SchedInv, NoStopCalled, OneExportInv, NEW l \in Loops, Choose(l)
  PROVE  OneExportInv'
<1>0. /\ step[l] = "find" /\ plan \in [Actors -> Seq(Cells!Write)]
      /\ torn = {} /\ LoneExport /\ LoneSets
      /\ field \in [Nodes -> BOOLEAN] /\ Base
  BY DEF SchedInv, Base, SchedTypes, Cells!TypeOK, OneExportInv, Choose, NoneExported, FullNode,
         KeepNode
<1>1. gauge = field /\ plan[l] = <<>> /\ half[l] = FALSE
  BY <1>0, ChoosesFromTheExports
<1>2. \A k \in Loops : k # l => plan[k] = <<>>
  BY <1>0, OneLoopSets DEF Actors
<1>3. ASSUME NEW writes, Cells!Intend(l, writes), KeepsToOne(writes)
      PROVE  OneExportInv'
  <2>1. /\ plan'[l] = writes /\ UNCHANGED <<gauge, field, half, torn>>
        /\ \A k \in Loops : k # l => plan'[k] = <<>>
    BY <1>0, <1>2, <1>3 DEF Cells!Intend, Actors
  <2>2. \A i \in DOMAIN plan'[l] :
          /\ plan'[l][i].value = FALSE => Withdraws(l, i)'
          /\ plan'[l][i].value = TRUE => Picked(l, i)'
    BY <1>1, <1>3, <2>1 DEF Withdraws, Picked, KeepsToOne
  <2>3. LoneSets'
    BY <2>1, <2>2 DEF LoneSets
  <2> QED
    BY <1>0, <2>1, <2>3 DEF OneExportInv, LoneExport
<1>5. CASE NoneExported(l)
  <2>1. PICK writes \in Picks(l) : Cells!Intend(l, writes)
    BY <1>5 DEF NoneExported
  <2>2. \A m \in Nodes : field[m] = FALSE
    BY <1>0, <1>5 DEF NoneExported
  <2>3. KeepsToOne(writes)
    BY <2>2, PicksKeepToOne
  <2> QED
    BY <1>3, <2>1, <2>3
<1>6. ASSUME NEW n \in Nodes, FullNode(l, n) PROVE OneExportInv'
  <2>1. PICK writes \in Picks(l) :
          Cells!Intend(l, <<[node |-> n, value |-> FALSE]>> \o writes)
    BY <1>6 DEF FullNode
  <2>2. \A m \in Nodes : field[m] = TRUE => m = n
    BY <1>0, <1>6 DEF FullNode, LoneExport
  <2>3. KeepsToOne(<<[node |-> n, value |-> FALSE]>> \o writes)
    BY <2>2, PicksKeepToOne
  <2> QED
    BY <1>3, <2>1, <2>3
<1>7. CASE \E n \in Nodes : KeepNode(l, n)
  BY <1>0, <1>7 DEF KeepNode, cellVars, OneExportInv, LoneExport, LoneSets, Withdraws, Picked
<1> QED
  BY <1>5, <1>6, <1>7 DEF Choose

(* The loop's Sets keep it, for an export waits for the withdrawal.         *)
LEMMA SetKeepsOne ==
  ASSUME SchedInv, NoStopCalled, OneExportInv, NEW a \in Actors, SetStep(a)
  PROVE  OneExportInv'
<1>0. /\ gauge \in [Nodes -> BOOLEAN] /\ field \in [Nodes -> BOOLEAN]
      /\ plan \in [Actors -> Seq(Cells!Write)] /\ half \in [Actors -> BOOLEAN]
      /\ torn = {} /\ LoneExport /\ LoneSets
      /\ Base /\ LoopPlans /\ CallerPlans /\ CellsP!CellInv
  BY DEF SchedInv, Base, SchedTypes, Cells!TypeOK, OneExportInv
<1>1. plan[a] # <<>> /\ plan[a] \in Seq(Cells!Write)
  BY SetStepPlans DEF SchedInv, Base
<1>2. a \in Loops /\ step[a] # "query"
  BY <1>0, <1>1 DEF NoStopCalled, LoopPlans, CallerPlans, Actors, Start, Stop
<1>3. \A b \in Actors : b # a => plan[b] = <<>> /\ half[b] = FALSE
  BY <1>0, <1>2, OneLoopSets
<1> DEFINE w == plan[a][1]
<1>4. /\ 1 \in DOMAIN plan[a] /\ w = Cells!Current(a) /\ w.node \in Nodes
      /\ w.value = TRUE \/ w.value = FALSE
  <2>1. /\ 1 \in DOMAIN plan[a] /\ plan[a][1] \in Cells!Write
        /\ Head(plan[a]) = plan[a][1]
    BY <1>1
  <2> QED
    BY <2>1 DEF Cells!Current, Cells!Write
<1>5. /\ w.value = FALSE => Withdraws(a, 1)
      /\ w.value = TRUE => Picked(a, 1)
  BY <1>0, <1>2, <1>4 DEF LoneSets
<1> HIDE DEF w
<1>6. CASE Cells!SetGauge(a)
  <2>1. /\ half[a] = FALSE /\ half'[a] = TRUE /\ field' = field /\ plan' = plan
        /\ \A n \in Nodes : gauge'[n] = IF n = w.node THEN w.value ELSE gauge[n]
    BY <1>0, <1>2, <1>4, <1>6 DEF Cells!SetGauge
  <2>2. torn' = {}
    BY <1>0, <1>3, <1>6, <2>1 DEF Cells!SetGauge, Cells!Halfway
  <2>3. CASE w.value = TRUE
    <3>1. /\ Len(plan[a]) = 1
          /\ \A m \in Nodes : field[m] = FALSE /\ gauge[m] = FALSE
      BY <1>0, <1>5, <2>1, <2>3 DEF Picked
    <3>2. \A m \in Nodes : gauge'[m] = TRUE => m = w.node
      BY <2>1, <3>1
    <3>3. LoneExport'
      BY <2>1, <3>1, <3>2 DEF LoneExport
    <3>4. Picked(a, 1)'
      BY <2>1, <3>1, <3>2 DEF Picked, w
    <3>5. \A i \in DOMAIN plan[a] : i = 1
      BY <1>1, <3>1
    <3>6. LoneSets'
      BY <1>3, <2>1, <2>3, <3>4, <3>5 DEF LoneSets, Actors, w
    <3> QED
      BY <2>2, <3>3, <3>6 DEF OneExportInv
  <2>4. CASE w.value = FALSE
    <3>1. \A m \in Nodes : gauge'[m] = TRUE => gauge[m] = TRUE
      BY <2>1, <2>4
    <3>2. LoneExport'
      BY <1>0, <2>1, <3>1 DEF LoneExport
    <3>3. Withdraws(a, 1)'
      BY <1>5, <2>1, <2>4, <3>1 DEF Withdraws
    <3>4. \A i \in DOMAIN plan[a] : plan[a][i].value = FALSE => i = 1
      BY <1>0, <1>2 DEF LoneSets, Withdraws
    <3>5. \A i \in DOMAIN plan[a] : plan[a][i].value = TRUE => i = Len(plan[a]) /\ i # 1
      BY <1>0, <1>2, <2>4 DEF LoneSets, Picked, w
    <3>6. LoneSets'
      BY <1>3, <2>1, <3>3, <3>4, <3>5 DEF LoneSets, Picked, Actors
    <3> QED
      BY <2>2, <3>2, <3>6 DEF OneExportInv
  <2> QED
    BY <1>4, <2>3, <2>4
<1>7. CASE Cells!SetField(a)
  <2>1. /\ half[a] = TRUE /\ gauge' = gauge /\ torn' = torn /\ plan'[a] = Tail(plan[a])
        /\ \A b \in Actors : b # a => plan'[b] = plan[b]
        /\ \A n \in Nodes : field'[n] = IF n = w.node THEN w.value ELSE field[n]
    BY <1>0, <1>2, <1>4, <1>7 DEF Cells!SetField
  <2>2. gauge[w.node] = w.value
    BY <1>0, <1>4, <2>1 DEF CellsP!CellInv, CellsP!Untorn, CellsP!Halfway, CellsP!Current,
       Cells!Current
  <2>3. CASE w.value = TRUE
    <3>1. Len(plan[a]) = 1 /\ \A m \in Nodes : field[m] = FALSE
      BY <1>5, <2>3 DEF Picked
    <3>2. plan'[a] = <<>>
      <4>1. Len(Tail(plan[a])) = 0 /\ Tail(plan[a]) \in Seq(Cells!Write)
        BY <1>1, <3>1
      <4>2. \A q \in Seq(Cells!Write) : Len(q) = 0 => q = <<>>
        OBVIOUS
      <4> QED
        BY <2>1, <4>1, <4>2
    <3>3. LoneExport'
      BY <1>0, <2>1, <3>1 DEF LoneExport
    <3>4. \A k \in Loops : plan'[k] = <<>>
      BY <1>3, <2>1, <3>2 DEF Actors
    <3>5. LoneSets'
      BY <3>4 DEF LoneSets
    <3> QED
      BY <1>0, <2>1, <3>3, <3>5 DEF OneExportInv
  <2>4. CASE w.value = FALSE
    <3>1. \A m \in Nodes : gauge'[m] = FALSE /\ field'[m] = FALSE
      BY <1>0, <1>5, <2>1, <2>2, <2>4 DEF Withdraws, w
    <3>2. ASSUME NEW i \in DOMAIN plan'[a]
          PROVE  /\ plan'[a][i].value = FALSE => Withdraws(a, i)'
                 /\ plan'[a][i].value = TRUE => Picked(a, i)'
      <4>1. /\ i \in Nat \ {0} /\ i + 1 \in DOMAIN plan[a] /\ plan'[a][i] = plan[a][i+1]
            /\ Len(plan'[a]) = Len(plan[a]) - 1
        BY <1>1, <2>1
      <4>2. /\ plan[a][i+1].value = FALSE => i + 1 = 1
            /\ plan[a][i+1].value = TRUE => i + 1 = Len(plan[a])
        BY <1>0, <1>2, <4>1 DEF LoneSets, Withdraws, Picked
      <4> QED
        BY <3>1, <4>1, <4>2 DEF Picked
    <3>3. LoneExport'
      BY <3>1 DEF LoneExport
    <3>4. \A k \in Loops : k # a => plan'[k] = <<>>
      BY <1>3, <2>1 DEF Actors
    <3>5. LoneSets'
      <4>1. ASSUME NEW k \in Loops, NEW i \in DOMAIN plan'[k]
            PROVE  /\ plan'[k][i].value = FALSE => Withdraws(k, i)'
                   /\ plan'[k][i].value = TRUE => Picked(k, i)'
        <5>1. CASE k = a
          BY <3>2, <4>1, <5>1
        <5>2. CASE k # a
          <6>1. plan'[k] = <<>>
            BY <3>4, <5>2
          <6> QED
            BY <4>1, <6>1
        <5> QED
          BY <5>1, <5>2
      <4> QED
        BY <4>1 DEF LoneSets
    <3> QED
      BY <1>0, <2>1, <3>3, <3>5 DEF OneExportInv
  <2> QED
    BY <1>4, <2>3, <2>4
<1> QED
  BY <1>6, <1>7 DEF SetStep

(* No other step touches the cells, unless a Stop was called.               *)
LEMMA NextKeepsOne ==
  SchedInv /\ NoStopCalled /\ OneExportInv /\ [SchedNext]_allVars => OneExportInv'
<1> SUFFICES ASSUME SchedInv, NoStopCalled, OneExportInv, [SchedNext]_allVars
             PROVE  OneExportInv'
  OBVIOUS
<1>1. ASSUME UNCHANGED cellVars PROVE OneExportInv'
  BY <1>1 DEF cellVars, OneExportInv, LoneExport, LoneSets, Withdraws, Picked
<1>2. ASSUME NEW t \in Threads, CallerStep(t) PROVE UNCHANGED cellVars
  BY <1>2 DEF CallerStep, StartReturns, BaseStopReturns, SchedStopReturns, schedVars, cellVars,
              NoStopCalled, Start, Stop
<1>3. ASSUME NEW l \in Loops, PollStep(l) \/ Query(l) \/ QueryFails(l)
      PROVE  UNCHANGED cellVars
  BY <1>3 DEF PollStep, SchedReconciled, Query, QueryFails, schedVars, cellVars
<1>4. CASE (\E n \in Nodes : Drift(n)) \/ UNCHANGED allVars
  BY <1>1, <1>4 DEF Drift, allVars, schedVars, cellVars
<1> QED
  BY <1>1, <1>2, <1>3, <1>4, ChoiceKeepsOne, SetKeepsOne DEF SchedNext

(* The strategy exports one node at most, in the gauge and in the field,    *)
(* until a Stop is called, for any clients, nodes and loads (schedulable.go *)
(* Reconcile).                                                              *)
THEOREM OneExportedUntilAStop == SchedSpec => OneExportUntilAStop
<1>1. SchedInit => OneExportInv
  BY DEF SchedInit, Cells!InitWith, OneExportInv, LoneExport, LoneSets, Actors
<1>2. SchedInv /\ OneExportInv => AtMostOneExported
  BY DEF SchedInv, Base, SchedTypes, Cells!TypeOK, OneExportInv, LoneExport, AtMostOneExported
<1>3. SchedSpec /\ []NoStopCalled => []OneExportInv
  BY <1>1, NextKeepsOne, SchedInvariance, PTL DEF SchedSpec
<1> QED
  BY <1>2, <1>3, SchedInvariance, PTL DEF OneExportUntilAStop

(* The strategy's own Stop, and its Sets, hide nothing of the protocol: its *)
(* base implements the on/off switch as StrategyLoop does (strategy.go,     *)
(* embedded in schedulable.go).                                             *)
THEOREM SchedulableIsASwitch == SchedSpec => ImplementsSwitch
<1>1. SchedInit => Switch!Init
  BY InitRefines DEF SchedInit, Init
<1>2. SchedInv /\ SchedInv' /\ [SchedNext]_allVars => [Switch!Next]_Switch!vars
  BY LoopStepOrStutter, StepRefines DEF SchedInv, Base
<1> QED
  BY <1>1, <1>2, SchedInvariance, PTL DEF SchedSpec, ImplementsSwitch, Switch!Spec

=============================================================================
