--------------------------- MODULE Targets_proofs ---------------------------
(***************************************************************************)
(* Theorems about Targets for any number of posters, clients and nodes, any *)
(* levels and any set points.                                               *)
(***************************************************************************)
EXTENDS Targets, TLAPS, FiniteSetTheorems, WellFoundedInduction

CellsP == INSTANCE ExportedCells_proofs WITH
            Actors <- Posters \cup {Reducer}, Values <- Levels

(* The reducer is past its query only while it works, and has a Set to make *)
(* only in its last step.                                                   *)
ReducerPlans ==
  /\ step # "query" => working
  /\ step # "set" => plan[Reducer] = <<>>

ReduceTypes ==
  /\ answer \in [Posters -> {"none", "writing", "success", "rejected"}]
  /\ usage \in [Nodes -> Levels]
  /\ step \in {"query", "compare", "lower", "set"}
  /\ todo \in Seq(Nodes)
  /\ step \in {"lower", "set"} => todo # <<>>
  /\ working \in BOOLEAN

TargetsInv == ReduceTypes /\ ReducerPlans /\ CellsP!CellInv

(* A nonempty set of naturals has a least element.                          *)
LEMMA LeastNatural ==
  ASSUME NEW T, T \subseteq Nat, T # {}
  PROVE  \E x \in T : \A y \in T : x <= y
<1> DEFINE F == {0..m : m \in T}
           R == StrictSubsetOrdering(Nat)
<1>1. F \subseteq FiniteSubsetsOf(Nat) /\ F # {}
  <2>1. \A m \in Nat : IsFiniteSet(0..m)
    BY FS_Interval, SMT
  <2>2. \A m \in Nat : 0..m \in SUBSET Nat
    OBVIOUS
  <2> QED
    BY <2>1, <2>2, Zenon DEF FiniteSubsetsOf
<1>2. IsWellFoundedOn(R, FiniteSubsetsOf(Nat))
  BY FS_StrictSubsetOrderingWellFounded
<1> HIDE DEF R
<1>3. PICK A \in F : \A B \in F : ~(<<B, A>> \in R)
  <2> HIDE DEF F
  <2> QED
    BY <1>1, <1>2, WFMin
<1>4. PICK x \in T : A = 0..x
  OBVIOUS
<1>5. ASSUME NEW y \in T, y < x PROVE FALSE
  <2>1. 0..y \subseteq 0..x /\ 0..y # 0..x /\ 0..y \in SUBSET Nat /\ 0..x \in SUBSET Nat
    BY <1>5
  <2>2. <<0..y, 0..x>> \in R
    BY <2>1, Zenon DEF R, StrictSubsetOrdering
  <2> QED
    BY <1>3, <1>4, <2>2
<1> QED
  BY <1>5

(* The next lower set point is a level, and never above the target.         *)
LEMMA LowerSetpointIsLower ==
  ASSUME NEW target \in Levels
  PROVE  /\ LowerSetpoint(target) \in Levels
         /\ LowerSetpoint(target) <= target
<1> DEFINE lower == {i \in DOMAIN Setpoints : Setpoints[i] < target}
<1>1. Setpoints \in Seq(Levels) /\ Levels \subseteq Nat
  BY TargetsAssumption
<1>2. CASE lower = {}
  BY <1>1, <1>2 DEF LowerSetpoint
<1>3. CASE lower # {}
  <2> DEFINE i == CHOOSE k \in lower : \A j \in lower : k <= j
  <2>1. lower \subseteq Nat
    BY <1>1
  <2>2. \E k \in lower : \A j \in lower : k <= j
    BY <1>3, <2>1, LeastNatural
  <2>3. i \in lower
    BY <2>2
  <2>4. LowerSetpoint(target) = Setpoints[i]
    BY <1>3 DEF LowerSetpoint
  <2> HIDE DEF i
  <2>5. Setpoints[i] \in Levels /\ Setpoints[i] < target
    BY <1>1, <2>3
  <2> HIDE DEF lower
  <2>6. target \in Nat /\ Setpoints[i] \in Nat
    BY <1>1, <2>5
  <2> QED
    BY <2>4, <2>5, <2>6
<1> QED
  BY <1>2, <1>3

LEMMA SomeOrder ==
  ASSUME NEW S, IsFiniteSet(S), NEW order \in SetToSeqs(S)
  PROVE  order \in Seq(S)
<1>1. Cardinality(S) \in Nat
  BY FS_CardinalityType
<1> QED
  BY <1>1 DEF SetToSeqs

-----------------------------------------------------------------------------
(* The Sets of an accepted request are writes of nodes.                     *)
LEMMA RequestsAreWrites ==
  ASSUME NEW request \in Requests, DOMAIN request \subseteq Nodes,
         NEW writes \in Writes(request)
  PROVE  writes \in Seq(CellsP!Write)
<1> DEFINE D == DOMAIN request
<1>1. IsFiniteSet(D)
  BY TargetsAssumption, FS_Subset
<1>2. request \in [D -> Levels]
  BY DEF Requests
<1>3. PICK order \in SetToSeqs(D) :
        writes = [i \in DOMAIN order |-> [node |-> order[i], value |-> request[order[i]]]]
  BY DEF Writes
<1>4. order \in Seq(D)
  BY <1>1, <1>3, SomeOrder
<1>5. \A i \in DOMAIN order : [node |-> order[i], value |-> request[order[i]]] \in CellsP!Write
  BY <1>2, <1>4 DEF CellsP!Write
<1> QED
  BY <1>3, <1>4, <1>5

LEMMA ReadsAreLevels ==
  ASSUME TargetsInv, NEW n \in Nodes
  PROVE  field[n] \in Levels
  BY DEF TargetsInv, CellsP!CellInv, CellsP!TypeOK

(* Every step is one of the cells, or leaves them alone.                    *)
LEMMA CellsStepOrStutter ==
  ASSUME TargetsInv, [Next]_vars
  PROVE  [CellsP!Next]_CellsP!vars
<1> USE DEF cellVars, CellsP!vars
<1>1. ASSUME NEW a \in Posters \cup {Reducer}, NEW writes \in Seq(CellsP!Write),
             Cells!Intend(a, writes)
      PROVE  CellsP!Next
  BY <1>1 DEF CellsP!Next, Cells!Intend, CellsP!Intend, Cells!Idle, CellsP!Idle
<1>2. ASSUME NEW p \in Posters, PostStep(p) PROVE [CellsP!Next]_CellsP!vars
  <2>1. ASSUME NEW request \in Requests, PostAccepted(p, request) PROVE CellsP!Next
    BY <1>1, <2>1, RequestsAreWrites DEF PostAccepted
  <2> QED
    BY <1>2, <2>1 DEF PostStep, PostRejected, PostAnswered
<1>3. CASE Lower
  <2> DEFINE w == [node |-> Head(todo), value |-> LowerSetpoint(field[Head(todo)])]
  <2>1. Head(todo) \in Nodes
    BY <1>3 DEF TargetsInv, ReduceTypes, Lower
  <2>2. w \in CellsP!Write
    BY <2>1, ReadsAreLevels, LowerSetpointIsLower DEF CellsP!Write
  <2>3. Cells!Intend(Reducer, <<w>>)
    BY <1>3 DEF Lower
  <2> HIDE DEF w
  <2>4. <<w>> \in Seq(CellsP!Write)
    BY <2>2
  <2> QED
    BY <1>1, <2>3, <2>4
<1>4. ASSUME NEW a \in Posters \cup {Reducer}, SetStep(a) PROVE CellsP!Next
  <2>1. CellsP!SetGauge(a) \/ CellsP!SetField(a)
    BY <1>4 DEF SetStep, Cells!SetGauge, CellsP!SetGauge, Cells!SetField, CellsP!SetField,
                Cells!Idle, CellsP!Idle, Cells!Current, CellsP!Current,
                Cells!Halfway, CellsP!Halfway
  <2> QED
    BY <2>1 DEF CellsP!Next
<1>5. CASE UNCHANGED vars
  BY <1>5 DEF vars
<1> QED
  BY <1>2, <1>3, <1>4, <1>5
  DEF Next, ReduceStep, SwitchStep, Begin, Query, QueryFails, Skip, Compare, Lowered, Finish

(* The reducer's control, and the types of the variables.                   *)
LEMMA ReduceTypesPreserved ==
  ASSUME TargetsInv, [Next]_vars
  PROVE  ReduceTypes'
<1> USE DEF switchVars, reduceVars
<1>0. ReduceTypes
  BY DEF TargetsInv
<1>1. ASSUME NEW p \in Posters, PostStep(p) PROVE ReduceTypes'
  BY <1>0, <1>1 DEF PostStep, PostAccepted, PostRejected, PostAnswered, ReduceTypes
<1>2. CASE Query
  <2>1. todo' \in Seq(Nodes)
    BY <1>2, SomeOrder, TargetsAssumption, FS_Subset DEF Query
  <2> QED
    BY <1>0, <1>2, <2>1 DEF Query, ReduceTypes
<1>3. CASE Begin \/ QueryFails
  BY <1>0, <1>3 DEF Begin, QueryFails, Switch!BeginWork, Switch!FinishWork, ReduceTypes
<1>4. CASE Skip \/ Compare \/ Lower \/ Lowered
  <2>1. todo # <<>> /\ todo' \in {todo, Tail(todo)} /\ UNCHANGED <<switchVars, usage, answer>>
    BY <1>0, <1>4 DEF Skip, Compare, Lower, Lowered, ReduceTypes
  <2>2. Tail(todo) \in Seq(Nodes)
    BY <1>0, <2>1 DEF ReduceTypes
  <2>3. step' \in {"compare", "lower", "set"} /\ (step' # "compare" => todo' = todo)
    BY <1>4 DEF Skip, Compare, Lower, Lowered
  <2> QED
    BY <1>0, <2>1, <2>2, <2>3 DEF ReduceTypes
<1>5. CASE Finish
  BY <1>0, <1>5 DEF Finish, Switch!FinishWork, ReduceTypes
<1>6. CASE SwitchStep \/ (\E a \in Posters \cup {Reducer} : SetStep(a)) \/ UNCHANGED vars
  BY <1>0, <1>6 DEF SwitchStep, SetStep, Switch!Invoke, Switch!TakeEffect, Switch!Answer,
                    vars, ReduceTypes
<1> QED
  BY <1>1, <1>2, <1>3, <1>4, <1>5, <1>6 DEF Next, ReduceStep

(* A Set of the reducer is left over in its last step only.                 *)
LEMMA ReducerPlansPreserved ==
  ASSUME TargetsInv, [Next]_vars
  PROVE  ReducerPlans'
<1> USE DEF switchVars, reduceVars, cellVars
<1>0. /\ ReduceTypes /\ ReducerPlans /\ Reducer \notin Posters
      /\ plan \in [Posters \cup {Reducer} -> Seq(CellsP!Write)]
  BY TargetsAssumption DEF TargetsInv, CellsP!CellInv, CellsP!TypeOK
<1>1. ASSUME NEW p \in Posters, PostStep(p) PROVE ReducerPlans'
  <2>1. plan'[Reducer] = plan[Reducer] /\ UNCHANGED <<step, working>>
    BY <1>0, <1>1 DEF PostStep, PostAccepted, PostRejected, PostAnswered, Cells!Intend
  <2> QED
    BY <1>0, <2>1 DEF ReducerPlans
<1>2. CASE Begin \/ Query \/ QueryFails \/ Skip \/ Compare \/ Finish
  BY <1>0, <1>2 DEF Begin, Query, QueryFails, Skip, Compare, Finish, Switch!BeginWork,
                    Switch!FinishWork, ReducerPlans
<1>3. CASE Lower \/ Lowered
  BY <1>0, <1>3 DEF Lower, Lowered, Cells!Idle, ReducerPlans
<1>4. ASSUME NEW a \in Posters \cup {Reducer}, SetStep(a) PROVE ReducerPlans'
  <2>1. UNCHANGED <<step, working>> /\ plan[a] # <<>>
    <3>1. half[a] => plan[a] # <<>>
      BY DEF TargetsInv, CellsP!CellInv, CellsP!TypeOK
    <3> QED
      BY <1>4, <3>1 DEF SetStep, Cells!SetGauge, Cells!SetField, Cells!Idle
  <2>2. a # Reducer => plan'[Reducer] = plan[Reducer]
    BY <1>0, <1>4 DEF SetStep, Cells!SetGauge, Cells!SetField
  <2> QED
    BY <1>0, <2>1, <2>2 DEF ReducerPlans
<1>5. CASE SwitchStep \/ UNCHANGED vars
  BY <1>0, <1>5 DEF SwitchStep, Switch!Invoke, Switch!TakeEffect, Switch!Answer, vars,
                    ReducerPlans
<1> QED
  BY <1>1, <1>2, <1>3, <1>4, <1>5 DEF Next, ReduceStep

-----------------------------------------------------------------------------
LEMMA InitTargetsInv == Init => TargetsInv
<1> SUFFICES ASSUME Init PROVE TargetsInv
  OBVIOUS
<1>1. CellsP!CellInv
  <2>1. CellsP!Init
    BY DEF Init, Cells!InitWith, CellsP!Init, CellsP!InitWith
  <2> QED
    BY <2>1, CellsP!InitCellInv
<1>2. ReduceTypes /\ ReducerPlans
  <2>1. step = "query" /\ todo = <<>> /\ plan[Reducer] = <<>>
    BY DEF Init, Cells!InitWith
  <2>2. /\ answer \in [Posters -> {"none", "writing", "success", "rejected"}]
        /\ usage \in [Nodes -> Levels] /\ working = FALSE
    BY DEF Init, Switch!Init
  <2>3. todo \in Seq(Nodes)
    BY <2>1
  <2>4. ReducerPlans
    BY <2>1 DEF ReducerPlans
  <2> QED
    BY <2>1, <2>2, <2>3, <2>4, Zenon DEF ReduceTypes
<1> QED
  BY <1>1, <1>2 DEF TargetsInv

LEMMA NextTargetsInv == TargetsInv /\ [Next]_vars => TargetsInv'
<1> SUFFICES ASSUME TargetsInv, [Next]_vars PROVE TargetsInv'
  OBVIOUS
<1>1. CellsP!CellInv'
  BY CellsStepOrStutter, CellsP!NextCellInv DEF TargetsInv
<1> QED
  BY <1>1, ReduceTypesPreserved, ReducerPlansPreserved DEF TargetsInv

(* TargetsInv holds in every reachable state.                               *)
THEOREM TargetsInvariance == Spec => []TargetsInv
  BY InitTargetsInv, NextTargetsInv, PTL DEF Spec

(* Every variable of the targets and the reducer keeps its type: what the   *)
(* reducer Sets is always a set point or the target it read.                *)
THEOREM TargetsTypeCorrect == Spec => []TypeOK
<1>1. TargetsInv => TypeOK
  BY DEF TargetsInv, ReduceTypes, TypeOK, CellsP!CellInv, CellsP!TypeOK, Cells!TypeOK,
         CellsP!Write, Cells!Write
<1> QED
  BY <1>1, TargetsInvariance, PTL

(* A Stop of the reducer that has returned left none of its Sets behind.    *)
THEOREM StopQuietensReducer == Spec => []StoppedReducerIsQuiet
<1>1. TargetsInv => StoppedReducerIsQuiet
  BY DEF TargetsInv, ReducerPlans, StoppedReducerIsQuiet, Cells!Idle
<1> QED
  BY <1>1, TargetsInvariance, PTL

(* The targets the strategies read are those exported, but for overlaps.    *)
THEOREM OnlyOverlappingTargetsTear == Spec => []OnlyOverlapsTear
<1>1. TargetsInv => OnlyOverlapsTear
  BY DEF TargetsInv, CellsP!CellInv, CellsP!Untorn, OnlyOverlapsTear,
         Cells!OnlyOverlapsTear, CellsP!Halfway, Cells!Halfway, CellsP!Current, Cells!Current
<1> QED
  BY <1>1, TargetsInvariance, PTL

=============================================================================
