------------------------ MODULE ExportedCells_proofs ------------------------
(***************************************************************************)
(* Theorems about ExportedCells, for any goroutines, nodes and values.      *)
(*                                                                         *)
(* A node whose Sets never overlapped has at most one goroutine halfway     *)
(* through setting it.  CellInv says so, and what that goroutine has        *)
(* written: without it, the end of one Set could pair its field with the    *)
(* gauge of another.                                                        *)
(***************************************************************************)
EXTENDS ExportedCells, TLAPS

Untorn(n) ==
  /\ \A a, b \in Actors : Halfway(a, n) /\ Halfway(b, n) => a = b
  /\ \A a \in Actors : Halfway(a, n) => gauge[n] = Current(a).value
  /\ (\A a \in Actors : ~Halfway(a, n)) => gauge[n] = field[n]

CellInv ==
  /\ TypeOK
  /\ \A n \in Nodes \ torn : Untorn(n)

(* Before the first Set, every field is the value of its gauge.             *)
LEMMA InitCellInv == Init => CellInv
  BY DEF Init, InitWith, CellInv, TypeOK, Untorn, Halfway

(* What a goroutine has left to set begins with a Set of a node.            *)
LEMMA CurrentIsAWrite ==
  ASSUME TypeOK, NEW a \in Actors, ~Idle(a)
  PROVE  /\ Current(a) \in Write
         /\ Current(a).node \in Nodes /\ Current(a).value \in Values
         /\ Tail(plan[a]) \in Seq(Write)
<1>1. plan[a] \in Seq(Write) /\ plan[a] # <<>>
  BY DEF TypeOK, Idle
<1>2. Head(plan[a]) \in Write /\ Tail(plan[a]) \in Seq(Write)
  BY <1>1
<1> QED
  BY <1>2 DEF Current, Write

(* Every step of a goroutine preserves CellInv.                             *)
LEMMA NextCellInv == CellInv /\ [Next]_vars => CellInv'
<1> SUFFICES ASSUME CellInv, [Next]_vars PROVE CellInv'
  OBVIOUS
<1>0. TypeOK /\ \A n \in Nodes \ torn : Untorn(n)
  BY DEF CellInv
<1>1. ASSUME NEW a \in Actors, SetGauge(a) PROVE CellInv'
  <2>1. Current(a).node \in Nodes /\ Current(a).value \in Values
    BY <1>0, <1>1, CurrentIsAWrite DEF SetGauge
  <2>2. TypeOK'
    BY <1>0, <1>1, <2>1 DEF SetGauge, TypeOK, Idle
  <2>3. /\ plan' = plan /\ field' = field
        /\ \A b \in Actors : half'[b] = IF b = a THEN TRUE ELSE half[b]
        /\ \A n \in Nodes : gauge'[n] = IF n = Current(a).node THEN Current(a).value ELSE gauge[n]
        /\ ~half[a]
    BY <1>0, <1>1, <2>1 DEF SetGauge, TypeOK
  <2>4. ASSUME NEW n \in Nodes \ torn' PROVE Untorn(n)'
    <3>1. n \in Nodes \ torn /\ Untorn(n)
      BY <1>0, <1>1, <2>4 DEF SetGauge
    <3>2. \A b \in Actors : Halfway(b, n)' <=> Halfway(b, n) \/ (b = a /\ n = Current(a).node)
      BY <2>3 DEF Halfway, Current
    <3>3. CASE n = Current(a).node
      <4>1. \A b \in Actors : ~Halfway(b, n)
        BY <1>1, <2>4, <3>3 DEF SetGauge
      <4> QED
        BY <2>3, <3>2, <3>3, <4>1 DEF Untorn, Current
    <3>4. CASE n # Current(a).node
      BY <2>3, <3>1, <3>2, <3>4 DEF Untorn, Current
    <3> QED
      BY <3>3, <3>4
  <2> QED
    BY <2>2, <2>4 DEF CellInv
<1>2. ASSUME NEW a \in Actors, SetField(a) PROVE CellInv'
  <2>1. ~Idle(a) /\ half[a]
    BY <1>0, <1>2 DEF SetField, TypeOK, Idle
  <2>2. /\ Current(a).node \in Nodes /\ Current(a).value \in Values
        /\ Tail(plan[a]) \in Seq(Write)
    BY <1>0, <2>1, CurrentIsAWrite
  <2>3. TypeOK'
    BY <1>0, <1>2, <2>2 DEF SetField, TypeOK
  <2>4. /\ gauge' = gauge /\ torn' = torn
        /\ \A b \in Actors : b # a => plan'[b] = plan[b] /\ half'[b] = half[b]
        /\ ~half'[a]
        /\ \A n \in Nodes : field'[n] = IF n = Current(a).node THEN Current(a).value ELSE field[n]
    BY <1>0, <1>2, <2>2 DEF SetField, TypeOK
  <2>5. ASSUME NEW n \in Nodes \ torn' PROVE Untorn(n)'
    <3>1. n \in Nodes \ torn /\ Untorn(n)
      BY <1>0, <2>4, <2>5
    <3>2. \A b \in Actors : Halfway(b, n)' <=> b # a /\ Halfway(b, n)
      BY <2>4 DEF Halfway, Current
    <3>3. CASE n = Current(a).node
      <4>1. Halfway(a, n)
        BY <2>1, <3>3 DEF Halfway
      <4> QED
        BY <2>4, <3>1, <3>2, <3>3, <4>1 DEF Untorn
    <3>4. CASE n # Current(a).node
      <4>1. ~Halfway(a, n)
        BY <3>4 DEF Halfway
      <4>2. \A b \in Actors : b # a => Current(b)' = Current(b)
        BY <2>4 DEF Current
      <4> QED
        BY <2>4, <3>1, <3>2, <3>4, <4>1, <4>2 DEF Untorn
    <3> QED
      BY <3>3, <3>4
  <2> QED
    BY <2>3, <2>5 DEF CellInv
<1>3. ASSUME NEW a \in Actors, NEW writes \in Seq(Write), Intend(a, writes) PROVE CellInv'
  <2>1. ~half[a] /\ plan[a] = <<>>
    BY <1>0, <1>3 DEF Intend, Idle, TypeOK
  <2>2. TypeOK'
    BY <1>0, <1>3, <2>1 DEF Intend, TypeOK
  <2>3. /\ UNCHANGED <<gauge, field, half, torn>>
        /\ \A b \in Actors : b # a => plan'[b] = plan[b]
    BY <1>0, <1>3 DEF Intend, TypeOK
  <2>4. \A n \in Nodes, b \in Actors :
          /\ Halfway(b, n)' <=> Halfway(b, n)
          /\ Halfway(b, n) => Current(b)' = Current(b)
    BY <2>1, <2>3 DEF Halfway, Current
  <2>5. \A n \in Nodes \ torn' : Untorn(n)'
    BY <1>0, <2>3, <2>4 DEF Untorn
  <2> QED
    BY <2>2, <2>5 DEF CellInv
<1>4. CASE UNCHANGED vars
  BY <1>0, <1>4 DEF vars, CellInv, TypeOK, Untorn, Halfway, Current
<1> QED
  BY <1>1, <1>2, <1>3, <1>4 DEF Next

(* Only overlapping Sets make what the program reads differ from what it    *)
(* exports (Target.Set and Schedulable.Set of orchestration.go).            *)
THEOREM TearsNeedOverlap == Spec => []OnlyOverlapsTear
<1>1. CellInv => OnlyOverlapsTear
  BY DEF CellInv, Untorn, OnlyOverlapsTear
<1> QED
  BY <1>1, InitCellInv, NextCellInv, PTL DEF Spec

(* The cells keep their types, and a goroutine halfway through a Set has    *)
(* that Set in its plan.                                                    *)
THEOREM CellTypes == Spec => []TypeOK
<1>1. CellInv => TypeOK
  BY DEF CellInv
<1> QED
  BY <1>1, InitCellInv, NextCellInv, PTL DEF Spec

=============================================================================
