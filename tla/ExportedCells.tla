--------------------------- MODULE ExportedCells ---------------------------
(***************************************************************************)
(* The two-part values target-exporter keeps per node: Target (a CPU target *)
(* in percent) and Schedulable (0 or 1).  Each is a struct field, which the *)
(* strategies and GET handlers read, beside a Prometheus gauge, which is    *)
(* what the cluster sees.  Set writes the gauge, then the field; there is   *)
(* no lock, so two goroutines that Set one node's cell can interleave.      *)
(*                                                                         *)
(* The module is instantiated once per kind of value.  A goroutine puts the *)
(* Sets it is about to make in its plan, and makes them in that order.      *)
(***************************************************************************)
EXTENDS Sequences

CONSTANTS
  Actors,                  \* goroutines that call Set
  Nodes,                   \* the nodes of the configuration file
  Values                   \* what a cell can hold

VARIABLES
  gauge, field,            \* per node: what is exported, what the program reads
  plan,                    \* per goroutine: the Sets it has left, oldest first
  half,                    \* has the goroutine done the first half of that Set?
  torn                     \* history: the nodes for which two Sets overlapped

vars == <<gauge, field, plan, half, torn>>

Write == [node : Nodes, value : Values]

TypeOK ==
  /\ gauge \in [Nodes -> Values]
  /\ field \in [Nodes -> Values]
  /\ plan \in [Actors -> Seq(Write)]
  /\ half \in [Actors -> BOOLEAN]
  /\ torn \subseteq Nodes
  /\ \A a \in Actors : half[a] => plan[a] # <<>>

InitWith(v) ==
  /\ gauge = v
  /\ field = v
  /\ plan = [a \in Actors |-> <<>>]
  /\ half = [a \in Actors |-> FALSE]
  /\ torn = {}

-----------------------------------------------------------------------------
Current(a) == Head(plan[a])

Idle(a) == plan[a] = <<>>

(* a is between the two assignments of a Set of node n. *)
Halfway(a, n) == half[a] /\ Current(a).node = n

(* A goroutine decides on its next Sets. *)
Intend(a, writes) ==
  /\ Idle(a)
  /\ plan' = [plan EXCEPT ![a] = writes]
  /\ UNCHANGED <<gauge, field, half, torn>>

(* Mutant of SetGauge: nothing is exported. *)
SkipGauge(a) ==
  /\ ~Idle(a)
  /\ ~half[a]
  /\ half' = [half EXCEPT ![a] = TRUE]
  /\ UNCHANGED <<gauge, field, plan, torn>>

(* gauge.Set *)
SetGauge(a) ==
  /\ ~Idle(a)
  /\ ~half[a]
  /\ gauge' = [gauge EXCEPT ![Current(a).node] = Current(a).value]
  /\ half' = [half EXCEPT ![a] = TRUE]
  /\ torn' = torn \cup {n \in {Current(a).node} : \E b \in Actors : Halfway(b, n)}
  /\ UNCHANGED <<field, plan>>

(* Mutant of SetField: the next Set begins as if its gauge were written. *)
SetFieldKeepsHalf(a) ==
  /\ half[a]
  /\ field' = [field EXCEPT ![Current(a).node] = Current(a).value]
  /\ plan' = [plan EXCEPT ![a] = Tail(@)]
  /\ UNCHANGED <<gauge, half, torn>>

(* The assignment to the field, after which Set returns. *)
SetField(a) ==
  /\ half[a]
  /\ field' = [field EXCEPT ![Current(a).node] = Current(a).value]
  /\ plan' = [plan EXCEPT ![a] = Tail(@)]
  /\ half' = [half EXCEPT ![a] = FALSE]
  /\ UNCHANGED <<gauge, torn>>

Next ==
  \E a \in Actors :
    \/ SetGauge(a)
    \/ SetField(a)
    \/ \E writes \in Seq(Write) : Intend(a, writes)

Init == \E v \in [Nodes -> Values] : InitWith(v)

Spec == Init /\ [][Next]_vars

-----------------------------------------------------------------------------
(* What the program reads is what it exports, except for a node that some   *)
(* goroutine is halfway through setting, and for one whose Sets have once   *)
(* overlapped: after that they can differ until the next Set (Target.Set,   *)
(* Schedulable.Set).                                                        *)
OnlyOverlapsTear ==
  \A n \in Nodes :
    gauge[n] # field[n] => n \in torn \/ \E a \in Actors : Halfway(a, n)

=============================================================================
