----------------------------- MODULE SelfDriving -----------------------------
(***************************************************************************)
(* The self-driving strategy (pkg/scheduling/selfdriving.go): for each node *)
(* whose usage is too far from its target it patches the CPU limits of the  *)
(* node's pods, and then leaves a patched pod alone for a minute (the skip  *)
(* list).  The module models Reconcile, switched on; start and stop are in  *)
(* StrategyLoop.  A panic of the strategy's goroutine ends the process.     *)
(*                                                                         *)
(* CPU is in percent of a node, in integers; a quantity is truncated as in  *)
(* PercentageToResourceQuantity.  The pods of the scheduler itself, which   *)
(* are always skipped, are left out.                                        *)
(***************************************************************************)
EXTENDS Integers, Sequences, SequencesExt, FiniteSets, FiniteSetsExt

CONSTANTS
  Nodes,
  Pods,
  NodeOf,                  \* the node a pod is scheduled on
  MinCpu,                  \* the pod's minimum CPU annotation, NoMin if it has none
  Limits,                  \* the pods' first CPU limits, and those a user sets
  Diffs,                   \* values of node_cpu_diff
  MaxLimit                 \* bound: the greatest CPU limit

AdjustmentSlack == 2

NoMin == -1

ASSUME SelfDrivingAssumption ==
  /\ IsFiniteSet(Nodes) /\ IsFiniteSet(Pods)
  /\ NodeOf \in [Pods -> Nodes]
  /\ MinCpu \in [Pods -> Nat \cup {NoMin}]
  /\ MaxLimit \in Nat
  /\ Limits \subseteq 0..MaxLimit
  /\ Diffs \subseteq Int

VARIABLES
  phase, limit,            \* the pods, as the API has them
  skip,                    \* skipForNow; old: inserted more than a minute ago
  step,                    \* where the reconcile is
  counted,                 \* the nodes its query of the CPU counts answered for
  todo,                    \* the nodes in violation it has left
  seen,                    \* the candidates' limits, as it listed them
  updates                  \* the pods it has left to patch, and by how much

podVars == <<phase, limit>>
passVars == <<todo, seen, updates>>
vars == <<podVars, skip, step, counted, passVars>>

SkipItem == [pod : Pods, old : BOOLEAN]

(* "fresh": scheduled less than a minute ago. *)
Phases == {"fresh", "ripe", "completed", "deleted"}

NoUpdates == [p \in {} |-> 0]

Init ==
  /\ phase = [p \in Pods |-> "fresh"]
  /\ limit \in [Pods -> Limits]
  /\ skip = <<>>
  /\ step = "query"
  /\ counted = {}
  /\ todo = <<>>
  /\ seen = NoUpdates
  /\ updates = NoUpdates

-----------------------------------------------------------------------------
(* Pods and time. *)

Ages(p) ==
  /\ \/ phase[p] = "fresh" /\ phase' = [phase EXCEPT ![p] = "ripe"]
     \/ phase[p] = "ripe" /\ phase' = [phase EXCEPT ![p] = "completed"]
     \/ phase[p] # "deleted" /\ phase' = [phase EXCEPT ![p] = "deleted"]
  /\ UNCHANGED <<limit, skip, step, counted, passVars>>

(* PATCH /workload. *)
PatchWorkload(p, new) ==
  /\ phase[p] # "deleted"
  /\ limit' = [limit EXCEPT ![p] = new]
  /\ UNCHANGED <<phase, skip, step, counted, passVars>>

(* A minute has passed since the insertion; the list is in that order. *)
Expires(i) ==
  /\ ~skip[i].old
  /\ \A j \in 1..i-1 : skip[j].old
  /\ skip' = [skip EXCEPT ![i].old = TRUE]
  /\ UNCHANGED <<podVars, step, counted, passVars>>

-----------------------------------------------------------------------------
(* Reconcile. *)

(* Mutant of NextNode: the updates of the last node are kept. *)
NextNodeKeepsUpdates(left) ==
  /\ todo' = left
  /\ step' = IF left = <<>> THEN "query" ELSE "refresh"
  /\ seen' = NoUpdates
  /\ updates' = updates

(* The next node in violation, or the next reconcile. *)
NextNode(left) ==
  /\ todo' = left
  /\ step' = IF left = <<>> THEN "query" ELSE "refresh"
  /\ seen' = NoUpdates
  /\ updates' = NoUpdates

isNodeAboveTarget(d) == d > AdjustmentSlack

isNodeBelowTarget(d) == d < -AdjustmentSlack

InViolation(diffs) ==
  {n \in DOMAIN diffs : isNodeAboveTarget(diffs[n]) \/ isNodeBelowTarget(diffs[n])}

(* The query of the CPU counts may lack nodes, or fail: the error is        *)
(* overwritten by that of the query of the diffs, and no node is counted.   *)
Query(diffs, counts) ==
  /\ step = "query"
  /\ \E order \in SetToSeqs(InViolation(diffs)) :
       NextNode([i \in DOMAIN order |-> [node |-> order[i], diff |-> diffs[order[i]]]])
  /\ counted' = counts
  /\ UNCHANGED <<podVars, skip>>

(* A query, a list or a patch failed: the reconcile returns the error. *)
Fails ==
  /\ step \in {"refresh", "list", "patch"}
  /\ NextNode(<<>>)
  /\ UNCHANGED <<podVars, skip, counted>>

(* Mutant of removeIndex: the item after it is removed. *)
removeNext(s, i) == IF i < Len(s) THEN RemoveAt(s, i + 1) ELSE s

removeIndex(s, i) == RemoveAt(s, i)

(* Mutant of Removable: the time since the insertion is not looked at. *)
OnlyCompleted(item) == phase[item.pod] = "completed"

(* isPodCompleted is false of a pod that is not found. *)
Removable(item) == item.old \/ phase[item.pod] = "completed"

(* Mutant of RefreshItem: the last index counts as out of range.            *)
RefreshItemBefore(s, i) ==
  IF s.panic \/ ~Removable(skip[i]) THEN s
  ELSE IF i >= Len(s.list) THEN [s EXCEPT !.panic = TRUE]
  ELSE [s EXCEPT !.list = removeIndex(@, i)]

(* The loop of refreshSkiplist ranges over the list as it was, and removes  *)
(* from the list as it is; an index out of its range panics.                *)
RefreshItem(s, i) ==
  IF s.panic \/ ~Removable(skip[i]) THEN s
  ELSE IF i > Len(s.list) THEN [s EXCEPT !.panic = TRUE]
  ELSE [s EXCEPT !.list = removeIndex(@, i)]

refreshSkiplist[i \in 0..Len(skip)] ==
  IF i = 0 THEN [panic |-> FALSE, list |-> skip]
  ELSE RefreshItem(refreshSkiplist[i-1], i)

Refreshed == refreshSkiplist[Len(skip)]

Refresh ==
  /\ step = "refresh"
  /\ skip' = Refreshed.list
  /\ step' = IF Refreshed.panic THEN "panicked" ELSE "list"
  /\ UNCHANGED <<podVars, counted, passVars>>

(* The process is restarted and the strategy switched on again. *)
Restart ==
  /\ step = "panicked"
  /\ NextNode(<<>>)
  /\ skip' = <<>>
  /\ UNCHANGED <<podVars, counted>>

(* Mutant of shouldSkipPod: the skip list is not looked at. *)
skipOnlyFresh(p) == phase[p] = "fresh"

shouldSkipPod(p) == phase[p] = "fresh" \/ \E i \in DOMAIN skip : skip[i].pod = p

Candidates(n) ==
  {p \in Pods : NodeOf[p] = n /\ phase[p] # "deleted" /\ ~shouldSkipPod(p)}

Abs(d) == IF d < 0 THEN -d ELSE d

(* Pods whose own minimum is below the diff (the code's comment means: that *)
(* the adjustment would take below their minimum).                          *)
Subceeding(pods, d) == {p \in pods : MinCpu[p] # NoMin /\ MinCpu[p] < Abs(d)}

Partial(p) == limit[p] - MinCpu[p]

(* Mutant of Share: the special pods are not taken out of the count. *)
ShareOfAll(pods, special, d) ==
  [num |-> d - MapThenSumSet(Partial, special), den |-> Cardinality(pods)]

Share(pods, special, d) ==
  [num |-> d - MapThenSumSet(Partial, special), den |-> Cardinality(pods \ special)]

(* An infinity or NaN, of a division by a CPU count of 0. *)
NotFinite == [num |-> 1, den |-> 0]

(* getViolatingPodsDelta: fractions of a percent, by pod.  The limits of    *)
(* special pods are taken by the node's CPU count, 0 if there is none.      *)
Deltas(node, pods, d) ==
  LET special == Subceeding(pods, d)
      annotated == {p \in pods : MinCpu[p] # NoMin}
  IN  IF d >= 0 THEN [p \in pods |-> [num |-> d, den |-> Cardinality(pods)]]
      ELSE IF node \notin counted /\ special # {}
           THEN [p \in annotated |-> NotFinite]
      ELSE [p \in annotated |-> IF p \in special THEN [num |-> Partial(p), den |-> 1]
                                ELSE Share(pods, special, d)]

(* Pods with an update of zero are not patched. *)
ListPods ==
  LET node == Head(todo)
      pods == Candidates(node.node)
      deltas == Deltas(node.node, pods, node.diff)
      changed == {p \in DOMAIN deltas : deltas[p].num # 0}
  IN  /\ step = "list"
      /\ IF changed = {} THEN NextNode(Tail(todo))
         ELSE /\ seen' = [p \in pods |-> limit[p]]
              /\ updates' = [p \in changed |-> deltas[p]]
              /\ step' = "patch"
              /\ todo' = todo
      /\ UNCHANGED <<podVars, skip, counted>>

Truncated(f) == IF f.num < 0 THEN -((-f.num) \div f.den) ELSE f.num \div f.den

(* Stands for the least int64, which no limit outweighs. *)
MinInt == -(MaxLimit + 1)

(* Mutant of Quantities: a node without a count is taken to have another's. *)
QuantitiesOfAny(update) ==
  IF update = NotFinite THEN {0, MinInt} ELSE {Truncated(update)}

(* PercentageToResourceQuantity.  A count of 0 makes the update 0, or NaN,   *)
(* which the processor converts to 0 (arm64) or to the least int64 (amd64). *)
Quantities(update) ==
  IF Head(todo).node \in counted THEN {Truncated(update)}
  ELSE IF update = NotFinite THEN {0, MinInt} ELSE {0}

NewLimits(p) ==
  {IF isNodeAboveTarget(Head(todo).diff) THEN seen[p] - q ELSE seen[p] + q :
     q \in Quantities(updates[p])}

(* PatchCpuLimit: the API refuses a negative limit, and that of a pod which *)
(* is no longer there.                                                      *)
Patch(p) ==
  /\ step = "patch"
  /\ phase[p] # "deleted"
  /\ \E new \in NewLimits(p) \cap 0..MaxLimit : limit' = [limit EXCEPT ![p] = new]

Patched(p) ==
  /\ Patch(p)
  /\ skip' = Append(skip, [pod |-> p, old |-> FALSE])
  /\ IF DOMAIN updates = {p} THEN NextNode(Tail(todo))
     ELSE /\ updates' = [q \in DOMAIN updates \ {p} |-> updates[q]]
          /\ UNCHANGED <<step, todo, seen>>
  /\ UNCHANGED <<phase, counted>>

(* The limit is patched and the API's reply lost. *)
PatchReplyLost(p) ==
  /\ Patch(p)
  /\ NextNode(<<>>)
  /\ UNCHANGED <<phase, skip, counted>>

ReconcileStep ==
  \/ \E n \in SUBSET Nodes : \E diffs \in [n -> Diffs], counts \in SUBSET Nodes :
       Query(diffs, counts)
  \/ Refresh
  \/ ListPods
  \/ \E p \in DOMAIN updates : Patched(p) \/ PatchReplyLost(p)
  \/ Fails
  \/ Restart

Next ==
  \/ \E p \in Pods : Ages(p) \/ \E new \in Limits : PatchWorkload(p, new)
  \/ \E i \in DOMAIN skip : Expires(i)
  \/ ReconcileStep

(* The loop runs, time passes, the API does not fail for ever, and some     *)
(* node is in violation again and again.                                    *)
Fairness ==
  /\ WF_vars(ReconcileStep)
  /\ SF_vars(step = "query" /\ ReconcileStep /\ step' = "refresh")
  /\ SF_vars(Refresh)
  /\ WF_vars(\E i \in DOMAIN skip : Expires(i))

Spec == Init /\ [][Next]_vars

FairSpec == Spec /\ Fairness

-----------------------------------------------------------------------------
(* Properties. *)

TypeOK ==
  /\ phase \in [Pods -> Phases]
  /\ limit \in [Pods -> 0..MaxLimit]
  /\ skip \in Seq(SkipItem)
  /\ step \in {"query", "refresh", "list", "patch", "panicked"}
  /\ counted \subseteq Nodes
  /\ todo \in Seq([node : Nodes, diff : Diffs])
  /\ DOMAIN seen \subseteq Pods /\ DOMAIN updates \subseteq DOMAIN seen
  /\ step = "patch" <=> updates # NoUpdates

(* No pod is on the skip list twice, though a reconcile adds pods one by    *)
(* one, may be cut short between them, and starts again: the list stays     *)
(* shorter than the number of pods (selfdriving.go 84-112, 142-163).        *)
NoDuplicateSkips ==
  \A i, j \in DOMAIN skip : skip[i].pod = skip[j].pod => i = j

RemovableItems == {i \in DOMAIN skip : Removable(skip[i])}

(* "Remove all items from skip where timeSSi > 1m OR where the              *)
(* corresponding pod is completed" (selfdriving.go:120), and no others.     *)
RefreshRemovesExpired ==
  [][step = "refresh" /\ step' \in {"list", "panicked"}
       => skip' = SelectSeq(skip, LAMBDA item : ~Removable(item))]_vars

(* As long as one item at most is to be removed, the refresh does not panic *)
(* and removes just that one, wherever in the list it is (selfdriving.go    *)
(* 119-140: the index is one of the old list, the list the new one).        *)
OneExpiryIsExact ==
  [][step = "refresh" /\ step' \in {"list", "panicked"} =>
       /\ RemovableItems = {} => step' = "list" /\ skip' = skip
       /\ \A i \in DOMAIN skip :
            RemovableItems = {i} => step' = "list" /\ skip' = RemoveAt(skip, i)]_vars

RemovedBefore(i) == Cardinality({j \in RemovableItems : j < i})

(* With more items to remove the refresh ends the process just when one of  *)
(* them stands beyond the end that the list has by then; if none does, it   *)
(* removes as many items as it should, though others (selfdriving.go        *)
(* 119-140).                                                                *)
PanicsBeyondTheEnd ==
  [][step = "refresh" /\ step' \in {"list", "panicked"} =>
       /\ (step' = "panicked") <=>
            (\E i \in RemovableItems : i > Len(skip) - RemovedBefore(i))
       /\ step' = "list" => Len(skip') = Len(skip) - Cardinality(RemovableItems)]_vars

(* If the CPU count of the node is known, the updates of its pods sum to    *)
(* its diff, provided every candidate has a minimum, or the diff is         *)
(* positive, and one pod at least is not a special case of its own: what    *)
(* the special ones get, be it more CPU, the others make up for             *)
(* (selfdriving.go 324-404).                                                *)
UpdatesSumToDiff ==
  [][step = "list" /\ step' = "patch" /\ Head(todo).node \in counted =>
       LET d == Head(todo).diff
           pods == DOMAIN seen'
           den == Max({updates'[p].den : p \in DOMAIN updates'})
           Scaled(p) == updates'[p].num * (den \div updates'[p].den)
       IN  d > 0 \/ ((\A p \in pods : MinCpu[p] # NoMin) /\ Subceeding(pods, d) # pods)
             => MapThenSumSet(Scaled, DOMAIN updates') = d * den]_vars

(* If it is not, because its query failed and the reconcile went on, the    *)
(* divisions by 0 adjust no pod, to nothing arbitrary either: a patch that  *)
(* the API accepts writes back the limit that was listed (selfdriving.go    *)
(* 50-52, 93-107, 377-401, kubeclient.go 247-252).                          *)
UncountedIsNotAdjusted ==
  [][step = "patch" /\ Head(todo).node \notin counted /\ updates' # updates =>
       \A p \in Pods : limit'[p] # limit[p] => p \in DOMAIN updates /\ limit'[p] = seen[p]]_vars

(* A patched pod does not stay on the skip list for ever, whatever else the *)
(* refreshes remove (selfdriving.go 119-140).                               *)
SkipEnds ==
  \A p \in Pods :
    (\E i \in DOMAIN skip : skip[i].pod = p) ~> (\A i \in DOMAIN skip : skip[i].pod # p)

=============================================================================
