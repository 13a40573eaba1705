----------------------------- MODULE ServerOnOff -----------------------------
(***************************************************************************)
(* The server on/off strategy (pkg/scheduling/serveronoff.go) and its       *)
(* connections to the BMCs of the servers (pkg/serverswitch/ipmi.go).       *)
(*                                                                         *)
(* The strategy is a BaseConcurrentStrategy (StrategyLoop) which main       *)
(* starts.  Its reconcile asks the BMC of every node that Prometheus        *)
(* reports whether the server is on (what it would do with the answer is    *)
(* commented out), and after an error reconnects to the BMC until that      *)
(* succeeds, however long it takes.                                         *)
(*                                                                         *)
(* The connections are opened once, at boot.  A node whose connection could *)
(* not be opened then has no switch: when it is reported, the nil pointer   *)
(* panics in the loop, the process ends, and Kubernetes boots it again.     *)
(***************************************************************************)
EXTENDS StrategyLoop

CONSTANT Nodes             \* the nodes with a BMC, bmcNodeMappings

VARIABLES
  up,                      \* is the process running?
  reachable,               \* environment: does the node's BMC answer?
  switch,                  \* serverSwitches: the state of the node's client
  step,                    \* per loop: has its reconcile asked Prometheus?
  left,                    \* per loop: the nodes its reconcile has left to check
  retrying                 \* per loop: the node it is reconnecting to, if any

bmcVars == <<reachable, switch>>
onOffVars == <<up, bmcVars, step, left, retrying>>
allVars == <<vars, onOffVars>>

(* "none": no switch in the map.  "broken": Send on the client fails.       *)
SwitchStates == {"none", "open", "broken"}

Steps == {"ask", "check"}

(* Mutant of Opened: the switch that was opened is not kept. *)
OpenedNotKept == [n \in Nodes |-> "none"]

(* initServerOnOff: a connection that cannot be opened is passed over. *)
Opened == [n \in Nodes |-> IF reachable[n] THEN "open" ELSE "none"]

OnOffInit ==
  /\ InitStartedByMain
  /\ up = TRUE
  /\ reachable \in [Nodes -> BOOLEAN]
  /\ switch = Opened
  /\ step = [l \in Loops |-> "ask"]
  /\ left = [l \in Loops |-> {}]
  /\ retrying = [l \in Loops |-> {}]

-----------------------------------------------------------------------------
(* The BMCs.  A connection that was lost stays broken until it is reopened. *)

BmcGoes(n) ==
  /\ reachable[n]
  /\ reachable' = [reachable EXCEPT ![n] = FALSE]
  /\ switch' = [switch EXCEPT ![n] = IF @ = "open" THEN "broken" ELSE @]
  /\ UNCHANGED <<vars, up, step, left, retrying>>

BmcComes(n) ==
  /\ ~reachable[n]
  /\ reachable' = [reachable EXCEPT ![n] = TRUE]
  /\ UNCHANGED <<vars, up, switch, step, left, retrying>>

-----------------------------------------------------------------------------
(* Reconcile. *)

Reconciling(l, s) ==
  /\ up
  /\ loop[l] = "reconcile"
  /\ step[l] = s
  /\ retrying[l] = {}

(* The average usages of the nodes that have samples. *)
Ask(l, reported) ==
  /\ Reconciling(l, "ask")
  /\ step' = [step EXCEPT ![l] = "check"]
  /\ left' = [left EXCEPT ![l] = reported]
  /\ UNCHANGED <<vars, up, bmcVars, retrying>>

(* The query failed: the loop logs the error. *)
AskFails(l) ==
  /\ Reconciling(l, "ask")
  /\ Reconciled(l)
  /\ UNCHANGED onOffVars

(* IsServerOn returns an answer, *)
Check(l, n) ==
  /\ Reconciling(l, "check")
  /\ n \in left[l]
  /\ switch[n] = "open"
  /\ left' = [left EXCEPT ![l] = @ \ {n}]
  /\ UNCHANGED <<vars, up, bmcVars, step, retrying>>

(* Mutant of CheckFails: the retries are left to another goroutine. *)
RetryInBackground(l, n) ==
  /\ Reconciling(l, "check")
  /\ n \in left[l]
  /\ switch[n] # "none"
  /\ Reconciled(l)
  /\ retrying' = [retrying EXCEPT ![l] = {n}]
  /\ UNCHANGED <<up, bmcVars, step, left>>

(* or an error (the connection is broken, or the command did not complete), *)
CheckFails(l, n) ==
  /\ Reconciling(l, "check")
  /\ n \in left[l]
  /\ switch[n] # "none"
  /\ left' = [left EXCEPT ![l] = @ \ {n}]
  /\ retrying' = [retrying EXCEPT ![l] = {n}]
  /\ UNCHANGED <<vars, up, bmcVars, step>>

(* Mutant of CheckPanics: the loop recovers from the panic, and is gone. *)
PanicEndsTheLoop(l, n) ==
  /\ Reconciling(l, "check")
  /\ n \in left[l]
  /\ switch[n] = "none"
  /\ loop' = [loop EXCEPT ![l] = "none"]
  /\ UNCHANGED <<published, callVars, locked, initialized, isRunning, run, command, onOffVars>>

(* or dereferences a nil pointer. *)
CheckPanics(l, n) ==
  /\ Reconciling(l, "check")
  /\ n \in left[l]
  /\ switch[n] = "none"
  /\ up' = FALSE
  /\ UNCHANGED <<vars, bmcVars, step, left, retrying>>

(* Mutant of RetryFails: the client is left closed, in no state that the    *)
(* other methods know.                                                      *)
RetryFailsClosed(l, n) ==
  /\ up
  /\ n \in retrying[l]
  /\ switch' = [switch EXCEPT ![n] = "closed"]
  /\ UNCHANGED <<vars, up, reachable, step, left, retrying>>

(* RetryConn closes the connection, and opens a new one or fails. *)
RetryFails(l, n) ==
  /\ up
  /\ n \in retrying[l]
  /\ switch' = [switch EXCEPT ![n] = "broken"]
  /\ UNCHANGED <<vars, up, reachable, step, left, retrying>>

(* Mutant of Retried: the loop of retryServerConn is not left. *)
RetriedAgain(l, n) ==
  /\ up
  /\ n \in retrying[l]
  /\ reachable[n]
  /\ switch' = [switch EXCEPT ![n] = "open"]
  /\ UNCHANGED <<vars, up, reachable, step, left, retrying>>

Retried(l, n) ==
  /\ up
  /\ n \in retrying[l]
  /\ reachable[n]
  /\ switch' = [switch EXCEPT ![n] = "open"]
  /\ retrying' = [retrying EXCEPT ![l] = {}]
  /\ UNCHANGED <<vars, up, reachable, step, left>>

CheckedAll(l) ==
  /\ Reconciling(l, "check")
  /\ left[l] = {}
  /\ Reconciled(l)
  /\ step' = [step EXCEPT ![l] = "ask"]
  /\ UNCHANGED <<up, bmcVars, left, retrying>>

-----------------------------------------------------------------------------
(* The process boots again, its requests and goroutines gone. *)
Boot ==
  /\ ~up
  /\ up' = TRUE
  /\ published' = FALSE
  /\ op' = [t \in Threads |-> Start]
  /\ pc' = [t \in Threads |-> IF t = Main THEN "lock" ELSE "idle"]
  /\ locked' = FALSE
  /\ initialized' = FALSE
  /\ isRunning' = FALSE
  /\ loop' = [l \in Loops |-> "none"]
  /\ run' = [l \in Loops |-> FALSE]
  /\ command' = [l \in Loops |-> Stop]
  /\ switch' = Opened
  /\ step' = [l \in Loops |-> "ask"]
  /\ left' = [l \in Loops |-> {}]
  /\ retrying' = [l \in Loops |-> {}]
  /\ UNCHANGED reachable

(* StrategyLoop's steps but the end of a reconcile. *)
CallStep(t) == up /\ ThreadStep(t) /\ UNCHANGED onOffVars

PollStep(l) ==
  /\ up
  /\ \/ \E t \in Threads : Receive(l, t)
     \/ NoCommand(l)
     \/ Apply(l)
     \/ Wake(l)
  /\ UNCHANGED onOffVars

ReconcileStep(l) ==
  \/ \E reported \in SUBSET Nodes : Ask(l, reported)
  \/ AskFails(l)
  \/ \E n \in Nodes :
       Check(l, n) \/ CheckFails(l, n) \/ CheckPanics(l, n) \/ RetryFails(l, n) \/ Retried(l, n)
  \/ CheckedAll(l)

OnOffNext ==
  \/ \E n \in Nodes : BmcGoes(n) \/ BmcComes(n)
  \/ \E t \in Threads : CallStep(t)
  \/ \E l \in Loops : PollStep(l) \/ ReconcileStep(l)
  \/ Boot

(* As in StrategyLoop; and a BMC that answers is connected to in the end.   *)
OnOffFairness ==
  /\ \A t \in Threads :
       /\ SF_allVars(up /\ Lock(t) /\ UNCHANGED onOffVars)
       /\ WF_allVars(/\ up
                     /\ Launch(t) \/ AlreadyLaunched(t) \/ Unlock(t) \/ Return(t)
                     /\ UNCHANGED onOffVars)
  /\ \A l \in Loops :
       /\ WF_allVars(PollStep(l))
       /\ WF_allVars(ReconcileStep(l))
       /\ \A n \in Nodes : WF_allVars(Retried(l, n))
  /\ WF_allVars(Boot)

OnOffSpec == OnOffInit /\ [][OnOffNext]_allVars

OnOffFairSpec == OnOffSpec /\ OnOffFairness

-----------------------------------------------------------------------------
(* Properties. *)

OnOffTypeOK ==
  /\ TypeOK
  /\ up \in BOOLEAN
  /\ reachable \in [Nodes -> BOOLEAN]
  /\ switch \in [Nodes -> SwitchStates]
  /\ step \in [Loops -> Steps]
  /\ left \in [Loops -> SUBSET Nodes]
  /\ retrying \in [Loops -> SUBSET Nodes]

(* A strategy that is off leaves the BMCs alone: a Stop that has taken      *)
(* effect left no retry behind, however long the BMC had not answered, nor  *)
(* does one survive the end of the process (serveronoff.go Reconcile,       *)
(* retryServerConn).                                                        *)
RetriesOnlyWhenOn ==
  \A l \in Loops :
    retrying[l] # {} => loop[l] = "reconcile" /\ Desired = Start

(* Seen by its callers the strategy remains one switch, whose commands take *)
(* effect one by one and never during a reconcile, however long it retries. *)
(* A panic ends it between two of its steps, and the boot after that finds  *)
(* it off, with no command carried over and no reconcile left behind        *)
(* (strategy.go Start, Stop, run; main.go initOrchestrator).  The variable  *)
(* up is the one of this module.                                            *)
Restarting == INSTANCE RestartingSwitch WITH
                Clients <- Threads,
                phase <- [t \in Threads |-> AbstractPhase(t)],
                wants <- op,
                desired <- Desired,
                working <- Working

ImplementsRestartingSwitch == Restarting!RestartingSpec

AllReachable == \A n \in Nodes : reachable[n]

(* A PUT /server-on-off waits for as long as a BMC does not answer, with    *)
(* the mutex held, but no longer: once all BMCs answer, each call of Start  *)
(* and Stop returns (serveronoff.go retryServerConn, strategy.go Stop).     *)
CallsReturnOnceReachable == <>[]AllReachable => LaunchedCallsReturn

(* A BMC that does not answer at boot ends the process as soon as its node  *)
(* is reported, again and again; once all BMCs answer the process stays up  *)
(* (main.go initServerOnOff, ipmi.go IsServerOn).                           *)
StaysUpOnceReachable == <>[]AllReachable => <>[]up

=============================================================================
