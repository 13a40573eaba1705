---------------------------- MODULE StrategyLoop ----------------------------
(***************************************************************************)
(* BaseConcurrentStrategy (pkg/scheduling/strategy.go): the start/stop      *)
(* protocol that every strategy of target-exporter embeds.                  *)
(*                                                                         *)
(* Callers hold a mutex while they send a command on an unbuffered channel. *)
(* The first Start launches a goroutine that polls the channel, reconciles  *)
(* once if it is switched on, sleeps a second and polls again.  A send on   *)
(* an unbuffered channel completes only when the polling goroutine receives *)
(* it, so it blocks during a reconcile, and for ever if there is no such    *)
(* goroutine.                                                               *)
(*                                                                         *)
(* Start and Stop are called by the HTTP handlers of routes.go, one         *)
(* goroutine per request, and once at boot by the goroutine of main.        *)
(***************************************************************************)
EXTENDS Naturals

CONSTANTS
  Callers,                 \* request goroutines of the API server
  Main,                    \* the goroutine of main()
  Loops                    \* goroutines that run() may launch

ASSUME MainAssumption == Main \notin Callers

Threads == Callers \cup {Main}

Start == "start"
Stop == "stop"
Commands == {Start, Stop}

VARIABLES
  published,               \* has main handed the strategy to the handlers?
  op, pc,                  \* each thread's command, and where it is in Start/Stop
  locked,                  \* mu
  initialized, isRunning,  \* the two fields of the struct
  loop, run, command       \* each polling goroutine: control, and its two locals

callVars == <<op, pc>>
loopVars == <<loop, run, command>>
vars == <<published, op, pc, locked, initialized, isRunning, loop, run, command>>

(* "lock": waits for mu.  "init": holds mu, about to test initialized.      *)
(* "send": blocked in c.startStop <- cmd.  "unlock": the send completed,    *)
(* the deferred Unlock is next.  "return": the method is about to return.   *)
ThreadStates == {"idle", "lock", "init", "send", "unlock", "return"}
Critical == {"init", "send", "unlock"}

(* "select": at the non-blocking receive.  "apply": has received a command. *)
LoopStates == {"none", "select", "apply", "reconcile", "sleep"}

-----------------------------------------------------------------------------
(* Boot.  The schedulable and serveronoff strategies are started by main    *)
(* before any handler can reach them; the others are only constructed.      *)

InitCommon ==
  /\ op = [t \in Threads |-> Start]
  /\ locked = FALSE
  /\ initialized = FALSE
  /\ isRunning = FALSE
  /\ loop = [l \in Loops |-> "none"]
  /\ run = [l \in Loops |-> FALSE]
  /\ command = [l \in Loops |-> Stop]

InitStartedByMain ==
  /\ InitCommon
  /\ published = FALSE
  /\ pc = [t \in Threads |-> IF t = Main THEN "lock" ELSE "idle"]

InitOnlyConstructed ==
  /\ InitCommon
  /\ published = TRUE
  /\ pc = [t \in Threads |-> "idle"]

Init == InitStartedByMain \/ InitOnlyConstructed

-----------------------------------------------------------------------------
(* The callers. *)

Goto(t, from, to) ==
  /\ pc[t] = from
  /\ pc' = [pc EXCEPT ![t] = to]

(* A PUT handler calls Start or Stop. *)
Call(t, cmd) ==
  /\ published
  /\ t \in Callers
  /\ Goto(t, "idle", "lock")
  /\ op' = [op EXCEPT ![t] = cmd]
  /\ UNCHANGED <<published, locked, initialized, isRunning, loopVars>>

Lock(t) ==
  /\ ~locked
  /\ locked' = TRUE
  /\ Goto(t, "lock", IF op[t] = Start THEN "init" ELSE "send")
  /\ UNCHANGED <<published, op, initialized, isRunning, loopVars>>

(* Mutant of Launch: the initialized test is lost. *)
LaunchEveryTime(t) ==
  /\ Goto(t, "init", "send")
  /\ initialized' = TRUE
  /\ \E l \in Loops :
       /\ loop[l] = "none"
       /\ loop' = [loop EXCEPT ![l] = "select"]
       /\ run' = [run EXCEPT ![l] = FALSE]
  /\ UNCHANGED <<published, op, locked, isRunning, command>>

(* if !c.initialized { c.initialized = true; c.run() } *)
Launch(t) ==
  /\ ~initialized
  /\ Goto(t, "init", "send")
  /\ initialized' = TRUE
  /\ \E l \in Loops :
       /\ loop[l] = "none"
       /\ loop' = [loop EXCEPT ![l] = "select"]
       /\ run' = [run EXCEPT ![l] = FALSE]
  /\ UNCHANGED <<published, op, locked, isRunning, command>>

(* Mutant of AlreadyLaunched: a Start may go on to send without launching. *)
SendAnyway(t) ==
  /\ Goto(t, "init", "send")
  /\ UNCHANGED <<published, op, locked, initialized, isRunning, loopVars>>

AlreadyLaunched(t) ==
  /\ initialized
  /\ Goto(t, "init", "send")
  /\ UNCHANGED <<published, op, locked, initialized, isRunning, loopVars>>

(* Mutant of Unlock: the deferred Unlock is forgotten. *)
ReturnWithoutUnlock(t) ==
  /\ Goto(t, "unlock", "return")
  /\ UNCHANGED <<published, op, locked, initialized, isRunning, loopVars>>

Unlock(t) ==
  /\ Goto(t, "unlock", "return")
  /\ locked' = FALSE
  /\ UNCHANGED <<published, op, initialized, isRunning, loopVars>>

(* The method returns.  When it is main's, main goes on to hand the         *)
(* orchestrator to the handlers.                                            *)
Return(t) ==
  /\ Goto(t, "return", "idle")
  /\ published' = (published \/ t = Main)
  /\ UNCHANGED <<op, locked, initialized, isRunning, loopVars>>

-----------------------------------------------------------------------------
(* The polling goroutine. *)

LoopGoto(l, from, to) ==
  /\ loop[l] = from
  /\ loop' = [loop EXCEPT ![l] = to]

(* Mutant of WorkOrSleep: reconcile is skipped. *)
AlwaysSleep(on) == IF on THEN "sleep" ELSE "sleep"

WorkOrSleep(on) == IF on THEN "reconcile" ELSE "sleep"

(* Mutants of Receive: the channel is buffered, so that a send completes    *)
(* whatever the loop is doing; the zero value of a closed channel arrives.  *)
ReceiveBuffered(l, t) ==
  /\ loop[l] # "none"
  /\ loop' = [loop EXCEPT ![l] = IF @ = "select" THEN "apply" ELSE @]
  /\ Goto(t, "send", "unlock")
  /\ command' = [command EXCEPT ![l] = op[t]]
  /\ UNCHANGED <<published, op, locked, initialized, isRunning, run>>

ReceiveZeroValue(l, t) ==
  /\ LoopGoto(l, "select", "apply")
  /\ Goto(t, "send", "unlock")
  /\ command' = [command EXCEPT ![l] = ""]
  /\ UNCHANGED <<published, op, locked, initialized, isRunning, run>>

(* The rendezvous of <-c.startStop with a blocked sender: both sides move. *)
Receive(l, t) ==
  /\ LoopGoto(l, "select", "apply")
  /\ Goto(t, "send", "unlock")
  /\ command' = [command EXCEPT ![l] = op[t]]
  /\ UNCHANGED <<published, op, locked, initialized, isRunning, run>>

(* Mutant of NoCommand: the test of run is lost. *)
NoCommandWorks(l) ==
  /\ \A t \in Threads : pc[t] # "send"
  /\ LoopGoto(l, "select", "reconcile")
  /\ UNCHANGED <<published, callVars, locked, initialized, isRunning, run, command>>

(* The select's default branch, taken only when no sender is blocked. *)
NoCommand(l) ==
  /\ \A t \in Threads : pc[t] # "send"
  /\ LoopGoto(l, "select", WorkOrSleep(run[l]))
  /\ UNCHANGED <<published, callVars, locked, initialized, isRunning, run, command>>

(* Mutant of Apply: Stop forgets to reset isRunning. *)
ApplyKeepsRunning(l) ==
  /\ LoopGoto(l, "apply", WorkOrSleep(command[l] = Start))
  /\ run' = [run EXCEPT ![l] = (command[l] = Start)]
  /\ isRunning' = (isRunning \/ command[l] = Start)
  /\ UNCHANGED <<published, callVars, locked, initialized, command>>

Apply(l) ==
  /\ LoopGoto(l, "apply", WorkOrSleep(command[l] = Start))
  /\ run' = [run EXCEPT ![l] = (command[l] = Start)]
  /\ isRunning' = (command[l] = Start)
  /\ UNCHANGED <<published, callVars, locked, initialized, command>>

(* reconcile() returned; an error is only logged. *)
Reconciled(l) ==
  /\ LoopGoto(l, "reconcile", "sleep")
  /\ UNCHANGED <<published, callVars, locked, initialized, isRunning, run, command>>

Wake(l) ==
  /\ LoopGoto(l, "sleep", "select")
  /\ UNCHANGED <<published, callVars, locked, initialized, isRunning, run, command>>

-----------------------------------------------------------------------------
ThreadStep(t) ==
  \/ \E cmd \in Commands : Call(t, cmd)
  \/ Lock(t)
  \/ Launch(t)
  \/ AlreadyLaunched(t)
  \/ Unlock(t)
  \/ Return(t)

LoopStep(l) ==
  \/ \E t \in Threads : Receive(l, t)
  \/ NoCommand(l)
  \/ Apply(l)
  \/ Reconciled(l)
  \/ Wake(l)

Next ==
  \/ \E t \in Threads : ThreadStep(t)
  \/ \E l \in Loops : LoopStep(l)

(* The Go scheduler runs every runnable goroutine, and sync.Mutex hands the *)
(* lock to a waiter that starves (strong fairness of Lock).  A reconcile is *)
(* assumed to return.  Requests are not forced to come.                     *)
Fairness ==
  /\ \A t \in Threads :
       /\ SF_vars(Lock(t))
       /\ WF_vars(Launch(t) \/ AlreadyLaunched(t) \/ Unlock(t) \/ Return(t))
  /\ \A l \in Loops : WF_vars(LoopStep(l))

Spec == Init /\ [][Next]_vars

FairSpec == Spec /\ Fairness

-----------------------------------------------------------------------------
(* Properties. *)

TypeOK ==
  /\ published \in BOOLEAN
  /\ op \in [Threads -> Commands]
  /\ pc \in [Threads -> ThreadStates]
  /\ locked \in BOOLEAN
  /\ initialized \in BOOLEAN
  /\ isRunning \in BOOLEAN
  /\ loop \in [Loops -> LoopStates]
  /\ run \in [Loops -> BOOLEAN]
  /\ command \in [Loops -> Commands]

(* The last command a polling goroutine accepted; Stop before the first.    *)
SwitchedOn(l) ==
  \/ loop[l] = "apply" /\ command[l] = Start
  \/ loop[l] \in {"select", "reconcile", "sleep"} /\ run[l]

Desired == IF \E l \in Loops : SwitchedOn(l) THEN Start ELSE Stop

Working == \E l \in Loops : loop[l] = "reconcile"

(* From the moment its send completes until it releases the mutex, a        *)
(* caller's command is the one in effect, and if it is Stop no reconcile is *)
(* in progress: Stop is a barrier, not a request (strategy.go Stop, run).   *)
StopIsABarrier ==
  \A t \in Threads :
    pc[t] = "unlock" => /\ Desired = op[t]
                        /\ op[t] = Stop => ~Working

(* However often and from however many requests Start is called, one        *)
(* goroutine polls the channel; two would share the commands between them   *)
(* and a Stop would reach one of them only (strategy.go Start).             *)
OnePoller ==
  \A l1, l2 \in Loops : loop[l1] # "none" /\ loop[l2] # "none" => l1 = l2

(* What IsRunning reports, without taking the mutex, differs from the       *)
(* command in effect only between a receive and the assignment after it.    *)
IsRunningIsCurrent ==
  (\A l \in Loops : loop[l] # "apply") => (isRunning <=> Desired = Start)

(* A send that no goroutine will ever receive is a Stop that came before    *)
(* every Start: a Start never blocks for ever, and a Stop cannot once the   *)
(* loop is launched (strategy.go Start, Stop).                              *)
OnlyAnEarlyStopIsStranded ==
  \A t \in Threads :
    pc[t] = "send" /\ (\A l \in Loops : loop[l] = "none")
      => op[t] = Stop /\ ~initialized /\ t # Main

(* The mutex, the channel and the loop implement the abstract switch.       *)
AbstractPhase(t) ==
  CASE pc[t] = "idle" -> "idle"
    [] pc[t] \in {"lock", "init", "send"} -> "waiting"
    [] pc[t] \in {"unlock", "return"} -> "answered"

Switch == INSTANCE StrategySwitch WITH
            Clients <- Threads,
            phase <- [t \in Threads |-> AbstractPhase(t)],
            wants <- op,
            desired <- Desired,
            working <- Working

ImplementsSwitch == Switch!Spec

(* Once the loop is launched, every Start and Stop returns.                 *)
LaunchedCallsReturn ==
  \A t \in Threads : (initialized /\ pc[t] = "lock") ~> pc[t] = "idle"

(* A strategy that is switched on goes on to reconcile unless it is         *)
(* switched off first.                                                      *)
OnLeadsToWork == (Desired = Start) ~> (Working \/ Desired = Stop)

(* Every PUT that switches a strategy on or off is answered "success"       *)
(* (routes.go 355-362): whatever the order of the requests, the call of     *)
(* Start or Stop returns.                                                   *)
EveryCallReturns == \A t \in Threads : pc[t] = "lock" ~> pc[t] = "idle"

=============================================================================
