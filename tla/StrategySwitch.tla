--------------------------- MODULE StrategySwitch ---------------------------
(***************************************************************************)
(* What a concurrent strategy of target-exporter promises to the goroutines *)
(* that call Start and Stop on it: an on/off switch guarding a repeated     *)
(* unit of work, the strategy's reconcile function.                         *)
(*                                                                         *)
(*   - each call takes effect at one instant between its invocation and its *)
(*     return, so the calls have one order;                                 *)
(*   - a command never takes effect in the middle of a reconcile: a Stop    *)
(*     that has returned left no reconcile behind it;                       *)
(*   - a reconcile begins only while the last command in effect is Start.   *)
(*                                                                         *)
(* The module abstracts from the mutex, the channel and the polling loop of *)
(* pkg/scheduling/strategy.go; StrategyLoop shows how those implement it.   *)
(***************************************************************************)

CONSTANT Clients           \* the goroutines that call Start and Stop

VARIABLES
  phase,                   \* where each client is in its call
  wants,                   \* the command of its current (or last) call
  desired,                 \* the last command that took effect
  working                  \* is a reconcile in progress?

vars == <<phase, wants, desired, working>>

Start == "start"
Stop == "stop"
Commands == {Start, Stop}

Phases == {"idle", "waiting", "answered"}

Init ==
  /\ phase \in [Clients -> {"idle", "waiting"}]
  /\ wants \in [Clients -> Commands]
  /\ desired = Stop
  /\ working = FALSE

Invoke(c, cmd) ==
  /\ phase[c] = "idle"
  /\ phase' = [phase EXCEPT ![c] = "waiting"]
  /\ wants' = [wants EXCEPT ![c] = cmd]
  /\ UNCHANGED <<desired, working>>

TakeEffect(c) ==
  /\ phase[c] = "waiting"
  /\ ~working
  /\ desired' = wants[c]
  /\ phase' = [phase EXCEPT ![c] = "answered"]
  /\ UNCHANGED <<wants, working>>

Answer(c) ==
  /\ phase[c] = "answered"
  /\ phase' = [phase EXCEPT ![c] = "idle"]
  /\ UNCHANGED <<wants, desired, working>>

BeginWork ==
  /\ desired = Start
  /\ ~working
  /\ working' = TRUE
  /\ UNCHANGED <<phase, wants, desired>>

FinishWork ==
  /\ working
  /\ working' = FALSE
  /\ UNCHANGED <<phase, wants, desired>>

Next ==
  \/ \E c \in Clients, cmd \in Commands : Invoke(c, cmd)
  \/ \E c \in Clients : TakeEffect(c) \/ Answer(c)
  \/ BeginWork
  \/ FinishWork

Spec == Init /\ [][Next]_vars

=============================================================================
