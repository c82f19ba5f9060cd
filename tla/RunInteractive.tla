---------------------------- MODULE RunInteractive ----------------------------
(***************************************************************************)
(* run_interactive (src/src/lib.rs): the way a service runs from a shell,  *)
(* and on UNIX under the service manager as well.  Three threads of one    *)
(* process: the main thread, the service thread of module Service, and the *)
(* thread of the ctrlc crate that turns SIGINT and SIGTERM into a message  *)
(* for the main thread.                                                    *)
(***************************************************************************)
EXTENDS Service

CONSTANTS
  MaxSignals,     \* bound: how many signals the process is sent
  StartedBefore   \* subset of BOOLEAN: may the caller have called start()?

ASSUME RunAssumption ==
  /\ MaxSignals \in Nat
  /\ StartedBefore \subseteq BOOLEAN

VARIABLES
  handler,   \* the ctrlc handler: "unset", "set", or "dead" after a panic
  signals,   \* signals sent to the process so far
  pending    \* signals the ctrlc thread has not handled yet

osVars == <<handler, signals, pending>>
vars   == <<pc, result, shutdown, receiver, messages, thread, outcome,
            informed, handler, signals, pending>>

TypeOK ==
  /\ ServiceTypeOK
  /\ pc \in {"start", "set_handler", "check", "recv", "stop", "send", "join",
             "returned", "killed"}
  /\ handler \in {"unset", "set", "dead"}
  /\ signals \in 0..MaxSignals
  /\ pending \in 0..signals

Init ==
  /\ \E b \in StartedBefore : ServiceInit("start", b)
  /\ handler = "unset" /\ signals = 0 /\ pending = 0

-----------------------------------------------------------------------------
(* The main thread. *)

SetHandlerIgnoringErrors ==
  /\ pc = "set_handler" /\ pc' = "check"
  /\ \/ handler' = "set"
     \/ UNCHANGED handler
  /\ UNCHANGED <<result, shutdown, appVars, signals, pending>>

(* ctrlc::set_handler may fail, as when the process already has a handler; *)
(* the service has been started by then, and run_interactive returns.      *)
SetHandler ==
  /\ pc = "set_handler"
  /\ \/ handler' = "set" /\ pc' = "check" /\ UNCHANGED result
     \/ Return("Err") /\ UNCHANGED handler
  /\ UNCHANGED <<shutdown, appVars, signals, pending>>

Main ==
  \/ SetHandler
  \/ /\ Start("set_handler") \/ Check("stop") \/ Recv("stop")
        \/ Stop \/ Send \/ Join
     /\ UNCHANGED osVars

-----------------------------------------------------------------------------
(* Signals. *)

(* A signal kills a process that has not registered a handler. *)
Signal ==
  /\ pc # "killed" /\ signals < MaxSignals
  /\ signals' = signals + 1
  /\ \/ handler = "unset" /\ pc' = "killed" /\ UNCHANGED pending
     \/ handler # "unset" /\ pending' = pending + 1 /\ UNCHANGED pc
  /\ UNCHANGED <<result, shutdown, appVars, handler>>

(* The ctrlc thread sends a request to the main thread.  Once the loop is *)
(* over its receiver is gone: expect() panics and the thread dies.        *)
HandleSignal ==
  /\ handler = "set" /\ pending > 0 /\ pending' = pending - 1
  /\ \/ InLoop /\ shutdown' = shutdown + 1 /\ UNCHANGED handler
     \/ ~InLoop /\ handler' = "dead" /\ UNCHANGED shutdown
  /\ UNCHANGED <<pc, result, appVars, signals>>

(* A process that is killed takes its service thread with it. *)
ServiceFn == pc # "killed" /\ Fn /\ UNCHANGED osVars

Done == pc \in {"returned", "killed"} /\ UNCHANGED vars

Next == Main \/ Signal \/ HandleSignal \/ ServiceFn \/ Done

(* The threads are scheduled fairly, and the service function keeps its  *)
(* side of the bargain: it reads its receiver, and once it has been told *)
(* to shut down, or listens no more, it returns.                         *)
FnCooperates ==
  /\ pc # "killed" /\ UNCHANGED osVars
  /\ \/ FnReceive
     \/ FnFinish
     \/ (informed \/ receiver = "dropped") /\ \E o \in Outcomes : FnReturn(o)

Fairness == WF_vars(Main) /\ WF_vars(HandleSignal) /\ WF_vars(FnCooperates)

Spec     == Init /\ [][Next]_vars
FairSpec == Spec /\ Fairness

-----------------------------------------------------------------------------
(* run_service returns Ok only when the service thread is over: no path of *)
(* stop() loses the JoinHandle and still reports success, whatever the     *)
(* order of is_finished, the send and the end of the function.             *)
OkMeansJoined == result = "Ok" => IsFinished /\ outcome # "Panic"

(* The main thread blocks in join only after the service function has been *)
(* told to stop: the message is in its channel, or it has read it, or it   *)
(* gave its receiver up and could not have been told.                      *)
JoinFollowsNotice ==
  pc = "join" /\ receiver = "fn" => messages = 1 \/ informed

(* stop() never blocks in sender_fn, not even on the one-message channel of *)
(* new_tokio: no other message can be in the way.                           *)
SendNeverBlocks == pc = "send" => messages < Capacity

(* While the main thread waits, the handler and with it the sender of its *)
(* channel is alive: the RecvTimeoutError::Disconnected arm of the loop   *)
(* cannot be taken.                                                       *)
HandlerOutlivesLoop == InLoop => handler = "set"

(* Every Err of run_service has one of three causes: start or set_handler  *)
(* failed, the service function panicked, or a signal raced the function's *)
(* own end and stop() found the receiver gone.  A service that ends by     *)
(* itself, with no signal sent, is never reported as an error.             *)
ErrExplained ==
  result = "Err" => \/ handler = "unset"
                    \/ outcome = "Panic"
                    \/ signals > 0 /\ receiver = "dropped" /\ ~informed

(* A shutdown request that reached the main thread's channel makes          *)
(* run_service return, even when more signals follow and kill the handler.  *)
RequestStops == shutdown > 0 ~> pc = "returned"

(* A service function that ends by itself is noticed by the polling loop. *)
ExitNoticed == InLoop /\ IsFinished ~> pc = "returned"

-----------------------------------------------------------------------------
(* What the documentation says and the code does not do. *)

(* manager.rs, restart_on_failure: "Whether the service should be restarted *)
(* if it fails": a service function that fails by itself must make          *)
(* run_service fail, since the exit code of the process is all a service    *)
(* manager sees.                                                            *)
FailureReported ==
  pc = "returned" /\ outcome = "Err" /\ IsFinished /\ signals = 0 => result = "Err"

=============================================================================
