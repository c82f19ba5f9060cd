------------------------------- MODULE Service -------------------------------
(***************************************************************************)
(* What every service process of the uni_service crate has, whichever way  *)
(* it is run: a BaseService (src/src/base.rs) whose service function runs  *)
(* in a thread of its own, and the loop in which the thread that runs the  *)
(* service waits for a shutdown request or for the function to end         *)
(* (wait_for_shutdown_or_exit in src/src/lib.rs).  RunInteractive and      *)
(* WinService EXTEND this module with the two modes of run_service.        *)
(*                                                                         *)
(* The service function is the user's code: it may read its receiver, drop *)
(* it, return, fail or panic whenever it likes.                            *)
(***************************************************************************)
EXTENDS Naturals

CONSTANT Capacity    \* room in BaseService's channel: 1 for new_tokio, which
                     \* sends with blocking_send; unbounded for new_sync

ASSUME CapacityAssumption == Capacity \in Nat \ {0}

VARIABLES
  pc,        \* where the thread that runs the service is
  result,    \* what run_service returned: "none", "Ok" or "Err"
  shutdown,  \* requests in the channel that wait_for_shutdown_or_exit reads
  receiver,  \* BaseService's receiver: in the "app", the "fn", or "dropped"
  messages,  \* messages in BaseService's channel
  thread,    \* "unspawned", "running", "returned" (the function is over, its
             \* arguments dropped), "finished" (JoinHandle::is_finished)
  outcome,   \* how the service function ended: "none", "Ok", "Err", "Panic"
  informed   \* the service function has received the shutdown message

appVars  == <<receiver, messages, thread, outcome, informed>>
loopVars == <<pc, result, shutdown>>

Outcomes == {"Ok", "Err", "Panic"}

ServiceTypeOK ==
  /\ result   \in {"none", "Ok", "Err"}
  /\ shutdown \in Nat
  /\ receiver \in {"app", "fn", "dropped"}
  /\ messages \in 0..Capacity
  /\ thread   \in {"unspawned", "running", "returned", "finished"}
  /\ outcome  \in Outcomes \cup {"none"}
  /\ informed \in BOOLEAN
  /\ receiver = "app" <=> thread = "unspawned"

(* BaseService::new; startedBefore says that the caller has already called *)
(* start() on the service it hands to run_service; first is the first pc.  *)
ServiceInit(first, startedBefore) ==
  /\ pc = first /\ result = "none" /\ shutdown = 0
  /\ receiver = IF startedBefore THEN "fn" ELSE "app"
  /\ thread = IF startedBefore THEN "running" ELSE "unspawned"
  /\ messages = 0 /\ outcome = "none" /\ informed = FALSE

Return(r) == pc' = "returned" /\ result' = r

-----------------------------------------------------------------------------
(* The service thread. *)

(* The service function reads the message that tells it to shut down. *)
FnReceive ==
  /\ thread = "running" /\ receiver = "fn" /\ messages > 0
  /\ messages' = messages - 1 /\ informed' = TRUE
  /\ UNCHANGED <<loopVars, receiver, thread, outcome>>

(* It may let go of the receiver and work on. *)
FnDropReceiver ==
  /\ thread = "running" /\ receiver = "fn"
  /\ receiver' = "dropped"
  /\ UNCHANGED <<loopVars, messages, thread, outcome, informed>>

(* The function ends: the receiver is an argument of it and goes first... *)
FnReturn(o) ==
  /\ thread = "running"
  /\ thread' = "returned" /\ outcome' = o /\ receiver' = "dropped"
  /\ UNCHANGED <<loopVars, messages, informed>>

(* ...and only later does is_finished() answer TRUE. *)
FnFinish ==
  /\ thread = "returned" /\ thread' = "finished"
  /\ UNCHANGED <<loopVars, receiver, messages, outcome, informed>>

Fn == FnReceive \/ FnDropReceiver \/ FnFinish \/ \E o \in Outcomes : FnReturn(o)

-----------------------------------------------------------------------------
(* BaseService as the thread that runs the service calls it. *)

IsFinished == thread = "finished"
IsRunning  == thread \in {"running", "returned"}

StartWithoutTaking(next) ==
  /\ pc = "start" /\ pc' = next /\ thread' = "running"
  /\ UNCHANGED <<result, shutdown, receiver, messages, outcome, informed>>

(* start(): takes the receiver and spawns the thread; a second call finds *)
(* no receiver and fails.                                                  *)
Start(next) ==
  /\ pc = "start"
  /\ \/ /\ receiver = "app"
        /\ receiver' = "fn" /\ thread' = "running"
        /\ pc' = next /\ UNCHANGED result
     \/ /\ receiver # "app"
        /\ Return("Err") /\ UNCHANGED <<receiver, thread>>
  /\ UNCHANGED <<shutdown, messages, outcome, informed>>

(* join_thread(): only a panic is an error to its caller; an error of the *)
(* service function is logged.                                            *)
JoinResult == IF outcome = "Panic" THEN "Err" ELSE "Ok"

StopAlwaysSends ==
  /\ pc = "stop" /\ pc' = "send" /\ UNCHANGED result
  /\ UNCHANGED <<shutdown, appVars>>

(* stop(), first half: a thread that is finished is joined at once.  What  *)
(* is_finished() answered may be out of date at the send.                  *)
Stop ==
  /\ pc = "stop"
  /\ \/ IsFinished /\ Return(JoinResult)
     \/ ~IsFinished /\ pc' = "send" /\ UNCHANGED result
  /\ UNCHANGED <<shutdown, appVars>>

JoinWithoutSend ==
  /\ pc = "send" /\ pc' = "join"
  /\ UNCHANGED <<result, shutdown, appVars>>

(* stop(), second half: sender_fn, which fails when the receiver is gone *)
(* (and then nobody joins the thread)...                                 *)
Send ==
  /\ pc = "send"
  /\ \/ /\ receiver = "fn" /\ messages < Capacity
        /\ messages' = messages + 1 /\ pc' = "join" /\ UNCHANGED result
     \/ receiver = "dropped" /\ Return("Err") /\ UNCHANGED messages
  /\ UNCHANGED <<shutdown, receiver, thread, outcome, informed>>

JoinWithoutWaiting ==
  /\ pc = "join" /\ Return(JoinResult)
  /\ UNCHANGED <<shutdown, appVars>>

(* ...and the join, which blocks until the thread is finished. *)
Join ==
  /\ pc = "join" /\ IsFinished /\ Return(JoinResult)
  /\ UNCHANGED <<shutdown, appVars>>

-----------------------------------------------------------------------------
(* wait_for_shutdown_or_exit: WHILE is_running, wait up to 100 ms for a     *)
(* request.  Leaving the loop drops the channel's receiver and what is left *)
(* in it.                                                                   *)

InLoop == pc \in {"check", "recv"}

CheckNever(next) ==
  /\ pc = "check" /\ pc' = "recv"
  /\ UNCHANGED <<result, shutdown, appVars>>

Check(next) ==
  /\ pc = "check"
  /\ \/ IsRunning /\ pc' = "recv" /\ UNCHANGED shutdown
     \/ ~IsRunning /\ pc' = next /\ shutdown' = 0
  /\ UNCHANGED <<result, appVars>>

RecvKeepsWaiting(next) ==
  /\ pc = "recv" /\ pc' = "check" /\ shutdown' = 0
  /\ UNCHANGED <<result, appVars>>

RecvAlsoNotifies(next) ==
  /\ pc = "recv"
  /\ \/ shutdown > 0 /\ pc' = next /\ shutdown' = 0 /\ messages' = messages + 1
     \/ shutdown = 0 /\ pc' = "check" /\ UNCHANGED <<shutdown, messages>>
  /\ UNCHANGED <<result, receiver, thread, outcome, informed>>

(* A request ends the loop, a timeout goes round again.  The third case of  *)
(* the code, a channel whose sender is gone, needs a handler that died      *)
(* while the loop was running: see HandlerOutlivesLoop.                     *)
Recv(next) ==
  /\ pc = "recv"
  /\ \/ shutdown > 0 /\ pc' = next /\ shutdown' = 0
     \/ shutdown = 0 /\ pc' = "check" /\ UNCHANGED shutdown
  /\ UNCHANGED <<result, appVars>>

=============================================================================
