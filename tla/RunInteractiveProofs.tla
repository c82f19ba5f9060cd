------------------------- MODULE RunInteractiveProofs -------------------------
(***************************************************************************)
(* The safety properties of RunInteractive for every channel capacity, any *)
(* number of signals and every way of calling run_service.                 *)
(***************************************************************************)
EXTENDS RunInteractive, TLAPS

(* Where the handler is registered; once it is, it stays until a signal     *)
(* comes after the loop.                                                    *)
HandlerInv ==
  /\ pc \in {"start", "set_handler", "killed"} => handler = "unset"
  /\ pc \in {"check", "recv"} => handler = "set"
  /\ pc \in {"stop", "send", "join"} => handler # "unset"

(* Nobody but stop() notifies the service function, and it does so once. *)
NoticeInv ==
  /\ pc \notin {"join", "returned"} => messages = 0 /\ ~informed
  /\ handler = "unset" => messages = 0 /\ ~informed
  /\ JoinFollowsNotice

(* The loop is not entered before the thread is there, and the receiver     *)
(* lives no longer than the service function.                               *)
ThreadInv ==
  /\ pc \notin {"start", "returned", "killed"} => thread # "unspawned"
  /\ thread \in {"unspawned", "running"} => outcome = "none"
  /\ thread \in {"returned", "finished"} =>
       outcome # "none" /\ receiver = "dropped"

(* The loop ends because of a signal or because the thread is finished. *)
CauseInv ==
  /\ shutdown > 0 => signals > 0
  /\ pc = "stop" => signals > 0 \/ IsFinished
  /\ pc = "send" => signals > 0

ResultInv ==
  /\ pc \notin {"returned", "killed"} => result = "none"
  /\ OkMeansJoined
  /\ ErrExplained

IInv == /\ TypeOK /\ HandlerInv /\ NoticeInv /\ ThreadInv /\ CauseInv
        /\ ResultInv

-----------------------------------------------------------------------------

LEMMA InitInv == Init => IInv
<1> SUFFICES ASSUME NEW b \in StartedBefore, ServiceInit("start", b),
                    handler = "unset", signals = 0, pending = 0
             PROVE  IInv
  BY DEF Init
<1>1. TypeOK
  <2>1. \/ receiver = "app" /\ thread = "unspawned"
        \/ receiver = "fn" /\ thread = "running"
    BY ZenonT(20) DEF ServiceInit
  <2>2. messages \in 0..Capacity /\ shutdown \in Nat
    BY CapacityAssumption DEF ServiceInit
  <2>3. signals \in 0..MaxSignals /\ pending \in 0..signals
    BY RunAssumption
  <2>4. outcome = "none" /\ result = "none" /\ pc = "start" /\ informed \in BOOLEAN
    BY DEF ServiceInit
  <2>5. QED
    BY <2>1, <2>2, <2>3, <2>4 DEF TypeOK, ServiceTypeOK
<1>2. HandlerInv /\ NoticeInv /\ CauseInv
  BY DEF ServiceInit, HandlerInv, NoticeInv, JoinFollowsNotice, CauseInv
<1>3. ThreadInv /\ ResultInv
  BY DEF ServiceInit, ThreadInv, ResultInv, OkMeansJoined, ErrExplained
<1>4. QED
  BY <1>1, <1>2, <1>3 DEF IInv

(* Every step keeps the invariant. *)
LEMMA StepInv == IInv /\ [Next]_vars => IInv'
<1> SUFFICES ASSUME IInv, [Next]_vars
             PROVE  IInv'
  OBVIOUS
<1> USE CapacityAssumption, RunAssumption
    DEF IInv, TypeOK, ServiceTypeOK, Outcomes, HandlerInv, NoticeInv,
        JoinFollowsNotice, ThreadInv, CauseInv, ResultInv, OkMeansJoined,
        ErrExplained, IsFinished, loopVars, appVars, osVars
<1>1. CASE SetHandler
  BY <1>1 DEF SetHandler, Return
<1>2. CASE Start("set_handler") /\ UNCHANGED osVars
  BY <1>2 DEF Start, Return
<1>3. CASE Check("stop") /\ UNCHANGED osVars
  BY <1>3 DEF Check, IsRunning
<1>4. CASE Recv("stop") /\ UNCHANGED osVars
  BY <1>4 DEF Recv
<1>5. CASE Stop /\ UNCHANGED osVars
  BY <1>5 DEF Stop, Return, JoinResult
<1>6. CASE Send /\ UNCHANGED osVars
  BY <1>6 DEF Send, Return
<1>7. CASE Join /\ UNCHANGED osVars
  BY <1>7 DEF Join, Return, JoinResult
<1>8. CASE Signal
  BY <1>8 DEF Signal
<1>9. CASE HandleSignal
  BY <1>9 DEF HandleSignal, InLoop
<1>10. CASE FnReceive /\ UNCHANGED osVars
  BY <1>10 DEF FnReceive
<1>11. CASE FnDropReceiver /\ UNCHANGED osVars
  BY <1>11 DEF FnDropReceiver
<1>12. CASE FnFinish /\ UNCHANGED osVars
  BY <1>12 DEF FnFinish
<1>13. ASSUME NEW o \in Outcomes, FnReturn(o), UNCHANGED osVars
       PROVE  IInv'
  BY <1>13 DEF FnReturn
<1>14. CASE UNCHANGED vars
  BY <1>14 DEF vars
<1>15. QED
  BY <1>1, <1>2, <1>3, <1>4, <1>5, <1>6, <1>7, <1>8, <1>9, <1>10, <1>11,
     <1>12, <1>13, <1>14
     DEF Next, Main, ServiceFn, Fn, Done

LEMMA Inductive == Spec => []IInv
  BY InitInv, StepInv, PTL DEF Spec

(* Type correctness: in particular the bounded channel of BaseService never *)
(* holds more than Capacity messages, whatever the capacity is.            *)
THEOREM TypeCorrect == Spec => []TypeOK
<1>1. IInv => TypeOK
  BY DEF IInv, NoticeInv, ResultInv
<1>2. QED
  BY <1>1, Inductive, PTL

(* stop() reports success only of a thread that is over and did not panic, *)
(* in every interleaving of its two halves with the end of the function.   *)
THEOREM OkIsJoined == Spec => []OkMeansJoined
<1>1. IInv => OkMeansJoined
  BY DEF IInv, NoticeInv, ResultInv
<1>2. QED
  BY <1>1, Inductive, PTL

(* The main thread never joins a service function that was not told to stop. *)
THEOREM JoinIsAnnounced == Spec => []JoinFollowsNotice
<1>1. IInv => JoinFollowsNotice
  BY DEF IInv, NoticeInv, ResultInv
<1>2. QED
  BY <1>1, Inductive, PTL

(* run_service fails for one of the three reasons ErrExplained names, and *)
(* not otherwise: the race of stop() with the end of the function is the  *)
(* only one that depends on timing.                                       *)
THEOREM ErrorsExplained == Spec => []ErrExplained
<1>1. IInv => ErrExplained
  BY DEF IInv, NoticeInv, ResultInv
<1>2. QED
  BY <1>1, Inductive, PTL

(* blocking_send on the one-message channel of new_tokio finds it empty. *)
THEOREM SendDoesNotBlock == Spec => []SendNeverBlocks
<1>1. IInv => SendNeverBlocks
  BY CapacityAssumption DEF IInv, NoticeInv, SendNeverBlocks
<1>2. QED
  BY <1>1, Inductive, PTL

(* The loop never sees the Disconnected error of its channel. *)
THEOREM HandlerIsAlive == Spec => []HandlerOutlivesLoop
<1>1. IInv => HandlerOutlivesLoop
  BY DEF IInv, HandlerInv, HandlerOutlivesLoop, InLoop
<1>2. QED
  BY <1>1, Inductive, PTL

=============================================================================
