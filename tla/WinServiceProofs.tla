--------------------------- MODULE WinServiceProofs ---------------------------
(***************************************************************************)
(* The safety properties of WinService for every channel capacity, any     *)
(* number of Stop controls and every way of calling run_service.           *)
(***************************************************************************)
EXTENDS WinService, TLAPS

(* What has been reported, by the place of the thread that reports. *)
StatusInv ==
  /\ main = "start_service" => pc = "idle"
  /\ pc \in {"idle", "register", "start_pending"} => status = "none"
  /\ pc \in {"start", "running"} => status = "StartPending"
  /\ pc \in {"check", "recv", "stop_pending"} => status = "Running"
  /\ pc \in {"stop", "send", "join"} => status = "StopPending"

(* The handle is open from the registration on; Stopped is reported by its *)
(* drop and by nothing else.                                               *)
HandleInv ==
  /\ pc \in {"idle", "register"} => handle = "none"
  /\ pc \notin {"idle", "register", "returned"} => handle = "open"
  /\ handle = "none" => status = "none"
  /\ status = "Stopped" => handle = "dropped"

(* Nobody but stop() notifies the service function. *)
NoticeInv == pc \notin {"join", "returned"} => messages = 0 /\ ~informed

(* The loop is not entered before the thread is there; it ends because of a *)
(* Stop control or because the thread is finished.                          *)
CauseInv ==
  /\ pc \in {"running", "check", "recv", "stop_pending", "stop", "send", "join"}
       => thread # "unspawned"
  /\ shutdown > 0 => stops > 0
  /\ pc \in {"stop_pending", "stop"} => stops > 0 \/ IsFinished
  /\ pc = "send" => stops > 0

(* What StoppedExplained says, from the moment run_service returns. *)
Explained ==
  /\ result = "Err"
  /\ \/ "report" \in failed \/ "start" \in failed
     \/ stops > 0 /\ receiver = "dropped" /\ ~informed

ReturnInv ==
  pc = "returned" /\ handle # "none" /\ thread \in {"running", "returned"}
    => Explained

IInv == /\ TypeOK /\ StatusInv /\ HandleInv /\ NoticeInv /\ CauseInv
        /\ ReturnInv

-----------------------------------------------------------------------------

LEMMA InitInv == Init => IInv
<1> SUFFICES ASSUME NEW b \in StartedBefore, ServiceInit("idle", b), Init
             PROVE  IInv
  BY DEF Init
<1>1. TypeOK
  <2>1. \/ receiver = "app" /\ thread = "unspawned"
        \/ receiver = "fn" /\ thread = "running"
    BY ZenonT(20) DEF ServiceInit
  <2>2. messages \in 0..Capacity /\ shutdown \in Nat
    BY CapacityAssumption DEF ServiceInit
  <2>3. stops \in 0..MaxStops /\ pending \in 0..stops
    BY WinAssumption DEF Init
  <2>4. outcome = "none" /\ result = "none" /\ pc = "idle" /\ informed \in BOOLEAN
    BY DEF ServiceInit
  <2>5. registered \in BOOLEAN
    BY WinAssumption DEF Init
  <2>6. main = "start_service" /\ mainResult = "none" /\ handle = "none"
        /\ status = "none" /\ failed = {}
    BY DEF Init
  <2>7. QED
    BY <2>1, <2>2, <2>3, <2>4, <2>5, <2>6 DEF TypeOK, ServiceTypeOK, FailedTypeOK
<1>2. StatusInv /\ HandleInv /\ NoticeInv /\ CauseInv /\ ReturnInv
  BY DEF Init, ServiceInit, StatusInv, HandleInv, NoticeInv, CauseInv, ReturnInv
<1>3. QED
  BY <1>1, <1>2 DEF IInv

(* The observer only gains. *)
LEMMA FailedStep == FailedTypeOK /\ [Next]_vars => FailedTypeOK'
<1> SUFFICES ASSUME FailedTypeOK, [Next]_vars
             PROVE  FailedTypeOK'
  OBVIOUS
<1>1. \/ UNCHANGED failed
      \/ \E f \in {"dispatcher", "register", "report", "start"} :
           failed' = failed \cup {f}
  BY DEF Next, StartService, DispatcherReturns, Exit, ServiceMain, Register,
         Report, StartApp, DropHandle, SendStop, HandleStop, ServiceFn,
         otherVars, Done, vars
<1>2. QED
  BY <1>1 DEF FailedTypeOK

(* Every step keeps the invariant. *)
LEMMA StepInv == IInv /\ [Next]_vars => IInv'
<1> SUFFICES ASSUME IInv, [Next]_vars
             PROVE  IInv'
  OBVIOUS
<1>0. FailedTypeOK'
  BY FailedStep DEF IInv, TypeOK
<1> USE <1>0, CapacityAssumption, WinAssumption
    DEF IInv, TypeOK, ServiceTypeOK, Active, Outcomes, StatusInv, HandleInv,
        NoticeInv, CauseInv, ReturnInv, Explained, IsFinished, loopVars,
        appVars, mainVars, scmVars, otherVars
<1>1. CASE StartService
  BY <1>1 DEF StartService, MainReturns
<1>2. CASE DispatcherReturns \/ Exit
  BY <1>2 DEF DispatcherReturns, Exit, MainReturns
<1>3. CASE Register
  BY <1>3 DEF Register, Return
<1>4. CASE Report("start_pending", "StartPending", "start")
  BY <1>4 DEF Report, Return
<1>5. CASE Report("running", "Running", "check")
  BY <1>5 DEF Report, Return
<1>6. CASE Report("stop_pending", "StopPending", "stop")
  BY <1>6 DEF Report, Return
<1>7. CASE StartApp
  BY <1>7 DEF StartApp, Start, Return
<1>8. CASE DropHandle
  BY <1>8 DEF DropHandle
<1>9. CASE Check("stop_pending") /\ UNCHANGED otherVars
  BY <1>9 DEF Check, IsRunning
<1>10. CASE Recv("stop_pending") /\ UNCHANGED otherVars
  BY <1>10 DEF Recv
<1>11. CASE Stop /\ UNCHANGED otherVars
  BY <1>11 DEF Stop, Return, JoinResult
<1>12. CASE Send /\ UNCHANGED otherVars
  BY <1>12 DEF Send, Return
<1>13. CASE Join /\ UNCHANGED otherVars
  BY <1>13 DEF Join, Return, JoinResult
<1>14. CASE SendStop
  BY <1>14 DEF SendStop
<1>15. CASE HandleStop
  BY <1>15 DEF HandleStop
<1>16. CASE FnReceive /\ UNCHANGED otherVars
  BY <1>16 DEF FnReceive
<1>17. CASE FnDropReceiver /\ UNCHANGED otherVars
  BY <1>17 DEF FnDropReceiver
<1>18. CASE FnFinish /\ UNCHANGED otherVars
  BY <1>18 DEF FnFinish
<1>19. ASSUME NEW o \in Outcomes, FnReturn(o), UNCHANGED otherVars
       PROVE  IInv'
  BY <1>19 DEF FnReturn
<1>20. CASE UNCHANGED vars
  BY <1>20 DEF vars
<1>21. QED
  BY <1>1, <1>2, <1>3, <1>4, <1>5, <1>6, <1>7, <1>8, <1>9, <1>10, <1>11,
     <1>12, <1>13, <1>14, <1>15, <1>16, <1>17, <1>18, <1>19, <1>20
     DEF Next, ServiceMain, ServiceFn, Fn, Done

LEMMA Inductive == Spec => []IInv
  BY InitInv, StepInv, PTL DEF Spec

-----------------------------------------------------------------------------

(* Type correctness: in particular stop() never puts a second message into *)
(* the service's channel, and no control is handled twice.                 *)
THEOREM TypeCorrect == Spec => []TypeOK
<1>1. IInv => TypeOK
  BY DEF IInv
<1>2. QED
  BY <1>1, Inductive, PTL

(* The SCM is told that the service stopped while its function is at work   *)
(* only for one of the three reasons StoppedExplained names.                *)
THEOREM StoppedIsTrue == Spec => []StoppedExplained
<1>1. IInv => StoppedExplained
  <2> SUFFICES ASSUME IInv, status = "Stopped", thread \in {"running", "returned"}
               PROVE  Explained
    BY DEF StoppedExplained, Explained
  <2>1. pc = "returned" /\ handle # "none"
    BY DEF IInv, TypeOK, StatusInv, HandleInv
  <2>2. QED
    BY <2>1 DEF IInv, ReturnInv
<1>2. QED
  BY <1>1, Inductive, PTL

(* The reports to the SCM follow the order that it and the manager rely on, *)
(* however the threads of the service interleave and whatever fails.        *)
THEOREM OnlyForward == Spec => ReportsInOrder
<1>1. IInv /\ [Next]_vars =>
        [status # "none" /\ status' # status => <<status, status'>> \in Reports]_vars
  <2> SUFFICES ASSUME IInv, Next, status # "none", status' # status
               PROVE  <<status, status'>> \in Reports
    OBVIOUS
  <2> USE DEF otherVars, scmVars, mainVars
  <2>1. \/ Report("start_pending", "StartPending", "start")
        \/ Report("running", "Running", "check")
        \/ Report("stop_pending", "StopPending", "stop")
        \/ DropHandle
    BY DEF Next, StartService, DispatcherReturns, Exit, ServiceMain, Register,
           StartApp, SendStop, HandleStop, ServiceFn, Done, vars
  <2>2. QED
    BY <2>1 DEF IInv, TypeOK, StatusInv, HandleInv, Report, DropHandle, Reports,
                Active
<1>2. QED
  BY <1>1, Inductive, PTL DEF Spec, ReportsInOrder

=============================================================================
