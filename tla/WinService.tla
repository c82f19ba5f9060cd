------------------------------ MODULE WinService ------------------------------
(***************************************************************************)
(* Service mode on Windows (src/src/win_service.rs).  The main thread      *)
(* gives the process to the SCM's dispatcher (start_service); a thread of  *)
(* the dispatcher runs the service (service_main and run_service, with the *)
(* loop and the BaseService of module Service); a control handler turns    *)
(* Stop controls into messages for that loop.  Dropping the status handle  *)
(* reports Stopped, on every way out of run_service.                       *)
(*                                                                         *)
(* The dispatcher returns once the service has reported Stopped, and the   *)
(* process may then exit and take its threads with it, as test_bin does.   *)
(***************************************************************************)
EXTENDS Service, WindowsStates

CONSTANTS
  MaxStops,         \* bound: how many Stop controls the SCM sends
  StartedBefore,    \* subset of BOOLEAN: may the caller have called start()?
  RegisteredBefore  \* subset of BOOLEAN: may SERVICE_APP be set already?

ASSUME WinAssumption ==
  /\ MaxStops \in Nat
  /\ StartedBefore \subseteq BOOLEAN /\ RegisteredBefore \subseteq BOOLEAN

VARIABLES
  main,        \* the thread that called run_service: "start_service",
               \* "dispatch", "returned", or "exited", process and all
  mainResult,  \* what run_service returned to it; result is what the
               \* run_service of this module returned to service_main
  registered,  \* SERVICE_APP is set
  handle,      \* the ServiceControlHandler: "none", "open", "dropped"
  status,      \* the last state reported to the SCM, or "none"
  stops,       \* Stop controls sent so far
  pending,     \* those the control handler has not been called for
  failed       \* observer: which of the calls that may fail did

mainVars == <<main, mainResult, registered>>
scmVars  == <<stops, pending>>
vars     == <<pc, result, shutdown, receiver, messages, thread, outcome,
              informed, main, mainResult, registered, handle, status, stops,
              pending, failed>>

FailedTypeOK == failed \subseteq {"dispatcher", "register", "report", "start"}

TypeOK ==
  /\ ServiceTypeOK /\ FailedTypeOK
  /\ pc \in {"idle", "register", "start_pending", "start", "running", "check",
             "recv", "stop_pending", "stop", "send", "join", "returned"}
  /\ main \in {"start_service", "dispatch", "returned", "exited"}
  /\ mainResult \in {"none", "Ok", "Err"} /\ registered \in BOOLEAN
  /\ handle \in {"none", "open", "dropped"}
  /\ status \in Active \cup {"none", "Stopped"}
  /\ stops \in 0..MaxStops /\ pending \in 0..stops

Init ==
  /\ \E b \in StartedBefore : ServiceInit("idle", b)
  /\ main = "start_service" /\ mainResult = "none"
  /\ registered \in RegisteredBefore
  /\ handle = "none" /\ status = "none"
  /\ stops = 0 /\ pending = 0 /\ failed = {}

-----------------------------------------------------------------------------
(* The main thread. *)

MainReturns(r) == main' = "returned" /\ mainResult' = r

(* start_service: SERVICE_APP can be set once in the life of the process,  *)
(* and the dispatcher only works in a process that the SCM has started.    *)
StartService ==
  /\ main = "start_service" /\ registered' = TRUE
  /\ \/ registered /\ MainReturns("Err") /\ UNCHANGED <<pc, failed>>
     \/ /\ ~registered
        /\ main' = "dispatch" /\ pc' = "register"
        /\ UNCHANGED <<mainResult, failed>>
     \/ /\ ~registered
        /\ MainReturns("Err") /\ failed' = failed \cup {"dispatcher"}
        /\ UNCHANGED pc
  /\ UNCHANGED <<result, shutdown, appVars, handle, status, scmVars>>

(* service_dispatcher::start blocks until the service is reported Stopped. *)
DispatcherReturns ==
  /\ main = "dispatch" /\ status = "Stopped" /\ MainReturns("Ok")
  /\ UNCHANGED <<loopVars, appVars, registered, handle, status, scmVars, failed>>

Exit ==
  /\ main = "returned" /\ main' = "exited"
  /\ UNCHANGED <<loopVars, appVars, mainResult, registered, handle, status,
                 scmVars, failed>>

-----------------------------------------------------------------------------
(* The thread that runs service_main. *)

(* The control handler is registered, or it cannot be. *)
Register ==
  /\ pc = "register"
  /\ \/ handle' = "open" /\ pc' = "start_pending" /\ UNCHANGED <<result, failed>>
     \/ /\ Return("Err") /\ failed' = failed \cup {"register"}
        /\ UNCHANGED handle
  /\ UNCHANGED <<shutdown, appVars, mainVars, status, scmVars>>

(* set_status: an error ends run_service, whatever the service is doing. *)
Report(at, s, next) ==
  /\ pc = at
  /\ \/ status' = s /\ pc' = next /\ UNCHANGED <<result, failed>>
     \/ /\ Return("Err") /\ failed' = failed \cup {"report"}
        /\ UNCHANGED status
  /\ UNCHANGED <<shutdown, appVars, mainVars, handle, scmVars>>

(* BaseService::start, noting whether it failed. *)
StartApp ==
  /\ Start("running")
  /\ failed' = IF pc' = "returned" THEN failed \cup {"start"} ELSE failed
  /\ UNCHANGED <<mainVars, handle, status, scmVars>>

DropHandleBeforeStop ==
  /\ pc \in {"stop", "returned"} /\ handle = "open" /\ handle' = "dropped"
  /\ \/ status' = "Stopped" /\ UNCHANGED failed
     \/ UNCHANGED status /\ failed' = failed \cup {"report"}
  /\ UNCHANGED <<loopVars, appVars, mainVars, scmVars>>

DropReportsNothing ==
  /\ pc = "returned" /\ handle = "open" /\ handle' = "dropped"
  /\ UNCHANGED <<loopVars, appVars, mainVars, status, scmVars, failed>>

(* Drop of the status handle: an error is only logged. *)
DropHandle ==
  /\ pc = "returned" /\ handle = "open" /\ handle' = "dropped"
  /\ \/ status' = "Stopped" /\ UNCHANGED failed
     \/ UNCHANGED status /\ failed' = failed \cup {"report"}
  /\ UNCHANGED <<loopVars, appVars, mainVars, scmVars>>

ServiceMain ==
  /\ main # "exited"
  /\ \/ Register \/ StartApp \/ DropHandle
     \/ Report("start_pending", "StartPending", "start")
     \/ Report("running", "Running", "check")
     \/ Report("stop_pending", "StopPending", "stop")
     \/ /\ Check("stop_pending") \/ Recv("stop_pending") \/ Stop \/ Send \/ Join
        /\ UNCHANGED <<mainVars, handle, status, scmVars, failed>>

-----------------------------------------------------------------------------
(* Controls. *)

(* Every report but Stopped accepts Stop controls. *)
SendStop ==
  /\ main = "dispatch" /\ status \in Active /\ stops < MaxStops
  /\ stops' = stops + 1 /\ pending' = pending + 1
  /\ UNCHANGED <<loopVars, appVars, mainVars, handle, status, failed>>

(* The receiver of the handler's messages exists until the loop is over. *)
Listening == pc \in {"start", "running"} \/ InLoop

HandleStopOnceRunning ==
  /\ main # "exited" /\ pending > 0 /\ pending' = pending - 1
  /\ shutdown' = IF InLoop THEN shutdown + 1 ELSE shutdown
  /\ UNCHANGED <<pc, result, appVars, mainVars, handle, status, stops, failed>>

HandleStopAndReport ==
  /\ main # "exited" /\ pending > 0 /\ pending' = pending - 1
  /\ shutdown' = IF Listening THEN shutdown + 1 ELSE shutdown
  /\ status' = "StopPending"
  /\ UNCHANGED <<pc, result, appVars, mainVars, handle, stops, failed>>

(* The control handler sends its message, even before the loop is there to *)
(* read it; that nobody will read it any more is only logged.              *)
HandleStop ==
  /\ main # "exited" /\ pending > 0 /\ pending' = pending - 1
  /\ shutdown' = IF Listening THEN shutdown + 1 ELSE shutdown
  /\ UNCHANGED <<pc, result, appVars, mainVars, handle, status, stops, failed>>

otherVars == <<mainVars, handle, status, scmVars, failed>>

ServiceFn == main # "exited" /\ Fn /\ UNCHANGED otherVars

(* The process is gone, or waits for a report that could not be made. *)
Done ==
  /\ main = "exited" \/ (pc = "returned" /\ handle # "open")
  /\ UNCHANGED vars

Next ==
  \/ StartService \/ DispatcherReturns \/ Exit \/ ServiceMain
  \/ SendStop \/ HandleStop \/ ServiceFn \/ Done

(* As in RunInteractive: threads are scheduled, and the service function *)
(* returns when it has been told to, or listens no more.                 *)
FnCooperates ==
  /\ main # "exited" /\ UNCHANGED otherVars
  /\ \/ FnReceive
     \/ FnFinish
     \/ (informed \/ receiver = "dropped") /\ \E o \in Outcomes : FnReturn(o)

Fairness ==
  /\ WF_vars(StartService \/ DispatcherReturns) /\ WF_vars(ServiceMain)
  /\ WF_vars(HandleStop) /\ WF_vars(FnCooperates)

Spec     == Init /\ [][Next]_vars
FairSpec == Spec /\ Fairness

-----------------------------------------------------------------------------
(* The SCM believes the service stopped, and lets the dispatcher return and *)
(* the process exit, while the service function is still at work only when  *)
(* a report to the SCM failed, when start() refused a service that was      *)
(* already started, or when a Stop control raced the function's own end and *)
(* stop() found the receiver gone.                                          *)
StoppedExplained ==
  status = "Stopped" /\ thread \in {"running", "returned"} =>
    /\ result = "Err"
    /\ \/ "report" \in failed \/ "start" \in failed
       \/ stops > 0 /\ receiver = "dropped" /\ ~informed

(* Whatever fails and whenever Stop controls come, the reports follow the  *)
(* order that the SCM and Sc rely on: a service that is stopping, or has   *)
(* stopped, is never reported to be running.                               *)
ReportsInOrder ==
  [][status # "none" /\ status' # status => <<status, status'>> \in Reports]_vars

(* A Stop control that the SCM was allowed to send ends the service, even   *)
(* one that comes before Running is reported and before the loop is there. *)
StopHonoured == pending > 0 ~> pc = "returned" \/ main = "exited"

(* A service function that ends by itself makes run_service return to the *)
(* main thread, unless the SCM cannot be told.                            *)
ExitReported ==
  InLoop /\ IsFinished ~> main \in {"returned", "exited"} \/ "report" \in failed

=============================================================================
