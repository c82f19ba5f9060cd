---------------------------- MODULE WindowsStates ----------------------------
(***************************************************************************)
(* The contract between a Windows service process and those who watch it:  *)
(* the states the service reports to the service control manager (SCM),    *)
(* and in which order.  WinService, the process, keeps to it; Sc, the      *)
(* manager, relies on it.                                                  *)
(***************************************************************************)

Active == {"StartPending", "Running", "StopPending"}

(* A service goes forward one state at a time, and may stop from any.  *)
(* The SCM itself sets StartPending when it starts the process.        *)
Reports == {<<"StartPending", "Running">>, <<"Running", "StopPending">>}
             \cup (Active \X {"Stopped"})

=============================================================================
