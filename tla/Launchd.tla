------------------------------- MODULE Launchd -------------------------------
(***************************************************************************)
(* The calls of UniServiceManager carried out on macOS                     *)
(* (manager/src/launchd.rs): a service is a property list and the job that *)
(* launchd has loaded from it, which the crate changes and asks for with   *)
(* one launchctl command at a time.  Unlike systemctl's, the stop command  *)
(* only sends a signal, and loading a job with RunAtLoad starts it.        *)
(***************************************************************************)
EXTENDS UnixManager

CONSTANT Hazards   \* bound: which of "crash" and "reboot" happen

LaunchdCapabilities ==
  {"SUPPORTS_CUSTOM_GROUP", "RESTART_ON_FAILURE_REQUIRES_AUTOSTART",
   "USES_NAME_PREFIX", "STARTS_IMMEDIATELY_WITH_AUTOSTART"}

ASSUME LaunchdAssumption ==
  /\ Capabilities = LaunchdCapabilities
  /\ Hazards \subseteq {"crash", "reboot"}

VARIABLES
  loaded,     \* the spec of the job that launchd has loaded, or NoSpec
  job,        \* its process: "none", "running", "stopping" (SIGTERM was sent
              \* and it still runs), or "throttled": it failed and launchd is
              \* about to start it again (KeepAlive)
  fresh,      \* observer: has a process been started since the client's call?
  ended       \* observer: has the process that ran at the call ended?

osVars == <<loaded, job, fresh, ended>>
vars   == <<pc, op, leg, spec, want, polls, reply, file, step,
            loaded, job, fresh, ended>>

Alive == {"running", "stopping"}

TypeOK ==
  /\ UnixTypeOK
  /\ loaded \in Specs \cup {NoSpec}
  /\ job \in Alive \cup {"none", "throttled"}
  /\ loaded = NoSpec => job = "none"
  /\ fresh \in [Clients -> BOOLEAN] /\ ended \in [Clients -> BOOLEAN]

Init ==
  /\ UnixInit
  /\ loaded = NoSpec /\ job = "none"
  /\ fresh = [c \in Clients |-> FALSE] /\ ended = [c \in Clients |-> TRUE]

-----------------------------------------------------------------------------
(* launchd, as the code sees it. *)

(* launchctl print finds no job (exit code 113), or prints its state. *)
JobStatus == CASE loaded = NoSpec -> "NotInstalled"
               [] job \in Alive -> "Running"
               [] OTHER -> "Stopped"
StatusReplies == {Ok(JobStatus), Failed}

All(b) == [c \in Clients |-> b]

(* A new process of the job; the old one, if any, is gone. *)
Launch == job' = "running" /\ fresh' = All(TRUE) /\ ended' = All(TRUE)
Vanish == job' = "none" /\ ended' = All(TRUE) /\ UNCHANGED fresh

(* launchd loads the job from its file, and starts it if RunAtLoad. *)
Load ==
  /\ loaded' = file.spec
  /\ IF file.spec.autostart THEN Launch ELSE Vanish

(* The process ends; if it failed, KeepAlive has it started again. *)
JobEnds ==
  /\ job \in Alive
  /\ \/ job' = "none"
     \/ loaded.restart_on_failure /\ job' = "throttled"
  /\ ended' = All(TRUE)
  /\ UNCHANGED <<clientVars, file, step, loaded, fresh>>

JobRestarts ==
  /\ job = "throttled" /\ Launch
  /\ UNCHANGED <<clientVars, file, step, loaded>>

(* A client dies between two of its steps. *)
Crash(c) ==
  /\ "crash" \in Hazards /\ pc[c] # "idle"
  /\ DieUnix({c}) /\ UNCHANGED osVars

(* launchd loads every property list it can read at boot, or at login. *)
Reboot ==
  /\ "reboot" \in Hazards /\ DieUnix(Clients)
  /\ \/ WellFormed /\ Load
     \/ ~WellFormed /\ loaded' = NoSpec /\ Vanish

-----------------------------------------------------------------------------
(* The steps of a client that acts. *)

WritePlistOnly(c) ==
  WriteFile(c) /\ Finish(c, Done) /\ UNCHANGED osVars

(* install writes the property list, then bootstraps it. *)
WritePlist(c) == WriteFile(c) /\ Then(c, "load") /\ UNCHANGED osVars

(* launchctl bootstrap refuses a file it cannot parse and a job it has. *)
Bootstrap(c) ==
  /\ step[c] = "load" /\ WellFormed /\ loaded = NoSpec
  /\ Load /\ Finish(c, Done) /\ UNCHANGED file

RemoveFileFirst(c) ==
  /\ step[c] = "unload" /\ loaded # NoSpec /\ file.exists
  /\ file' = NoFile /\ Then(c, "remove") /\ UNCHANGED osVars

BootoutBestEffort(c) ==
  /\ step[c] = "unload" /\ loaded # NoSpec
  /\ loaded' \in {NoSpec, loaded}
  /\ IF loaded' = NoSpec THEN Vanish ELSE UNCHANGED <<job, fresh, ended>>
  /\ Then(c, "remove") /\ UNCHANGED file

(* uninstall: launchctl bootout, which ends the job, then the file. *)
Bootout(c) ==
  /\ step[c] = "unload" /\ loaded # NoSpec
  /\ loaded' = NoSpec /\ Vanish
  /\ Then(c, "remove") /\ UNCHANGED file

(* launchctl kickstart -k replaces a process that is running. *)
Kickstart(c) ==
  /\ step[c] = "start" /\ loaded # NoSpec
  /\ Launch /\ Finish(c, Done) /\ UNCHANGED <<file, loaded>>

(* launchctl kill SIGTERM returns once the signal is sent. *)
Kill(c) ==
  /\ step[c] = "stop" /\ job \in Alive
  /\ job' = "stopping" /\ Finish(c, Done)
  /\ UNCHANGED <<file, loaded, fresh, ended>>

Act(c) ==
  \/ WritePlist(c) \/ Bootstrap(c) \/ Bootout(c) \/ Kickstart(c) \/ Kill(c)
  \/ /\ OpenFile(c) \/ WriteFileFails(c) \/ RemoveFile(c) \/ FailStep(c)
     /\ UNCHANGED osVars

-----------------------------------------------------------------------------

AskStatus(c) ==
  /\ \E r \in StatusReplies :
       \/ CheckUnix(c, r)
       \/ (Status(c, r) \/ Poll(c, r)) /\ UNCHANGED <<file, step>>
  /\ UNCHANGED osVars

Call(c) ==
  /\ \E o \in Ops : \E a \in Arguments(o) : Invoke(c, o, a[1], a[2])
  /\ fresh' = [fresh EXCEPT ![c] = FALSE]
  /\ ended' = [ended EXCEPT ![c] = job \notin Alive]
  /\ UNCHANGED <<file, step, loaded, job>>

Client(c) == AskStatus(c) \/ Act(c)

Next ==
  \/ \E c \in Clients : Call(c) \/ Client(c) \/ Crash(c)
  \/ JobEnds \/ JobRestarts \/ Reboot

(* A client that has begun goes on; nothing says that it calls again. *)
Fairness == \A c \in Clients : WF_vars(Client(c))

Spec     == Init /\ [][Next]_vars
FairSpec == Spec /\ Fairness

-----------------------------------------------------------------------------
(* With one client, whatever fails, dies or reboots. *)

(* A job that is loaded has its file, so that uninstall can remove both and  *)
(* a reboot keeps it: bootout comes before the removal of the file.          *)
LoadedHasFile == loaded # NoSpec => file.exists

(* An install that succeeds has loaded the job of its spec from a file that  *)
(* holds its spec and nothing else.                                          *)
InstalledAsAsked ==
  [][\A c \in Clients : ActSucceeds(c, "install") =>
       file' = TextOf(spec[c]) /\ loaded' = spec[c]]_vars

(* An uninstall that succeeds leaves no job, no process and no file. *)
UninstalledForGood ==
  [][\A c \in Clients : ActSucceeds(c, "uninstall") =>
       file' = NoFile /\ loaded' = NoSpec /\ job' = "none"]_vars

(* The service as its callers are promised to see it. *)
Managed == INSTANCE ServiceManagement WITH
  defined <- file.exists \/ loaded # NoSpec,
  running <- job \in Alive,
  doing   <- [c \in Clients |-> IF pc[c] = "act" THEN Verb(c) ELSE "none"],
  ok      <- [c \in Clients |-> Succeeded(c)]

(* launchd.rs does what UniServiceManager documents. *)
ImplementsManagement == Managed!Spec

-----------------------------------------------------------------------------
(* With any number of clients. *)

(* A method that starts the service and returns Ok has had a new process *)
(* started since it was called.                                          *)
OkMeansStarted ==
  [][\A c \in Clients :
       (\E o \in {"start", "start_and_wait", "install_if_needed_and_start",
                  "restart"} : Returns(c, o, Done))
       => fresh'[c]]_vars

(* A method that stops the service, waits, and returns Ok has seen the end   *)
(* of the process that ran when it was called, although the stop command     *)
(* itself only sends a signal, and KeepAlive or others start new processes.  *)
OkMeansStopped ==
  [][\A c \in Clients :
       (\E o \in {"stop_and_wait", "stop_if_needed_and_uninstall",
                  "uninstall_and_wait", "restart"} : Returns(c, o, Done))
       => ended'[c]]_vars

(* Every call returns, whatever launchctl answers and others do. *)
CallsReturn == \A c \in Clients : pc[c] # "idle" ~> pc[c] = "idle"

-----------------------------------------------------------------------------
(* What the documentation says and the code does not do. *)

(* install_if_needed_and_start: "Installs the service if it is not already   *)
(* installed and starts it ... The expected status is Running if autostart   *)
(* is enabled and the service starts immediately after install": the method  *)
(* never fails because its own install has started the service.              *)
StartsWhatItInstalls ==
  [][\A c \in Clients :
       leg[c] = 2 =>
         ~Returns(c, "install_if_needed_and_start", WrongState("Running"))]_vars

(* ServiceSpec, "a specification of a service to be installed": what install *)
(* hands to launchd is the definition made from its spec, whatever an        *)
(* earlier install left behind.                                              *)
BootstrapsItsSpec ==
  \A c \in Clients : step[c] = "load" => file = TextOf(spec[c])

=============================================================================
