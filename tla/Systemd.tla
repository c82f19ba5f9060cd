------------------------------- MODULE Systemd -------------------------------
(***************************************************************************)
(* The calls of UniServiceManager carried out on Linux                     *)
(* (manager/src/systemd.rs): a service is a unit file and what systemd     *)
(* knows of it, which the crate changes and asks for with one systemctl    *)
(* command at a time.                                                      *)
(*                                                                         *)
(* Any step of install and uninstall may fail, and the client may die, the *)
(* machine reboot, the service end, or another client act between two of   *)
(* them.                                                                   *)
(***************************************************************************)
EXTENDS UnixManager

CONSTANT Hazards   \* bound: which of "crash" and "reboot" happen

SystemdCapabilities == {"SUPPORTS_CUSTOM_GROUP", "SUPPORTS_DESCRIPTION"}

ASSUME SystemdAssumption ==
  /\ Capabilities = SystemdCapabilities
  /\ Hazards \subseteq {"crash", "reboot"}

VARIABLES
  enabled,   \* systemd starts the service at boot (the WantedBy link exists)
  unit,      \* "inactive", "active", or "auto-restart": the service failed
             \* and systemd is about to start it again (RestartSec)
  restarts,  \* the unit that systemd has loaded says Restart=on-failure
  fresh      \* observer: has a process of the service been started since
             \* the client's method was called?

osVars == <<enabled, unit, restarts, fresh>>
vars   == <<pc, op, leg, spec, want, polls, reply, file, step,
            enabled, unit, restarts, fresh>>

TypeOK ==
  /\ UnixTypeOK
  /\ unit \in {"inactive", "active", "auto-restart"}
  /\ enabled \in BOOLEAN /\ restarts \in BOOLEAN
  /\ fresh \in [Clients -> BOOLEAN]

Init ==
  /\ UnixInit
  /\ enabled = FALSE /\ unit = "inactive" /\ restarts = FALSE
  /\ fresh = [c \in Clients |-> FALSE]

-----------------------------------------------------------------------------
(* systemd, as the code sees it. *)

(* The exit codes of systemctl status that status() tells apart: 0 for an   *)
(* active unit, 3 for one that is loaded and not active, 4 for an unknown   *)
(* one.  Every other outcome is an error.                                   *)
UnitStatus == CASE unit = "active" -> "Running"
                [] unit = "inactive" /\ ~file.exists -> "NotInstalled"
                [] OTHER -> "Stopped"
StatusReplies == {Ok(UnitStatus), Failed}

(* systemd starts a process of the service, as its unit file says. *)
Launch ==
  /\ file.spec # NoSpec
  /\ unit' = "active" /\ restarts' = file.spec.restart_on_failure
  /\ fresh' = [c \in Clients |-> TRUE]

(* The service ends, and is to be restarted if it failed... *)
ServiceEnds ==
  /\ unit = "active"
  /\ \/ unit' = "inactive"
     \/ restarts /\ unit' = "auto-restart"
  /\ UNCHANGED <<clientVars, file, step, enabled, restarts, fresh>>

(* ...which systemd does a moment later; the unit is still loaded. *)
ServiceRestarts ==
  /\ unit = "auto-restart" /\ unit' = "active"
  /\ fresh' = [c \in Clients |-> TRUE]
  /\ UNCHANGED <<clientVars, file, step, enabled, restarts>>

(* A client dies between two of its steps. *)
Crash(c) ==
  /\ "crash" \in Hazards /\ pc[c] # "idle"
  /\ DieUnix({c}) /\ UNCHANGED osVars

(* The machine comes up again and starts what is enabled. *)
Reboot ==
  /\ "reboot" \in Hazards /\ DieUnix(Clients)
  /\ \/ enabled /\ Launch
     \/ /\ ~(enabled /\ file.spec # NoSpec)
        /\ unit' = "inactive" /\ UNCHANGED <<restarts, fresh>>
  /\ UNCHANGED enabled

-----------------------------------------------------------------------------
(* The steps of a client that acts. *)

WriteUnitOnly(c) ==
  /\ WriteFile(c) /\ Finish(c, Done) /\ UNCHANGED osVars

(* install writes the unit file, and is done with it unless the service is *)
(* to start at boot.                                                       *)
WriteUnit(c) ==
  /\ WriteFile(c)
  /\ IF spec[c].autostart THEN Then(c, "load") ELSE Finish(c, Done)
  /\ UNCHANGED osVars

(* systemctl enable wants a unit file that it can read. *)
Enable(c) ==
  /\ step[c] = "load" /\ file.spec # NoSpec
  /\ enabled' = TRUE /\ Finish(c, Done)
  /\ UNCHANGED <<file, unit, restarts, fresh>>

RemoveFileFirst(c) ==
  /\ step[c] = "unload" /\ file.exists
  /\ file' = NoFile /\ Then(c, "remove") /\ UNCHANGED osVars

DisableBestEffort(c) ==
  /\ step[c] = "unload" /\ file.exists
  /\ enabled' \in {FALSE, enabled} /\ Then(c, "remove")
  /\ UNCHANGED <<file, unit, restarts, fresh>>

(* uninstall: systemctl disable, then the removal of the file. *)
Disable(c) ==
  /\ step[c] = "unload" /\ file.exists
  /\ enabled' = FALSE /\ Then(c, "remove")
  /\ UNCHANGED <<file, unit, restarts, fresh>>

(* systemctl start waits until the process is there; it has nothing to do   *)
(* when one already is.                                                     *)
StartUnit(c) ==
  /\ step[c] = "start" /\ Finish(c, Done)
  /\ \/ unit = "active" /\ UNCHANGED <<unit, restarts, fresh>>
     \/ unit # "active" /\ Launch
  /\ UNCHANGED <<file, enabled>>

(* systemctl stop waits until the process is gone. *)
StopUnit(c) ==
  /\ step[c] = "stop" /\ (unit # "inactive" \/ file.exists)
  /\ Finish(c, Done) /\ unit' = "inactive"
  /\ UNCHANGED <<file, enabled, restarts, fresh>>

Act(c) ==
  \/ WriteUnit(c) \/ Enable(c) \/ Disable(c) \/ StartUnit(c) \/ StopUnit(c)
  \/ /\ OpenFile(c) \/ WriteFileFails(c) \/ RemoveFile(c) \/ FailStep(c)
     /\ UNCHANGED osVars

-----------------------------------------------------------------------------

AskStatus(c) ==
  /\ \E r \in StatusReplies :
       \/ CheckUnix(c, r)
       \/ (Status(c, r) \/ Poll(c, r)) /\ UNCHANGED <<file, step>>
  /\ UNCHANGED osVars

Call(c) ==
  /\ \E o \in Ops : \E a \in Arguments(o) : Invoke(c, o, a[1], a[2])
  /\ fresh' = [fresh EXCEPT ![c] = FALSE]
  /\ UNCHANGED <<file, step, enabled, unit, restarts>>

Client(c) == AskStatus(c) \/ Act(c)

Next ==
  \/ \E c \in Clients : Call(c) \/ Client(c) \/ Crash(c)
  \/ ServiceEnds \/ ServiceRestarts \/ Reboot

(* A client that has begun goes on; nothing says that it calls again. *)
Fairness == \A c \in Clients : WF_vars(Client(c))

Spec     == Init /\ [][Next]_vars
FairSpec == Spec /\ Fairness

-----------------------------------------------------------------------------
(* With one client, whatever fails, dies or reboots. *)

(* systemd never starts at boot what has no unit file: uninstall disables    *)
(* the service before it removes the file, and may be cut short in between.  *)
NoDanglingEnable == enabled => file.exists

(* No process of the service runs, or is about to be started again, once its *)
(* unit file is gone.  For services without restart_on_failure: one that     *)
(* waits to be restarted looks stopped, and may be uninstalled just then.    *)
OrphanFree == unit # "inactive" => file.exists

(* An install that succeeds leaves exactly the unit file of its spec, with  *)
(* nothing of an older one, and a service enabled if and only if the spec   *)
(* asked for it, whatever earlier calls left behind half-way.               *)
InstalledAsAsked ==
  [][\A c \in Clients : ActSucceeds(c, "install") =>
       file' = TextOf(spec[c]) /\ enabled' = spec[c].autostart]_vars

(* An uninstall that succeeds leaves nothing that a reboot could revive. *)
UninstalledForGood ==
  [][\A c \in Clients : ActSucceeds(c, "uninstall") =>
       file' = NoFile /\ ~enabled']_vars

(* The service as its callers are promised to see it. *)
Managed == INSTANCE ServiceManagement WITH
  defined <- file.exists,
  running <- unit # "inactive",
  doing   <- [c \in Clients |-> IF pc[c] = "act" THEN Verb(c) ELSE "none"],
  ok      <- [c \in Clients |-> Succeeded(c)]

(* systemd.rs does what UniServiceManager documents, for services without *)
(* restart_on_failure.                                                   *)
ImplementsManagement == Managed!Spec

-----------------------------------------------------------------------------
(* With any number of clients. *)

(* A method that starts the service and returns Ok has had a new process     *)
(* started since it was called: no restart is satisfied by the process it    *)
(* was called to replace, even when the service ends, is restarted by        *)
(* systemd, or other clients stop and start it at any moment.                *)
OkMeansStarted ==
  [][\A c \in Clients :
       (\E o \in {"start", "start_and_wait", "install_if_needed_and_start",
                  "restart"} : Returns(c, o, Done))
       => fresh'[c]]_vars

(* Every call returns, whatever systemctl answers and others do. *)
CallsReturn == \A c \in Clients : pc[c] # "idle" ~> pc[c] = "idle"

-----------------------------------------------------------------------------
(* What the documentation says and the code does not do. *)

(* ServiceSpec::autostart: "Whether the service should start automatically   *)
(* when the system boots", and install_if_needed_and_start "installs the     *)
(* service if it is not already installed": when every install there ever    *)
(* was asked for autostart, the service is enabled once the call returns Ok. *)
AutostartHonoured ==
  [][\A c \in Clients :
       Returns(c, "install_if_needed_and_start", Done) => enabled']_vars

=============================================================================
