----------------------------- MODULE ManagerSteps -----------------------------
(***************************************************************************)
(* What the ServiceManagers of all platforms have in common: install,      *)
(* uninstall, start and stop run one command after the other, and the      *)
(* first one that fails ends the call with its error (`?` in systemd.rs,   *)
(* launchd.rs and sc.rs).  What the steps are is left to the platform's    *)
(* module; between two of them anything may happen.                        *)
(***************************************************************************)
EXTENDS UniServiceManager

VARIABLE step   \* per client: the step of install, uninstall, ... it is at

(* Every error of a command or of the file system that is passed on. *)
Failed == Error("BadExitStatus")

StepInit == step = [c \in Clients |-> "none"]

FinishKeepsStep(c, r) == Acted(c, r) /\ UNCHANGED step

(* A step of c that is not the last of its install or uninstall... *)
Then(c, s) ==
  /\ pc[c] = "act" /\ step' = [step EXCEPT ![c] = s]
  /\ UNCHANGED clientVars

(* ...and one that is, or fails. *)
Finish(c, r) == Acted(c, r) /\ step' = [step EXCEPT ![c] = "none"]

(* The status check of a leg; first gives, for its verb, the first step of *)
(* the platform's method.                                                  *)
CheckFrom(c, r, first) ==
  /\ Check(c, r)
  /\ step' = IF pc'[c] = "act" THEN [step EXCEPT ![c] = first[Verb(c)]] ELSE step

(* The processes of the clients in C die between two of their steps. *)
DieAtStep(C) ==
  Die(C) /\ step' = [c \in Clients |-> IF c \in C THEN "none" ELSE step[c]]

-----------------------------------------------------------------------------

(* The platform has done what c asked of it with verb v. *)
ActSucceeds(c, v) ==
  /\ pc[c] = "act" /\ Verb(c) = v
  /\ \/ pc'[c] = "poll"
     \/ pc'[c] = "idle" /\ reply'[c] = Done

(* What c asked of the platform last has been done: it polls for the effect, *)
(* or its method is over.                                                    *)
Succeeded(c) ==
  \/ pc[c] = "poll" /\ op[c] # "wait_for_status"
  \/ pc[c] = "idle" /\ op[c] \in Immediate /\ reply[c] = Done

(* A call of method o returns r to c. *)
Returns(c, o, r) ==
  /\ op[c] = o /\ pc[c] # "idle"
  /\ pc'[c] = "idle" /\ reply'[c] = r

=============================================================================
