-------------------------- MODULE UniServiceManager --------------------------
(***************************************************************************)
(* UniServiceManager (manager/src/manager.rs): the calls an installer or a *)
(* program makes to manage one service, on any platform.  Every call is a  *)
(* sequence of legs; a leg asks the platform for the status, decides from  *)
(* it, acts on the platform, and may then poll the status until it is the  *)
(* expected one or a timeout has passed.  Nothing locks the service between *)
(* these steps, and any number of clients may be at work on it.             *)
(*                                                                         *)
(* The platform's ServiceManager is not here.  Its replies are parameters  *)
(* of the actions; a module for a platform EXTENDS this one and supplies   *)
(* them, with the steps of its install, uninstall, start and stop.         *)
(***************************************************************************)
EXTENDS Naturals, Sequences

CONSTANTS
  Clients,       \* who calls
  Specs,         \* the ServiceSpecs they install
  NoSpec,        \* no ServiceSpec
  Ops,           \* the methods they call
  Capabilities,  \* UniServiceManager::capabilities()
  UserService,   \* is the service a user service?
  MaxPolls       \* bound: polls after which a timeout has certainly passed

(* user, group, password and description say whether there is one; size    *)
(* stands for the length of the service definition made from the spec      *)
ServiceSpec == [autostart : BOOLEAN, restart_on_failure : BOOLEAN,
                user : BOOLEAN, group : BOOLEAN, password : BOOLEAN,
                description : BOOLEAN, size : Nat]

(* What each method does to the platform, in order. *)
Legs == [install                      |-> <<"install">>,
         install_and_wait             |-> <<"install">>,
         install_if_needed_and_start  |-> <<"install", "start">>,
         uninstall                    |-> <<"uninstall">>,
         uninstall_and_wait           |-> <<"uninstall">>,
         stop_if_needed_and_uninstall |-> <<"stop", "uninstall">>,
         start                        |-> <<"start">>,
         start_and_wait               |-> <<"start">>,
         stop                         |-> <<"stop">>,
         stop_and_wait                |-> <<"stop">>,
         restart                      |-> <<"stop", "start">>,
         status                       |-> << >>,
         wait_for_status              |-> << >>]

(* The methods that do not wait for the effect of what they did. *)
Immediate == {"install", "uninstall", "start", "stop"}

ServiceStatus == {"NotInstalled", "Stopped", "StartPending", "StopPending",
                  "Running", "ContinuePending", "PausePending", "Paused"}

ASSUME ManagerAssumption ==
  /\ Specs \subseteq ServiceSpec /\ NoSpec \notin ServiceSpec
  /\ Ops \subseteq DOMAIN Legs
  /\ UserService \in BOOLEAN
  /\ MaxPolls \in Nat

VARIABLES
  pc,     \* per client: "idle", or what it does next
  op,     \* the method it is in, or was in last
  leg,    \* which leg of it
  spec,   \* the ServiceSpec it was given
  want,   \* the status it polls for
  polls,  \* how often it has slept in this wait
  reply   \* what the method returned

clientVars == <<pc, op, leg, spec, want, polls, reply>>

Ok(s)         == [kind |-> "Ok", status |-> s]
Error(k)      == [kind |-> k, status |-> "none"]
WrongState(s) == [kind |-> "WrongState", status |-> s]
Timeout(s)    == [kind |-> "Timeout", status |-> s]

Done    == Ok("none")                 \* Ok(()) of a method without a result
NoReply == Error("none")
Kinds   == {"none", "Ok", "AlreadyInstalled", "WrongState", "Timeout",
            "TimeoutError", "BadServiceSpec", "BadExitStatus"}
Replies == [kind : Kinds, status : ServiceStatus \cup {"none"}]

ClientTypeOK ==
  /\ pc    \in [Clients -> {"idle", "status", "check", "act", "poll"}]
  /\ op    \in [Clients -> Ops \cup {"none"}]
  /\ leg   \in [Clients -> {1, 2}]
  /\ spec  \in [Clients -> Specs \cup {NoSpec}]
  /\ want  \in [Clients -> ServiceStatus]
  /\ polls \in [Clients -> 0..MaxPolls]
  /\ reply \in [Clients -> Replies]
  /\ \A c \in Clients :
       /\ pc[c] = "idle" => leg[c] = 1
       /\ pc[c] # "idle" => op[c] \in Ops
       /\ pc[c] \in {"check", "act"} => leg[c] \in DOMAIN Legs[op[c]]

ClientInit ==
  /\ pc    = [c \in Clients |-> "idle"]
  /\ op    = [c \in Clients |-> "none"]
  /\ leg   = [c \in Clients |-> 1]
  /\ spec  = [c \in Clients |-> NoSpec]
  /\ want  = [c \in Clients |-> "NotInstalled"]
  /\ polls = [c \in Clients |-> 0]
  /\ reply = [c \in Clients |-> NoReply]

-----------------------------------------------------------------------------

Verb(c) == Legs[op[c]][leg[c]]

Installs(o) == "install" \in {Legs[o][i] : i \in DOMAIN Legs[o]}

(* The method returns.  What no caller can see any more is forgotten. *)
Return(c, r) ==
  /\ pc'    = [pc EXCEPT ![c] = "idle"]
  /\ reply' = [reply EXCEPT ![c] = r]
  /\ leg'   = [leg EXCEPT ![c] = 1]
  /\ spec'  = [spec EXCEPT ![c] = NoSpec]
  /\ polls' = [polls EXCEPT ![c] = 0]
  /\ UNCHANGED <<op, want>>

GoTo(c, p) ==
  /\ pc' = [pc EXCEPT ![c] = p]
  /\ UNCHANGED <<op, leg, spec, want, polls, reply>>

(* The leg has done its part: on to the next one, if there is one. *)
LegDone(c) ==
  \/ leg[c] >= Len(Legs[op[c]]) /\ Return(c, Done)
  \/ /\ leg[c] < Len(Legs[op[c]])
     /\ pc'    = [pc EXCEPT ![c] = "check"]
     /\ leg'   = [leg EXCEPT ![c] = @ + 1]
     /\ polls' = [polls EXCEPT ![c] = 0]
     /\ UNCHANGED <<op, spec, want, reply>>

(* The error of a first leg that says there is nothing left for it to do. *)
Tolerated(c, e) ==
  /\ leg[c] = 1
  /\ \/ op[c] = "install_if_needed_and_start" /\ e = Error("AlreadyInstalled")
     \/ /\ op[c] \in {"restart", "stop_if_needed_and_uninstall"}
        /\ e = WrongState("Stopped")

FailForgetsTheRest(c, e) == Return(c, IF Tolerated(c, e) THEN Done ELSE e)

Fail(c, e) == IF Tolerated(c, e) THEN LegDone(c) ELSE Return(c, e)

(* A client calls method o; s and w are the arguments it may take. *)
Invoke(c, o, s, w) ==
  /\ pc[c] = "idle"
  /\ pc' = [pc EXCEPT ![c] = CASE o = "status" -> "status"
                               [] o = "wait_for_status" -> "poll"
                               [] OTHER -> "check"]
  /\ op'    = [op EXCEPT ![c] = o]
  /\ spec'  = [spec EXCEPT ![c] = s]
  /\ want'  = [want EXCEPT ![c] = w]
  /\ reply' = [reply EXCEPT ![c] = NoReply]
  /\ UNCHANGED <<leg, polls>>

(* The arguments a method takes; the others are fixed. *)
Arguments(o) ==
  {a \in (Specs \cup {NoSpec}) \X {"NotInstalled", "Stopped", "Running"} :
     /\ Installs(o) <=> a[1] # NoSpec
     /\ o # "wait_for_status" => a[2] = "NotInstalled"}

(* status(): r is the platform's answer. *)
Status(c, r) == pc[c] = "status" /\ Return(c, r)

-----------------------------------------------------------------------------
(* One leg. *)

(* What a ServiceSpec may not ask for on this platform. *)
BadSpec(s) ==
  \/ UserService /\ (s.user \/ s.group \/ s.password)
  \/ /\ "RESTART_ON_FAILURE_REQUIRES_AUTOSTART" \in Capabilities
     /\ s.restart_on_failure /\ ~s.autostart
  \/ "CUSTOM_USER_REQUIRES_PASSWORD" \in Capabilities /\ s.user /\ ~s.password
  \/ "SUPPORTS_CUSTOM_GROUP" \notin Capabilities /\ s.group

(* The status install, uninstall, start and stop insist on. *)
Needed == [install |-> "NotInstalled", uninstall |-> "Stopped",
           start |-> "Stopped", stop |-> "Running"]

Admitted(c, r) ==
  /\ r = Ok(Needed[Verb(c)])
  /\ Verb(c) = "install" => ~BadSpec(spec[c])

Refusal(c, r) ==
  CASE r.kind # "Ok" -> r
    [] r.kind = "Ok" /\ Verb(c) = "install" ->
         Error(IF r.status = "NotInstalled" THEN "BadServiceSpec"
                                            ELSE "AlreadyInstalled")
    [] OTHER -> WrongState(r.status)

CheckOnlyErrors(c, r) ==
  /\ pc[c] = "check"
  /\ IF r.kind = "Ok" THEN GoTo(c, "act") ELSE Fail(c, r)

(* The status check with which every leg begins. *)
Check(c, r) ==
  /\ pc[c] = "check"
  /\ IF Admitted(c, r) THEN GoTo(c, "act") ELSE Fail(c, Refusal(c, r))

(* What a leg that waits expects to see. *)
Expected(c) ==
  CASE Verb(c) = "uninstall" -> "NotInstalled"
    [] Verb(c) = "start" -> "Running"
    [] /\ Verb(c) = "install" /\ spec[c].autostart
       /\ "STARTS_IMMEDIATELY_WITH_AUTOSTART" \in Capabilities -> "Running"
    [] OTHER -> "Stopped"

ActedWithoutWait(c, r) ==
  /\ pc[c] = "act"
  /\ IF r.kind = "Ok" THEN LegDone(c) ELSE Fail(c, r)

(* The platform is done with what the leg asked of it, with reply r. *)
Acted(c, r) ==
  /\ pc[c] = "act"
  /\ \/ r.kind # "Ok" /\ Fail(c, r)
     \/ r.kind = "Ok" /\ op[c] \in Immediate /\ LegDone(c)
     \/ /\ r.kind = "Ok" /\ op[c] \notin Immediate
        /\ pc'   = [pc EXCEPT ![c] = "poll"]
        /\ want' = [want EXCEPT ![c] = Expected(c)]
        /\ UNCHANGED <<op, leg, spec, polls, reply>>

PollForever(c, r) ==
  /\ pc[c] = "poll"
  /\ \/ r = Ok(want[c]) /\ LegDone(c)
     \/ /\ r # Ok(want[c])
        /\ polls' = [polls EXCEPT ![c] = IF @ < MaxPolls THEN @ + 1 ELSE @]
        /\ UNCHANGED <<pc, op, leg, spec, want, reply>>

(* wait_for_status: errors of status() are retried like other states. *)
Poll(c, r) ==
  /\ pc[c] = "poll"
  /\ \/ r = Ok(want[c]) /\ LegDone(c)
     \/ /\ r # Ok(want[c])
        /\ Fail(c, IF r.kind = "Ok" THEN Timeout(r.status)
                                    ELSE Error("TimeoutError"))
     \/ /\ r # Ok(want[c]) /\ polls[c] < MaxPolls
        /\ polls' = [polls EXCEPT ![c] = @ + 1]
        /\ UNCHANGED <<pc, op, leg, spec, want, reply>>

(* The process of a client in C dies, whatever it is doing. *)
Die(C) ==
  /\ pc'    = [c \in Clients |-> IF c \in C THEN "idle" ELSE pc[c]]
  /\ leg'   = [c \in Clients |-> IF c \in C THEN 1 ELSE leg[c]]
  /\ spec'  = [c \in Clients |-> IF c \in C THEN NoSpec ELSE spec[c]]
  /\ polls' = [c \in Clients |-> IF c \in C THEN 0 ELSE polls[c]]
  /\ reply' = [c \in Clients |-> IF c \in C THEN NoReply ELSE reply[c]]
  /\ UNCHANGED <<op, want>>

=============================================================================
