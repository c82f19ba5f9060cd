---------------------------------- MODULE Sc ----------------------------------
(***************************************************************************)
(* The calls of UniServiceManager carried out on Windows                   *)
(* (manager/src/sc.rs): a service is an entry in the database of the       *)
(* service control manager (SCM), which the crate changes and asks for     *)
(* with one sc.exe command at a time.                                      *)
(*                                                                         *)
(* The entry of a user service is a template: Windows makes an instance of *)
(* it when the user logs on, and only the instance runs.  Its name ends in *)
(* the luid of the session; this module is about one session, that of the  *)
(* clients.  Start and stop commands return before the service has         *)
(* started or stopped, and a service deleted while it runs is only marked. *)
(***************************************************************************)
EXTENDS ManagerSteps, WindowsStates

CONSTANTS
  NoService,  \* no entry in the database
  Hazards     \* bound: which of "crash" and "restart" happen

ScCapabilities ==
  {"CUSTOM_USER_REQUIRES_PASSWORD", "USER_SERVICES_REQUIRE_NEW_LOGON",
   "USER_SERVICES_REQ_ELEVATED_PRIV_FOR_INSTALL",
   "SUPPORTS_PENDING_PAUSED_STATES", "USER_SERVICE_NAME_IS_DYNAMIC",
   "SUPPORTS_DESCRIPTION", "SUPPORTS_DISPLAY_NAME"}

(* What install does, in this order: "permissions" stands for the user's   *)
(* SID from whoami.exe and the sdset that uses it.                         *)
Tasks   == {"create", "description", "permissions", "actions"}
Rank    == [create |-> 1, description |-> 2, permissions |-> 3, actions |-> 4]
Service == [spec : Specs, done : SUBSET Tasks]

ASSUME ScAssumption ==
  /\ Capabilities = ScCapabilities
  /\ NoService \notin Service
  /\ Hazards \subseteq {"crash", "restart"}

VARIABLES
  service,  \* the entry under the service's name: NoService, or the spec it
            \* was created from and the tasks done on it
  state,    \* what runs: the service itself or, of a user service, the
            \* session's instance; "absent" if there is none
  marked,   \* it has been deleted and goes as soon as it stops
  due,      \* it failed and the SCM is about to start it again
  asked,    \* per client: status() has asked for the instance in vain
  fresh,    \* observer: has a process been started since the client's call?
  ended     \* observer: has the process that ran at the call ended?

scmVars == <<service, state, marked, due, fresh, ended>>
vars    == <<pc, op, leg, spec, want, polls, reply, step, asked,
             service, state, marked, due, fresh, ended>>

Steps == Tasks \cup {"find", "delete_instance", "delete", "start", "stop"}

(* status(), with its two queries, has only begun. *)
Asking(c) == pc[c] \in {"status", "check", "poll"}

TypeOK ==
  /\ ClientTypeOK
  /\ step \in [Clients -> Steps \cup {"none"}]
  /\ service \in Service \cup {NoService}
  /\ state \in Active \cup {"Stopped", "absent"}
  /\ marked \in BOOLEAN /\ due \in BOOLEAN
  /\ fresh \in [Clients -> BOOLEAN] /\ ended \in [Clients -> BOOLEAN]
  /\ asked \in [Clients -> BOOLEAN]
  /\ \A c \in Clients : /\ step[c] # "none" <=> pc[c] = "act"
                        /\ asked[c] => UserService /\ Asking(c)
  /\ marked => state \in Active
  /\ due => state = "Stopped"

All(b) == [c \in Clients |-> b]

Init ==
  /\ ClientInit /\ StepInit
  /\ service = NoService /\ state = "absent"
  /\ marked = FALSE /\ due = FALSE
  /\ asked = All(FALSE) /\ fresh = All(FALSE) /\ ended = All(TRUE)

-----------------------------------------------------------------------------
(* The SCM, as the code sees it. *)

(* The SCM starts a process of the service. *)
Launch == state' = "StartPending" /\ fresh' = All(TRUE)

(* What is marked goes when it stops, and takes a system service's entry    *)
(* with it.                                                                 *)
Vanish ==
  /\ state' = "absent" /\ marked' = FALSE
  /\ service' = IF UserService THEN service ELSE NoService

(* The service reports its next state, or ends.  Failure actions are for  *)
(* processes that end without reporting Stopped.                          *)
ServiceReports ==
  /\ \E s \in Active \cup {"Stopped"} :
       /\ <<state, s>> \in Reports
       /\ IF s # "Stopped"
          THEN state' = s /\ UNCHANGED <<service, marked, due, ended>>
          ELSE /\ ended' = All(TRUE)
               /\ \/ marked /\ Vanish /\ UNCHANGED due
                  \/ /\ ~marked /\ state' = s
                     /\ \/ UNCHANGED due
                        \/ /\ service # NoService
                           /\ "actions" \in service.done /\ due' = TRUE
                     /\ UNCHANGED <<service, marked>>
  /\ UNCHANGED <<clientVars, step, asked, fresh>>

ServiceRestarts ==
  /\ due /\ due' = FALSE /\ Launch
  /\ UNCHANGED <<clientVars, step, asked, service, marked, ended>>

(* A client dies between two of its steps. *)
Crash(c) ==
  /\ "crash" \in Hazards /\ pc[c] # "idle"
  /\ DieAtStep({c}) /\ asked' = [asked EXCEPT ![c] = FALSE]
  /\ UNCHANGED scmVars

(* The user logs on again, or the machine restarts: clients and processes  *)
(* are gone, and so is what was marked.  A user service has an instance if *)
(* there is a template; what starts automatically is started.              *)
Restart ==
  /\ "restart" \in Hazards /\ DieAtStep(Clients) /\ asked' = All(FALSE)
  /\ service' = IF marked /\ ~UserService THEN NoService ELSE service
  /\ marked' = FALSE /\ due' = FALSE /\ ended' = All(TRUE)
  /\ \/ service' = NoService /\ state' = "absent" /\ UNCHANGED fresh
     \/ /\ service' # NoService
        /\ IF service.spec.autostart THEN Launch
           ELSE state' = "Stopped" /\ UNCHANGED fresh

-----------------------------------------------------------------------------
(* The steps of a client that acts. *)

Wanted(s) ==
  {t \in Tasks : /\ t = "description" => s.description
                 /\ t = "permissions" => UserService
                 /\ t = "actions" => s.restart_on_failure}

(* The task after t, or the end of install. *)
Proceed(c, t) ==
  LET left == {u \in Wanted(spec[c]) : Rank[u] > Rank[t]}
  IN  IF left = {} THEN Finish(c, Done)
      ELSE Then(c, CHOOSE u \in left : \A v \in left : Rank[u] <= Rank[v])

CreateOnly(c) ==
  /\ step[c] = "create" /\ service = NoService
  /\ service' = [spec |-> spec[c], done |-> {"create"}]
  /\ state' = IF UserService THEN state ELSE "Stopped"
  /\ Finish(c, Done) /\ UNCHANGED <<marked, due, fresh, ended>>

(* sc create refuses a name that is taken, marked or not.  A system service *)
(* can be started from now on; an instance takes a logon.                   *)
Create(c) ==
  /\ step[c] = "create" /\ service = NoService
  /\ service' = [spec |-> spec[c], done |-> {"create"}]
  /\ state' = IF UserService THEN state ELSE "Stopped"
  /\ Proceed(c, "create") /\ UNCHANGED <<marked, due, fresh, ended>>

(* sc description, sdset and failure change the entry, whoever made it. *)
Configure(c, t) ==
  /\ step[c] = t /\ service # NoService /\ (UserService \/ ~marked)
  /\ service' = [service EXCEPT !.done = @ \cup {t}]
  /\ Proceed(c, t) /\ UNCHANGED <<state, marked, due, fresh, ended>>

TemplateOnly(c) ==
  /\ step[c] = "find" /\ Then(c, "delete") /\ UNCHANGED scmVars

(* uninstall asks whether there is an instance... *)
FindInstance(c) ==
  /\ step[c] = "find"
  /\ Then(c, IF state = "absent" THEN "delete" ELSE "delete_instance")
  /\ UNCHANGED scmVars

(* ...and deletes it before its template.  What runs is marked only. *)
DeleteInstance(c) ==
  /\ step[c] = "delete_instance" /\ state # "absent" /\ ~marked
  /\ IF state = "Stopped" THEN state' = "absent" /\ UNCHANGED marked
                          ELSE marked' = TRUE /\ UNCHANGED state
  /\ due' = FALSE /\ Then(c, "delete") /\ UNCHANGED <<service, fresh, ended>>

(* The last step: the template goes, or the system service as above. *)
Delete(c) ==
  /\ step[c] = "delete" /\ service # NoService
  /\ \/ /\ UserService /\ service' = NoService
        /\ UNCHANGED <<state, marked, due>>
     \/ /\ ~UserService /\ state = "Stopped"
        /\ service' = NoService /\ state' = "absent" /\ due' = FALSE
        /\ UNCHANGED marked
     \/ /\ ~UserService /\ state # "Stopped" /\ ~marked /\ marked' = TRUE
        /\ UNCHANGED <<service, state, due>>
  /\ Finish(c, Done) /\ UNCHANGED <<fresh, ended>>

(* sc start does not wait for the service to run... *)
StartService(c) ==
  /\ step[c] = "start" /\ state = "Stopped" /\ Launch /\ due' = FALSE
  /\ Finish(c, Done) /\ UNCHANGED <<service, marked, ended>>

(* ...and sc stop returns once the service has taken the control: it may *)
(* not have got round to reporting StopPending.                          *)
StopService(c) ==
  /\ step[c] = "stop" /\ state \in {"StartPending", "Running"}
  /\ state' \in {state, "StopPending"}
  /\ Finish(c, Done) /\ UNCHANGED <<service, marked, due, fresh, ended>>

FailStep(c) == step[c] # "none" /\ Finish(c, Failed) /\ UNCHANGED scmVars

Act(c) ==
  /\ \/ Create(c) \/ FindInstance(c) \/ DeleteInstance(c) \/ Delete(c)
     \/ StartService(c) \/ StopService(c) \/ FailStep(c)
     \/ \E t \in Tasks \ {"create"} : Configure(c, t)
  /\ UNCHANGED asked

-----------------------------------------------------------------------------
(* status(). *)

FirstStep == [install |-> "create", start |-> "start", stop |-> "stop",
              uninstall |-> IF UserService THEN "find" ELSE "delete"]

(* The client goes on with an answer to its status query. *)
Answer(c, r) ==
  /\ \/ CheckFrom(c, r, FirstStep)
     \/ (Status(c, r) \/ Poll(c, r)) /\ UNCHANGED step
  /\ asked' = [asked EXCEPT ![c] = FALSE] /\ UNCHANGED scmVars

StateOfName == IF state = "absent" THEN "NotInstalled" ELSE state
AskTemplateToo(c) ==
  /\ Asking(c) /\ ~asked[c]
  /\ \/ UserService /\ asked' = [asked EXCEPT ![c] = TRUE]
        /\ UNCHANGED <<clientVars, step, scmVars>>
     \/ ~UserService /\ Answer(c, Ok(StateOfName))
     \/ Answer(c, Failed)

(* The first query is about the instance, or the system service.  If there *)
(* is no instance, the template is asked for...                            *)
AskInstance(c) ==
  /\ Asking(c) /\ ~asked[c]
  /\ \/ /\ UserService /\ state = "absent"
        /\ asked' = [asked EXCEPT ![c] = TRUE]
        /\ UNCHANGED <<clientVars, step, scmVars>>
     \/ /\ ~(UserService /\ state = "absent")
        /\ Answer(c, Ok(StateOfName))
     \/ Answer(c, Failed)

(* ...which never runs. *)
StateOfTemplate == IF service = NoService THEN "NotInstalled" ELSE "Stopped"
AskTemplate(c) ==
  /\ asked[c]
  /\ Answer(c, Ok(StateOfTemplate)) \/ Answer(c, Failed)

Call(c) ==
  /\ \E o \in Ops : \E a \in Arguments(o) : Invoke(c, o, a[1], a[2])
  /\ fresh' = [fresh EXCEPT ![c] = FALSE]
  /\ ended' = [ended EXCEPT ![c] = state \notin Active]
  /\ UNCHANGED <<step, asked, service, state, marked, due>>

Client(c) == AskInstance(c) \/ AskTemplate(c) \/ Act(c)

Next ==
  \/ \E c \in Clients : Call(c) \/ Client(c) \/ Crash(c)
  \/ ServiceReports \/ ServiceRestarts \/ Restart

Spec == Init /\ [][Next]_vars

-----------------------------------------------------------------------------
(* With one client, whatever fails, dies or restarts. *)

(* An install that succeeds has done everything its spec and the kind of    *)
(* the service ask for, on an entry of its own; a call that is cut short    *)
(* between create and the last task does not pass for one that succeeded.   *)
InstalledAsAsked ==
  [][\A c \in Clients : ActSucceeds(c, "install") =>
       service' = [spec |-> spec[c], done |-> Wanted(spec[c])]]_vars

-----------------------------------------------------------------------------
(* With any number of clients. *)

(* No instance of a user service is left without its template: it could be  *)
(* neither uninstalled nor made again, and nobody would see it go.          *)
OrphanFree ==
  UserService /\ state # "absent" => service # NoService \/ marked

(* A method that starts the service and returns Ok has had a new process *)
(* started since it was called.                                          *)
OkMeansStarted ==
  [][\A c \in Clients :
       (\E o \in {"start", "start_and_wait", "install_if_needed_and_start",
                  "restart"} : Returns(c, o, Done))
       => fresh'[c]]_vars

(* A method that stops or removes the service, waits, and returns Ok has     *)
(* seen the end of the process that ran when it was called, although sc.exe  *)
(* waits for nothing, a deleted service may still run, and the status of a   *)
(* user service is put together from two answers.                            *)
OkMeansStopped ==
  [][\A c \in Clients :
       (\E o \in {"stop_and_wait", "stop_if_needed_and_uninstall",
                  "uninstall_and_wait", "restart"} : Returns(c, o, Done))
       => ended'[c]]_vars

(* The service as its callers are promised to see it; a service that has    *)
(* been deleted and not stopped yet is on its way out.                      *)
Managed == INSTANCE ServiceManagement WITH
  defined <- service # NoService /\ (UserService \/ ~marked),
  running <- state \in Active /\ ~marked,
  doing   <- [c \in Clients |-> IF pc[c] = "act" THEN Verb(c) ELSE "none"],
  ok      <- [c \in Clients |-> Succeeded(c)]

(* sc.rs does what UniServiceManager documents, and not only for a caller   *)
(* who has the service to himself.                                          *)
ImplementsManagement == Managed!Spec

=============================================================================
