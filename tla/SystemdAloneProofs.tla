-------------------------- MODULE SystemdAloneProofs --------------------------
(***************************************************************************)
(* Systemd when one client at a time manages the service.  Any number of   *)
(* them breaks these theorems: one removes the file that another enables,  *)
(* or under a service that another has just started.                       *)
(***************************************************************************)
EXTENDS SystemdProofs

Alone == \A c, d \in Clients : c = d

(* An uninstall is past its first step only when the service is disabled... *)
EnableInv ==
  /\ NoDanglingEnable
  /\ \A c \in Clients : step[c] = "remove" => ~enabled

(* ...and at work only while the service is not. *)
OrphanInv ==
  /\ ~restarts /\ unit # "auto-restart" /\ OrphanFree
  /\ \A c \in Clients : step[c] \in {"unload", "remove"} => unit = "inactive"

(* What each action leaves of the service and of the step of its client.    *)
LEMMA StepOfStep ==
  ASSUME UnixTypeOK, NEW c \in Clients, NEW s,
         Then(c, s) \/ \E r : Finish(c, r)
  PROVE  step'[c] \in {"none", s} /\ pc[c] = "act" /\ step[c] # "none"
  BY DEF UnixTypeOK, Then, Finish, Acted

LEMMA FileKept ==
  ASSUME Inv, NEW c \in Clients,
         WriteUnit(c) \/ OpenFile(c) \/ WriteFileFails(c)
  PROVE  file.exists => file'.exists
<1>1. OpenFile(c) \/ WriteFile(c) \/ WriteFileFails(c)
  BY DEF WriteUnit
<1>2. step[c] # "remove"
  BY <1>1 DEF OpenFile, WriteFile, WriteFileFails
<1>3. QED
  BY <1>1, <1>2, FilesTyped DEF Inv, RemoveFile

(* A status query lets only the right first step begin. *)
LEMMA AskKeeps ==
  ASSUME Inv, NEW c \in Clients, AskStatus(c)
  PROVE  /\ file' = file /\ UNCHANGED osVars /\ step[c] = "none"
         /\ \/ step'[c] = "none"
            \/ step'[c] = "open" /\ UnitStatus = "NotInstalled"
            \/ step'[c] = "unload" /\ UnitStatus = "Stopped"
            \/ step'[c] \in {"start", "stop"}
<1>1. PICK r \in StatusReplies :
        CheckUnix(c, r) \/ ((Status(c, r) \/ Poll(c, r)) /\ UNCHANGED <<file, step>>)
  BY DEF AskStatus
<1>2. /\ file' = file /\ UNCHANGED osVars /\ step[c] = "none"
      /\ \/ step'[c] = "none"
         \/ /\ pc[c] = "check" /\ r = Ok(Needed[Verb(c)])
            /\ step'[c] = FirstStep[Verb(c)]
  BY <1>1, RepliesAreAnswers, AskOK DEF Inv, AskStatus
<1>3. r.kind = "Ok" => r.status = UnitStatus
  BY DEF StatusReplies, Ok, Failed, Error
<1>4. pc[c] = "check" =>
        Verb(c) \in {"install", "uninstall", "start", "stop"}
  BY VerbIsNeeded DEF Needed, Inv, UnixOK, UnixTypeOK
<1>5. QED
  BY <1>2, <1>3, <1>4 DEF FirstStep, Needed, Ok

LEMMA EnableStep ==
  ASSUME Alone, Inv, EnableInv, [Next]_vars
  PROVE  EnableInv'
<1>1. TypeOK /\ UnixTypeOK /\ file \in Files
  BY DEF Inv, TypeOK, UnixTypeOK
<1>2. ASSUME NEW c \in Clients, AskStatus(c) PROVE EnableInv'
  <2>1. file' = file /\ enabled' = enabled /\ (step'[c] = "remove" => step[c] = "remove")
    BY <1>1, <1>2, AskKeeps DEF osVars
  <2>2. QED
    BY <2>1 DEF Alone, EnableInv, NoDanglingEnable
<1>3. ASSUME NEW c \in Clients, Act(c) PROVE EnableInv'
  <2>1. CASE WriteUnit(c)
    <3>1. /\ enabled' = enabled /\ (file.exists => file'.exists)
          /\ step'[c] # "remove"
      BY <1>1, <2>1, StepOfStep DEF WriteUnit, WriteFile, Overlay, osVars
    <3>2. QED
      BY <3>1 DEF Alone, EnableInv, NoDanglingEnable
  <2>2. CASE Enable(c)
    BY <1>1, <2>2, FileShape, StepOfStep
       DEF Enable, Alone, EnableInv, NoDanglingEnable
  <2>3. CASE Disable(c)
    BY <2>3 DEF Disable, EnableInv, NoDanglingEnable
  <2>4. CASE StartUnit(c) \/ StopUnit(c) \/ (FailStep(c) /\ UNCHANGED osVars)
    <3>1. file' = file /\ enabled' = enabled /\ \E r : Finish(c, r)
      BY <2>4 DEF StartUnit, StopUnit, FailStep, osVars
    <3>2. step'[c] = "none"
      BY <1>1, <3>1 DEF Finish, UnixTypeOK
    <3>3. QED
      BY <3>1, <3>2 DEF Alone, EnableInv, NoDanglingEnable
  <2>5. CASE (OpenFile(c) \/ WriteFileFails(c)) /\ UNCHANGED osVars
    <3>1. file'.exists
      BY <2>5, WriteFailsTo DEF Inv, OpenFile, NoFile
    <3>2. enabled' = enabled /\ step'[c] # "remove"
      BY <1>1, <2>5, StepOfStep, WriteFailsTo DEF Inv, OpenFile, osVars
    <3>3. QED
      BY <3>1, <3>2 DEF Alone, EnableInv, NoDanglingEnable
  <2>6. CASE RemoveFile(c) /\ UNCHANGED osVars
    BY <2>6 DEF RemoveFile, osVars, EnableInv, NoDanglingEnable
  <2>7. QED
    BY <1>3, <2>1, <2>2, <2>3, <2>4, <2>5, <2>6 DEF Act
<1>4. ASSUME NEW c \in Clients, Call(c) PROVE EnableInv'
  BY <1>4 DEF Call, EnableInv, NoDanglingEnable
<1>5. CASE ServiceEnds \/ ServiceRestarts \/ UNCHANGED vars
  BY <1>5 DEF ServiceEnds, ServiceRestarts, vars, EnableInv, NoDanglingEnable
<1>6. CASE Reboot \/ \E c \in Clients : Crash(c)
  <2>1. enabled' = enabled /\ \E C : DieUnix(C)
    BY <1>6 DEF Reboot, Crash, osVars
  <2>2. file' = file /\ \A c \in Clients : step'[c] \in {"none", step[c]}
    BY <2>1 DEF DieUnix, DieAtStep
  <2>3. QED
    BY <2>1, <2>2 DEF EnableInv, NoDanglingEnable
<1>7. QED
  BY <1>2, <1>3, <1>4, <1>5, <1>6 DEF Next, Client

LEMMA OrphanStep ==
  ASSUME Alone, \A s \in Specs : ~s.restart_on_failure,
         Inv, OrphanInv, [Next]_vars
  PROVE  OrphanInv'
<1>1. TypeOK /\ UnixTypeOK /\ file \in Files
  BY DEF Inv, TypeOK, UnixTypeOK
<1>2. Launch => unit' = "active" /\ ~restarts' /\ file.exists
  BY <1>1, FileShape DEF Launch
<1>3. ASSUME NEW c \in Clients, AskStatus(c) PROVE OrphanInv'
  <2>1. /\ file' = file /\ UNCHANGED <<unit, restarts>>
        /\ step'[c] \in {step[c], "open", "unload", "start", "stop"}
        /\ step'[c] = "unload" /\ step[c] # "unload" => UnitStatus = "Stopped"
    BY <1>1, <1>3, AskKeeps DEF osVars
  <2>2. UnitStatus = "Stopped" => unit # "active"
    BY DEF UnitStatus
  <2>3. step'[c] \in {"unload", "remove"} => unit' = "inactive"
    BY <1>1, <2>1, <2>2 DEF OrphanInv, TypeOK
  <2>4. QED
    BY <2>1, <2>3 DEF Alone, OrphanInv, OrphanFree
<1>4. ASSUME NEW c \in Clients, Act(c) PROVE OrphanInv'
  <2>1. CASE \/ WriteUnit(c) \/ Enable(c)
             \/ (OpenFile(c) \/ WriteFileFails(c)) /\ UNCHANGED osVars
    <3>1. UNCHANGED <<unit, restarts>> /\ step'[c] \notin {"unload", "remove"}
      BY <1>1, <2>1, StepOfStep, WriteFailsTo
         DEF Inv, WriteUnit, Enable, OpenFile, osVars
    <3>2. file.exists => file'.exists
      <4>1. CASE file = NoFile
        BY <4>1 DEF NoFile
      <4>2. CASE file \in [spec : Specs \cup {NoSpec}, size : Sizes, exists : {TRUE}]
        BY <2>1, <4>2, WriteFailsTo
           DEF Inv, WriteUnit, WriteFile, Overlay, Enable, OpenFile
      <4>3. QED
        BY <1>1, <4>1, <4>2 DEF Files
    <3>3. QED
      BY <3>1, <3>2 DEF Alone, OrphanInv, OrphanFree
  <2>2. CASE Disable(c) \/ (RemoveFile(c) /\ UNCHANGED osVars)
    <3>1. UNCHANGED <<unit, restarts>> /\ unit = "inactive"
      BY <2>2 DEF Disable, RemoveFile, osVars, OrphanInv
    <3>2. QED
      BY <3>1 DEF OrphanInv, OrphanFree
  <2>3. CASE StartUnit(c) \/ StopUnit(c) \/ (FailStep(c) /\ UNCHANGED osVars)
    <3>1. file' = file /\ \E r : Finish(c, r)
      BY <2>3 DEF StartUnit, StopUnit, FailStep
    <3>2. step'[c] = "none"
      BY <1>1, <3>1 DEF Finish, UnixTypeOK
    <3>3. \/ UNCHANGED <<unit, restarts>>
          \/ unit' = "inactive" /\ restarts' = restarts
          \/ unit' = "active" /\ ~restarts' /\ file.exists
      BY <1>2, <2>3 DEF StartUnit, StopUnit, FailStep, osVars
    <3>4. QED
      BY <3>1, <3>2, <3>3 DEF Alone, OrphanInv, OrphanFree
  <2>4. QED
    BY <1>4, <2>1, <2>2, <2>3 DEF Act
<1>5. ASSUME NEW c \in Clients, Call(c) PROVE OrphanInv'
  BY <1>5 DEF Call, OrphanInv, OrphanFree
<1>6. CASE ServiceEnds \/ ServiceRestarts \/ UNCHANGED vars
  BY <1>6 DEF ServiceEnds, ServiceRestarts, vars, OrphanInv, OrphanFree
<1>7. CASE Reboot \/ \E c \in Clients : Crash(c)
  <2>1. CASE Reboot
    <3>1. file' = file /\ \A c \in Clients : step'[c] = "none"
      BY <2>1 DEF Reboot, DieUnix, DieAtStep
    <3>2. \/ unit' = "active" /\ ~restarts' /\ file.exists
          \/ unit' = "inactive" /\ restarts' = restarts
      BY <1>2, <2>1 DEF Reboot
    <3>3. QED
      BY <3>1, <3>2 DEF OrphanInv, OrphanFree
  <2>2. CASE \E c \in Clients : Crash(c)
    <3>1. /\ file' = file /\ UNCHANGED <<unit, restarts>>
          /\ \A c \in Clients : step'[c] \in {"none", step[c]}
      BY <2>2 DEF Crash, DieUnix, DieAtStep, osVars
    <3>2. QED
      BY <3>1 DEF OrphanInv, OrphanFree
  <2>3. QED
    BY <1>7, <2>1, <2>2
<1>8. QED
  BY <1>3, <1>4, <1>5, <1>6, <1>7 DEF Next, Client

(* systemd never starts at boot what has no unit file, whatever fails, dies  *)
(* or reboots half-way: uninstall disables the service before it removes the *)
(* file.                                                                     *)
THEOREM DisabledBeforeGone ==
  ASSUME Alone
  PROVE  Spec => []NoDanglingEnable
<1>1. Init => EnableInv
  BY DEF Init, UnixInit, StepInit, EnableInv, NoDanglingEnable
<1>2. Inv /\ EnableInv /\ [Next]_vars => EnableInv'
  BY EnableStep
<1>3. EnableInv => NoDanglingEnable
  BY DEF EnableInv
<1>4. QED
  BY InitInv, NextInv, <1>1, <1>2, <1>3, PTL DEF Spec

(* No process runs, or is about to, once its unit file is gone, for services *)
(* that are not restarted when they fail.                                    *)
THEOREM StoppedBeforeGone ==
  ASSUME Alone, \A s \in Specs : ~s.restart_on_failure
  PROVE  Spec => []OrphanFree
<1>1. Init => OrphanInv
  BY DEF Init, UnixInit, StepInit, OrphanInv, OrphanFree
<1>2. Inv /\ OrphanInv /\ [Next]_vars => OrphanInv'
  BY OrphanStep
<1>3. OrphanInv => OrphanFree
  BY DEF OrphanInv
<1>4. QED
  BY InitInv, NextInv, <1>1, <1>2, <1>3, PTL DEF Spec

-----------------------------------------------------------------------------
(* An install.  It begins without a file and, thanks to NoDanglingEnable,    *)
(* without a link, and only its own steps make them.                         *)
InstallFrom(c) ==
  /\ step[c] = "open"  => file = NoFile /\ ~enabled
  /\ step[c] = "write" => file = [NoFile EXCEPT !.exists = TRUE] /\ ~enabled
  /\ step[c] = "load"  => file = TextOf(spec[c]) /\ spec[c].autostart

InstallInv == \A c \in Clients : InstallFrom(c)

LEMMA OverlayIsText ==
  ASSUME NEW s \in Specs
  PROVE  Overlay([NoFile EXCEPT !.exists = TRUE], s) = TextOf(s)
<1>1. s.size \in Nat
  BY ManagerAssumption DEF ServiceSpec
<1>2. [NoFile EXCEPT !.exists = TRUE].size = 0
  BY DEF NoFile
<1>3. ~([NoFile EXCEPT !.exists = TRUE].size > s.size)
  BY <1>1, <1>2
<1>4. QED
  BY <1>3 DEF Overlay, TextOf

(* The write of an install makes the whole text of its spec. *)
LEMMA WriteUnitText ==
  ASSUME Inv, InstallInv, NEW c \in Clients, WriteUnit(c)
  PROVE  file' = TextOf(spec[c]) /\ file'.exists /\ enabled' = enabled /\ ~enabled
<1>1. step[c] = "write" /\ WriteFile(c) /\ enabled' = enabled
  BY DEF WriteUnit, WriteFile, osVars
<1>2. file = [NoFile EXCEPT !.exists = TRUE] /\ ~enabled /\ spec[c] \in Specs
  BY <1>1, WriterHasSpec DEF InstallInv, InstallFrom, Inv
<1>3. file.exists
  BY <1>2 DEF NoFile
<1>4. file' = Overlay(file, spec[c])
  BY <1>1, <1>3 DEF WriteFile
<1>5. file' = TextOf(spec[c])
  BY <1>2, <1>4, OverlayIsText
<1>6. QED
  BY <1>1, <1>2, <1>5 DEF TextOf

LEMMA InstallStep ==
  ASSUME Alone, Inv, EnableInv, InstallInv, [Next]_vars
  PROVE  InstallInv'
<1>1. TypeOK /\ UnixTypeOK /\ file \in Files
  BY DEF Inv, TypeOK, UnixTypeOK
<1>2. ASSUME NEW c \in Clients, AskStatus(c) PROVE InstallInv'
  <2>1. /\ file' = file /\ enabled' = enabled
        /\ \/ step'[c] = "none" \/ step'[c] \in {"unload", "start", "stop"}
           \/ step'[c] = "open" /\ UnitStatus = "NotInstalled"
    BY <1>2, AskKeeps DEF osVars
  <2>2. UnitStatus = "NotInstalled" => ~file.exists
    BY DEF UnitStatus
  <2>3. ~file.exists => file = NoFile /\ ~enabled
    BY <1>1, FileShape DEF EnableInv, NoDanglingEnable
  <2>4. InstallFrom(c)'
    BY <2>1, <2>2, <2>3 DEF InstallFrom
  <2>5. QED
    BY <2>4 DEF Alone, InstallInv
<1>3. ASSUME NEW c \in Clients, Act(c) PROVE InstallInv'
  <2>1. CASE OpenFile(c) /\ UNCHANGED osVars
    <3>1. step'[c] = "write" /\ step[c] = "open" /\ enabled' = enabled
      BY <1>1, <2>1 DEF OpenFile, Then, UnixTypeOK, osVars
    <3>2. file' = [NoFile EXCEPT !.exists = TRUE] /\ ~enabled
      BY <2>1, <3>1 DEF OpenFile, InstallInv, InstallFrom, NoFile
    <3>3. QED
      BY <3>1, <3>2 DEF Alone, InstallInv, InstallFrom
  <2>2. CASE WriteUnit(c)
    <3>1. file' = TextOf(spec[c]) /\ enabled' = enabled /\ ~enabled
      BY <2>2, WriteUnitText
    <3>2. CASE spec[c].autostart /\ Then(c, "load")
      <4>1. step'[c] = "load" /\ spec' = spec
        BY <1>1, <3>2 DEF Then, UnixTypeOK, clientVars
      <4>2. QED
        BY <3>1, <3>2, <4>1 DEF Alone, InstallInv, InstallFrom
    <3>3. CASE Finish(c, Done)
      <4>1. step'[c] = "none"
        BY <1>1, <3>3 DEF Finish, UnixTypeOK
      <4>2. QED
        BY <4>1 DEF Alone, InstallInv, InstallFrom
    <3>4. QED
      BY <2>2, <3>2, <3>3 DEF WriteUnit
  <2>3. CASE Disable(c)
    <3>1. step'[c] = "remove"
      BY <1>1, <2>3 DEF Disable, Then, UnixTypeOK
    <3>2. QED
      BY <3>1 DEF Alone, InstallInv, InstallFrom
  <2>4. CASE \/ Enable(c) \/ StartUnit(c) \/ StopUnit(c)
             \/ WriteFileFails(c) \/ RemoveFile(c) \/ FailStep(c)
    <3>1. \E r : Finish(c, r)
      BY <2>4 DEF Enable, StartUnit, StopUnit, WriteFileFails, RemoveFile, FailStep
    <3>2. step'[c] = "none"
      BY <1>1, <3>1 DEF Finish, UnixTypeOK
    <3>3. QED
      BY <3>2 DEF Alone, InstallInv, InstallFrom
  <2>5. QED
    BY <1>3, <2>1, <2>2, <2>3, <2>4 DEF Act
<1>4. ASSUME NEW c \in Clients, Call(c) PROVE InstallInv'
  <2>1. UNCHANGED <<file, step, enabled>> /\ step[c] = "none"
    BY <1>1, <1>4 DEF Call, Invoke, UnixTypeOK
  <2>2. QED
    BY <2>1 DEF Alone, InstallInv, InstallFrom
<1>5. CASE ServiceEnds \/ ServiceRestarts \/ UNCHANGED vars
  BY <1>5 DEF ServiceEnds, ServiceRestarts, vars, clientVars, InstallInv, InstallFrom
<1>6. CASE Reboot \/ \E c \in Clients : Crash(c)
  <2>1. enabled' = enabled /\ \E C : DieUnix(C)
    BY <1>6 DEF Reboot, Crash, osVars
  <2>2. /\ file' = file
        /\ \A c \in Clients : step'[c] = "none" \/ (step'[c] = step[c] /\ spec'[c] = spec[c])
    BY <2>1 DEF DieUnix, DieAtStep, Die
  <2>3. QED
    BY <2>1, <2>2 DEF InstallInv, InstallFrom
<1>7. QED
  BY <1>2, <1>3, <1>4, <1>5, <1>6 DEF Next, Client

(* An action of the platform succeeds only with the last step of its verb. *)
LEMMA SuccessIsDone ==
  ASSUME Inv, [Next]_vars, NEW c \in Clients, NEW v, ActSucceeds(c, v), Alone
  PROVE  Verb(c) = v /\ pc[c] = "act" /\ Act(c) /\ Finish(c, Done)
<1>1. /\ pc[c] = "act" /\ Verb(c) = v /\ ClientTypeOK
      /\ pc'[c] = "poll" \/ (pc'[c] = "idle" /\ reply'[c] = Done)
  BY DEF ActSucceeds, Inv, UnixOK, UnixTypeOK
<1>2. ASSUME NEW d \in Clients, AskStatus(d) PROVE FALSE
  <2>1. PICK r \in StatusReplies : Asks(c, r)
    BY <1>2 DEF AskStatus, CheckUnix, CheckFrom, Asks, Alone
  <2>2. QED
    BY <1>1, <2>1, RepliesAreAnswers, AsksOutcome
<1>3. ASSUME NEW d \in Clients, Act(d) PROVE Act(c) /\ Finish(c, Done)
  <2>1. d = c
    BY DEF Alone
  <2>2. ~UNCHANGED clientVars
    BY <1>1 DEF clientVars
  <2>3. PICK r \in {Done, Failed} : Finish(c, r)
    BY <1>3, <2>1, <2>2
       DEF Act, WriteUnit, Enable, Disable, StartUnit, StopUnit, OpenFile,
           WriteFileFails, RemoveFile, FailStep, Then
  <2>4. r = Done
    BY <1>1, <2>3, ActedOutcome DEF Finish, ReturnsElse
  <2>5. QED
    BY <1>3, <2>1, <2>3, <2>4
<1>4. ASSUME NEW d \in Clients, Call(d) PROVE FALSE
  <2>1. pc[d] = "idle"
    BY <1>4 DEF Call, Invoke
  <2>2. QED
    BY <1>1, <2>1 DEF Alone
<1>5. ASSUME NEW C, Die(C) PROVE FALSE
  BY <1>1, <1>5, DieOutcome DEF ReturnsElse
<1>6. CASE ServiceEnds \/ ServiceRestarts \/ UNCHANGED vars
  BY <1>1, <1>6 DEF ServiceEnds, ServiceRestarts, clientVars, vars
<1>7. QED
  BY <1>1, <1>2, <1>3, <1>4, <1>5, <1>6
     DEF Next, Client, Crash, Reboot, DieUnix, DieAtStep

(* The last step of the verb is the one that it is at. *)
LEMMA LastSteps ==
  ASSUME Inv, NEW c \in Clients, Act(c), Finish(c, Done)
  PROVE  \/ Verb(c) = "install" /\ (WriteUnit(c) \/ Enable(c))
         \/ Verb(c) = "uninstall" /\ RemoveFile(c) /\ UNCHANGED osVars
         \/ Verb(c) = "start" /\ StartUnit(c)
         \/ Verb(c) = "stop" /\ StopUnit(c)
<1>1. UnixOK /\ pc[c] = "act" /\ step'[c] = "none" /\ ClientTypeOK /\ Acted(c, Done)
  BY DEF Inv, UnixOK, UnixTypeOK, Finish, Acted
<1>2. ~Acted(c, Failed)
  <2>1. ASSUME Acted(c, Failed) PROVE FALSE
    <3>1. Done # Failed
      BY AnswersTyped
    <3>2. (ReturnsElse(c)) /\ (StaysAt(c, "poll") \/ ReturnsDone(c))
      BY <1>1, <2>1, <3>1, ActedOutcome
    <3>3. QED
      BY <3>2 DEF ReturnsElse, StaysAt, ReturnsDone
  <2>2. QED
    BY <2>1
<1>3. ~OpenFile(c) /\ ~Disable(c) /\ ~WriteFileFails(c) /\ ~FailStep(c)
  <2>1. ASSUME NEW s, Then(c, s) PROVE FALSE
    BY <1>1, <2>1, ActedOutcome
       DEF Then, clientVars, ReturnsElse, StaysAt, ReturnsDone
  <2>2. QED
    BY <1>2, <2>1 DEF OpenFile, Disable, WriteFileFails, FailStep, Finish
<1>4. QED
  BY <1>1, <1>3, VerbOfStep
     DEF Act, WriteUnit, WriteFile, Enable, StartUnit, StopUnit, RemoveFile

(* An install that succeeds leaves exactly the unit file of its spec, and a  *)
(* service enabled if and only if the spec asked for it, whatever fails,     *)
(* dies or reboots, and whatever earlier calls left behind half-way.         *)
THEOREM InstallsAsAsked ==
  ASSUME Alone
  PROVE  Spec => InstalledAsAsked
<1>1. Init => EnableInv /\ InstallInv
  BY DEF Init, UnixInit, StepInit, EnableInv, NoDanglingEnable, InstallInv, InstallFrom
<1>2. Inv /\ EnableInv /\ InstallInv /\ [Next]_vars => EnableInv' /\ InstallInv'
  BY EnableStep, InstallStep
<1>3. Inv /\ InstallInv /\ [Next]_vars =>
        [\A c \in Clients : ActSucceeds(c, "install") =>
           file' = TextOf(spec[c]) /\ enabled' = spec[c].autostart]_vars
  <2>1. SUFFICES ASSUME Inv, InstallInv, [Next]_vars, NEW c \in Clients,
                        ActSucceeds(c, "install")
                 PROVE  file' = TextOf(spec[c]) /\ enabled' = spec[c].autostart
    OBVIOUS
  <2>2. Verb(c) = "install" /\ Act(c) /\ Finish(c, Done)
    BY <2>1, SuccessIsDone
  <2>3. CASE WriteUnit(c)
    <3>1. ~spec[c].autostart
      <4>1. ASSUME Then(c, "load") PROVE FALSE
        BY <2>1, <4>1 DEF Then, clientVars, ActSucceeds
      <4>2. QED
        BY <2>3, <4>1 DEF WriteUnit
    <3>2. step[c] = "write"
      BY <2>3 DEF WriteUnit, WriteFile
    <3>3. spec[c].autostart \in BOOLEAN
      BY <2>1, <3>2, WriterHasSpec, ManagerAssumption DEF Inv, ServiceSpec
    <3>4. enabled' = FALSE
      BY <2>1, <2>3, WriteUnitText DEF Inv, TypeOK
    <3>5. QED
      BY <2>1, <2>3, <3>1, <3>3, <3>4, WriteUnitText
  <2>4. CASE Enable(c)
    <3>1. file = TextOf(spec[c]) /\ spec[c].autostart /\ file' = file /\ enabled' = TRUE
      BY <2>1, <2>4 DEF Enable, InstallInv, InstallFrom
    <3>2. spec[c].autostart \in BOOLEAN
      BY <2>1, <2>4, WriterHasSpec, ManagerAssumption DEF Enable, Inv, ServiceSpec
    <3>3. QED
      BY <3>1, <3>2
  <2>5. QED
    BY <2>1, <2>2, <2>3, <2>4, LastSteps
<1>4. QED
  BY InitInv, NextInv, <1>1, <1>2, <1>3, PTL DEF Spec, InstalledAsAsked

(* An uninstall that succeeds leaves no unit file and no link that a reboot *)
(* could revive the service by.                                             *)
THEOREM UninstallsForGood ==
  ASSUME Alone
  PROVE  Spec => UninstalledForGood
<1>1. Init => EnableInv
  BY DEF Init, UnixInit, StepInit, EnableInv, NoDanglingEnable
<1>2. Inv /\ EnableInv /\ [Next]_vars => EnableInv'
  BY EnableStep
<1>3. Inv /\ EnableInv /\ [Next]_vars =>
        [\A c \in Clients : ActSucceeds(c, "uninstall") =>
           file' = NoFile /\ ~enabled']_vars
  <2>1. SUFFICES ASSUME Inv, EnableInv, [Next]_vars, NEW c \in Clients,
                        ActSucceeds(c, "uninstall")
                 PROVE  file' = NoFile /\ ~enabled'
    OBVIOUS
  <2>2. RemoveFile(c) /\ enabled' = enabled
    BY <2>1, SuccessIsDone, LastSteps DEF osVars
  <2>3. QED
    BY <2>1, <2>2 DEF RemoveFile, EnableInv
<1>4. QED
  BY InitInv, NextInv, <1>1, <1>2, <1>3, PTL DEF Spec, UninstalledForGood

-----------------------------------------------------------------------------
(* The refinement.  What a client's step is in ServiceManagement... *)

LEMMA MapsRests ==
  ASSUME NEW c \in Clients, Resting(c)
  PROVE  Managed!Rests(c)
  BY DEF Managed!Rests, Resting, Doing

LEMMA MapsBegins ==
  ASSUME NEW c \in Clients, Beginning(c),
         unit # "inactive" => Doing(c)' = "stop"
  PROVE  Managed!Begins(c)
  BY DEF Managed!Begins, Managed!Verbs, Beginning, Doing, Needed

LEMMA MapsEnds ==
  ASSUME NEW c \in Clients, Ending(c),
         Succeeded(c)' =>
           /\ Doing(c) \in DOMAIN Needed
           /\ Doing(c) = "install" => file'.exists
           /\ Doing(c) = "uninstall" => ~file'.exists
           /\ Doing(c) = "start" => unit' # "inactive"
  PROVE  Managed!Ends(c)
<1>1. ASSUME Succeeded(c)' PROVE Managed!Promise[Doing(c)]
  <2>1. Doing(c) \in {"install", "uninstall", "start", "stop"}
    BY <1>1 DEF Needed
  <2>2. CASE Doing(c) = "install"
    <3>1. file'.exists = TRUE
      BY <1>1, <2>2
    <3>2. Managed!Promise["install"]
      BY <3>1 DEF Managed!Promise
    <3>3. QED
      BY <2>2, <3>2
  <2>3. CASE Doing(c) = "uninstall"
    <3>1. ~file'.exists
      BY <1>1, <2>3
    <3>2. Managed!Promise["uninstall"]
      BY <3>1 DEF Managed!Promise
    <3>3. QED
      BY <2>3, <3>2
  <2>4. CASE Doing(c) = "start"
    <3>1. unit' # "inactive"
      BY <1>1, <2>4
    <3>2. Managed!Promise["start"]
      BY <3>1 DEF Managed!Promise
    <3>3. QED
      BY <2>4, <3>2
  <2>5. CASE Doing(c) = "stop"
    <3>1. Managed!Promise["stop"]
      BY DEF Managed!Promise
    <3>2. QED
      BY <2>5, <3>1
  <2>6. QED
    BY <2>1, <2>2, <2>3, <2>4, <2>5
<1>2. QED
  BY <1>1 DEF Managed!Ends, Ending, Doing, Needed

(* ...and what becomes of the service. *)

LEMMA MapsData ==
  ASSUME \/ /\ \E c \in Clients : Doing(c) = "install"
            /\ file'.exists /\ unit' = unit
         \/ /\ \E c \in Clients : Doing(c) = "uninstall"
            /\ ~file'.exists /\ unit' = "inactive"
         \/ file' = file /\ file.exists /\ unit' # "inactive"
         \/ file' = file /\ unit' = "inactive"
         \/ file'.exists = file.exists /\ unit' = unit
  PROVE  \/ Managed!Define \/ Managed!Remove \/ Managed!Run \/ Managed!End
         \/ (file.exists)' = file.exists /\ (unit # "inactive")' = (unit # "inactive")
  BY DEF Managed!Define, Managed!Remove, Managed!Run, Managed!End,
         Managed!Asked, Doing

ClientsManage ==
  \A c \in Clients : Managed!Begins(c) \/ Managed!Ends(c) \/ Managed!Rests(c)

DataManage ==
  \/ Managed!Define \/ Managed!Remove \/ Managed!Run \/ Managed!End
  \/ (file.exists)' = file.exists /\ (unit # "inactive")' = (unit # "inactive")

LEMMA ManageIsNext == ClientsManage /\ DataManage => Managed!Next
  BY DEF ClientsManage, DataManage, Managed!Next

LEMMA AskManages ==
  ASSUME Inv, OrphanInv, NEW c \in Clients, AskStatus(c)
  PROVE  ClientsManage /\ DataManage
<1>1. PICK r \in StatusReplies : Asks(c, r)
  BY DEF AskStatus, CheckUnix, CheckFrom, Asks
<1>2. /\ r \in Answers /\ ClientTypeOK /\ ManagerInv(c) /\ TypeOK
      /\ file' = file /\ UNCHANGED osVars
  BY RepliesAreAnswers, AskKeeps DEF Inv, UnixOK, UnixTypeOK, UnixInv
<1>3. \A d \in Clients \ {c} : Managed!Rests(d)
  BY <1>1, <1>2, AsksManages, MapsRests
<1>4. CASE Resting(c)
  BY <1>2, <1>3, <1>4, MapsRests, MapsData DEF ClientsManage, DataManage, osVars
<1>5. CASE Beginning(c) /\ pc[c] = "check" /\ Doing(c)' = Verb(c) /\ r = Ok(Needed[Verb(c)])
  <2>1. Verb(c) \in {"install", "uninstall", "start", "stop"}
    BY <1>5 DEF Beginning, Needed
  <2>2. unit # "inactive" => UnitStatus = "Running"
    BY <1>2 DEF UnitStatus, TypeOK, OrphanInv
  <2>3. r.kind = "Ok" /\ r.status = UnitStatus /\ r.status = Needed[Verb(c)]
    BY <1>5 DEF StatusReplies, Ok, Failed, Error
  <2>4. unit # "inactive" => Doing(c)' = "stop"
    BY <1>5, <2>1, <2>2, <2>3 DEF Needed
  <2>5. Managed!Begins(c)
    BY <1>5, <2>4, MapsBegins
  <2>6. QED
    BY <1>2, <1>3, <2>5, MapsData DEF ClientsManage, DataManage, osVars
<1>6. QED
  BY <1>1, <1>2, <1>4, <1>5, AsksManages

LEMMA ActManages ==
  ASSUME Inv, OrphanInv, InstallInv, NEW c \in Clients, Act(c)
  PROVE  ClientsManage /\ DataManage
<1>1. /\ UnixOK /\ TypeOK /\ file \in Files /\ ClientTypeOK
      /\ Failed # Done /\ OrphanFree
  BY AnswersTyped DEF Inv, TypeOK, UnixTypeOK, OrphanInv
<1>2. pc[c] = "act" => Doing(c) = Verb(c)
  BY DEF Doing
<1>3. DataManage
  <2>1. CASE OpenFile(c) /\ UNCHANGED osVars
    <3>1. pc[c] = "act" /\ Verb(c) = "install"
      BY <1>1, <2>1, WriterHasSpec DEF OpenFile
    <3>2. file'.exists /\ unit' = unit
      BY <1>1, <2>1 DEF OpenFile, osVars, NoFile
    <3>3. QED
      BY <1>2, <3>1, <3>2, MapsData DEF DataManage
  <2>2. CASE WriteUnit(c) \/ (WriteFileFails(c) /\ UNCHANGED osVars)
    <3>1. step[c] = "write" /\ unit' = unit
      BY <2>2 DEF WriteUnit, WriteFile, WriteFileFails, osVars
    <3>2. pc[c] = "act" /\ Verb(c) = "install"
      BY <1>1, <3>1, WriterHasSpec
    <3>3. file.exists
      BY <3>1 DEF InstallInv, InstallFrom, NoFile
    <3>4. file'.exists
      BY <2>2, <3>3, FileKept
    <3>5. QED
      BY <1>2, <3>1, <3>2, <3>4, MapsData DEF DataManage
  <2>3. CASE RemoveFile(c) /\ UNCHANGED osVars
    <3>1. step[c] = "remove" /\ file' = NoFile /\ unit' = unit /\ pc[c] = "act"
      BY <2>3 DEF RemoveFile, osVars, Finish, Acted
    <3>2. Verb(c) = "uninstall" /\ unit = "inactive"
      BY <1>1, <3>1, VerbOfStep DEF OrphanInv
    <3>3. QED
      BY <1>2, <3>1, <3>2, MapsData DEF DataManage, NoFile
  <2>4. CASE Enable(c) \/ Disable(c) \/ (FailStep(c) /\ UNCHANGED osVars)
    BY <2>4, MapsData DEF Enable, Disable, FailStep, osVars, DataManage
  <2>5. CASE StartUnit(c) \/ StopUnit(c)
    <3>1. file' = file /\ (unit' = unit \/ unit' = "inactive" \/ (unit' # "inactive" /\ file.exists))
      BY <1>1, <2>5, LaunchStarts DEF StartUnit, StopUnit
    <3>2. QED
      BY <3>1, MapsData DEF DataManage
  <2>6. QED
    BY <2>1, <2>2, <2>3, <2>4, <2>5 DEF Act
<1>4. CASE UNCHANGED clientVars
  BY <1>3, <1>4, QuietRests, MapsRests DEF ClientsManage
<1>5. ASSUME NEW r \in {Done, Failed}, Finish(c, r)
      PROVE  ClientsManage
  <2>1. /\ \A d \in Clients \ {c} : Resting(d)
        /\ Ending(c) /\ Doing(c) = Verb(c) /\ (Succeeded(c)' => r = Done)
    BY <1>1, <1>5, ActedManages DEF Finish
  <2>2. ASSUME Succeeded(c)'
        PROVE  /\ Doing(c) \in DOMAIN Needed
               /\ Doing(c) = "install" => file'.exists
               /\ Doing(c) = "uninstall" => ~file'.exists
               /\ Doing(c) = "start" => unit' # "inactive"
    <3>1. Finish(c, Done)
      BY <1>5, <2>1, <2>2
    <3>2. CASE Verb(c) = "install" /\ (WriteUnit(c) \/ Enable(c))
      <4>1. WriteUnit(c) => file'.exists
        BY WriteUnitText
      <4>2. Enable(c) => file'.exists
        BY <1>1, FileShape DEF Enable
      <4>3. QED
        BY <2>1, <3>2, <4>1, <4>2 DEF Needed
    <3>3. CASE Verb(c) = "uninstall" /\ RemoveFile(c)
      BY <2>1, <3>3 DEF RemoveFile, NoFile, Needed
    <3>4. CASE Verb(c) = "start" /\ StartUnit(c)
      BY <1>1, <2>1, <3>4, LaunchStarts DEF StartUnit, Needed
    <3>5. CASE Verb(c) = "stop"
      BY <2>1, <3>5 DEF Needed
    <3>6. QED
      BY <3>1, <3>2, <3>3, <3>4, <3>5, LastSteps
  <2>3. Managed!Ends(c)
    BY <2>1, <2>2, MapsEnds
  <2>4. QED
    BY <2>1, <2>3, MapsRests DEF ClientsManage
<1>6. UNCHANGED clientVars \/ \E r \in {Done, Failed} : Finish(c, r)
  BY DEF Act, WriteUnit, Enable, Disable, StartUnit, StopUnit, OpenFile,
         WriteFileFails, RemoveFile, FailStep, Then
<1>7. QED
  BY <1>3, <1>4, <1>5, <1>6

LEMMA OthersManage ==
  ASSUME Inv, OrphanInv,
         \/ ServiceEnds \/ ServiceRestarts \/ Reboot \/ UNCHANGED vars
         \/ \E c \in Clients : Call(c) \/ Crash(c)
  PROVE  ClientsManage /\ DataManage
<1>1. TypeOK /\ ClientTypeOK
  BY DEF Inv, TypeOK, UnixTypeOK
<1>2. ClientsManage
  <2>1. CASE ServiceEnds \/ ServiceRestarts \/ UNCHANGED vars
    <3>1. UNCHANGED clientVars
      BY <2>1 DEF ServiceEnds, ServiceRestarts, vars, clientVars
    <3>2. QED
      BY <3>1, QuietRests, MapsRests DEF ClientsManage
  <2>2. ASSUME NEW c \in Clients, Call(c) PROVE ClientsManage
    BY <1>1, <2>2, InvokeManages, MapsRests DEF Call, ClientsManage
  <2>3. CASE Reboot \/ \E c \in Clients : Crash(c)
    <3>1. PICK C : Die(C)
      BY <2>3 DEF Reboot, Crash, DieUnix, DieAtStep
    <3>2. QED
      BY <3>1, DieManages, MapsRests, MapsEnds DEF ClientsManage
  <2>4. QED
    BY <2>1, <2>2, <2>3
<1>3. DataManage
  <2>1. \/ file' = file /\ file.exists /\ unit' # "inactive"
        \/ file' = file /\ unit' = "inactive"
        \/ file' = file /\ unit' = unit
    <3>1. CASE Reboot
      BY <1>1, <3>1, LaunchStarts DEF Reboot, DieUnix
    <3>2. CASE ServiceEnds \/ ServiceRestarts \/ UNCHANGED vars
      BY <3>2 DEF ServiceEnds, ServiceRestarts, vars, OrphanInv
    <3>3. CASE \E c \in Clients : Call(c) \/ Crash(c)
      BY <3>3 DEF Call, Crash, DieUnix, osVars
    <3>4. QED
      BY <3>1, <3>2, <3>3
  <2>2. QED
    BY <2>1, MapsData DEF DataManage
<1>4. QED
  BY <1>2, <1>3

(* systemd.rs does what UniServiceManager promises to a caller who has the   *)
(* service to himself, for services that are not restarted when they fail.   *)
THEOREM Implements ==
  ASSUME Alone, \A s \in Specs : ~s.restart_on_failure
  PROVE  Spec => ImplementsManagement
<1>1. Init => EnableInv /\ InstallInv /\ OrphanInv
  BY DEF Init, UnixInit, StepInit, EnableInv, NoDanglingEnable, InstallInv,
         InstallFrom, OrphanInv, OrphanFree
<1>2. Inv /\ EnableInv /\ InstallInv /\ OrphanInv /\ [Next]_vars
        => EnableInv' /\ InstallInv' /\ OrphanInv'
  BY EnableStep, InstallStep, OrphanStep
<1>3. Init => Managed!Init
  BY DEF Init, UnixInit, ClientInit, NoFile, Managed!Init, Succeeded, NoReply,
         Done, Error, Ok
<1>4. Inv /\ EnableInv /\ InstallInv /\ OrphanInv /\ [Next]_vars => Managed!Next
  BY AskManages, ActManages, OthersManage, ManageIsNext DEF Next, Client
<1>5. QED
  BY InitInv, NextInv, <1>1, <1>2, <1>3, <1>4, PTL
     DEF Spec, ImplementsManagement, Managed!Spec

=============================================================================
