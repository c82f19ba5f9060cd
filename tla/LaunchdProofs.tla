---------------------------- MODULE LaunchdProofs ----------------------------
(***************************************************************************)
(* Launchd for any methods and ServiceSpecs: first with any number of      *)
(* clients, then with one client at a time.                                *)
(***************************************************************************)
EXTENDS Launchd, UnixManagerProofs

LEMMA RepliesAreAnswers == StatusReplies \subseteq Answers
  BY DEF StatusReplies, JobStatus, Answers, ServiceStatus

(* The inductive invariant.  Without a process nobody waits for the end of  *)
(* one.  Who polls after starting the service has had a process started;    *)
(* and a method that is to stop the service comes to its second leg only    *)
(* when the process that it found has ended.                                *)
NoneLeft   == job \notin Alive => \A c \in Clients : ended[c]
Started(c) == (/\ pc[c] = "poll" /\ op[c] \in Starters
               /\ leg[c] >= Len(Legs[op[c]])) => fresh[c]
HasStopped(c) == leg[c] = 2 /\ op[c] \in Stoppers => ended[c]

Inv == /\ UnixOK /\ TypeOK /\ NoneLeft
       /\ \A c \in Clients : Started(c) /\ HasStopped(c)

(* Only a new call makes an observer forget. *)
Remembers == \A d \in Clients : /\ fresh[d] => fresh'[d]
                                /\ ended[d] => ended'[d]

(* A client does nothing, or dies. *)
Untouched(d) ==
  /\ op'[d] = op[d]
  /\ \/ pc'[d] = pc[d] /\ leg'[d] = leg[d]
     \/ pc'[d] = "idle" /\ leg'[d] = 1

LEMMA UntouchedInv ==
  ASSUME NEW d \in Clients, Started(d), HasStopped(d), Untouched(d), Remembers
  PROVE  Started(d)' /\ HasStopped(d)'
  BY DEF Started, HasStopped, Untouched, Remembers

-----------------------------------------------------------------------------
(* The actions, one by one. *)

JobTypeOK ==
  /\ loaded \in Specs \cup {NoSpec}
  /\ job \in Alive \cup {"none", "throttled"}
  /\ loaded = NoSpec => job = "none"
  /\ fresh \in [Clients -> BOOLEAN] /\ ended \in [Clients -> BOOLEAN]

LEMMA TypeParts == TypeOK <=> UnixTypeOK /\ JobTypeOK
  BY DEF TypeOK, JobTypeOK

LEMMA LaunchStarts ==
  ASSUME JobTypeOK, Launch, loaded' \in Specs
  PROVE  /\ JobTypeOK' /\ NoneLeft' /\ Remembers /\ job' \in Alive
         /\ \A d \in Clients : fresh'[d]
<1>1. loaded' # NoSpec
  BY ManagerAssumption
<1>2. QED
  BY <1>1 DEF JobTypeOK, Launch, All, NoneLeft, Remembers, Alive

LEMMA VanishEnds ==
  ASSUME JobTypeOK, Vanish, loaded' \in Specs \cup {NoSpec}
  PROVE  JobTypeOK' /\ NoneLeft' /\ Remembers /\ job' \notin Alive
  BY DEF JobTypeOK, Vanish, All, NoneLeft, Remembers, Alive

LEMMA LoadLoads ==
  ASSUME JobTypeOK, file \in Files, Load, WellFormed
  PROVE  /\ JobTypeOK' /\ NoneLeft' /\ Remembers
         /\ file.exists /\ loaded' = file.spec /\ loaded' \in Specs
<1>1. file.exists /\ file.spec \in Specs /\ loaded' = file.spec
  BY FileShape DEF WellFormed, Load
<1>2. Launch \/ Vanish
  BY DEF Load
<1>3. QED
  BY <1>1, <1>2, LaunchStarts, VanishEnds

(* A client that acts goes on to its next step, or has acted; and if it was *)
(* to start the service, and did, there is a process started since.         *)
LEMMA ActShape ==
  ASSUME Inv, NEW c \in Clients, Act(c)
  PROVE  /\ UnixOK' /\ TypeOK' /\ NoneLeft' /\ Remembers
         /\ \/ UNCHANGED clientVars
            \/ \E r \in {Done, Failed} :
                 /\ Acted(c, r)
                 /\ r = Done /\ Verb(c) = "start" => fresh'[c]
<1>1. UnixOK /\ JobTypeOK /\ UnixTypeOK /\ file \in Files /\ Failed # Done
  BY AnswersTyped, TypeParts DEF Inv, UnixTypeOK
<1>2. pc[c] = "act" /\ step[c] # "none"
  BY <1>1 DEF Act, WritePlist, WriteFile, Bootstrap, Bootout, Kickstart, Kill,
              OpenFile, WriteFileFails, RemoveFile, FailStep, UnixTypeOK
<1>3. CASE \/ WritePlist(c)
           \/ /\ OpenFile(c) \/ WriteFileFails(c) \/ RemoveFile(c) \/ FailStep(c)
              /\ UNCHANGED osVars
  <2>1. UnixOK' /\ UNCHANGED osVars
    BY <1>1, <1>3, WriteStepOK, FileStepOK DEF WritePlist
  <2>2. \/ UNCHANGED clientVars
        \/ Acted(c, Failed)
        \/ Acted(c, Done) /\ Verb(c) # "start"
    <3>1. CASE WritePlist(c) \/ OpenFile(c) \/ WriteFileFails(c) \/ FailStep(c)
      BY <3>1 DEF WritePlist, OpenFile, WriteFileFails, FailStep, Then, Finish
    <3>2. CASE RemoveFile(c)
      BY <1>1, <1>2, <3>2, VerbOfStep DEF RemoveFile, Finish
    <3>3. QED
      BY <1>3, <3>1, <3>2
  <2>3. Remembers /\ JobTypeOK' /\ NoneLeft'
    BY <1>1, <2>1 DEF osVars, Remembers, JobTypeOK, NoneLeft, Inv
  <2>4. TypeOK'
    BY <2>1, <2>3 DEF TypeOK, JobTypeOK, UnixOK
  <2>5. QED
    BY <1>1, <2>1, <2>2, <2>3, <2>4
<1>4. CASE Bootstrap(c)
  <2>1. Verb(c) = "install" /\ UnixOK'
    BY <1>1, <1>4, WriterHasSpec, FinishOK DEF Bootstrap
  <2>2. JobTypeOK' /\ NoneLeft' /\ Remembers
    BY <1>1, <1>4, LoadLoads DEF Bootstrap
  <2>3. TypeOK'
    BY <2>1, <2>2 DEF TypeOK, JobTypeOK, UnixOK
  <2>4. QED
    BY <1>4, <2>1, <2>2, <2>3 DEF Bootstrap, Finish
<1>5. CASE Bootout(c)
  <2>1. "remove" \in StepsOf[Verb(c)]
    BY <1>1, <1>2, <1>5, VerbOfStep DEF Bootout, StepsOf
  <2>2. UnixOK' /\ UNCHANGED clientVars
    BY <1>1, <1>5, <2>1, ThenOK DEF Bootout
  <2>3. JobTypeOK' /\ NoneLeft' /\ Remembers
    BY <1>1, <1>5, VanishEnds DEF Bootout
  <2>4. TypeOK'
    BY <2>2, <2>3 DEF TypeOK, JobTypeOK, UnixOK
  <2>5. QED
    BY <2>2, <2>3, <2>4
<1>6. CASE Kickstart(c)
  <2>1. UnixOK'
    BY <1>1, <1>6, FinishOK DEF Kickstart
  <2>2. JobTypeOK' /\ NoneLeft' /\ Remembers /\ fresh'[c]
    BY <1>1, <1>6, LaunchStarts DEF Kickstart, JobTypeOK
  <2>3. TypeOK'
    BY <2>1, <2>2 DEF TypeOK, JobTypeOK, UnixOK
  <2>4. QED
    BY <1>6, <2>1, <2>2, <2>3 DEF Kickstart, Finish
<1>7. CASE Kill(c)
  <2>1. UnixOK' /\ Verb(c) = "stop"
    BY <1>1, <1>2, <1>7, FinishOK, VerbOfStep DEF Kill
  <2>2. JobTypeOK' /\ NoneLeft' /\ Remembers
    BY <1>1, <1>7 DEF Kill, JobTypeOK, NoneLeft, Remembers, Alive
  <2>3. TypeOK'
    BY <2>1, <2>2 DEF TypeOK, JobTypeOK, UnixOK
  <2>4. QED
    BY <1>7, <2>1, <2>2, <2>3 DEF Kill, Finish
<1>8. QED
  BY <1>3, <1>4, <1>5, <1>6, <1>7 DEF Act

LEMMA ActInv ==
  ASSUME Inv, NEW c \in Clients, Act(c)
  PROVE  Inv'
<1>1. UnixOK' /\ TypeOK' /\ NoneLeft' /\ Remembers /\ ClientTypeOK
  BY ActShape DEF Inv, UnixOK, UnixTypeOK
<1>2. CASE UNCHANGED clientVars
  <2>1. \A d \in Clients : Untouched(d)
    BY <1>2 DEF clientVars, Untouched
  <2>2. QED
    BY <1>1, <2>1, UntouchedInv DEF Inv
<1>3. ASSUME NEW r \in {Done, Failed}, Acted(c, r),
             r = Done /\ Verb(c) = "start" => fresh'[c]
      PROVE  Inv'
  <2>1. Proceeds(c)
    BY <1>1, <1>3, ActedOutcome
  <2>2. Started(c)'
    BY <1>1, <1>3, <2>1, ActedStarts DEF Started, Proceeds
  <2>3. HasStopped(c)'
    <3>1. SUFFICES ASSUME op[c] \in Stoppers, leg'[c] = 2 PROVE ended'[c]
      BY <2>1 DEF HasStopped, Proceeds
    <3>2. leg'[c] = leg[c]
      <4>1. pc'[c] = "idle" => leg'[c] = 1
        BY <1>1 DEF UnixOK, UnixTypeOK, ClientTypeOK
      <4>2. QED
        BY <1>1, <1>3, <3>1, <4>1, ActedStops DEF StaysAt, ReturnsElse
    <3>3. QED
      BY <1>1, <3>1, <3>2 DEF Inv, HasStopped, Remembers
  <2>4. \A d \in Clients \ {c} : Untouched(d)
    BY <2>1 DEF Proceeds, Untouched
  <2>5. QED
    BY <1>1, <2>2, <2>3, <2>4, UntouchedInv DEF Inv
<1>4. QED
  BY <1>2, <1>3, ActShape

(* An answer that the service is stopped, or gone, is true. *)
LEMMA StoppedIsTrue ==
  ASSUME Inv, NEW r \in StatusReplies, r \in {Ok("Stopped"), Ok("NotInstalled")},
         NEW c \in Clients
  PROVE  ended[c]
<1>1. JobStatus \in {"Stopped", "NotInstalled"}
  BY DEF StatusReplies, Ok, Failed, Error
<1>2. job \notin Alive
  BY <1>1 DEF JobStatus, Inv, TypeOK, Alive
<1>3. QED
  BY <1>2 DEF Inv, NoneLeft

LEMMA AskInv ==
  ASSUME Inv, NEW c \in Clients, AskStatus(c)
  PROVE  Inv'
<1>1. PICK r \in StatusReplies :
        CheckUnix(c, r) \/ ((Status(c, r) \/ Poll(c, r)) /\ UNCHANGED <<file, step>>)
  BY DEF AskStatus
<1>2. /\ UNCHANGED osVars /\ UnixOK /\ ClientTypeOK /\ r \in Answers
      /\ ManagerInv(c) /\ Started(c) /\ HasStopped(c)
  BY RepliesAreAnswers DEF AskStatus, Inv, UnixOK, UnixTypeOK, UnixInv
<1>3. UnixOK' /\ Asks(c, r) /\ Proceeds(c)
  BY <1>1, <1>2, AskOK, AsksOutcome
<1>4. TypeOK' /\ NoneLeft' /\ Remembers
  BY <1>2, <1>3 DEF TypeOK, osVars, UnixOK, NoneLeft, Remembers, Inv
<1>5. Started(c)'
  BY <1>2, <1>3, AsksOutcome DEF Started, Proceeds, osVars
<1>6. HasStopped(c)'
  <2>1. SUFFICES ASSUME op[c] \in Stoppers, leg'[c] = 2, ~ended[c] PROVE FALSE
    BY <1>2, <1>3 DEF HasStopped, Proceeds, osVars
  <2>2. r \notin {Ok("Stopped"), Ok("NotInstalled")}
    BY <2>1, StoppedIsTrue
  <2>3. pc'[c] = "idle" => leg'[c] = 1
    BY <1>3 DEF UnixOK, UnixTypeOK, ClientTypeOK
  <2>4. leg'[c] = leg[c]
    BY <1>2, <1>3, <2>1, <2>2, <2>3, AsksStops
  <2>5. QED
    BY <1>2, <2>1, <2>4 DEF HasStopped
<1>7. \A d \in Clients \ {c} : Untouched(d)
  BY <1>3 DEF Proceeds, Untouched
<1>8. QED
  BY <1>3, <1>4, <1>5, <1>6, <1>7, UntouchedInv DEF Inv

LEMMA CallInv ==
  ASSUME Inv, NEW c \in Clients, Call(c)
  PROVE  Inv'
<1>1. PICK o \in Ops : \E a \in Arguments(o) : Invoke(c, o, a[1], a[2])
  BY DEF Call
<1>2. PICK a \in Arguments(o) : Invoke(c, o, a[1], a[2])
  BY <1>1
<1>3. ClientTypeOK /\ UnixOK /\ TypeOK /\ NoneLeft
  BY DEF Inv, TypeOK, UnixTypeOK
<1>4. /\ pc'[c] # "act" /\ op'[c] = o /\ leg' = leg /\ leg[c] = 1
      /\ pc'[c] = "poll" => o = "wait_for_status"
      /\ \A d \in Clients \ {c} : pc'[d] = pc[d] /\ op'[d] = op[d]
  BY <1>2, <1>3, InvokeOutcome
<1>5. UnixOK'
  BY <1>2, <1>3, CallOK DEF Call
<1>6. TypeOK' /\ NoneLeft'
  BY <1>3, <1>5 DEF TypeOK, NoneLeft, Call, UnixOK
<1>7. Started(c)' /\ HasStopped(c)'
  BY <1>4 DEF Started, HasStopped, Starters
<1>8. \A d \in Clients \ {c} : Started(d)' /\ HasStopped(d)'
  <2>1. \A d \in Clients \ {c} : fresh'[d] = fresh[d] /\ ended'[d] = ended[d]
    BY <1>3 DEF Call, TypeOK
  <2>2. QED
    BY <1>4, <2>1 DEF Inv, Started, HasStopped
<1>9. QED
  BY <1>5, <1>6, <1>7, <1>8 DEF Inv

(* What the job, launchd and the machine do by themselves. *)
LEMMA SystemInv ==
  ASSUME Inv,
         JobEnds \/ JobRestarts \/ Reboot \/ \E c \in Clients : Crash(c)
  PROVE  Inv'
<1>1. JobTypeOK /\ UnixOK /\ NoneLeft /\ file \in Files
  BY TypeParts DEF Inv, UnixOK, UnixTypeOK
<1>2. UnixOK' /\ \A d \in Clients : Untouched(d)
  <2>1. CASE JobEnds \/ JobRestarts
    <3>1. UNCHANGED <<clientVars, file, step>>
      BY <2>1 DEF JobEnds, JobRestarts
    <3>2. QED
      BY <1>1, <3>1, QuietOK DEF clientVars, Untouched
  <2>2. CASE Reboot \/ \E c \in Clients : Crash(c)
    <3>1. PICK C : DieUnix(C)
      BY <2>2 DEF Reboot, Crash
    <3>2. \A d \in Clients : Untouched(d)
      BY <3>1, DieOutcome DEF DieUnix, DieAtStep, Untouched, ReturnsElse
    <3>3. QED
      BY <1>1, <3>1, <3>2, DieOK
  <2>3. QED
    BY <2>1, <2>2
<1>3. Remembers /\ JobTypeOK' /\ NoneLeft'
  <2>1. CASE JobEnds
    BY <1>1, <2>1 DEF JobEnds, All, Remembers, JobTypeOK, NoneLeft, Alive
  <2>2. CASE JobRestarts
    BY <1>1, <2>2, LaunchStarts DEF JobRestarts, JobTypeOK
  <2>3. CASE \E c \in Clients : Crash(c)
    BY <1>1, <2>3 DEF Crash, osVars, Remembers, JobTypeOK, NoneLeft
  <2>4. CASE Reboot
    BY <1>1, <2>4, LoadLoads, VanishEnds DEF Reboot
  <2>5. QED
    BY <2>1, <2>2, <2>3, <2>4
<1>4. TypeOK'
  BY <1>2, <1>3 DEF TypeOK, JobTypeOK, UnixOK
<1>5. QED
  BY <1>2, <1>3, <1>4, UntouchedInv DEF Inv

LEMMA InitInv == Init => Inv
<1>1. SUFFICES ASSUME Init PROVE Inv
  OBVIOUS
<1>2. UnixOK
  BY <1>1, UnixInitOK DEF Init
<1>3. \A c \in Clients : pc[c] = "idle" /\ leg[c] = 1
  BY <1>1 DEF Init, UnixInit, ClientInit
<1>4. QED
  BY <1>1, <1>2, <1>3
     DEF Init, Inv, TypeOK, UnixOK, NoneLeft, Started, HasStopped

LEMMA NextInv == Inv /\ [Next]_vars => Inv'
<1>1. SUFFICES ASSUME Inv, [Next]_vars PROVE Inv'
  OBVIOUS
<1>2. ASSUME NEW c \in Clients, Call(c) PROVE Inv'
  BY <1>1, <1>2, CallInv
<1>3. ASSUME NEW c \in Clients, AskStatus(c) PROVE Inv'
  BY <1>1, <1>3, AskInv
<1>4. ASSUME NEW c \in Clients, Act(c) PROVE Inv'
  BY <1>1, <1>4, ActInv
<1>5. CASE JobEnds \/ JobRestarts \/ Reboot \/ \E c \in Clients : Crash(c)
  BY <1>1, <1>5, SystemInv
<1>6. CASE UNCHANGED vars
  <2>1. UNCHANGED <<clientVars, file, step, loaded, job, fresh, ended>>
    BY <1>6 DEF vars, clientVars
  <2>2. UnixOK'
    BY <1>1, <2>1, QuietOK DEF Inv
  <2>3. QED
    BY <1>1, <2>1, <2>2
       DEF Inv, TypeOK, UnixOK, clientVars, NoneLeft, Started, HasStopped
<1>7. QED
  BY <1>1, <1>2, <1>3, <1>4, <1>5, <1>6 DEF Next, Client

(* However many clients call whatever methods, and wherever they fail, die   *)
(* or are overtaken by the job, launchd or a reboot, every variable has a    *)
(* value of its type; no process is left of a job that is not loaded.        *)
THEOREM TypeCorrect == Spec => []TypeOK
<1>1. Inv => TypeOK
  BY DEF Inv
<1>2. QED
  BY InitInv, NextInv, <1>1, PTL DEF Spec

-----------------------------------------------------------------------------
(* When a method returns Ok. *)

(* It does so by a step of its client, from a poll or from the platform. *)
LEMMA ReturnsHow ==
  ASSUME Inv, [Next]_vars, NEW c \in Clients, NEW o, Returns(c, o, Done)
  PROVE  /\ ClientTypeOK /\ Remembers /\ op[c] = o
         /\ \/ \E r \in StatusReplies : Asks(c, r)
            \/ \E r \in {Done, Failed} :
                 Acted(c, r) /\ (r = Done /\ Verb(c) = "start" => fresh'[c])
<1>1. op[c] = o /\ pc[c] # "idle" /\ pc'[c] = "idle" /\ reply'[c] = Done
  BY DEF Returns
<1>2. ClientTypeOK
  BY DEF Inv, TypeOK, UnixTypeOK
<1>3. ASSUME NEW d \in Clients, AskStatus(d)
      PROVE  Remembers /\ \E r \in StatusReplies : Asks(c, r)
  <2>1. PICK r \in StatusReplies : Asks(d, r)
    BY <1>3 DEF AskStatus, CheckUnix, CheckFrom, Asks
  <2>2. d = c
    BY <1>1, <1>2, <2>1, RepliesAreAnswers, AsksOutcome DEF Proceeds
  <2>3. QED
    BY <1>3, <2>1, <2>2 DEF AskStatus, osVars, Remembers
<1>4. ASSUME NEW d \in Clients, Act(d)
      PROVE  /\ Remembers
             /\ \E r \in {Done, Failed} :
                  Acted(c, r) /\ (r = Done /\ Verb(c) = "start" => fresh'[c])
  <2>1. /\ Remembers
        /\ \E r \in {Done, Failed} :
             Acted(d, r) /\ (r = Done /\ Verb(d) = "start" => fresh'[d])
    <3>1. ~UNCHANGED clientVars
      BY <1>1 DEF clientVars
    <3>2. QED
      BY <1>4, <3>1, ActShape
  <2>2. d = c
    BY <1>1, <1>2, <2>1, ActedOutcome DEF Proceeds
  <2>3. QED
    BY <2>1, <2>2
<1>5. ASSUME NEW d \in Clients, Call(d) PROVE FALSE
  <2>1. \E p \in Ops : \E a \in Arguments(p) : Invoke(d, p, a[1], a[2])
    BY <1>5 DEF Call
  <2>2. QED
    BY <1>1, <1>2, <2>1, InvokeOutcome
<1>6. ASSUME NEW C, Die(C) PROVE FALSE
  BY <1>1, <1>6, DieOutcome DEF ReturnsElse
<1>7. ~JobEnds /\ ~JobRestarts /\ ~UNCHANGED vars
  BY <1>1 DEF JobEnds, JobRestarts, clientVars, vars
<1>8. QED
  BY <1>1, <1>2, <1>3, <1>4, <1>5, <1>6, <1>7
     DEF Next, Client, Crash, Reboot, DieUnix, DieAtStep

(* With any number of clients and any ServiceSpecs: a method that starts the *)
(* service and returns Ok has had a new process started since it was called. *)
THEOREM StartsForReal == Spec => OkMeansStarted
<1>1. Inv /\ [Next]_vars =>
        [\A c \in Clients :
           (\E o \in {"start", "start_and_wait", "install_if_needed_and_start",
                      "restart"} : Returns(c, o, Done)) => fresh'[c]]_vars
  <2>1. SUFFICES ASSUME Inv, [Next]_vars, NEW c \in Clients,
                        NEW o \in Starters, Returns(c, o, Done)
                 PROVE  fresh'[c]
    BY DEF Starters
  <2>2. pc'[c] = "idle" /\ reply'[c] = Done /\ ClientTypeOK /\ op[c] \in Starters
    BY <2>1, ReturnsHow DEF Returns
  <2>3. ASSUME NEW r \in StatusReplies, Asks(c, r) PROVE fresh'[c]
    <3>1. pc[c] = "poll" /\ leg[c] >= Len(Legs[op[c]])
      BY <2>2, <2>3, RepliesAreAnswers, AsksOutcome
    <3>2. QED
      BY <2>1, <2>2, <3>1, ReturnsHow DEF Inv, Started, Remembers
  <2>4. ASSUME NEW r \in {Done, Failed}, Acted(c, r),
               r = Done /\ Verb(c) = "start" => fresh'[c]
        PROVE  fresh'[c]
    BY <2>2, <2>4, ActedStarts
  <2>5. QED
    BY <2>1, <2>3, <2>4, ReturnsHow
<1>2. QED
  BY InitInv, NextInv, <1>1, PTL DEF Spec, OkMeansStarted

(* With any number of clients and any ServiceSpecs: a method that stops the  *)
(* service, waits, and returns Ok has seen the end of the process that ran   *)
(* when it was called, although launchctl kill only sends a signal.          *)
THEOREM StopsForReal == Spec => OkMeansStopped
<1>1. Inv /\ [Next]_vars =>
        [\A c \in Clients :
           (\E o \in {"stop_and_wait", "stop_if_needed_and_uninstall",
                      "uninstall_and_wait", "restart"} : Returns(c, o, Done))
           => ended'[c]]_vars
  <2>1. SUFFICES ASSUME Inv, [Next]_vars, NEW c \in Clients,
                        NEW o \in Stoppers, Returns(c, o, Done)
                 PROVE  ended'[c]
    BY DEF Stoppers
  <2>2. /\ pc'[c] = "idle" /\ reply'[c] = Done /\ ClientTypeOK /\ Remembers
        /\ op[c] \in Stoppers /\ ManagerInv(c) /\ HasStopped(c)
    BY <2>1, ReturnsHow DEF Returns, Inv, UnixOK, UnixInv
  <2>3. ASSUME NEW r \in StatusReplies, Asks(c, r) PROVE ended'[c]
    <3>1. ended[c] \/ leg[c] = 2
      BY <2>1, <2>2, <2>3, RepliesAreAnswers, AsksStops, StoppedIsTrue
    <3>2. QED
      BY <2>2, <3>1 DEF HasStopped, Remembers
  <2>4. ASSUME NEW r \in {Done, Failed}, Acted(c, r) PROVE FALSE
    BY <2>2, <2>4, ActedStops DEF StaysAt, ReturnsElse
  <2>5. QED
    BY <2>1, <2>3, <2>4, ReturnsHow
<1>2. QED
  BY InitInv, NextInv, <1>1, PTL DEF Spec, OkMeansStopped

-----------------------------------------------------------------------------
(* No call goes on for ever, as long as its client goes on. *)

LEMMA ActGoesOn ==
  ASSUME Inv, NEW c \in Clients, Act(c)
  PROVE  Nearer(c)
<1>1. UnixOK /\ UnixOK'
  BY ActShape DEF Inv
<1>2. \/ \E r \in {Done, Failed} : Finish(c, r)
      \/ \E s : Then(c, s) /\ Ahead[s] < Ahead[step[c]]
  BY WriteFailsTo
     DEF Inv, Act, WritePlist, WriteFile, Bootstrap, Bootout, Kickstart, Kill,
         OpenFile, RemoveFile, FailStep, Ahead
<1>3. QED
  BY <1>1, <1>2, ActNearer

LEMMA ClientGoesOn ==
  ASSUME Inv, NEW c \in Clients, Client(c)
  PROVE  Nearer(c)
<1>1. CASE Act(c)
  BY <1>1, ActGoesOn
<1>2. CASE AskStatus(c)
  BY <1>2, RepliesAreAnswers, AskNearer DEF AskStatus, Inv
<1>3. QED
  BY <1>1, <1>2 DEF Client

LEMMA NoLonger ==
  ASSUME Inv, [Next]_vars, NEW c \in Clients, pc[c] # "idle"
  PROVE  Togo(c)' <= Togo(c)
<1>1. UnixOK /\ MaxPolls \in Nat
  BY ManagerAssumption DEF Inv
<1>2. Togo(c) \in Nat /\ Togo(c)' \in Nat
  BY <1>1, NextInv, TogoTyped, TogoTypedNext DEF Inv, Bounded
<1>3. ASSUME NEW d \in Clients, Client(d) PROVE Togo(c)' <= Togo(c)
  BY <1>2, <1>3, ClientGoesOn DEF Nearer
<1>4. ASSUME NEW d \in Clients, Call(d) PROVE Togo(c)' <= Togo(c)
  <2>1. PICK o \in Ops : \E a \in Arguments(o) : Invoke(d, o, a[1], a[2])
    BY <1>4 DEF Call
  <2>2. UNCHANGED step
    BY <1>4 DEF Call
  <2>3. Togo(c)' = Togo(c)
    BY <1>1, <2>1, <2>2, CallNoLonger
  <2>4. QED
    BY <1>2, <2>3
<1>5. ASSUME NEW C, DieUnix(C) PROVE Togo(c)' <= Togo(c)
  BY <1>1, <1>2, <1>5, DieNoLonger
<1>6. CASE JobEnds \/ JobRestarts \/ UNCHANGED vars
  <2>1. UNCHANGED <<clientVars, step>>
    BY <1>6 DEF JobEnds, JobRestarts, clientVars, vars
  <2>2. QED
    BY <1>2, <2>1, QuietNoLonger
<1>7. QED
  BY <1>3, <1>4, <1>5, <1>6 DEF Next, Crash, Reboot

(* Whatever launchctl answers and the others do, a call ends within          *)
(* 2 * MaxPolls + 13 steps of its client: each of them leaves it fewer, and  *)
(* nobody else's step leaves it more.  What CallsReturn needs besides is     *)
(* that the client goes on.                                                  *)
THEOREM CallsAreShort ==
  Spec => /\ []Bounded
          /\ [][\A c \in Clients : /\ Client(c) => Togo(c)' < Togo(c)
                                   /\ pc[c] # "idle" => Togo(c)' <= Togo(c)]_vars
<1>1. Inv => Bounded
  BY TogoTyped DEF Inv
<1>2. Inv /\ [Next]_vars =>
        [\A c \in Clients : /\ Client(c) => Togo(c)' < Togo(c)
                            /\ pc[c] # "idle" => Togo(c)' <= Togo(c)]_vars
  BY ClientGoesOn, NoLonger DEF Nearer
<1>3. QED
  BY InitInv, NextInv, <1>1, <1>2, PTL DEF Spec

-----------------------------------------------------------------------------
(* One client at a time.  More of them break what follows: one removes the   *)
(* file that another loads.                                                  *)

Alone == \A c, d \in Clients : c = d

(* An uninstall is past its first step only when the job is gone... *)
LoadInv ==
  /\ LoadedHasFile
  /\ \A c \in Clients : step[c] = "remove" => loaded = NoSpec

(* ...and an install has a file from its first step on, and its own spec in *)
(* it, or the beginning of it, from its second.                             *)
InstallInv ==
  \A c \in Clients : /\ step[c] = "write" => file.exists
                     /\ step[c] = "load"  => file.spec = spec[c] /\ file.exists

LEMMA StepOfStep ==
  ASSUME UnixTypeOK, NEW c \in Clients, NEW s,
         Then(c, s) \/ \E r : Finish(c, r)
  PROVE  step'[c] \in {"none", s} /\ pc[c] = "act" /\ step[c] # "none"
  BY DEF UnixTypeOK, Then, Finish, Acted

LEMMA FileKept ==
  ASSUME Inv, NEW c \in Clients,
         WriteFile(c) \/ OpenFile(c) \/ WriteFileFails(c)
  PROVE  file.exists => file'.exists
<1>1. step[c] # "remove"
  BY DEF OpenFile, WriteFile, WriteFileFails
<1>2. QED
  BY <1>1, FilesTyped DEF Inv, RemoveFile

LEMMA OpenMakesFile ==
  ASSUME Inv, NEW c \in Clients, OpenFile(c)
  PROVE  file'.exists
  BY DEF OpenFile, NoFile

LEMMA AskKeeps ==
  ASSUME Inv, NEW c \in Clients, AskStatus(c)
  PROVE  /\ file' = file /\ UNCHANGED osVars /\ step[c] = "none"
         /\ step'[c] \in {"none", "open", "unload", "start", "stop"}
<1>1. PICK r \in StatusReplies :
        CheckUnix(c, r) \/ ((Status(c, r) \/ Poll(c, r)) /\ UNCHANGED <<file, step>>)
  BY DEF AskStatus
<1>2. /\ file' = file /\ UNCHANGED osVars /\ step[c] = "none"
      /\ \/ step'[c] = "none"
         \/ pc[c] = "check" /\ step'[c] = FirstStep[Verb(c)]
  BY <1>1, RepliesAreAnswers, AskOK DEF Inv, AskStatus
<1>3. pc[c] = "check" => Verb(c) \in {"install", "uninstall", "start", "stop"}
  BY VerbIsNeeded DEF Needed, Inv, UnixOK, UnixTypeOK
<1>4. QED
  BY <1>2, <1>3 DEF FirstStep

LEMMA LoadStep ==
  ASSUME Alone, Inv, LoadInv, [Next]_vars
  PROVE  LoadInv'
<1>1. UnixTypeOK /\ file \in Files
  BY DEF Inv, TypeOK, UnixTypeOK
<1>2. ASSUME NEW c \in Clients, AskStatus(c) PROVE LoadInv'
  <2>1. file' = file /\ loaded' = loaded /\ step'[c] # "remove"
    BY <1>2, AskKeeps DEF osVars
  <2>2. QED
    BY <2>1 DEF Alone, LoadInv, LoadedHasFile
<1>3. ASSUME NEW c \in Clients, Act(c) PROVE LoadInv'
  <2>1. CASE WritePlist(c) \/ ((OpenFile(c) \/ WriteFileFails(c)) /\ UNCHANGED osVars)
    <3>1. loaded' = loaded /\ step'[c] # "remove"
      BY <1>1, <2>1, StepOfStep, WriteFailsTo
         DEF Inv, WritePlist, OpenFile, osVars
    <3>2. file.exists => file'.exists
      BY <2>1, FileKept DEF WritePlist
    <3>3. QED
      BY <3>1, <3>2 DEF Alone, LoadInv, LoadedHasFile
  <2>2. CASE Bootstrap(c)
    <3>1. file' = file /\ file.exists /\ step'[c] = "none"
      BY <1>1, <2>2, FileShape DEF Bootstrap, WellFormed, Finish, UnixTypeOK
    <3>2. QED
      BY <3>1 DEF Alone, LoadInv, LoadedHasFile
  <2>3. CASE Bootout(c)
    BY <2>3 DEF Bootout, LoadInv, LoadedHasFile
  <2>4. CASE Kickstart(c) \/ Kill(c) \/ (FailStep(c) /\ UNCHANGED osVars)
    <3>1. file' = file /\ loaded' = loaded /\ \E r : Finish(c, r)
      BY <2>4 DEF Kickstart, Kill, FailStep, osVars
    <3>2. step'[c] = "none"
      BY <1>1, <3>1 DEF Finish, UnixTypeOK
    <3>3. QED
      BY <3>1, <3>2 DEF Alone, LoadInv, LoadedHasFile
  <2>5. CASE RemoveFile(c) /\ UNCHANGED osVars
    BY <2>5 DEF RemoveFile, osVars, LoadInv, LoadedHasFile
  <2>6. QED
    BY <1>3, <2>1, <2>2, <2>3, <2>4, <2>5 DEF Act
<1>4. ASSUME NEW c \in Clients, Call(c) PROVE LoadInv'
  BY <1>4 DEF Call, LoadInv, LoadedHasFile
<1>5. CASE JobEnds \/ JobRestarts \/ UNCHANGED vars
  BY <1>5 DEF JobEnds, JobRestarts, vars, LoadInv, LoadedHasFile
<1>6. CASE Reboot
  <2>1. file' = file /\ \A c \in Clients : step'[c] = "none"
    BY <1>6 DEF Reboot, DieUnix, DieAtStep
  <2>2. loaded' = NoSpec \/ file.exists
    BY <1>1, <1>6, FileShape DEF Reboot, WellFormed
  <2>3. QED
    BY <2>1, <2>2 DEF LoadInv, LoadedHasFile
<1>7. CASE \E c \in Clients : Crash(c)
  <2>1. /\ file' = file /\ loaded' = loaded
        /\ \A c \in Clients : step'[c] \in {"none", step[c]}
    BY <1>7 DEF Crash, DieUnix, DieAtStep, osVars
  <2>2. QED
    BY <2>1 DEF LoadInv, LoadedHasFile
<1>8. QED
  BY <1>2, <1>3, <1>4, <1>5, <1>6, <1>7 DEF Next, Client

LEMMA InstallStep ==
  ASSUME Alone, Inv, InstallInv, [Next]_vars
  PROVE  InstallInv'
<1>1. UnixTypeOK /\ file \in Files
  BY DEF Inv, TypeOK, UnixTypeOK
<1>2. ASSUME NEW c \in Clients, AskStatus(c) PROVE InstallInv'
  <2>1. step'[c] \notin {"write", "load"}
    BY <1>2, AskKeeps
  <2>2. QED
    BY <2>1 DEF Alone, InstallInv
<1>3. ASSUME NEW c \in Clients, Act(c) PROVE InstallInv'
  <2>1. CASE OpenFile(c)
    <3>1. step'[c] = "write"
      BY <1>1, <2>1 DEF OpenFile, Then, UnixTypeOK
    <3>2. QED
      BY <2>1, <3>1, OpenMakesFile DEF Alone, InstallInv
  <2>2. CASE WritePlist(c)
    <3>1. step[c] = "write" /\ step'[c] = "load" /\ spec' = spec
      BY <1>1, <2>2 DEF WritePlist, WriteFile, Then, UnixTypeOK, clientVars
    <3>2. file' = Overlay(file, spec[c])
      BY <2>2, <3>1 DEF WritePlist, WriteFile, InstallInv
    <3>3. QED
      BY <3>1, <3>2 DEF Alone, InstallInv, Overlay
  <2>3. CASE Bootout(c)
    <3>1. step'[c] = "remove"
      BY <1>1, <2>3 DEF Bootout, Then, UnixTypeOK
    <3>2. QED
      BY <3>1 DEF Alone, InstallInv
  <2>4. CASE \/ Bootstrap(c) \/ Kickstart(c) \/ Kill(c)
             \/ WriteFileFails(c) \/ RemoveFile(c) \/ FailStep(c)
    <3>1. \E r : Finish(c, r)
      BY <2>4 DEF Bootstrap, Kickstart, Kill, WriteFileFails, RemoveFile, FailStep
    <3>2. step'[c] = "none"
      BY <1>1, <3>1 DEF Finish, UnixTypeOK
    <3>3. QED
      BY <3>2 DEF Alone, InstallInv
  <2>5. QED
    BY <1>3, <2>1, <2>2, <2>3, <2>4 DEF Act
<1>4. ASSUME NEW c \in Clients, Call(c) PROVE InstallInv'
  <2>1. UNCHANGED <<file, step>> /\ step[c] = "none"
    BY <1>1, <1>4 DEF Call, Invoke, UnixTypeOK
  <2>2. QED
    BY <2>1 DEF Alone, InstallInv
<1>5. CASE JobEnds \/ JobRestarts \/ UNCHANGED vars
  BY <1>5 DEF JobEnds, JobRestarts, vars, clientVars, InstallInv
<1>6. CASE Reboot \/ \E c \in Clients : Crash(c)
  <2>1. PICK C : DieUnix(C)
    BY <1>6 DEF Reboot, Crash
  <2>2. /\ file' = file
        /\ \A c \in Clients : step'[c] = "none" \/ (step'[c] = step[c] /\ spec'[c] = spec[c])
    BY <2>1 DEF DieUnix, DieAtStep, Die
  <2>3. QED
    BY <2>2 DEF InstallInv
<1>7. QED
  BY <1>2, <1>3, <1>4, <1>5, <1>6 DEF Next, Client

(* A job that is loaded has its file, whatever fails, dies or reboots, so    *)
(* that uninstall can remove both and a reboot keeps it.                     *)
THEOREM KeepsFileOfLoaded ==
  ASSUME Alone
  PROVE  Spec => []LoadedHasFile
<1>1. Init => LoadInv
  BY DEF Init, UnixInit, StepInit, LoadInv, LoadedHasFile
<1>2. Inv /\ LoadInv /\ [Next]_vars => LoadInv'
  BY LoadStep
<1>3. LoadInv => LoadedHasFile
  BY DEF LoadInv
<1>4. QED
  BY InitInv, NextInv, <1>1, <1>2, <1>3, PTL DEF Spec

(* An action of the platform succeeds only with the last step of its verb. *)
LEMMA LastSteps ==
  ASSUME Inv, NEW c \in Clients, Act(c), Acted(c, Done)
  PROVE  \/ Verb(c) = "install" /\ Bootstrap(c)
         \/ Verb(c) = "uninstall" /\ RemoveFile(c) /\ UNCHANGED osVars
         \/ Verb(c) = "start" /\ Kickstart(c)
         \/ Verb(c) = "stop" /\ Kill(c)
<1>1. UnixOK /\ pc[c] = "act" /\ ClientTypeOK /\ (StaysAt(c, "poll") \/ ReturnsDone(c))
  BY AnswersTyped, ActedOutcome DEF Inv, UnixOK, UnixTypeOK, Acted
<1>2. ASSUME Acted(c, Failed) PROVE FALSE
  <2>1. ReturnsElse(c)
    BY <1>1, <1>2, AnswersTyped, ActedOutcome
  <2>2. QED
    BY <1>1, <2>1 DEF ReturnsElse, StaysAt, ReturnsDone
<1>3. ~OpenFile(c) /\ ~WritePlist(c) /\ ~Bootout(c) /\ ~WriteFileFails(c) /\ ~FailStep(c)
  <2>1. ASSUME NEW s, Then(c, s) PROVE FALSE
    BY <1>1, <2>1 DEF Then, clientVars, StaysAt, ReturnsDone
  <2>2. QED
    BY <1>2, <2>1 DEF OpenFile, WritePlist, Bootout, WriteFileFails, FailStep, Finish
<1>4. QED
  BY <1>1, <1>3, VerbOfStep DEF Act, Bootstrap, Kickstart, Kill, RemoveFile

LEMMA SuccessIsLast ==
  ASSUME Alone, Inv, [Next]_vars, NEW c \in Clients, NEW v, ActSucceeds(c, v)
  PROVE  Verb(c) = v /\ Act(c) /\ Acted(c, Done)
<1>1. /\ pc[c] = "act" /\ Verb(c) = v /\ ClientTypeOK
      /\ pc'[c] = "poll" \/ (pc'[c] = "idle" /\ reply'[c] = Done)
  BY DEF ActSucceeds, Inv, UnixOK, UnixTypeOK
<1>2. ASSUME NEW d \in Clients, AskStatus(d) PROVE FALSE
  <2>1. PICK r \in StatusReplies : Asks(c, r)
    BY <1>2 DEF AskStatus, CheckUnix, CheckFrom, Asks, Alone
  <2>2. QED
    BY <1>1, <2>1, RepliesAreAnswers, AsksOutcome
<1>3. ASSUME NEW d \in Clients, Act(d) PROVE Act(c) /\ Acted(c, Done)
  <2>1. d = c /\ ~UNCHANGED clientVars
    BY <1>1 DEF Alone, clientVars
  <2>2. PICK r \in {Done, Failed} : Acted(c, r)
    BY <1>3, <2>1, ActShape
  <2>3. r = Done
    BY <1>1, <2>2, ActedOutcome DEF ReturnsElse
  <2>4. QED
    BY <1>3, <2>1, <2>2, <2>3
<1>4. ASSUME NEW d \in Clients, Call(d) PROVE FALSE
  <2>1. pc[d] = "idle"
    BY <1>4 DEF Call, Invoke
  <2>2. QED
    BY <1>1, <2>1 DEF Alone
<1>5. ASSUME NEW C, Die(C) PROVE FALSE
  BY <1>1, <1>5, DieOutcome DEF ReturnsElse
<1>6. ~JobEnds /\ ~JobRestarts /\ ~UNCHANGED vars
  BY <1>1 DEF JobEnds, JobRestarts, clientVars, vars
<1>7. QED
  BY <1>1, <1>2, <1>3, <1>4, <1>5, <1>6
     DEF Next, Client, Crash, Reboot, DieUnix, DieAtStep

(* An install that succeeds has loaded the job of its spec from a file that  *)
(* holds that and nothing else, whatever earlier calls left behind.          *)
THEOREM InstallsAsAsked ==
  ASSUME Alone
  PROVE  Spec => InstalledAsAsked
<1>1. Init => InstallInv
  BY DEF Init, UnixInit, StepInit, InstallInv
<1>2. Inv /\ InstallInv /\ [Next]_vars => InstallInv'
  BY InstallStep
<1>3. Inv /\ InstallInv /\ [Next]_vars =>
        [\A c \in Clients : ActSucceeds(c, "install") =>
           file' = TextOf(spec[c]) /\ loaded' = spec[c]]_vars
  <2>1. SUFFICES ASSUME Inv, InstallInv, [Next]_vars, NEW c \in Clients,
                        ActSucceeds(c, "install")
                 PROVE  file' = TextOf(spec[c]) /\ loaded' = spec[c]
    OBVIOUS
  <2>2. Bootstrap(c)
    BY <2>1, SuccessIsLast, LastSteps
  <2>3. QED
    BY <2>1, <2>2 DEF Bootstrap, WellFormed, Load, InstallInv
<1>4. QED
  BY InitInv, NextInv, <1>1, <1>2, <1>3, PTL DEF Spec, InstalledAsAsked

(* An uninstall that succeeds leaves no job, no process and no file. *)
THEOREM UninstallsForGood ==
  ASSUME Alone
  PROVE  Spec => UninstalledForGood
<1>1. Init => LoadInv
  BY DEF Init, UnixInit, StepInit, LoadInv, LoadedHasFile
<1>2. Inv /\ LoadInv /\ [Next]_vars => LoadInv'
  BY LoadStep
<1>3. Inv /\ LoadInv /\ [Next]_vars =>
        [\A c \in Clients : ActSucceeds(c, "uninstall") =>
           file' = NoFile /\ loaded' = NoSpec /\ job' = "none"]_vars
  <2>1. SUFFICES ASSUME Inv, LoadInv, [Next]_vars, NEW c \in Clients,
                        ActSucceeds(c, "uninstall")
                 PROVE  file' = NoFile /\ loaded' = NoSpec /\ job' = "none"
    OBVIOUS
  <2>2. RemoveFile(c) /\ UNCHANGED osVars
    BY <2>1, SuccessIsLast, LastSteps
  <2>3. QED
    BY <2>1, <2>2 DEF RemoveFile, osVars, LoadInv, Inv, TypeOK
<1>4. QED
  BY InitInv, NextInv, <1>1, <1>2, <1>3, PTL DEF Spec, UninstalledForGood

-----------------------------------------------------------------------------
(* The refinement.  What a client's step is in ServiceManagement... *)

Defined == file.exists \/ loaded # NoSpec
Running == job \in Alive

LEMMA MapsRests ==
  ASSUME NEW c \in Clients, Resting(c)
  PROVE  Managed!Rests(c)
  BY DEF Managed!Rests, Resting, Doing

LEMMA MapsBegins ==
  ASSUME NEW c \in Clients, Beginning(c), Running => Doing(c)' = "stop"
  PROVE  Managed!Begins(c)
  BY DEF Managed!Begins, Managed!Verbs, Beginning, Doing, Needed, Running

LEMMA MapsEnds ==
  ASSUME NEW c \in Clients, Ending(c),
         Succeeded(c)' =>
           \/ Doing(c) = "install" /\ Defined'
           \/ Doing(c) = "uninstall" /\ ~Defined'
           \/ Doing(c) = "start" /\ Running'
           \/ Doing(c) = "stop"
  PROVE  Managed!Ends(c)
<1>1. ASSUME Succeeded(c)' PROVE Managed!Promise[Doing(c)]
  <2>1. CASE Doing(c) = "install" /\ Defined'
    <3>1. Managed!Promise["install"]
      BY <2>1 DEF Managed!Promise, Defined
    <3>2. QED
      BY <2>1, <3>1
  <2>2. CASE Doing(c) = "uninstall" /\ ~Defined'
    <3>1. Managed!Promise["uninstall"]
      BY <2>2 DEF Managed!Promise, Defined
    <3>2. QED
      BY <2>2, <3>1
  <2>3. CASE Doing(c) = "start" /\ Running'
    <3>1. Managed!Promise["start"]
      BY <2>3 DEF Managed!Promise, Running
    <3>2. QED
      BY <2>3, <3>1
  <2>4. CASE Doing(c) = "stop"
    <3>1. Managed!Promise["stop"]
      BY DEF Managed!Promise
    <3>2. QED
      BY <2>4, <3>1
  <2>5. QED
    BY <1>1, <2>1, <2>2, <2>3, <2>4
<1>2. QED
  BY <1>1 DEF Managed!Ends, Ending, Doing

(* ...and what becomes of the service. *)

ClientsManage ==
  \A c \in Clients : Managed!Begins(c) \/ Managed!Ends(c) \/ Managed!Rests(c)

DataManage ==
  \/ (\E c \in Clients : Doing(c) = "install") /\ Defined' /\ (Running' <=> Running)
  \/ (\E c \in Clients : Doing(c) = "uninstall") /\ ~Defined' /\ ~Running'
  \/ Defined /\ Defined' /\ Running'
  \/ (Defined' <=> Defined) /\ ~Running'
  \/ (Defined' <=> Defined) /\ (Running' <=> Running)

LEMMA ManageIsNext == ClientsManage /\ DataManage => Managed!Next
<1>1. SUFFICES ASSUME DataManage
               PROVE  \/ Managed!Define \/ Managed!Remove \/ Managed!Run
                      \/ Managed!End \/ UNCHANGED <<Defined, Running>>
  BY DEF ClientsManage, Managed!Next, Defined, Running
<1>2. CASE (\E c \in Clients : Doing(c) = "install") /\ Defined' /\ (Running' <=> Running)
  BY <1>2 DEF Managed!Define, Managed!Asked, Doing, Defined, Running
<1>3. CASE (\E c \in Clients : Doing(c) = "uninstall") /\ ~Defined' /\ ~Running'
  BY <1>3 DEF Managed!Remove, Managed!Asked, Doing, Defined, Running
<1>4. CASE Defined /\ Defined' /\ Running'
  BY <1>4 DEF Managed!Run, Defined, Running
<1>5. CASE (Defined' <=> Defined) /\ ~Running'
  BY <1>5 DEF Managed!End, Defined, Running
<1>6. CASE (Defined' <=> Defined) /\ (Running' <=> Running)
  BY <1>6 DEF Defined, Running
<1>7. QED
  BY <1>1, <1>2, <1>3, <1>4, <1>5, <1>6 DEF DataManage

LEMMA AskManages ==
  ASSUME Inv, NEW c \in Clients, AskStatus(c)
  PROVE  ClientsManage /\ DataManage
<1>1. PICK r \in StatusReplies : Asks(c, r)
  BY DEF AskStatus, CheckUnix, CheckFrom, Asks
<1>2. /\ r \in Answers /\ ClientTypeOK /\ ManagerInv(c) /\ TypeOK
      /\ file' = file /\ UNCHANGED osVars
  BY RepliesAreAnswers, AskKeeps DEF Inv, UnixOK, UnixTypeOK, UnixInv
<1>3. \A d \in Clients \ {c} : Managed!Rests(d)
  BY <1>1, <1>2, AsksManages, MapsRests
<1>4. DataManage
  BY <1>2 DEF DataManage, Defined, Running, osVars
<1>5. CASE Resting(c)
  BY <1>3, <1>4, <1>5, MapsRests DEF ClientsManage
<1>6. CASE Beginning(c) /\ Doing(c)' = Verb(c) /\ r = Ok(Needed[Verb(c)])
  <2>1. Verb(c) \in {"install", "uninstall", "start", "stop"}
    BY <1>6 DEF Beginning, Needed
  <2>2. Running => JobStatus = "Running"
    BY <1>2 DEF Running, JobStatus, TypeOK, Alive
  <2>3. r.kind = "Ok" /\ r.status = JobStatus /\ r.status = Needed[Verb(c)]
    BY <1>6 DEF StatusReplies, Ok, Failed, Error
  <2>4. Running => Doing(c)' = "stop"
    BY <1>6, <2>1, <2>2, <2>3 DEF Needed
  <2>5. QED
    BY <1>3, <1>4, <1>6, <2>4, MapsBegins DEF ClientsManage
<1>7. QED
  BY <1>1, <1>2, <1>5, <1>6, AsksManages

LEMMA ActManages ==
  ASSUME Inv, LoadInv, InstallInv, NEW c \in Clients, Act(c)
  PROVE  ClientsManage /\ DataManage
<1>1. /\ UnixOK /\ TypeOK /\ file \in Files /\ ClientTypeOK /\ LoadedHasFile
  BY DEF Inv, TypeOK, UnixTypeOK, LoadInv
<1>2. pc[c] = "act" => Doing(c) = Verb(c)
  BY DEF Doing
<1>3. DataManage
  <2>1. CASE OpenFile(c) /\ UNCHANGED osVars
    <3>1. pc[c] = "act" /\ Verb(c) = "install"
      BY <1>1, <2>1, WriterHasSpec DEF OpenFile
    <3>2. file'.exists /\ UNCHANGED osVars
      BY <2>1, OpenMakesFile
    <3>3. QED
      BY <1>2, <3>1, <3>2 DEF DataManage, Defined, Running, osVars
  <2>2. CASE WritePlist(c) \/ (WriteFileFails(c) /\ UNCHANGED osVars)
    <3>1. step[c] = "write" /\ UNCHANGED osVars
      BY <2>2 DEF WritePlist, WriteFile, WriteFileFails
    <3>2. file.exists /\ file'.exists
      BY <2>2, <3>1, FileKept DEF InstallInv, WritePlist
    <3>3. QED
      BY <3>1, <3>2 DEF DataManage, Defined, Running, osVars
  <2>3. CASE RemoveFile(c) /\ UNCHANGED osVars
    <3>1. step[c] = "remove" /\ file' = NoFile /\ UNCHANGED osVars /\ pc[c] = "act"
      BY <2>3 DEF RemoveFile, Finish, Acted
    <3>2. Verb(c) = "uninstall" /\ loaded = NoSpec /\ job = "none"
      BY <1>1, <3>1, VerbOfStep DEF LoadInv, TypeOK
    <3>3. QED
      BY <1>2, <3>1, <3>2 DEF DataManage, Defined, Running, osVars, NoFile, Alive
  <2>4. CASE Bootstrap(c)
    <3>1. file' = file /\ file.exists /\ (job' = "running" \/ job' = "none")
      BY <1>1, <2>4, FileShape DEF Bootstrap, WellFormed, Load, Launch, Vanish
    <3>2. QED
      BY <3>1 DEF DataManage, Defined, Running, Alive
  <2>5. CASE Bootout(c)
    <3>1. file' = file /\ file.exists /\ job' = "none"
      BY <1>1, <2>5 DEF Bootout, Vanish, LoadedHasFile
    <3>2. QED
      BY <3>1 DEF DataManage, Defined, Running, Alive
  <2>6. CASE Kickstart(c)
    BY <2>6 DEF Kickstart, Launch, DataManage, Defined, Running, Alive
  <2>7. CASE Kill(c)
    BY <2>7 DEF Kill, DataManage, Defined, Running, Alive
  <2>8. CASE FailStep(c) /\ UNCHANGED osVars
    BY <2>8 DEF FailStep, osVars, DataManage, Defined, Running
  <2>9. QED
    BY <2>1, <2>2, <2>3, <2>4, <2>5, <2>6, <2>7, <2>8 DEF Act
<1>4. CASE UNCHANGED clientVars
  BY <1>3, <1>4, QuietRests, MapsRests DEF ClientsManage
<1>5. ASSUME NEW r \in {Done, Failed}, Acted(c, r)
      PROVE  ClientsManage
  <2>1. /\ \A d \in Clients \ {c} : Resting(d)
        /\ Ending(c) /\ Doing(c) = Verb(c) /\ (Succeeded(c)' => r = Done)
    BY <1>1, <1>5, ActedManages
  <2>2. ASSUME Succeeded(c)'
        PROVE  \/ Doing(c) = "install" /\ Defined'
               \/ Doing(c) = "uninstall" /\ ~Defined'
               \/ Doing(c) = "start" /\ Running'
               \/ Doing(c) = "stop"
    <3>1. Acted(c, Done)
      BY <1>5, <2>1, <2>2
    <3>2. CASE Verb(c) = "install" /\ Bootstrap(c)
      <4>1. file' = file /\ file.exists
        BY <1>1, <3>2, FileShape DEF Bootstrap, WellFormed
      <4>2. QED
        BY <2>1, <3>2, <4>1 DEF Defined
    <3>3. CASE Verb(c) = "uninstall" /\ RemoveFile(c) /\ UNCHANGED osVars
      BY <2>1, <3>3 DEF RemoveFile, osVars, LoadInv, NoFile, Defined
    <3>4. CASE Verb(c) = "start" /\ Kickstart(c)
      BY <2>1, <3>4 DEF Kickstart, Launch, Running, Alive
    <3>5. CASE Verb(c) = "stop"
      BY <2>1, <3>5
    <3>6. QED
      BY <3>1, <3>2, <3>3, <3>4, <3>5, LastSteps
  <2>3. Managed!Ends(c)
    BY <2>1, <2>2, MapsEnds
  <2>4. QED
    BY <2>1, <2>3, MapsRests DEF ClientsManage
<1>6. QED
  BY <1>3, <1>4, <1>5, ActShape

LEMMA OthersManage ==
  ASSUME Inv, LoadInv,
         \/ JobEnds \/ JobRestarts \/ Reboot \/ UNCHANGED vars
         \/ \E c \in Clients : Call(c) \/ Crash(c)
  PROVE  ClientsManage /\ DataManage
<1>1. TypeOK /\ ClientTypeOK /\ file \in Files
  BY DEF Inv, TypeOK, UnixTypeOK
<1>2. ClientsManage
  <2>1. CASE JobEnds \/ JobRestarts \/ UNCHANGED vars
    <3>1. UNCHANGED clientVars
      BY <2>1 DEF JobEnds, JobRestarts, vars, clientVars
    <3>2. QED
      BY <3>1, QuietRests, MapsRests DEF ClientsManage
  <2>2. ASSUME NEW c \in Clients, Call(c) PROVE ClientsManage
    BY <1>1, <2>2, InvokeManages, MapsRests DEF Call, ClientsManage
  <2>3. CASE Reboot \/ \E c \in Clients : Crash(c)
    <3>1. PICK C : Die(C)
      BY <2>3 DEF Reboot, Crash, DieUnix, DieAtStep
    <3>2. QED
      BY <3>1, DieManages, MapsRests, MapsEnds DEF ClientsManage
  <2>4. QED
    BY <2>1, <2>2, <2>3
<1>3. DataManage
  <2>1. CASE Reboot /\ WellFormed /\ Load
    <3>1. file' = file /\ file.exists /\ (job' = "running" \/ job' = "none")
      BY <1>1, <2>1, FileShape
         DEF Reboot, DieUnix, WellFormed, Load, Launch, Vanish
    <3>2. QED
      BY <3>1 DEF DataManage, Defined, Running, Alive
  <2>2. CASE Reboot /\ loaded' = NoSpec /\ Vanish
    BY <2>2 DEF Reboot, DieUnix, Vanish, LoadInv, LoadedHasFile, DataManage,
                Defined, Running, Alive
  <2>3. CASE JobEnds
    BY <2>3 DEF JobEnds, DataManage, Defined, Running, Alive
  <2>4. CASE JobRestarts
    BY <1>1, <2>4 DEF JobRestarts, Launch, TypeOK, DataManage, Defined, Running, Alive
  <2>5. CASE UNCHANGED vars \/ \E c \in Clients : Call(c) \/ Crash(c)
    <3>1. UNCHANGED <<file, loaded, job>>
      BY <2>5 DEF vars, Call, Crash, DieUnix, osVars
    <3>2. QED
      BY <3>1 DEF DataManage, Defined, Running
  <2>6. QED
    BY <2>1, <2>2, <2>3, <2>4, <2>5 DEF Reboot
<1>4. QED
  BY <1>2, <1>3

(* launchd.rs does what UniServiceManager promises to a caller who has the   *)
(* service to himself, KeepAlive and RunAtLoad included.                     *)
THEOREM Implements ==
  ASSUME Alone
  PROVE  Spec => ImplementsManagement
<1>1. Init => LoadInv /\ InstallInv
  BY DEF Init, UnixInit, StepInit, LoadInv, LoadedHasFile, InstallInv
<1>2. Inv /\ LoadInv /\ InstallInv /\ [Next]_vars => LoadInv' /\ InstallInv'
  BY LoadStep, InstallStep
<1>3. Init => Managed!Init
  BY DEF Init, UnixInit, ClientInit, NoFile, Managed!Init, Succeeded, NoReply,
         Done, Error, Ok, Alive
<1>4. Inv /\ LoadInv /\ InstallInv /\ [Next]_vars => Managed!Next
  BY AskManages, ActManages, OthersManage, ManageIsNext DEF Next, Client
<1>5. QED
  BY InitInv, NextInv, <1>1, <1>2, <1>3, <1>4, PTL
     DEF Spec, ImplementsManagement, Managed!Spec

=============================================================================
