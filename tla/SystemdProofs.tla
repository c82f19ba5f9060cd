---------------------------- MODULE SystemdProofs ----------------------------
(***************************************************************************)
(* Systemd for any number of clients, methods and ServiceSpecs.            *)
(***************************************************************************)
EXTENDS Systemd, UnixManagerProofs

LEMMA RepliesAreAnswers == StatusReplies \subseteq Answers
  BY DEF StatusReplies, UnitStatus, Answers, ServiceStatus

(* The inductive invariant.  Who has found the service not running, or has  *)
(* started it, has had a process started if there is one now.               *)
Starting(c) == pc[c] = "act" /\ Verb(c) = "start" /\ unit = "active" => fresh[c]
Started(c)  == (/\ pc[c] = "poll" /\ op[c] \in Starters
                /\ leg[c] >= Len(Legs[op[c]])) => fresh[c]

Inv == UnixOK /\ TypeOK /\ \A c \in Clients : Starting(c) /\ Started(c)

(* A process that is there has been there, or has been started for all. *)
FreshProcess ==
  /\ unit' = "active" => unit = "active" \/ \A d \in Clients : fresh'[d]
  /\ \A d \in Clients : fresh[d] => fresh'[d]

(* A client does nothing, or dies. *)
Untouched(d) ==
  \/ pc'[d] = "idle"
  \/ pc'[d] = pc[d] /\ leg'[d] = leg[d] /\ op'[d] = op[d]

LEMMA UntouchedInv ==
  ASSUME NEW d \in Clients, Starting(d), Started(d), Untouched(d), FreshProcess
  PROVE  Starting(d)' /\ Started(d)'
  BY DEF Starting, Started, Untouched, FreshProcess, Verb

-----------------------------------------------------------------------------
(* The actions, one by one. *)

LEMMA LaunchStarts ==
  ASSUME TypeOK, Launch
  PROVE  /\ unit' = "active" /\ restarts' \in BOOLEAN
         /\ fresh' \in [Clients -> BOOLEAN] /\ \A d \in Clients : fresh'[d]
         /\ FreshProcess /\ file.exists
         /\ file.spec \in Specs /\ restarts' = file.spec.restart_on_failure
<1>1. file.spec \in Specs /\ file.exists
  BY FileShape DEF TypeOK, UnixTypeOK, Launch
<1>2. file.spec.restart_on_failure \in BOOLEAN
  BY <1>1, ManagerAssumption DEF ServiceSpec
<1>3. QED
  BY <1>1, <1>2 DEF Launch, FreshProcess

(* A client that acts goes on to its next step, or has acted; and if it was *)
(* to start the service, and did, there is a process started since.         *)
LEMMA ActShape ==
  ASSUME Inv, NEW c \in Clients, Act(c)
  PROVE  /\ UnixOK' /\ TypeOK' /\ FreshProcess
         /\ \A d \in Clients \ {c} : step'[d] = step[d]
         /\ \/ UNCHANGED clientVars
            \/ \E r \in {Done, Failed} :
                 /\ Acted(c, r)
                 /\ r = Done /\ Verb(c) = "start" => fresh'[c]
<1>1. UnixOK /\ TypeOK /\ UnixTypeOK /\ file \in Files /\ Failed # Done
  BY AnswersTyped DEF Inv, TypeOK, UnixTypeOK
<1>2. pc[c] = "act" /\ step[c] # "none"
  BY <1>1 DEF Act, WriteUnit, WriteFile, Enable, Disable, StartUnit, StopUnit,
              OpenFile, WriteFileFails, RemoveFile, FailStep, UnixTypeOK
<1>3. CASE \/ WriteUnit(c)
           \/ /\ OpenFile(c) \/ WriteFileFails(c) \/ RemoveFile(c) \/ FailStep(c)
              /\ UNCHANGED osVars
  <2>1. /\ UnixOK' /\ \A d \in Clients \ {c} : step'[d] = step[d]
        /\ UNCHANGED osVars
    BY <1>1, <1>3, WriteStepOK, FileStepOK DEF WriteUnit
  <2>2. \/ UNCHANGED clientVars
        \/ Acted(c, Failed)
        \/ Acted(c, Done) /\ Verb(c) # "start"
    <3>1. CASE WriteUnit(c)
      <4>1. Verb(c) = "install"
        BY <1>1, <3>1, WriterHasSpec DEF WriteUnit, WriteFile
      <4>2. QED
        BY <3>1, <4>1 DEF WriteUnit, Then, Finish
    <3>2. CASE OpenFile(c) \/ WriteFileFails(c) \/ FailStep(c)
      BY <3>2 DEF OpenFile, WriteFileFails, FailStep, Then, Finish
    <3>3. CASE RemoveFile(c)
      BY <1>1, <1>2, <3>3, VerbOfStep DEF RemoveFile, Finish
    <3>4. QED
      BY <1>3, <3>1, <3>2, <3>3
  <2>3. FreshProcess /\ TypeOK'
    BY <1>1, <2>1 DEF osVars, FreshProcess, TypeOK, UnixOK
  <2>4. QED
    BY <1>1, <2>1, <2>2, <2>3
<1>4. CASE Enable(c)
  <2>1. Verb(c) = "install"
    BY <1>1, <1>4, WriterHasSpec DEF Enable
  <2>2. UnixOK' /\ \A d \in Clients \ {c} : step'[d] = step[d]
    BY <1>1, <1>4, FinishOK DEF Enable
  <2>3. FreshProcess /\ TypeOK'
    BY <1>1, <1>4, <2>2 DEF Enable, FreshProcess, TypeOK, UnixOK
  <2>4. QED
    BY <1>4, <2>1, <2>2, <2>3 DEF Enable, Finish
<1>5. CASE Disable(c)
  <2>1. "remove" \in StepsOf[Verb(c)]
    BY <1>1, <1>2, <1>5, VerbOfStep DEF Disable, StepsOf
  <2>2. UnixOK' /\ UNCHANGED clientVars
    BY <1>1, <1>5, <2>1, ThenOK DEF Disable
  <2>3. \A d \in Clients \ {c} : step'[d] = step[d]
    BY <1>1, <1>5 DEF Disable, Then, UnixTypeOK
  <2>4. FreshProcess /\ TypeOK'
    BY <1>1, <1>5, <2>2 DEF Disable, FreshProcess, TypeOK, UnixOK
  <2>5. QED
    BY <2>2, <2>3, <2>4
<1>6. CASE StartUnit(c)
  <2>1. Verb(c) = "start" /\ Starting(c)
    BY <1>1, <1>2, <1>6, VerbOfStep DEF StartUnit, Inv
  <2>2. UnixOK' /\ \A d \in Clients \ {c} : step'[d] = step[d]
    BY <1>1, <1>6, FinishOK DEF StartUnit
  <2>3. fresh'[c] /\ FreshProcess
    BY <1>1, <1>2, <1>6, <2>1, LaunchStarts DEF StartUnit, Starting, FreshProcess
  <2>4. TypeOK'
    BY <1>1, <1>6, <2>2, LaunchStarts DEF StartUnit, TypeOK, UnixOK
  <2>5. QED
    BY <1>6, <2>2, <2>3, <2>4 DEF StartUnit, Finish
<1>7. CASE StopUnit(c)
  <2>1. Verb(c) = "stop"
    BY <1>1, <1>2, <1>7, VerbOfStep DEF StopUnit
  <2>2. UnixOK' /\ \A d \in Clients \ {c} : step'[d] = step[d]
    BY <1>1, <1>7, FinishOK DEF StopUnit
  <2>3. FreshProcess /\ TypeOK'
    BY <1>1, <1>7, <2>2 DEF StopUnit, FreshProcess, TypeOK, UnixOK
  <2>4. QED
    BY <1>7, <2>1, <2>2, <2>3 DEF StopUnit, Finish
<1>8. QED
  BY <1>3, <1>4, <1>5, <1>6, <1>7 DEF Act

LEMMA ActInv ==
  ASSUME Inv, NEW c \in Clients, Act(c)
  PROVE  Inv'
<1>1. UnixOK' /\ TypeOK' /\ FreshProcess /\ ClientTypeOK
  BY ActShape DEF Inv, UnixOK, UnixTypeOK
<1>2. CASE UNCHANGED clientVars
  <2>1. \A d \in Clients : Untouched(d)
    BY <1>2 DEF clientVars, Untouched
  <2>2. QED
    BY <1>1, <2>1, UntouchedInv DEF Inv
<1>3. ASSUME NEW r \in {Done, Failed}, Acted(c, r),
             r = Done /\ Verb(c) = "start" => fresh'[c]
      PROVE  Inv'
  <2>1. Proceeds(c) /\ pc'[c] # "act"
    BY <1>1, <1>3, ActedOutcome DEF StaysAt, ReturnsDone, ReturnsElse
  <2>2. Starting(c)'
    BY <2>1 DEF Starting
  <2>3. Started(c)'
    BY <1>1, <1>3, <2>1, ActedStarts DEF Started, Proceeds
  <2>4. \A d \in Clients \ {c} : Untouched(d)
    BY <2>1 DEF Proceeds, Untouched
  <2>5. QED
    BY <1>1, <2>2, <2>3, <2>4, UntouchedInv DEF Inv
<1>4. QED
  BY <1>2, <1>3, ActShape

LEMMA AskInv ==
  ASSUME Inv, NEW c \in Clients, AskStatus(c)
  PROVE  Inv'
<1>1. PICK r \in StatusReplies :
        CheckUnix(c, r) \/ ((Status(c, r) \/ Poll(c, r)) /\ UNCHANGED <<file, step>>)
  BY DEF AskStatus
<1>2. UNCHANGED osVars /\ UnixOK /\ TypeOK /\ ClientTypeOK /\ r \in Answers
  BY RepliesAreAnswers DEF AskStatus, Inv, UnixOK, UnixTypeOK
<1>3. /\ UnixOK' /\ Asks(c, r)
      /\ \/ pc'[c] # "act"
         \/ Verb(c)' = Verb(c) /\ r = Ok(Needed[Verb(c)])
  BY <1>1, <1>2, AskOK
<1>4. TypeOK' /\ FreshProcess
  BY <1>2, <1>3 DEF TypeOK, osVars, UnixOK, FreshProcess
<1>5. Starting(c)'
  <2>1. SUFFICES ASSUME pc'[c] = "act", Verb(c) = "start", unit = "active"
                 PROVE  FALSE
    BY <1>2, <1>3 DEF Starting, osVars
  <2>2. r.kind = "Ok" /\ r.status = "Stopped"
    BY <1>3, <2>1 DEF Needed, Ok
  <2>3. QED
    BY <2>1, <2>2 DEF StatusReplies, UnitStatus, Ok, Failed, Error
<1>6. Started(c)'
  <2>1. Started(c) /\ fresh' = fresh
    BY <1>2 DEF Inv, osVars
  <2>2. QED
    BY <1>2, <1>3, <2>1, AsksOutcome DEF Started, Proceeds
<1>7. \A d \in Clients \ {c} : Untouched(d)
  BY <1>2, <1>3, AsksOutcome DEF Proceeds, Untouched
<1>8. QED
  BY <1>3, <1>4, <1>5, <1>6, <1>7, UntouchedInv DEF Inv

LEMMA CallInv ==
  ASSUME Inv, NEW c \in Clients, Call(c)
  PROVE  Inv'
<1>0. PICK o \in Ops : \E a \in Arguments(o) : Invoke(c, o, a[1], a[2])
  BY DEF Call
<1>1. PICK a \in Arguments(o) : Invoke(c, o, a[1], a[2])
  BY <1>0
<1>2. ClientTypeOK /\ UnixOK /\ TypeOK
  BY DEF Inv, TypeOK, UnixTypeOK
<1>3. /\ pc'[c] # "act" /\ op'[c] = o
      /\ pc'[c] = "poll" => o = "wait_for_status"
      /\ leg' = leg /\ \A d \in Clients \ {c} : pc'[d] = pc[d] /\ op'[d] = op[d]
  BY <1>1, <1>2, InvokeOutcome
<1>4. UnixOK'
  BY <1>1, <1>2, CallOK DEF Call
<1>5. TypeOK'
  BY <1>2, <1>4 DEF TypeOK, Call, UnixOK
<1>6. Starting(c)' /\ Started(c)'
  BY <1>3 DEF Starting, Started, Starters
<1>7. \A d \in Clients \ {c} : Starting(d)' /\ Started(d)'
  <2>1. unit' = unit /\ \A d \in Clients \ {c} : fresh'[d] = fresh[d]
    BY <1>2 DEF Call, TypeOK
  <2>2. QED
    BY <1>3, <2>1 DEF Inv, Starting, Started, Verb
<1>8. QED
  BY <1>4, <1>5, <1>6, <1>7 DEF Inv

(* What the service, systemd and the machine do by themselves. *)
LEMMA SystemInv ==
  ASSUME Inv,
         ServiceEnds \/ ServiceRestarts \/ Reboot \/ \E c \in Clients : Crash(c)
  PROVE  Inv'
<1>1. TypeOK /\ UnixOK
  BY DEF Inv
<1>2. UnixOK' /\ \A d \in Clients : Untouched(d)
  <2>1. CASE ServiceEnds \/ ServiceRestarts
    <3>1. UNCHANGED <<clientVars, file, step>>
      BY <2>1 DEF ServiceEnds, ServiceRestarts
    <3>2. QED
      BY <1>1, <3>1, QuietOK DEF clientVars, Untouched
  <2>2. CASE Reboot \/ \E c \in Clients : Crash(c)
    <3>1. PICK C : DieUnix(C)
      BY <2>2 DEF Reboot, Crash
    <3>2. \A d \in Clients : Untouched(d)
      BY <3>1, DieOutcome DEF DieUnix, DieAtStep, Untouched, ReturnsElse
    <3>3. QED
      BY <1>1, <3>1, <3>2, DieOK
  <2>3. QED
    BY <2>1, <2>2
<1>3. FreshProcess /\ TypeOK'
  <2>1. CASE ServiceEnds \/ ServiceRestarts \/ \E c \in Clients : Crash(c)
    BY <1>1, <1>2, <2>1
       DEF ServiceEnds, ServiceRestarts, Crash, osVars, FreshProcess, TypeOK, UnixOK
  <2>2. CASE Reboot /\ Launch
    BY <1>1, <1>2, <2>2, LaunchStarts DEF Reboot, TypeOK, UnixOK
  <2>3. CASE Reboot /\ unit' = "inactive" /\ UNCHANGED <<restarts, fresh>>
    BY <1>1, <1>2, <2>3 DEF Reboot, FreshProcess, TypeOK, UnixOK
  <2>4. QED
    BY <2>1, <2>2, <2>3 DEF Reboot
<1>4. QED
  BY <1>2, <1>3, UntouchedInv DEF Inv

LEMMA InitInv == Init => Inv
<1>1. SUFFICES ASSUME Init PROVE Inv
  OBVIOUS
<1>2. UnixOK
  BY <1>1, UnixInitOK DEF Init
<1>3. \A c \in Clients : pc[c] = "idle"
  BY <1>1 DEF Init, UnixInit, ClientInit
<1>4. QED
  BY <1>1, <1>2, <1>3 DEF Init, Inv, TypeOK, UnixOK, Starting, Started

LEMMA NextInv == Inv /\ [Next]_vars => Inv'
<1>1. SUFFICES ASSUME Inv, [Next]_vars PROVE Inv'
  OBVIOUS
<1>2. ASSUME NEW c \in Clients, Call(c) PROVE Inv'
  BY <1>1, <1>2, CallInv
<1>3. ASSUME NEW c \in Clients, AskStatus(c) PROVE Inv'
  BY <1>1, <1>3, AskInv
<1>4. ASSUME NEW c \in Clients, Act(c) PROVE Inv'
  BY <1>1, <1>4, ActInv
<1>5. CASE ServiceEnds \/ ServiceRestarts \/ Reboot \/ \E c \in Clients : Crash(c)
  BY <1>1, <1>5, SystemInv
<1>6. CASE UNCHANGED vars
  <2>1. UNCHANGED <<clientVars, file, step, unit, enabled, restarts, fresh>>
    BY <1>6 DEF vars, clientVars
  <2>2. UnixOK'
    BY <1>1, <2>1, QuietOK DEF Inv
  <2>3. QED
    BY <1>1, <2>1, <2>2 DEF Inv, TypeOK, UnixOK, clientVars, Starting, Started, Verb
<1>7. QED
  BY <1>1, <1>2, <1>3, <1>4, <1>5, <1>6 DEF Next, Client

(* However many clients call whatever methods, and wherever they fail, die   *)
(* or are overtaken by the service, systemd or a reboot, every variable has  *)
(* a value of its type; a client acts exactly while a step is recorded for   *)
(* it, and is only ever at a leg that its method has.                        *)
THEOREM TypeCorrect == Spec => []TypeOK
<1>1. Inv => TypeOK
  BY DEF Inv
<1>2. QED
  BY InitInv, NextInv, <1>1, PTL DEF Spec

-----------------------------------------------------------------------------
(* When a method that starts the service returns Ok. *)

LEMMA ReturnsStarted ==
  ASSUME Inv, [Next]_vars, NEW c \in Clients, NEW o \in Starters,
         Returns(c, o, Done)
  PROVE  fresh'[c]
<1>1. /\ op[c] = o /\ op[c] \in Starters /\ pc[c] # "idle"
      /\ pc'[c] = "idle" /\ reply'[c] = Done
  BY DEF Returns
<1>2. UnixTypeOK /\ ClientTypeOK
  BY DEF Inv, TypeOK, UnixTypeOK
<1>3. ASSUME NEW d \in Clients, AskStatus(d) PROVE fresh'[c]
  <2>1. PICK r \in StatusReplies : Asks(d, r)
    BY <1>3 DEF AskStatus, CheckUnix, CheckFrom, Asks
  <2>2. d = c
    BY <1>1, <1>2, <2>1, RepliesAreAnswers, AsksOutcome DEF Proceeds
  <2>3. pc[c] = "poll" /\ leg[c] >= Len(Legs[op[c]])
    BY <1>1, <1>2, <2>1, <2>2, RepliesAreAnswers, AsksOutcome
  <2>4. QED
    BY <1>1, <1>3, <2>3 DEF Inv, Started, AskStatus, osVars
<1>4. ASSUME NEW d \in Clients, Act(d) PROVE fresh'[c]
  <2>1. PICK r \in {Done, Failed} :
          Acted(d, r) /\ (r = Done /\ Verb(d) = "start" => fresh'[d])
    <3>1. ~UNCHANGED clientVars
      BY <1>1 DEF clientVars
    <3>2. QED
      BY <1>4, <3>1, ActShape
  <2>2. d = c
    BY <1>1, <1>2, <2>1, ActedOutcome DEF Proceeds
  <2>3. QED
    BY <1>1, <1>2, <2>1, <2>2, ActedStarts
<1>5. ASSUME NEW d \in Clients, Call(d) PROVE FALSE
  <2>1. \E p \in Ops : \E a \in Arguments(p) : Invoke(d, p, a[1], a[2])
    BY <1>5 DEF Call
  <2>2. QED
    BY <1>1, <1>2, <2>1, InvokeOutcome
<1>6. ASSUME NEW C, Die(C) PROVE FALSE
  BY <1>1, <1>6, DieOutcome DEF ReturnsElse
<1>7. CASE ServiceEnds \/ ServiceRestarts \/ UNCHANGED vars
  BY <1>1, <1>7 DEF ServiceEnds, ServiceRestarts, clientVars, vars
<1>8. QED
  BY <1>3, <1>4, <1>5, <1>6, <1>7
     DEF Next, Client, Crash, Reboot, DieUnix, DieAtStep

(* With any number of clients and any ServiceSpecs: a method that starts the *)
(* service and returns Ok has had a new process started since it was called, *)
(* so no restart is satisfied by the process it was called to replace.       *)
THEOREM StartsForReal == Spec => OkMeansStarted
<1>1. Inv /\ [Next]_vars =>
        [\A c \in Clients :
           (\E o \in {"start", "start_and_wait", "install_if_needed_and_start",
                      "restart"} : Returns(c, o, Done)) => fresh'[c]]_vars
  BY ReturnsStarted DEF Starters
<1>2. QED
  BY InitInv, NextInv, <1>1, PTL DEF Spec, OkMeansStarted

-----------------------------------------------------------------------------
(* No call goes on for ever, as long as its client goes on. *)

LEMMA ActGoesOn ==
  ASSUME Inv, NEW c \in Clients, Act(c)
  PROVE  Nearer(c)
<1>1. UnixOK /\ UnixOK'
  BY ActShape DEF Inv
<1>2. \/ \E r \in {Done, Failed} : Finish(c, r)
      \/ \E s : Then(c, s) /\ Ahead[s] < Ahead[step[c]]
  BY WriteFailsTo
     DEF Inv, Act, WriteUnit, WriteFile, Enable, Disable, StartUnit, StopUnit,
         OpenFile, RemoveFile, FailStep, Ahead
<1>3. QED
  BY <1>1, <1>2, ActNearer

LEMMA ClientGoesOn ==
  ASSUME Inv, NEW c \in Clients, Client(c)
  PROVE  Nearer(c)
<1>1. CASE Act(c)
  BY <1>1, ActGoesOn
<1>2. CASE AskStatus(c)
  BY <1>2, RepliesAreAnswers, AskNearer DEF AskStatus, Inv
<1>3. QED
  BY <1>1, <1>2 DEF Client

LEMMA NoLonger ==
  ASSUME Inv, [Next]_vars, NEW c \in Clients, pc[c] # "idle"
  PROVE  Togo(c)' <= Togo(c)
<1>1. UnixOK /\ MaxPolls \in Nat
  BY ManagerAssumption DEF Inv
<1>2. Togo(c) \in Nat /\ Togo(c)' \in Nat
  BY <1>1, NextInv, TogoTyped, TogoTypedNext DEF Inv, Bounded
<1>3. ASSUME NEW d \in Clients, Client(d) PROVE Togo(c)' <= Togo(c)
  BY <1>2, <1>3, ClientGoesOn DEF Nearer
<1>4. ASSUME NEW d \in Clients, Call(d) PROVE Togo(c)' <= Togo(c)
  <2>1. PICK o \in Ops : \E a \in Arguments(o) : Invoke(d, o, a[1], a[2])
    BY <1>4 DEF Call
  <2>2. UNCHANGED step
    BY <1>4 DEF Call
  <2>3. Togo(c)' = Togo(c)
    BY <1>1, <2>1, <2>2, CallNoLonger
  <2>4. QED
    BY <1>2, <2>3
<1>5. ASSUME NEW C, DieUnix(C) PROVE Togo(c)' <= Togo(c)
  BY <1>1, <1>2, <1>5, DieNoLonger
<1>6. CASE ServiceEnds \/ ServiceRestarts \/ UNCHANGED vars
  <2>1. UNCHANGED <<clientVars, step>>
    BY <1>6 DEF ServiceEnds, ServiceRestarts, clientVars, vars
  <2>2. QED
    BY <1>2, <2>1, QuietNoLonger
<1>7. QED
  BY <1>3, <1>4, <1>5, <1>6 DEF Next, Crash, Reboot

(* Whatever systemctl answers and the others do, a call ends within          *)
(* 2 * MaxPolls + 13 steps of its client: each of them leaves it fewer, and  *)
(* nobody else's step leaves it more.  What CallsReturn needs besides is     *)
(* that the client goes on.                                                  *)
THEOREM CallsAreShort ==
  Spec => /\ []Bounded
          /\ [][\A c \in Clients : /\ Client(c) => Togo(c)' < Togo(c)
                                   /\ pc[c] # "idle" => Togo(c)' <= Togo(c)]_vars
<1>1. Inv => Bounded
  BY TogoTyped DEF Inv
<1>2. Inv /\ [Next]_vars =>
        [\A c \in Clients : /\ Client(c) => Togo(c)' < Togo(c)
                            /\ pc[c] # "idle" => Togo(c)' <= Togo(c)]_vars
  BY ClientGoesOn, NoLonger DEF Nearer
<1>3. QED
  BY InitInv, NextInv, <1>1, <1>2, PTL DEF Spec

=============================================================================
