--------------------------- MODULE UnixManagerProofs ---------------------------
(***************************************************************************)
(* Lemmas about the steps that systemd's and launchd's ServiceManagers     *)
(* share, for any number of clients.                                       *)
(***************************************************************************)
EXTENDS UnixManager, UniServiceManagerProofs

(* The inductive invariant that both rest on: a client that acts is at a    *)
(* step of its leg's verb.                                                  *)
StepsOf == [install |-> {"open", "write", "load"}, uninstall |-> {"unload", "remove"},
            start |-> {"start"}, stop |-> {"stop"}]

AtStep(c)  == pc[c] = "act" => step[c] \in StepsOf[Verb(c)]
UnixInv(c) == ManagerInv(c) /\ AtStep(c)

UnixOK == UnixTypeOK /\ \A c \in Clients : UnixInv(c)

LEMMA VerbOfStep ==
  ASSUME UnixOK, NEW c \in Clients, pc[c] = "act"
  PROVE  /\ Verb(c) \in {"install", "uninstall", "start", "stop"}
         /\ Verb(c) = "install"   <=> step[c] \in {"open", "write", "load"}
         /\ Verb(c) = "uninstall" <=> step[c] \in {"unload", "remove"}
         /\ Verb(c) = "start"     <=> step[c] = "start"
         /\ Verb(c) = "stop"      <=> step[c] = "stop"
<1>1. Verb(c) \in {"install", "uninstall", "start", "stop"}
  BY VerbIsNeeded DEF Needed, UnixOK, UnixTypeOK
<1>2. step[c] \in StepsOf[Verb(c)]
  BY DEF UnixOK, UnixInv, AtStep
<1>3. QED
  BY <1>1, <1>2 DEF StepsOf

LEMMA InstallerHasSpec ==
  ASSUME ClientTypeOK, NEW c \in Clients, ManagerInv(c),
         pc[c] \in {"check", "act"}, Verb(c) = "install"
  PROVE  spec[c] \in Specs
<1>1. leg[c] \in DOMAIN Legs[op[c]]
  BY DEF ClientTypeOK
<1>2. Installs(op[c])
  BY <1>1 DEF Installs, Verb
<1>3. QED
  BY <1>2 DEF ManagerInv, HasSpec

LEMMA WriterHasSpec ==
  ASSUME UnixOK, NEW c \in Clients, step[c] \in {"open", "write", "load"}
  PROVE  pc[c] = "act" /\ Verb(c) = "install" /\ spec[c] \in Specs
<1>1. pc[c] = "act" /\ ClientTypeOK /\ ManagerInv(c)
  BY DEF UnixOK, UnixTypeOK, UnixInv
<1>2. Verb(c) = "install"
  BY <1>1, VerbOfStep
<1>3. QED
  BY <1>1, <1>2, InstallerHasSpec

-----------------------------------------------------------------------------
(* The file. *)

LEMMA FileShape ==
  ASSUME file \in Files
  PROVE  /\ file.size \in Sizes /\ file.spec \in Specs \cup {NoSpec}
         /\ file.exists \in BOOLEAN
         /\ file.exists \/ file = NoFile
         /\ file.exists => file \in [spec : Specs \cup {NoSpec}, size : Sizes,
                                     exists : {TRUE}]
         /\ file.spec # NoSpec => file.exists /\ file.spec \in Specs
<1>1. CASE file = NoFile
  BY <1>1 DEF NoFile, Sizes
<1>2. CASE file \in [spec : Specs \cup {NoSpec}, size : Sizes, exists : {TRUE}]
  BY <1>2
<1>3. QED
  BY <1>1, <1>2 DEF Files

(* A write that fails leaves a file: the new text, or what is no definition. *)
LEMMA WriteFailsTo ==
  ASSUME UnixOK, NEW c \in Clients, WriteFileFails(c)
  PROVE  /\ step[c] = "write" /\ Finish(c, Failed)
         /\ file' \in Files /\ file'.exists
<1>1. step[c] = "write" /\ file.exists /\ Finish(c, Failed)
  BY DEF WriteFileFails
<1>2. file \in [spec : Specs \cup {NoSpec}, size : Sizes, exists : {TRUE}]
  BY <1>1, FileShape DEF UnixOK, UnixTypeOK
<1>3. CASE file' = Overlay(file, spec[c])
  <2>1. spec[c] \in Specs
    BY <1>1, WriterHasSpec
  <2>2. spec[c].size \in Sizes /\ file.size \in Sizes
    BY <1>2, <2>1 DEF Sizes
  <2>3. QED
    BY <1>1, <1>3, <2>1, <2>2 DEF Overlay, Files
<1>4. ASSUME NEW n \in Sizes, file' = [file EXCEPT !.spec = NoSpec, !.size = n]
      PROVE  file' \in Files /\ file'.exists
  <2>1. file' \in [spec : Specs \cup {NoSpec}, size : Sizes, exists : {TRUE}]
    BY <1>2, <1>4
  <2>2. QED
    BY <2>1 DEF Files
<1>5. QED
  BY <1>1, <1>3, <1>4 DEF WriteFileFails

LEMMA FilesTyped ==
  ASSUME UnixOK, NEW c \in Clients,
         \/ OpenFile(c) \/ WriteFile(c) \/ WriteFileFails(c) \/ RemoveFile(c)
  PROVE  /\ file' \in Files
         /\ ~RemoveFile(c) /\ file.exists => file'.exists
<1>1. file \in Files
  BY DEF UnixOK, UnixTypeOK
<1>2. CASE OpenFile(c)
  BY <1>1, <1>2 DEF OpenFile, Files, NoFile, Sizes
<1>3. CASE WriteFile(c)
  <2>1. spec[c] \in Specs
    BY <1>3, WriterHasSpec DEF WriteFile
  <2>2. spec[c].size \in Sizes /\ file.size \in Sizes
    BY <1>1, <2>1, FileShape DEF Sizes
  <2>3. Overlay(file, spec[c]) \in Files /\ Overlay(file, spec[c]).exists
    BY <2>1, <2>2 DEF Overlay, Files
  <2>4. QED
    BY <1>1, <1>3, <2>3 DEF WriteFile
<1>4. CASE WriteFileFails(c)
  BY <1>4, WriteFailsTo
<1>5. CASE RemoveFile(c)
  BY <1>5 DEF RemoveFile, Files
<1>6. QED
  BY <1>2, <1>3, <1>4, <1>5

-----------------------------------------------------------------------------
(* UnixOK is inductive. *)

LEMMA ClientsUnchanged ==
  ASSUME UNCHANGED clientVars
  PROVE  /\ ClientTypeOK => ClientTypeOK'
         /\ \A d \in Clients : /\ ManagerInv(d) => ManagerInv(d)'
                               /\ Verb(d)' = Verb(d)
  BY DEF clientVars, ClientTypeOK, ManagerInv, HasSpec, Waits, Expected, Verb

LEMMA ThenOK ==
  ASSUME UnixOK, NEW c \in Clients, NEW s \in {"write", "load", "remove"},
         Then(c, s), s \in StepsOf[Verb(c)], file' \in Files
  PROVE  UnixOK' /\ step'[c] = s /\ UNCHANGED clientVars
<1>1. /\ UNCHANGED clientVars /\ pc' = pc /\ pc[c] = "act"
      /\ step' = [step EXCEPT ![c] = s]
  BY DEF Then, clientVars
<1>2. ClientTypeOK' /\ \A d \in Clients : ManagerInv(d)'
  BY <1>1, ClientsUnchanged DEF UnixOK, UnixTypeOK, UnixInv
<1>3. UnixTypeOK'
  BY <1>1, <1>2 DEF UnixOK, UnixTypeOK
<1>4. ASSUME NEW d \in Clients PROVE AtStep(d)'
  BY <1>1, ClientsUnchanged DEF AtStep, UnixOK, UnixTypeOK, UnixInv
<1>5. QED
  BY <1>1, <1>2, <1>3, <1>4 DEF UnixOK, UnixInv, UnixTypeOK

LEMMA FinishOK ==
  ASSUME UnixOK, NEW c \in Clients, NEW r \in {Done, Failed},
         Finish(c, r), file' \in Files
  PROVE  /\ UnixOK' /\ step[c] # "none" /\ step'[c] = "none"
         /\ \A d \in Clients \ {c} : step'[d] = step[d]
<1>1. ClientTypeOK /\ (\A d \in Clients : ManagerInv(d)) /\ Acted(c, r)
  BY DEF UnixOK, UnixTypeOK, UnixInv, Finish
<1>2. ClientTypeOK' /\ \A d \in Clients : ManagerInv(d)'
  BY <1>1, AnswersTyped, ActedTyped, ActedInv
<1>3. Proceeds(c) /\ pc[c] = "act" /\ pc'[c] # "act"
  BY <1>1, ActedOutcome DEF StaysAt, ReturnsDone, ReturnsElse
<1>4. /\ step' = [step EXCEPT ![c] = "none"]
      /\ step \in [Clients -> {"none", "open", "write", "load", "unload",
                               "remove", "start", "stop"}]
      /\ \A d \in Clients : step[d] # "none" <=> pc[d] = "act"
  BY DEF Finish, UnixOK, UnixTypeOK
<1>5. UnixTypeOK'
  BY <1>2, <1>3, <1>4 DEF UnixTypeOK, Proceeds
<1>6. ASSUME NEW d \in Clients PROVE AtStep(d)'
  <2>1. CASE d = c
    BY <1>3, <2>1 DEF AtStep
  <2>2. CASE d # c
    BY <1>3, <1>4, <2>2 DEF AtStep, Verb, Proceeds, UnixOK, UnixInv
  <2>3. QED
    BY <2>1, <2>2
<1>7. QED
  BY <1>2, <1>3, <1>4, <1>5, <1>6 DEF UnixOK, UnixInv

(* A status query admits a client to the first step of its verb. *)
LEMMA AskOK ==
  ASSUME UnixOK, NEW c \in Clients, NEW r \in Answers,
         \/ CheckUnix(c, r)
         \/ (Status(c, r) \/ Poll(c, r)) /\ UNCHANGED <<file, step>>
  PROVE  /\ UnixOK' /\ file' = file /\ Asks(c, r)
         /\ \A d \in Clients \ {c} : step'[d] = step[d]
         /\ step[c] = "none"
         /\ \/ step'[c] = "none" /\ pc'[c] # "act"
            \/ /\ pc[c] = "check" /\ pc'[c] = "act" /\ Verb(c)' = Verb(c)
               /\ r = Ok(Needed[Verb(c)]) /\ step'[c] = FirstStep[Verb(c)]
<1>1. /\ ClientTypeOK /\ (\A d \in Clients : ManagerInv(d)) /\ file \in Files
      /\ Asks(c, r) /\ file' = file /\ r # Done
      /\ \A d \in Clients : step[d] # "none" <=> pc[d] = "act"
  BY AnswersTyped
     DEF UnixOK, UnixTypeOK, UnixInv, CheckUnix, CheckFrom, Asks
<1>2. ClientTypeOK' /\ \A d \in Clients : ManagerInv(d)'
  BY <1>1, AsksTyped
<1>3. Proceeds(c) /\ pc[c] # "act" /\ step[c] = "none"
  BY <1>1, AsksOutcome
<1>4. /\ \A d \in Clients \ {c} : step'[d] = step[d]
      /\ \/ step'[c] = "none" /\ pc'[c] # "act"
         \/ /\ pc[c] = "check" /\ pc'[c] = "act" /\ Verb(c)' = Verb(c)
            /\ r = Ok(Needed[Verb(c)]) /\ step'[c] = FirstStep[Verb(c)]
      /\ step' \in [Clients -> {"none", "open", "write", "load", "unload",
                                "remove", "start", "stop"}]
  <2>1. CASE CheckUnix(c, r)
    <3>1. Check(c, r) /\ pc[c] = "check"
      BY <2>1 DEF CheckUnix, CheckFrom, Check
    <3>2. CASE pc'[c] = "act"
      <4>1. Admitted(c, r) /\ leg'[c] = leg[c]
        BY <1>1, <3>1, <3>2, CheckOutcome DEF StaysAt, ToNext, ReturnsElse
      <4>2. Verb(c)' = Verb(c)
        BY <1>3, <4>1 DEF Verb, Proceeds
      <4>3. step' = [step EXCEPT ![c] = FirstStep[Verb(c)]]
        BY <2>1, <3>2 DEF CheckUnix, CheckFrom
      <4>4. FirstStep[Verb(c)] \in {"open", "unload", "start", "stop"}
        BY <1>1, <3>1, VerbIsNeeded DEF FirstStep, Needed
      <4>5. QED
        BY <3>1, <3>2, <4>1, <4>2, <4>3, <4>4 DEF Admitted, UnixOK, UnixTypeOK
    <3>3. CASE pc'[c] # "act"
      BY <1>3, <2>1, <3>3 DEF CheckUnix, CheckFrom, UnixOK, UnixTypeOK
    <3>4. QED
      BY <3>2, <3>3
  <2>2. CASE (Status(c, r) \/ Poll(c, r)) /\ UNCHANGED <<file, step>>
    <3>1. pc'[c] # "act"
      BY <1>1, <2>2, StatusOutcome, PollOutcome
         DEF StaysAt, ToNext, ReturnsDone, ReturnsElse
    <3>2. QED
      BY <1>3, <2>2, <3>1 DEF UnixOK, UnixTypeOK
  <2>3. QED
    BY <2>1, <2>2
<1>5. Verb(c) \in DOMAIN Needed => FirstStep[Verb(c)] \in StepsOf[Verb(c)] /\ FirstStep[Verb(c)] # "none"
  BY DEF FirstStep, StepsOf, Needed
<1>6. pc[c] = "check" => Verb(c) \in DOMAIN Needed
  BY <1>1, VerbIsNeeded
<1>7. UnixTypeOK'
  BY <1>1, <1>2, <1>3, <1>4, <1>5, <1>6 DEF UnixTypeOK, Proceeds
<1>8. ASSUME NEW d \in Clients PROVE AtStep(d)'
  <2>1. CASE d = c
    BY <1>4, <1>5, <1>6, <2>1 DEF AtStep
  <2>2. CASE d # c
    BY <1>3, <1>4, <2>2 DEF AtStep, Verb, Proceeds, UnixOK, UnixInv
  <2>3. QED
    BY <2>1, <2>2
<1>9. QED
  BY <1>1, <1>2, <1>3, <1>4, <1>7, <1>8 DEF UnixOK, UnixInv

LEMMA CallOK ==
  ASSUME UnixOK, NEW c \in Clients, NEW o \in Ops, NEW a \in Arguments(o),
         Invoke(c, o, a[1], a[2]), UNCHANGED <<file, step>>
  PROVE  UnixOK' /\ step[c] = "none"
<1>1. ClientTypeOK /\ \A d \in Clients : ManagerInv(d)
  BY DEF UnixOK, UnixTypeOK, UnixInv
<1>2. a[1] \in Specs \cup {NoSpec} /\ a[2] \in ServiceStatus
  BY DEF Arguments, ServiceStatus
<1>3. ClientTypeOK' /\ \A d \in Clients : ManagerInv(d)'
  BY <1>1, <1>2, InvokeTyped, InvokeInv
<1>4. /\ pc[c] = "idle" /\ pc'[c] # "act" /\ leg' = leg
      /\ \A d \in Clients \ {c} : pc'[d] = pc[d] /\ op'[d] = op[d]
  BY <1>1, InvokeOutcome
<1>5. UnixTypeOK' /\ step[c] = "none"
  BY <1>3, <1>4 DEF UnixOK, UnixTypeOK
<1>6. ASSUME NEW d \in Clients PROVE AtStep(d)'
  BY <1>4 DEF AtStep, Verb, UnixOK, UnixInv
<1>7. QED
  BY <1>3, <1>5, <1>6 DEF UnixOK, UnixInv

LEMMA DieOK ==
  ASSUME UnixOK, NEW C, DieUnix(C)
  PROVE  /\ UnixOK' /\ file' = file
         /\ \A d \in Clients : step'[d] = IF d \in C THEN "none" ELSE step[d]
<1>1. ClientTypeOK /\ (\A d \in Clients : ManagerInv(d)) /\ Die(C)
  BY DEF UnixOK, UnixTypeOK, UnixInv, DieUnix, DieAtStep
<1>2. ClientTypeOK' /\ \A d \in Clients : ManagerInv(d)'
  BY <1>1, DieTyped, DieInv
<1>3. /\ file' = file /\ op' = op
      /\ \A d \in Clients : /\ step'[d] = IF d \in C THEN "none" ELSE step[d]
                            /\ pc'[d] = IF d \in C THEN "idle" ELSE pc[d]
                            /\ leg'[d] = IF d \in C THEN 1 ELSE leg[d]
  BY DEF DieUnix, DieAtStep, Die
<1>4. UnixTypeOK'
  BY <1>2, <1>3 DEF UnixOK, UnixTypeOK, DieUnix, DieAtStep
<1>5. ASSUME NEW d \in Clients PROVE AtStep(d)'
  BY <1>3 DEF AtStep, Verb, UnixOK, UnixInv
<1>6. QED
  BY <1>2, <1>3, <1>4, <1>5 DEF UnixOK, UnixInv

LEMMA QuietOK ==
  ASSUME UnixOK, UNCHANGED <<clientVars, file, step>>
  PROVE  UnixOK'
<1>1. /\ pc' = pc /\ ClientTypeOK' /\ \A d \in Clients : ManagerInv(d)'
  BY ClientsUnchanged DEF clientVars, UnixOK, UnixTypeOK, UnixInv
<1>2. QED
  BY <1>1, ClientsUnchanged DEF UnixOK, UnixTypeOK, UnixInv, AtStep

LEMMA UnixInitOK == UnixInit => UnixOK
<1>1. SUFFICES ASSUME UnixInit PROVE UnixOK
  OBVIOUS
<1>2. ClientTypeOK /\ \A d \in Clients : ManagerInv(d) /\ pc[d] = "idle"
  BY <1>1, ClientInitInv DEF UnixInit, ClientInit
<1>3. QED
  BY <1>1, <1>2 DEF UnixInit, StepInit, UnixOK, UnixTypeOK, UnixInv, AtStep, Files

-----------------------------------------------------------------------------
(* The shared steps of install and uninstall, each with what it does to the  *)
(* file and where it leads.                                                  *)
LEMMA FileStepOK ==
  ASSUME UnixOK, NEW c \in Clients,
         OpenFile(c) \/ WriteFileFails(c) \/ RemoveFile(c) \/ FailStep(c)
  PROVE  /\ UnixOK'
         /\ \A d \in Clients \ {c} : step'[d] = step[d]
         /\ \/ OpenFile(c) /\ step[c] = "open" /\ step'[c] = "write"
            \/ \E r \in {Done, Failed} :
                 /\ Finish(c, r) /\ step'[c] = "none" /\ step[c] # "none"
                 /\ r = Done => RemoveFile(c)
<1>1. CASE OpenFile(c)
  <2>1. pc[c] = "act" /\ Verb(c) = "install" /\ file' \in Files
    BY <1>1, WriterHasSpec, FilesTyped DEF OpenFile
  <2>2. "write" \in StepsOf[Verb(c)]
    BY <2>1 DEF StepsOf
  <2>3. QED
    BY <1>1, <2>1, <2>2, ThenOK DEF OpenFile, Then, UnixOK, UnixTypeOK
<1>2. CASE WriteFileFails(c) \/ RemoveFile(c) \/ FailStep(c)
  <2>1. file' \in Files
    BY <1>2, FilesTyped DEF FailStep, UnixOK, UnixTypeOK
  <2>2. PICK r \in {Done, Failed} : Finish(c, r) /\ (r = Done => RemoveFile(c))
    BY <1>2, AnswersTyped DEF WriteFileFails, RemoveFile, FailStep
  <2>3. QED
    BY <2>1, <2>2, FinishOK
<1>3. QED
  BY <1>1, <1>2

LEMMA WriteStepOK ==
  ASSUME UnixOK, NEW c \in Clients, WriteFile(c), Then(c, "load") \/ Finish(c, Done)
  PROVE  /\ UnixOK' /\ step'[c] \in {"load", "none"}
         /\ \A d \in Clients \ {c} : step'[d] = step[d]
<1>1. pc[c] = "act" /\ Verb(c) = "install" /\ file' \in Files
  BY WriterHasSpec, FilesTyped DEF WriteFile
<1>2. CASE Then(c, "load")
  <2>1. "load" \in StepsOf[Verb(c)]
    BY <1>1 DEF StepsOf
  <2>2. QED
    BY <1>1, <1>2, <2>1, ThenOK DEF Then, UnixOK, UnixTypeOK
<1>3. CASE Finish(c, Done)
  BY <1>1, <1>3, FinishOK
<1>4. QED
  BY <1>2, <1>3

-----------------------------------------------------------------------------
(* How many commands of its method a client has ahead at each step, and how  *)
(* many steps of its own it is from the end of its call, at most.            *)
Ahead   == [open |-> 3, write |-> 2, load |-> 1, unload |-> 2, remove |-> 1,
            start |-> 1, stop |-> 1, none |-> 1]
Togo(c) == Left(c, Ahead[step[c]])

LEMMA AheadTyped ==
  /\ UnixOK => \A d \in Clients : Ahead[step[d]] \in 1..4
  /\ UnixOK' => \A d \in Clients : Ahead[step'[d]] \in 1..4
<1>1. ASSUME NEW s \in {"none", "open", "write", "load", "unload", "remove",
                        "start", "stop"}
      PROVE  Ahead[s] \in 1..4
  BY <1>1 DEF Ahead
<1>2. QED
  BY <1>1 DEF UnixOK, UnixTypeOK

(* Never more than the bound, and nothing exactly when there is no call. *)
Bounded == \A c \in Clients : /\ Togo(c) \in 0..(2 * MaxPolls + 13)
                              /\ Togo(c) = 0 <=> pc[c] = "idle"

LEMMA TogoTyped == UnixOK => Bounded
  BY AheadTyped, LeftTyped DEF UnixOK, UnixTypeOK, Togo, Bounded

LEMMA TogoTypedNext == UnixOK' => Bounded'
  BY TogoTyped, PTL

(* A step of c brings its call nearer to its end; it lengthens no other.     *)
Nearer(c) == /\ Togo(c)' < Togo(c)
             /\ \A d \in Clients \ {c} : Togo(d)' = Togo(d)

LEMMA AskNearer ==
  ASSUME UnixOK, NEW c \in Clients, NEW r \in Answers,
         \/ CheckUnix(c, r)
         \/ (Status(c, r) \/ Poll(c, r)) /\ UNCHANGED <<file, step>>
  PROVE  Nearer(c)
<1>1. UnixOK' /\ Asks(c, r) /\ \A d \in Clients \ {c} : step'[d] = step[d]
  BY AskOK
<1>2. /\ ClientTypeOK /\ ClientTypeOK'
      /\ \A d \in Clients : Ahead[step[d]] \in 1..4 /\ Ahead[step'[d]] \in 1..4
  BY <1>1, AheadTyped DEF UnixOK, UnixTypeOK
<1>3. QED
  BY <1>1, <1>2, StepShortens DEF Nearer, Togo

LEMMA ActNearer ==
  ASSUME UnixOK, UnixOK', NEW c \in Clients,
         \/ \E r \in {Done, Failed} : Finish(c, r)
         \/ \E s : Then(c, s) /\ Ahead[s] < Ahead[step[c]]
  PROVE  Nearer(c)
<1>1. /\ ClientTypeOK /\ ClientTypeOK'
      /\ \A d \in Clients : Ahead[step[d]] \in 1..4 /\ Ahead[step'[d]] \in 1..4
  BY AheadTyped DEF UnixOK, UnixTypeOK
<1>2. \A d \in Clients \ {c} : step'[d] = step[d]
  BY DEF Then, Finish, UnixOK, UnixTypeOK
<1>3. ASSUME NEW s, Then(c, s), Ahead[s] < Ahead[step[c]]
      PROVE  /\ pc[c] = "act" /\ UNCHANGED clientVars
             /\ Ahead[step'[c]] < Ahead[step[c]]
  BY <1>3 DEF Then, UnixOK, UnixTypeOK
<1>4. QED
  BY <1>1, <1>2, <1>3, StepShortens DEF Nearer, Togo, Finish

(* A new call, a crash and whatever else happens lengthen none either.       *)
LEMMA CallNoLonger ==
  ASSUME UnixOK, NEW c \in Clients, NEW o \in Ops, NEW s, NEW w,
         Invoke(c, o, s, w), UNCHANGED step
  PROVE  \A d \in Clients : pc[d] # "idle" => Togo(d)' = Togo(d)
  BY AheadTyped, CallLeaves DEF Togo, UnixOK, UnixTypeOK

LEMMA DieNoLonger ==
  ASSUME UnixOK, NEW C, DieUnix(C)
  PROVE  \A d \in Clients : Togo(d)' = Togo(d) \/ Togo(d)' = 0
  BY AheadTyped, DieLeaves DEF Togo, UnixOK, UnixTypeOK, DieUnix

LEMMA QuietNoLonger ==
  ASSUME UNCHANGED <<clientVars, step>>
  PROVE  \A d \in Clients : Togo(d)' = Togo(d)
  BY QuietLeaves DEF Togo

=============================================================================
