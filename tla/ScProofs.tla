------------------------------- MODULE ScProofs -------------------------------
(***************************************************************************)
(* Sc for any methods and ServiceSpecs: first with any number of clients,  *)
(* then with one client at a time.                                         *)
(***************************************************************************)
EXTENDS Sc, UniServiceManagerProofs, Integers

(* The inductive invariant, in four parts.  The clients: who acts is at a    *)
(* step of its leg's verb...                                                *)
StepsOf == [install |-> Tasks, start |-> {"start"}, stop |-> {"stop"},
            uninstall |-> IF UserService THEN {"find", "delete_instance", "delete"}
                                         ELSE {"delete"}]

AtStep(c) == pc[c] = "act" => step[c] \in StepsOf[Verb(c)]

StepOK ==
  /\ ClientTypeOK /\ step \in [Clients -> Steps \cup {"none"}]
  /\ \A c \in Clients : /\ step[c] # "none" <=> pc[c] = "act"
                        /\ ManagerInv(c) /\ AtStep(c)

(* ...the SCM: a system service is there if and only if its entry is, and   *)
(* without a process nobody waits for the end of one...                     *)
ScmOK ==
  /\ service \in Service \cup {NoService}
  /\ state \in Active \cup {"Stopped", "absent"}
  /\ marked \in BOOLEAN /\ due \in BOOLEAN
  /\ marked => state \in Active
  /\ due => state = "Stopped"
  /\ ~UserService => (service = NoService <=> state = "absent")

WatchOK ==
  /\ fresh \in [Clients -> BOOLEAN] /\ ended \in [Clients -> BOOLEAN]
  /\ state \notin Active => \A c \in Clients : ended[c]

(* ...status(): once its first query has been in vain there is no instance   *)
(* until the client dies with its session...                                *)
AskedOK ==
  /\ asked \in [Clients -> BOOLEAN]
  /\ \A c \in Clients : asked[c] => UserService /\ Asking(c) /\ state = "absent"

(* ...and what the methods have seen done: who polls after starting the      *)
(* service has had a process started, and a method that is to stop the       *)
(* service comes to its second leg only when the process that it found has   *)
(* ended.                                                                    *)
Started(c) == (/\ pc[c] = "poll" /\ op[c] \in Starters
               /\ leg[c] >= Len(Legs[op[c]])) => fresh[c]
HasStopped(c) == leg[c] = 2 /\ op[c] \in Stoppers => ended[c]

Inv == /\ StepOK /\ ScmOK /\ WatchOK /\ AskedOK
       /\ \A c \in Clients : Started(c) /\ HasStopped(c)

LEMMA InvTyped == Inv => TypeOK
  BY DEF Inv, StepOK, ScmOK, WatchOK, AskedOK, TypeOK

(* Only a new call makes an observer forget. *)
Remembers == \A d \in Clients : /\ fresh[d] => fresh'[d]
                                /\ ended[d] => ended'[d]

(* A client does nothing, or dies. *)
Untouched(d) ==
  /\ op'[d] = op[d]
  /\ \/ pc'[d] = pc[d] /\ leg'[d] = leg[d]
     \/ pc'[d] = "idle" /\ leg'[d] = 1

LEMMA UntouchedInv ==
  ASSUME NEW d \in Clients, Started(d), HasStopped(d), Untouched(d), Remembers
  PROVE  Started(d)' /\ HasStopped(d)'
  BY DEF Started, HasStopped, Untouched, Remembers

-----------------------------------------------------------------------------
(* The clients' part. *)

LEMMA VerbOfStep ==
  ASSUME StepOK, NEW c \in Clients, pc[c] = "act"
  PROVE  /\ Verb(c) \in {"install", "uninstall", "start", "stop"}
         /\ Verb(c) = "install" <=> step[c] \in Tasks
         /\ Verb(c) = "uninstall" <=> step[c] \in {"find", "delete_instance", "delete"}
         /\ Verb(c) = "start" <=> step[c] = "start"
         /\ Verb(c) = "stop"  <=> step[c] = "stop"
         /\ step[c] \in {"find", "delete_instance"} => UserService
<1>1. Verb(c) \in {"install", "uninstall", "start", "stop"}
  BY VerbIsNeeded DEF Needed, StepOK
<1>2. step[c] \in StepsOf[Verb(c)]
  BY DEF StepOK, AtStep
<1>3. QED
  BY <1>1, <1>2 DEF StepsOf, Tasks

LEMMA InstallerHasSpec ==
  ASSUME StepOK, NEW c \in Clients, step[c] \in Tasks
  PROVE  pc[c] = "act" /\ Verb(c) = "install" /\ spec[c] \in Specs
<1>1. pc[c] = "act" /\ ClientTypeOK /\ ManagerInv(c)
  BY DEF StepOK, Tasks
<1>2. Verb(c) = "install"
  BY <1>1, VerbOfStep
<1>3. Installs(op[c])
  BY <1>1, <1>2 DEF ClientTypeOK, Installs, Verb
<1>4. QED
  BY <1>1, <1>2, <1>3 DEF ManagerInv, HasSpec

LEMMA ClientsUnchanged ==
  ASSUME UNCHANGED clientVars
  PROVE  /\ ClientTypeOK => ClientTypeOK'
         /\ \A d \in Clients : /\ ManagerInv(d) => ManagerInv(d)'
                               /\ Verb(d)' = Verb(d)
  BY DEF clientVars, ClientTypeOK, ManagerInv, HasSpec, Waits, Expected, Verb

LEMMA ThenOK ==
  ASSUME StepOK, NEW c \in Clients, NEW s \in Steps, Then(c, s),
         s \in StepsOf[Verb(c)]
  PROVE  StepOK' /\ step'[c] = s /\ UNCHANGED clientVars
<1>1. /\ UNCHANGED clientVars /\ pc' = pc /\ pc[c] = "act" /\ s # "none"
      /\ step' = [step EXCEPT ![c] = s]
  BY DEF Then, clientVars, Steps, Tasks
<1>2. ClientTypeOK' /\ \A d \in Clients : ManagerInv(d)'
  BY <1>1, ClientsUnchanged DEF StepOK
<1>3. ASSUME NEW d \in Clients
      PROVE  AtStep(d)' /\ (step'[d] # "none" <=> pc'[d] = "act")
  BY <1>1, ClientsUnchanged DEF AtStep, StepOK
<1>4. QED
  BY <1>1, <1>2, <1>3 DEF StepOK

LEMMA FinishOK ==
  ASSUME StepOK, NEW c \in Clients, NEW r \in {Done, Failed}, Finish(c, r)
  PROVE  StepOK' /\ step'[c] = "none" /\ Proceeds(c)
<1>1. ClientTypeOK /\ (\A d \in Clients : ManagerInv(d)) /\ Acted(c, r)
  BY DEF StepOK, Finish
<1>2. ClientTypeOK' /\ \A d \in Clients : ManagerInv(d)'
  BY <1>1, AnswersTyped, ActedTyped, ActedInv
<1>3. Proceeds(c) /\ pc[c] = "act" /\ pc'[c] # "act"
  BY <1>1, ActedOutcome DEF StaysAt, ReturnsDone, ReturnsElse
<1>4. step' = [step EXCEPT ![c] = "none"]
  BY DEF Finish
<1>5. ASSUME NEW d \in Clients
      PROVE  AtStep(d)' /\ (step'[d] # "none" <=> pc'[d] = "act")
  <2>1. CASE d = c
    BY <1>3, <1>4, <2>1 DEF AtStep, StepOK
  <2>2. CASE d # c
    BY <1>3, <1>4, <2>2 DEF AtStep, Verb, Proceeds, StepOK
  <2>3. QED
    BY <2>1, <2>2
<1>6. QED
  BY <1>2, <1>3, <1>4, <1>5 DEF StepOK

(* A status query admits a client to the first step of its verb. *)
LEMMA AnswerOK ==
  ASSUME StepOK, NEW c \in Clients, NEW r \in Answers, Answer(c, r)
  PROVE  /\ StepOK' /\ Asks(c, r) /\ Proceeds(c)
         /\ step[c] = "none"
         /\ \/ step'[c] = "none" /\ pc'[c] # "act"
            \/ /\ pc[c] = "check" /\ pc'[c] = "act" /\ Verb(c)' = Verb(c)
               /\ r = Ok(Needed[Verb(c)]) /\ step'[c] = FirstStep[Verb(c)]
<1>1. /\ ClientTypeOK /\ (\A d \in Clients : ManagerInv(d))
      /\ Asks(c, r) /\ r # Done
      /\ \A d \in Clients : step[d] # "none" <=> pc[d] = "act"
  BY AnswersTyped DEF StepOK, Answer, CheckFrom, Asks
<1>2. ClientTypeOK' /\ \A d \in Clients : ManagerInv(d)'
  BY <1>1, AsksTyped
<1>3. Proceeds(c) /\ pc[c] # "act" /\ step[c] = "none"
  BY <1>1, AsksOutcome
<1>4. pc[c] = "check" =>
        /\ Verb(c) \in {"install", "uninstall", "start", "stop"}
        /\ FirstStep[Verb(c)] \in StepsOf[Verb(c)] /\ FirstStep[Verb(c)] \in Steps
        /\ FirstStep[Verb(c)] # "none"
  <2>1. pc[c] = "check" => Verb(c) \in {"install", "uninstall", "start", "stop"}
    BY <1>1, VerbIsNeeded DEF Needed
  <2>2. QED
    BY <2>1 DEF FirstStep, StepsOf, Steps, Tasks
<1>5. /\ \A d \in Clients \ {c} : step'[d] = step[d]
      /\ \/ step'[c] = "none" /\ pc'[c] # "act"
         \/ /\ pc[c] = "check" /\ pc'[c] = "act" /\ Verb(c)' = Verb(c)
            /\ r = Ok(Needed[Verb(c)]) /\ step'[c] = FirstStep[Verb(c)]
      /\ step' \in [Clients -> Steps \cup {"none"}]
  <2>1. CASE CheckFrom(c, r, FirstStep)
    <3>1. Check(c, r) /\ pc[c] = "check"
      BY <2>1 DEF CheckFrom, Check
    <3>2. CASE pc'[c] = "act"
      <4>1. Admitted(c, r) /\ leg'[c] = leg[c]
        BY <1>1, <3>1, <3>2, CheckOutcome DEF StaysAt, ToNext, ReturnsElse
      <4>2. Verb(c)' = Verb(c)
        BY <1>3, <4>1 DEF Verb, Proceeds
      <4>3. step' = [step EXCEPT ![c] = FirstStep[Verb(c)]]
        BY <2>1, <3>2 DEF CheckFrom
      <4>4. QED
        BY <1>4, <3>1, <3>2, <4>1, <4>2, <4>3 DEF Admitted, StepOK
    <3>3. CASE pc'[c] # "act"
      BY <1>3, <2>1, <3>3 DEF CheckFrom, StepOK
    <3>4. QED
      BY <3>2, <3>3
  <2>2. CASE (Status(c, r) \/ Poll(c, r)) /\ UNCHANGED step
    <3>1. pc'[c] # "act"
      BY <1>1, <2>2, StatusOutcome, PollOutcome
         DEF StaysAt, ToNext, ReturnsDone, ReturnsElse
    <3>2. QED
      BY <1>3, <2>2, <3>1 DEF StepOK
  <2>3. QED
    BY <2>1, <2>2 DEF Answer
<1>6. ASSUME NEW d \in Clients
      PROVE  AtStep(d)' /\ (step'[d] # "none" <=> pc'[d] = "act")
  <2>1. CASE d = c
    BY <1>4, <1>5, <2>1 DEF AtStep
  <2>2. CASE d # c
    BY <1>1, <1>3, <1>5, <2>2 DEF AtStep, Verb, Proceeds, StepOK
  <2>3. QED
    BY <2>1, <2>2
<1>7. QED
  BY <1>1, <1>2, <1>3, <1>5, <1>6 DEF StepOK

LEMMA InvokeOK ==
  ASSUME StepOK, NEW c \in Clients, NEW o \in Ops, NEW a \in Arguments(o),
         Invoke(c, o, a[1], a[2]), UNCHANGED step
  PROVE  StepOK' /\ step[c] = "none"
<1>1. ClientTypeOK /\ \A d \in Clients : ManagerInv(d)
  BY DEF StepOK
<1>2. a[1] \in Specs \cup {NoSpec} /\ a[2] \in ServiceStatus
  BY DEF Arguments, ServiceStatus
<1>3. ClientTypeOK' /\ \A d \in Clients : ManagerInv(d)'
  BY <1>1, <1>2, InvokeTyped, InvokeInv
<1>4. /\ pc[c] = "idle" /\ pc'[c] # "act" /\ leg' = leg
      /\ \A d \in Clients \ {c} : pc'[d] = pc[d] /\ op'[d] = op[d]
  BY <1>1, InvokeOutcome
<1>5. ASSUME NEW d \in Clients
      PROVE  AtStep(d)' /\ (step'[d] # "none" <=> pc'[d] = "act")
  BY <1>4 DEF AtStep, Verb, StepOK
<1>6. QED
  BY <1>3, <1>4, <1>5 DEF StepOK

LEMMA DieOK ==
  ASSUME StepOK, NEW C, DieAtStep(C)
  PROVE  /\ StepOK' /\ \A d \in Clients : Untouched(d)
         /\ \A d \in Clients :
              IF d \in C THEN step'[d] = "none"
              ELSE step'[d] = step[d] /\ pc'[d] = pc[d] /\ spec'[d] = spec[d]
<1>1. ClientTypeOK /\ (\A d \in Clients : ManagerInv(d)) /\ Die(C)
  BY DEF StepOK, DieAtStep
<1>2. ClientTypeOK' /\ \A d \in Clients : ManagerInv(d)'
  BY <1>1, DieTyped, DieInv
<1>3. /\ op' = op
      /\ \A d \in Clients : /\ step'[d] = IF d \in C THEN "none" ELSE step[d]
                            /\ pc'[d] = IF d \in C THEN "idle" ELSE pc[d]
                            /\ leg'[d] = IF d \in C THEN 1 ELSE leg[d]
                            /\ d \notin C => spec'[d] = spec[d]
      /\ step' \in [Clients -> Steps \cup {"none"}]
  BY DEF DieAtStep, Die, StepOK
<1>4. ASSUME NEW d \in Clients
      PROVE  AtStep(d)' /\ (step'[d] # "none" <=> pc'[d] = "act")
  BY <1>3 DEF AtStep, Verb, StepOK
<1>5. QED
  BY <1>2, <1>3, <1>4 DEF StepOK, Untouched

LEMMA QuietOK ==
  ASSUME StepOK, UNCHANGED <<clientVars, step>>
  PROVE  StepOK' /\ \A d \in Clients : Untouched(d)
<1>1. /\ pc' = pc /\ leg' = leg /\ op' = op
      /\ ClientTypeOK' /\ \A d \in Clients : ManagerInv(d)'
  BY ClientsUnchanged DEF clientVars, StepOK
<1>2. QED
  BY <1>1, ClientsUnchanged DEF StepOK, AtStep, Untouched

-----------------------------------------------------------------------------
(* The SCM's part, step by step. *)

(* What every step but a new session does to what the others have seen. *)
ScmStep ==
  /\ ScmOK' /\ WatchOK' /\ Remembers
  /\ UserService /\ state = "absent" => state' = "absent"

LEMMA SameScm ==
  ASSUME ScmOK, WatchOK, UNCHANGED scmVars
  PROVE  ScmStep
  BY DEF ScmOK, WatchOK, scmVars, ScmStep, Remembers

LEMMA LaunchStarts ==
  ASSUME ScmOK, WatchOK, state = "Stopped", Launch, due' = FALSE,
         UNCHANGED <<service, marked, ended>>
  PROVE  ScmStep /\ state' \in Active /\ \A c \in Clients : fresh'[c]
<1>1. ~marked
  BY DEF ScmOK, Active
<1>2. QED
  BY <1>1 DEF ScmOK, WatchOK, Launch, All, ScmStep, Remembers, Active

LEMMA CreateScm ==
  ASSUME StepOK, ScmOK, WatchOK, NEW c \in Clients, Create(c)
  PROVE  ScmStep
<1>1. spec[c] \in Specs
  BY InstallerHasSpec DEF Create, Tasks
<1>2. service' \in Service /\ service' # NoService
  BY <1>1, ScAssumption DEF Create, Service, Tasks
<1>3. CASE UserService
  BY <1>2, <1>3 DEF Create, ScmOK, WatchOK, ScmStep, Remembers
<1>4. CASE ~UserService
  <2>1. state = "absent" /\ ~marked /\ ~due
    BY <1>4 DEF Create, ScmOK, Active
  <2>2. QED
    BY <1>2, <1>4, <2>1 DEF Create, ScmOK, WatchOK, ScmStep, Remembers, Active
<1>5. QED
  BY <1>3, <1>4

LEMMA ConfigureScm ==
  ASSUME ScmOK, WatchOK, NEW c \in Clients, NEW t \in Tasks, Configure(c, t)
  PROVE  ScmStep /\ service' # NoService
<1>1. service \in Service
  BY DEF Configure, ScmOK
<1>2. service' \in Service /\ service' # NoService
  BY <1>1, ScAssumption DEF Configure, Service
<1>3. QED
  BY <1>2 DEF Configure, ScmOK, WatchOK, ScmStep, Remembers

LEMMA DeleteScm ==
  ASSUME StepOK, ScmOK, WatchOK, NEW c \in Clients,
         DeleteInstance(c) \/ Delete(c)
  PROVE  ScmStep
<1>1. CASE DeleteInstance(c)
  <2>1. UserService
    BY <1>1, VerbOfStep DEF DeleteInstance, Then
  <2>2. QED
    BY <1>1, <2>1 DEF DeleteInstance, ScmOK, WatchOK, ScmStep, Remembers, Active
<1>2. CASE Delete(c)
  <2>1. CASE UserService
    BY <1>2, <2>1 DEF Delete, ScmOK, WatchOK, ScmStep, Remembers, Active
  <2>2. CASE ~UserService
    <3>1. CASE /\ state = "Stopped" /\ service' = NoService
               /\ state' = "absent" /\ due' = FALSE /\ UNCHANGED marked
      <4>1. ~marked
        BY <3>1 DEF ScmOK, Active
      <4>2. QED
        BY <1>2, <2>2, <3>1, <4>1
           DEF Delete, ScmOK, WatchOK, ScmStep, Remembers, Active
    <3>2. CASE /\ state # "Stopped" /\ marked' = TRUE
               /\ UNCHANGED <<service, state, due>>
      <4>1. state \in Active
        BY <1>2, <2>2, <3>2 DEF Delete, ScmOK
      <4>2. QED
        BY <1>2, <2>2, <3>2, <4>1 DEF Delete, ScmOK, WatchOK, ScmStep, Remembers
    <3>3. QED
      BY <1>2, <2>2, <3>1, <3>2 DEF Delete
  <2>3. QED
    BY <2>1, <2>2
<1>3. QED
  BY <1>1, <1>2

LEMMA StopScm ==
  ASSUME ScmOK, WatchOK, NEW c \in Clients, StopService(c)
  PROVE  ScmStep /\ state' \in Active
<1>1. state \in Active /\ state' \in Active /\ state # "Stopped" /\ state # "absent"
  BY DEF StopService, Active
<1>2. state' # "Stopped" /\ state' # "absent"
  BY <1>1 DEF Active
<1>3. QED
  BY <1>1, <1>2 DEF StopService, ScmOK, WatchOK, ScmStep, Remembers

(* What a report of the service leaves: it runs on, it has gone, or it has  *)
(* stopped.                                                                 *)
LEMMA ReportsScm ==
  ASSUME ScmOK, WatchOK, ServiceReports
  PROVE  /\ ScmStep /\ state \in Active
         /\ \/ state' \in Active /\ UNCHANGED <<service, marked>>
            \/ marked /\ Vanish
            \/ ~marked /\ state' = "Stopped" /\ UNCHANGED <<service, marked>>
<1>1. PICK s \in Active \cup {"Stopped"} :
        /\ <<state, s>> \in Reports
        /\ IF s # "Stopped"
           THEN state' = s /\ UNCHANGED <<service, marked, due, ended>>
           ELSE /\ ended' = All(TRUE)
                /\ \/ marked /\ Vanish /\ UNCHANGED due
                   \/ /\ ~marked /\ state' = s
                      /\ UNCHANGED due \/ due' = TRUE
                      /\ UNCHANGED <<service, marked>>
  BY DEF ServiceReports
<1>2. state \in Active /\ ~due /\ fresh' = fresh
  BY <1>1 DEF Reports, Active, ServiceReports, ScmOK
<1>3. state # "absent" /\ state # "Stopped"
  BY <1>2 DEF Active
<1>4. CASE s # "Stopped"
  <2>1. state' \in Active /\ state' # "absent" /\ UNCHANGED <<service, marked, due, ended>>
    BY <1>1, <1>4 DEF Active
  <2>2. QED
    BY <1>2, <1>3, <2>1 DEF ScmOK, WatchOK, ScmStep, Remembers
<1>5. CASE s = "Stopped" /\ marked /\ Vanish /\ UNCHANGED due /\ ended' = All(TRUE)
  <2>1. state' = "absent" /\ "absent" \notin Active
    BY <1>5 DEF Vanish, Active
  <2>2. service' \in Service \cup {NoService}
    BY <1>5 DEF Vanish, ScmOK
  <2>3. QED
    BY <1>2, <1>5, <2>1, <2>2 DEF Vanish, All, ScmOK, WatchOK, ScmStep, Remembers
<1>6. CASE /\ s = "Stopped" /\ ~marked /\ state' = s /\ ended' = All(TRUE)
           /\ UNCHANGED due \/ due' = TRUE
           /\ UNCHANGED <<service, marked>>
  BY <1>2, <1>3, <1>6 DEF All, ScmOK, WatchOK, ScmStep, Remembers
<1>7. QED
  BY <1>1, <1>2, <1>4, <1>5, <1>6

LEMMA RestartScm ==
  ASSUME ScmOK, WatchOK, Restart
  PROVE  ScmOK' /\ WatchOK' /\ Remembers
<1>1. service' \in Service \cup {NoService} /\ marked' = FALSE /\ due' = FALSE /\ ended' = All(TRUE)
  BY DEF Restart, ScmOK
<1>2. CASE service' = NoService /\ state' = "absent" /\ UNCHANGED fresh
  BY <1>1, <1>2 DEF All, ScmOK, WatchOK, Remembers
<1>3. CASE service' # NoService /\ Launch
  BY <1>1, <1>3 DEF Launch, All, ScmOK, WatchOK, Remembers, Active
<1>4. CASE service' # NoService /\ state' = "Stopped" /\ UNCHANGED fresh
  BY <1>1, <1>4 DEF All, ScmOK, WatchOK, Remembers
<1>5. QED
  BY <1>2, <1>3, <1>4 DEF Restart

-----------------------------------------------------------------------------
(* The order of install's tasks. *)

LEMMA LeastTask ==
  ASSUME NEW S \in SUBSET Tasks, S # {}
  PROVE  \E u \in S : \A v \in S : Rank[u] <= Rank[v]
<1>1. CASE "create" \in S
  BY <1>1 DEF Tasks, Rank
<1>2. CASE "create" \notin S /\ "description" \in S
  BY <1>2 DEF Tasks, Rank
<1>3. CASE "create" \notin S /\ "description" \notin S /\ "permissions" \in S
  BY <1>3 DEF Tasks, Rank
<1>4. CASE S = {"actions"}
  BY <1>4 DEF Rank
<1>5. QED
  BY <1>1, <1>2, <1>3, <1>4 DEF Tasks

(* u is the task to do after t. *)
Follows(u, t, s) ==
  /\ u \in Wanted(s) /\ Rank[t] < Rank[u]
  /\ \A v \in Wanted(s) : Rank[v] <= Rank[t] \/ Rank[u] <= Rank[v]

LEMMA ProceedShape ==
  ASSUME NEW c \in Clients, NEW t \in Tasks, Proceed(c, t)
  PROVE  \/ \E u \in Tasks : Follows(u, t, spec[c]) /\ Then(c, u)
         \/ Finish(c, Done) /\ \A v \in Wanted(spec[c]) : Rank[v] <= Rank[t]
<1> DEFINE left == {u \in Wanted(spec[c]) : Rank[u] > Rank[t]}
<1>1. /\ left \in SUBSET Tasks
      /\ \A v \in Tasks : Rank[v] \in Nat
  BY DEF Wanted, Tasks, Rank
<1>2. CASE left = {}
  <2>1. Finish(c, Done)
    BY <1>2 DEF Proceed
  <2>2. ASSUME NEW v \in Wanted(spec[c]) PROVE Rank[v] <= Rank[t]
    BY <1>1, <1>2 DEF Wanted
  <2>3. QED
    BY <2>1, <2>2
<1>3. CASE left # {}
  <2> DEFINE next == CHOOSE u \in left : \A v \in left : Rank[u] <= Rank[v]
  <2>1. next \in left /\ \A v \in left : Rank[next] <= Rank[v]
    BY <1>1, <1>3, LeastTask
  <2>2. Then(c, next)
    BY <1>3 DEF Proceed
  <2>3. Follows(next, t, spec[c])
    BY <1>1, <2>1 DEF Follows, Wanted
  <2>4. QED
    BY <1>1, <2>1, <2>2, <2>3
<1>4. QED
  BY <1>2, <1>3

LEMMA ProceedOK ==
  ASSUME StepOK, NEW c \in Clients, NEW t \in Tasks, step[c] = t, Proceed(c, t)
  PROVE  /\ StepOK' /\ Verb(c) = "install"
         /\ UNCHANGED clientVars \/ Acted(c, Done)
<1>1. pc[c] = "act" /\ Verb(c) = "install"
  BY InstallerHasSpec
<1>2. CASE Finish(c, Done)
  BY <1>1, <1>2, FinishOK DEF Finish
<1>3. ASSUME NEW u \in Tasks, Then(c, u) PROVE StepOK' /\ UNCHANGED clientVars
  BY <1>1, <1>3, ThenOK DEF Steps, StepsOf
<1>4. QED
  BY <1>1, <1>2, <1>3, ProceedShape

-----------------------------------------------------------------------------
(* The actions, one by one. *)

(* A client that acts goes on to its next step, or has acted; and if it was *)
(* to start the service, and did, there is a process started since.         *)
LEMMA ActShape ==
  ASSUME Inv, NEW c \in Clients, Act(c)
  PROVE  /\ StepOK' /\ ScmStep /\ asked' = asked /\ pc[c] = "act"
         /\ \/ UNCHANGED clientVars
            \/ \E r \in {Done, Failed} :
                 /\ Acted(c, r)
                 /\ r = Done /\ Verb(c) = "start" => fresh'[c]
<1>1. StepOK /\ ScmOK /\ WatchOK /\ Failed # Done /\ asked' = asked
  BY AnswersTyped DEF Inv, Act
<1>2. pc[c] = "act" /\ step[c] # "none"
  BY <1>1 DEF Act, Create, FindInstance, DeleteInstance, Delete, StartService,
              StopService, FailStep, Configure, Tasks, StepOK
<1>3. CASE Create(c)
  BY <1>1, <1>2, <1>3, CreateScm, ProceedOK DEF Create, Tasks
<1>4. ASSUME NEW t \in Tasks \ {"create"}, Configure(c, t)
      PROVE  StepOK' /\ ScmStep /\ Verb(c) = "install" /\ (UNCHANGED clientVars \/ Acted(c, Done))
  BY <1>1, <1>2, <1>4, ConfigureScm, ProceedOK DEF Configure
<1>5. CASE FindInstance(c)
  <2>1. UserService /\ Verb(c) = "uninstall"
    BY <1>1, <1>2, <1>5, VerbOfStep DEF FindInstance
  <2>2. PICK s \in {"delete", "delete_instance"} : Then(c, s)
    BY <1>5 DEF FindInstance
  <2>3. StepOK' /\ UNCHANGED clientVars
    BY <1>1, <2>1, <2>2, ThenOK DEF Steps, StepsOf
  <2>4. QED
    BY <1>1, <1>2, <1>5, <2>3, SameScm DEF FindInstance
<1>6. CASE DeleteInstance(c)
  <2>1. Verb(c) = "uninstall" /\ Then(c, "delete")
    BY <1>1, <1>2, <1>6, VerbOfStep DEF DeleteInstance
  <2>2. StepOK' /\ UNCHANGED clientVars
    BY <1>1, <2>1, ThenOK DEF Steps, StepsOf
  <2>3. QED
    BY <1>1, <1>2, <1>6, <2>2, DeleteScm
<1>7. CASE Delete(c)
  <2>1. Verb(c) = "uninstall"
    BY <1>1, <1>2, <1>7, VerbOfStep DEF Delete
  <2>2. StepOK' /\ Acted(c, Done)
    BY <1>1, <1>7, FinishOK DEF Delete, Finish
  <2>3. QED
    BY <1>1, <1>2, <1>7, <2>1, <2>2, DeleteScm
<1>8. CASE StartService(c)
  <2>1. ScmStep /\ fresh'[c]
    BY <1>1, <1>8, LaunchStarts DEF StartService
  <2>2. StepOK' /\ Acted(c, Done)
    BY <1>1, <1>8, FinishOK DEF StartService, Finish
  <2>3. QED
    BY <1>1, <1>2, <2>1, <2>2
<1>9. CASE StopService(c)
  <2>1. Verb(c) = "stop"
    BY <1>1, <1>2, <1>9, VerbOfStep DEF StopService
  <2>2. StepOK' /\ Acted(c, Done)
    BY <1>1, <1>9, FinishOK DEF StopService, Finish
  <2>3. QED
    BY <1>1, <1>2, <1>9, <2>1, <2>2, StopScm
<1>10. CASE FailStep(c)
  <2>1. StepOK' /\ Acted(c, Failed)
    BY <1>1, <1>10, FinishOK DEF FailStep, Finish
  <2>2. QED
    BY <1>1, <1>2, <1>10, <2>1, SameScm DEF FailStep
<1>11. QED
  <2>1. CASE \E t \in Tasks \ {"create"} : Configure(c, t)
    BY <1>1, <1>2, <1>4, <2>1
  <2>2. QED
    BY <1>1, <1>2, <1>3, <1>5, <1>6, <1>7, <1>8, <1>9, <1>10, <2>1, ProceedOK
       DEF Act

(* What a step of client c leaves of what the others know. *)
LEMMA OthersAsked ==
  ASSUME AskedOK, ScmStep, NEW c \in Clients, Proceeds(c) \/ UNCHANGED pc,
         asked' \in [Clients -> BOOLEAN],
         \A d \in Clients : asked'[d] => asked[d] /\ (d = c => UNCHANGED pc)
  PROVE  AskedOK'
  BY DEF AskedOK, ScmStep, Proceeds, Asking

LEMMA ActInv ==
  ASSUME Inv, NEW c \in Clients, Act(c)
  PROVE  Inv'
<1>1. /\ StepOK' /\ ScmOK' /\ WatchOK' /\ Remembers /\ ClientTypeOK
      /\ ScmStep /\ asked' = asked /\ pc[c] = "act" /\ AskedOK
  BY ActShape DEF Inv, StepOK, ScmStep
<1>2. ~asked[c]
  BY <1>1 DEF AskedOK, Asking
<1>3. CASE UNCHANGED clientVars
  <2>1. pc' = pc /\ \A d \in Clients : Untouched(d)
    BY <1>3 DEF clientVars, Untouched
  <2>2. AskedOK'
    BY <1>1, <2>1 DEF AskedOK, Asking, ScmStep
  <2>3. QED
    BY <1>1, <2>1, <2>2, UntouchedInv DEF Inv
<1>4. ASSUME NEW r \in {Done, Failed}, Acted(c, r),
             r = Done /\ Verb(c) = "start" => fresh'[c]
      PROVE  Inv'
  <2>1. Proceeds(c)
    BY <1>1, <1>4, ActedOutcome
  <2>2. Started(c)'
    BY <1>1, <1>4, <2>1, ActedStarts DEF Started, Proceeds
  <2>3. HasStopped(c)'
    <3>1. SUFFICES ASSUME op[c] \in Stoppers, leg'[c] = 2 PROVE ended'[c]
      BY <2>1 DEF HasStopped, Proceeds
    <3>2. leg'[c] = leg[c]
      <4>1. pc'[c] = "idle" => leg'[c] = 1
        BY <1>1 DEF StepOK, ClientTypeOK
      <4>2. QED
        BY <1>1, <1>4, <3>1, <4>1, ActedStops DEF StaysAt, ReturnsElse
    <3>3. QED
      BY <1>1, <3>1, <3>2 DEF Inv, HasStopped, Remembers
  <2>4. \A d \in Clients \ {c} : Untouched(d)
    BY <2>1 DEF Proceeds, Untouched
  <2>5. AskedOK'
    BY <1>1, <1>2, <2>1, OthersAsked DEF AskedOK
  <2>6. QED
    BY <1>1, <2>2, <2>3, <2>4, <2>5, UntouchedInv DEF Inv
<1>5. QED
  BY <1>3, <1>4, ActShape

(* A client that asks for the status is answered, and told that nothing runs *)
(* only when that is so; or it has seen that there is no instance.           *)
TrueToState(r) == r \in {Ok("Stopped"), Ok("NotInstalled")} => state \notin Active

LEMMA AskShape ==
  ASSUME Inv, NEW c \in Clients, AskInstance(c) \/ AskTemplate(c)
  PROVE  /\ UNCHANGED scmVars
         /\ \/ \E r \in Answers : Answer(c, r) /\ TrueToState(r)
            \/ /\ UserService /\ state = "absent" /\ Asking(c)
               /\ asked' = [asked EXCEPT ![c] = TRUE]
               /\ UNCHANGED <<clientVars, step>>
<1>1. /\ Failed \in Answers /\ TrueToState(Failed)
      /\ Ok("Stopped") \in Answers /\ Ok("NotInstalled") \in Answers
      /\ \A s \in Active : Ok(s) \in Answers
  BY DEF Answers, ServiceStatus, Active, TrueToState, Failed, Error, Ok
<1>2. CASE AskTemplate(c)
  <2>1. state = "absent" /\ state \notin Active
    BY <1>2 DEF AskTemplate, Inv, AskedOK, Active
  <2>2. PICK r \in Answers : Answer(c, r)
    BY <1>1, <1>2 DEF AskTemplate, StateOfTemplate
  <2>3. QED
    BY <2>1, <2>2 DEF Answer, TrueToState
<1>3. CASE AskInstance(c)
  <2>1. CASE Answer(c, Ok(StateOfName))
    <3>1. Ok(StateOfName) \in Answers
      BY <1>1 DEF StateOfName, Inv, ScmOK
    <3>2. TrueToState(Ok(StateOfName))
      BY DEF TrueToState, StateOfName, Ok, Active
    <3>3. QED
      BY <2>1, <3>1, <3>2 DEF Answer
  <2>2. CASE Answer(c, Failed)
    BY <1>1, <2>2 DEF Answer
  <2>3. QED
    BY <1>3, <2>1, <2>2 DEF AskInstance
<1>4. QED
  BY <1>2, <1>3

LEMMA AnswerInv ==
  ASSUME Inv, NEW c \in Clients, NEW r \in Answers, Answer(c, r), TrueToState(r)
  PROVE  Inv'
<1>1. /\ UNCHANGED scmVars /\ StepOK /\ ClientTypeOK /\ AskedOK
      /\ ManagerInv(c) /\ Started(c) /\ HasStopped(c)
      /\ asked' = [asked EXCEPT ![c] = FALSE]
  BY DEF Answer, Inv, StepOK
<1>2. StepOK' /\ Asks(c, r) /\ Proceeds(c)
  BY <1>1, AnswerOK
<1>3. ScmStep
  BY SameScm DEF Answer, Inv
<1>4. AskedOK'
  <2>1. asked' \in [Clients -> BOOLEAN] /\ \A d \in Clients : asked'[d] => asked[d] /\ d # c
    BY <1>1 DEF AskedOK
  <2>2. QED
    BY <1>1, <1>2, <1>3, <2>1, OthersAsked
<1>5. Started(c)'
  BY <1>1, <1>2, AsksOutcome DEF Started, Proceeds, scmVars
<1>6. HasStopped(c)'
  <2>1. SUFFICES ASSUME op[c] \in Stoppers, leg'[c] = 2, ~ended[c] PROVE FALSE
    BY <1>1, <1>2 DEF HasStopped, Proceeds, scmVars
  <2>2. r \notin {Ok("Stopped"), Ok("NotInstalled")}
    BY <2>1 DEF TrueToState, Inv, WatchOK
  <2>3. pc'[c] = "idle" => leg'[c] = 1
    BY <1>2 DEF StepOK, ClientTypeOK
  <2>4. leg'[c] = leg[c]
    BY <1>1, <1>2, <2>1, <2>2, <2>3, AsksStops
  <2>5. QED
    BY <1>1, <2>1, <2>4 DEF HasStopped
<1>7. \A d \in Clients \ {c} : Untouched(d)
  BY <1>2 DEF Proceeds, Untouched
<1>8. QED
  BY <1>2, <1>3, <1>4, <1>5, <1>6, <1>7, UntouchedInv DEF Inv, ScmStep

LEMMA AskInv ==
  ASSUME Inv, NEW c \in Clients, AskInstance(c) \/ AskTemplate(c)
  PROVE  Inv'
<1>1. CASE \E r \in Answers : Answer(c, r) /\ TrueToState(r)
  BY <1>1, AnswerInv
<1>2. CASE /\ UserService /\ state = "absent" /\ Asking(c)
           /\ asked' = [asked EXCEPT ![c] = TRUE]
           /\ UNCHANGED <<clientVars, step, scmVars>>
  <2>1. StepOK' /\ \A d \in Clients : Untouched(d)
    BY <1>2, QuietOK DEF Inv
  <2>2. ScmOK' /\ WatchOK' /\ Remembers
    BY <1>2, SameScm DEF Inv, ScmStep
  <2>3. AskedOK'
    BY <1>2 DEF Inv, AskedOK, Asking, clientVars, scmVars
  <2>4. QED
    BY <2>1, <2>2, <2>3, UntouchedInv DEF Inv
<1>3. QED
  BY <1>1, <1>2, AskShape

LEMMA CallInv ==
  ASSUME Inv, NEW c \in Clients, Call(c)
  PROVE  Inv'
<1>1. PICK o \in Ops : \E a \in Arguments(o) : Invoke(c, o, a[1], a[2])
  BY DEF Call
<1>2. PICK a \in Arguments(o) : Invoke(c, o, a[1], a[2])
  BY <1>1
<1>3. ClientTypeOK /\ StepOK /\ ScmOK /\ WatchOK /\ AskedOK
  BY DEF Inv, StepOK
<1>4. /\ pc[c] = "idle" /\ op'[c] = o /\ leg' = leg /\ leg[c] = 1
      /\ pc'[c] = "poll" => o = "wait_for_status"
      /\ \A d \in Clients \ {c} : pc'[d] = pc[d] /\ op'[d] = op[d]
  BY <1>2, <1>3, InvokeOutcome
<1>5. StepOK'
  BY <1>2, <1>3, InvokeOK DEF Call
<1>6. ScmOK' /\ WatchOK'
  BY <1>3 DEF ScmOK, WatchOK, Call
<1>7. AskedOK'
  BY <1>3, <1>4 DEF AskedOK, Asking, Call
<1>8. Started(c)' /\ HasStopped(c)'
  BY <1>4 DEF Started, HasStopped, Starters
<1>9. \A d \in Clients \ {c} : Started(d)' /\ HasStopped(d)'
  <2>1. \A d \in Clients \ {c} : fresh'[d] = fresh[d] /\ ended'[d] = ended[d]
    BY <1>3 DEF Call, WatchOK
  <2>2. QED
    BY <1>4, <2>1 DEF Inv, Started, HasStopped
<1>10. QED
  BY <1>5, <1>6, <1>7, <1>8, <1>9 DEF Inv

(* What the service, the SCM and the machine do by themselves. *)
LEMMA SystemInv ==
  ASSUME Inv,
         ServiceReports \/ ServiceRestarts \/ Restart \/ \E c \in Clients : Crash(c)
  PROVE  Inv'
<1>1. StepOK /\ ScmOK /\ WatchOK /\ AskedOK
  BY DEF Inv
<1>2. CASE ServiceReports \/ ServiceRestarts
  <2>1. ScmStep
    <3>1. CASE ServiceRestarts
      BY <1>1, <3>1, LaunchStarts DEF ServiceRestarts, ScmOK
    <3>2. QED
      BY <1>1, <1>2, <3>1, ReportsScm
  <2>2. UNCHANGED <<clientVars, step, asked>>
    BY <1>2 DEF ServiceReports, ServiceRestarts
  <2>3. StepOK' /\ \A d \in Clients : Untouched(d)
    BY <1>1, <2>2, QuietOK
  <2>4. AskedOK'
    BY <1>1, <2>1, <2>2 DEF AskedOK, Asking, clientVars, ScmStep
  <2>5. QED
    BY <2>1, <2>3, <2>4, UntouchedInv DEF Inv, ScmStep
<1>3. ASSUME NEW c \in Clients, Crash(c) PROVE Inv'
  <2>1. ScmStep
    BY <1>1, <1>3, SameScm DEF Crash
  <2>2. /\ StepOK' /\ \A d \in Clients : Untouched(d)
        /\ \A d \in Clients \ {c} : pc'[d] = pc[d]
    BY <1>1, <1>3, DieOK DEF Crash
  <2>3. AskedOK'
    BY <1>1, <1>3, <2>1, <2>2 DEF Crash, AskedOK, Asking, ScmStep
  <2>4. QED
    BY <2>1, <2>2, <2>3, UntouchedInv DEF Inv, ScmStep
<1>4. CASE Restart
  <2>1. ScmOK' /\ WatchOK' /\ Remembers
    BY <1>1, <1>4, RestartScm
  <2>2. StepOK' /\ \A d \in Clients : Untouched(d)
    BY <1>1, <1>4, DieOK DEF Restart
  <2>3. AskedOK'
    BY <1>4 DEF Restart, AskedOK, All
  <2>4. QED
    BY <2>1, <2>2, <2>3, UntouchedInv DEF Inv
<1>5. QED
  BY <1>2, <1>3, <1>4

LEMMA InitInv == Init => Inv
<1>1. SUFFICES ASSUME Init PROVE Inv
  OBVIOUS
<1>2. ClientTypeOK /\ \A d \in Clients : ManagerInv(d)
  BY <1>1, ClientInitInv DEF Init
<1>3. \A c \in Clients : pc[c] = "idle" /\ leg[c] = 1 /\ step[c] = "none"
  BY <1>1 DEF Init, StepInit, ClientInit
<1>4. StepOK
  BY <1>1, <1>2, <1>3 DEF Init, StepInit, StepOK, AtStep
<1>5. ScmOK /\ WatchOK /\ AskedOK
  BY <1>1 DEF Init, All, ScmOK, WatchOK, AskedOK, Active
<1>6. QED
  BY <1>3, <1>4, <1>5 DEF Inv, Started, HasStopped

LEMMA NextInv == Inv /\ [Next]_vars => Inv'
<1>1. SUFFICES ASSUME Inv, [Next]_vars PROVE Inv'
  OBVIOUS
<1>2. ASSUME NEW c \in Clients, Call(c) PROVE Inv'
  BY <1>1, <1>2, CallInv
<1>3. ASSUME NEW c \in Clients, AskInstance(c) \/ AskTemplate(c) PROVE Inv'
  BY <1>1, <1>3, AskInv
<1>4. ASSUME NEW c \in Clients, Act(c) PROVE Inv'
  BY <1>1, <1>4, ActInv
<1>5. CASE ServiceReports \/ ServiceRestarts \/ Restart \/ \E c \in Clients : Crash(c)
  BY <1>1, <1>5, SystemInv
<1>6. CASE UNCHANGED vars
  <2>1. UNCHANGED <<clientVars, step, scmVars, asked>>
    BY <1>6 DEF vars, clientVars, scmVars
  <2>2. StepOK' /\ \A d \in Clients : Untouched(d)
    BY <1>1, <2>1, QuietOK DEF Inv
  <2>3. ScmStep
    BY <1>1, <2>1, SameScm DEF Inv
  <2>4. AskedOK'
    BY <1>1, <2>1 DEF Inv, AskedOK, Asking, clientVars, scmVars
  <2>5. QED
    BY <1>1, <2>2, <2>3, <2>4, UntouchedInv DEF Inv, ScmStep
<1>7. QED
  BY <1>1, <1>2, <1>3, <1>4, <1>5, <1>6 DEF Next, Client

(* However many clients call whatever methods, and wherever they fail, die   *)
(* or are overtaken by the service, the SCM or a new session, every variable *)
(* has a value of its type; only what runs is marked, and only what has      *)
(* stopped is about to be started again.                                     *)
THEOREM TypeCorrect == Spec => []TypeOK
  BY InitInv, NextInv, InvTyped, PTL DEF Spec

-----------------------------------------------------------------------------
(* When a method returns Ok. *)

(* It does so by a step of its client, from a poll or from the platform. *)
LEMMA ReturnsHow ==
  ASSUME Inv, [Next]_vars, NEW c \in Clients, NEW o, Returns(c, o, Done)
  PROVE  /\ ClientTypeOK /\ Remembers /\ op[c] = o
         /\ \/ \E r \in Answers : Asks(c, r) /\ TrueToState(r)
            \/ \E r \in {Done, Failed} :
                 Acted(c, r) /\ (r = Done /\ Verb(c) = "start" => fresh'[c])
<1>1. op[c] = o /\ pc[c] # "idle" /\ pc'[c] = "idle" /\ reply'[c] = Done
  BY DEF Returns
<1>2. ClientTypeOK /\ ~UNCHANGED clientVars
  BY <1>1 DEF Inv, StepOK, clientVars
<1>3. ASSUME NEW d \in Clients, AskInstance(d) \/ AskTemplate(d)
      PROVE  Remembers /\ \E r \in Answers : Asks(c, r) /\ TrueToState(r)
  <2>1. UNCHANGED scmVars /\ \E r \in Answers : Answer(d, r) /\ TrueToState(r)
    BY <1>2, <1>3, AskShape
  <2>2. PICK r \in Answers : Asks(d, r) /\ TrueToState(r)
    BY <2>1 DEF Answer, CheckFrom, Asks
  <2>3. d = c
    BY <1>1, <1>2, <2>2, AsksOutcome DEF Proceeds
  <2>4. QED
    BY <2>1, <2>2, <2>3 DEF scmVars, Remembers
<1>4. ASSUME NEW d \in Clients, Act(d)
      PROVE  /\ Remembers
             /\ \E r \in {Done, Failed} :
                  Acted(c, r) /\ (r = Done /\ Verb(c) = "start" => fresh'[c])
  <2>1. /\ Remembers
        /\ \E r \in {Done, Failed} :
             Acted(d, r) /\ (r = Done /\ Verb(d) = "start" => fresh'[d])
    BY <1>2, <1>4, ActShape DEF ScmStep
  <2>2. d = c
    BY <1>1, <1>2, <2>1, ActedOutcome DEF Proceeds
  <2>3. QED
    BY <2>1, <2>2
<1>5. ASSUME NEW d \in Clients, Call(d) PROVE FALSE
  <2>1. \E p \in Ops : \E a \in Arguments(p) : Invoke(d, p, a[1], a[2])
    BY <1>5 DEF Call
  <2>2. QED
    BY <1>1, <1>2, <2>1, InvokeOutcome
<1>6. ASSUME NEW C, Die(C) PROVE FALSE
  BY <1>1, <1>6, DieOutcome DEF ReturnsElse
<1>7. ~ServiceReports /\ ~ServiceRestarts /\ ~UNCHANGED vars
  BY <1>1 DEF ServiceReports, ServiceRestarts, clientVars, vars
<1>8. QED
  BY <1>1, <1>2, <1>3, <1>4, <1>5, <1>6, <1>7
     DEF Next, Client, Crash, Restart, DieAtStep

(* With any number of clients and any ServiceSpecs: a method that starts the *)
(* service and returns Ok has had a new process started since it was called. *)
THEOREM StartsForReal == Spec => OkMeansStarted
<1>1. Inv /\ [Next]_vars =>
        [\A c \in Clients :
           (\E o \in {"start", "start_and_wait", "install_if_needed_and_start",
                      "restart"} : Returns(c, o, Done)) => fresh'[c]]_vars
  <2>1. SUFFICES ASSUME Inv, [Next]_vars, NEW c \in Clients,
                        NEW o \in Starters, Returns(c, o, Done)
                 PROVE  fresh'[c]
    BY DEF Starters
  <2>2. pc'[c] = "idle" /\ reply'[c] = Done /\ ClientTypeOK /\ op[c] \in Starters
    BY <2>1, ReturnsHow DEF Returns
  <2>3. ASSUME NEW r \in Answers, Asks(c, r) PROVE fresh'[c]
    <3>1. pc[c] = "poll" /\ leg[c] >= Len(Legs[op[c]])
      BY <2>2, <2>3, AsksOutcome
    <3>2. QED
      BY <2>1, <2>2, <3>1, ReturnsHow DEF Inv, Started, Remembers
  <2>4. ASSUME NEW r \in {Done, Failed}, Acted(c, r),
               r = Done /\ Verb(c) = "start" => fresh'[c]
        PROVE  fresh'[c]
    BY <2>2, <2>4, ActedStarts
  <2>5. QED
    BY <2>1, <2>3, <2>4, ReturnsHow
<1>2. QED
  BY InitInv, NextInv, <1>1, PTL DEF Spec, OkMeansStarted

(* With any number of clients and any ServiceSpecs: a method that stops or   *)
(* removes the service, waits, and returns Ok has seen the end of the        *)
(* process that ran when it was called, although sc.exe waits for nothing.   *)
THEOREM StopsForReal == Spec => OkMeansStopped
<1>1. Inv /\ [Next]_vars =>
        [\A c \in Clients :
           (\E o \in {"stop_and_wait", "stop_if_needed_and_uninstall",
                      "uninstall_and_wait", "restart"} : Returns(c, o, Done))
           => ended'[c]]_vars
  <2>1. SUFFICES ASSUME Inv, [Next]_vars, NEW c \in Clients,
                        NEW o \in Stoppers, Returns(c, o, Done)
                 PROVE  ended'[c]
    BY DEF Stoppers
  <2>2. /\ pc'[c] = "idle" /\ reply'[c] = Done /\ ClientTypeOK /\ Remembers
        /\ op[c] \in Stoppers /\ ManagerInv(c) /\ HasStopped(c) /\ WatchOK
    BY <2>1, ReturnsHow DEF Returns, Inv, StepOK
  <2>3. ASSUME NEW r \in Answers, Asks(c, r), TrueToState(r) PROVE ended'[c]
    <3>1. ended[c] \/ leg[c] = 2
      BY <2>2, <2>3, AsksStops DEF TrueToState, WatchOK
    <3>2. QED
      BY <2>2, <3>1 DEF HasStopped, Remembers
  <2>4. ASSUME NEW r \in {Done, Failed}, Acted(c, r) PROVE FALSE
    BY <2>2, <2>4, ActedStops DEF StaysAt, ReturnsElse
  <2>5. QED
    BY <2>1, <2>3, <2>4, ReturnsHow
<1>2. QED
  BY InitInv, NextInv, <1>1, PTL DEF Spec, OkMeansStopped

-----------------------------------------------------------------------------
(* No call goes on for ever, as long as its client goes on.  How many        *)
(* commands of its method a client has ahead at each step, and how many      *)
(* steps of its own it is from the end of its call, at most: a query of the  *)
(* status may take two.                                                      *)
Ahead == [create |-> 4, description |-> 3, permissions |-> 2, actions |-> 1,
          find |-> 3, delete_instance |-> 2, delete |-> 1,
          start |-> 1, stop |-> 1, none |-> 1]

Togo(c) == 2 * Left(c, Ahead[step[c]]) - (IF asked[c] THEN 1 ELSE 0)

(* Never more than the bound, and nothing exactly when there is no call. *)
Bounded == \A c \in Clients : /\ Togo(c) \in 0..(4 * MaxPolls + 26)
                              /\ Togo(c) = 0 <=> pc[c] = "idle"

LEMMA AheadTyped ==
  /\ StepOK => \A d \in Clients : Ahead[step[d]] \in 1..4
  /\ StepOK' => \A d \in Clients : Ahead[step'[d]] \in 1..4
<1>1. ASSUME NEW s \in Steps \cup {"none"} PROVE Ahead[s] \in 1..4
  BY <1>1 DEF Ahead, Steps, Tasks
<1>2. QED
  BY <1>1 DEF StepOK

LEMMA LeftNat ==
  Inv => \A d \in Clients :
           /\ Left(d, Ahead[step[d]]) \in 0..(2 * MaxPolls + 13)
           /\ Left(d, Ahead[step[d]]) \in Nat
           /\ Left(d, Ahead[step[d]]) = 0 <=> pc[d] = "idle"
           /\ asked[d] => Left(d, Ahead[step[d]]) # 0
<1>1. SUFFICES ASSUME Inv, NEW d \in Clients
               PROVE  /\ Left(d, Ahead[step[d]]) \in 0..(2 * MaxPolls + 13)
                      /\ Left(d, Ahead[step[d]]) \in Nat
                      /\ Left(d, Ahead[step[d]]) = 0 <=> pc[d] = "idle"
                      /\ asked[d] => Left(d, Ahead[step[d]]) # 0
  OBVIOUS
<1>2. ClientTypeOK /\ Ahead[step[d]] \in 1..4 /\ (asked[d] => pc[d] # "idle")
  BY <1>1, AheadTyped DEF Inv, StepOK, AskedOK, Asking
<1>3. /\ Left(d, Ahead[step[d]]) \in 0..(2 * MaxPolls + 13)
      /\ Left(d, Ahead[step[d]]) = 0 <=> pc[d] = "idle"
  BY <1>2, LeftTyped
<1>4. QED
  BY <1>2, <1>3, ManagerAssumption

LEMMA LeftNatNext ==
  Inv' => (\A d \in Clients : Left(d, Ahead[step[d]]) \in Nat)'
<1>1. Inv => \A d \in Clients : Left(d, Ahead[step[d]]) \in Nat
  BY LeftNat
<1>2. QED
  BY <1>1, PTL

LEMMA Doubled ==
  ASSUME NEW M \in Nat, NEW n \in 0..(2 * M + 13), NEW b \in {0, 1}, b = 1 => n # 0
  PROVE  2 * n - b \in 0..(4 * M + 26) /\ (2 * n - b = 0 <=> n = 0)
<1>1. 2 * n - b >= 0 /\ 2 * n - b <= 4 * M + 26 /\ 2 * n - b \in Int
  OBVIOUS
<1>2. 2 * n - b = 0 <=> n = 0
  OBVIOUS
<1>3. QED
  BY <1>1, <1>2

LEMMA TogoTyped == Inv => Bounded
<1>1. SUFFICES ASSUME Inv, NEW c \in Clients
               PROVE  /\ Togo(c) \in 0..(4 * MaxPolls + 26)
                      /\ Togo(c) = 0 <=> pc[c] = "idle"
  BY DEF Bounded
<1>2. /\ Left(c, Ahead[step[c]]) \in 0..(2 * MaxPolls + 13) /\ MaxPolls \in Nat
      /\ Left(c, Ahead[step[c]]) = 0 <=> pc[c] = "idle"
      /\ asked[c] => Left(c, Ahead[step[c]]) # 0
  BY <1>1, LeftNat, ManagerAssumption
<1>3. CASE asked[c]
  <2>1. Togo(c) = 2 * Left(c, Ahead[step[c]]) - 1
    BY <1>3 DEF Togo
  <2>2. QED
    BY <1>2, <1>3, <2>1, Doubled
<1>4. CASE ~asked[c]
  <2>1. Togo(c) = 2 * Left(c, Ahead[step[c]]) - 0
    BY <1>4 DEF Togo
  <2>2. QED
    BY <1>2, <1>4, <2>1, Doubled
<1>5. QED
  BY <1>3, <1>4

(* A step of c brings its call nearer to its end; it lengthens no other.     *)
Nearer(c) == /\ Togo(c)' < Togo(c)
             /\ \A d \in Clients \ {c} : Togo(d)' = Togo(d)

(* It does if it leaves fewer commands, or asks for the template.            *)
LEMMA FewerIsNearer ==
  ASSUME Inv, Inv', NEW c \in Clients,
         \A d \in Clients \ {c} :
           /\ Left(d, Ahead[step[d]])' = Left(d, Ahead[step[d]])
           /\ asked'[d] = asked[d],
         \/ Left(c, Ahead[step[c]])' < Left(c, Ahead[step[c]])
         \/ /\ Left(c, Ahead[step[c]])' = Left(c, Ahead[step[c]])
            /\ asked'[c] /\ ~asked[c]
  PROVE  Nearer(c)
<1> DEFINE n == Left(c, Ahead[step[c]])
           m == Left(c, Ahead[step[c]])'
<1>1. n \in Nat /\ m \in Nat
  BY LeftNat, LeftNatNext, ManagerAssumption
<1>2. 2 * m - (IF asked'[c] THEN 1 ELSE 0) < 2 * n - (IF asked[c] THEN 1 ELSE 0)
  BY <1>1
<1>3. Togo(c)' < Togo(c)
  BY <1>2 DEF Togo
<1>4. QED
  BY <1>3 DEF Nearer, Togo

LEMMA TaskAhead ==
  ASSUME NEW t \in Tasks, NEW u \in Tasks, Rank[t] < Rank[u]
  PROVE  Ahead[u] < Ahead[t]
  BY DEF Tasks, Rank, Ahead

LEMMA ActStep ==
  ASSUME NEW c \in Clients, Act(c)
  PROVE  \/ \E r \in {Done, Failed} : Finish(c, r)
         \/ \E s : Then(c, s) /\ Ahead[s] < Ahead[step[c]]
<1>1. ASSUME NEW t \in Tasks, step[c] = t, Proceed(c, t)
      PROVE  \/ Finish(c, Done)
             \/ \E s : Then(c, s) /\ Ahead[s] < Ahead[step[c]]
  BY <1>1, ProceedShape, TaskAhead DEF Follows
<1>2. CASE Create(c) \/ \E t \in Tasks \ {"create"} : Configure(c, t)
  BY <1>1, <1>2 DEF Create, Configure, Tasks
<1>3. CASE FindInstance(c) \/ DeleteInstance(c)
  BY <1>3 DEF FindInstance, DeleteInstance, Ahead
<1>4. CASE Delete(c) \/ StartService(c) \/ StopService(c) \/ FailStep(c)
  BY <1>4 DEF Delete, StartService, StopService, FailStep
<1>5. QED
  BY <1>2, <1>3, <1>4 DEF Act

LEMMA ClientGoesOn ==
  ASSUME Inv, Inv', NEW c \in Clients, Client(c)
  PROVE  Nearer(c)
<1>1. /\ ClientTypeOK /\ ClientTypeOK' /\ StepOK /\ AskedOK
      /\ \A d \in Clients : Ahead[step[d]] \in 1..4 /\ Ahead[step'[d]] \in 1..4
  BY AheadTyped DEF Inv, StepOK
<1>2. CASE Act(c)
  <2>1. \A d \in Clients \ {c} : step'[d] = step[d] /\ asked'[d] = asked[d]
    BY <1>1, <1>2, ActStep DEF Act, Then, Finish, StepOK
  <2>2. ASSUME NEW s, Then(c, s), Ahead[s] < Ahead[step[c]]
        PROVE  /\ pc[c] = "act" /\ UNCHANGED clientVars
               /\ Ahead[step'[c]] < Ahead[step[c]]
    BY <1>1, <2>2 DEF Then, StepOK
  <2>3. \/ \E r \in {Done, Failed} : Acted(c, r)
        \/ /\ pc[c] = "act" /\ UNCHANGED clientVars
           /\ Ahead[step'[c]] < Ahead[step[c]]
    BY <1>2, <2>2, ActStep DEF Finish
  <2>4. QED
    BY <1>1, <2>1, <2>3, StepShortens, FewerIsNearer
<1>3. ASSUME NEW r \in Answers, Answer(c, r) PROVE Nearer(c)
  <2>1. \A d \in Clients \ {c} : step'[d] = step[d] /\ asked'[d] = asked[d]
    BY <1>1, <1>3 DEF Answer, CheckFrom, StepOK, AskedOK
  <2>2. Asks(c, r)
    BY <1>1, <1>3, AnswerOK
  <2>3. QED
    BY <1>1, <2>1, <2>2, StepShortens, FewerIsNearer
<1>4. CASE /\ ~asked[c] /\ asked' = [asked EXCEPT ![c] = TRUE]
           /\ UNCHANGED <<clientVars, step>>
  <2>1. \A d \in Clients : Left(d, Ahead[step[d]])' = Left(d, Ahead[step[d]])
    BY <1>4, QuietLeaves
  <2>2. asked'[c] /\ \A d \in Clients \ {c} : asked'[d] = asked[d]
    BY <1>1, <1>4 DEF AskedOK
  <2>3. QED
    BY <1>4, <2>1, <2>2, FewerIsNearer
<1>5. CASE AskInstance(c)
  BY <1>3, <1>4, <1>5, AskShape DEF AskInstance
<1>6. CASE AskTemplate(c)
  <2>1. asked[c] /\ ~asked'[c]
    BY <1>1, <1>6 DEF AskTemplate, Answer, AskedOK
  <2>2. PICK r \in Answers : Answer(c, r)
    BY <1>1, <1>6, <2>1, AskShape DEF AskedOK
  <2>3. QED
    BY <1>3, <2>2
<1>7. QED
  BY <1>2, <1>5, <1>6 DEF Client

LEMMA NoLonger ==
  ASSUME Inv, [Next]_vars, NEW c \in Clients, pc[c] # "idle"
  PROVE  Togo(c)' <= Togo(c)
<1> DEFINE n == Left(c, Ahead[step[c]])
           m == Left(c, Ahead[step[c]])'
<1>1. Inv' /\ StepOK /\ ClientTypeOK /\ AskedOK
  BY NextInv DEF Inv, StepOK
<1>2. n \in Nat /\ m \in Nat /\ n # 0 /\ \A d \in Clients : Ahead[step[d]] \in 1..4
  BY <1>1, LeftNat, LeftNatNext, AheadTyped, ManagerAssumption
<1>3. ASSUME m = n \/ m = 0, asked'[c] = asked[c] \/ (~asked'[c] /\ m = 0)
      PROVE  Togo(c)' <= Togo(c)
  <2>1. 2 * m - (IF asked'[c] THEN 1 ELSE 0) <= 2 * n - (IF asked[c] THEN 1 ELSE 0)
    BY <1>2, <1>3
  <2>2. QED
    BY <2>1 DEF Togo
<1>4. Togo(c) \in Int /\ Togo(c)' \in Int
  <2>1. /\ 2 * n - (IF asked[c] THEN 1 ELSE 0) \in Int
        /\ 2 * m - (IF asked'[c] THEN 1 ELSE 0) \in Int
    BY <1>2
  <2>2. QED
    BY <2>1 DEF Togo
<1>5. ASSUME NEW d \in Clients, Client(d) PROVE Togo(c)' <= Togo(c)
  <2>1. Nearer(d)
    BY <1>1, <1>5, ClientGoesOn
  <2>2. QED
    BY <1>4, <2>1 DEF Nearer
<1>6. ASSUME NEW d \in Clients, Call(d) PROVE Togo(c)' <= Togo(c)
  <2>1. PICK o \in Ops : \E a \in Arguments(o) : Invoke(d, o, a[1], a[2])
    BY <1>6 DEF Call
  <2>2. UNCHANGED step /\ UNCHANGED asked
    BY <1>6 DEF Call
  <2>3. m = n
    BY <1>1, <1>2, <2>1, <2>2, CallLeaves
  <2>4. QED
    BY <1>3, <2>2, <2>3
<1>7. ASSUME NEW C \in SUBSET Clients, DieAtStep(C),
             \A d \in Clients : asked'[d] = IF d \in C THEN FALSE ELSE asked[d]
      PROVE  Togo(c)' <= Togo(c)
  <2>1. CASE c \in C
    <3>1. pc'[c] = "idle"
      BY <1>1, <1>7, <2>1, DieOutcome DEF DieAtStep, Die
    <3>2. m = 0
      BY <3>1 DEF Left
    <3>3. QED
      BY <1>3, <1>7, <2>1, <3>2
  <2>2. CASE c \notin C
    <3>1. m = n \/ m = 0
      BY <1>1, <1>2, <1>7, DieLeaves
    <3>2. QED
      BY <1>3, <1>7, <2>2, <3>1
  <2>3. QED
    BY <2>1, <2>2
<1>8. CASE Restart \/ \E d \in Clients : Crash(d)
  <2>1. \E C \in SUBSET Clients :
          /\ DieAtStep(C)
          /\ \A d \in Clients : asked'[d] = IF d \in C THEN FALSE ELSE asked[d]
    <3>1. CASE Restart
      BY <3>1 DEF Restart, All
    <3>2. ASSUME NEW d \in Clients, Crash(d)
          PROVE  /\ {d} \in SUBSET Clients /\ DieAtStep({d})
                 /\ \A e \in Clients : asked'[e] = IF e \in {d} THEN FALSE ELSE asked[e]
      BY <1>1, <3>2 DEF Crash, AskedOK
    <3>3. QED
      BY <1>8, <3>1, <3>2
  <2>2. QED
    BY <1>7, <2>1
<1>9. CASE ServiceReports \/ ServiceRestarts \/ UNCHANGED vars
  <2>1. UNCHANGED <<clientVars, step>> /\ UNCHANGED asked
    BY <1>9 DEF ServiceReports, ServiceRestarts, clientVars, vars
  <2>2. m = n
    BY <2>1, QuietLeaves
  <2>3. QED
    BY <1>3, <2>1, <2>2
<1>10. QED
  BY <1>5, <1>6, <1>8, <1>9 DEF Next

(* Whatever sc answers, and whatever the others and the SCM do, a call ends  *)
(* within 4 * MaxPolls + 26 steps of its client: each of them leaves it      *)
(* fewer, and nobody else's step leaves it more.                             *)
THEOREM CallsAreShort ==
  Spec => /\ []Bounded
          /\ [][\A c \in Clients : /\ Client(c) => Togo(c)' < Togo(c)
                                   /\ pc[c] # "idle" => Togo(c)' <= Togo(c)]_vars
<1>1. Inv /\ [Next]_vars =>
        [\A c \in Clients : /\ Client(c) => Togo(c)' < Togo(c)
                            /\ pc[c] # "idle" => Togo(c)' <= Togo(c)]_vars
  BY NextInv, ClientGoesOn, NoLonger DEF Nearer
<1>2. QED
  BY InitInv, NextInv, TogoTyped, <1>1, PTL DEF Spec

-----------------------------------------------------------------------------
(* Instance and template of a user service. *)

(* The instance is gone, or is on its way out. *)
Gone == state = "absent" \/ marked

(* That is so when an uninstall comes to the template. *)
OrphanInv ==
  OrphanFree /\ \A c \in Clients : step[c] = "delete" /\ UserService => Gone

LEMMA StepOfStep ==
  ASSUME StepOK, NEW c \in Clients, NEW s, Then(c, s) \/ \E r : Finish(c, r)
  PROVE  /\ step'[c] \in {"none", s}
         /\ \A d \in Clients \ {c} : step'[d] = step[d]
  BY DEF StepOK, Then, Finish

LEMMA AskKeeps ==
  ASSUME Inv, NEW c \in Clients, AskInstance(c) \/ AskTemplate(c)
  PROVE  /\ UNCHANGED scmVars /\ step[c] = "none"
         /\ step'[c] \in {"none", "create", "find", "delete", "start", "stop"}
         /\ step'[c] = "delete" => ~UserService
         /\ \A d \in Clients \ {c} : step'[d] = step[d]
<1>1. StepOK /\ ClientTypeOK
  BY DEF Inv, StepOK
<1>2. ASSUME NEW r \in Answers, Answer(c, r)
      PROVE  /\ step[c] = "none"
             /\ step'[c] \in {"none", "create", "find", "delete", "start", "stop"}
             /\ step'[c] = "delete" => ~UserService
             /\ \A d \in Clients \ {c} : step'[d] = step[d]
  <2>1. /\ step[c] = "none"
        /\ step'[c] = "none" \/ (pc[c] = "check" /\ step'[c] = FirstStep[Verb(c)])
    BY <1>1, <1>2, AnswerOK
  <2>2. pc[c] = "check" => Verb(c) \in {"install", "uninstall", "start", "stop"}
    BY <1>1, VerbIsNeeded DEF Needed
  <2>3. \A d \in Clients \ {c} : step'[d] = step[d]
    BY <1>1, <1>2 DEF Answer, CheckFrom, StepOK
  <2>4. QED
    BY <2>1, <2>2, <2>3 DEF FirstStep
<1>3. CASE Asking(c) /\ UNCHANGED <<clientVars, step>>
  BY <1>1, <1>3, AskShape DEF Asking, StepOK
<1>4. CASE \E r \in Answers : Answer(c, r)
  BY <1>2, <1>4 DEF Answer
<1>5. QED
  BY <1>3, <1>4, AskShape

(* A service that is stopped, and not just a template, has an entry. *)
LEMMA StoppedHasEntry ==
  ASSUME ScmOK, OrphanFree, state = "Stopped"
  PROVE  ~marked /\ service # NoService
  BY DEF ScmOK, OrphanFree, Active

LEMMA ActOrphan ==
  ASSUME Inv, OrphanInv, NEW c \in Clients, Act(c)
  PROVE  OrphanInv'
<1>1. StepOK /\ ScmOK /\ WatchOK /\ OrphanFree
  BY DEF Inv, OrphanInv
<1>2. ASSUME UserService =>
               /\ OrphanFree'
               /\ Gone => Gone'
               /\ step'[c] = "delete" => Gone',
             \A d \in Clients \ {c} : step'[d] = step[d]
      PROVE  OrphanInv'
  BY <1>2 DEF OrphanInv, OrphanFree
<1>3. CASE FindInstance(c)
  <2>1. /\ UNCHANGED scmVars /\ (step'[c] = "delete" => state = "absent")
        /\ \A d \in Clients \ {c} : step'[d] = step[d]
    BY <1>1, <1>3 DEF FindInstance, Then, StepOK
  <2>2. QED
    BY <1>1, <1>2, <2>1 DEF OrphanFree, Gone, scmVars
<1>4. CASE DeleteInstance(c)
  <2>1. Gone' /\ service' = service /\ \A d \in Clients \ {c} : step'[d] = step[d]
    BY <1>1, <1>4, StepOfStep DEF DeleteInstance, Gone
  <2>2. state' # "absent" => state # "absent" /\ marked'
    BY <2>1, <1>4 DEF DeleteInstance, Gone
  <2>3. QED
    BY <1>2, <2>1, <2>2 DEF OrphanFree
<1>5. CASE Delete(c)
  <2>1. /\ step[c] = "delete" /\ step'[c] # "delete"
        /\ \A d \in Clients \ {c} : step'[d] = step[d]
    BY <1>1, <1>5 DEF Delete, Finish, StepOK
  <2>2. UserService => Gone /\ UNCHANGED <<state, marked>>
    BY <1>5, <2>1 DEF Delete, OrphanInv
  <2>3. QED
    BY <1>2, <2>1, <2>2 DEF OrphanFree, Gone
<1>6. ASSUME NEW t \in Tasks, Create(c) \/ Configure(c, t), step[c] = t
      PROVE  OrphanInv'
  <2>1. step'[c] # "delete" /\ \A d \in Clients \ {c} : step'[d] = step[d]
    BY <1>1, <1>6, ProceedShape, StepOfStep DEF Create, Configure, Tasks
  <2>2. /\ service' # NoService
        /\ UserService => UNCHANGED <<state, marked>>
    BY <1>1, <1>6, ConfigureScm, ScAssumption, InstallerHasSpec
       DEF Create, Configure, Service, Tasks
  <2>3. QED
    BY <1>2, <2>1, <2>2 DEF OrphanFree, Gone
<1>7. CASE StartService(c)
  <2>1. step'[c] # "delete" /\ \A d \in Clients \ {c} : step'[d] = step[d]
    BY <1>1, <1>7, StepOfStep DEF StartService
  <2>2. service' # NoService /\ ~Gone
    BY <1>1, <1>7, StoppedHasEntry DEF StartService, Gone
  <2>3. QED
    BY <1>2, <2>1, <2>2 DEF OrphanFree
<1>8. CASE StopService(c)
  <2>1. step'[c] # "delete" /\ \A d \in Clients \ {c} : step'[d] = step[d]
    BY <1>1, <1>8, StepOfStep DEF StopService
  <2>2. state # "absent" /\ UNCHANGED <<service, marked>>
    BY <1>8 DEF StopService
  <2>3. QED
    BY <1>1, <1>2, <2>1, <2>2 DEF OrphanFree, Gone
<1>9. CASE FailStep(c)
  <2>1. /\ step'[c] # "delete" /\ UNCHANGED scmVars
        /\ \A d \in Clients \ {c} : step'[d] = step[d]
    BY <1>1, <1>9, StepOfStep DEF FailStep
  <2>2. QED
    BY <1>1, <1>2, <2>1 DEF OrphanFree, Gone, scmVars
<1>10. QED
  BY <1>3, <1>4, <1>5, <1>6, <1>7, <1>8, <1>9 DEF Act, Create, Configure, Tasks

LEMMA OrphanStep ==
  ASSUME Inv, OrphanInv, [Next]_vars
  PROVE  OrphanInv'
<1>1. StepOK /\ ScmOK /\ WatchOK /\ OrphanFree
  BY DEF Inv, OrphanInv
<1>2. ASSUME NEW c \in Clients, AskInstance(c) \/ AskTemplate(c) PROVE OrphanInv'
  <2>1. /\ UNCHANGED scmVars /\ (step'[c] = "delete" => ~UserService)
        /\ \A d \in Clients \ {c} : step'[d] = step[d]
    BY <1>2, AskKeeps
  <2>2. QED
    BY <2>1 DEF OrphanInv, OrphanFree, Gone, scmVars
<1>3. ASSUME NEW c \in Clients, Act(c) PROVE OrphanInv'
  BY <1>3, ActOrphan
<1>4. ASSUME NEW c \in Clients, Call(c) PROVE OrphanInv'
  BY <1>4 DEF Call, OrphanInv, OrphanFree, Gone
<1>5. CASE ServiceReports
  <2>1. step' = step
    BY <1>5 DEF ServiceReports
  <2>2. state \in Active /\ state # "absent"
    BY <1>1, <1>5, ReportsScm DEF Active
  <2>3. QED
    BY <1>1, <1>5, <2>1, <2>2, ReportsScm DEF Vanish, OrphanInv, OrphanFree, Gone
<1>6. CASE ServiceRestarts
  <2>1. ~Gone /\ service # NoService
    BY <1>1, <1>6, StoppedHasEntry DEF ServiceRestarts, ScmOK, Gone
  <2>2. QED
    BY <1>6, <2>1 DEF ServiceRestarts, OrphanInv, OrphanFree
<1>7. CASE Restart
  <2>1. \A c \in Clients : step'[c] = "none"
    BY <1>1, <1>7, DieOK DEF Restart
  <2>2. service' # NoService \/ state' = "absent"
    BY <1>7 DEF Restart
  <2>3. QED
    BY <2>1, <2>2 DEF OrphanInv, OrphanFree
<1>8. ASSUME NEW c \in Clients, Crash(c) PROVE OrphanInv'
  <2>1. UNCHANGED scmVars /\ \A d \in Clients : step'[d] \in {"none", step[d]}
    BY <1>1, <1>8, DieOK DEF Crash
  <2>2. QED
    BY <2>1 DEF scmVars, OrphanInv, OrphanFree, Gone
<1>9. CASE UNCHANGED vars
  BY <1>9 DEF vars, OrphanInv, OrphanFree, Gone
<1>10. QED
  BY <1>2, <1>3, <1>4, <1>5, <1>6, <1>7, <1>8, <1>9 DEF Next, Client

(* No instance of a user service is left without its template, unless it is  *)
(* marked and goes when it stops: uninstall deletes the instance first, and  *)
(* whoever else calls, and whatever fails, dies or restarts on the way,      *)
(* leaves it at that until the session ends.                                 *)
THEOREM TemplateOutlivesInstance == Spec => []OrphanFree
<1>1. Init => OrphanInv
  BY DEF Init, StepInit, OrphanInv, OrphanFree
<1>2. Inv /\ OrphanInv /\ [Next]_vars => OrphanInv'
  BY OrphanStep
<1>3. OrphanInv => OrphanFree
  BY DEF OrphanInv
<1>4. QED
  BY InitInv, NextInv, <1>1, <1>2, <1>3, PTL DEF Spec

-----------------------------------------------------------------------------
(* The refinement.  What a client's step is in ServiceManagement... *)

Defined == service # NoService /\ (UserService \/ ~marked)
Running == state \in Active /\ ~marked

LEMMA MapsRests ==
  ASSUME NEW c \in Clients, Resting(c)
  PROVE  Managed!Rests(c)
  BY DEF Managed!Rests, Resting, Doing

LEMMA MapsBegins ==
  ASSUME NEW c \in Clients, Beginning(c), Running => Doing(c)' = "stop"
  PROVE  Managed!Begins(c)
  BY DEF Managed!Begins, Managed!Verbs, Beginning, Doing, Needed, Running

LEMMA MapsEnds ==
  ASSUME NEW c \in Clients, Ending(c),
         Succeeded(c)' =>
           \/ Doing(c) = "install" /\ Defined'
           \/ Doing(c) = "uninstall" /\ ~Defined'
           \/ Doing(c) = "start" /\ Running'
           \/ Doing(c) = "stop"
  PROVE  Managed!Ends(c)
<1>1. ASSUME Succeeded(c)' PROVE Managed!Promise[Doing(c)]
  <2>1. CASE Doing(c) = "install" /\ Defined'
    <3>1. Managed!Promise["install"]
      BY <2>1 DEF Managed!Promise, Defined
    <3>2. QED
      BY <2>1, <3>1
  <2>2. CASE Doing(c) = "uninstall" /\ ~Defined'
    <3>1. Managed!Promise["uninstall"]
      BY <2>2 DEF Managed!Promise, Defined
    <3>2. QED
      BY <2>2, <3>1
  <2>3. CASE Doing(c) = "start" /\ Running'
    <3>1. Managed!Promise["start"]
      BY <2>3 DEF Managed!Promise, Running
    <3>2. QED
      BY <2>3, <3>1
  <2>4. CASE Doing(c) = "stop"
    <3>1. Managed!Promise["stop"]
      BY DEF Managed!Promise
    <3>2. QED
      BY <2>4, <3>1
  <2>5. QED
    BY <1>1, <2>1, <2>2, <2>3, <2>4
<1>2. QED
  BY <1>1 DEF Managed!Ends, Ending, Doing

(* ...and what becomes of the service. *)

ClientsManage ==
  \A c \in Clients : Managed!Begins(c) \/ Managed!Ends(c) \/ Managed!Rests(c)

DataManage ==
  \/ (\E c \in Clients : Doing(c) = "install") /\ Defined' /\ (Running' <=> Running)
  \/ (\E c \in Clients : Doing(c) = "uninstall") /\ ~Defined' /\ ~Running'
  \/ Defined /\ Defined' /\ Running'
  \/ (Defined' <=> Defined) /\ ~Running'
  \/ (Defined' <=> Defined) /\ (Running' <=> Running)

LEMMA ManageIsNext == ClientsManage /\ DataManage => Managed!Next
<1>1. SUFFICES ASSUME DataManage
               PROVE  \/ Managed!Define \/ Managed!Remove \/ Managed!Run
                      \/ Managed!End \/ UNCHANGED <<Defined, Running>>
  BY DEF ClientsManage, Managed!Next, Defined, Running
<1>2. CASE (\E c \in Clients : Doing(c) = "install") /\ Defined' /\ (Running' <=> Running)
  BY <1>2 DEF Managed!Define, Managed!Asked, Doing, Defined, Running
<1>3. CASE (\E c \in Clients : Doing(c) = "uninstall") /\ ~Defined' /\ ~Running'
  BY <1>3 DEF Managed!Remove, Managed!Asked, Doing, Defined, Running
<1>4. CASE Defined /\ Defined' /\ Running'
  BY <1>4 DEF Managed!Run, Defined, Running
<1>5. CASE (Defined' <=> Defined) /\ ~Running'
  BY <1>5 DEF Managed!End, Defined, Running
<1>6. CASE (Defined' <=> Defined) /\ (Running' <=> Running)
  BY <1>6 DEF Defined, Running
<1>7. QED
  BY <1>1, <1>2, <1>3, <1>4, <1>5, <1>6 DEF DataManage

LEMMA AskManages ==
  ASSUME Inv, NEW c \in Clients, AskInstance(c) \/ AskTemplate(c)
  PROVE  ClientsManage /\ DataManage
<1>1. ClientTypeOK /\ ManagerInv(c) /\ UNCHANGED scmVars
  BY AskShape DEF Inv, StepOK
<1>2. DataManage
  BY <1>1 DEF DataManage, Defined, Running, scmVars
<1>3. CASE UNCHANGED clientVars
  BY <1>2, <1>3, QuietRests, MapsRests DEF ClientsManage
<1>4. ASSUME NEW r \in Answers, Answer(c, r), TrueToState(r)
      PROVE  ClientsManage
  <2>1. Asks(c, r)
    BY <1>4 DEF Answer, CheckFrom, Asks
  <2>2. \A d \in Clients \ {c} : Managed!Rests(d)
    BY <1>1, <2>1, AsksManages, MapsRests
  <2>3. CASE Resting(c)
    BY <2>2, <2>3, MapsRests DEF ClientsManage
  <2>4. CASE Beginning(c) /\ Doing(c)' = Verb(c) /\ r = Ok(Needed[Verb(c)])
    <3>1. Verb(c) \in {"install", "uninstall", "start", "stop"}
      BY <2>4 DEF Beginning, Needed
    <3>2. Running => Doing(c)' = "stop"
      BY <1>4, <2>4, <3>1 DEF TrueToState, Needed, Running
    <3>3. QED
      BY <2>2, <2>4, <3>2, MapsBegins DEF ClientsManage
  <2>5. QED
    BY <1>1, <2>1, <2>3, <2>4, AsksManages
<1>5. QED
  BY <1>2, <1>3, <1>4, AskShape

(* An action of the platform succeeds only with the last step of its verb. *)
LEMMA LastSteps ==
  ASSUME Inv, NEW c \in Clients, Act(c), Acted(c, Done)
  PROVE  \/ /\ Verb(c) = "install"
            /\ \E t \in Tasks :
                 /\ step[c] = t /\ (Create(c) \/ (t # "create" /\ Configure(c, t)))
                 /\ \A v \in Wanted(spec[c]) : Rank[v] <= Rank[t]
         \/ Verb(c) = "uninstall" /\ Delete(c)
         \/ Verb(c) = "start" /\ StartService(c)
         \/ Verb(c) = "stop" /\ StopService(c)
<1>1. /\ StepOK /\ pc[c] = "act" /\ ClientTypeOK
      /\ StaysAt(c, "poll") \/ ReturnsDone(c)
  BY AnswersTyped, ActedOutcome DEF Inv, StepOK, Acted
<1>2. ASSUME Acted(c, Failed) PROVE FALSE
  <2>1. ReturnsElse(c)
    BY <1>1, <1>2, AnswersTyped, ActedOutcome
  <2>2. QED
    BY <1>1, <2>1 DEF ReturnsElse, StaysAt, ReturnsDone
<1>3. ASSUME NEW s, Then(c, s) PROVE FALSE
  BY <1>1, <1>3 DEF Then, clientVars, StaysAt, ReturnsDone
<1>4. ~FindInstance(c) /\ ~DeleteInstance(c) /\ ~FailStep(c)
  BY <1>2, <1>3 DEF FindInstance, DeleteInstance, FailStep, Finish
<1>5. ASSUME NEW t \in Tasks, Create(c) \/ (t # "create" /\ Configure(c, t)), step[c] = t
      PROVE  Verb(c) = "install" /\ \A v \in Wanted(spec[c]) : Rank[v] <= Rank[t]
  <2>1. Proceed(c, t)
    BY <1>5 DEF Create, Configure
  <2>2. QED
    BY <1>1, <1>3, <1>5, <2>1, ProceedShape, InstallerHasSpec
<1>6. CASE Create(c)
  BY <1>5, <1>6 DEF Create, Tasks
<1>7. ASSUME NEW t \in Tasks \ {"create"}, Configure(c, t)
      PROVE  \E u \in Tasks :
               /\ step[c] = u /\ (Create(c) \/ (u # "create" /\ Configure(c, u)))
               /\ Verb(c) = "install" /\ \A v \in Wanted(spec[c]) : Rank[v] <= Rank[u]
  <2>1. step[c] = t
    BY <1>7 DEF Configure
  <2>2. QED
    BY <1>5, <1>7, <2>1
<1>8. CASE Delete(c) \/ StartService(c) \/ StopService(c)
  BY <1>1, <1>8, VerbOfStep DEF Delete, StartService, StopService
<1>9. QED
  <2>1. CASE \E t \in Tasks \ {"create"} : Configure(c, t)
    BY <1>7, <2>1
  <2>2. QED
    BY <1>4, <1>6, <1>8, <2>1 DEF Act

LEMMA LaunchRuns ==
  ASSUME ScmOK, OrphanFree, state = "Stopped", Launch, UNCHANGED <<service, marked>>
  PROVE  Defined /\ Defined' /\ Running'
  BY StoppedHasEntry DEF Launch, Defined, Running, Active

LEMMA ActManages ==
  ASSUME Inv, OrphanInv, NEW c \in Clients, Act(c)
  PROVE  ClientsManage /\ DataManage
<1>1. StepOK /\ ScmOK /\ WatchOK /\ ClientTypeOK /\ OrphanFree
  BY DEF Inv, StepOK, OrphanInv
<1>2. pc[c] = "act" /\ Doing(c) = Verb(c)
  BY ActShape DEF Doing
<1>3. ASSUME NEW t \in Tasks, step[c] = t,
             Create(c) \/ (t # "create" /\ Configure(c, t))
      PROVE  /\ Doing(c) = "install" /\ Defined' /\ (Running' <=> Running)
  <2>1. Doing(c) = "install"
    BY <1>1, <1>2, <1>3, VerbOfStep
  <2>2. UserService \/ ~marked'
    BY <1>1, <1>3 DEF Create, Configure, ScmOK, Active
  <2>3. service' # NoService
    BY <1>1, <1>3, ConfigureScm, ScAssumption, InstallerHasSpec
       DEF Create, Service, Tasks
  <2>4. Running' <=> Running
    <3>1. CASE Create(c) /\ ~UserService
      <4>1. state = "absent" /\ state' = "Stopped"
        BY <1>1, <3>1 DEF Create, ScmOK
      <4>2. QED
        BY <4>1 DEF Running, Active
    <3>2. CASE UNCHANGED <<state, marked>>
      BY <3>2 DEF Running
    <3>3. QED
      BY <1>3, <3>1, <3>2 DEF Create, Configure
  <2>5. QED
    BY <2>1, <2>2, <2>3, <2>4 DEF Defined
<1>4. ASSUME Delete(c)
      PROVE  Doing(c) = "uninstall" /\ ~Defined' /\ ~Running'
  <2>1. step[c] = "delete"
    BY <1>4 DEF Delete
  <2>2. Doing(c) = "uninstall"
    BY <1>1, <1>2, <2>1, VerbOfStep
  <2>3. CASE UserService
    <3>1. Gone /\ service' = NoService /\ UNCHANGED <<state, marked>>
      BY <1>4, <2>1, <2>3 DEF Delete, OrphanInv
    <3>2. QED
      BY <2>2, <3>1 DEF Gone, Defined, Running, Active
  <2>4. CASE ~UserService
    BY <1>4, <2>2, <2>4 DEF Delete, Defined, Running, Active
  <2>5. QED
    BY <2>3, <2>4
<1>5. ASSUME StartService(c) PROVE Defined /\ Defined' /\ Running'
  BY <1>1, <1>5, LaunchRuns DEF StartService
<1>6. DataManage
  <2>1. CASE Create(c)
    BY <1>3, <2>1 DEF Create, Tasks, DataManage
  <2>2. ASSUME NEW t \in Tasks \ {"create"}, Configure(c, t) PROVE DataManage
    BY <1>3, <2>2 DEF Configure, DataManage
  <2>3. CASE FindInstance(c) \/ FailStep(c)
    BY <2>3 DEF FindInstance, FailStep, scmVars, DataManage, Defined, Running
  <2>4. CASE DeleteInstance(c)
    <3>1. UserService
      BY <1>1, <1>2, <2>4, VerbOfStep DEF DeleteInstance
    <3>2. QED
      BY <2>4, <3>1 DEF DeleteInstance, DataManage, Defined, Running, Active
  <2>5. CASE Delete(c)
    BY <1>4, <2>5 DEF DataManage
  <2>6. CASE StartService(c)
    BY <1>5, <2>6 DEF DataManage
  <2>7. CASE StopService(c)
    BY <2>7 DEF StopService, DataManage, Defined, Running, Active
  <2>8. QED
    BY <2>1, <2>2, <2>3, <2>4, <2>5, <2>6, <2>7 DEF Act
<1>7. CASE UNCHANGED clientVars
  BY <1>6, <1>7, QuietRests, MapsRests DEF ClientsManage
<1>8. ASSUME NEW r \in {Done, Failed}, Acted(c, r)
      PROVE  ClientsManage
  <2>1. /\ \A d \in Clients \ {c} : Resting(d)
        /\ Ending(c) /\ Doing(c) = Verb(c) /\ (Succeeded(c)' => r = Done)
    BY <1>1, <1>8, ActedManages
  <2>2. ASSUME Succeeded(c)'
        PROVE  \/ Doing(c) = "install" /\ Defined'
               \/ Doing(c) = "uninstall" /\ ~Defined'
               \/ Doing(c) = "start" /\ Running'
               \/ Doing(c) = "stop"
    <3>1. Acted(c, Done)
      BY <1>8, <2>1, <2>2
    <3>2. QED
      BY <1>2, <1>3, <1>4, <1>5, <3>1, LastSteps
  <2>3. Managed!Ends(c)
    BY <2>1, <2>2, MapsEnds
  <2>4. QED
    BY <2>1, <2>3, MapsRests DEF ClientsManage
<1>9. QED
  BY <1>6, <1>7, <1>8, ActShape

LEMMA OthersManage ==
  ASSUME Inv, OrphanInv,
         \/ ServiceReports \/ ServiceRestarts \/ Restart \/ UNCHANGED vars
         \/ \E c \in Clients : Call(c) \/ Crash(c)
  PROVE  ClientsManage /\ DataManage
<1>1. ScmOK /\ WatchOK /\ ClientTypeOK /\ OrphanFree
  BY DEF Inv, StepOK, OrphanInv
<1>2. ClientsManage
  <2>1. CASE ServiceReports \/ ServiceRestarts \/ UNCHANGED vars
    <3>1. UNCHANGED clientVars
      BY <2>1 DEF ServiceReports, ServiceRestarts, vars, clientVars
    <3>2. QED
      BY <3>1, QuietRests, MapsRests DEF ClientsManage
  <2>2. ASSUME NEW c \in Clients, Call(c) PROVE ClientsManage
    BY <1>1, <2>2, InvokeManages, MapsRests DEF Call, ClientsManage
  <2>3. CASE Restart \/ \E c \in Clients : Crash(c)
    <3>1. PICK C : Die(C)
      BY <2>3 DEF Restart, Crash, DieAtStep
    <3>2. QED
      BY <3>1, DieManages, MapsRests, MapsEnds DEF ClientsManage
  <2>4. QED
    BY <2>1, <2>2, <2>3
<1>3. DataManage
  <2>1. CASE ServiceReports
    BY <1>1, <2>1, ReportsScm DEF Vanish, DataManage, Defined, Running, Active
  <2>2. CASE ServiceRestarts
    BY <1>1, <2>2, LaunchRuns DEF ServiceRestarts, ScmOK, DataManage
  <2>3. CASE Restart
    <3>1. ~marked' /\ service' = IF marked /\ ~UserService THEN NoService ELSE service
      BY <2>3 DEF Restart
    <3>2. Defined' <=> Defined
      BY <3>1 DEF Defined
    <3>3. CASE state' = "absent" \/ state' = "Stopped"
      BY <3>2, <3>3 DEF DataManage, Running, Active
    <3>4. CASE service' # NoService /\ Launch
      BY <3>1, <3>2, <3>4 DEF DataManage, Defined, Running, Launch, Active
    <3>5. QED
      BY <2>3, <3>3, <3>4 DEF Restart
  <2>4. CASE UNCHANGED vars \/ \E c \in Clients : Call(c) \/ Crash(c)
    <3>1. UNCHANGED <<service, state, marked>>
      BY <2>4 DEF vars, Call, Crash, scmVars
    <3>2. QED
      BY <3>1 DEF DataManage, Defined, Running
  <2>5. QED
    BY <2>1, <2>2, <2>3, <2>4
<1>4. QED
  BY <1>2, <1>3

(* sc.rs does what UniServiceManager promises to a caller who has the        *)
(* service to himself, and does it for any number of callers: for a system   *)
(* service as for the instance and template of a user service, and although  *)
(* sc.exe waits for nothing.                                                 *)
THEOREM Implements == Spec => ImplementsManagement
<1>1. Init => OrphanInv
  BY DEF Init, StepInit, OrphanInv, OrphanFree
<1>2. Inv /\ OrphanInv /\ [Next]_vars => OrphanInv'
  BY OrphanStep
<1>3. Init => Managed!Init
  BY DEF Init, ClientInit, Managed!Init, Succeeded, NoReply, Done, Error, Ok, Active
<1>4. Inv /\ OrphanInv /\ [Next]_vars => Managed!Next
  BY AskManages, ActManages, OthersManage, ManageIsNext DEF Next, Client
<1>5. QED
  BY InitInv, NextInv, <1>1, <1>2, <1>3, <1>4, PTL
     DEF Spec, ImplementsManagement, Managed!Spec

-----------------------------------------------------------------------------
(* One client at a time.  More of them break what follows: one deletes the *)
(* entry that another configures.                                          *)

Alone == \A c, d \in Clients : c = d

(* An install past its first task is at work on an entry of its own, with *)
(* all the tasks done that come before.                                   *)
Before(t, s) == {u \in Wanted(s) : Rank[u] < Rank[t]}

InstallInv ==
  \A c \in Clients : step[c] \in Tasks \ {"create"} =>
    /\ step[c] \in Wanted(spec[c])
    /\ service = [spec |-> spec[c], done |-> Before(step[c], spec[c])]
    /\ UserService \/ ~marked

LEMMA DoneSoFar ==
  ASSUME NEW s, NEW t \in Wanted(s)
  PROVE  /\ \A u : Follows(u, t, s) => Before(u, s) = Before(t, s) \cup {t}
         /\ (\A v \in Wanted(s) : Rank[v] <= Rank[t]) =>
              Wanted(s) = Before(t, s) \cup {t}
         /\ Before("create", s) = {} /\ "create" \in Wanted(s)
<1>1. /\ Wanted(s) \subseteq Tasks /\ "create" \in Wanted(s)
      /\ \A u \in Tasks : Rank[u] \in 1..4
      /\ \A u, v \in Tasks : Rank[u] = Rank[v] => u = v
      /\ Rank["create"] = 1
  BY DEF Wanted, Tasks, Rank
<1>2. ASSUME NEW u, Follows(u, t, s)
      PROVE  Before(u, s) = Before(t, s) \cup {t}
  BY <1>1, <1>2 DEF Follows, Before
<1>3. ASSUME \A v \in Wanted(s) : Rank[v] <= Rank[t]
      PROVE  Wanted(s) = Before(t, s) \cup {t}
  BY <1>1, <1>3 DEF Before
<1>4. Before("create", s) = {}
  BY <1>1 DEF Before
<1>5. QED
  BY <1>1, <1>2, <1>3, <1>4

(* A task of install leaves the entry with the tasks that come before the    *)
(* next one, or with all of them.                                            *)
LEMMA TaskDone ==
  ASSUME StepOK, ScmOK, InstallInv, NEW c \in Clients, NEW t \in Tasks,
         step[c] = t, Create(c) \/ (t # "create" /\ Configure(c, t))
  PROVE  /\ t \in Wanted(spec[c]) /\ Proceed(c, t)
         /\ service' = [spec |-> spec[c], done |-> Before(t, spec[c]) \cup {t}]
         /\ UserService \/ ~marked'
<1>1. CASE Create(c)
  <2>1. t = "create" /\ service' = [spec |-> spec[c], done |-> {"create"}]
    BY <1>1 DEF Create
  <2>2. "create" \in Wanted(spec[c])
    BY DEF Wanted, Tasks
  <2>3. Before("create", spec[c]) = {}
    BY <2>2, DoneSoFar
  <2>4. UserService \/ ~marked'
    BY <1>1 DEF Create, ScmOK, Active
  <2>5. QED
    BY <1>1, <2>1, <2>2, <2>3, <2>4 DEF Create
<1>2. CASE t # "create" /\ Configure(c, t)
  <2>1. /\ t \in Wanted(spec[c]) /\ (UserService \/ ~marked)
        /\ service = [spec |-> spec[c], done |-> Before(t, spec[c])]
    BY <1>2 DEF InstallInv
  <2>2. service' = [service EXCEPT !.done = service.done \cup {t}]
    BY <1>2 DEF Configure
  <2>3. service' = [spec |-> spec[c], done |-> Before(t, spec[c]) \cup {t}]
    BY <2>1, <2>2
  <2>4. QED
    BY <1>2, <2>1, <2>3 DEF Configure
<1>3. QED
  BY <1>1, <1>2

LEMMA InstallStep ==
  ASSUME Alone, Inv, InstallInv, [Next]_vars
  PROVE  InstallInv'
<1>1. StepOK /\ ScmOK /\ WatchOK
  BY DEF Inv
<1>2. ASSUME NEW c \in Clients, step'[c] \notin Tasks \ {"create"}
      PROVE  InstallInv'
  BY <1>2 DEF Alone, InstallInv
<1>3. ASSUME NEW c \in Clients, AskInstance(c) \/ AskTemplate(c) PROVE InstallInv'
  BY <1>2, <1>3, AskKeeps DEF Tasks
<1>4. ASSUME NEW c \in Clients, NEW t \in Tasks, step[c] = t,
             Create(c) \/ (t # "create" /\ Configure(c, t))
      PROVE  InstallInv'
  <2>1. /\ t \in Wanted(spec[c]) /\ Proceed(c, t)
        /\ service' = [spec |-> spec[c], done |-> Before(t, spec[c]) \cup {t}]
        /\ UserService \/ ~marked'
    BY <1>1, <1>4, TaskDone
  <2>2. ASSUME NEW u \in Tasks, Follows(u, t, spec[c]), Then(c, u)
        PROVE  InstallInv'
    <3>1. step'[c] = u /\ spec' = spec
      BY <1>1, <2>2 DEF Then, StepOK, clientVars
    <3>2. u \in Wanted(spec[c]) /\ Before(u, spec[c]) = Before(t, spec[c]) \cup {t}
      BY <2>1, <2>2, DoneSoFar DEF Follows
    <3>3. /\ u \in Wanted(spec[c]')
          /\ service' = [spec |-> spec[c]', done |-> Before(u, spec[c]')]
      BY <2>1, <3>1, <3>2
    <3>4. QED
      BY <2>1, <3>1, <3>3 DEF Alone, InstallInv, Before, Wanted
  <2>3. CASE Finish(c, Done)
    BY <1>1, <1>2, <2>3, FinishOK DEF Tasks
  <2>4. QED
    BY <2>1, <2>2, <2>3, ProceedShape
<1>5. ASSUME NEW c \in Clients,
             \/ FindInstance(c) \/ DeleteInstance(c) \/ Delete(c)
             \/ StartService(c) \/ StopService(c) \/ FailStep(c)
      PROVE  InstallInv'
  <2>1. step'[c] \in {"none", "delete", "delete_instance"}
    BY <1>1, <1>5, StepOfStep
       DEF FindInstance, DeleteInstance, Delete, StartService, StopService, FailStep
  <2>2. QED
    BY <1>2, <2>1 DEF Tasks
<1>6. ASSUME NEW c \in Clients, Act(c) PROVE InstallInv'
  BY <1>4, <1>5, <1>6 DEF Act, Create, Configure, Tasks
<1>7. ASSUME NEW c \in Clients, Call(c) PROVE InstallInv'
  <2>1. step' = step /\ step[c] = "none"
    BY <1>1, <1>7 DEF Call, Invoke, StepOK
  <2>2. QED
    BY <1>2, <2>1 DEF Tasks
<1>8. CASE ServiceReports
  <2>1. UNCHANGED <<step, spec>>
    BY <1>8 DEF ServiceReports, clientVars
  <2>2. UserService \/ ~marked => UNCHANGED service /\ (~marked => ~marked')
    BY <1>1, <1>8, ReportsScm DEF Vanish
  <2>3. ASSUME NEW c \in Clients, step'[c] \in Tasks \ {"create"}
        PROVE  /\ step'[c] \in Wanted(spec[c]')
               /\ service' = [spec |-> spec[c]', done |-> Before(step[c]', spec[c]')]
               /\ UserService \/ ~marked'
    BY <2>1, <2>2, <2>3 DEF InstallInv
  <2>4. QED
    BY <2>3 DEF InstallInv, Before, Wanted
<1>9. CASE ServiceRestarts \/ UNCHANGED vars
  BY <1>9 DEF ServiceRestarts, vars, clientVars, InstallInv
<1>10. CASE Restart
  BY <1>1, <1>10, DieOK DEF Restart, InstallInv, Tasks
<1>11. ASSUME NEW c \in Clients, Crash(c) PROVE InstallInv'
  BY <1>1, <1>2, <1>11, DieOK DEF Crash, Tasks
<1>12. QED
  BY <1>3, <1>6, <1>7, <1>8, <1>9, <1>10, <1>11 DEF Next, Client

LEMMA SuccessIsLast ==
  ASSUME Alone, Inv, [Next]_vars, NEW c \in Clients, NEW v, ActSucceeds(c, v)
  PROVE  Verb(c) = v /\ Act(c) /\ Acted(c, Done)
<1>1. /\ pc[c] = "act" /\ Verb(c) = v /\ ClientTypeOK
      /\ pc'[c] = "poll" \/ (pc'[c] = "idle" /\ reply'[c] = Done)
  BY DEF ActSucceeds, Inv, StepOK
<1>2. ~UNCHANGED clientVars
  BY <1>1 DEF clientVars
<1>3. ASSUME NEW d \in Clients, AskInstance(d) \/ AskTemplate(d) PROVE FALSE
  <2>1. PICK r \in Answers : Asks(c, r)
    BY <1>2, <1>3, AskShape DEF Answer, CheckFrom, Asks, Alone
  <2>2. QED
    BY <1>1, <2>1, AsksOutcome
<1>4. ASSUME NEW d \in Clients, Act(d) PROVE Act(c) /\ Acted(c, Done)
  <2>1. d = c
    BY DEF Alone
  <2>2. PICK r \in {Done, Failed} : Acted(c, r)
    BY <1>2, <1>4, <2>1, ActShape
  <2>3. r = Done
    BY <1>1, <2>2, ActedOutcome DEF ReturnsElse
  <2>4. QED
    BY <1>4, <2>1, <2>2, <2>3
<1>5. ASSUME NEW d \in Clients, Call(d) PROVE FALSE
  <2>1. pc[d] = "idle"
    BY <1>5 DEF Call, Invoke
  <2>2. QED
    BY <1>1, <2>1 DEF Alone
<1>6. ASSUME NEW C, Die(C) PROVE FALSE
  BY <1>1, <1>6, DieOutcome DEF ReturnsElse
<1>7. ~ServiceReports /\ ~ServiceRestarts /\ ~UNCHANGED vars
  BY <1>1 DEF ServiceReports, ServiceRestarts, clientVars, vars
<1>8. QED
  BY <1>1, <1>3, <1>4, <1>5, <1>6, <1>7 DEF Next, Client, Crash, Restart, DieAtStep

(* An install that succeeds has done every task that its spec and the kind  *)
(* of the service ask for, and no other, on an entry that it has made.      *)
THEOREM InstallsAsAsked ==
  ASSUME Alone
  PROVE  Spec => InstalledAsAsked
<1>1. Init => InstallInv
  BY DEF Init, StepInit, InstallInv, Tasks
<1>2. Inv /\ InstallInv /\ [Next]_vars => InstallInv'
  BY InstallStep
<1>3. Inv /\ InstallInv /\ [Next]_vars =>
        [\A c \in Clients : ActSucceeds(c, "install") =>
           service' = [spec |-> spec[c], done |-> Wanted(spec[c])]]_vars
  <2>1. SUFFICES ASSUME Inv, InstallInv, [Next]_vars, NEW c \in Clients,
                        ActSucceeds(c, "install")
                 PROVE  service' = [spec |-> spec[c], done |-> Wanted(spec[c])]
    OBVIOUS
  <2>2. PICK t \in Tasks :
          /\ step[c] = t /\ (Create(c) \/ (t # "create" /\ Configure(c, t)))
          /\ \A v \in Wanted(spec[c]) : Rank[v] <= Rank[t]
    BY <2>1, SuccessIsLast, LastSteps
  <2>3. /\ t \in Wanted(spec[c])
        /\ service' = [spec |-> spec[c], done |-> Before(t, spec[c]) \cup {t}]
    BY <2>1, <2>2, TaskDone DEF Inv
  <2>4. Wanted(spec[c]) = Before(t, spec[c]) \cup {t}
    BY <2>2, <2>3, DoneSoFar
  <2>5. QED
    BY <2>3, <2>4
<1>4. QED
  BY InitInv, NextInv, <1>1, <1>2, <1>3, PTL DEF Spec, InstalledAsAsked

=============================================================================
