----------------------- MODULE UniServiceManagerProofs -----------------------
(***************************************************************************)
(* Lemmas about the front end and the steps of its platforms, for any      *)
(* platform and any number of clients.                                     *)
(***************************************************************************)
EXTENDS ManagerSteps, TLAPS

(* The methods have at most two legs; only those that ask have none. *)
LEMMA LegsShape ==
  ASSUME NEW o \in DOMAIN Legs
  PROVE  /\ Len(Legs[o]) \in 0..2
         /\ DOMAIN Legs[o] = 1..Len(Legs[o])
         /\ \A i \in DOMAIN Legs[o] : Legs[o][i] \in DOMAIN Needed
         /\ Len(Legs[o]) = 0 <=> o \in {"status", "wait_for_status"}
<1>1. o \in {"status", "wait_for_status"} =>
        Legs[o] = << >>
  BY DEF Legs
<1>2. o \notin {"status", "wait_for_status"} =>
        \/ \E v \in DOMAIN Needed : Legs[o] = <<v>>
        \/ \E v, w \in DOMAIN Needed : Legs[o] = <<v, w>>
  BY DEF Legs, Needed
<1>3. CASE o \in {"status", "wait_for_status"}
  BY <1>1, <1>3
<1>4. CASE o \notin {"status", "wait_for_status"}
  <2>1. CASE \E v \in DOMAIN Needed : Legs[o] = <<v>>
    <3>1. PICK v \in DOMAIN Needed : Legs[o] = <<v>>
      BY <2>1
    <3>2. Len(Legs[o]) = 1 /\ DOMAIN Legs[o] = 1..1 /\ Legs[o][1] = v
      BY <3>1
    <3>3. QED
      BY <3>2, <1>4
  <2>2. CASE \E v, w \in DOMAIN Needed : Legs[o] = <<v, w>>
    <3>1. PICK v \in DOMAIN Needed, w \in DOMAIN Needed : Legs[o] = <<v, w>>
      BY <2>2
    <3>2. /\ Len(Legs[o]) = 2 /\ DOMAIN Legs[o] = 1..2
          /\ Legs[o][1] = v /\ Legs[o][2] = w
      BY <3>1
    <3>3. QED
      BY <3>2, <1>4
  <2>3. QED
    BY <1>2, <1>4, <2>1, <2>2
<1>5. QED
  BY <1>3, <1>4

LEMMA VerbIsNeeded ==
  ASSUME ClientTypeOK, NEW c \in Clients, pc[c] \in {"check", "act"}
  PROVE  Verb(c) \in DOMAIN Needed
  BY LegsShape, ManagerAssumption DEF ClientTypeOK, Verb

LEMMA ReturnTyped ==
  ASSUME ClientTypeOK, NEW c \in Clients, NEW r \in Replies, Return(c, r)
  PROVE  ClientTypeOK'
<1>1. /\ pc'    \in [Clients -> {"idle", "status", "check", "act", "poll"}]
      /\ op'    \in [Clients -> Ops \cup {"none"}]
      /\ leg'   \in [Clients -> {1, 2}]
      /\ spec'  \in [Clients -> Specs \cup {NoSpec}]
      /\ want'  \in [Clients -> ServiceStatus]
      /\ polls' \in [Clients -> 0..MaxPolls]
      /\ reply' \in [Clients -> Replies]
  BY ManagerAssumption DEF ClientTypeOK, Return
<1>2. ASSUME NEW d \in Clients
      PROVE  /\ pc'[d] = "idle" => leg'[d] = 1
             /\ pc'[d] # "idle" => op'[d] \in Ops
             /\ pc'[d] \in {"check", "act"} => leg'[d] \in DOMAIN Legs[op'[d]]
  BY DEF ClientTypeOK, Return
<1>3. QED
  BY <1>1, <1>2 DEF ClientTypeOK

LEMMA GoToTyped ==
  ASSUME ClientTypeOK, NEW c \in Clients, pc[c] = "check", GoTo(c, "act")
  PROVE  ClientTypeOK'
  BY DEF ClientTypeOK, GoTo

LEMMA LegDoneTyped ==
  ASSUME ClientTypeOK, NEW c \in Clients, pc[c] # "idle", LegDone(c)
  PROVE  ClientTypeOK'
<1>1. op[c] \in DOMAIN Legs /\ leg[c] \in {1, 2}
  BY ManagerAssumption DEF ClientTypeOK
<1>2. CASE Return(c, Done)
  <2>1. Done \in Replies
    BY DEF Done, Ok, Replies, Kinds
  <2>2. QED
    BY <1>2, <2>1, ReturnTyped
<1>3. CASE ~Return(c, Done)
  <2>1. leg[c] + 1 \in DOMAIN Legs[op[c]] /\ leg[c] + 1 \in {1, 2}
    BY <1>1, <1>3, LegsShape DEF LegDone
  <2>2. /\ pc' = [pc EXCEPT ![c] = "check"] /\ leg' = [leg EXCEPT ![c] = @ + 1]
        /\ polls' = [polls EXCEPT ![c] = 0]
        /\ UNCHANGED <<op, spec, want, reply>>
    BY <1>3 DEF LegDone
  <2>3. /\ pc' \in [Clients -> {"idle", "status", "check", "act", "poll"}]
        /\ leg' \in [Clients -> {1, 2}] /\ polls' \in [Clients -> 0..MaxPolls]
    BY <2>1, <2>2, ManagerAssumption DEF ClientTypeOK
  <2>4. ASSUME NEW d \in Clients
        PROVE  /\ pc'[d] = "idle" => leg'[d] = 1
               /\ pc'[d] # "idle" => op'[d] \in Ops
               /\ pc'[d] \in {"check", "act"} => leg'[d] \in DOMAIN Legs[op'[d]]
    <3>1. CASE d = c
      BY <3>1, <2>1, <2>2 DEF ClientTypeOK
    <3>2. CASE d # c
      BY <3>2, <2>2 DEF ClientTypeOK
    <3>3. QED
      BY <3>1, <3>2
  <2>5. QED
    BY <2>2, <2>3, <2>4 DEF ClientTypeOK
<1>4. QED
  BY <1>2, <1>3

LEMMA FailTyped ==
  ASSUME ClientTypeOK, NEW c \in Clients, pc[c] # "idle",
         NEW e \in Replies, Fail(c, e)
  PROVE  ClientTypeOK'
  BY ReturnTyped, LegDoneTyped DEF Fail

LEMMA CheckTyped ==
  ASSUME ClientTypeOK, NEW c \in Clients, NEW r \in Replies, Check(c, r)
  PROVE  ClientTypeOK'
<1>1. Refusal(c, r) \in Replies
  BY DEF Refusal, Error, WrongState, Replies, Kinds
<1>2. QED
  BY <1>1, GoToTyped, FailTyped DEF Check

LEMMA StatusTyped ==
  ASSUME ClientTypeOK, NEW c \in Clients, NEW r \in Replies, Status(c, r)
  PROVE  ClientTypeOK'
  BY ReturnTyped DEF Status

LEMMA ActedTyped ==
  ASSUME ClientTypeOK, NEW c \in Clients, NEW r \in Replies, Acted(c, r)
  PROVE  ClientTypeOK'
<1>1. CASE r.kind # "Ok" /\ Fail(c, r)
  BY <1>1, FailTyped DEF Acted
<1>2. CASE LegDone(c)
  BY <1>2, LegDoneTyped DEF Acted
<1>3. CASE /\ pc' = [pc EXCEPT ![c] = "poll"]
           /\ want' = [want EXCEPT ![c] = Expected(c)]
           /\ UNCHANGED <<op, leg, spec, polls, reply>>
  <2>1. Expected(c) \in ServiceStatus
    BY DEF Expected, ServiceStatus
  <2>2. pc[c] = "act"
    BY DEF Acted
  <2>3. QED
    BY <1>3, <2>1, <2>2 DEF ClientTypeOK
<1>4. QED
  BY <1>1, <1>2, <1>3 DEF Acted

LEMMA PollTyped ==
  ASSUME ClientTypeOK, NEW c \in Clients, NEW r \in Replies, Poll(c, r)
  PROVE  ClientTypeOK'
<1>1. CASE LegDone(c)
  BY <1>1, LegDoneTyped DEF Poll
<1>2. CASE Fail(c, IF r.kind = "Ok" THEN Timeout(r.status) ELSE Error("TimeoutError"))
  <2>1. (IF r.kind = "Ok" THEN Timeout(r.status) ELSE Error("TimeoutError")) \in Replies
    BY DEF Timeout, Error, Replies, Kinds
  <2>2. QED
    BY <1>2, <2>1, FailTyped DEF Poll
<1>3. CASE /\ polls[c] < MaxPolls
           /\ polls' = [polls EXCEPT ![c] = @ + 1]
           /\ UNCHANGED <<pc, op, leg, spec, want, reply>>
  <2>1. polls' \in [Clients -> 0..MaxPolls]
    BY <1>3, ManagerAssumption DEF ClientTypeOK
  <2>2. QED
    BY <1>3, <2>1 DEF ClientTypeOK
<1>4. QED
  BY <1>1, <1>2, <1>3 DEF Poll

LEMMA InvokeTyped ==
  ASSUME ClientTypeOK, NEW c \in Clients, NEW o \in Ops,
         NEW s \in Specs \cup {NoSpec}, NEW w \in ServiceStatus,
         Invoke(c, o, s, w)
  PROVE  ClientTypeOK'
<1>1. /\ pc'    \in [Clients -> {"idle", "status", "check", "act", "poll"}]
      /\ op'    \in [Clients -> Ops \cup {"none"}]
      /\ spec'  \in [Clients -> Specs \cup {NoSpec}]
      /\ want'  \in [Clients -> ServiceStatus]
      /\ reply' \in [Clients -> Replies]
      /\ UNCHANGED <<leg, polls>>
  BY DEF ClientTypeOK, Invoke, NoReply, Error, Replies, Kinds
<1>2. ASSUME NEW d \in Clients
      PROVE  /\ pc'[d] = "idle" => leg'[d] = 1
             /\ pc'[d] # "idle" => op'[d] \in Ops
             /\ pc'[d] \in {"check", "act"} => leg'[d] \in DOMAIN Legs[op'[d]]
  <2>1. CASE d = c
    <3>1. leg'[c] = 1 /\ op'[c] = o
      BY DEF ClientTypeOK, Invoke
    <3>2. o \notin {"status", "wait_for_status"} => 1 \in DOMAIN Legs[o]
      BY LegsShape, ManagerAssumption
    <3>3. pc'[c] = "check" => o \notin {"status", "wait_for_status"}
      BY DEF ClientTypeOK, Invoke
    <3>4. pc'[c] # "act"
      BY DEF ClientTypeOK, Invoke
    <3>5. QED
      BY <2>1, <3>1, <3>2, <3>3, <3>4
  <2>2. CASE d # c
    BY <2>2 DEF ClientTypeOK, Invoke
  <2>3. QED
    BY <2>1, <2>2
<1>3. QED
  BY <1>1, <1>2 DEF ClientTypeOK

LEMMA DieTyped ==
  ASSUME ClientTypeOK, NEW C, Die(C)
  PROVE  ClientTypeOK'
  BY ManagerAssumption
     DEF ClientTypeOK, Die, NoReply, Error, Replies, Kinds

-----------------------------------------------------------------------------
(* What a step of client c does to the program counters. *)

Moves(c, P) == \E p \in P : pc' = [pc EXCEPT ![c] = p]

LEMMA LegDoneMoves ==
  ASSUME NEW c \in Clients, LegDone(c)
  PROVE  Moves(c, {"idle", "check"})
  BY DEF LegDone, Return, Moves

LEMMA FailMoves ==
  ASSUME NEW c \in Clients, NEW e, Fail(c, e)
  PROVE  Moves(c, {"idle", "check"})
  BY LegDoneMoves DEF Fail, Return, Moves

LEMMA CheckMoves ==
  ASSUME NEW c \in Clients, NEW r, Check(c, r)
  PROVE  Moves(c, {"idle", "check", "act"})
  BY FailMoves DEF Check, GoTo, Moves

LEMMA ActedMoves ==
  ASSUME NEW c \in Clients, NEW r, Acted(c, r)
  PROVE  Moves(c, {"idle", "check", "poll"})
  BY FailMoves, LegDoneMoves DEF Acted, Moves

LEMMA PollMoves ==
  ASSUME NEW c \in Clients, NEW r, Poll(c, r), ClientTypeOK
  PROVE  Moves(c, {"idle", "check", "poll"})
<1>1. CASE LegDone(c) \/ \E e : Fail(c, e)
  BY <1>1, FailMoves, LegDoneMoves DEF Moves
<1>2. CASE UNCHANGED pc
  <2>1. pc' = [pc EXCEPT ![c] = "poll"]
    BY <1>2 DEF ClientTypeOK, Poll
  <2>2. QED
    BY <2>1 DEF Moves
<1>3. QED
  BY <1>1, <1>2 DEF Poll

-----------------------------------------------------------------------------
(* What a step of client c that is not a new call does to the clients.      *)

(* It leaves the others alone, and c with its method and spec until that    *)
(* returns.                                                                 *)
Proceeds(c) ==
  /\ op' = op
  /\ \A d \in Clients \ {c} :
       /\ pc'[d] = pc[d] /\ leg'[d] = leg[d] /\ spec'[d] = spec[d]
       /\ want'[d] = want[d] /\ reply'[d] = reply[d]
  /\ pc'[c] # "idle" => spec'[c] = spec[c]

LEMMA LegDoneProceeds ==
  ASSUME ClientTypeOK, NEW c \in Clients, LegDone(c)
  PROVE  Proceeds(c)
  BY DEF LegDone, Return, Proceeds, ClientTypeOK

LEMMA FailProceeds ==
  ASSUME ClientTypeOK, NEW c \in Clients, NEW e, Fail(c, e)
  PROVE  Proceeds(c)
  BY LegDoneProceeds DEF Fail, Return, Proceeds, ClientTypeOK

(* Where a step leads: on to the platform, to the poll, to the next leg, or *)
(* back to the caller.                                                      *)
ToNext(c)     == pc'[c] = "check" /\ leg[c] = 1 /\ leg'[c] = 2
ReturnsDone(c)   == pc'[c] = "idle" /\ reply'[c] = Done
ReturnsElse(c)      == pc'[c] = "idle" /\ reply'[c] # Done
StaysAt(c, p) == pc'[c] = p /\ leg'[c] = leg[c]

(* The end of a leg is the end of the method or the way to its second leg. *)
LEMMA LegDoneOutcome ==
  ASSUME ClientTypeOK, NEW c \in Clients, pc[c] # "idle", LegDone(c)
  PROVE  \/ leg[c] >= Len(Legs[op[c]]) /\ ReturnsDone(c)
         \/ leg[c] < Len(Legs[op[c]]) /\ ToNext(c)
<1>1. op[c] \in DOMAIN Legs /\ leg[c] \in {1, 2}
  BY ManagerAssumption DEF ClientTypeOK
<1>2. PICK n \in 0..2 : n = Len(Legs[op[c]])
  BY <1>1, LegsShape
<1>3. CASE leg[c] >= Len(Legs[op[c]]) /\ Return(c, Done)
  BY <1>3 DEF Return, ReturnsDone, ClientTypeOK
<1>4. CASE /\ leg[c] < Len(Legs[op[c]])
           /\ pc' = [pc EXCEPT ![c] = "check"]
           /\ leg' = [leg EXCEPT ![c] = @ + 1]
  <2>1. leg[c] = 1
    <3>1. leg[c] < n
      BY <1>2, <1>4
    <3>2. QED
      BY <1>1, <3>1
  <2>2. pc'[c] = "check" /\ leg'[c] = leg[c] + 1
    BY <1>4 DEF ClientTypeOK
  <2>3. QED
    BY <1>4, <2>1, <2>2 DEF ToNext
<1>5. QED
  BY <1>3, <1>4 DEF LegDone

(* No error becomes a success; it is tolerated in the first of two legs only. *)
LEMMA FailOutcome ==
  ASSUME ClientTypeOK, NEW c \in Clients, pc[c] # "idle",
         NEW e, e # Done, Fail(c, e)
  PROVE  ReturnsElse(c) \/ (Tolerated(c, e) /\ ToNext(c))
<1>1. CASE Tolerated(c, e)
  <2>1. /\ leg[c] = 1 /\ LegDone(c)
        /\ op[c] \in {"install_if_needed_and_start", "restart",
                     "stop_if_needed_and_uninstall"}
    BY <1>1 DEF Fail, Tolerated
  <2>2. Len(Legs[op[c]]) = 2
    <3>1. \/ Legs[op[c]] = <<"install", "start">>
          \/ Legs[op[c]] = <<"stop", "start">>
          \/ Legs[op[c]] = <<"stop", "uninstall">>
      BY <2>1 DEF Legs
    <3>2. QED
      BY <3>1
  <2>3. QED
    BY <1>1, <2>1, <2>2, LegDoneOutcome
<1>2. CASE ~Tolerated(c, e)
  BY <1>2 DEF Fail, Return, ReturnsElse, ClientTypeOK
<1>3. QED
  BY <1>1, <1>2

LEMMA CheckOutcome ==
  ASSUME ClientTypeOK, NEW c \in Clients, NEW r, r # Done, Check(c, r)
  PROVE  /\ Proceeds(c) /\ pc[c] = "check"
         /\ \/ StaysAt(c, "act") /\ Admitted(c, r)
            \/ ToNext(c) /\ Tolerated(c, Refusal(c, r))
            \/ ReturnsElse(c)
<1>1. pc[c] = "check"
  BY DEF Check
<1>2. CASE Admitted(c, r) /\ GoTo(c, "act")
  BY <1>1, <1>2 DEF GoTo, Proceeds, StaysAt, ClientTypeOK
<1>3. CASE Fail(c, Refusal(c, r))
  <2>1. Refusal(c, r) # Done
    <3>1. CASE r.kind = "Ok"
      BY <3>1 DEF Refusal, WrongState, Error, Done, Ok
    <3>2. CASE r.kind # "Ok"
      BY <3>2 DEF Refusal
    <3>3. QED
      BY <3>1, <3>2
  <2>2. QED
    BY <1>1, <1>3, <2>1, FailOutcome, FailProceeds
<1>4. QED
  BY <1>2, <1>3 DEF Check

(* What a method that does not wait is done with, it is done with at once. *)
LEMMA ActedOutcome ==
  ASSUME ClientTypeOK, NEW c \in Clients, NEW r \in {Done, Failed}, Acted(c, r)
  PROVE  /\ Proceeds(c) /\ pc[c] = "act"
         /\ \/ /\ r = Done /\ StaysAt(c, "poll")
               /\ op[c] \notin Immediate /\ want'[c] = Expected(c)
            \/ r = Done /\ ReturnsDone(c) /\ op[c] \in Immediate
            \/ r = Failed /\ ReturnsElse(c)
<1>1. pc[c] = "act" /\ Failed # Done /\ Failed.kind # "Ok" /\ Done.kind = "Ok"
  BY DEF Acted, Failed, Done, Error, Ok
<1>2. CASE Fail(c, r) /\ r = Failed
  <2>1. ~Tolerated(c, Failed)
    BY DEF Tolerated, Failed, Error, WrongState
  <2>2. QED
    BY <1>1, <1>2, <2>1, FailOutcome, FailProceeds
<1>3. CASE r = Done /\ op[c] \in Immediate /\ LegDone(c)
  <2>1. \E v \in DOMAIN Needed : Legs[op[c]] = <<v>>
    BY <1>3 DEF Immediate, Legs, Needed
  <2>2. Len(Legs[op[c]]) = 1
    BY <2>1
  <2>3. leg[c] \in {1, 2}
    BY DEF ClientTypeOK
  <2>4. Proceeds(c) /\ (ReturnsDone(c) \/ leg[c] < Len(Legs[op[c]]))
    BY <1>1, <1>3, LegDoneOutcome, LegDoneProceeds
  <2>5. QED
    BY <1>1, <1>3, <2>2, <2>3, <2>4
<1>4. CASE /\ r = Done /\ op[c] \notin Immediate
           /\ pc' = [pc EXCEPT ![c] = "poll"]
           /\ want' = [want EXCEPT ![c] = Expected(c)]
           /\ UNCHANGED <<op, leg, spec, polls, reply>>
  BY <1>1, <1>4 DEF StaysAt, Proceeds, ClientTypeOK
<1>5. QED
  BY <1>1, <1>2, <1>3, <1>4 DEF Acted

LEMMA PollOutcome ==
  ASSUME ClientTypeOK, NEW c \in Clients, NEW r, Poll(c, r)
  PROVE  /\ Proceeds(c) /\ pc[c] = "poll"
         /\ \/ StaysAt(c, "poll") /\ want'[c] = want[c] /\ reply'[c] = reply[c]
            \/ r = Ok(want[c]) /\ ToNext(c)
            \/ /\ r = Ok(want[c]) /\ ReturnsDone(c)
               /\ leg[c] >= Len(Legs[op[c]])
            \/ ReturnsElse(c)
<1>1. pc[c] = "poll"
  BY DEF Poll
<1>2. CASE r = Ok(want[c]) /\ LegDone(c)
  BY <1>1, <1>2, LegDoneOutcome, LegDoneProceeds
<1>3. ASSUME NEW e, e = (IF r.kind = "Ok" THEN Timeout(r.status)
                                          ELSE Error("TimeoutError")),
             Fail(c, e)
      PROVE  ReturnsElse(c) /\ Proceeds(c)
  <2>1. e # Done /\ ~Tolerated(c, e)
    BY <1>3 DEF Tolerated, Timeout, Error, WrongState, Done, Ok
  <2>2. QED
    BY <1>1, <1>3, <2>1, FailOutcome, FailProceeds
<1>4. CASE UNCHANGED <<pc, op, leg, spec, want, reply>>
  BY <1>1, <1>4 DEF Proceeds, StaysAt
<1>5. QED
  BY <1>1, <1>2, <1>3, <1>4 DEF Poll

LEMMA StatusOutcome ==
  ASSUME ClientTypeOK, NEW c \in Clients, NEW r, r # Done, Status(c, r)
  PROVE  Proceeds(c) /\ pc[c] = "status" /\ ReturnsElse(c)
  BY DEF Status, Return, Proceeds, ReturnsElse, ClientTypeOK

(* A call begins with a question. *)
LEMMA InvokeOutcome ==
  ASSUME ClientTypeOK, NEW c \in Clients, NEW o \in Ops, NEW s, NEW w,
         Invoke(c, o, s, w)
  PROVE  /\ pc[c] = "idle" /\ leg' = leg /\ leg[c] = 1
         /\ op'[c] = o /\ spec'[c] = s
         /\ \/ pc'[c] = "check" /\ o \notin {"status", "wait_for_status"}
            \/ pc'[c] = "status" /\ o = "status"
            \/ pc'[c] = "poll" /\ o = "wait_for_status"
         /\ \A d \in Clients \ {c} :
              /\ pc'[d] = pc[d] /\ op'[d] = op[d] /\ spec'[d] = spec[d]
              /\ want'[d] = want[d] /\ reply'[d] = reply[d]
  BY DEF Invoke, ClientTypeOK

LEMMA DieOutcome ==
  ASSUME NEW C, Die(C)
  PROVE  /\ op' = op /\ want' = want
         /\ \A d \in Clients :
              IF d \in C THEN ReturnsElse(d) /\ leg'[d] = 1
              ELSE /\ pc'[d] = pc[d] /\ leg'[d] = leg[d]
                   /\ spec'[d] = spec[d] /\ reply'[d] = reply[d]
  BY DEF Die, ReturnsElse, NoReply, Done, Error, Ok

-----------------------------------------------------------------------------
(* Two invariants of every client: who installs has a spec; and who polls   *)
(* after acting waits for the effect of the leg it is at.                   *)

HasSpec(c) == pc[c] # "idle" /\ Installs(op[c]) => spec[c] \in Specs

Waits(c) ==
  pc[c] = "poll" /\ op[c] # "wait_for_status" =>
    /\ op[c] \notin Immediate /\ leg[c] \in DOMAIN Legs[op[c]]
    /\ want[c] = Expected(c)

ManagerInv(c) == HasSpec(c) /\ Waits(c)

LEMMA OthersInv ==
  ASSUME NEW d \in Clients, ManagerInv(d), op'[d] = op[d], spec'[d] = spec[d],
         want'[d] = want[d], pc'[d] = pc[d], leg'[d] = leg[d]
  PROVE  ManagerInv(d)'
  BY DEF ManagerInv, HasSpec, Waits, Expected, Verb

LEMMA ProceedsInv ==
  ASSUME \A d \in Clients : ManagerInv(d), NEW c \in Clients, Proceeds(c),
         pc[c] # "idle", Waits(c)'
  PROVE  \A d \in Clients : ManagerInv(d)'
<1>1. \A d \in Clients \ {c} : ManagerInv(d)'
  BY OthersInv DEF Proceeds
<1>2. HasSpec(c)'
  BY DEF HasSpec, ManagerInv, Proceeds
<1>3. QED
  BY <1>1, <1>2 DEF ManagerInv

LEMMA CheckInv ==
  ASSUME ClientTypeOK, \A d \in Clients : ManagerInv(d), NEW c \in Clients,
         NEW r, r # Done, Check(c, r)
  PROVE  \A d \in Clients : ManagerInv(d)'
<1>1. Proceeds(c) /\ pc[c] = "check" /\ pc'[c] # "poll"
  BY CheckOutcome DEF StaysAt, ToNext, ReturnsElse
<1>2. QED
  BY <1>1, ProceedsInv DEF Waits

LEMMA ActedInv ==
  ASSUME ClientTypeOK, \A d \in Clients : ManagerInv(d), NEW c \in Clients,
         NEW r \in {Done, Failed}, Acted(c, r)
  PROVE  \A d \in Clients : ManagerInv(d)'
<1>1. Proceeds(c) /\ pc[c] = "act"
  BY ActedOutcome
<1>2. pc'[c] = "poll" =>
        leg'[c] = leg[c] /\ op[c] \notin Immediate /\ want'[c] = Expected(c)
  BY ActedOutcome DEF StaysAt, ReturnsDone, ReturnsElse
<1>3. Waits(c)'
  <2>1. SUFFICES ASSUME pc'[c] = "poll" PROVE Waits(c)'
    BY DEF Waits
  <2>2. Expected(c)' = Expected(c)
    BY <1>1, <1>2, <2>1 DEF Expected, Verb, Proceeds
  <2>3. leg[c] \in DOMAIN Legs[op[c]]
    BY <1>1 DEF ClientTypeOK
  <2>4. QED
    BY <1>1, <1>2, <2>1, <2>2, <2>3 DEF Waits, Proceeds
<1>4. QED
  BY <1>1, <1>3, ProceedsInv

LEMMA PollInv ==
  ASSUME ClientTypeOK, \A d \in Clients : ManagerInv(d), NEW c \in Clients,
         NEW r, Poll(c, r)
  PROVE  \A d \in Clients : ManagerInv(d)'
<1>1. /\ Proceeds(c) /\ pc[c] = "poll"
      /\ pc'[c] = "poll" => leg'[c] = leg[c] /\ want'[c] = want[c]
  BY PollOutcome DEF StaysAt, ToNext, ReturnsDone, ReturnsElse
<1>2. Waits(c)'
  BY <1>1 DEF Waits, Proceeds, ManagerInv, Expected, Verb
<1>3. QED
  BY <1>1, <1>2, ProceedsInv

LEMMA StatusInv ==
  ASSUME ClientTypeOK, \A d \in Clients : ManagerInv(d), NEW c \in Clients,
         NEW r, r # Done, Status(c, r)
  PROVE  \A d \in Clients : ManagerInv(d)'
<1>1. Proceeds(c) /\ pc[c] = "status" /\ pc'[c] # "poll"
  BY StatusOutcome DEF ReturnsElse
<1>2. QED
  BY <1>1, ProceedsInv DEF Waits

LEMMA InvokeInv ==
  ASSUME ClientTypeOK, \A d \in Clients : ManagerInv(d), NEW c \in Clients,
         NEW o \in Ops, NEW a \in Arguments(o), Invoke(c, o, a[1], a[2])
  PROVE  \A d \in Clients : ManagerInv(d)'
<1>1. Installs(o) => a[1] \in Specs
  BY DEF Arguments
<1>2. /\ op'[c] = o /\ spec'[c] = a[1] /\ leg' = leg
      /\ pc'[c] = "poll" => o = "wait_for_status"
      /\ \A d \in Clients \ {c} :
           /\ pc'[d] = pc[d] /\ op'[d] = op[d] /\ spec'[d] = spec[d]
           /\ want'[d] = want[d]
  BY InvokeOutcome
<1>3. ManagerInv(c)'
  BY <1>1, <1>2 DEF ManagerInv, HasSpec, Waits
<1>4. QED
  BY <1>2, <1>3, OthersInv

LEMMA DieInv ==
  ASSUME \A d \in Clients : ManagerInv(d), NEW C, Die(C)
  PROVE  \A d \in Clients : ManagerInv(d)'
<1>1. SUFFICES ASSUME NEW d \in Clients PROVE ManagerInv(d)'
  OBVIOUS
<1>2. CASE d \in C
  <2>1. pc'[d] = "idle"
    BY <1>2, DieOutcome DEF ReturnsElse
  <2>2. QED
    BY <2>1 DEF ManagerInv, HasSpec, Waits
<1>3. CASE d \notin C
  BY <1>3, DieOutcome, OthersInv
<1>4. QED
  BY <1>2, <1>3

LEMMA ClientInitInv ==
  ASSUME ClientInit
  PROVE  ClientTypeOK /\ \A d \in Clients : ManagerInv(d)
<1>1. ClientTypeOK
  BY ManagerAssumption
     DEF ClientInit, ClientTypeOK, ServiceStatus, NoReply, Error, Replies, Kinds
<1>2. \A d \in Clients : pc[d] = "idle"
  BY DEF ClientInit
<1>3. QED
  BY <1>1, <1>2 DEF ManagerInv, HasSpec, Waits

-----------------------------------------------------------------------------
(* The methods that promise something of the process of the service. *)

Starters == {"start", "start_and_wait", "install_if_needed_and_start", "restart"}

Stoppers == {"stop_and_wait", "stop_if_needed_and_uninstall",
             "uninstall_and_wait", "restart"}

(* The last thing a method that starts the service does is to start it. *)
LEMMA LastLegStarts ==
  ASSUME ClientTypeOK, NEW c \in Clients, op[c] \in Starters
  PROVE  /\ op[c] \in {"start", "start_and_wait"} \/ Len(Legs[op[c]]) = 2
         /\ pc[c] = "act" /\ leg[c] >= Len(Legs[op[c]]) => Verb(c) = "start"
<1>1. \/ op[c] \in {"start", "start_and_wait"} /\ Legs[op[c]] = <<"start">>
      \/ Legs[op[c]] = <<"install", "start">>
      \/ Legs[op[c]] = <<"stop", "start">>
  BY DEF Starters, Legs
<1>2. pc[c] = "act" => op[c] \in DOMAIN Legs /\ leg[c] \in DOMAIN Legs[op[c]]
  BY ManagerAssumption DEF ClientTypeOK
<1>3. CASE Legs[op[c]] = <<"start">>
  BY <1>1, <1>2, <1>3 DEF Verb
<1>4. CASE Legs[op[c]] = <<"install", "start">>
  BY <1>2, <1>4 DEF Verb
<1>5. CASE Legs[op[c]] = <<"stop", "start">>
  BY <1>2, <1>5 DEF Verb
<1>6. QED
  BY <1>1, <1>3, <1>4, <1>5

(* A method that stops the service and waits has seen it stopped, or gone,  *)
(* when it reaches its second leg or, having one leg only, returns Ok.      *)
LEMMA FirstLegStops ==
  ASSUME NEW c \in Clients, Waits(c), pc[c] = "poll", op[c] \in Stoppers,
         leg[c] \in {1, 2}, op[c] \in {"stop_and_wait", "uninstall_and_wait"} \/ leg[c] = 1
  PROVE  want[c] \in {"Stopped", "NotInstalled"}
<1>1. leg[c] \in DOMAIN Legs[op[c]] /\ want[c] = Expected(c)
  BY DEF Waits, Stoppers
<1>2. \/ Legs[op[c]] = <<"stop">>
      \/ Legs[op[c]] = <<"uninstall">>
      \/ Legs[op[c]] = <<"stop", "start">> /\ leg[c] = 1
      \/ Legs[op[c]] = <<"stop", "uninstall">> /\ leg[c] = 1
  BY DEF Stoppers, Legs
<1>3. Verb(c) \in {"stop", "uninstall"}
  BY <1>1, <1>2 DEF Verb
<1>4. QED
  BY <1>1, <1>3 DEF Expected

(* What an answer to a status query makes of a method: it returns Ok only   *)
(* from the poll of its last leg.                                           *)
Answers == {Ok(s) : s \in ServiceStatus} \cup {Failed}

Asks(c, r) == Check(c, r) \/ Status(c, r) \/ Poll(c, r)

LEMMA AnswersTyped ==
  /\ Answers \subseteq Replies /\ {Done, Failed} \subseteq Replies
  /\ Done \notin Answers /\ Failed # Done
<1>1. Answers \subseteq Replies /\ {Done, Failed} \subseteq Replies
  BY DEF Answers, Done, Failed, Ok, Error, Replies, Kinds
<1>2. "none" \notin ServiceStatus
  BY DEF ServiceStatus
<1>3. QED
  BY <1>1, <1>2 DEF Answers, Done, Failed, Ok, Error

LEMMA AsksTyped ==
  ASSUME ClientTypeOK, \A d \in Clients : ManagerInv(d), NEW c \in Clients,
         NEW r \in Answers, Asks(c, r)
  PROVE  ClientTypeOK' /\ \A d \in Clients : ManagerInv(d)'
<1>1. r \in Replies /\ r # Done
  BY AnswersTyped
<1>2. QED
  BY <1>1, CheckTyped, StatusTyped, PollTyped, CheckInv, StatusInv, PollInv DEF Asks

LEMMA AsksOutcome ==
  ASSUME ClientTypeOK, NEW c \in Clients, NEW r \in Answers, Asks(c, r)
  PROVE  /\ Proceeds(c) /\ pc[c] \in {"check", "status", "poll"}
         /\ pc'[c] = "act" => leg'[c] = leg[c]
         /\ pc'[c] = "poll" => pc[c] = "poll" /\ leg'[c] = leg[c]
         /\ pc'[c] = "idle" /\ reply'[c] = Done =>
              pc[c] = "poll" /\ leg[c] >= Len(Legs[op[c]])
<1>1. r # Done
  BY AnswersTyped
<1>2. QED
  BY <1>1, CheckOutcome, StatusOutcome, PollOutcome
     DEF Asks, ToNext, StaysAt, ReturnsDone, ReturnsElse

(* A method that starts the service is through with its last leg, or waits   *)
(* for the effect of it, only when it has started the service.               *)
LEMMA ActedStarts ==
  ASSUME ClientTypeOK, NEW c \in Clients, NEW r \in {Done, Failed}, Acted(c, r),
         op[c] \in Starters,
         \/ pc'[c] = "poll" /\ leg'[c] >= Len(Legs[op[c]])
         \/ pc'[c] = "idle" /\ reply'[c] = Done
  PROVE  Verb(c) = "start" /\ r = Done
<1>1. /\ pc[c] = "act"
      /\ \/ r = Done /\ StaysAt(c, "poll")
         \/ r = Done /\ ReturnsDone(c) /\ op[c] \in Immediate
  BY ActedOutcome DEF ReturnsElse
<1>2. CASE StaysAt(c, "poll")
  BY <1>1, <1>2, LastLegStarts DEF StaysAt
<1>3. CASE op[c] \in Immediate
  <2>1. op[c] = "start" /\ leg[c] \in DOMAIN Legs[op[c]]
    BY <1>1, <1>3 DEF Starters, Immediate, ClientTypeOK
  <2>2. Legs[op[c]] = <<"start">>
    BY <2>1 DEF Legs
  <2>3. Verb(c) = "start"
    BY <2>1, <2>2 DEF Verb
  <2>4. QED
    BY <1>1, <2>3
<1>4. QED
  BY <1>1, <1>2, <1>3

(* A method that stops the service and waits does not return Ok, or go on to *)
(* its second leg, but on the answer that the service is stopped or gone,    *)
(* now or before that leg.                                                   *)
LEMMA ActedStops ==
  ASSUME ClientTypeOK, NEW c \in Clients, NEW r \in {Done, Failed}, Acted(c, r),
         op[c] \in Stoppers
  PROVE  Proceeds(c) /\ (StaysAt(c, "poll") \/ ReturnsElse(c))
<1>1. op[c] \notin Immediate
  BY DEF Stoppers, Immediate
<1>2. QED
  BY <1>1, ActedOutcome

LEMMA AsksStops ==
  ASSUME ClientTypeOK, NEW c \in Clients, ManagerInv(c), NEW r \in Answers,
         Asks(c, r), op[c] \in Stoppers,
         r \notin {Ok("Stopped"), Ok("NotInstalled")}
  PROVE  /\ pc'[c] # "idle" => leg'[c] = leg[c]
         /\ pc'[c] = "idle" /\ reply'[c] = Done => leg[c] = 2
<1>1. r # Done /\ leg[c] \in {1, 2}
  BY AnswersTyped DEF ClientTypeOK
<1>2. CASE Check(c, r)
  <2>1. ASSUME Tolerated(c, Refusal(c, r)) PROVE FALSE
    <3>1. Refusal(c, r) = WrongState("Stopped")
      BY <2>1 DEF Tolerated, Stoppers
    <3>2. r.kind = "Ok" => r = Ok(r.status)
      BY DEF Answers, Ok, Failed, Error
    <3>3. Failed # WrongState("Stopped")
      BY DEF Failed, Error, WrongState
    <3>4. r.kind = "Ok" /\ Refusal(c, r) = WrongState(r.status)
      <4>1. r.kind # "Ok" => r = Failed
        BY DEF Answers, Ok
      <4>2. Error("BadServiceSpec") # WrongState("Stopped") /\ Error("AlreadyInstalled") # WrongState("Stopped")
        BY DEF Error, WrongState
      <4>3. r.kind # "Ok" => Refusal(c, r) = r
        BY DEF Refusal
      <4>4. r.kind = "Ok" => Refusal(c, r) \in {Error("BadServiceSpec"), Error("AlreadyInstalled"), WrongState(r.status)}
        BY DEF Refusal
      <4>5. QED
        BY <3>1, <3>3, <4>1, <4>2, <4>3, <4>4
    <3>5. r.status = "Stopped"
      BY <3>1, <3>4 DEF WrongState
    <3>6. QED
      BY <3>2, <3>4, <3>5
  <2>2. QED
    BY <1>1, <1>2, <2>1, CheckOutcome DEF StaysAt, ReturnsElse
<1>3. CASE Status(c, r)
  BY <1>1, <1>3, StatusOutcome DEF ReturnsElse
<1>4. CASE Poll(c, r)
  <2>1. pc[c] = "poll"
    BY <1>4 DEF Poll
  <2>2. want[c] \in {"Stopped", "NotInstalled"} => r # Ok(want[c])
    OBVIOUS
  <2>3. leg[c] = 1 => r # Ok(want[c])
    BY <1>1, <2>1, <2>2, FirstLegStops DEF ManagerInv
  <2>4. QED
    BY <1>1, <1>4, <2>3, PollOutcome
       DEF StaysAt, ToNext, ReturnsDone, ReturnsElse
<1>5. QED
  BY <1>2, <1>3, <1>4 DEF Asks

-----------------------------------------------------------------------------
(* What the clients' steps are in ServiceManagement: a client begins to act, *)
(* ends, or rests, and so does every other client meanwhile.                 *)

Doing(c) == IF pc[c] = "act" THEN Verb(c) ELSE "none"

Resting(c)   == Doing(c)' = Doing(c) /\ (Succeeded(c)' => Succeeded(c))
Beginning(c) == Doing(c) = "none" /\ Doing(c)' \in DOMAIN Needed /\ ~Succeeded(c)'
Ending(c)    == Doing(c) # "none" /\ Doing(c)' = "none"

LEMMA QuietRests ==
  ASSUME UNCHANGED clientVars
  PROVE  \A d \in Clients : Resting(d)
  BY DEF clientVars, Resting, Doing, Verb, Succeeded

LEMMA ProceedsRests ==
  ASSUME NEW c \in Clients, Proceeds(c)
  PROVE  \A d \in Clients \ {c} : Resting(d)
  BY DEF Proceeds, Resting, Doing, Verb, Succeeded

LEMMA AsksManages ==
  ASSUME ClientTypeOK, NEW c \in Clients, ManagerInv(c), NEW r \in Answers,
         Asks(c, r)
  PROVE  /\ \A d \in Clients \ {c} : Resting(d)
         /\ \/ Resting(c)
            \/ /\ Beginning(c) /\ pc[c] = "check" /\ Doing(c)' = Verb(c)
               /\ r = Ok(Needed[Verb(c)])
<1>1. /\ Proceeds(c) /\ pc[c] \in {"check", "status", "poll"}
      /\ pc'[c] = "poll" => pc[c] = "poll"
      /\ pc'[c] = "idle" /\ reply'[c] = Done => pc[c] = "poll"
  BY AsksOutcome
<1>2. pc[c] = "poll" => op[c] \notin Immediate
  BY DEF ManagerInv, Waits, Immediate
<1>3. Succeeded(c)' => Succeeded(c)
  BY <1>1, <1>2 DEF Succeeded, Proceeds
<1>4. CASE pc'[c] # "act"
  BY <1>1, <1>3, <1>4, ProceedsRests DEF Resting, Doing
<1>5. CASE pc'[c] = "act"
  <2>1. Check(c, r)
    BY <1>5, AnswersTyped, StatusOutcome, PollOutcome
       DEF Asks, StaysAt, ToNext, ReturnsDone, ReturnsElse
  <2>2. pc[c] = "check" /\ leg'[c] = leg[c] /\ r = Ok(Needed[Verb(c)])
    BY <1>5, <2>1, AnswersTyped, CheckOutcome
       DEF StaysAt, ToNext, ReturnsElse, Admitted
  <2>3. Doing(c) = "none" /\ Doing(c)' = Verb(c) /\ ~Succeeded(c)'
    BY <1>1, <1>5, <2>2 DEF Doing, Verb, Proceeds, Succeeded
  <2>4. Verb(c) \in DOMAIN Needed
    BY <2>2, VerbIsNeeded
  <2>5. QED
    BY <1>1, <2>2, <2>3, <2>4, ProceedsRests DEF Beginning
<1>6. QED
  BY <1>4, <1>5

LEMMA ActedManages ==
  ASSUME ClientTypeOK, NEW c \in Clients, NEW r \in {Done, Failed}, Acted(c, r)
  PROVE  /\ \A d \in Clients \ {c} : Resting(d)
         /\ Ending(c) /\ Doing(c) = Verb(c) /\ (Succeeded(c)' => r = Done)
<1>1. Proceeds(c) /\ pc[c] = "act" /\ pc'[c] # "act" /\ (Succeeded(c)' => r = Done)
  BY ActedOutcome DEF StaysAt, ReturnsDone, ReturnsElse, Succeeded
<1>2. Verb(c) # "none"
  BY <1>1, VerbIsNeeded DEF Needed
<1>3. QED
  BY <1>1, <1>2, ProceedsRests DEF Ending, Doing

LEMMA InvokeManages ==
  ASSUME ClientTypeOK, NEW c \in Clients, NEW o \in Ops, NEW s, NEW w,
         Invoke(c, o, s, w)
  PROVE  \A d \in Clients : Resting(d)
<1>1. Resting(c)
  BY InvokeOutcome DEF Resting, Doing, Succeeded
<1>2. \A d \in Clients \ {c} : Resting(d)
  BY InvokeOutcome DEF Resting, Doing, Verb, Succeeded
<1>3. QED
  BY <1>1, <1>2

LEMMA DieManages ==
  ASSUME NEW C, Die(C)
  PROVE  \A d \in Clients : Resting(d) \/ (Ending(d) /\ ~Succeeded(d)')
<1>1. SUFFICES ASSUME NEW d \in Clients
               PROVE  Resting(d) \/ (Ending(d) /\ ~Succeeded(d)')
  OBVIOUS
<1>2. CASE d \in C
  BY <1>2, DieOutcome DEF Resting, Ending, Doing, Succeeded, ReturnsElse
<1>3. CASE d \notin C
  BY <1>3, DieOutcome DEF Resting, Doing, Verb, Succeeded
<1>4. QED
  BY <1>2, <1>3

-----------------------------------------------------------------------------
(* How much is left of a call: for client c and n commands of its platform's *)
(* method, how many steps of its own, at most.                               *)
Left(c, n) ==
  (IF pc[c] # "idle" /\ leg[c] = 1 THEN MaxPolls + 7 ELSE 0)
    + CASE pc[c] = "idle"   -> 0
        [] pc[c] = "status" -> 1
        [] pc[c] = "check"  -> MaxPolls + 6
        [] pc[c] = "act"    -> MaxPolls + 1 + n
        [] pc[c] = "poll"   -> MaxPolls + 1 - polls[c]

LEMMA LeftTyped ==
  ASSUME ClientTypeOK, NEW c \in Clients, NEW n \in 1..4
  PROVE  /\ Left(c, n) \in 0..(2 * MaxPolls + 13)
         /\ Left(c, n) = 0 <=> pc[c] = "idle"
<1>1. /\ pc[c] \in {"idle", "status", "check", "act", "poll"}
      /\ leg[c] \in {1, 2} /\ polls[c] \in 0..MaxPolls /\ MaxPolls \in Nat
  BY ManagerAssumption DEF ClientTypeOK
<1>2. QED
  BY <1>1 DEF Left

(* An answer brings a call nearer to its end... *)
LEMMA AsksShortens ==
  ASSUME ClientTypeOK, ClientTypeOK', NEW c \in Clients, NEW r \in Answers,
         Asks(c, r), NEW n \in 1..4, NEW m \in 1..4
  PROVE  Left(c, m)' < Left(c, n)
<1>1. /\ leg[c] \in {1, 2} /\ polls[c] \in 0..MaxPolls /\ MaxPolls \in Nat
      /\ leg'[c] \in {1, 2} /\ polls'[c] \in 0..MaxPolls /\ r # Done
  BY ManagerAssumption, AnswersTyped DEF ClientTypeOK
<1>2. CASE pc'[c] = "idle"
  <2>1. pc[c] \in {"check", "status", "poll"}
    BY AsksOutcome
  <2>2. Left(c, m)' = 0 /\ Left(c, n) > 0
    BY <1>1, <1>2, <2>1 DEF Left
  <2>3. QED
    BY <1>1, <2>2
<1>3. CASE ToNext(c)
  <2>1. pc[c] \in {"check", "status", "poll"}
    BY AsksOutcome
  <2>2. QED
    BY <1>1, <1>3, <2>1 DEF ToNext, Left
<1>4. CASE pc[c] = "check" /\ StaysAt(c, "act")
  BY <1>1, <1>4 DEF StaysAt, Left
<1>5. CASE /\ pc[c] = "poll" /\ polls[c] < MaxPolls
           /\ polls' = [polls EXCEPT ![c] = @ + 1]
           /\ UNCHANGED <<pc, leg>>
  <2>1. polls'[c] = polls[c] + 1
    BY <1>5 DEF ClientTypeOK
  <2>2. QED
    BY <1>1, <1>5, <2>1 DEF Left
<1>6. CASE Check(c, r)
  BY <1>1, <1>2, <1>3, <1>4, <1>6, CheckOutcome DEF ReturnsElse
<1>7. CASE Status(c, r)
  BY <1>1, <1>2, <1>7, StatusOutcome DEF ReturnsElse
<1>8. CASE Poll(c, r)
  <2>1. CASE LegDone(c)
    BY <1>2, <1>3, <1>8, <2>1, LegDoneOutcome DEF Poll, ReturnsDone
  <2>2. ASSUME NEW e, e # Done, Fail(c, e) PROVE Left(c, m)' < Left(c, n)
    BY <1>2, <1>3, <1>8, <2>2, FailOutcome DEF Poll, ReturnsElse
  <2>3. Timeout(r.status) # Done /\ Error("TimeoutError") # Done
    BY DEF Timeout, Error, Done, Ok
  <2>4. QED
    BY <1>5, <1>8, <2>1, <2>2, <2>3 DEF Poll
<1>9. QED
  BY <1>6, <1>7, <1>8 DEF Asks

(* ...and so does the platform. *)
LEMMA ActedShortens ==
  ASSUME ClientTypeOK, ClientTypeOK', NEW c \in Clients, NEW r \in {Done, Failed},
         Acted(c, r), NEW n \in 1..4, NEW m \in 1..4
  PROVE  Left(c, m)' < Left(c, n)
<1>1. /\ leg[c] \in {1, 2} /\ polls'[c] \in 0..MaxPolls /\ MaxPolls \in Nat
  BY ManagerAssumption DEF ClientTypeOK
<1>2. pc[c] = "act" /\ (StaysAt(c, "poll") \/ pc'[c] = "idle")
  BY ActedOutcome DEF ReturnsDone, ReturnsElse
<1>3. QED
  BY <1>1, <1>2 DEF StaysAt, Left

LEMMA ThenShortens ==
  ASSUME ClientTypeOK, NEW c \in Clients, pc[c] = "act", UNCHANGED clientVars,
         NEW n \in 1..4, NEW m \in 1..4, m < n
  PROVE  Left(c, m)' < Left(c, n)
<1>1. MaxPolls \in Nat
  BY ManagerAssumption
<1>2. QED
  BY <1>1 DEF clientVars, Left

(* Nobody else's steps make it longer. *)
LEMMA OthersPolls ==
  ASSUME ClientTypeOK, NEW c \in Clients,
         \/ \E r : Asks(c, r) \/ Acted(c, r)
         \/ \E o, s, w : Invoke(c, o, s, w)
  PROVE  \A d \in Clients \ {c} : polls'[d] = polls[d]
<1>1. LegDone(c) => \A d \in Clients \ {c} : polls'[d] = polls[d]
  BY DEF LegDone, Return, ClientTypeOK
<1>2. ASSUME NEW e, Fail(c, e) PROVE \A d \in Clients \ {c} : polls'[d] = polls[d]
  BY <1>1, <1>2 DEF Fail, Return, ClientTypeOK
<1>3. ASSUME NEW r, Asks(c, r) PROVE \A d \in Clients \ {c} : polls'[d] = polls[d]
  BY <1>1, <1>2, <1>3 DEF Asks, Check, GoTo, Status, Return, Poll, ClientTypeOK
<1>4. ASSUME NEW r, Acted(c, r) PROVE \A d \in Clients \ {c} : polls'[d] = polls[d]
  BY <1>1, <1>2, <1>4 DEF Acted
<1>5. QED
  BY <1>3, <1>4 DEF Invoke

LEMMA OthersKeep ==
  ASSUME NEW d \in Clients, NEW n \in 1..4,
         pc'[d] = pc[d], leg'[d] = leg[d], polls'[d] = polls[d]
  PROVE  Left(d, n)' = Left(d, n)
  BY DEF Left

(* The same for a platform that has ahead[s] commands to go at step s. *)
LEMMA StepShortens ==
  ASSUME ClientTypeOK, ClientTypeOK', NEW c \in Clients, NEW ahead,
         \A d \in Clients : ahead[step[d]] \in 1..4 /\ ahead[step'[d]] \in 1..4,
         \A d \in Clients \ {c} : step'[d] = step[d],
         \/ \E r \in Answers : Asks(c, r)
         \/ \E r \in {Done, Failed} : Acted(c, r)
         \/ /\ pc[c] = "act" /\ UNCHANGED clientVars
            /\ ahead[step'[c]] < ahead[step[c]]
  PROVE  /\ Left(c, ahead[step[c]])' < Left(c, ahead[step[c]])
         /\ \A d \in Clients \ {c} :
              Left(d, ahead[step[d]])' = Left(d, ahead[step[d]])
<1>1. Left(c, ahead[step[c]])' < Left(c, ahead[step[c]])
  BY AsksShortens, ActedShortens, ThenShortens
<1>2. ASSUME NEW d \in Clients \ {c}
      PROVE  pc'[d] = pc[d] /\ leg'[d] = leg[d] /\ polls'[d] = polls[d]
  <2>1. CASE UNCHANGED clientVars
    BY <2>1 DEF clientVars
  <2>2. CASE (\E r \in Answers : Asks(c, r)) \/ \E r \in {Done, Failed} : Acted(c, r)
    <3>1. Proceeds(c)
      BY <2>2, AsksOutcome, ActedOutcome
    <3>2. polls'[d] = polls[d]
      BY <2>2, OthersPolls
    <3>3. QED
      BY <3>1, <3>2 DEF Proceeds
  <2>3. QED
    BY <2>1, <2>2
<1>3. QED
  BY <1>1, <1>2, OthersKeep

LEMMA CallLeaves ==
  ASSUME ClientTypeOK, NEW c \in Clients, NEW o \in Ops, NEW s, NEW w,
         Invoke(c, o, s, w), UNCHANGED step, NEW ahead,
         \A d \in Clients : ahead[step[d]] \in 1..4
  PROVE  \A d \in Clients : pc[d] # "idle" =>
           Left(d, ahead[step[d]])' = Left(d, ahead[step[d]])
<1>1. pc[c] = "idle" /\ leg' = leg /\ \A d \in Clients \ {c} : pc'[d] = pc[d]
  BY InvokeOutcome
<1>2. \A d \in Clients : polls'[d] = polls[d]
  BY DEF Invoke
<1>3. QED
  BY <1>1, <1>2, OthersKeep

LEMMA DieLeaves ==
  ASSUME ClientTypeOK, NEW C, DieAtStep(C), NEW ahead,
         \A d \in Clients : ahead[step[d]] \in 1..4
  PROVE  \A d \in Clients :
           \/ Left(d, ahead[step[d]])' = Left(d, ahead[step[d]])
           \/ Left(d, ahead[step[d]])' = 0
<1>1. SUFFICES ASSUME NEW d \in Clients
               PROVE  \/ Left(d, ahead[step[d]])' = Left(d, ahead[step[d]])
                      \/ Left(d, ahead[step[d]])' = 0
  OBVIOUS
<1>2. CASE d \in C
  <2>1. pc'[d] = "idle"
    BY <1>2 DEF DieAtStep, Die
  <2>2. QED
    BY <2>1 DEF Left
<1>3. CASE d \notin C
  BY <1>3, OthersKeep DEF DieAtStep, Die
<1>4. QED
  BY <1>2, <1>3

LEMMA QuietLeaves ==
  ASSUME UNCHANGED <<clientVars, step>>, NEW ahead
  PROVE  \A d \in Clients : Left(d, ahead[step[d]])' = Left(d, ahead[step[d]])
  BY DEF clientVars, Left

=============================================================================
