--------------------------- MODULE BrowserProofs ----------------------------
(***************************************************************************)
(* Proofs about what the browser shows: one session of the bridge that     *)
(* drives it, and the states, edges and documents the ledger keeps of      *)
(* what was seen.                                                          *)
(***************************************************************************)
EXTENDS BridgeSession, BehaviorLedger, SequenceFacts

(***************************************************************************)
(* BridgeSession: what the host keeps and reports is what node ran.        *)
(* The invariant says where the one open request is (not sent, at node,    *)
(* answered) and how far node and host have come at each place of the      *)
(* command.                                                                *)
(***************************************************************************)

\* Has node answered the open request?
Served == \E k \in DOMAIN outbox : outbox[k].id # 0

\* One request is open at most, and one answer: everything else is stray.
WireInv ==
  /\ \A k \in DOMAIN outbox : outbox[k].id \in {0, id}
  /\ \A j, k \in DOMAIN outbox : outbox[j].id # 0 /\ outbox[k].id # 0 => j = k
  /\ at # "returned" /\ phase \in {"send", "blocked"} => inbox = << >> /\ ~Served
  /\ at # "returned" /\ inbox # << >> => inbox = <<NewRequest(id)>> /\ ~Served
  /\ at # "returned" /\ phase # "send" => id # 0 /\ at \in Method
  /\ at = "returned" => ~nodeUp

\* How many steps node has executed and the host has been told of.
Told == IF at = "execute_step" THEN step - 1 ELSE step

\* Node executes in order, and nothing after a failure.
NodeInv ==
  /\ \A k \in DOMAIN executed :
       executed[k].step = k /\ (executed[k].answer # "ok" => k = Len(executed))
  /\ at # "returned" =>
       Len(executed) = IF at = "execute_step" /\ Served THEN step ELSE Told
  /\ at \in {"initialize", "prepare"} => step = 0
  /\ at \in {"execute_step", "collect_ui"} => step # 0
  /\ nodeUp /\ at \in {"observe", "execute_step", "collect_ui", "capture_failure_reel"}
       => browser = "up"
  /\ at \notin {"finish", "close", "returned"} => ~limited
  /\ at = "finish" /\ ~Served => ~limited
  /\ ~nodeUp /\ browser = "up" => crashed

\* What an answer on its way says.
AnswerInv ==
  at # "returned" =>
    \A k \in DOMAIN outbox : outbox[k].id # 0 =>
      /\ outbox[k].after = Len(executed)
      /\ at = "execute_step" => outbox[k].answer = executed[step].answer
      /\ at = "prepare" /\ outbox[k].answer = "ok" /\ nodeUp => browser = "up"
      /\ at = "finish" => outbox[k].limited = limited

\* Did each of the first n steps succeed?
AllOk(n) == \A k \in 1..n : executed[k].answer = "ok"

\* The verdict so far, and when the loop over the steps is left.
VerdictInv ==
  /\ at \in Method => (passed <=> AllOk(Told))
  /\ at = "execute_step" => passed
  /\ at = "capture_failure_reel" => ~passed
  /\ at = "finish" /\ passed => step = Len(Program)
  /\ at \in {"observe", "collect_ui"} /\ step # 0 => result = executed[step].answer
  /\ at = "close" \/ outcome = "run" =>
       (passed <=> Len(executed) = Len(Program) /\ AllOk(Len(executed))
                   /\ ~(config.replays /\ limited))

\* How many observations the host has kept.
Observed ==
  IF at \in {"initialize", "prepare", "observe", "execute_step"} THEN step ELSE step + 1

ObservationInv ==
  /\ \A k \in DOMAIN observations : observations[k] = k - 1
  /\ at # "returned" => Len(observations) = Observed

\* How many steps the notes speak of.
Noted ==
  IF at \in {"observe", "execute_step", "collect_ui"} /\ step # 0 THEN step - 1 ELSE step

Noting(i) == [step |-> notes[i].step, answer |-> notes[i].answer]

\* The notes are the assertions among the first n steps executed.
NotesAre(n) ==
  /\ \A i \in DOMAIN notes : \E k \in 1..n : Program[k] # Act /\ Noting(i) = executed[k]
  /\ \A k \in 1..n : Program[k] # Act => \E i \in DOMAIN notes : Noting(i) = executed[k]

NotesInv ==
  /\ \A i \in DOMAIN notes : notes[i].observation = notes[i].step + 1
  /\ at # "returned" => NotesAre(Noted)
  /\ outcome = "run" => NotesAre(Len(executed))

\* Only close reports a run.
EndInv == (outcome # "none") <=> (at = "returned")

IInv ==
  /\ TypeOK /\ WireInv /\ NodeInv /\ AnswerInv
  /\ VerdictInv /\ ObservationInv /\ NotesInv /\ EndInv
-----------------------------------------------------------------------------
(* Sequences. *)

LEMMA TailElements ==
  ASSUME NEW S, NEW s \in Seq(S), s # << >>
  PROVE  /\ Tail(s) \in Seq(S) /\ Head(s) \in S /\ Head(s) = s[1]
         /\ Len(s) \in Nat \ {0} /\ Len(Tail(s)) = Len(s) - 1
         /\ DOMAIN Tail(s) = 1..(Len(s) - 1) /\ DOMAIN s = 1..Len(s)
         /\ \A k \in 1..(Len(s) - 1) : Tail(s)[k] = s[k + 1]
  OBVIOUS

LEMMA AppendElements ==
  ASSUME NEW S, NEW s \in Seq(S), NEW e \in S
  PROVE  /\ Append(s, e) \in Seq(S) /\ Len(Append(s, e)) = Len(s) + 1 /\ Len(s) \in Nat
         /\ DOMAIN Append(s, e) = 1..(Len(s) + 1) /\ DOMAIN s = 1..Len(s)
         /\ Append(s, e)[Len(s) + 1] = e
         /\ \A k \in 1..Len(s) : Append(s, e)[k] = s[k]
  OBVIOUS

LEMMA ElementOf ==
  ASSUME NEW S, NEW s \in Seq(S), NEW k \in DOMAIN s
  PROVE  s[k] \in S
  OBVIOUS

LEMMA ProgramSteps ==
  /\ Len(Program) \in Nat
  /\ \A k \in 1..Len(Program) : Program[k] \in Obligation \cup {Act}
  BY ConstantsAssumption
-----------------------------------------------------------------------------
(* Types. *)

LEMMA EndTypes ==
  ASSUME TypeOK, NEW o \in {"run", "remote", "protocol", "io", "deadline", "cancelled"},
         End(o), UNCHANGED <<config, kept, outbox, clock>>, inbox' \in {inbox, Tail(inbox)},
         inbox' \in Seq(Request)
  PROVE  TypeOK'
<1>1. nodeUp' \in BOOLEAN /\ browser' \in {"none", "up", "closed", "killed"}
  BY DEF TypeOK, End, Drop
<1>2. /\ at' \in Method \cup {"close", "returned"}
      /\ outcome' \in {"none", "run", "remote", "protocol", "io", "deadline", "cancelled"}
      /\ UNCHANGED <<phase, id, executed, limited, crashed, strays>>
  BY DEF End
<1>3. UNCHANGED <<config, step, result, passed, observations, notes, outbox, late, grace,
                  cancel>>
  BY DEF kept, clock
<1> QED BY <1>1, <1>2, <1>3 DEF TypeOK

LEMMA NextStepTypes ==
  ASSUME TypeOK, NextStep
  PROVE  /\ step' \in Steps /\ at' \in Method /\ phase' = "send"
         /\ UNCHANGED <<id, outcome, node>>
  BY ProgramSteps DEF TypeOK, NextStep, Ask, Steps, Method

LEMMA AfterStepTypes ==
  ASSUME TypeOK, NEW n \in Nat, AfterStep(n)
  PROVE  /\ step' \in Steps /\ at' \in Method /\ phase' = "send" /\ notes' \in Seq(Note)
         /\ UNCHANGED <<id, outcome, node>>
<1>1. [step |-> step, observation |-> n, answer |-> result] \in Note
  BY DEF TypeOK, Note
<1>2. notes' \in Seq(Note)
  BY <1>1, AppendElements DEF AfterStep, TypeOK
<1>3. step' \in Steps /\ at' \in Method /\ phase' = "send" /\ UNCHANGED <<id, outcome, node>>
  BY NextStepTypes DEF AfterStep, TypeOK, Ask, Method
<1> QED BY <1>2, <1>3

LEMMA HandleTypes ==
  ASSUME TypeOK, NEW r \in Reply, Handle(r), at \in Method,
         outbox' \in Seq(Reply), UNCHANGED <<config, inbox, clock>>
  PROVE  TypeOK'
<1> USE DEF Ask, kept, Method
<1>1. CASE End("remote") /\ UNCHANGED kept
  BY <1>1 DEF TypeOK, End, Drop, clock
<1>2. CASE End("protocol") /\ UNCHANGED kept
  BY <1>2 DEF TypeOK, End, Drop, clock
<1>3. CASE (Ask("prepare") \/ Ask("observe") \/ Ask("finish")) /\ UNCHANGED kept
  BY <1>3 DEF TypeOK, clock, node
<1>4. CASE GotObservation(r)
  <2>1. observations' \in Seq(Nat)
    BY <1>4, AppendElements DEF GotObservation, TypeOK, Reply
  <2>2. /\ step' \in Steps /\ at' \in Method /\ phase' = "send" /\ notes' \in Seq(Note)
        /\ UNCHANGED <<id, outcome, node, result, passed>>
    <3>1. CASE step = 0 /\ NextStep /\ UNCHANGED notes
      BY <3>1, <1>4, NextStepTypes DEF GotObservation, TypeOK
    <3>2. CASE step # 0 /\ Ask("collect_ui") /\ UNCHANGED <<step, notes>>
      BY <3>2, <1>4 DEF GotObservation, TypeOK
    <3>3. CASE AfterStep(Len(observations) + 1)
      <4>1. Len(observations) + 1 \in Nat
        BY DEF TypeOK
      <4> QED BY <4>1, <3>3, <1>4, AfterStepTypes DEF GotObservation
    <3> QED BY <3>1, <3>2, <3>3, <1>4 DEF GotObservation
  <2> QED BY <2>1, <2>2 DEF TypeOK, clock, node
<1>5. CASE GotFinish(r)
  BY <1>5 DEF GotFinish, Concluded, TypeOK, clock, node, Reply, Config
<1>6. CASE GotStep(r)
  BY <1>6 DEF GotStep, TypeOK, clock, node, Reply
<1>7. CASE GotUi(r)
  <2>1. Len(observations) \in Nat
    BY DEF TypeOK
  <2>2. /\ step' \in Steps /\ at' \in Method /\ phase' = "send" /\ notes' \in Seq(Note)
        /\ UNCHANGED <<id, outcome, node, result, passed, observations>>
    BY <2>1, <1>7, AfterStepTypes DEF GotUi
  <2> QED BY <2>2 DEF TypeOK, clock, node
<1> QED BY <1>1, <1>2, <1>3, <1>4, <1>5, <1>6, <1>7 DEF Handle, GotReel

LEMMA ServeTypes == ASSUME TypeOK, Serve PROVE TypeOK'
<1> DEFINE request == Head(inbox)
<1>1. request \in Request /\ Tail(inbox) \in Seq(Request)
  BY TailElements DEF Serve, TypeOK
<1>2. PICK answer \in Answers(request), short \in BOOLEAN :
        /\ executed' = IF request.method = "execute_step" /\ browser = "up"
                       THEN Append(executed, [step |-> request.step, answer |-> answer])
                       ELSE executed
        /\ outbox' = Append(outbox, [id |-> request.id, answer |-> answer,
                                     after |-> Len(executed'), limited |-> short])
        /\ limited' = (limited \/ short)
        /\ browser' \in Browsers(request, answer)
  BY DEF Serve
<1>3. answer \in Answer
  <2> HIDE DEF request
  <2> QED BY <1>2 DEF Answers, Answer
<1>4. executed' \in Seq([step : Steps, answer : Answer])
  BY <1>1, <1>2, <1>3, AppendElements DEF TypeOK, Request
<1>5. [id |-> request.id, answer |-> answer, after |-> Len(executed'), limited |-> short] \in Reply
  BY <1>1, <1>2, <1>3, <1>4 DEF Reply, Request
<1>6. outbox' \in Seq(Reply)
  BY <1>2, <1>5, AppendElements DEF TypeOK
<1>7. browser' \in {"none", "up", "closed", "killed"} /\ limited' \in BOOLEAN
  BY <1>2 DEF Browsers, TypeOK
<1> QED BY <1>1, <1>4, <1>6, <1>7 DEF Serve, TypeOK, host, kept, clock

LEMMA SendTypes == ASSUME TypeOK, Send PROVE TypeOK'
<1>1. CASE (End("cancelled") \/ End("io")) /\ UNCHANGED inbox
  BY <1>1, EndTypes DEF Send, TypeOK
<1>2. CASE /\ id' = id + 1
           /\ \/ phase' = "blocked" /\ UNCHANGED inbox
              \/ phase' = "check" /\ inbox' = Append(inbox, NewRequest(id + 1))
           /\ UNCHANGED <<at, outcome, node>>
  <2>1. NewRequest(id + 1) \in Request /\ id + 1 \in Nat
    BY DEF NewRequest, Request, Send, TypeOK
  <2>2. Append(inbox, NewRequest(id + 1)) \in Seq(Request)
    BY <2>1, AppendElements DEF TypeOK
  <2>3. inbox' \in Seq(Request)
    BY <1>2, <2>2 DEF TypeOK
  <2>4. phase' \in {"send", "blocked", "check", "receive"}
    BY <1>2
  <2> QED BY <1>2, <2>1, <2>3, <2>4 DEF Send, TypeOK, kept, node, clock
<1> QED BY <1>1, <1>2 DEF Send

LEMMA DrainTypes == ASSUME TypeOK, WireInv, Drain PROVE TypeOK'
<1>1. NewRequest(id) \in Request
  BY DEF NewRequest, Request, Drain, TypeOK, WireInv
<1>2. inbox' \in Seq(Request)
  BY <1>1, AppendElements DEF TypeOK, Drain
<1> QED BY <1>2 DEF Drain, TypeOK, kept, node, clock

LEMMA StrayTypes == ASSUME TypeOK, Stray PROVE TypeOK'
<1>1. [id |-> 0, answer |-> "ok", after |-> 0, limited |-> FALSE] \in Reply
  BY DEF Reply, Answer
<1>2. outbox' \in Seq(Reply)
  BY <1>1, AppendElements DEF Stray, TypeOK
<1> QED BY <1>2, ConstantsAssumption DEF Stray, TypeOK, host, kept, clock

LEMMA ReceiveTypes == ASSUME TypeOK, Receive PROVE TypeOK'
<1>1. Head(outbox) \in Reply /\ Tail(outbox) \in Seq(Reply)
  BY TailElements DEF Receive, TypeOK
<1>2. CASE Handle(Head(outbox))
  BY <1>1, <1>2, HandleTypes DEF Receive
<1>3. CASE End("protocol") /\ UNCHANGED kept
  BY <1>1, <1>3 DEF Receive, TypeOK, End, Drop, kept, clock
<1> QED BY <1>2, <1>3 DEF Receive

LEMMA TypeStep == ASSUME TypeOK, WireInv, [Next]_vars PROVE TypeOK'
<1>1. CASE Serve  BY <1>1, ServeTypes
<1>2. CASE Drain  BY <1>2, DrainTypes
<1>3. CASE Stray  BY <1>3, StrayTypes
<1>4. CASE Crash
  <2>1. nodeUp' \in BOOLEAN /\ crashed' \in BOOLEAN
    BY <1>4 DEF Crash
  <2>2. UNCHANGED <<host, wires, executed, limited, strays, clock>>
    BY <1>4 DEF Crash
  <2>3. browser' \in {"none", "up", "closed", "killed"}
    BY <1>4 DEF Crash, TypeOK
  <2> QED BY <2>1, <2>2, <2>3 DEF TypeOK, host, kept, wires, clock
<1>13. CASE Exit
  <2>1. nodeUp' \in BOOLEAN
    BY <1>13 DEF Exit
  <2>2. UNCHANGED <<host, wires, executed, limited, browser, crashed, strays, clock>>
    BY <1>13 DEF Exit
  <2> QED BY <2>1, <2>2 DEF TypeOK, host, kept, wires, clock
<1>5. CASE Tick
  BY <1>5 DEF Tick, TypeOK, host, kept, wires, node
<1>14. CASE Grace
  BY <1>14 DEF Grace, TypeOK, host, kept, wires, node
<1>15. CASE Cancel
  BY <1>15 DEF Cancel, TypeOK, host, kept, wires, node
<1>6. CASE Send  BY <1>6, SendTypes
<1>7. CASE BrokenPipe
  BY <1>7, EndTypes DEF BrokenPipe, wires, TypeOK
<1>8. CASE Check
  <2>1. CASE End("cancelled") \/ End("deadline")
    BY <1>8, <2>1, EndTypes DEF Check, wires, TypeOK
  <2>2. CASE phase' = "receive" /\ UNCHANGED <<at, id, outcome, node>>
    BY <1>8, <2>2 DEF Check, TypeOK, kept, wires, node, clock
  <2> QED BY <1>8, <2>1, <2>2 DEF Check
<1>9. CASE ReceiveNothing
  <2>1. CASE End("protocol")
    BY <1>9, <2>1, EndTypes DEF ReceiveNothing, wires, TypeOK
  <2>2. CASE phase' = "check" /\ UNCHANGED <<at, id, outcome, node>>
    BY <1>9, <2>2 DEF ReceiveNothing, TypeOK, kept, wires, node, clock
  <2> QED BY <1>9, <2>1, <2>2 DEF ReceiveNothing
<1>10. CASE Receive  BY <1>10, ReceiveTypes
<1>11. CASE Close
  BY <1>11 DEF Close, End, Drop, TypeOK, kept, wires, node, clock
<1>12. CASE UNCHANGED vars
  BY <1>12 DEF vars, TypeOK, host, kept, wires, node, clock
<1> QED BY <1>1, <1>2, <1>3, <1>4, <1>5, <1>6, <1>7, <1>8, <1>9, <1>10, <1>11, <1>12,
           <1>13, <1>14, <1>15
        DEF Next, World, Host
-----------------------------------------------------------------------------
(* Steps that leave the host where it is. *)

\* These parts of the invariant look at the host and at what node has executed.
LEMMA DataSame ==
  ASSUME VerdictInv, ObservationInv, NotesInv, EndInv,
         UNCHANGED <<config, at, kept, outcome, executed, limited>>
  PROVE  VerdictInv' /\ ObservationInv' /\ NotesInv' /\ EndInv'
<1> USE DEF kept
<1>1. VerdictInv'
  BY DEF VerdictInv, AllOk, Told
<1>2. ObservationInv'
  BY DEF ObservationInv, Observed
<1>3. NotesInv'
  BY DEF NotesInv, NotesAre, Noting, Noted
<1> QED BY <1>1, <1>2, <1>3 DEF EndInv

\* The clock, the death of node, the head of the receive loop.
LEMMA Quiet ==
  ASSUME WireInv, NodeInv, AnswerInv,
         UNCHANGED <<config, at, id, kept, outcome, wires, executed, limited>>,
         phase' = phase \/ (phase \notin {"send", "blocked"} /\ phase' \notin {"send", "blocked"}),
         nodeUp' => nodeUp /\ browser' = browser,
         ~nodeUp' /\ browser' = "up" => crashed'
  PROVE  WireInv' /\ NodeInv' /\ AnswerInv'
<1> USE DEF kept, wires
<1>1. WireInv'
  BY DEF WireInv, Served, NewRequest
<1>2. NodeInv'
  BY DEF NodeInv, Served, Told
<1>3. AnswerInv'
  BY DEF AnswerInv
<1> QED BY <1>1, <1>2, <1>3

\* A command that ends keeps what was true of node and of its own records.
LEMMA Ending ==
  ASSUME IInv, NEW o \in {"run", "remote", "protocol", "io", "deadline", "cancelled"},
         End(o), o = "run" => at = "close", at # "returned",
         UNCHANGED <<config, kept>>,
         outbox' = outbox \/ (outbox # << >> /\ outbox' = Tail(outbox))
  PROVE  WireInv' /\ NodeInv' /\ AnswerInv' /\ VerdictInv' /\ ObservationInv'
           /\ NotesInv' /\ EndInv'
<1> USE DEF kept, End, Drop
<1>1. /\ \A k \in DOMAIN outbox' : \E j \in DOMAIN outbox : outbox'[k] = outbox[j]
      /\ \A k, l \in DOMAIN outbox' : outbox'[k].id # 0 /\ outbox'[l].id # 0 => k = l
  <2>1. CASE outbox' = outbox
    BY <2>1 DEF IInv, WireInv
  <2>2. CASE outbox # << >> /\ outbox' = Tail(outbox)
    <3>1. /\ DOMAIN outbox' = 1..(Len(outbox) - 1) /\ DOMAIN outbox = 1..Len(outbox)
          /\ Len(outbox) \in Nat
          /\ \A k \in 1..(Len(outbox) - 1) : outbox'[k] = outbox[k + 1]
      BY <2>2, TailElements DEF IInv, TypeOK
    <3>2. \A k \in DOMAIN outbox' : k + 1 \in DOMAIN outbox /\ outbox'[k] = outbox[k + 1]
      BY <3>1
    <3> QED BY <3>1, <3>2 DEF IInv, WireInv
  <2> QED BY <2>1, <2>2
<1>2. WireInv'
  BY <1>1 DEF IInv, WireInv
<1>3. NodeInv'
  BY DEF IInv, NodeInv
<1>4. AnswerInv'
  BY DEF AnswerInv
<1>5. VerdictInv'
  BY DEF IInv, VerdictInv, AllOk, Method, EndInv
<1>6. ObservationInv'
  BY DEF IInv, ObservationInv
<1>7. o = "run" => Len(executed) = Noted
  BY DEF IInv, NodeInv, Told, Noted
<1>8. NotesInv'
  BY <1>7 DEF IInv, NotesInv, NotesAre, Noting
<1>9. EndInv'
  BY DEF EndInv
<1> QED BY <1>2, <1>3, <1>4, <1>5, <1>6, <1>8, <1>9
-----------------------------------------------------------------------------
(* Steps of node and of the request. *)

LEMMA StrayStep ==
  ASSUME TypeOK, WireInv, NodeInv, AnswerInv, Stray
  PROVE  WireInv' /\ NodeInv' /\ AnswerInv'
<1> DEFINE line == [id |-> 0, answer |-> "ok", after |-> 0, limited |-> FALSE]
<1>1. line \in Reply /\ line.id = 0
  BY DEF Reply, Answer
<1>2. /\ DOMAIN outbox' = 1..(Len(outbox) + 1) /\ DOMAIN outbox = 1..Len(outbox)
      /\ Len(outbox) \in Nat
      /\ \A k \in 1..Len(outbox) : outbox'[k] = outbox[k]
      /\ outbox'[Len(outbox) + 1] = line
  <2> HIDE DEF line
  <2>1. outbox' = Append(outbox, line)
    BY DEF Stray, line
  <2> QED BY <1>1, <2>1, AppendElements DEF TypeOK
<1> HIDE DEF line
<1>3. \A k \in DOMAIN outbox' :
        \/ k \in DOMAIN outbox /\ outbox'[k] = outbox[k]
        \/ outbox'[k].id = 0
  BY <1>1, <1>2
<1>4. Served' <=> Served
  BY <1>1, <1>2, <1>3 DEF Served
<1>5. WireInv'
  BY <1>3, <1>4 DEF WireInv, Stray, host, kept, NewRequest
<1>6. NodeInv'
  BY <1>4 DEF NodeInv, Stray, host, kept, Told
<1>7. AnswerInv'
  BY <1>3 DEF AnswerInv, Stray, host, kept
<1> QED BY <1>5, <1>6, <1>7

\* The request has been written: node can read it, and nothing else.
LEMMA WrittenRequest ==
  ASSUME TypeOK, WireInv, NodeInv, AnswerInv, at \in Method,
         inbox = << >>, ~Served, phase' = "check", id' = id \/ id' = id + 1, id' # 0,
         inbox' = Append(inbox, NewRequest(id')),
         UNCHANGED <<config, at, kept, outcome, outbox, node>>
  PROVE  WireInv' /\ NodeInv' /\ AnswerInv'
<1> USE DEF kept, node
<1>1. inbox' = <<NewRequest(id')>> /\ NewRequest(id)' = NewRequest(id')
  BY DEF NewRequest
<1>2. \A k \in DOMAIN outbox : outbox[k].id = 0
  BY DEF Served
<1>3. WireInv'
  BY <1>1, <1>2 DEF WireInv, Served, Method
<1>4. NodeInv'
  BY <1>2 DEF NodeInv, Served, Told
<1>5. AnswerInv'
  BY <1>2 DEF AnswerInv
<1> QED BY <1>3, <1>4, <1>5

LEMMA DrainStep ==
  ASSUME IInv, Drain
  PROVE  WireInv' /\ NodeInv' /\ AnswerInv' /\ VerdictInv' /\ ObservationInv' /\ NotesInv' /\ EndInv'
<1>1. WireInv' /\ NodeInv' /\ AnswerInv'
  BY WrittenRequest DEF Drain, IInv, WireInv
<1>2. VerdictInv' /\ ObservationInv' /\ NotesInv' /\ EndInv'
  BY DataSame DEF Drain, IInv, node
<1> QED BY <1>1, <1>2

LEMMA SendStep ==
  ASSUME IInv, Send
  PROVE  WireInv' /\ NodeInv' /\ AnswerInv' /\ VerdictInv' /\ ObservationInv' /\ NotesInv' /\ EndInv'
<1> USE DEF Method
<1>1. CASE End("cancelled") \/ End("io")
  BY <1>1, Ending DEF Send
<1>2. CASE id' = id + 1 /\ UNCHANGED <<at, outcome, node>>
  <2>1. VerdictInv' /\ ObservationInv' /\ NotesInv' /\ EndInv'
    BY <1>2, DataSame DEF Send, IInv, node
  <2>2. inbox = << >> /\ ~Served /\ id + 1 # 0
    BY DEF Send, IInv, TypeOK, WireInv
  <2>3. CASE phase' = "check" /\ inbox' = Append(inbox, NewRequest(id + 1))
    BY <1>2, <2>1, <2>2, <2>3, WrittenRequest DEF Send, IInv
  <2>4. CASE phase' = "blocked" /\ UNCHANGED inbox
    <3> USE DEF kept, node
    <3>1. \A k \in DOMAIN outbox : outbox[k].id = 0
      BY <2>2 DEF Served
    <3>2. WireInv'
      BY <1>2, <2>2, <2>4, <3>1 DEF Send, IInv, WireInv, Served
    <3>3. NodeInv'
      BY <1>2, <3>1 DEF Send, IInv, NodeInv, Served, Told
    <3>4. AnswerInv'
      BY <1>2, <3>1 DEF Send, IInv, AnswerInv
    <3> QED BY <2>1, <3>2, <3>3, <3>4
  <2> QED BY <1>2, <2>3, <2>4 DEF Send, End, node
<1> QED BY <1>1, <1>2 DEF Send

LEMMA ServeStep ==
  ASSUME IInv, Serve
  PROVE  WireInv' /\ NodeInv' /\ AnswerInv' /\ VerdictInv' /\ ObservationInv' /\ NotesInv' /\ EndInv'
<1> DEFINE request == Head(inbox)
<1>1. /\ at \in Method /\ at # "returned" /\ id # 0
      /\ inbox = <<NewRequest(id)>> /\ ~Served /\ nodeUp
  BY DEF Serve, IInv, WireInv, Method, TypeOK
<1>2. request = NewRequest(id) /\ inbox' = << >>
  BY <1>1 DEF Serve
<1>3. request.id = id /\ request.method = at /\ request.step = step
  BY <1>2 DEF NewRequest
<1>4. PICK answer \in Answers(request), short \in BOOLEAN :
        /\ short => request.method = "finish" /\ answer = "ok"
        /\ executed' = IF request.method = "execute_step" /\ browser = "up"
                       THEN Append(executed, [step |-> request.step, answer |-> answer])
                       ELSE executed
        /\ outbox' = Append(outbox, [id |-> request.id, answer |-> answer,
                                     after |-> Len(executed'), limited |-> short])
        /\ limited' = (limited \/ short)
        /\ browser' \in Browsers(request, answer)
  BY DEF Serve
<1>5. answer \in Answer
  <2> HIDE DEF request
  <2> QED BY <1>4 DEF Answers, Answer
<1> HIDE DEF request
<1> DEFINE reply == [id |-> id, answer |-> answer, after |-> Len(executed'), limited |-> short]
<1>6. TypeOK'
  BY ServeTypes DEF IInv
<1>7. /\ reply \in Reply
      /\ reply.id = id /\ reply.answer = answer
      /\ reply.after = Len(executed') /\ reply.limited = short
  <2>1. Len(executed') \in Nat
    BY <1>6 DEF TypeOK
  <2> QED BY <1>5, <2>1 DEF Reply, IInv, TypeOK
<1>8. outbox' = Append(outbox, reply)
  BY <1>3, <1>4
<1> HIDE DEF reply
<1>9. /\ DOMAIN outbox' = 1..(Len(outbox) + 1) /\ DOMAIN outbox = 1..Len(outbox)
      /\ Len(outbox) \in Nat
      /\ outbox'[Len(outbox) + 1] = reply
      /\ \A k \in 1..Len(outbox) : outbox'[k] = outbox[k]
  BY <1>7, <1>8, AppendElements DEF IInv, TypeOK
<1>10. \A k \in DOMAIN outbox' :
         \/ outbox'[k].id = 0
         \/ k = Len(outbox) + 1 /\ outbox'[k] = reply
  BY <1>1, <1>9 DEF Served
<1>11. Served'
  BY <1>1, <1>7, <1>9 DEF Served
<1>12. UNCHANGED <<config, at, phase, id, step, result, passed, observations, notes, outcome,
                   nodeUp, crashed>>
  BY DEF Serve, host, kept
<1>13. CASE at = "execute_step"
  <2>1. /\ browser = "up" /\ browser' = browser
        /\ executed' = Append(executed, [step |-> step, answer |-> answer])
    BY <1>1, <1>3, <1>4, <1>13 DEF IInv, NodeInv, Browsers
  <2>2. Len(executed) = step - 1 /\ step \in Nat /\ step # 0
    BY <1>1, <1>13, ProgramSteps DEF IInv, NodeInv, Told, TypeOK, Steps
  <2>3. /\ DOMAIN executed' = 1..step /\ DOMAIN executed = 1..(step - 1) /\ Len(executed') = step
        /\ executed'[step].step = step /\ executed'[step].answer = answer
        /\ \A k \in 1..(step - 1) : executed'[k] = executed[k]
    <3> DEFINE e == [step |-> step, answer |-> answer]
    <3>1. e \in [step : Steps, answer : Answer] /\ e.step = step /\ e.answer = answer
      BY <1>5 DEF IInv, TypeOK
    <3> HIDE DEF e
    <3>2. executed' = Append(executed, e)
      BY <2>1 DEF e
    <3> QED BY <3>1, <3>2, <2>2, AppendElements DEF IInv, TypeOK
  <2>4. \A k \in 1..(step - 1) : executed[k].answer = "ok"
    BY <1>13, <2>2 DEF IInv, VerdictInv, AllOk, Told, Method
  <2>5. WireInv'
    BY <1>1, <1>2, <1>7, <1>10, <1>11, <1>12 DEF IInv, WireInv
  <2>6. ~short /\ limited' = limited
    BY <1>3, <1>4, <1>13 DEF IInv, TypeOK
  <2>7. NodeInv'
    BY <1>1, <1>11, <1>12, <1>13, <2>1, <2>2, <2>3, <2>4, <2>6 DEF IInv, NodeInv
  <2>8. AnswerInv'
    BY <1>7, <1>10, <1>12, <1>13, <2>3 DEF AnswerInv
  <2>9. VerdictInv'
    BY <1>1, <1>12, <1>13, <2>2, <2>3 DEF IInv, VerdictInv, AllOk, Told, EndInv
  <2>10. ObservationInv'
    BY <1>12 DEF IInv, ObservationInv, Observed
  <2>11. NotesInv'
    <3>1. Noted = step - 1 /\ Noted' = step - 1
      BY <1>12, <1>13, <2>2 DEF Noted
    <3>2. NotesAre(step - 1)
      BY <1>1, <3>1 DEF IInv, NotesInv
    <3>3. NotesAre(step - 1)'
      BY <3>2, <1>12, <2>3 DEF NotesAre, Noting
    <3>4. outcome' # "run"
      BY <1>1, <1>12 DEF IInv, EndInv
    <3>5. NotesAre(Noted)'
      BY <3>3, <1>12, <3>1 DEF NotesAre, Noting
    <3> QED BY <3>4, <3>5, <1>12 DEF IInv, NotesInv
  <2> QED BY <1>12, <2>5, <2>7, <2>8, <2>9, <2>10, <2>11 DEF IInv, EndInv
<1>14. CASE at # "execute_step"
  <2>1. executed' = executed
    BY <1>3, <1>4, <1>14
  <2>2. at # "finish" => ~short /\ limited' = limited
    BY <1>3, <1>4 DEF IInv, TypeOK
  <2>3. at = "finish" => ~limited /\ limited' = short
    BY <1>1, <1>4 DEF IInv, NodeInv, TypeOK
  <2>4. /\ at \in {"observe", "collect_ui", "capture_failure_reel"} => browser' = browser
        /\ at = "prepare" /\ answer = "ok" => browser' = "up"
    BY <1>3, <1>4 DEF Browsers
  <2>5. WireInv'
    BY <1>1, <1>2, <1>7, <1>10, <1>11, <1>12 DEF IInv, WireInv
  <2>6. NodeInv'
    BY <1>1, <1>11, <1>12, <1>14, <2>1, <2>2, <2>4 DEF IInv, NodeInv, Told
  <2>7. AnswerInv'
    BY <1>7, <1>10, <1>12, <1>14, <2>1, <2>3, <2>4 DEF AnswerInv
  <2>8. VerdictInv'
    BY <1>1, <1>12, <2>1 DEF IInv, VerdictInv, AllOk, Told, EndInv, Method
  <2>9. ObservationInv' /\ NotesInv' /\ EndInv'
    BY <1>12, <2>1 DEF IInv, ObservationInv, Observed, NotesInv, NotesAre, Noting, Noted, EndInv
  <2> QED BY <2>5, <2>6, <2>7, <2>8, <2>9
<1> QED BY <1>13, <1>14
-----------------------------------------------------------------------------
(* The answer. *)

LEMMA Received ==
  ASSUME IInv, Receive, Matches(Head(outbox))
  PROVE  /\ Head(outbox) \in Reply /\ outbox' \in Seq(Reply)
         /\ \A k \in DOMAIN outbox' : outbox'[k].id = 0
         /\ inbox = << >> /\ inbox' = << >> /\ id # 0
         /\ Len(executed) = step /\ step \in Nat
         /\ Head(outbox).after = step
         /\ at = "execute_step" => Head(outbox).answer = executed[step].answer
         /\ at = "prepare" /\ Head(outbox).answer = "ok" /\ nodeUp => browser = "up"
         /\ at = "finish" => Head(outbox).limited = limited
<1>1. /\ at \in Method /\ at # "returned" /\ id # 0 /\ outbox # << >> /\ outbox' = Tail(outbox)
      /\ inbox' = inbox
  BY DEF Receive, IInv, WireInv, Method
<1>2. /\ Head(outbox) = outbox[1] /\ 1 \in DOMAIN outbox /\ Head(outbox) \in Reply
      /\ outbox' \in Seq(Reply)
      /\ DOMAIN outbox' = 1..(Len(outbox) - 1) /\ DOMAIN outbox = 1..Len(outbox)
      /\ Len(outbox) \in Nat
      /\ \A k \in 1..(Len(outbox) - 1) : outbox'[k] = outbox[k + 1]
  BY <1>1, TailElements DEF IInv, TypeOK
<1>3. outbox[1].id = id
  BY <1>2 DEF Matches
<1>4. Served
  BY <1>1, <1>2, <1>3 DEF Served
<1>5. \A k \in DOMAIN outbox' : outbox'[k].id = 0
  <2>1. \A k \in DOMAIN outbox' :
          k + 1 \in DOMAIN outbox /\ k + 1 # 1 /\ outbox'[k] = outbox[k + 1]
    BY <1>2
  <2>2. \A k \in DOMAIN outbox : outbox[k].id # 0 => k = 1
    BY <1>1, <1>2, <1>3 DEF IInv, WireInv
  <2> QED BY <2>1, <2>2
<1>6. inbox = << >>
  BY <1>1, <1>4 DEF IInv, WireInv
<1>7. Len(executed) = step /\ step \in Nat
  BY <1>1, <1>4, ProgramSteps DEF IInv, NodeInv, Told, TypeOK, Steps
<1>8. /\ outbox[1].after = step
      /\ at = "execute_step" => outbox[1].answer = executed[step].answer
      /\ at = "prepare" /\ outbox[1].answer = "ok" /\ nodeUp => browser = "up"
      /\ at = "finish" => outbox[1].limited = limited
  BY <1>1, <1>2, <1>3, <1>7 DEF IInv, AnswerInv
<1> QED BY <1>1, <1>2, <1>5, <1>6, <1>7, <1>8

\* The next request, or close, with nothing open.
LEMMA Asked ==
  ASSUME IInv, at' \in Method \cup {"close"}, phase' = "send", UNCHANGED <<id, outcome, node>>,
         inbox' = << >>, \A k \in DOMAIN outbox' : outbox'[k].id = 0,
         at # "returned"
  PROVE  WireInv' /\ AnswerInv' /\ EndInv' /\ ~Served' /\ outcome' # "run"
<1>1. WireInv' /\ ~Served'
  BY DEF WireInv, Served, Method
<1>2. AnswerInv'
  BY DEF AnswerInv
<1>3. EndInv' /\ outcome' # "run"
  BY DEF IInv, EndInv, Method
<1> QED BY <1>1, <1>2, <1>3

LEMMA StepsSoFar ==
  ASSUME TypeOK, NodeInv, Len(executed) = step
  PROVE  /\ DOMAIN executed = 1..step /\ step \in Nat
         /\ \A k \in 1..step : /\ executed[k].step = k /\ executed[k].answer \in Answer
                               /\ executed[k].answer # "ok" => k = step
<1>1. DOMAIN executed = 1..step /\ step \in Nat
  BY ProgramSteps DEF TypeOK, Steps
<1>2. \A k \in 1..step : executed[k] \in [step : Steps, answer : Answer]
  BY <1>1, ElementOf DEF TypeOK
<1>3. \A k \in 1..step : executed[k].step = k /\ (executed[k].answer # "ok" => k = step)
  BY <1>1 DEF NodeInv
<1>4. \A k \in 1..step : executed[k].answer \in Answer
  BY <1>2
<1> QED BY <1>1, <1>3, <1>4

\* Where the program goes after a step whose observation is kept, and before the first.
LEMMA NextStepInv ==
  ASSUME IInv, NextStep, NEW n \in Nat, n = step, Len(executed) = n, passed, AllOk(n),
         at \in {"observe", "collect_ui"}, ~Served',
         UNCHANGED <<config, outcome, passed, executed, limited, nodeUp, browser, crashed>>,
         outcome # "run", NotesAre(n)',
         \A i \in DOMAIN notes' : notes'[i].observation = notes'[i].step + 1,
         \A k \in DOMAIN observations' : observations'[k] = k - 1,
         Len(observations') = n + 1
  PROVE  NodeInv' /\ VerdictInv' /\ ObservationInv' /\ NotesInv'
<1>1. \/ n < Len(Program) /\ step' = n + 1 /\ at' = "execute_step"
      \/ step' = n /\ n = Len(Program) /\ at' = "finish"
  BY ProgramSteps DEF NextStep, Ask, IInv, TypeOK, Steps
<1>2. Told' = n /\ Observed' = n + 1 /\ Noted' = n
  BY <1>1 DEF Told, Observed, Noted
<1>3. NodeInv'
  BY <1>1, <1>2 DEF IInv, NodeInv
<1>4. AllOk(n)'
  BY DEF AllOk
<1>5. (passed <=> AllOk(Told))'
  BY <1>2, <1>4 DEF AllOk
<1>6. VerdictInv'
  BY <1>1, <1>5 DEF VerdictInv
<1>7. ObservationInv'
  BY <1>2 DEF ObservationInv
<1>8. NotesAre(Noted)'
  BY <1>2 DEF NotesAre
<1>9. NotesInv'
  BY <1>8 DEF NotesInv
<1> QED BY <1>3, <1>6, <1>7, <1>9

LEMMA AfterStepInv ==
  ASSUME IInv, NEW n \in Nat, n = step, n # 0, Len(executed) = n,
         at \in {"observe", "collect_ui"}, AfterStep(n + 1), ~Served',
         UNCHANGED <<config, result, passed, limited, executed, outcome>>,
         outcome # "run",
         \A k \in DOMAIN observations' : observations'[k] = k - 1,
         Len(observations') = n + 1
  PROVE  NodeInv' /\ VerdictInv' /\ ObservationInv' /\ NotesInv'
<1>1. UNCHANGED node
  BY DEF AfterStep, NextStep, Ask
<1>2. /\ DOMAIN executed = 1..n
      /\ \A k \in 1..n : executed[k].step = k /\ (executed[k].answer # "ok" => k = n)
  BY StepsSoFar DEF IInv
<1>3. NotesAre(n - 1) /\ result = executed[n].answer /\ (passed <=> AllOk(n))
  BY DEF IInv, NotesInv, Noted, VerdictInv, Told, Method
<1>4. executed[n] = [step |-> n, answer |-> result]
  <2>1. n \in DOMAIN executed
    BY <1>2
  <2>2. executed[n] \in [step : Steps, answer : Answer]
    BY <2>1, ElementOf DEF IInv, TypeOK
  <2> QED BY <1>2, <1>3, <2>1, <2>2
<1>5. NotesAre(n)' /\ \A i \in DOMAIN notes' : notes'[i].observation = notes'[i].step + 1
  <2>1. CASE Program[n] = Act
    <3>1. notes' = notes
      BY <2>1 DEF AfterStep
    <3>2. \A k \in 1..n : Program[k] # Act => k \in 1..(n - 1)
      BY <2>1
    <3>3. NotesAre(n)
      BY <1>3, <3>2 DEF NotesAre
    <3>4. NotesAre(n)'
      BY <3>1, <3>3 DEF NotesAre, Noting
    <3> QED BY <3>1, <3>4 DEF IInv, NotesInv
  <2>2. CASE Program[n] # Act
    <3> DEFINE note == [step |-> n, observation |-> n + 1, answer |-> result]
    <3>1. note \in Note /\ note.step = n /\ note.observation = n + 1 /\ note.answer = result
      BY DEF IInv, TypeOK, Note
    <3>2. notes' = Append(notes, note)
      BY <2>2 DEF AfterStep
    <3> HIDE DEF note
    <3>0. PICK m \in Nat : m = Len(notes)
      BY DEF IInv, TypeOK
    <3>3. /\ DOMAIN notes' = 1..(m + 1) /\ DOMAIN notes = 1..m
          /\ notes'[m + 1] = note
          /\ \A i \in 1..m : notes'[i] = notes[i]
      BY <3>0, <3>1, <3>2, AppendElements DEF IInv, TypeOK
    <3>4. \A i \in DOMAIN notes' : notes'[i].observation = notes'[i].step + 1
      BY <3>1, <3>3 DEF IInv, NotesInv
    <3>5. \A i \in 1..m : Noting(i)' = Noting(i)
      BY <3>3 DEF Noting
    <3>6. Noting(m + 1)' = executed[n]
      <4>1. notes'[m + 1].step = n /\ notes'[m + 1].answer = result
        BY <3>1, <3>3
      <4> QED BY <1>4, <4>1 DEF Noting
    <3>7. ASSUME NEW i \in DOMAIN notes'
          PROVE  \E k \in 1..n : Program[k] # Act /\ Noting(i)' = executed[k]
      <4>1. CASE i \in 1..m
        BY <4>1, <1>3, <3>3, <3>5 DEF NotesAre
      <4>2. CASE i = m + 1
        BY <4>2, <2>2, <3>3, <3>6 DEF Noting
      <4> QED BY <3>3, <4>1, <4>2
    <3>8. ASSUME NEW k \in 1..n, Program[k] # Act
          PROVE  \E i \in DOMAIN notes' : Noting(i)' = executed[k]
      <4>1. CASE k = n
        BY <4>1, <3>3, <3>6 DEF Noting
      <4>2. CASE k # n
        <5>1. PICK i \in DOMAIN notes : Noting(i) = executed[k]
          BY <4>2, <3>8, <1>3 DEF NotesAre
        <5> QED BY <5>1, <3>3, <3>5
      <4> QED BY <4>1, <4>2
    <3> QED BY <3>4, <3>7, <3>8 DEF NotesAre, Noting
  <2> QED BY <2>1, <2>2
<1>6. CASE passed
  <2>1. NextStep
    BY <1>6 DEF AfterStep
  <2> QED BY <1>1, <1>3, <1>5, <1>6, <2>1, NextStepInv DEF node
<1>7. CASE ~passed
  <2>1. at' = "capture_failure_reel" /\ step' = n
    BY <1>7 DEF AfterStep, Ask
  <2>2. Told' = n /\ Observed' = n + 1 /\ Noted' = n
    BY <2>1 DEF Told, Observed, Noted
  <2>3. NodeInv'
    BY <1>1, <2>1, <2>2 DEF IInv, NodeInv, node
  <2>4. AllOk(n)' <=> AllOk(n)
    BY DEF AllOk
  <2>5. VerdictInv'
    BY <1>3, <1>7, <2>1, <2>2, <2>4 DEF VerdictInv, AllOk
  <2>6. ObservationInv'
    BY <2>2 DEF ObservationInv
  <2>7. NotesAre(Noted)'
    BY <1>5, <2>2 DEF NotesAre
  <2>8. NotesInv'
    BY <1>5, <2>7 DEF NotesInv
  <2> QED BY <2>3, <2>5, <2>6, <2>8
<1> QED BY <1>6, <1>7

\* The first observation, one that UI evidence follows, one that ends a step.
LEMMA ObservationStep ==
  ASSUME IInv, NEW r \in Reply, NEW n \in Nat, n = step, r.after = n, Len(executed) = n,
         at = "observe", GotObservation(r), ~Served',
         UNCHANGED <<config, limited, executed, outcome, nodeUp, browser, crashed>>,
         outcome # "run"
  PROVE  NodeInv' /\ VerdictInv' /\ ObservationInv' /\ NotesInv'
<1>1. UNCHANGED <<result, passed>> /\ observations' = Append(observations, n)
  BY DEF GotObservation
<1>2. /\ \A k \in DOMAIN observations' : observations'[k] = k - 1
      /\ Len(observations') = n + 1 /\ Len(observations) = n
  <2>1. Len(observations) = n
    BY DEF IInv, ObservationInv, Observed
  <2>2. /\ Len(observations') = n + 1
        /\ DOMAIN observations' = 1..(n + 1) /\ DOMAIN observations = 1..n
        /\ observations'[n + 1] = n
        /\ \A k \in 1..n : observations'[k] = observations[k]
    BY <1>1, <2>1, AppendElements DEF IInv, TypeOK
  <2> QED BY <2>1, <2>2 DEF IInv, ObservationInv
<1>3. passed <=> AllOk(n)
  BY DEF IInv, VerdictInv, Told, Method
<1>4. CASE n = 0 /\ NextStep /\ UNCHANGED notes
  <2>1. passed
    BY <1>3, <1>4 DEF AllOk
  <2>2. NotesAre(n) /\ \A i \in DOMAIN notes : notes[i].observation = notes[i].step + 1
    BY <1>4 DEF IInv, NotesInv, Noted
  <2>3. NotesAre(n)'
    BY <1>4, <2>2 DEF NotesAre, Noting
  <2> QED BY <1>1, <1>2, <1>3, <1>4, <2>1, <2>2, <2>3, NextStepInv
<1>5. CASE n # 0 /\ Ask("collect_ui") /\ UNCHANGED <<step, notes>>
  <2>1. at' = "collect_ui" /\ step' = n
    BY <1>5 DEF Ask
  <2>2. Told' = n /\ Told = n /\ Observed' = n + 1 /\ Noted' = n - 1 /\ Noted = n - 1
    BY <1>5, <2>1 DEF Told, Observed, Noted
  <2>3. NodeInv'
    BY <1>5, <2>1, <2>2 DEF IInv, NodeInv
  <2>4. VerdictInv'
    BY <1>1, <1>3, <1>5, <2>1, <2>2 DEF IInv, VerdictInv, AllOk
  <2>5. ObservationInv'
    BY <1>2, <2>2 DEF ObservationInv
  <2>6. NotesAre(n - 1)
    BY <2>2 DEF IInv, NotesInv
  <2>7. NotesAre(Noted)'
    BY <1>5, <2>2, <2>6 DEF NotesAre, Noting
  <2>8. NotesInv'
    BY <1>5, <2>7 DEF IInv, NotesInv
  <2> QED BY <2>3, <2>4, <2>5, <2>8
<1>6. CASE n # 0 /\ AfterStep(Len(observations) + 1)
  BY <1>1, <1>2, <1>6, AfterStepInv
<1> QED BY <1>4, <1>5, <1>6 DEF GotObservation

LEMMA ReceiveStep ==
  ASSUME IInv, Receive
  PROVE  WireInv' /\ NodeInv' /\ AnswerInv' /\ VerdictInv' /\ ObservationInv' /\ NotesInv' /\ EndInv'
<1> DEFINE r == Head(outbox)
<1>1. /\ at \in Method /\ at # "returned" /\ at # "close" /\ outbox # << >>
      /\ outbox' = Tail(outbox) /\ UNCHANGED <<config, inbox>>
  BY DEF Receive, Method
<1>2. CASE End("protocol") /\ UNCHANGED kept
  BY <1>1, <1>2, Ending
<1>3. CASE End("remote") /\ UNCHANGED kept
  BY <1>1, <1>3, Ending
<1>4. CASE /\ Matches(r) /\ Handle(r)
           /\ ~(End("protocol") /\ UNCHANGED kept) /\ ~(End("remote") /\ UNCHANGED kept)
  <2>1. /\ r \in Reply /\ \A k \in DOMAIN outbox' : outbox'[k].id = 0
        /\ inbox' = << >> /\ r.after = step /\ step \in Nat /\ Len(executed) = step
        /\ at = "execute_step" => r.answer = executed[step].answer
        /\ at = "prepare" /\ r.answer = "ok" /\ nodeUp => browser = "up"
        /\ at = "finish" => r.limited = limited
    BY <1>4, Received
  <2>2. outcome # "run"
    BY <1>1 DEF IInv, EndInv
  <2> HIDE DEF r
  <2>3. \/ r.answer = "ok" /\ at = "initialize" /\ Ask("prepare") /\ UNCHANGED kept
        \/ r.answer = "ok" /\ at = "prepare" /\ Ask("observe") /\ UNCHANGED kept
        \/ r.answer = "ok" /\ at = "observe" /\ GotObservation(r)
        \/ r.answer = "ok" /\ at = "finish" /\ GotFinish(r)
        \/ at = "execute_step" /\ GotStep(r)
        \/ at = "collect_ui" /\ GotUi(r)
        \/ at = "capture_failure_reel" /\ Ask("finish") /\ UNCHANGED kept
    BY <1>4 DEF Handle, GotReel
  <2>4. at' \in Method \cup {"close"} /\ phase' = "send" /\ UNCHANGED <<id, outcome, node>>
    BY <2>3 DEF GotObservation, GotFinish, GotStep, GotUi, AfterStep, NextStep, Ask, Method
  <2>5. WireInv' /\ AnswerInv' /\ EndInv' /\ ~Served' /\ outcome' # "run"
    BY <1>1, <2>1, <2>4, Asked
  <2>6. UNCHANGED <<nodeUp, executed, limited, browser, crashed>>
    BY <2>4 DEF node
  <2>7. NodeInv' /\ VerdictInv' /\ ObservationInv' /\ NotesInv'
    <3>1. CASE \/ r.answer = "ok" /\ at = "initialize" /\ Ask("prepare") /\ UNCHANGED kept
               \/ r.answer = "ok" /\ at = "prepare" /\ Ask("observe") /\ UNCHANGED kept
      <4>1. /\ step = 0 /\ step' = 0 /\ at' \in {"prepare", "observe"}
            /\ UNCHANGED <<result, passed, observations, notes>>
            /\ at' = "observe" => at = "prepare" /\ r.answer = "ok"
        BY <3>1 DEF IInv, NodeInv, Ask, kept
      <4>2. Told' = 0 /\ Told = 0 /\ Observed' = 0 /\ Observed = 0 /\ Noted' = 0 /\ Noted = 0
        BY <3>1, <4>1 DEF Told, Observed, Noted
      <4>3. NodeInv'
        BY <2>1, <2>5, <2>6, <3>1, <4>1, <4>2 DEF IInv, NodeInv
      <4>4. VerdictInv'
        BY <1>1, <2>5, <2>6, <4>1, <4>2 DEF IInv, VerdictInv, AllOk
      <4>5. ObservationInv'
        BY <1>1, <4>1, <4>2 DEF IInv, ObservationInv
      <4>6. NotesInv'
        BY <1>1, <2>5, <2>6, <4>1, <4>2 DEF IInv, NotesInv, NotesAre, Noting
      <4> QED BY <4>3, <4>4, <4>5, <4>6
    <3>2. CASE at = "observe" /\ GotObservation(r)
      BY <1>1, <2>1, <2>2, <2>4, <2>5, <2>6, <3>2, ObservationStep
    <3>3. CASE at = "finish" /\ GotFinish(r)
      <4>1. /\ at' = "close" /\ UNCHANGED <<step, observations, notes>>
            /\ passed' = (passed /\ ~(config.replays /\ limited))
        BY <2>1, <3>3 DEF GotFinish, Ask, Concluded
      <4>2. /\ Told' = step /\ Told = step /\ Observed' = step + 1 /\ Observed = step + 1
            /\ Noted' = step /\ Noted = step
        BY <3>3, <4>1 DEF Told, Observed, Noted
      <4>3. NodeInv'
        BY <1>1, <2>1, <2>6, <4>1, <4>2 DEF IInv, NodeInv
      <4>4. /\ passed <=> \A k \in 1..step : executed[k].answer = "ok"
            /\ passed => step = Len(Program)
        BY <3>3, <4>2 DEF IInv, VerdictInv, AllOk, Method
      <4>5. VerdictInv'
        BY <1>1, <2>1, <2>6, <4>1, <4>4 DEF VerdictInv, AllOk, Method
      <4>6. ObservationInv'
        BY <1>1, <4>1, <4>2 DEF IInv, ObservationInv
      <4>7. NotesInv'
        BY <1>1, <2>5, <2>6, <4>1, <4>2 DEF IInv, NotesInv, NotesAre, Noting
      <4> QED BY <4>3, <4>5, <4>6, <4>7
    <3>4. CASE at = "execute_step" /\ GotStep(r)
      <4>1. /\ at' = "observe" /\ UNCHANGED <<step, observations, notes>>
            /\ result' = executed[step].answer
            /\ passed' = (passed /\ executed[step].answer = "ok")
        BY <2>1, <3>4 DEF GotStep, Ask
      <4>2. step # 0
        BY <3>4 DEF IInv, NodeInv
      <4>3. /\ Told' = step /\ Told = step - 1 /\ Observed' = step /\ Observed = step
            /\ Noted' = step - 1 /\ Noted = step - 1
        BY <3>4, <4>1, <4>2 DEF Told, Observed, Noted
      <4>4. NodeInv'
        BY <1>1, <2>1, <2>6, <3>4, <4>1, <4>3 DEF IInv, NodeInv
      <4>5. \A k \in 1..(step - 1) : executed[k].answer = "ok"
        BY <3>4, <4>3 DEF IInv, VerdictInv, AllOk, Method
      <4>10. passed' <=> executed[step].answer = "ok"
        BY <3>4, <4>1 DEF IInv, VerdictInv
      <4>11. 1..step = (1..(step - 1)) \cup {step}
        BY <2>1, <4>2
      <4>6. passed' <=> \A k \in 1..step : executed[k].answer = "ok"
        BY <4>5, <4>10, <4>11
      <4>7. VerdictInv'
        BY <2>5, <2>6, <4>1, <4>3, <4>6 DEF VerdictInv, AllOk
      <4>8. ObservationInv'
        BY <1>1, <4>1, <4>3 DEF IInv, ObservationInv
      <4>9. NotesInv'
        BY <1>1, <2>5, <2>6, <4>1, <4>3 DEF IInv, NotesInv, NotesAre, Noting
      <4> QED BY <4>4, <4>7, <4>8, <4>9
    <3>5. CASE at = "collect_ui" /\ GotUi(r)
      <4>1. step # 0 /\ Len(observations) = step + 1
        BY <3>5 DEF IInv, NodeInv, ObservationInv, Observed
      <4>2. UNCHANGED <<result, passed, observations>> /\ AfterStep(step + 1)
        BY <3>5, <4>1 DEF GotUi
      <4>3. \A k \in DOMAIN observations' : observations'[k] = k - 1
        BY <4>2 DEF IInv, ObservationInv
      <4> QED BY <1>1, <2>1, <2>2, <2>4, <2>5, <2>6, <3>5, <4>1, <4>2, <4>3, AfterStepInv
    <3>6. CASE at = "capture_failure_reel" /\ Ask("finish") /\ UNCHANGED kept
      <4>1. at' = "finish" /\ UNCHANGED <<step, result, passed, observations, notes>>
        BY <3>6 DEF Ask, kept
      <4>2. /\ Told' = step /\ Told = step /\ Observed' = step + 1 /\ Observed = step + 1
            /\ Noted' = step /\ Noted = step
        BY <3>6, <4>1 DEF Told, Observed, Noted
      <4>3. NodeInv'
        BY <1>1, <2>1, <2>6, <3>6, <4>1, <4>2 DEF IInv, NodeInv
      <4>4. VerdictInv'
        BY <2>5, <2>6, <3>6, <4>1, <4>2 DEF IInv, VerdictInv, AllOk, Method
      <4>5. ObservationInv'
        BY <1>1, <4>1, <4>2 DEF IInv, ObservationInv
      <4>6. NotesInv'
        BY <1>1, <2>5, <2>6, <4>1, <4>2 DEF IInv, NotesInv, NotesAre, Noting
      <4> QED BY <4>3, <4>4, <4>5, <4>6
    <3> QED BY <2>3, <3>1, <3>2, <3>3, <3>4, <3>5, <3>6
  <2> QED BY <2>5, <2>7
<1> QED BY <1>2, <1>3, <1>4 DEF Receive
-----------------------------------------------------------------------------
(* The invariant, and the properties. *)

LEMMA InitIInv == Init => IInv
<1> SUFFICES ASSUME Init PROVE IInv
  OBVIOUS
<1> USE DEF Init
<1>1. TypeOK
  <2>1. step \in Steps /\ strays \in 0..MaxStray
    BY ProgramSteps, ConstantsAssumption DEF Steps
  <2>2. inbox \in Seq(Request) /\ outbox \in Seq(Reply) /\ observations \in Seq(Nat)
        /\ notes \in Seq(Note) /\ executed \in Seq([step : Steps, answer : Answer])
    OBVIOUS
  <2>3. at \in Method /\ result \in Answer
    BY DEF Method, Answer
  <2> QED BY <2>1, <2>2, <2>3 DEF TypeOK
<1>2. WireInv /\ AnswerInv /\ EndInv
  BY DEF WireInv, AnswerInv, EndInv, Served
<1>3. NodeInv /\ ObservationInv
  BY DEF NodeInv, ObservationInv, Told, Observed, Served
<1>4. VerdictInv /\ NotesInv
  BY DEF VerdictInv, AllOk, Told, NotesInv, NotesAre, Noted
<1> QED BY <1>1, <1>2, <1>3, <1>4 DEF IInv

LEMMA NextIInv == IInv /\ [Next]_vars => IInv'
<1> SUFFICES ASSUME IInv, [Next]_vars
             PROVE  /\ WireInv' /\ NodeInv' /\ AnswerInv' /\ VerdictInv'
                    /\ ObservationInv' /\ NotesInv' /\ EndInv'
  BY TypeStep DEF IInv
<1>1. CASE Serve  BY <1>1, ServeStep
<1>2. CASE Drain  BY <1>2, DrainStep
<1>3. CASE Stray
  BY <1>3, StrayStep, DataSame DEF IInv, Stray, host
<1>4. CASE Crash
  BY <1>4, Quiet, DataSame DEF IInv, Crash, host
<1>5. CASE Exit
  BY <1>5, Quiet, DataSame DEF IInv, Exit, host
<1>6. CASE Tick \/ Grace \/ Cancel
  BY <1>6, Quiet, DataSame DEF IInv, NodeInv, Tick, Grace, Cancel, host, node
<1>7. CASE Send  BY <1>7, SendStep
<1>8. CASE BrokenPipe
  BY <1>8, Ending DEF BrokenPipe, wires
<1>9. CASE Check
  <2>1. CASE End("cancelled") \/ End("deadline")
    BY <1>9, <2>1, Ending DEF Check, wires, Method
  <2>2. CASE phase' = "receive" /\ UNCHANGED <<at, id, outcome, node>>
    BY <1>9, <2>2, Quiet, DataSame DEF Check, IInv, NodeInv, node
  <2> QED BY <1>9, <2>1, <2>2 DEF Check
<1>10. CASE ReceiveNothing
  <2>1. CASE End("protocol")
    BY <1>10, <2>1, Ending DEF ReceiveNothing, wires, Method
  <2>2. CASE phase' = "check" /\ UNCHANGED <<at, id, outcome, node>>
    BY <1>10, <2>2, Quiet, DataSame DEF ReceiveNothing, IInv, NodeInv, node
  <2> QED BY <1>10, <2>1, <2>2 DEF ReceiveNothing
<1>11. CASE Receive  BY <1>11, ReceiveStep
<1>12. CASE Close
  BY <1>12, Ending DEF Close, wires
<1>13. CASE UNCHANGED vars
  BY <1>13, Quiet, DataSame DEF IInv, NodeInv, vars, host, node
<1> QED BY <1>1, <1>2, <1>3, <1>4, <1>5, <1>6, <1>7, <1>8, <1>9, <1>10, <1>11, <1>12, <1>13
        DEF Next, World, Host

\* Wires, node and host agree on the open request and on how far the program is.
THEOREM SessionInvariant == Spec => []IInv
  BY InitIInv, NextIInv, PTL DEF Spec

\* Every reachable state is well typed.
THEOREM TypeCorrect == Spec => []TypeOK
<1>1. IInv => TypeOK
  BY DEF IInv
<1> QED BY <1>1, SessionInvariant, PTL

\* Whatever node prints, an observation shows the state after exactly the
\* steps before it.
THEOREM ObservationsFollow == Spec => []ObservationsFollowTheirSteps
<1>1. IInv => ObservationsFollowTheirSteps
  BY DEF IInv, ObservationInv, NotesInv, ObservationsFollowTheirSteps
<1> QED BY <1>1, SessionInvariant, PTL

\* Node runs the steps of a program in order and stops at the first failure.
THEOREM FailureStops == Spec => []NothingRunsAfterAFailure
<1>1. IInv => NothingRunsAfterAFailure
  BY DEF IInv, NodeInv, NothingRunsAfterAFailure
<1> QED BY <1>1, SessionInvariant, PTL

\* The reported result is the one node's steps had.
THEOREM ResultRan == Spec => []ResultIsWhatRan
<1>1. ASSUME IInv, outcome = "run"
      PROVE  ResultIsWhatRan
  <2>1. DOMAIN executed = 1..Len(executed) /\ Len(executed) \in Nat
    BY <1>1 DEF IInv, TypeOK
  <2>2. passed <=> /\ Len(executed) = Len(Program)
                   /\ \A k \in DOMAIN executed : executed[k].answer = "ok"
                   /\ ~(config.replays /\ limited)
    BY <1>1, <2>1 DEF IInv, VerdictInv, AllOk
  <2>3. NotesAre(Len(executed))
    BY <1>1 DEF IInv, NotesInv
  <2>4. {[step |-> notes[i].step, answer |-> notes[i].answer] : i \in DOMAIN notes}
          = {executed[k] : k \in {j \in DOMAIN executed : Program[j] # Act}}
    BY <2>1, <2>3 DEF NotesAre, Noting
  <2> QED BY <2>2, <2>4 DEF ResultIsWhatRan
<1>2. IInv => ResultIsWhatRan
  BY <1>1 DEF ResultIsWhatRan
<1> QED BY <1>2, SessionInvariant, PTL

\* However a command ends, node is gone, and so is its browser unless node had
\* died by itself.
THEOREM NothingLeft == Spec => []NothingIsLeft
<1>1. IInv => NothingIsLeft
  BY DEF IInv, WireInv, NodeInv, NothingIsLeft
<1> QED BY <1>1, SessionInvariant, PTL

-----------------------------------------------------------------------------
(***************************************************************************)
(* BehaviorLedger.  The writers of the graph follow scripts: what is left  *)
(* of each script rests on the graph or on earlier statements of the same  *)
(* script, so the graph never points to what is not there; what a writer   *)
(* that stores nothing has not asked yet is all it may not know; and the   *)
(* documents of a run are those of its source and of the journals it read  *)
(* once, before any of them.                                               *)
(***************************************************************************)

(* Sequences of statements *)

\* The operands of the statements of a kind before the i-th.
Before(w, i, kind) == {w[j][2] : j \in {k \in 1..(i - 1) : w[k][1] = kind}}
Written(w, kind) == Before(w, Len(w) + 1, kind)

Uses(w, kinds) == \A i \in DOMAIN w : w[i][1] \in kinds

\* Every statement finds in the graph what it speaks of, or an earlier statement of the
\* same writer puts it there.
GroundedAt(w, i, S, E) ==
  /\ w[i][1] = "edge" => w[i][2][1] \in S \cup Before(w, i, "state")
  /\ w[i][1] = "edge" => w[i][2][3] \in S \cup Before(w, i, "state")
  /\ w[i][1] \in {"session", "journal"} =>
       Range(Path(w[i][2])) \subseteq S \cup Before(w, i, "state")
  /\ w[i][1] \in {"session", "journal"} =>
       Range(TraceEdges(w[i][2])) \subseteq E \cup Before(w, i, "edge")

Grounded(w, S, E) == \A i \in DOMAIN w : GroundedAt(w, i, S, E)

-----------------------------------------------------------------------------
(* What is grounded *)

LEMMA GroundedGrows ==
  ASSUME NEW w, NEW S, NEW E, NEW S2, NEW E2, S \subseteq S2, E \subseteq E2, Grounded(w, S, E)
  PROVE  Grounded(w, S2, E2)
<1> SUFFICES ASSUME NEW i \in DOMAIN w PROVE GroundedAt(w, i, S2, E2)
  BY DEF Grounded
<1>1. GroundedAt(w, i, S, E)
  BY DEF Grounded
<1> HIDE DEF Grounded
<1> QED BY <1>1 DEF GroundedAt

\* A statement that was made is in the graph, and the rest of the script rests on it.
LEMMA GroundedTail ==
  ASSUME NEW w, IsSequence(w), w # << >>, NEW S, NEW E, NEW S2, NEW E2,
         S \subseteq S2, E \subseteq E2, Grounded(w, S, E),
         Head(w)[1] = "state" => Head(w)[2] \in S2,
         Head(w)[1] = "edge" => Head(w)[2] \in E2
  PROVE  Grounded(Tail(w), S2, E2)
<1> SUFFICES ASSUME NEW i \in DOMAIN Tail(w) PROVE GroundedAt(Tail(w), i, S2, E2)
  BY DEF Grounded
<1>1. /\ Head(w) = w[1] /\ Len(w) \in Nat /\ DOMAIN w = 1..Len(w)
      /\ DOMAIN Tail(w) = 1..(Len(w) - 1) /\ i \in 1..(Len(w) - 1)
      /\ \A k \in 1..(Len(w) - 1) : Tail(w)[k] = w[k + 1]
  BY TailOf
<1>2. GroundedAt(w, i + 1, S, E)
  BY <1>1 DEF Grounded
<1>3. ASSUME NEW kind, NEW x \in Before(w, i + 1, kind)
      PROVE  x \in Before(Tail(w), i, kind) \/ (Head(w)[1] = kind /\ x = Head(w)[2])
  <2>1. PICK j \in 1..i : w[j][1] = kind /\ x = w[j][2]
    BY <1>1, <1>3 DEF Before
  <2>2. CASE j = 1
    BY <1>1, <2>1, <2>2
  <2>3. CASE j # 1
    <3>1. /\ j - 1 \in 1..(i - 1) /\ j - 1 \in 1..(Len(w) - 1) /\ (j - 1) + 1 = j
      BY <1>1, <2>3
    <3>2. Tail(w)[j - 1] = w[j]
      BY <1>1, <3>1
    <3> QED BY <2>1, <3>1, <3>2 DEF Before
  <2> QED BY <2>2, <2>3
<1>4. S \cup Before(w, i + 1, "state") \subseteq S2 \cup Before(Tail(w), i, "state")
  BY <1>3
<1>5. E \cup Before(w, i + 1, "edge") \subseteq E2 \cup Before(Tail(w), i, "edge")
  BY <1>3
<1>6. Tail(w)[i] = w[i + 1]
  BY <1>1
<1> QED BY <1>2, <1>4, <1>5, <1>6 DEF GroundedAt

LEMMA GroundedConcat ==
  ASSUME NEW a, NEW b, IsSequence(a), IsSequence(b), NEW S, NEW E,
         Grounded(a, S, E),
         Grounded(b, S \cup Written(a, "state"), E \cup Written(a, "edge"))
  PROVE  Grounded(a \o b, S, E)
<1> DEFINE w == a \o b
<1>1. /\ Len(a) \in Nat /\ Len(b) \in Nat
      /\ DOMAIN a = 1..Len(a) /\ DOMAIN b = 1..Len(b)
      /\ DOMAIN w = 1..(Len(a) + Len(b))
      /\ \A i \in 1..Len(a) : w[i] = a[i]
      /\ \A i \in 1..Len(b) : w[Len(a) + i] = b[i]
  BY ConcatOf
<1> HIDE DEF w
<1>2. ASSUME NEW i \in 1..Len(a) PROVE GroundedAt(w, i, S, E)
  <2>1. \A kind : Before(w, i, kind) = Before(a, i, kind)
    <3> SUFFICES ASSUME NEW kind PROVE Before(w, i, kind) = Before(a, i, kind)
      OBVIOUS
    <3>1. \A j \in 1..(i - 1) : w[j] = a[j]
      BY <1>1
    <3> QED BY <3>1 DEF Before
  <2>2. GroundedAt(a, i, S, E) /\ w[i] = a[i]
    BY <1>1 DEF Grounded
  <2> QED BY <2>1, <2>2 DEF GroundedAt
<1>3. ASSUME NEW i \in 1..Len(b) PROVE GroundedAt(w, Len(a) + i, S, E)
  <2>1. ASSUME NEW kind
        PROVE  Written(a, kind) \cup Before(b, i, kind) \subseteq Before(w, Len(a) + i, kind)
    <3>1. ASSUME NEW x \in Written(a, kind) PROVE x \in Before(w, Len(a) + i, kind)
      <4>1. PICK j \in 1..(Len(a) + 1 - 1) : a[j][1] = kind /\ x = a[j][2]
        BY <3>1 DEF Written, Before
      <4>2. j \in 1..Len(a) /\ j \in 1..(Len(a) + i - 1)
        BY <1>1, <4>1
      <4>3. w[j] = a[j]
        BY <1>1, <4>2
      <4> QED BY <4>1, <4>2, <4>3 DEF Before
    <3>2. ASSUME NEW x \in Before(b, i, kind) PROVE x \in Before(w, Len(a) + i, kind)
      <4>1. PICK j \in 1..(i - 1) : b[j][1] = kind /\ x = b[j][2]
        BY <3>2 DEF Before
      <4>2. j \in 1..Len(b) /\ Len(a) + j \in 1..(Len(a) + i - 1)
        BY <1>1, <4>1
      <4>3. w[Len(a) + j] = b[j]
        BY <1>1, <4>2
      <4> QED BY <4>1, <4>2, <4>3 DEF Before
    <3> QED BY <3>1, <3>2
  <2>2. GroundedAt(b, i, S \cup Written(a, "state"), E \cup Written(a, "edge"))
    BY <1>1 DEF Grounded
  <2>3. w[Len(a) + i] = b[i]
    BY <1>1
  <2>4. (S \cup Written(a, "state")) \cup Before(b, i, "state")
          \subseteq S \cup Before(w, Len(a) + i, "state")
    BY <2>1
  <2>5. (E \cup Written(a, "edge")) \cup Before(b, i, "edge")
          \subseteq E \cup Before(w, Len(a) + i, "edge")
    BY <2>1
  <2> QED BY <2>2, <2>3, <2>4, <2>5 DEF GroundedAt
<1>4. \A i \in DOMAIN w : i \in 1..Len(a) \/ (i - Len(a) \in 1..Len(b) /\ i = Len(a) + (i - Len(a)))
  BY <1>1
<1>5. \A i \in DOMAIN w : GroundedAt(w, i, S, E)
  BY <1>2, <1>3, <1>4
<1> QED BY <1>5 DEF Grounded, w

LEMMA UsesConcat ==
  ASSUME NEW a, NEW b, IsSequence(a), IsSequence(b), NEW kinds, Uses(a, kinds), Uses(b, kinds)
  PROVE  Uses(a \o b, kinds)
<1>1. \A x \in Range(a) \cup Range(b) : x[1] \in kinds
  BY DEF Uses, Range
<1>2. \A i \in DOMAIN (a \o b) : (a \o b)[i] \in Range(a \o b)
  BY DEF Range
<1> QED BY <1>1, <1>2, ConcatRange DEF Uses

\* What is written is what the statements of the kind carry.
LEMMA WrittenRange ==
  ASSUME NEW w, IsSequence(w), NEW kind
  PROVE  Written(w, kind) = {x[2] : x \in {y \in Range(w) : y[1] = kind}}
<1>1. Len(w) \in Nat /\ DOMAIN w = 1..Len(w) /\ 1..(Len(w) + 1 - 1) = DOMAIN w
  BY SequenceOf DEF IsSequence
<1> QED BY <1>1 DEF Written, Before, Range

-----------------------------------------------------------------------------
(* Flattening *)

\* Scripts that are grounded each are grounded one after the other.
LEMMA FlattenGrounded ==
  ASSUME NEW T, NEW seqs \in Seq(Seq(T)), NEW S, NEW E,
         \A k \in DOMAIN seqs : Grounded(seqs[k], S, E)
  PROVE  Grounded(FlattenSeq(seqs), S, E)
<1> DEFINE n == Len(seqs)
<1>1. n \in Nat /\ DOMAIN seqs = 1..n /\ \A k \in 1..n : seqs[k] \in Seq(T)
  OBVIOUS
<1>2. CASE seqs = << >>
  <2>1. FlattenSeq(seqs) = << >>
    BY <1>2 DEF FlattenSeq
  <2>2. DOMAIN << >> = {}
    OBVIOUS
  <2> QED BY <2>1, <2>2 DEF Grounded
<1>3. CASE seqs # << >>
  <2>1. PICK f : Flattens(f, seqs, n, T) /\ FlattenSeq(seqs) = f[n]
    BY <1>3, FlattenIs
  <2> DEFINE Bad == {k \in 1..n : ~ Grounded(f[k], S, E)}
  <2>2. Bad = {}
    <3> SUFFICES ASSUME Bad # {} PROVE FALSE
      OBVIOUS
    <3>1. Bad \in SUBSET Nat
      OBVIOUS
    <3>2. PICK k \in Bad : \A l \in Bad : k <= l
      BY <3>1, LeastNumber
    <3>3. k \in 1..n /\ f[k] = IF k = 1 THEN seqs[k] ELSE f[k - 1] \o seqs[k]
      BY <2>1 DEF Flattens
    <3>4. CASE k = 1
      BY <1>1, <3>2, <3>3, <3>4
    <3>5. CASE k # 1
      <4>1. k - 1 \in 1..n /\ ~ (k <= k - 1)
        BY <3>3, <3>5
      <4>2. Grounded(f[k - 1], S, E)
        BY <3>2, <4>1
      <4>6. f[k - 1] \in Seq(T) /\ seqs[k] \in Seq(T)
        BY <1>1, <2>1, <3>3, <4>1 DEF Flattens
      <4>3. IsSequence(f[k - 1]) /\ IsSequence(seqs[k])
        BY <4>6, SequenceOf
      <4>4. Grounded(seqs[k], S \cup Written(f[k - 1], "state"), E \cup Written(f[k - 1], "edge"))
        <5> DEFINE S2 == S \cup Written(f[k - 1], "state")
                   E2 == E \cup Written(f[k - 1], "edge")
        <5>1. Grounded(seqs[k], S, E) /\ S \subseteq S2 /\ E \subseteq E2
          BY <1>1, <3>3
        <5> HIDE DEF S2, E2
        <5>2. Grounded(seqs[k], S2, E2)
          BY <5>1, GroundedGrows
        <5> QED BY <5>2 DEF S2, E2
      <4>5. Grounded(f[k - 1] \o seqs[k], S, E)
        BY <4>2, <4>3, <4>4, GroundedConcat
      <4> QED BY <3>2, <3>3, <3>5, <4>5
    <3> QED BY <3>4, <3>5
  <2>3. n \in 1..n
    <3>1. n # 0
      BY <1>3, EmptySeq
    <3> QED BY <1>1, <3>1
  <2> QED BY <2>1, <2>2, <2>3
<1> QED BY <1>2, <1>3

\* Statements that need nothing.
LEMMA FreeIsGrounded ==
  ASSUME NEW w, NEW S, NEW E, \A x \in Range(w) : x[1] \notin {"edge", "session", "journal"}
  PROVE  Grounded(w, S, E)
BY DEF Grounded, GroundedAt, Range

\* Edges between known states.
LEMMA EdgesAreGrounded ==
  ASSUME NEW w, NEW S, NEW E,
         \A x \in Range(w) : x[1] = "edge" /\ x[2][1] \in S /\ x[2][3] \in S
  PROVE  Grounded(w, S, E)
BY DEF Grounded, GroundedAt, Range

-----------------------------------------------------------------------------
(* The scripts of the writers *)

LEMMA OpsOf ==
  ASSUME NEW kind, NEW q, IsSequence(q)
  PROVE  /\ IsSequence(Ops(kind, q)) /\ DOMAIN Ops(kind, q) = DOMAIN q
         /\ \A i \in DOMAIN q : Ops(kind, q)[i] = <<kind, q[i]>>
         /\ Range(Ops(kind, q)) = {<<kind, y>> : y \in Range(q)}
         /\ Uses(Ops(kind, q), {kind})
<1>1. Len(q) \in Nat /\ DOMAIN q = 1..Len(q)
  BY SequenceOf DEF IsSequence
<1>2. /\ DOMAIN Ops(kind, q) = DOMAIN q
      /\ \A i \in DOMAIN q : Ops(kind, q)[i] = <<kind, q[i]>>
  BY DEF Ops
<1>3. Range(Ops(kind, q)) = {<<kind, y>> : y \in Range(q)}
  BY <1>2 DEF Range
<1>4. Ops(kind, q) \in [1..Len(q) -> Range(Ops(kind, q))]
  <2>1. \A i \in DOMAIN q : Ops(kind, q)[i] \in Range(Ops(kind, q))
    BY <1>2 DEF Range
  <2> QED BY <1>1, <2>1 DEF Ops
<1>5. IsSequence(Ops(kind, q))
  BY <1>1, <1>4, SeqDef DEF IsSequence
<1> QED BY <1>2, <1>3, <1>5 DEF Uses

\* The states and the edges of a trace: an edge joins two of its states.
LEMMA TraceShape ==
  ASSUME NEW t \in Journals \cup Recordings
  PROVE  /\ IsSequence(Path(t)) /\ IsSequence(TraceEdges(t))
         /\ \A x \in Range(TraceEdges(t)) : x[1] \in Range(Path(t)) /\ x[3] \in Range(Path(t))
<1> DEFINE n == Len(t.events)
           after == [i \in DOMAIN t.events |-> t.events[i].after]
<1>1. n \in Nat /\ DOMAIN t.events = 1..n
  BY TracesAssumption
<1>2. IsSequence(after) /\ Len(after) = n
  <2>1. after \in [1..n -> Range(after)]
    BY <1>1 DEF Range
  <2> HIDE DEF after
  <2> QED BY <1>1, <2>1, SeqDef DEF IsSequence
<1>3. IsSequence(<<t.initial>>) /\ Len(<<t.initial>>) = 1
  <2>1. <<t.initial>> \in Seq({t.initial})
    OBVIOUS
  <2> QED BY <2>1, SequenceOf
<1>4. IsSequence(Path(t)) /\ Len(Path(t)) = n + 1
  <2> HIDE DEF after
  <2>1. IsSequence(<<t.initial>> \o after) /\ Len(<<t.initial>> \o after) = n + 1
    BY <1>1, <1>2, <1>3, ConcatOf
  <2> QED BY <2>1 DEF Path, after
<1>5. DOMAIN Path(t) = 1..(n + 1)
  BY <1>4, SequenceOf DEF IsSequence
<1>6. \A i \in 1..(n + 1) : Path(t)[i] \in Range(Path(t))
  BY <1>5 DEF Range
<1>7. /\ DOMAIN TraceEdges(t) = 1..n
      /\ \A i \in 1..n : TraceEdges(t)[i] = <<Path(t)[i], t.events[i].action, Path(t)[i + 1]>>
  BY <1>1 DEF TraceEdges
<1>8. IsSequence(TraceEdges(t))
  <2>1. TraceEdges(t) \in [1..n -> Range(TraceEdges(t))]
    BY <1>1 DEF TraceEdges, Range
  <2> QED BY <1>1, <2>1, SeqDef DEF IsSequence
<1>9. ASSUME NEW x \in Range(TraceEdges(t))
      PROVE  x[1] \in Range(Path(t)) /\ x[3] \in Range(Path(t))
  <2>1. PICK i \in 1..n : x = <<Path(t)[i], t.events[i].action, Path(t)[i + 1]>>
    BY <1>7, <1>9 DEF Range
  <2>2. i \in 1..(n + 1) /\ i + 1 \in 1..(n + 1)
    BY <1>1
  <2> QED BY <1>6, <2>1, <2>2
<1> QED BY <1>4, <1>8, <1>9

LEMMA MovesShape ==
  ASSUME NEW t \in Journals \cup Recordings
  PROVE  IsSequence(Moves(t))
<1> DEFINE T == Range(TraceEdges(t))
           seqs == [i \in DOMAIN TraceEdges(t) |->
                      IF Path(t)[i] = Path(t)[i + 1] THEN << >> ELSE <<TraceEdges(t)[i]>>]
<1>1. Len(TraceEdges(t)) \in Nat /\ DOMAIN TraceEdges(t) = 1..Len(TraceEdges(t))
      /\ \A i \in DOMAIN TraceEdges(t) : TraceEdges(t)[i] \in T
  BY TraceShape, SequenceOf DEF IsSequence
<1>2. seqs \in Seq(Seq(T))
  <2>1. \A i \in DOMAIN TraceEdges(t) : <<TraceEdges(t)[i]>> \in Seq(T) /\ << >> \in Seq(T)
    <3> HIDE DEF T
    <3> QED BY <1>1
  <2>2. seqs \in [1..Len(TraceEdges(t)) -> Seq(T)]
    <3> HIDE DEF T
    <3> QED BY <1>1, <2>1
  <2> HIDE DEF T, seqs
  <2> QED BY <1>1, <2>2, SeqDef
<1>3. FlattenSeq(seqs) \in Seq(T)
  <2> HIDE DEF seqs, T
  <2> QED BY <1>2, FlattenOf
<1> QED BY <1>3, SequenceOf DEF Moves

\* The states first, then the edges between them.
LEMMA GraphScript ==
  ASSUME NEW t \in Journals \cup Recordings, NEW S, NEW E
  PROVE  LET w == Ops("state", Path(t)) \o Ops("edge", TraceEdges(t))
         IN  /\ IsSequence(w) /\ Grounded(w, S, E) /\ Uses(w, {"state", "edge"})
             /\ Range(Path(t)) \subseteq Written(w, "state")
             /\ Range(TraceEdges(t)) \subseteq Written(w, "edge")
<1> DEFINE a == Ops("state", Path(t))
           b == Ops("edge", TraceEdges(t))
<1>1. /\ IsSequence(a) /\ Range(a) = {<<"state", y>> : y \in Range(Path(t))} /\ Uses(a, {"state"})
      /\ IsSequence(b) /\ Range(b) = {<<"edge", y>> : y \in Range(TraceEdges(t))} /\ Uses(b, {"edge"})
  BY TraceShape, OpsOf
<1>2. \A y \in Range(TraceEdges(t)) : y[1] \in Range(Path(t)) /\ y[3] \in Range(Path(t))
  BY TraceShape
<1> HIDE DEF a, b
<1>3. Written(a, "state") = Range(Path(t))
  <2>1. Written(a, "state") = {x[2] : x \in {y \in Range(a) : y[1] = "state"}}
    BY <1>1, WrittenRange
  <2>2. \A x \in Range(a) : x[1] = "state" /\ x[2] \in Range(Path(t))
    BY <1>1
  <2>3. ASSUME NEW y \in Range(Path(t)) PROVE y \in Written(a, "state")
    <3>1. <<"state", y>> \in Range(a)
      BY <1>1
    <3>2. <<"state", y>>[2] \in Written(a, "state")
      BY <2>1, <3>1
    <3> QED BY <3>2
  <2> QED BY <2>1, <2>2, <2>3
<1>4. Grounded(a, S, E)
  BY <1>1, FreeIsGrounded
<1>5. Grounded(b, S \cup Written(a, "state"), E \cup Written(a, "edge"))
  BY <1>1, <1>2, <1>3, EdgesAreGrounded
<1>6. Grounded(a \o b, S, E) /\ IsSequence(a \o b) /\ Range(a \o b) = Range(a) \cup Range(b)
  BY <1>1, <1>4, <1>5, GroundedConcat, ConcatOf, ConcatRange
<1>7. Uses(a \o b, {"state", "edge"})
  <2>1. Uses(a, {"state", "edge"}) /\ Uses(b, {"state", "edge"})
    BY <1>1 DEF Uses
  <2> QED BY <1>1, <2>1, UsesConcat
<1>8. \A kind : Written(a \o b, kind) = {x[2] : x \in {y \in Range(a \o b) : y[1] = kind}}
  BY <1>6, WrittenRange
<1>9. Range(Path(t)) \subseteq Written(a \o b, "state")
  <2> SUFFICES ASSUME NEW s \in Range(Path(t)) PROVE s \in Written(a \o b, "state")
    OBVIOUS
  <2>1. <<"state", s>> \in Range(a \o b)
    BY <1>1, <1>6
  <2>2. <<"state", s>>[2] \in Written(a \o b, "state")
    BY <1>8, <2>1
  <2> QED BY <2>2
<1>10. Range(TraceEdges(t)) \subseteq Written(a \o b, "edge")
  <2> SUFFICES ASSUME NEW s \in Range(TraceEdges(t)) PROVE s \in Written(a \o b, "edge")
    OBVIOUS
  <2>1. <<"edge", s>> \in Range(a \o b)
    BY <1>1, <1>6
  <2>2. <<"edge", s>>[2] \in Written(a \o b, "edge")
    BY <1>8, <2>1
  <2> QED BY <2>2
<1> QED BY <1>6, <1>7, <1>9, <1>10 DEF a, b

WriterKind == {"state", "edge", "session", "trace", "journal"}
RunKind == {"load", "matrix", "plan", "behaviors", "contribution", "state", "edge"}

LEMMA JournalScript ==
  ASSUME NEW t \in Journals, NEW S, NEW E
  PROVE  /\ IsSequence(JournalWrites(t)) /\ Grounded(JournalWrites(t), S, E)
         /\ Uses(JournalWrites(t), WriterKind)
<1> DEFINE w == Ops("state", Path(t)) \o Ops("edge", TraceEdges(t))
           v == <<<<"trace", t>>, <<"journal", t>>>>
<1>1. /\ IsSequence(w) /\ Grounded(w, S, E) /\ Uses(w, WriterKind)
      /\ Range(Path(t)) \subseteq Written(w, "state")
      /\ Range(TraceEdges(t)) \subseteq Written(w, "edge")
  BY GraphScript DEF Uses, WriterKind
<1>2. /\ IsSequence(v) /\ DOMAIN v = 1..2 /\ v[1] = <<"trace", t>> /\ v[2] = <<"journal", t>>
  BY PairShape
<1> HIDE DEF w, v
<1>3. \A i \in DOMAIN v : v[i][1] \in {"trace", "journal"} /\ v[i][2] = t
  <2>1. \A i \in 1..2 : i = 1 \/ i = 2
    OBVIOUS
  <2>2. v[1][1] = "trace" /\ v[1][2] = t /\ v[2][1] = "journal" /\ v[2][2] = t
    BY <1>2
  <2> QED BY <1>2, <2>1, <2>2
<1>4. Grounded(v, S \cup Written(w, "state"), E \cup Written(w, "edge"))
  <2> SUFFICES ASSUME NEW i \in DOMAIN v
               PROVE  GroundedAt(v, i, S \cup Written(w, "state"), E \cup Written(w, "edge"))
    BY DEF Grounded
  <2>1. v[i][1] # "edge" /\ v[i][2] = t
    BY <1>3
  <2> QED BY <1>1, <2>1 DEF GroundedAt
<1>5. Uses(v, WriterKind)
  BY <1>3 DEF Uses, WriterKind
<1>6. Grounded(w \o v, S, E) /\ IsSequence(w \o v) /\ Uses(w \o v, WriterKind)
  BY <1>1, <1>2, <1>4, <1>5, GroundedConcat, ConcatOf, UsesConcat
<1> QED BY <1>6 DEF JournalWrites, w, v

LEMMA RecordScript ==
  ASSUME NEW t \in Recordings, NEW S, NEW E
  PROVE  /\ IsSequence(RecordWrites(t)) /\ Grounded(RecordWrites(t), S, E)
         /\ Uses(RecordWrites(t), WriterKind)
<1> DEFINE w == Ops("state", Path(t)) \o Ops("edge", TraceEdges(t))
           v == <<<<"session", t>>, <<"trace", t>>>>
<1>1. /\ IsSequence(w) /\ Grounded(w, S, E) /\ Uses(w, WriterKind)
      /\ Range(Path(t)) \subseteq Written(w, "state")
      /\ Range(TraceEdges(t)) \subseteq Written(w, "edge")
  BY GraphScript DEF Uses, WriterKind
<1>2. /\ IsSequence(v) /\ DOMAIN v = 1..2 /\ v[1] = <<"session", t>> /\ v[2] = <<"trace", t>>
  BY PairShape
<1> HIDE DEF w, v
<1>3. \A i \in DOMAIN v : v[i][1] \in {"session", "trace"} /\ v[i][2] = t
  <2>1. \A i \in 1..2 : i = 1 \/ i = 2
    OBVIOUS
  <2>2. v[1][1] = "session" /\ v[1][2] = t /\ v[2][1] = "trace" /\ v[2][2] = t
    BY <1>2
  <2> QED BY <1>2, <2>1, <2>2
<1>4. Grounded(v, S \cup Written(w, "state"), E \cup Written(w, "edge"))
  <2> SUFFICES ASSUME NEW i \in DOMAIN v
               PROVE  GroundedAt(v, i, S \cup Written(w, "state"), E \cup Written(w, "edge"))
    BY DEF Grounded
  <2>1. v[i][1] # "edge" /\ v[i][2] = t
    BY <1>3
  <2> QED BY <1>1, <2>1 DEF GroundedAt
<1>5. Uses(v, WriterKind)
  BY <1>3 DEF Uses, WriterKind
<1>6. Grounded(w \o v, S, E) /\ IsSequence(w \o v) /\ Uses(w \o v, WriterKind)
  BY <1>1, <1>2, <1>4, <1>5, GroundedConcat, ConcatOf, UsesConcat
<1> QED BY <1>6 DEF RecordWrites, w, v

\* The questions before a trace is stored: each state and each edge that is no loop.
LEMMA ReadsShape ==
  ASSUME NEW t \in Journals \cup Recordings
  PROVE  /\ IsSequence(Reads(t))
         /\ \A s \in Range(Path(t)) : <<"state", s>> \in Range(Reads(t))
         /\ \A x \in Range(Moves(t)) : <<"edge", x>> \in Range(Reads(t))
<1> DEFINE a == Ops("state", Path(t))
           b == Ops("edge", Moves(t))
<1>1. /\ IsSequence(a) /\ Range(a) = {<<"state", y>> : y \in Range(Path(t))}
      /\ IsSequence(b) /\ Range(b) = {<<"edge", y>> : y \in Range(Moves(t))}
  BY TraceShape, MovesShape, OpsOf
<1> HIDE DEF a, b
<1>2. IsSequence(a \o b) /\ Range(a \o b) = Range(a) \cup Range(b)
  BY <1>1, ConcatOf, ConcatRange
<1>3. Reads(t) = a \o b
  BY DEF Reads, a, b
<1> QED BY <1>1, <1>2, <1>3

LEMMA RecordReadsShape ==
  ASSUME NEW t \in Recordings
  PROVE  /\ IsSequence(RecordReads(t))
         /\ \A s \in Range(Path(t)) : <<"state", s>> \in Range(RecordReads(t))
         /\ \A x \in Range(Moves(t)) : <<"edge", x>> \in Range(RecordReads(t))
<1> DEFINE a == Ops("obligation", SetToSeq(t.obligations))
           b == Ops("api", SetToSeq(t.apis))
<1>1. IsSequence(a) /\ IsSequence(b)
  BY TracesAssumption, SetIsSequence, OpsOf
<1> HIDE DEF a, b
<1>2. IsSequence(Reads(t)) /\ IsSequence(Reads(t) \o a)
      /\ Range(Reads(t)) \subseteq Range(Reads(t) \o a)
  BY <1>1, ReadsShape, ConcatOf, ConcatRange
<1>3. /\ IsSequence((Reads(t) \o a) \o b)
      /\ Range(Reads(t) \o a) \subseteq Range((Reads(t) \o a) \o b)
  BY <1>1, <1>2, ConcatOf, ConcatRange
<1>4. RecordReads(t) = (Reads(t) \o a) \o b
  BY DEF RecordReads, a, b
<1> QED BY <1>2, <1>3, <1>4, ReadsShape

\* A program writes the states that it saw before the edges between them.
LEMMA ProgramScript ==
  ASSUME NEW name \in DOMAIN Sources, NEW b \in Range(Sources[name].browser), NEW S, NEW E
  PROVE  /\ IsSequence(ProgramWrites(b)) /\ Grounded(ProgramWrites(b), S, E)
         /\ Uses(ProgramWrites(b), {"state", "edge"})
<1> DEFINE Named(i) == i \in DOMAIN b.observations /\ b.observations[i].state.route # Unknown
           At(i) == Semantic(b.observations[i].state)
           stateOf(i) == IF Named(i) THEN <<<<"state", At(i)>>>> ELSE << >>
           edgeOf(i) == IF Named(b.spans[i].start) /\ Named(b.spans[i].end)
                        THEN <<<<"edge", <<At(b.spans[i].start), b.spans[i].action,
                                           At(b.spans[i].end)>>>>>>
                        ELSE << >>
           one == [i \in DOMAIN b.observations |-> stateOf(i)]
           two == [i \in DOMAIN b.spans |-> edgeOf(i)]
           Ends == {At(i) : i \in {k \in DOMAIN b.observations : Named(k)}}
           T1 == {<<"state", x>> : x \in Ends}
           T2 == {<<"edge", x>> : x \in {y \in {<<At(b.spans[i].start), b.spans[i].action,
                                                 At(b.spans[i].end)>> : i \in DOMAIN b.spans} :
                                           y[1] \in Ends /\ y[3] \in Ends}}
           u == FlattenSeq(one)
           v == FlattenSeq(two)
<1>1. ProgramWrites(b) = u \o v
  BY DEF ProgramWrites
<1>2. /\ Len(b.observations) \in Nat /\ DOMAIN b.observations = 1..Len(b.observations)
      /\ Len(b.spans) \in Nat /\ DOMAIN b.spans = 1..Len(b.spans)
  BY SourcesAssumption
<1>3. ASSUME NEW i \in DOMAIN b.observations
      PROVE  /\ stateOf(i) \in Seq(T1)
             /\ Named(i) => Range(stateOf(i)) = {<<"state", At(i)>>}
  <2>1. CASE Named(i)
    <3>1. <<"state", At(i)>> \in T1
      BY <2>1
    <3> HIDE DEF T1
    <3>2. stateOf(i) = <<<<"state", At(i)>>>>
      BY <2>1
    <3> HIDE DEF stateOf, At
    <3> QED BY <3>1, <3>2 DEF Range
  <2>2. CASE ~ Named(i)
    <3>1. stateOf(i) = << >>
      BY <2>2
    <3> HIDE DEF T1, stateOf
    <3> QED BY <2>2, <3>1
  <2> QED BY <2>1, <2>2
<1>4. ASSUME NEW i \in DOMAIN b.spans PROVE edgeOf(i) \in Seq(T2)
  <2> DEFINE x == <<At(b.spans[i].start), b.spans[i].action, At(b.spans[i].end)>>
  <2>1. CASE Named(b.spans[i].start) /\ Named(b.spans[i].end)
    <3>1. At(b.spans[i].start) \in Ends /\ At(b.spans[i].end) \in Ends
      BY <2>1
    <3>2. x[1] \in Ends /\ x[3] \in Ends
      <4> HIDE DEF Ends, At
      <4> QED BY <3>1
    <3>3. <<"edge", x>> \in T2
      BY <3>2
    <3>4. edgeOf(i) = <<<<"edge", x>>>>
      BY <2>1
    <3> HIDE DEF T2, x, edgeOf
    <3> QED BY <3>3, <3>4
  <2>2. CASE ~ (Named(b.spans[i].start) /\ Named(b.spans[i].end))
    <3>1. edgeOf(i) = << >>
      BY <2>2
    <3> HIDE DEF T2, edgeOf
    <3> QED BY <3>1
  <2> QED BY <2>1, <2>2
<1>5. /\ one \in Seq(Seq(T1)) /\ two \in Seq(Seq(T2))
      /\ DOMAIN one = DOMAIN b.observations
      /\ \A i \in DOMAIN b.observations : one[i] = stateOf(i)
  <2> HIDE DEF T1, T2, stateOf, edgeOf
  <2>1. one \in [1..Len(b.observations) -> Seq(T1)] /\ two \in [1..Len(b.spans) -> Seq(T2)]
    BY <1>2, <1>3, <1>4
  <2>2. /\ DOMAIN one = DOMAIN b.observations
        /\ \A i \in DOMAIN b.observations : one[i] = stateOf(i)
    OBVIOUS
  <2> HIDE DEF one, two
  <2> QED BY <1>2, <2>1, <2>2, SeqDef
<1> HIDE DEF one, two
<1>6. u \in Seq(T1) /\ (\A k \in DOMAIN one : Range(one[k]) \subseteq Range(u))
  <2> HIDE DEF T1
  <2> QED BY <1>5, FlattenOf
<1>7. v \in Seq(T2)
  <2> HIDE DEF T2
  <2> QED BY <1>5, FlattenOf
<1>8. /\ IsSequence(u) /\ Range(u) \subseteq T1 /\ IsSequence(v) /\ Range(v) \subseteq T2
      /\ \A i \in DOMAIN u : u[i] \in Range(u)
      /\ \A i \in DOMAIN v : v[i] \in Range(v)
  <2> HIDE DEF u, v, T1, T2
  <2> QED BY <1>6, <1>7, SequenceOf
<1>9. \A x \in T1 : x[1] = "state"
  OBVIOUS
<1>10. \A x \in T2 : x[1] = "edge" /\ x[2][1] \in Ends /\ x[2][3] \in Ends
  <2> HIDE DEF At, Ends
  <2> QED OBVIOUS
<1>11. Ends \subseteq Written(u, "state")
  <2> SUFFICES ASSUME NEW i \in DOMAIN b.observations, Named(i)
               PROVE  At(i) \in Written(u, "state")
    OBVIOUS
  <2>1. <<"state", At(i)>> \in Range(u)
    <3> HIDE DEF u, At, Named, stateOf, T1
    <3> QED BY <1>3, <1>5, <1>6
  <2> DEFINE x == <<"state", At(i)>>
  <2>2. x[1] = "state" /\ x[2] = At(i)
    OBVIOUS
  <2> HIDE DEF u, At
  <2>3. Written(u, "state") = {z[2] : z \in {y \in Range(u) : y[1] = "state"}}
    BY <1>8, WrittenRange
  <2> QED BY <2>1, <2>2, <2>3
<1> HIDE DEF T1, T2, u, v, Ends, At, Named, stateOf, edgeOf
<1>12. Grounded(u, S, E)
  BY <1>8, <1>9, FreeIsGrounded
<1>13. Grounded(v, S \cup Written(u, "state"), E \cup Written(u, "edge"))
  BY <1>8, <1>10, <1>11, EdgesAreGrounded
<1>14. Uses(u, {"state", "edge"}) /\ Uses(v, {"state", "edge"})
  BY <1>8, <1>9, <1>10 DEF Uses
<1> QED BY <1>1, <1>8, <1>12, <1>13, <1>14, GroundedConcat, ConcatOf, UsesConcat

\* A run reads the journals first and stores its matrix before the plan.
LoadFirst(w) == \A i \in DOMAIN w : w[i][1] = "load" => i = 1
PlanAfterMatrix(w) == \A i \in DOMAIN w : w[i][1] = "plan" => \E k \in 1..(i - 1) : w[k][1] = "matrix"

LEMMA HeadShape ==
  ASSUME NEW a, NEW b, NEW c, NEW d
  PROVE  /\ IsSequence(<<a, b, c, d>>) /\ Len(<<a, b, c, d>>) = 4
         /\ DOMAIN <<a, b, c, d>> = 1..4
         /\ <<a, b, c, d>>[1] = a /\ <<a, b, c, d>>[2] = b
         /\ <<a, b, c, d>>[3] = c /\ <<a, b, c, d>>[4] = d
<1>1. <<a, b, c, d>> \in Seq({a, b, c, d})
  OBVIOUS
<1>2. IsSequence(<<a, b, c, d>>)
  BY <1>1, SequenceOf
<1>3. /\ Len(<<a, b, c, d>>) = 4 /\ DOMAIN <<a, b, c, d>> = 1..4
      /\ <<a, b, c, d>>[1] = a /\ <<a, b, c, d>>[2] = b
      /\ <<a, b, c, d>>[3] = c /\ <<a, b, c, d>>[4] = d
  OBVIOUS
<1> QED BY <1>2, <1>3

LEMMA RunScript ==
  ASSUME NEW name \in DOMAIN Sources, NEW S, NEW E
  PROVE  LET w == RunWrites(Sources[name])
         IN  IsSequence(w) /\ Grounded(w, S, E) /\ Uses(w, RunKind)
             /\ LoadFirst(w) /\ PlanAfterMatrix(w)
<1> DEFINE src == Sources[name]
           seqs == [i \in DOMAIN src.browser |-> ProgramWrites(src.browser[i])]
           h == <<<<"load", None>>, <<"matrix", None>>, <<"plan", None>>, <<"behaviors", None>>>>
           q == FlattenSeq(seqs)
           c == IF src.browser = <<>> THEN <<>> ELSE <<<<"contribution", None>>>>
           T == UNION {Range(seqs[i]) : i \in DOMAIN src.browser}
           w == (h \o q) \o c
<1>1. RunWrites(src) = w
  BY DEF RunWrites
<1>2. /\ Len(src.browser) \in Nat /\ DOMAIN src.browser = 1..Len(src.browser)
      /\ \A i \in DOMAIN src.browser : src.browser[i] \in Range(src.browser)
  BY SourcesAssumption, SequenceOf
<1>3. ASSUME NEW i \in DOMAIN src.browser
      PROVE  /\ IsSequence(ProgramWrites(src.browser[i]))
             /\ Grounded(ProgramWrites(src.browser[i]), S, E)
             /\ Uses(ProgramWrites(src.browser[i]), {"state", "edge"})
  BY <1>2, ProgramScript
<1>4. /\ DOMAIN seqs = DOMAIN src.browser
      /\ \A i \in DOMAIN seqs : seqs[i] = ProgramWrites(src.browser[i])
  OBVIOUS
<1> HIDE DEF seqs
<1>5. ASSUME NEW i \in DOMAIN src.browser PROVE seqs[i] \in Seq(T)
  <2>1. /\ seqs[i] \in [1..Len(seqs[i]) -> Range(seqs[i])] /\ Len(seqs[i]) \in Nat
    BY <1>3, <1>4 DEF IsSequence
  <2>2. Range(seqs[i]) \subseteq T
    OBVIOUS
  <2> HIDE DEF T
  <2>3. seqs[i] \in [1..Len(seqs[i]) -> T]
    BY <2>1, <2>2
  <2> QED BY <2>1, <2>3, SeqDef
<1>6. seqs \in Seq(Seq(T))
  <2> HIDE DEF T
  <2>1. seqs \in [1..Len(src.browser) -> Seq(T)]
    <3>1. seqs = [i \in DOMAIN src.browser |-> ProgramWrites(src.browser[i])]
      BY DEF seqs
    <3> QED BY <1>2, <1>4, <1>5, <3>1
  <2> QED BY <1>2, <2>1, SeqDef
<1>7. IsSequence(q) /\ Grounded(q, S, E) /\ Uses(q, {"state", "edge"})
  <2>1. /\ q \in Seq(T)
        /\ \A x \in Range(q) : \E k \in DOMAIN seqs : x \in Range(seqs[k])
    <3> HIDE DEF T
    <3> QED BY <1>6, FlattenOf
  <2>2. IsSequence(q) /\ \A i \in DOMAIN q : q[i] \in Range(q)
    <3> HIDE DEF T, q
    <3> QED BY <2>1, SequenceOf
  <2>3. \A k \in DOMAIN seqs : Grounded(seqs[k], S, E)
    BY <1>3, <1>4
  <2>4. Grounded(q, S, E)
    <3> HIDE DEF T
    <3> QED BY <1>6, <2>3, FlattenGrounded
  <2>5. \A k \in DOMAIN seqs : \A x \in Range(seqs[k]) : x[1] \in {"state", "edge"}
    BY <1>3, <1>4 DEF Uses, Range
  <2> HIDE DEF q, T
  <2> QED BY <2>1, <2>2, <2>4, <2>5 DEF Uses
<1>8. /\ IsSequence(h) /\ Len(h) = 4 /\ DOMAIN h = 1..4
      /\ h[1] = <<"load", None>> /\ h[2] = <<"matrix", None>>
      /\ h[3] = <<"plan", None>> /\ h[4] = <<"behaviors", None>>
  BY HeadShape
<1>9. /\ IsSequence(c)
      /\ \A i \in DOMAIN c : c[i][1] = "contribution"
  <2>1. CASE src.browser = << >>
    BY <2>1, EmptyShape
  <2>2. CASE src.browser # << >>
    <3>1. c = <<<<"contribution", None>>>>
      BY <2>2
    <3>2. IsSequence(c) /\ Range(c) = {<<"contribution", None>>}
      BY <3>1, SingleShape
    <3> HIDE DEF c
    <3> QED BY <3>2 DEF Range
  <2> QED BY <2>1, <2>2
<1> HIDE DEF h, q, c
<1>10. \A i \in 1..4 : i = 1 \/ i = 2 \/ i = 3 \/ i = 4
  OBVIOUS
<1>11. /\ h[1][1] = "load" /\ h[2][1] = "matrix" /\ h[3][1] = "plan" /\ h[4][1] = "behaviors"
  BY <1>8
<1>12. \A i \in DOMAIN h : h[i][1] \in {"load", "matrix", "plan", "behaviors"}
  BY <1>8, <1>10, <1>11
<1>13. \A i \in DOMAIN h : i # 1 => h[i][1] # "load"
  BY <1>8, <1>10, <1>11
<1>14. Grounded(h, S, E)
  <2>1. \A x \in Range(h) : x[1] \notin {"edge", "session", "journal"}
    BY <1>12 DEF Range
  <2> QED BY <2>1, FreeIsGrounded
<1>15. IsSequence(h \o q) /\ Grounded(h \o q, S, E) /\ Uses(h \o q, RunKind)
  <2>1. Grounded(q, S \cup Written(h, "state"), E \cup Written(h, "edge"))
    BY <1>7, GroundedGrows
  <2>2. Uses(h, RunKind) /\ Uses(q, RunKind)
    BY <1>7, <1>12 DEF Uses, RunKind
  <2> QED BY <1>7, <1>8, <1>14, <2>1, <2>2, ConcatOf, GroundedConcat, UsesConcat
<1>16. IsSequence(w) /\ Grounded(w, S, E) /\ Uses(w, RunKind)
  <2>1. Grounded(c, (S \cup Written(h \o q, "state")), (E \cup Written(h \o q, "edge")))
    <3>1. \A x \in Range(c) : x[1] \notin {"edge", "session", "journal"}
      BY <1>9 DEF Range
    <3> QED BY <3>1, FreeIsGrounded
  <2>2. Uses(c, RunKind)
    BY <1>9 DEF Uses, RunKind
  <2> QED BY <1>9, <1>15, <2>1, <2>2, ConcatOf, GroundedConcat, UsesConcat
\* Where each statement of the whole comes from.
<1>17. ASSUME NEW i \in DOMAIN w
       PROVE  \/ i \in 1..4 /\ w[i] = h[i]
              \/ i > 4 /\ w[i][1] \in {"state", "edge", "contribution"}
  <2> DEFINE hq == h \o q
  <2>10. /\ Len(hq) = Len(h) + Len(q) /\ Len(q) \in Nat /\ DOMAIN q = 1..Len(q)
         /\ \A k \in 1..Len(h) : hq[k] = h[k]
         /\ \A k \in 1..Len(q) : hq[Len(h) + k] = q[k]
    <3>1. IsSequence(h) /\ IsSequence(q)
      BY <1>7, <1>8
    <3> QED BY ONLY <3>1, ConcatOf DEF hq
  <2>1. /\ Len(hq) = 4 + Len(q) /\ Len(q) \in Nat /\ DOMAIN q = 1..Len(q)
        /\ \A k \in 1..4 : hq[k] = h[k]
        /\ \A k \in 1..Len(q) : hq[4 + k] = q[k]
    <3> HIDE DEF hq
    <3> QED BY <1>8, <2>10
  <2>11. IsSequence(hq) /\ w = hq \o c
    BY <1>15
  <2> HIDE DEF hq, w
  <2>12. /\ Len(c) \in Nat /\ DOMAIN c = 1..Len(c)
         /\ DOMAIN w = 1..(Len(hq) + Len(c))
         /\ \A k \in 1..Len(hq) : w[k] = hq[k]
         /\ \A k \in 1..Len(c) : w[Len(hq) + k] = c[k]
    BY <1>9, <2>11, ConcatOf
  <2>2. /\ Len(c) \in Nat /\ DOMAIN c = 1..Len(c)
        /\ DOMAIN w = 1..(4 + Len(q) + Len(c))
        /\ \A k \in 1..(4 + Len(q)) : w[k] = hq[k]
        /\ \A k \in 1..Len(c) : w[4 + Len(q) + k] = c[k]
    BY <2>1, <2>12
  <2>3. CASE i \in 1..4
    <3>1. i \in 1..(4 + Len(q))
      BY <2>1, <2>3
    <3> QED BY <2>1, <2>2, <2>3, <3>1
  <2>4. CASE i > 4 /\ i <= 4 + Len(q)
    <3>1. i - 4 \in 1..Len(q) /\ i = 4 + (i - 4) /\ i \in 1..(4 + Len(q))
      BY <2>1, <2>2, <2>4
    <3>2. w[i] = q[i - 4]
      BY <2>1, <2>2, <3>1
    <3> QED BY <1>7, <2>1, <2>4, <3>1, <3>2 DEF Uses
  <2>5. CASE i > 4 + Len(q)
    <3>3. Len(q) \in Nat /\ Len(c) \in Nat /\ i \in 1..(4 + Len(q) + Len(c))
      BY <2>1, <2>2
    <3>1. i - 4 - Len(q) \in 1..Len(c) /\ i = 4 + Len(q) + (i - 4 - Len(q)) /\ i > 4
      BY ONLY <2>5, <3>3
    <3>2. w[i] = c[i - 4 - Len(q)]
      BY <2>2, <3>1
    <3> QED BY <1>9, <2>2, <3>1, <3>2
  <2>6. i \in 1..4 \/ (i > 4 /\ i <= 4 + Len(q)) \/ i > 4 + Len(q)
    BY <2>1, <2>2
  <2> QED BY <2>3, <2>4, <2>5, <2>6
<1>18. LoadFirst(w)
  <2> SUFFICES ASSUME NEW i \in DOMAIN w, w[i][1] = "load" PROVE i = 1
    BY DEF LoadFirst
  <2> QED BY <1>8, <1>13, <1>17
<1>19. PlanAfterMatrix(w)
  <2> SUFFICES ASSUME NEW i \in DOMAIN w, w[i][1] = "plan"
               PROVE  \E k \in 1..(i - 1) : w[k][1] = "matrix"
    BY DEF PlanAfterMatrix
  <2>1. i = 3
    BY <1>10, <1>11, <1>17
  <2>2. 2 \in DOMAIN w
    <3>1. Len(w) \in Nat /\ DOMAIN w = 1..Len(w)
      BY <1>16, SequenceOf DEF IsSequence
    <3> HIDE DEF w
    <3> QED BY <2>1, <3>1
  <2>3. w[2][1] = "matrix"
    BY <1>11, <1>17, <2>2
  <2> QED BY <2>1, <2>3
<1> QED BY <1>1, <1>16, <1>18, <1>19

-----------------------------------------------------------------------------
(* The inductive invariant *)

Rows(claims, S, E) == \A c \in claims : c[2] \in (IF c[1] = "state" THEN S ELSE E)
Shown(t, S, E) == Range(Path(t)) \subseteq S /\ Range(TraceEdges(t)) \subseteq E
AllKnown(t, S, E) == Range(Path(t)) \subseteq S /\ Range(Moves(t)) \subseteq E

\* What is not known yet is still to be asked.
StillAsked(t, reads, S, E) ==
  /\ \A s \in Range(Path(t)) : s \in S \/ <<"state", s>> \in Range(reads)
  /\ \A x \in Range(Moves(t)) : x \in E \/ <<"edge", x>> \in Range(reads)

DiscardedOK(j, S, E) ==
  /\ j.kind = "discarded" /\ j = [kind |-> "discarded", trace |-> j.trace]
  /\ AllKnown(j.trace, S, E)

WriterShape(j) ==
  /\ j.kind \in {"ingest", "record"} /\ j.useful \in BOOLEAN
  /\ j = [kind |-> j.kind, trace |-> j.trace, useful |-> j.useful,
          reads |-> j.reads, writes |-> j.writes]
  /\ IsSequence(j.reads) /\ IsSequence(j.writes) /\ Uses(j.writes, WriterKind)

WriterOK(j, S, E) ==
  /\ WriterShape(j) /\ Grounded(j.writes, S, E)
  /\ ~ j.useful => StillAsked(j.trace, j.reads, S, E)

MatrixFor(name, loaded) ==
  Matrix(Sources[name].graph,
    [bindings |-> Sources[name].bindings, coverage |-> Sources[name].coverage,
     passing |-> Sources[name].passing, flows |-> Sources[name].flows,
     ui |-> Sources[name].ui, mutated |-> Sources[name].mutated,
     browser |-> Range(Sources[name].browser), journals |-> loaded])

BehaviorsFor(name, loaded) ==
  Behaviors(Sources[name].graph,
    (UNION {JournalFacts(t) : t \in loaded})
      \cup UNION {BrowserFacts(b) : b \in Range(Sources[name].browser)})

\* A run still loads, and a plan is stored of a matrix that is there by then.
Loading(w) == \E i \in DOMAIN w : w[i][1] = "load"
PlanReady(w, ready) ==
  \A i \in DOMAIN w : w[i][1] = "plan" => ready \/ \E k \in 1..(i - 1) : w[k][1] = "matrix"

RunShape(j) ==
  /\ j.kind = "run" /\ j.useful = TRUE /\ j.reads = << >>
  /\ j = [kind |-> j.kind, run |-> j.run, source |-> j.source, loaded |-> j.loaded,
          claims |-> j.claims, useful |-> j.useful, reads |-> j.reads, writes |-> j.writes]
  /\ j.source \in DOMAIN Sources
  /\ IsSequence(j.writes) /\ Uses(j.writes, RunKind) /\ LoadFirst(j.writes)

\* The documents of a live run are those of its sources and the journals it loaded.
DocsOfRun(j, d) ==
  /\ d.matrix \in {None, MatrixFor(j.source, j.loaded)}
  /\ d.plan \in {None, Plan(MatrixFor(j.source, j.loaded))}
  /\ d.behaviors \in {None, BehaviorsFor(j.source, j.loaded)}
  /\ Loading(j.writes) =>
       d.matrix = None /\ d.plan = None /\ d.behaviors = None /\ PlanReady(j.writes, FALSE)
  /\ PlanReady(j.writes, d.matrix = MatrixFor(j.source, j.loaded))

RunOK(j, S, E) == RunShape(j) /\ Grounded(j.writes, S, E) /\ Rows(j.claims, S, E)

JobOK(j, S, E) == j = Idle \/ DiscardedOK(j, S, E) \/ WriterOK(j, S, E) \/ RunOK(j, S, E)

WereSeen(d) ==
  (d.matrix # None /\ d.behaviors # None) =>
    \A b \in d.behaviors : d.matrix.rows[b.id.surface].runtime = "present"

DocsOK(d, S, E) ==
  /\ d = [matrix |-> d.matrix, plan |-> d.plan, behaviors |-> d.behaviors,
          contribution |-> d.contribution]
  /\ d.contribution # None => Rows(d.contribution, S, E)
  /\ WereSeen(d)

JobsAreSound ==
  /\ job = [p \in Proc |-> job[p]]
  /\ \A p \in Proc : JobOK(job[p], states, edges)
GraphIsClosed ==
  /\ \A x \in edges : x[1] \in states /\ x[3] \in states
  /\ \A t \in sessions \cup journals : Shown(t, states, edges)
DocsAreSound == \A r \in DOMAIN docs : DocsOK(docs[r], states, edges)
RunsAreLive ==
  /\ \A p \in Proc : job[p].kind = "run" =>
       job[p].run \in DOMAIN docs /\ DocsOfRun(job[p], docs[job[p].run])
  /\ \A p, q \in Proc : (job[p].kind = "run" /\ job[q].kind = "run" /\ job[p].run = job[q].run)
       => p = q

BehaviorInv == JobsAreSound /\ GraphIsClosed /\ DocsAreSound /\ RunsAreLive

-----------------------------------------------------------------------------
(* What the documents of a run say *)

LEMMA CutIsBoolean ==
  ASSUME NEW g, NEW path
  PROVE  Reach(g, path).truncated \in BOOLEAN
<1>1. CASE path \notin TestFile
  BY <1>1 DEF Reach
<1>2. CASE path \in TestFile
  BY <1>2 DEF Reach
<1> QED BY <1>1, <1>2

\* A column of the walks of some test files: what a walk that was cut short touches is in
\* neither set.
LEMMA CutIsUnmeasured ==
  ASSUME NEW g, NEW app, NEW paths, NEW q \in paths, Reach(g, q).truncated,
         NEW s \in Touching(app, Reach(g, q).nodes)
  PROVE  Cell(BindingColumn(g, app, paths), s) = "unmeasured"
<1>1. Reach(g, q).truncated = TRUE
  BY CutIsBoolean
<1> DEFINE cut == UNION {Touching(app, Reach(g, p).nodes) :
                            p \in {x \in paths : Reach(g, x).truncated = TRUE}}
<1>2. s \in cut
  BY <1>1
<1>3. s \notin BindingColumn(g, app, paths).present
  BY <1>2 DEF BindingColumn
<1>4. s \notin BindingColumn(g, app, paths).absent
  BY <1>2 DEF BindingColumn
<1> QED BY <1>3, <1>4 DEF Cell

\* Every cell of the matrix that is not present is a gap of the plan.
LEMMA PlanAsks ==
  ASSUME NEW matrix, NEW s \in DOMAIN matrix.rows, NEW c \in DOMAIN matrix.rows[s],
         matrix.rows[s][c] = "unmeasured"
  PROVE  \E gap \in Plan(matrix) :
           gap.surface = s /\ gap.column = c /\ gap.need = "unmeasured"
<1> DEFINE G(x) ==
             LET row == matrix.rows[x[1]]
                 offers == Offers(x[2], x[1][1], row.intent = "present")
             IN  [surface  |-> x[1],
                  column   |-> x[2],
                  need     |-> row[x[2]],
                  offers   |-> offers,
                  cheapest |-> {p \in offers : \A q \in offers : Cost(p) <= Cost(q)}]
           gaps == UNION {{<<u, d>> : d \in {e \in DOMAIN matrix.rows[u] :
                               matrix.rows[u][e] # "present"}} : u \in DOMAIN matrix.rows}
<1>1. <<s, c>> \in gaps
  OBVIOUS
<1>2. Plan(matrix) = {G(x) : x \in gaps}
  BY Zenon DEF Plan
<1>3. G(<<s, c>>) \in Plan(matrix)
  BY <1>1, <1>2, Zenon
<1>4. /\ G(<<s, c>>).surface = s /\ G(<<s, c>>).column = c
      /\ G(<<s, c>>).need = matrix.rows[s][c]
  OBVIOUS
<1> QED BY <1>3, <1>4, Zenon

LEMMA PlanKeepsCuts ==
  ASSUME NEW name \in DOMAIN Sources, NEW loaded, NEW cell \in CutCells[name]
  PROVE  \E gap \in Plan(MatrixFor(name, loaded)) :
           gap.surface = cell[1] /\ gap.column = cell[2] /\ gap.need = "unmeasured"
<1> DEFINE src == Sources[name]
           g == src.graph
           app == Application(g)
           s == cell[1]
           AskedOf(b) == IF b.obligations THEN {"test", "intent"} ELSE {"test"}
           bound == {b.path : b \in src.bindings}
           intended == {b.path : b \in {c \in src.bindings : c.obligations}}
           rows == MatrixFor(name, loaded).rows
<1>1. PICK b \in src.bindings :
         /\ Reach(g, b.path).truncated
         /\ cell \in Touching(app, Reach(g, b.path).nodes) \X AskedOf(b)
  BY DEF CutCells
<1>2. s \in Touching(app, Reach(g, b.path).nodes) /\ cell[2] \in AskedOf(b)
  BY <1>1
<1>3. s \in DOMAIN app
  BY <1>2 DEF Touching
<1>4. /\ rows[s]["test"] = Cell(BindingColumn(g, app, bound), s)
      /\ rows[s]["intent"] = Cell(BindingColumn(g, app, intended), s)
      /\ s \in DOMAIN rows /\ {"test", "intent"} \subseteq DOMAIN rows[s]
  BY <1>3 DEF MatrixFor, Matrix
<1>5. rows[s][cell[2]] = "unmeasured"
  <2>1. CASE cell[2] = "test"
    BY <1>1, <1>2, <1>4, <2>1, CutIsUnmeasured
  <2>2. CASE cell[2] = "intent" /\ b.obligations
    <3>1. b.path \in intended
      BY <2>2
    <3> QED BY <1>1, <1>2, <1>4, <2>2, <3>1, CutIsUnmeasured
  <2> QED BY <1>2, <2>1, <2>2
<1>6. cell[2] \in DOMAIN rows[s]
  BY <1>2, <1>4
<1> HIDE DEF rows
<1>7. \E gap \in Plan(MatrixFor(name, loaded)) :
        gap.surface = s /\ gap.column = cell[2] /\ gap.need = "unmeasured"
  BY <1>4, <1>5, <1>6, PlanAsks DEF rows
<1> QED BY <1>7

\* A surface with a behaviour is a route that a journal or a program was on.
LEMMA BehaviorIsSeen ==
  ASSUME NEW name \in DOMAIN Sources, NEW loaded, NEW b \in BehaviorsFor(name, loaded)
  PROVE  MatrixFor(name, loaded).rows[b.id.surface].runtime = "present"
<1> DEFINE src == Sources[name]
           g == src.graph
           app == Application(g)
           seenBy == Range(src.browser)
           column == RuntimeColumn(app, seenBy, loaded)
           facts == (UNION {JournalFacts(t) : t \in loaded})
                      \cup UNION {BrowserFacts(x) : x \in seenBy}
           OfStep(o) == SurfacesOfRoute(app, o.state.route)
                          \cup (DOMAIN app \cap {<<"endpoint", r>> : r \in o.requests})
           OfProgram(x) == UNION {OfStep(o) : o \in Range(x.observations)}
           OfEvents(t) == UNION {SurfacesOfState(app, e.after)
                            \cup (IF e.action = "navigate" THEN SurfacesOfRoute(app, e.route)
                                  ELSE {}) : e \in Range(t.events)}
           OfJournal(t) == SurfacesOfState(app, t.initial) \cup OfEvents(t)
           seen == UNION {OfStep(o) : o \in UNION {Range(y.observations) : y \in seenBy}}
           recorded == UNION {OfJournal(t) : t \in loaded}
<1>1. PICK f \in facts : f.surface \in DOMAIN app /\ b.id.surface = f.surface
  BY DEF BehaviorsFor, Behaviors
<1>2. seenBy # {} \/ loaded # {} => column.present = seen \cup recorded
  BY DEF RuntimeColumn, ClosedWorld
<1>3. ASSUME NEW t \in loaded, f \in JournalFacts(t) PROVE f.surface \in column.present
  <2>1. PICK x : /\ x = t.initial \/ \E e \in Range(t.events) : x = e.after
                 /\ f.surface = <<"route", x.route>>
    BY <1>3 DEF JournalFacts, Fact
  <2>2. f.surface \in SurfacesOfState(app, x)
    BY <1>1, <2>1 DEF SurfacesOfState, SurfacesOfRoute
  <2> HIDE DEF app, column
  <2>3. f.surface \in OfJournal(t)
    BY <2>1, <2>2
  <2> HIDE DEF OfJournal, seen
  <2> QED BY <1>2, <1>3, <2>3
<1>4. ASSUME NEW x \in seenBy, f \in BrowserFacts(x) PROVE f.surface \in column.present
  <2>1. PICK o \in Range(x.observations) : f.surface = <<"route", o.state.route>>
    <3> DEFINE At(span) == IF span.end \in DOMAIN x.observations THEN span.end ELSE span.start
    <3>1. PICK span \in Range(x.spans) :
             /\ At(span) \in DOMAIN x.observations
             /\ f = Fact(x.observations[At(span)].state, span.action, "observed")
      BY <1>4 DEF BrowserFacts
    <3>2. x.observations[At(span)] \in Range(x.observations)
      BY <3>1 DEF Range
    <3>3. f.surface = <<"route", x.observations[At(span)].state.route>>
      BY <3>1 DEF Fact
    <3> QED BY <3>2, <3>3
  <2>2. f.surface \in OfStep(o)
    BY <1>1, <2>1 DEF SurfacesOfRoute
  <2> HIDE DEF app, column, seenBy, OfStep
  <2>3. f.surface \in seen
    BY <1>4, <2>1, <2>2
  <2> HIDE DEF recorded, seen
  <2> QED BY <1>2, <1>4, <2>3
<1>5. f.surface \in column.present
  BY <1>1, <1>3, <1>4
<1>6. MatrixFor(name, loaded).rows[f.surface].runtime = Cell(column, f.surface)
  BY <1>1 DEF MatrixFor, Matrix
<1> QED BY <1>1, <1>5, <1>6 DEF Cell

-----------------------------------------------------------------------------
(* What a step leaves as it is *)

LEMMA JobGrows ==
  ASSUME NEW j, NEW S, NEW E, NEW S2, NEW E2, S \subseteq S2, E \subseteq E2, JobOK(j, S, E)
  PROVE  JobOK(j, S2, E2)
<1>1. CASE j = Idle
  BY <1>1 DEF JobOK
<1>2. CASE DiscardedOK(j, S, E)
  BY <1>2 DEF JobOK, DiscardedOK, AllKnown
<1>3. CASE WriterOK(j, S, E)
  <2>1. Grounded(j.writes, S2, E2)
    BY <1>3, GroundedGrows DEF WriterOK
  <2>2. ~ j.useful => StillAsked(j.trace, j.reads, S2, E2)
    BY <1>3 DEF WriterOK, StillAsked
  <2> QED BY <1>3, <2>1, <2>2 DEF JobOK, WriterOK
<1>4. CASE RunOK(j, S, E)
  <2>1. Grounded(j.writes, S2, E2)
    BY <1>4, GroundedGrows DEF RunOK
  <2>2. Rows(j.claims, S2, E2)
    BY <1>4 DEF RunOK, Rows
  <2> QED BY <1>4, <2>1, <2>2 DEF JobOK, RunOK
<1> QED BY <1>1, <1>2, <1>3, <1>4 DEF JobOK

LEMMA DocsGrow ==
  ASSUME NEW d, NEW S, NEW E, NEW S2, NEW E2, S \subseteq S2, E \subseteq E2, DocsOK(d, S, E)
  PROVE  DocsOK(d, S2, E2)
BY DEF DocsOK, Rows

LEMMA KindOf ==
  ASSUME NEW j, NEW S, NEW E, JobOK(j, S, E)
  PROVE  /\ j.kind = "discarded" => DiscardedOK(j, S, E)
         /\ j.kind \in {"ingest", "record"} => WriterOK(j, S, E)
         /\ j.kind = "run" => RunOK(j, S, E)
<1>1. Idle.kind = "idle"
  BY DEF Idle
<1>2. j.kind = "idle" \/ j.kind = "discarded" \/ j.kind \in {"ingest", "record"} \/ j.kind = "run"
  BY <1>1 DEF JobOK, DiscardedOK, WriterOK, WriterShape, RunOK, RunShape
<1>3. j = Idle => j.kind = "idle"
  BY <1>1
<1>4. DiscardedOK(j, S, E) => j.kind = "discarded"
  BY DEF DiscardedOK
<1>5. WriterOK(j, S, E) => j.kind \in {"ingest", "record"}
  BY DEF WriterOK, WriterShape
<1>6. RunOK(j, S, E) => j.kind = "run"
  BY DEF RunOK, RunShape
<1> QED BY <1>3, <1>4, <1>5, <1>6 DEF JobOK

\* The graph of a later state, the jobs of the others.
LEMMA JobsStep ==
  ASSUME JobsAreSound, NEW p \in Proc, NEW j, job' = [job EXCEPT ![p] = j],
         states \subseteq states', edges \subseteq edges', JobOK(j, states', edges')
  PROVE  JobsAreSound'
<1>1. job' = [q \in Proc |-> job'[q]]
  BY DEF JobsAreSound
<1>2. ASSUME NEW q \in Proc PROVE JobOK(job'[q], states', edges')
  <2>1. CASE q = p
    BY <2>1 DEF JobsAreSound
  <2>2. CASE q # p
    <3>1. job'[q] = job[q]
      BY <2>2 DEF JobsAreSound
    <3> QED BY <3>1, JobGrows DEF JobsAreSound
  <2> QED BY <2>1, <2>2
<1> QED BY <1>1, <1>2 DEF JobsAreSound

LEMMA GraphStep ==
  ASSUME GraphIsClosed, states \subseteq states', edges \subseteq edges',
         \A x \in edges' \ edges : x[1] \in states' /\ x[3] \in states',
         \A t \in (sessions' \cup journals') \ (sessions \cup journals) :
            Shown(t, states', edges')
  PROVE  GraphIsClosed'
<1>1. \A x \in edges' : x[1] \in states' /\ x[3] \in states'
  BY DEF GraphIsClosed
<1>2. \A t \in sessions \cup journals : Shown(t, states', edges')
  BY DEF GraphIsClosed, Shown
<1> QED BY <1>1, <1>2 DEF GraphIsClosed

LEMMA DocsKept ==
  ASSUME DocsAreSound, docs' = docs, states \subseteq states', edges \subseteq edges'
  PROVE  DocsAreSound'
BY DocsGrow DEF DocsAreSound

\* A job that is no run's, or the same run with documents as sound.
LEMMA RunsKept ==
  ASSUME JobsAreSound, RunsAreLive, NEW p \in Proc, NEW j, job' = [job EXCEPT ![p] = j],
         docs' = docs,
         j.kind = "run" => job[p].kind = "run" /\ j.run = job[p].run /\ DocsOfRun(j, docs[j.run])
  PROVE  RunsAreLive'
<1>1. job'[p] = j /\ \A q \in Proc : q # p => job'[q] = job[q]
  BY DEF JobsAreSound
<1>2. ASSUME NEW q \in Proc, job'[q].kind = "run"
      PROVE  job[q].kind = "run" /\ job'[q].run = job[q].run /\ DocsOfRun(job'[q], docs[job'[q].run])
  <2>1. CASE q = p
    BY <1>1, <1>2, <2>1
  <2>2. CASE q # p
    BY <1>1, <1>2, <2>2 DEF RunsAreLive
  <2> QED BY <2>1, <2>2
<1>3. \A q \in Proc : job'[q].kind = "run" =>
        job'[q].run \in DOMAIN docs' /\ DocsOfRun(job'[q], docs'[job'[q].run])
  BY <1>2 DEF RunsAreLive
<1>4. \A q, r \in Proc : (job'[q].kind = "run" /\ job'[r].kind = "run" /\ job'[q].run = job'[r].run)
        => q = r
  BY <1>2 DEF RunsAreLive
<1> QED BY <1>3, <1>4 DEF RunsAreLive

\* The documents that a run stores are its own.
LEMMA RunsStore ==
  ASSUME JobsAreSound, RunsAreLive, NEW p \in Proc, job[p].kind = "run",
         NEW j, j.kind = "run", j.run = job[p].run, job' = [job EXCEPT ![p] = j],
         NEW d, docs' = [docs EXCEPT ![job[p].run] = d], DocsOfRun(j, d)
  PROVE  RunsAreLive'
<1>1. job'[p] = j /\ \A q \in Proc : q # p => job'[q] = job[q]
  BY DEF JobsAreSound
<1>2. /\ DOMAIN docs' = DOMAIN docs /\ job[p].run \in DOMAIN docs /\ docs'[job[p].run] = d
      /\ \A r \in DOMAIN docs : r # job[p].run => docs'[r] = docs[r]
  BY DEF RunsAreLive
<1>3. ASSUME NEW q \in Proc, job'[q].kind = "run"
      PROVE  /\ job[q].kind = "run" /\ job'[q].run = job[q].run
             /\ job'[q].run \in DOMAIN docs' /\ DocsOfRun(job'[q], docs'[job'[q].run])
  <2>1. CASE q = p
    BY <1>1, <1>2, <2>1
  <2>2. CASE q # p
    <3>1. job'[q] = job[q] /\ job[q].run \in DOMAIN docs /\ DocsOfRun(job[q], docs[job[q].run])
      BY <1>1, <1>3, <2>2 DEF RunsAreLive
    <3>2. job[q].run # job[p].run
      BY <1>3, <2>2, <3>1 DEF RunsAreLive
    <3> QED BY <1>2, <1>3, <3>1, <3>2
  <2> QED BY <2>1, <2>2
<1>4. \A q, r \in Proc : (job'[q].kind = "run" /\ job'[r].kind = "run" /\ job'[q].run = job'[r].run)
        => q = r
  BY <1>3 DEF RunsAreLive
<1> QED BY <1>3, <1>4 DEF RunsAreLive

LEMMA DocsStore ==
  ASSUME DocsAreSound, NEW r \in DOMAIN docs, NEW d, docs' = [docs EXCEPT ![r] = d],
         states' = states, edges' = edges, DocsOK(d, states, edges)
  PROVE  DocsAreSound'
BY DEF DocsAreSound

-----------------------------------------------------------------------------
(* One statement of a script *)

LEMMA UsesTail ==
  ASSUME NEW w, IsSequence(w), w # << >>, NEW kinds, Uses(w, kinds)
  PROVE  Uses(Tail(w), kinds) /\ Head(w)[1] \in kinds
BY TailOf DEF Uses

\* What a record is after one of its fields changed.
LEMMA WriterRecord ==
  ASSUME NEW kind, NEW trace, NEW useful, NEW reads, NEW writes, NEW v
  PROVE  LET j == [kind |-> kind, trace |-> trace, useful |-> useful, reads |-> reads, writes |-> writes]
         IN  [j EXCEPT !.writes = v]
               = [kind |-> kind, trace |-> trace, useful |-> useful, reads |-> reads, writes |-> v]
OBVIOUS

LEMMA WriterStated ==
  ASSUME NEW j, NEW S, NEW E, NEW S2, NEW E2, S \subseteq S2, E \subseteq E2,
         WriterOK(j, S, E), j.useful, j.writes # << >>,
         Head(j.writes)[1] = "state" => Head(j.writes)[2] \in S2,
         Head(j.writes)[1] = "edge" => Head(j.writes)[2] \in E2
  PROVE  WriterOK([j EXCEPT !.writes = Tail(@)], S2, E2)
<1> DEFINE k == [j EXCEPT !.writes = Tail(@)]
<1>1. k = [kind |-> j.kind, trace |-> j.trace, useful |-> j.useful,
           reads |-> j.reads, writes |-> Tail(j.writes)]
  <2>1. j = [kind |-> j.kind, trace |-> j.trace, useful |-> j.useful,
             reads |-> j.reads, writes |-> j.writes]
    BY DEF WriterOK, WriterShape
  <2>2. k = [j EXCEPT !.writes = Tail(j.writes)]
    OBVIOUS
  <2> HIDE DEF k
  <2> QED BY ONLY <2>1, <2>2, WriterRecord
<1>2. /\ k.kind = j.kind /\ k.trace = j.trace /\ k.useful = j.useful
      /\ k.reads = j.reads /\ k.writes = Tail(j.writes)
  BY <1>1
<1>3. k = [kind |-> k.kind, trace |-> k.trace, useful |-> k.useful,
           reads |-> k.reads, writes |-> k.writes]
  BY <1>1, <1>2
<1> HIDE DEF k
<1>4. IsSequence(j.writes) /\ Uses(j.writes, WriterKind) /\ Grounded(j.writes, S, E)
  BY DEF WriterOK, WriterShape
<1>5. IsSequence(k.writes) /\ Uses(k.writes, WriterKind) /\ Grounded(k.writes, S2, E2)
  BY <1>2, <1>4, TailOf, UsesTail, GroundedTail
<1> QED BY <1>2, <1>3, <1>5 DEF WriterOK, WriterShape, k

LEMMA RunRecord ==
  ASSUME NEW kind, NEW run, NEW source, NEW loaded, NEW claims, NEW useful, NEW reads,
         NEW writes, NEW v, NEW u, NEW c
  PROVE  [[kind |-> kind, run |-> run, source |-> source, loaded |-> loaded,
           claims |-> claims, useful |-> useful, reads |-> reads, writes |-> writes]
             EXCEPT !.writes = v, !.loaded = u, !.claims = c]
           = [kind |-> kind, run |-> run, source |-> source, loaded |-> u,
              claims |-> c, useful |-> useful, reads |-> reads, writes |-> v]
<1> DEFINE Job(l, m, w) == [kind |-> kind, run |-> run, source |-> source, loaded |-> l,
                            claims |-> m, useful |-> useful, reads |-> reads, writes |-> w]
<1>1. [Job(loaded, claims, writes) EXCEPT !.writes = v] = Job(loaded, claims, v)
  OBVIOUS
<1>2. [Job(loaded, claims, v) EXCEPT !.loaded = u] = Job(u, claims, v)
  OBVIOUS
<1>3. [Job(u, claims, v) EXCEPT !.claims = c] = Job(u, c, v)
  OBVIOUS
<1> HIDE DEF Job
<1>4. [Job(loaded, claims, writes) EXCEPT !.writes = v, !.loaded = u, !.claims = c] = Job(u, c, v)
  BY <1>1, <1>2, <1>3
<1> QED BY <1>4 DEF Job

\* What a run's step makes of its script.
RunAfter(k, j, loaded, S, E) ==
  /\ RunOK(k, S, E) /\ k.run = j.run /\ k.source = j.source
  /\ k.loaded = loaded /\ k.writes = Tail(j.writes) /\ ~ Loading(k.writes)

LEMMA RunStated ==
  ASSUME NEW j, NEW S, NEW E, NEW S2, NEW E2, S \subseteq S2, E \subseteq E2,
         RunOK(j, S, E), j.writes # << >>,
         Head(j.writes)[1] = "state" => Head(j.writes)[2] \in S2,
         Head(j.writes)[1] = "edge" => Head(j.writes)[2] \in E2,
         NEW loaded, NEW claims, Rows(claims, S2, E2)
  PROVE  RunAfter([j EXCEPT !.writes = Tail(@), !.loaded = loaded, !.claims = claims],
                  j, loaded, S2, E2)
<1> DEFINE k == [j EXCEPT !.writes = Tail(@), !.loaded = loaded, !.claims = claims]
<1>1. k = [kind |-> "run", run |-> j.run, source |-> j.source, loaded |-> loaded,
           claims |-> claims, useful |-> TRUE, reads |-> << >>, writes |-> Tail(j.writes)]
  <2>1. j = [kind |-> j.kind, run |-> j.run, source |-> j.source, loaded |-> j.loaded,
             claims |-> j.claims, useful |-> j.useful, reads |-> j.reads, writes |-> j.writes]
    BY DEF RunOK, RunShape
  <2>2. k = [j EXCEPT !.writes = Tail(j.writes), !.loaded = loaded, !.claims = claims]
    OBVIOUS
  <2> HIDE DEF k
  <2>3. k = [kind |-> j.kind, run |-> j.run, source |-> j.source, loaded |-> loaded,
             claims |-> claims, useful |-> j.useful, reads |-> j.reads,
             writes |-> Tail(j.writes)]
    BY ONLY <2>1, <2>2, RunRecord
  <2>4. j.kind = "run" /\ j.useful = TRUE /\ j.reads = << >>
    BY DEF RunOK, RunShape
  <2> QED BY <2>3, <2>4
<1>2. /\ k.kind = "run" /\ k.run = j.run /\ k.source = j.source /\ k.loaded = loaded
      /\ k.claims = claims /\ k.useful = TRUE /\ k.reads = << >> /\ k.writes = Tail(j.writes)
  BY ONLY <1>1
<1>3. IsSequence(j.writes) /\ Uses(j.writes, RunKind) /\ Grounded(j.writes, S, E)
      /\ LoadFirst(j.writes) /\ j.source \in DOMAIN Sources
  BY DEF RunOK, RunShape
<1>4. IsSequence(k.writes) /\ Uses(k.writes, RunKind) /\ Grounded(k.writes, S2, E2)
  BY <1>2, <1>3, TailOf, UsesTail, GroundedTail
<1>5. ~ Loading(Tail(j.writes))
  <2> SUFFICES ASSUME NEW i \in DOMAIN Tail(j.writes), Tail(j.writes)[i][1] = "load" PROVE FALSE
    BY DEF Loading
  <2>1. /\ Tail(j.writes)[i] = j.writes[i + 1] /\ i + 1 \in DOMAIN j.writes
        /\ i \in 1..(Len(j.writes) - 1) /\ Len(j.writes) \in Nat
    BY <1>3, TailOf
  <2>2. i + 1 = 1
    BY <1>3, <2>1 DEF LoadFirst
  <2> QED BY <2>1, <2>2
<1>6. LoadFirst(k.writes)
  BY <1>2, <1>5 DEF LoadFirst, Loading
<1> HIDE DEF k
<1>7. RunOK(k, S2, E2)
  BY <1>1, <1>2, <1>3, <1>4, <1>6 DEF RunOK, RunShape
<1>8. RunAfter(k, j, loaded, S2, E2)
  BY <1>2, <1>5, <1>7 DEF RunAfter
<1> QED BY <1>8 DEF k

\* The plan waits for the matrix.
LEMMA PlanTail ==
  ASSUME NEW w, IsSequence(w), w # << >>, NEW ready, NEW later, PlanReady(w, ready),
         ready => later, Head(w)[1] = "matrix" => later
  PROVE  /\ PlanReady(Tail(w), later)
         /\ Head(w)[1] = "plan" => ready
<1>1. /\ Head(w) = w[1] /\ 1 \in DOMAIN w /\ Len(w) \in Nat /\ DOMAIN w = 1..Len(w)
      /\ DOMAIN Tail(w) = 1..(Len(w) - 1)
      /\ \A i \in DOMAIN Tail(w) : Tail(w)[i] = w[i + 1] /\ i + 1 \in DOMAIN w
  BY TailOf
<1>2. ASSUME NEW i \in DOMAIN Tail(w), Tail(w)[i][1] = "plan", ~ later
      PROVE  \E k \in 1..(i - 1) : Tail(w)[k][1] = "matrix"
  <2>1. w[i + 1][1] = "plan" /\ i + 1 \in DOMAIN w /\ i \in 1..(Len(w) - 1)
    BY <1>1, <1>2
  <2>2. PICK k \in 1..(i + 1 - 1) : w[k][1] = "matrix"
    BY <1>2, <2>1 DEF PlanReady
  <2>3. k # 1
    BY <1>1, <1>2, <2>2
  <2>4. /\ k - 1 \in 1..(i - 1) /\ k - 1 \in 1..(Len(w) - 1) /\ (k - 1) + 1 = k
    BY <1>1, <2>1, <2>2, <2>3
  <2>5. Tail(w)[k - 1] = w[k]
    BY <1>1, <2>4
  <2> QED BY <2>2, <2>4, <2>5
<1>3. Head(w)[1] = "plan" => ready
  <2> SUFFICES ASSUME w[1][1] = "plan", ~ ready PROVE FALSE
    BY <1>1
  <2>1. \E k \in 1..(1 - 1) : w[k][1] = "matrix"
    BY <1>1 DEF PlanReady
  <2> QED BY <2>1
<1> QED BY <1>2, <1>3 DEF PlanReady

LEMMA RunDocs ==
  ASSUME NEW j, NEW d, DocsOfRun(j, d), IsSequence(j.writes), j.writes # << >>,
         NEW k, k.source = j.source, k.loaded = j.loaded, k.writes = Tail(j.writes),
         ~ Loading(k.writes), Head(j.writes)[1] # "matrix"
  PROVE  DocsOfRun(k, d)
<1>1. PlanReady(k.writes, d.matrix = MatrixFor(j.source, j.loaded))
  BY PlanTail DEF DocsOfRun
<1> QED BY <1>1 DEF DocsOfRun

\* A statement that is in the graph by the end of the step leaves the job sound.
LEMMA Statement ==
  ASSUME BehaviorInv, NEW p \in Proc, NEW kind, Writing(p, kind), kind # "matrix",
         states \subseteq states', edges \subseteq edges', docs' = docs,
         Head(job[p].writes)[1] = "state" => Head(job[p].writes)[2] \in states',
         Head(job[p].writes)[1] = "edge" => Head(job[p].writes)[2] \in edges',
         NEW claims, Rows(claims, states', edges'),
         \/ kind # "load" /\ Done(p)
         \/ job[p].kind = "run" /\ job' = [job EXCEPT ![p].writes = Tail(@), ![p].claims = claims]
  PROVE  JobsAreSound' /\ RunsAreLive'
<1> DEFINE j == job[p]
<1>1. JobOK(j, states, edges) /\ job = [q \in Proc |-> job[q]]
  BY DEF BehaviorInv, JobsAreSound
<1>2. /\ j.useful /\ j.writes # << >> /\ Head(j.writes)[1] = kind
      /\ j.kind \in {"ingest", "record"} \/ j.kind = "run"
  BY DEF Writing
<1>3. CASE j.kind \in {"ingest", "record"}
  <2> DEFINE k == [j EXCEPT !.writes = Tail(@)]
  <2>1. WriterOK(j, states, edges)
    BY <1>1, <1>3, KindOf
  <2>2. WriterOK(k, states', edges')
    <3> HIDE DEF k, j
    <3>1. WriterOK([j EXCEPT !.writes = Tail(@)], states', edges')
      BY <1>2, <2>1, WriterStated DEF j
    <3> QED BY <3>1 DEF k
  <2>3. k.kind \in {"ingest", "record"}
    <3> HIDE DEF k
    <3> QED BY <2>2 DEF WriterOK, WriterShape
  <2>4. job' = [job EXCEPT ![p] = k]
    BY <1>3 DEF Done
  <2> HIDE DEF k
  <2>5. JobOK(k, states', edges')
    BY <2>2 DEF JobOK
  <2> QED BY <2>3, <2>4, <2>5, JobsStep, RunsKept DEF BehaviorInv
<1>4. CASE j.kind = "run"
  <2>1. RunOK(j, states, edges)
    BY <1>1, <1>4, KindOf
  <2>2. PICK c : /\ Rows(c, states', edges')
                 /\ job' = [job EXCEPT ![p] = [j EXCEPT !.writes = Tail(@), !.claims = c]]
    <3>1. Rows(j.claims, states', edges')
      BY <2>1 DEF RunOK, Rows
    <3>2. [j EXCEPT !.writes = Tail(@), !.claims = j.claims] = [j EXCEPT !.writes = Tail(@)]
      BY <2>1 DEF RunOK, RunShape
    <3>3. Done(p) => job' = [job EXCEPT ![p] = [j EXCEPT !.writes = Tail(@), !.claims = j.claims]]
      BY <3>2 DEF Done
    <3>4. job' = [job EXCEPT ![p].writes = Tail(@), ![p].claims = claims]
            => job' = [job EXCEPT ![p] = [j EXCEPT !.writes = Tail(@), !.claims = claims]]
      BY <1>1
    <3> QED BY <3>1, <3>3, <3>4
  <2> DEFINE k == [j EXCEPT !.writes = Tail(@), !.claims = c]
  <2>3. k = [j EXCEPT !.writes = Tail(@), !.loaded = j.loaded, !.claims = c]
    BY <2>1 DEF RunOK, RunShape
  <2> HIDE DEF k, j
  <2>11. /\ j.writes # << >>
         /\ Head(j.writes)[1] = "state" => Head(j.writes)[2] \in states'
         /\ Head(j.writes)[1] = "edge" => Head(j.writes)[2] \in edges'
    BY <1>2 DEF j
  <2>4. /\ RunOK(k, states', edges') /\ k.run = j.run /\ k.source = j.source
        /\ k.loaded = j.loaded /\ k.writes = Tail(j.writes) /\ ~ Loading(k.writes)
    <3>1. Rows(c, states', edges')
      BY <2>2
    <3>2. states \subseteq states' /\ edges \subseteq edges'
      OBVIOUS
    <3>3. RunAfter([j EXCEPT !.writes = Tail(@), !.loaded = j.loaded, !.claims = c],
                   j, j.loaded, states', edges')
      BY ONLY <2>1, <2>11, <3>1, <3>2, RunStated
    <3> QED BY <2>3, <3>3 DEF RunAfter
  <2>5. j.run \in DOMAIN docs /\ DocsOfRun(j, docs[j.run])
    BY <1>4 DEF BehaviorInv, RunsAreLive, j
  <2>6. IsSequence(j.writes)
    BY <2>1 DEF RunOK, RunShape
  <2>7. DocsOfRun(k, docs[k.run])
    BY <1>2, <2>4, <2>5, <2>6, RunDocs
  <2>8. JobOK(k, states', edges')
    BY <2>4 DEF JobOK
  <2>9. job' = [job EXCEPT ![p] = k]
    BY <2>2 DEF k
  <2>10. k.kind = "run" => job[p].kind = "run" /\ k.run = job[p].run /\ DocsOfRun(k, docs[k.run])
    BY <1>4, <2>4, <2>7 DEF j
  <2> QED BY <2>8, <2>9, <2>10, JobsStep, RunsKept DEF BehaviorInv
<1> QED BY <1>2, <1>3, <1>4

-----------------------------------------------------------------------------
(* The steps *)

LEMMA LedgerKept ==
  ASSUME BehaviorInv, UNCHANGED Ledger
  PROVE  /\ GraphIsClosed' /\ DocsAreSound' /\ docs' = docs
         /\ states' = states /\ edges' = edges
<1>1. /\ docs' = docs /\ states' = states /\ edges' = edges
      /\ sessions' = sessions /\ journals' = journals
  BY DEF Ledger
<1> QED BY <1>1 DEF BehaviorInv, GraphIsClosed, Shown, DocsAreSound

LEMMA NewJob ==
  ASSUME BehaviorInv, UNCHANGED Ledger, NEW p \in Proc, NEW j, job' = [job EXCEPT ![p] = j],
         JobOK(j, states, edges), j.kind # "run"
  PROVE  BehaviorInv'
<1>1. JobOK(j, states', edges') /\ states \subseteq states' /\ edges \subseteq edges'
  BY LedgerKept
<1> QED BY <1>1, LedgerKept, JobsStep, RunsKept DEF BehaviorInv

LEMMA InitSound == BehaviorInit => BehaviorInv
<1> SUFFICES ASSUME BehaviorInit PROVE BehaviorInv
  OBVIOUS
<1>1. \A p \in Proc : job[p] = Idle /\ job[p].kind = "idle"
  BY DEF BehaviorInit, Idle
<1>2. JobsAreSound
  BY <1>1 DEF JobsAreSound, JobOK, BehaviorInit
<1>3. GraphIsClosed
  BY DEF BehaviorInit, GraphIsClosed
<1>4. DocsAreSound
  BY DEF BehaviorInit, DocsAreSound
<1> QED BY <1>1, <1>2, <1>3, <1>4 DEF BehaviorInv, RunsAreLive

LEMMA StartIngestSound ==
  ASSUME BehaviorInv, NEW p \in Proc, StartIngest(p)
  PROVE  BehaviorInv'
<1>1. PICK t \in Journals :
         /\ UNCHANGED Ledger
         /\ job' = [job EXCEPT ![p] = [kind |-> "ingest", trace |-> t, useful |-> FALSE,
                                       reads |-> Reads(t), writes |-> JournalWrites(t)]]
  BY DEF StartIngest, Begin
<1> DEFINE j == [kind |-> "ingest", trace |-> t, useful |-> FALSE,
                 reads |-> Reads(t), writes |-> JournalWrites(t)]
<1>2. /\ j.kind = "ingest" /\ j.trace = t /\ j.useful = FALSE /\ j.reads = Reads(t)
      /\ j.writes = JournalWrites(t)
      /\ j = [kind |-> j.kind, trace |-> j.trace, useful |-> j.useful,
              reads |-> j.reads, writes |-> j.writes]
  OBVIOUS
<1> HIDE DEF j
<1>3. WriterOK(j, states, edges)
  <2>1. WriterShape(j)
    BY <1>2, JournalScript, ReadsShape DEF WriterShape
  <2>2. Grounded(j.writes, states, edges)
    BY <1>2, JournalScript
  <2>3. StillAsked(j.trace, j.reads, states, edges)
    BY <1>2, ReadsShape DEF StillAsked
  <2> QED BY <2>1, <2>2, <2>3 DEF WriterOK
<1>4. job' = [job EXCEPT ![p] = j]
  BY <1>1 DEF j
<1> QED BY <1>1, <1>2, <1>3, <1>4, NewJob DEF JobOK

LEMMA StartRecordSound ==
  ASSUME BehaviorInv, NEW p \in Proc, StartRecord(p)
  PROVE  BehaviorInv'
<1>1. PICK t \in Recordings :
         /\ UNCHANGED Ledger
         /\ job' = [job EXCEPT ![p] =
                      [kind |-> "record", trace |-> t, useful |-> FALSE, reads |-> RecordReads(t),
                       writes |-> IF Promotable(t) THEN RecordWrites(t) ELSE <<>>]]
  BY DEF StartRecord, Begin
<1> DEFINE j == [kind |-> "record", trace |-> t, useful |-> FALSE, reads |-> RecordReads(t),
                 writes |-> IF Promotable(t) THEN RecordWrites(t) ELSE <<>>]
<1>2. /\ j.kind = "record" /\ j.trace = t /\ j.useful = FALSE /\ j.reads = RecordReads(t)
      /\ j.writes = RecordWrites(t) \/ j.writes = << >>
      /\ j = [kind |-> j.kind, trace |-> j.trace, useful |-> j.useful,
              reads |-> j.reads, writes |-> j.writes]
  OBVIOUS
<1> HIDE DEF j
<1>3. /\ IsSequence(<< >>) /\ Grounded(<< >>, states, edges) /\ Uses(<< >>, WriterKind)
  <2>1. Grounded(<< >>, states, edges)
    BY EmptyShape, FreeIsGrounded
  <2>2. DOMAIN << >> = {}
    OBVIOUS
  <2> QED BY <2>1, <2>2, EmptyShape DEF Uses
<1>4. WriterOK(j, states, edges)
  <2>1. IsSequence(j.writes) /\ Grounded(j.writes, states, edges) /\ Uses(j.writes, WriterKind)
    BY <1>2, <1>3, RecordScript
  <2>2. WriterShape(j)
    BY <1>2, <2>1, RecordReadsShape DEF WriterShape
  <2>3. StillAsked(j.trace, j.reads, states, edges)
    BY <1>2, RecordReadsShape DEF StillAsked
  <2> QED BY <2>1, <2>2, <2>3 DEF WriterOK
<1>5. job' = [job EXCEPT ![p] = j]
  BY <1>1 DEF j
<1> QED BY <1>1, <1>2, <1>4, <1>5, NewJob DEF JobOK

LEMMA StartRunSound ==
  ASSUME BehaviorInv, NEW p \in Proc, StartRun(p)
  PROVE  BehaviorInv'
<1>1. PICK r \in Runs \ DOMAIN docs, name \in DOMAIN Sources :
         /\ job' = [job EXCEPT ![p] = [kind |-> "run", run |-> r, source |-> name, loaded |-> {},
                                       claims |-> {}, useful |-> TRUE, reads |-> <<>>,
                                       writes |-> RunWrites(Sources[name])]]
         /\ docs' = [x \in DOMAIN docs \cup {r} |-> IF x = r THEN NoDocs ELSE docs[x]]
         /\ UNCHANGED <<states, edges, sessions, traces, journals>>
  BY DEF StartRun, Begin
<1> DEFINE j == [kind |-> "run", run |-> r, source |-> name, loaded |-> {},
                 claims |-> {}, useful |-> TRUE, reads |-> <<>>,
                 writes |-> RunWrites(Sources[name])]
<1>2. /\ j.kind = "run" /\ j.run = r /\ j.source = name /\ j.loaded = {} /\ j.claims = {}
      /\ j.useful = TRUE /\ j.reads = << >> /\ j.writes = RunWrites(Sources[name])
      /\ j = [kind |-> j.kind, run |-> j.run, source |-> j.source, loaded |-> j.loaded,
              claims |-> j.claims, useful |-> j.useful, reads |-> j.reads, writes |-> j.writes]
  OBVIOUS
<1>3. job' = [job EXCEPT ![p] = j]
  BY <1>1
<1> HIDE DEF j
<1>4. /\ IsSequence(j.writes) /\ Grounded(j.writes, states', edges') /\ Uses(j.writes, RunKind)
      /\ LoadFirst(j.writes) /\ PlanAfterMatrix(j.writes)
  BY <1>2, RunScript
<1>5. RunOK(j, states', edges')
  BY <1>2, <1>4 DEF RunOK, RunShape, Rows
<1>6. /\ DOMAIN docs' = DOMAIN docs \cup {r} /\ docs'[r] = NoDocs
      /\ \A x \in DOMAIN docs : docs'[x] = docs[x]
  BY <1>1
<1>7. /\ NoDocs.matrix = None /\ NoDocs.plan = None /\ NoDocs.behaviors = None
      /\ NoDocs.contribution = None
      /\ NoDocs = [matrix |-> NoDocs.matrix, plan |-> NoDocs.plan, behaviors |-> NoDocs.behaviors,
                   contribution |-> NoDocs.contribution]
  BY DEF NoDocs
<1>8. JobsAreSound'
  BY <1>1, <1>3, <1>5, JobsStep DEF BehaviorInv, JobOK
<1>9. GraphIsClosed'
  BY <1>1 DEF BehaviorInv, GraphIsClosed, Shown
<1>10. DocsAreSound'
  <2>1. DocsOK(NoDocs, states', edges')
    BY <1>7 DEF DocsOK, WereSeen
  <2>2. \A x \in DOMAIN docs : DocsOK(docs'[x], states', edges')
    BY <1>1, <1>6 DEF BehaviorInv, DocsAreSound
  <2> QED BY <1>6, <2>1, <2>2 DEF DocsAreSound
<1>11. RunsAreLive'
  <2>1. job'[p] = j /\ \A q \in Proc : q # p => job'[q] = job[q]
    BY <1>3 DEF BehaviorInv, JobsAreSound
  <2>2. DocsOfRun(j, NoDocs)
    <3>1. /\ PlanReady(j.writes, NoDocs.matrix = MatrixFor(j.source, j.loaded))
          /\ PlanReady(j.writes, FALSE)
      BY <1>4 DEF PlanReady, PlanAfterMatrix
    <3> QED BY <1>7, <3>1 DEF DocsOfRun
  <2>3. ASSUME NEW q \in Proc, q # p, job'[q].kind = "run"
        PROVE  job'[q].run \in DOMAIN docs /\ DocsOfRun(job'[q], docs[job'[q].run])
    BY <2>1, <2>3 DEF BehaviorInv, RunsAreLive
  <2>4. \A q \in Proc : job'[q].kind = "run" =>
          job'[q].run \in DOMAIN docs' /\ DocsOfRun(job'[q], docs'[job'[q].run])
    BY <1>2, <1>6, <2>1, <2>2, <2>3
  <2>5. \A q \in Proc : q # p /\ job'[q].kind = "run" => job'[q].run # r
    BY <2>3
  <2>6. \A q, s \in Proc :
          (job'[q].kind = "run" /\ job'[s].kind = "run" /\ job'[q].run = job'[s].run) => q = s
    BY <1>2, <2>1, <2>5 DEF BehaviorInv, RunsAreLive
  <2> QED BY <2>4, <2>6 DEF RunsAreLive
<1> QED BY <1>8, <1>9, <1>10, <1>11 DEF BehaviorInv

LEMMA LookRecord ==
  ASSUME NEW kind, NEW trace, NEW useful, NEW reads, NEW writes, NEW u, NEW v
  PROVE  [[kind |-> kind, trace |-> trace, useful |-> useful, reads |-> reads, writes |-> writes]
             EXCEPT !.useful = u, !.reads = v]
           = [kind |-> kind, trace |-> trace, useful |-> u, reads |-> v, writes |-> writes]
<1> DEFINE Job(a, b) == [kind |-> kind, trace |-> trace, useful |-> a, reads |-> b,
                         writes |-> writes]
<1>1. [Job(useful, reads) EXCEPT !.useful = u] = Job(u, reads)
  OBVIOUS
<1>2. [Job(u, reads) EXCEPT !.reads = v] = Job(u, v)
  OBVIOUS
<1> HIDE DEF Job
<1>3. [Job(useful, reads) EXCEPT !.useful = u, !.reads = v] = Job(u, v)
  BY <1>1, <1>2
<1> QED BY <1>3 DEF Job

LEMMA KnownIs ==
  ASSUME NEW x
  PROVE  /\ Known(<<"state", x>>) => x \in states
         /\ Known(<<"edge", x>>) => x \in edges
<1>1. <<"state", x>>[1] = "state" /\ <<"state", x>>[2] = x
  OBVIOUS
<1>2. <<"edge", x>>[1] = "edge" /\ <<"edge", x>>[2] = x
  OBVIOUS
<1>3. Known(<<"state", x>>) => x \in states
  BY <1>1 DEF Known
<1>4. Known(<<"edge", x>>) => x \in edges
  BY <1>2 DEF Known
<1> QED BY <1>3, <1>4

\* A question answered: what was asked is known, or the writer has something to say.
LEMMA LookSound ==
  ASSUME BehaviorInv, NEW p \in Proc, Look(p)
  PROVE  BehaviorInv'
<1> DEFINE j == job[p]
           u == j.useful \/ ~ Known(Head(j.reads))
           k == [j EXCEPT !.useful = u, !.reads = Tail(j.reads)]
<1>1. /\ j.kind \in {"ingest", "record"} /\ j.reads # << >> /\ UNCHANGED Ledger
      /\ job' = [job EXCEPT ![p].useful = @ \/ ~ Known(Head(job[p].reads)), ![p].reads = Tail(@)]
  BY DEF Look
<1>2. WriterOK(j, states, edges)
  BY <1>1, KindOf DEF BehaviorInv, JobsAreSound
<1>3. job' = [job EXCEPT ![p] = k]
  BY <1>1 DEF BehaviorInv, JobsAreSound
<1>4. k = [kind |-> j.kind, trace |-> j.trace, useful |-> u,
           reads |-> Tail(j.reads), writes |-> j.writes]
  <2>1. j = [kind |-> j.kind, trace |-> j.trace, useful |-> j.useful,
             reads |-> j.reads, writes |-> j.writes]
    BY <1>2 DEF WriterOK, WriterShape
  <2> HIDE DEF u
  <2>2. k = [j EXCEPT !.useful = u, !.reads = Tail(j.reads)]
    OBVIOUS
  <2> HIDE DEF j, k
  <2> QED BY ONLY <2>1, <2>2, LookRecord
<1> HIDE DEF k
<1>5. /\ k.kind = j.kind /\ k.trace = j.trace /\ k.useful = u
      /\ k.reads = Tail(j.reads) /\ k.writes = j.writes
  <2> HIDE DEF j, u
  <2> QED BY ONLY <1>4
<1>6. k = [kind |-> k.kind, trace |-> k.trace, useful |-> k.useful,
           reads |-> k.reads, writes |-> k.writes]
  <2> HIDE DEF j, u
  <2> QED BY <1>4, <1>5
<1>7. u \in BOOLEAN
  OBVIOUS
<1>8. u = FALSE => j.useful = FALSE /\ Known(Head(j.reads))
  BY <1>2 DEF WriterOK, WriterShape
<1> HIDE DEF u, j
<1>9. WriterShape(k)
  BY <1>1, <1>2, <1>5, <1>6, <1>7, TailOf DEF WriterOK, WriterShape
<1>10. k.useful = FALSE => StillAsked(k.trace, k.reads, states, edges)
  <2> SUFFICES ASSUME u = FALSE PROVE StillAsked(j.trace, Tail(j.reads), states, edges)
    BY <1>5
  <2>1. /\ IsSequence(j.reads) /\ Range(j.reads) \subseteq {Head(j.reads)} \cup Range(Tail(j.reads))
    BY <1>1, <1>2, TailOf DEF WriterOK, WriterShape
  <2>2. StillAsked(j.trace, j.reads, states, edges) /\ Known(Head(j.reads))
    BY <1>2, <1>8 DEF WriterOK
  <2>3. \A s : Head(j.reads) = <<"state", s>> => s \in states
    BY <2>2, KnownIs
  <2>4. \A x : Head(j.reads) = <<"edge", x>> => x \in edges
    BY <2>2, KnownIs
  <2> QED BY <2>1, <2>2, <2>3, <2>4 DEF StillAsked
<1>11. WriterOK(k, states, edges)
  <2>1. Grounded(k.writes, states, edges)
    BY <1>2, <1>5 DEF WriterOK
  <2>2. ~ k.useful => k.useful = FALSE
    BY <1>9 DEF WriterShape
  <2> QED BY <1>9, <1>10, <2>1, <2>2 DEF WriterOK
<1>12. k.kind # "run"
  BY <1>1, <1>5
<1> QED BY <1>1, <1>3, <1>11, <1>12, NewJob DEF JobOK

LEMMA DiscardSound ==
  ASSUME BehaviorInv, NEW p \in Proc, Discard(p)
  PROVE  BehaviorInv'
<1>1. /\ job[p].kind \in {"ingest", "record"} /\ job[p].reads = <<>> /\ ~ job[p].useful
      /\ job' = [job EXCEPT ![p] = [kind |-> "discarded", trace |-> job[p].trace]]
      /\ UNCHANGED Ledger
  BY DEF Discard
<1> DEFINE j == job[p]
           k == [kind |-> "discarded", trace |-> j.trace]
<1>2. WriterOK(j, states, edges)
  BY <1>1, KindOf DEF BehaviorInv, JobsAreSound
<1>3. AllKnown(j.trace, states, edges)
  <2>1. StillAsked(j.trace, << >>, states, edges)
    BY <1>1, <1>2 DEF WriterOK
  <2> QED BY <2>1, EmptyShape DEF StillAsked, AllKnown
<1>4. k.kind = "discarded" /\ k.trace = j.trace
  OBVIOUS
<1>5. job' = [job EXCEPT ![p] = k]
  BY <1>1
<1>6. k = [kind |-> "discarded", trace |-> k.trace]
  OBVIOUS
<1> HIDE DEF k, j
<1>7. DiscardedOK(k, states, edges)
  BY <1>3, <1>4, <1>6 DEF DiscardedOK
<1> QED BY <1>1, <1>4, <1>5, <1>7, NewJob DEF JobOK

LEMMA LeaveSound ==
  ASSUME BehaviorInv, NEW p \in Proc, Leave(p)
  PROVE  BehaviorInv'
<1>1. job' = [job EXCEPT ![p] = Idle] /\ UNCHANGED Ledger
  BY DEF Leave
<1>2. Idle.kind # "run" /\ JobOK(Idle, states, edges)
  BY DEF Idle, JobOK
<1> QED BY <1>1, <1>2, NewJob

\* The statement that comes next has what it speaks of in the graph.
LEMMA HeadIsGrounded ==
  ASSUME BehaviorInv, NEW p \in Proc, NEW kind, Writing(p, kind)
  PROVE  /\ Head(job[p].writes)[1] = kind
         /\ kind = "edge" => Operand(p)[1] \in states /\ Operand(p)[3] \in states
         /\ kind \in {"session", "journal"} => Shown(Operand(p), states, edges)
         /\ job[p].kind = "run" => RunOK(job[p], states, edges)
<1> DEFINE j == job[p]
           w == j.writes
<1>1. w # << >> /\ Head(w)[1] = kind /\ JobOK(j, states, edges)
      /\ (j.kind \in {"ingest", "record"} \/ j.kind = "run")
  BY DEF Writing, BehaviorInv, JobsAreSound
<1>2. IsSequence(w) /\ Grounded(w, states, edges)
  BY <1>1, KindOf DEF WriterOK, WriterShape, RunOK, RunShape
<1>3. 1 \in DOMAIN w /\ Head(w) = w[1]
  BY <1>1, <1>2, TailOf
<1>4. GroundedAt(w, 1, states, edges)
  BY <1>2, <1>3 DEF Grounded
<1>5. \A x : Before(w, 1, x) = {}
  <2>1. \A k : ~ (k \in 1..(1 - 1))
    OBVIOUS
  <2> QED BY <2>1 DEF Before
<1> QED BY <1>1, <1>3, <1>4, <1>5, KindOf DEF GroundedAt, Shown, Operand

LEMMA PutStateSound ==
  ASSUME BehaviorInv, NEW p \in Proc, PutState(p)
  PROVE  BehaviorInv'
<1>1. /\ Writing(p, "state") /\ DoneClaiming(p, "state") /\ states' = states \cup {Operand(p)}
      /\ edges' = edges /\ sessions' = sessions /\ journals' = journals /\ docs' = docs
  BY DEF PutState
<1> DEFINE claims == IF job[p].kind = "run" THEN job[p].claims \cup Claimed("state", Operand(p))
                     ELSE {}
<1>2. Rows(claims, states', edges')
  <2>1. job[p].kind = "run" => Rows(job[p].claims, states, edges)
    BY <1>1, HeadIsGrounded DEF RunOK
  <2>2. \A c \in Claimed("state", Operand(p)) : c[1] = "state" /\ c[2] = Operand(p)
    BY DEF Claimed
  <2> QED BY <1>1, <2>1, <2>2 DEF Rows
<1>3. \/ Done(p)
      \/ job[p].kind = "run" /\ job' = [job EXCEPT ![p].writes = Tail(@), ![p].claims = claims]
  BY <1>1 DEF DoneClaiming
<1>4. Head(job[p].writes)[1] = "state" /\ Head(job[p].writes)[2] \in states'
  BY <1>1, HeadIsGrounded DEF Operand
<1> HIDE DEF claims
<1>5. JobsAreSound' /\ RunsAreLive'
  BY <1>1, <1>2, <1>3, <1>4, Statement
<1> QED BY <1>1, <1>5, GraphStep, DocsKept DEF BehaviorInv

LEMMA PutEdgeSound ==
  ASSUME BehaviorInv, NEW p \in Proc, PutEdge(p)
  PROVE  BehaviorInv'
<1>1. /\ Writing(p, "edge") /\ DoneClaiming(p, "edge") /\ edges' = edges \cup {Operand(p)}
      /\ states' = states /\ sessions' = sessions /\ journals' = journals /\ docs' = docs
  BY DEF PutEdge
<1> DEFINE claims == IF job[p].kind = "run" THEN job[p].claims \cup Claimed("edge", Operand(p))
                     ELSE {}
<1>2. Rows(claims, states', edges')
  <2>1. job[p].kind = "run" => Rows(job[p].claims, states, edges)
    BY <1>1, HeadIsGrounded DEF RunOK
  <2>2. \A c \in Claimed("edge", Operand(p)) : c[1] = "edge" /\ c[2] = Operand(p)
    BY DEF Claimed
  <2> QED BY <1>1, <2>1, <2>2 DEF Rows
<1>3. \/ Done(p)
      \/ job[p].kind = "run" /\ job' = [job EXCEPT ![p].writes = Tail(@), ![p].claims = claims]
  BY <1>1 DEF DoneClaiming
<1>4. Head(job[p].writes)[1] = "edge" /\ Head(job[p].writes)[2] \in edges'
  BY <1>1, HeadIsGrounded DEF Operand
<1> HIDE DEF claims
<1>5. JobsAreSound' /\ RunsAreLive'
  BY <1>1, <1>2, <1>3, <1>4, Statement
<1>6. Operand(p)[1] \in states' /\ Operand(p)[3] \in states'
  BY <1>1, HeadIsGrounded
<1> QED BY <1>1, <1>5, <1>6, GraphStep, DocsKept DEF BehaviorInv

LEMMA PutSessionSound ==
  ASSUME BehaviorInv, NEW p \in Proc, PutSession(p)
  PROVE  BehaviorInv'
<1>1. /\ Writing(p, "session") /\ Done(p)
      /\ sessions' = {t \in sessions : t.session # Operand(p).session} \cup {Operand(p)}
      /\ states' = states /\ edges' = edges /\ journals' = journals /\ docs' = docs
  BY DEF PutSession
<1>2. Shown(Operand(p), states', edges') /\ Head(job[p].writes)[1] = "session"
  BY <1>1, HeadIsGrounded
<1>3. JobsAreSound' /\ RunsAreLive'
  <2>1. Rows({}, states', edges')
    BY DEF Rows
  <2> QED BY <1>1, <1>2, <2>1, Statement
<1>4. GraphIsClosed'
  BY <1>1, <1>2, GraphStep DEF BehaviorInv
<1> QED BY <1>1, <1>3, <1>4, DocsKept DEF BehaviorInv

LEMMA PutJournalSound ==
  ASSUME BehaviorInv, NEW p \in Proc, PutJournal(p)
  PROVE  BehaviorInv'
<1>1. /\ Writing(p, "journal") /\ Done(p) /\ journals' = journals \cup {Operand(p)}
      /\ states' = states /\ edges' = edges /\ sessions' = sessions /\ docs' = docs
  BY DEF PutJournal
<1>2. Shown(Operand(p), states', edges') /\ Head(job[p].writes)[1] = "journal"
  BY <1>1, HeadIsGrounded
<1>3. JobsAreSound' /\ RunsAreLive'
  <2>1. Rows({}, states', edges')
    BY DEF Rows
  <2> QED BY <1>1, <1>2, <2>1, Statement
<1>4. GraphIsClosed'
  BY <1>1, <1>2, GraphStep DEF BehaviorInv
<1> QED BY <1>1, <1>3, <1>4, DocsKept DEF BehaviorInv

LEMMA PutTraceSound ==
  ASSUME BehaviorInv, NEW p \in Proc, PutTrace(p)
  PROVE  BehaviorInv'
<1>1. /\ Writing(p, "trace")
      /\ states' = states /\ edges' = edges /\ sessions' = sessions /\ journals' = journals
      /\ docs' = docs
      /\ job' = [job EXCEPT ![p] = Idle] \/ Done(p)
  BY DEF PutTrace
<1>2. GraphIsClosed' /\ DocsAreSound'
  BY <1>1, GraphStep, DocsKept DEF BehaviorInv
<1>3. CASE job' = [job EXCEPT ![p] = Idle]
  <2>1. Idle.kind # "run" /\ JobOK(Idle, states', edges')
    BY DEF Idle, JobOK
  <2> QED BY <1>1, <1>2, <1>3, <2>1, JobsStep, RunsKept DEF BehaviorInv
<1>4. CASE Done(p)
  <2>1. Head(job[p].writes)[1] = "trace"
    BY <1>1, HeadIsGrounded
  <2>2. Rows({}, states', edges')
    BY DEF Rows
  <2>3. JobsAreSound' /\ RunsAreLive'
    BY <1>1, <1>4, <2>1, <2>2, Statement
  <2> QED BY <1>2, <2>3 DEF BehaviorInv
<1> QED BY <1>1, <1>3, <1>4

\* Only a run stores documents.
LEMMA RunOnly ==
  ASSUME BehaviorInv, NEW p \in Proc, NEW kind, Writing(p, kind), kind \notin WriterKind
  PROVE  /\ job[p].kind = "run" /\ RunOK(job[p], states, edges)
         /\ job[p].run \in DOMAIN docs /\ DocsOfRun(job[p], docs[job[p].run])
         /\ job[p].writes # << >> /\ Head(job[p].writes)[1] = kind
         /\ IsSequence(job[p].writes)
<1>1. job[p].writes # << >> /\ Head(job[p].writes)[1] = kind /\ JobOK(job[p], states, edges)
      /\ (job[p].kind \in {"ingest", "record"} \/ job[p].kind = "run")
  BY DEF Writing, BehaviorInv, JobsAreSound
<1>2. job[p].kind \notin {"ingest", "record"}
  <2> SUFFICES ASSUME job[p].kind \in {"ingest", "record"} PROVE FALSE
    OBVIOUS
  <2>1. WriterShape(job[p])
    BY <1>1, KindOf DEF WriterOK
  <2> QED BY <1>1, <2>1, UsesTail DEF WriterShape
<1> QED BY <1>1, <1>2, KindOf DEF BehaviorInv, RunsAreLive, RunOK, RunShape

LEMMA LoadRecord ==
  ASSUME NEW kind, NEW run, NEW source, NEW loaded, NEW claims, NEW useful, NEW reads,
         NEW writes, NEW v, NEW u
  PROVE  LET j == [kind |-> kind, run |-> run, source |-> source, loaded |-> loaded,
                   claims |-> claims, useful |-> useful, reads |-> reads, writes |-> writes]
         IN  [j EXCEPT !.loaded = u, !.writes = v]
               = [j EXCEPT !.writes = v, !.loaded = u, !.claims = claims]
<1> DEFINE Job(l, w) == [kind |-> kind, run |-> run, source |-> source, loaded |-> l,
                         claims |-> claims, useful |-> useful, reads |-> reads, writes |-> w]
<1>1. [Job(loaded, writes) EXCEPT !.writes = v] = Job(loaded, v)
  OBVIOUS
<1>2. [Job(loaded, v) EXCEPT !.loaded = u] = Job(u, v)
  OBVIOUS
<1>3. [Job(u, v) EXCEPT !.claims = claims] = Job(u, v)
  OBVIOUS
<1>4. [Job(loaded, writes) EXCEPT !.loaded = u] = Job(u, writes)
  OBVIOUS
<1>5. [Job(u, writes) EXCEPT !.writes = v] = Job(u, v)
  OBVIOUS
<1> HIDE DEF Job
<1>6. [Job(loaded, writes) EXCEPT !.loaded = u, !.writes = v] = Job(u, v)
  BY <1>4, <1>5
<1>7. [Job(loaded, writes) EXCEPT !.writes = v, !.loaded = u, !.claims = claims] = Job(u, v)
  BY <1>1, <1>2, <1>3
<1>8. [Job(loaded, writes) EXCEPT !.loaded = u, !.writes = v]
        = [Job(loaded, writes) EXCEPT !.writes = v, !.loaded = u, !.claims = claims]
  BY <1>6, <1>7
<1> QED BY <1>8 DEF Job

LEMMA LoadJournalsSound ==
  ASSUME BehaviorInv, NEW p \in Proc, LoadJournals(p)
  PROVE  BehaviorInv'
<1> DEFINE j == job[p]
           k == [j EXCEPT !.writes = Tail(@), !.loaded = journals, !.claims = j.claims]
<1>1. /\ Writing(p, "load") /\ UNCHANGED Ledger
      /\ job' = [job EXCEPT ![p].loaded = journals, ![p].writes = Tail(@)]
  BY DEF LoadJournals
<1>2. /\ j.kind = "run" /\ RunOK(j, states, edges) /\ j.run \in DOMAIN docs
      /\ DocsOfRun(j, docs[j.run]) /\ j.writes # << >> /\ Head(j.writes)[1] = "load"
      /\ IsSequence(j.writes)
  BY <1>1, RunOnly DEF WriterKind
<1>3. k = [j EXCEPT !.loaded = journals, !.writes = Tail(@)]
  <2>1. j = [kind |-> j.kind, run |-> j.run, source |-> j.source, loaded |-> j.loaded,
             claims |-> j.claims, useful |-> j.useful, reads |-> j.reads, writes |-> j.writes]
    BY <1>2 DEF RunOK, RunShape
  <2>2. k = [j EXCEPT !.writes = Tail(j.writes), !.loaded = journals, !.claims = j.claims]
    OBVIOUS
  <2> HIDE DEF j, k
  <2>3. [j EXCEPT !.loaded = journals, !.writes = Tail(j.writes)]
          = [j EXCEPT !.writes = Tail(j.writes), !.loaded = journals, !.claims = j.claims]
    BY ONLY <2>1, LoadRecord
  <2> QED BY <2>2, <2>3
<1>4. job' = [job EXCEPT ![p] = k]
  BY <1>1, <1>3 DEF BehaviorInv, JobsAreSound
<1>5. RunAfter(k, j, journals, states, edges)
  <2>1. Rows(j.claims, states, edges)
    BY <1>2 DEF RunOK
  <2>2. Head(j.writes)[1] # "state" /\ Head(j.writes)[1] # "edge"
    BY <1>2
  <2> HIDE DEF j
  <2> QED BY <1>2, <2>1, <2>2, RunStated
<1> HIDE DEF k
<1>6. /\ RunOK(k, states, edges) /\ k.kind = "run" /\ k.run = j.run /\ k.source = j.source
      /\ k.writes = Tail(j.writes) /\ ~ Loading(k.writes)
  BY <1>5 DEF RunAfter, RunOK, RunShape
<1>7. DocsOfRun(k, docs[k.run])
  <2>1. 1 \in DOMAIN j.writes /\ j.writes[1][1] = "load"
    BY <1>2, TailOf
  <2>2. Loading(j.writes)
    BY <2>1 DEF Loading
  <2>3. docs[j.run].matrix = None /\ docs[j.run].plan = None /\ docs[j.run].behaviors = None
    BY <1>2, <2>2 DEF DocsOfRun
  <2>4. PlanReady(j.writes, FALSE)
    BY <1>2, <2>2 DEF DocsOfRun
  <2>5. Head(j.writes)[1] # "matrix"
    BY <1>2
  <2>6. PlanReady(k.writes, docs[j.run].matrix = MatrixFor(k.source, k.loaded))
    BY <1>2, <1>6, <2>4, <2>5, PlanTail
  <2> QED BY <1>6, <2>3, <2>6 DEF DocsOfRun
<1>8. states' = states /\ edges' = edges
  BY <1>1, LedgerKept
<1>9. JobOK(k, states', edges')
  BY <1>6, <1>8 DEF JobOK
<1> QED BY <1>1, <1>2, <1>4, <1>6, <1>7, <1>8, <1>9, LedgerKept, JobsStep, RunsKept DEF BehaviorInv

-----------------------------------------------------------------------------
(* The documents are stored *)

DocRecord(m, q, b, c) == [matrix |-> m, plan |-> q, behaviors |-> b, contribution |-> c]

LEMMA DocFields ==
  ASSUME NEW m, NEW q, NEW b, NEW c
  PROVE  /\ DocRecord(m, q, b, c).matrix = m /\ DocRecord(m, q, b, c).plan = q
         /\ DocRecord(m, q, b, c).behaviors = b /\ DocRecord(m, q, b, c).contribution = c
BY DEF DocRecord

LEMMA DocStored ==
  ASSUME NEW m, NEW q, NEW b, NEW c, NEW x
  PROVE  /\ [DocRecord(m, q, b, c) EXCEPT !["matrix"] = x] = DocRecord(x, q, b, c)
         /\ [DocRecord(m, q, b, c) EXCEPT !["plan"] = x] = DocRecord(m, x, b, c)
         /\ [DocRecord(m, q, b, c) EXCEPT !["behaviors"] = x] = DocRecord(m, q, x, c)
         /\ [DocRecord(m, q, b, c) EXCEPT !["contribution"] = x] = DocRecord(m, q, b, x)
<1>1. [DocRecord(m, q, b, c) EXCEPT !["matrix"] = x] = DocRecord(x, q, b, c)
  BY DEF DocRecord
<1>2. [DocRecord(m, q, b, c) EXCEPT !["plan"] = x] = DocRecord(m, x, b, c)
  BY DEF DocRecord
<1>3. [DocRecord(m, q, b, c) EXCEPT !["behaviors"] = x] = DocRecord(m, q, x, c)
  BY DEF DocRecord
<1>4. [DocRecord(m, q, b, c) EXCEPT !["contribution"] = x] = DocRecord(m, q, b, x)
  BY DEF DocRecord
<1> QED BY <1>1, <1>2, <1>3, <1>4

LEMMA DocShape ==
  ASSUME BehaviorInv, NEW r \in DOMAIN docs
  PROVE  /\ docs[r] = DocRecord(docs[r].matrix, docs[r].plan, docs[r].behaviors,
                                docs[r].contribution)
         /\ DocsOK(docs[r], states, edges)
BY DEF BehaviorInv, DocsAreSound, DocsOK, DocRecord

\* A document that fits the run and the graph.
LEMMA StoreSound ==
  ASSUME BehaviorInv, NEW p \in Proc, NEW kind, kind \notin WriterKind, kind # "load", NEW doc,
         Store(p, kind, doc),
         NEW d, d = [docs[job[p].run] EXCEPT ![kind] = doc], DocsOK(d, states, edges),
         d.matrix \in {None, MatrixFor(job[p].source, job[p].loaded)},
         d.plan \in {None, Plan(MatrixFor(job[p].source, job[p].loaded))},
         d.behaviors \in {None, BehaviorsFor(job[p].source, job[p].loaded)},
         \/ kind = "matrix" /\ d.matrix = MatrixFor(job[p].source, job[p].loaded)
         \/ kind # "matrix" /\ d.matrix = docs[job[p].run].matrix
  PROVE  BehaviorInv'
<1> DEFINE j == job[p]
           k == [j EXCEPT !.writes = Tail(@)]
           M == MatrixFor(j.source, j.loaded)
<1>1. /\ Writing(p, kind) /\ Done(p) /\ docs' = [docs EXCEPT ![j.run][kind] = doc]
      /\ states' = states /\ edges' = edges /\ sessions' = sessions /\ journals' = journals
  BY DEF Store
<1>2. /\ j.kind = "run" /\ RunOK(j, states, edges) /\ j.run \in DOMAIN docs
      /\ DocsOfRun(j, docs[j.run]) /\ j.writes # << >> /\ Head(j.writes)[1] = kind
      /\ IsSequence(j.writes)
  BY <1>1, RunOnly
<1>3. docs' = [docs EXCEPT ![j.run] = d]
  BY <1>1, <1>2
<1>4. k = [j EXCEPT !.writes = Tail(@), !.loaded = j.loaded, !.claims = j.claims]
  BY <1>2 DEF RunOK, RunShape
<1>5. job' = [job EXCEPT ![p] = k]
  BY <1>1 DEF Done
<1>6. RunAfter(k, j, j.loaded, states, edges)
  <2>1. Rows(j.claims, states, edges)
    BY <1>2 DEF RunOK
  <2>2. Head(j.writes)[1] # "state" /\ Head(j.writes)[1] # "edge"
    BY <1>2 DEF WriterKind
  <2> HIDE DEF j, k
  <2> QED BY <1>2, <1>4, <2>1, <2>2, RunStated
<1> HIDE DEF k
<1>7. /\ RunOK(k, states, edges) /\ k.kind = "run" /\ k.run = j.run /\ k.source = j.source
      /\ k.loaded = j.loaded /\ k.writes = Tail(j.writes) /\ ~ Loading(k.writes)
  BY <1>6 DEF RunAfter, RunOK, RunShape
<1>8. DocsOfRun(k, d)
  <2>1. PlanReady(j.writes, docs[j.run].matrix = M)
    BY <1>2 DEF DocsOfRun
  <2>2. (docs[j.run].matrix = M) => (d.matrix = M)
    OBVIOUS
  <2>3. Head(j.writes)[1] = "matrix" => d.matrix = M
    BY <1>2
  <2>4. PlanReady(k.writes, d.matrix = M)
    <3> DEFINE ready == docs[j.run].matrix = M
               later == d.matrix = M
    <3>1. PlanReady(j.writes, ready) /\ (ready => later) /\ (Head(j.writes)[1] = "matrix" => later)
      BY <2>1, <2>2, <2>3
    <3> HIDE DEF ready, later, j, M
    <3>2. PlanReady(Tail(j.writes), later)
      BY <1>2, <3>1, PlanTail
    <3> QED BY <1>7, <3>2 DEF later
  <2> QED BY <1>7, <2>4 DEF DocsOfRun
<1>9. JobsAreSound'
  BY <1>1, <1>5, <1>7, JobsStep DEF BehaviorInv, JobOK
<1>10. GraphIsClosed'
  BY <1>1, GraphStep DEF BehaviorInv
<1>11. DocsAreSound'
  BY <1>1, <1>2, <1>3, DocsStore DEF BehaviorInv
<1>12. RunsAreLive'
  BY <1>2, <1>3, <1>5, <1>7, <1>8, RunsStore DEF BehaviorInv
<1> QED BY <1>9, <1>10, <1>11, <1>12 DEF BehaviorInv

\* The matrix and the behaviours of one run, of the same sources and journals.
LEMMA SeenTogether ==
  ASSUME NEW name \in DOMAIN Sources, NEW loaded, NEW d,
         d.matrix \in {None, MatrixFor(name, loaded)},
         d.behaviors \in {None, BehaviorsFor(name, loaded)}
  PROVE  WereSeen(d)
BY BehaviorIsSeen DEF WereSeen

LEMMA DocumentFacts ==
  ASSUME BehaviorInv, NEW p \in Proc, NEW kind, Writing(p, kind), kind \notin WriterKind
  PROVE  /\ job[p].source \in DOMAIN Sources /\ job[p].run \in DOMAIN docs
         /\ docs[job[p].run].matrix \in {None, MatrixFor(job[p].source, job[p].loaded)}
         /\ docs[job[p].run].plan \in {None, Plan(MatrixFor(job[p].source, job[p].loaded))}
         /\ docs[job[p].run].behaviors \in {None, BehaviorsFor(job[p].source, job[p].loaded)}
         /\ kind = "plan" => docs[job[p].run].matrix = MatrixFor(job[p].source, job[p].loaded)
         /\ Rows(job[p].claims, states, edges)
<1> DEFINE j == job[p]
           ready == docs[j.run].matrix = MatrixFor(j.source, j.loaded)
<1>1. /\ RunOK(j, states, edges) /\ j.run \in DOMAIN docs /\ DocsOfRun(j, docs[j.run])
      /\ j.writes # << >> /\ Head(j.writes)[1] = kind /\ IsSequence(j.writes)
  BY RunOnly
<1>2. PlanReady(j.writes, ready)
  BY <1>1 DEF DocsOfRun
<1>3. kind = "plan" => ready
  <2> HIDE DEF j, ready
  <2> QED BY <1>1, <1>2, PlanTail
<1> QED BY <1>1, <1>3 DEF DocsOfRun, RunOK, RunShape

LEMMA PutMatrixSound ==
  ASSUME BehaviorInv, NEW p \in Proc, PutMatrix(p)
  PROVE  BehaviorInv'
<1> DEFINE j == job[p]
           M == MatrixFor(j.source, j.loaded)
           old == docs[j.run]
           d == DocRecord(M, old.plan, old.behaviors, old.contribution)
<1>1. Store(p, "matrix", M)
  BY DEF PutMatrix, MatrixFor, Collected
<1>2. Writing(p, "matrix")
  BY <1>1 DEF Store
<1>3. /\ j.source \in DOMAIN Sources /\ j.run \in DOMAIN docs /\ old.plan \in {None, Plan(M)}
      /\ old.behaviors \in {None, BehaviorsFor(j.source, j.loaded)}
  BY <1>2, DocumentFacts DEF WriterKind
<1>4. d = [old EXCEPT !["matrix"] = M]
  <2>1. old = DocRecord(old.matrix, old.plan, old.behaviors, old.contribution)
    BY <1>3, DocShape
  <2>2. [DocRecord(old.matrix, old.plan, old.behaviors, old.contribution) EXCEPT !["matrix"] = M]
          = d
    <3> HIDE DEF old, j
    <3> QED BY ONLY DocStored DEF d
  <2> HIDE DEF d, M
  <2> QED BY ONLY <2>1, <2>2, Zenon
<1>5. /\ d.matrix = M /\ d.plan = old.plan /\ d.behaviors = old.behaviors
      /\ d.contribution = old.contribution
      /\ d = DocRecord(d.matrix, d.plan, d.behaviors, d.contribution)
  BY DocFields
<1> HIDE DEF d, M
<1>6. DocsOK(d, states, edges)
  <2>1. WereSeen(d)
    BY <1>3, <1>5, SeenTogether DEF M
  <2>2. DocsOK(old, states, edges)
    BY <1>3, DocShape
  <2> QED BY <1>5, <2>1, <2>2 DEF DocsOK, DocRecord
<1> QED BY <1>1, <1>3, <1>4, <1>5, <1>6, StoreSound DEF M, WriterKind

LEMMA PutPlanSound ==
  ASSUME BehaviorInv, NEW p \in Proc, PutPlan(p)
  PROVE  BehaviorInv'
<1> DEFINE j == job[p]
           M == MatrixFor(j.source, j.loaded)
           old == docs[j.run]
           d == DocRecord(old.matrix, Plan(M), old.behaviors, old.contribution)
<1>1. Store(p, "plan", Plan(old.matrix))
  BY DEF PutPlan
<1>2. Writing(p, "plan")
  BY <1>1 DEF Store
<1>3. /\ j.source \in DOMAIN Sources /\ j.run \in DOMAIN docs /\ old.matrix = M
      /\ old.behaviors \in {None, BehaviorsFor(j.source, j.loaded)}
  BY <1>2, DocumentFacts DEF WriterKind
<1>4. d = [old EXCEPT !["plan"] = Plan(M)]
  <2>1. old = DocRecord(old.matrix, old.plan, old.behaviors, old.contribution)
    BY <1>3, DocShape
  <2>2. [DocRecord(old.matrix, old.plan, old.behaviors, old.contribution) EXCEPT !["plan"] = Plan(M)]
          = d
    <3> DEFINE q == Plan(M)
    <3>1. d = DocRecord(old.matrix, q, old.behaviors, old.contribution)
      OBVIOUS
    <3> HIDE DEF old, j, d, q
    <3>2. [DocRecord(old.matrix, old.plan, old.behaviors, old.contribution) EXCEPT !["plan"] = q]
            = d
      BY ONLY <3>1 DEF DocRecord
    <3> QED BY <3>2 DEF q
  <2> HIDE DEF d, M
  <2> QED BY ONLY <2>1, <2>2, Zenon
<1>5. /\ d.matrix = M /\ d.plan = Plan(M) /\ d.behaviors = old.behaviors
      /\ d.contribution = old.contribution /\ d.matrix = old.matrix
      /\ d = DocRecord(d.matrix, d.plan, d.behaviors, d.contribution)
  BY <1>3, DocFields
<1> HIDE DEF d, M
<1>6. DocsOK(d, states, edges)
  <2>1. WereSeen(d)
    BY <1>3, <1>5, SeenTogether DEF M
  <2>2. DocsOK(old, states, edges)
    BY <1>3, DocShape
  <2> QED BY <1>5, <2>1, <2>2 DEF DocsOK, DocRecord
<1>7. Store(p, "plan", Plan(M))
  BY <1>1, <1>3
<1> QED BY <1>3, <1>4, <1>5, <1>6, <1>7, StoreSound DEF M, WriterKind

LEMMA PutBehaviorsSound ==
  ASSUME BehaviorInv, NEW p \in Proc, PutBehaviors(p)
  PROVE  BehaviorInv'
<1> DEFINE j == job[p]
           B == BehaviorsFor(j.source, j.loaded)
           old == docs[j.run]
           d == DocRecord(old.matrix, old.plan, B, old.contribution)
<1>1. Store(p, "behaviors", B)
  BY DEF PutBehaviors, BehaviorsFor, Collected, JournalsOfRun
<1>2. Writing(p, "behaviors")
  BY <1>1 DEF Store
<1>3. /\ j.source \in DOMAIN Sources /\ j.run \in DOMAIN docs
      /\ old.matrix \in {None, MatrixFor(j.source, j.loaded)}
      /\ old.plan \in {None, Plan(MatrixFor(j.source, j.loaded))}
  BY <1>2, DocumentFacts DEF WriterKind
<1>4. d = [old EXCEPT !["behaviors"] = B]
  <2>1. old = DocRecord(old.matrix, old.plan, old.behaviors, old.contribution)
    BY <1>3, DocShape
  <2>2. [DocRecord(old.matrix, old.plan, old.behaviors, old.contribution) EXCEPT !["behaviors"] = B]
          = d
    <3> HIDE DEF old, j
    <3> QED BY ONLY DocStored DEF d
  <2> HIDE DEF d, B
  <2> QED BY ONLY <2>1, <2>2, Zenon
<1>5. /\ d.matrix = old.matrix /\ d.plan = old.plan /\ d.behaviors = B
      /\ d.contribution = old.contribution
      /\ d = DocRecord(d.matrix, d.plan, d.behaviors, d.contribution)
  BY DocFields
<1> HIDE DEF d, B
<1>6. DocsOK(d, states, edges)
  <2>1. WereSeen(d)
    BY <1>3, <1>5, SeenTogether DEF B
  <2>2. DocsOK(old, states, edges)
    BY <1>3, DocShape
  <2> QED BY <1>5, <2>1, <2>2 DEF DocsOK, DocRecord
<1> QED BY <1>1, <1>3, <1>4, <1>5, <1>6, StoreSound DEF B, WriterKind

LEMMA PutContributionSound ==
  ASSUME BehaviorInv, NEW p \in Proc, PutContribution(p)
  PROVE  BehaviorInv'
<1> DEFINE j == job[p]
           old == docs[j.run]
           d == DocRecord(old.matrix, old.plan, old.behaviors, j.claims)
<1>1. Store(p, "contribution", j.claims)
  BY DEF PutContribution
<1>2. Writing(p, "contribution")
  BY <1>1 DEF Store
<1>3. /\ j.source \in DOMAIN Sources /\ j.run \in DOMAIN docs
      /\ old.matrix \in {None, MatrixFor(j.source, j.loaded)}
      /\ old.plan \in {None, Plan(MatrixFor(j.source, j.loaded))}
      /\ old.behaviors \in {None, BehaviorsFor(j.source, j.loaded)}
      /\ Rows(j.claims, states, edges)
  BY <1>2, DocumentFacts DEF WriterKind
<1>4. d = [old EXCEPT !["contribution"] = j.claims]
  <2>1. old = DocRecord(old.matrix, old.plan, old.behaviors, old.contribution)
    BY <1>3, DocShape
  <2>2. [DocRecord(old.matrix, old.plan, old.behaviors, old.contribution) EXCEPT !["contribution"] = j.claims]
          = d
    <3> HIDE DEF old, j
    <3> QED BY ONLY DocStored DEF d
  <2> HIDE DEF d
  <2> QED BY ONLY <2>1, <2>2, Zenon
<1>5. /\ d.matrix = old.matrix /\ d.plan = old.plan /\ d.behaviors = old.behaviors
      /\ d.contribution = j.claims
      /\ d = DocRecord(d.matrix, d.plan, d.behaviors, d.contribution)
  BY DocFields
<1> HIDE DEF d
<1>6. DocsOK(d, states, edges)
  <2>1. WereSeen(d)
    BY <1>3, <1>5, SeenTogether
  <2> QED BY <1>3, <1>5, <2>1 DEF DocsOK, DocRecord
<1> QED BY <1>1, <1>3, <1>4, <1>5, <1>6, StoreSound DEF WriterKind

-----------------------------------------------------------------------------
(* The theorems *)

LEMMA BehaviorStep == BehaviorInv /\ [BehaviorNext]_behaviorVars => BehaviorInv'
<1> SUFFICES ASSUME BehaviorInv, [BehaviorNext]_behaviorVars PROVE BehaviorInv'
  OBVIOUS
<1>1. CASE UNCHANGED behaviorVars
  <2>1. UNCHANGED Ledger /\ job' = job /\ docs' = docs /\ states' = states /\ edges' = edges
    BY <1>1 DEF behaviorVars, Ledger
  <2> QED BY <2>1, LedgerKept DEF BehaviorInv, JobsAreSound, RunsAreLive
<1>2. CASE BehaviorNext
  <2>1. PICK p \in Proc : Step(p)
    BY <1>2 DEF BehaviorNext
  <2>2. CASE StartIngest(p)
    BY <2>2, StartIngestSound
  <2>3. CASE StartRecord(p)
    BY <2>3, StartRecordSound
  <2>4. CASE StartRun(p)
    BY <2>4, StartRunSound
  <2>5. CASE Look(p)
    BY <2>5, LookSound
  <2>6. CASE Discard(p)
    BY <2>6, DiscardSound
  <2>7. CASE PutState(p)
    BY <2>7, PutStateSound
  <2>8. CASE PutEdge(p)
    BY <2>8, PutEdgeSound
  <2>9. CASE PutSession(p)
    BY <2>9, PutSessionSound
  <2>10. CASE PutTrace(p)
    BY <2>10, PutTraceSound
  <2>11. CASE PutJournal(p)
    BY <2>11, PutJournalSound
  <2>12. CASE LoadJournals(p)
    BY <2>12, LoadJournalsSound
  <2>13. CASE PutMatrix(p)
    BY <2>13, PutMatrixSound
  <2>14. CASE PutPlan(p)
    BY <2>14, PutPlanSound
  <2>15. CASE PutBehaviors(p)
    BY <2>15, PutBehaviorsSound
  <2>16. CASE PutContribution(p)
    BY <2>16, PutContributionSound
  <2>17. CASE Leave(p)
    BY <2>17, LeaveSound
  <2> QED BY <2>1, <2>2, <2>3, <2>4, <2>5, <2>6, <2>7, <2>8, <2>9, <2>10, <2>11, <2>12,
             <2>13, <2>14, <2>15, <2>16, <2>17 DEF Step
<1> QED BY <1>1, <1>2

\* Writers stop between any two statements and others write in between; what the rest of
\* each script needs is in the graph or written before it, what a writer has not asked is
\* all that it does not know, and a run's documents are of one set of journals
\* (persist_journal_behavior, persist_controlled_record, finish_controlled_run).
THEOREM BehaviorInvariant == BehaviorSpec => []BehaviorInv
BY InitSound, BehaviorStep, PTL DEF BehaviorSpec

\* An edge joins known states, and a session, a journal or a claim of a contribution speaks
\* of states and edges that the graph has, wherever its writer stopped.
THEOREM GraphIsWhole == BehaviorSpec => []GraphHoldsEvidence
<1>1. BehaviorInv => GraphHoldsEvidence
  <2> SUFFICES ASSUME BehaviorInv PROVE GraphHoldsEvidence
    OBVIOUS
  <2>1. \A x \in edges : {x[1], x[3]} \subseteq states
    BY DEF BehaviorInv, GraphIsClosed
  <2>2. \A t \in sessions \cup journals : InGraph(t)
    BY DEF BehaviorInv, GraphIsClosed, Shown, InGraph
  <2>3. \A r \in DOMAIN docs : docs[r].contribution # None =>
          \A c \in docs[r].contribution :
              c[2] \in (IF c[1] = "state" THEN states ELSE edges)
    BY DEF BehaviorInv, DocsAreSound, DocsOK, Rows
  <2> QED BY <2>1, <2>2, <2>3 DEF GraphHoldsEvidence
<1> QED BY <1>1, BehaviorInvariant, PTL

\* A trace that is answered with no_new_behavior was known whole, although every state and
\* edge of it was asked for on its own while others wrote (journal_novelty,
\* capture_controlled_record).
THEOREM DiscardLosesNothing == BehaviorSpec => []DiscardedWasKnown
<1>1. BehaviorInv => DiscardedWasKnown
  BY KindOf DEF BehaviorInv, JobsAreSound, DiscardedWasKnown, DiscardedOK, AllKnown
<1> QED BY <1>1, BehaviorInvariant, PTL

\* The matrix of a run has runtime evidence for each surface on which the same run reports a
\* behaviour, whatever was ingested between its two documents (finish_controlled_run).
THEOREM BehaviorsHaveEvidence == BehaviorSpec => []BehaviorsWereSeen
<1>1. BehaviorInv => BehaviorsWereSeen
  BY DEF BehaviorInv, DocsAreSound, DocsOK, WereSeen, BehaviorsWereSeen
<1> QED BY <1>1, BehaviorInvariant, PTL

\* In the columns of tests and intent the plan of a run asks for what a test touches whose
\* walk was cut short as unmeasured, for every graph, binding and limit of the walk
\* (binding_column, plan_cheapest_evidence).
THEOREM CutTestsStayUnmeasured == BehaviorSpec => []CutTestsAreAskedFor
<1>1. BehaviorInv => CutTestsAreAskedFor
  <2> SUFFICES ASSUME BehaviorInv, NEW p \in Proc, job[p].kind = "run",
                      docs[job[p].run].plan # None, NEW cell \in CutCells[job[p].source]
               PROVE  \E gap \in docs[job[p].run].plan :
                        /\ gap.surface = cell[1] /\ gap.column = cell[2]
                        /\ gap.need = "unmeasured"
    BY DEF CutTestsAreAskedFor
  <2>1. job[p].source \in DOMAIN Sources
    BY KindOf DEF BehaviorInv, JobsAreSound, RunOK, RunShape
  <2>2. docs[job[p].run].plan = Plan(MatrixFor(job[p].source, job[p].loaded))
    BY DEF BehaviorInv, RunsAreLive, DocsOfRun
  <2> QED BY <2>1, <2>2, PlanKeepsCuts
<1> QED BY <1>1, BehaviorInvariant, PTL

=============================================================================
