--------------------------- MODULE BridgeSession ----------------------------
(***************************************************************************)
(* One browser program over the stdio bridge: the host asks, one request   *)
(* at a time, the node process answers, line by line, and drives a         *)
(* browser.  The host watches one deadline for the session and the cancel  *)
(* flag while it waits for an answer; node may hang, die without closing   *)
(* its browser, fail any request, or print a line nobody asked for.        *)
(***************************************************************************)
EXTENDS Naturals, Sequences

CONSTANTS
  Obligation,  \* obligations the program asserts
  Act,         \* any step that is no assertion
  Program,     \* the steps
  Large,       \* methods whose request may not fit the stdin pipe
  MaxStray     \* bound on lines nobody asked for

Method == {"initialize", "prepare", "observe", "execute_step", "collect_ui",
           "capture_failure_reel", "finish"}

\* "contradicted" is an error whose message starts with assertion_failed.
Answer == {"ok", "remote", "contradicted"}

ASSUME ConstantsAssumption ==
  /\ Act \notin Obligation
  /\ Program \in Seq(Obligation \cup {Act})
  /\ Large \subseteq Method
  /\ MaxStray \in Nat

VARIABLES
  config,        \* collects: UI evidence is wanted; replays: strict replay
  at,            \* the request the host is about, "close" or "returned"
  phase,         \* how far that request is
  id,            \* its id
  step,          \* the step of the program, 0 before the first
  result,        \* how execute_step answered
  passed,        \* the host's verdict on the program so far
  observations,  \* observations kept: how many steps node had executed
  notes,         \* assertion results kept
  outcome,       \* "run", or the error that was returned
  nodeUp,        \* does the node process run?
  inbox,         \* requests node can read
  outbox,        \* lines the host can read
  executed,      \* steps node executed, with their answers
  limited,       \* did the network replay fall short?
  browser,       \* "none", "up", "closed" by node, "killed" with the tree
  crashed,       \* did node die by itself?
  strays,        \* lines printed that nobody asked for
  late, grace,   \* has the deadline, the grace period of close passed?
  cancel         \* the shared cancel flag

kept  == <<step, result, passed, observations, notes>>
host  == <<config, at, phase, id, kept, outcome>>
wires == <<inbox, outbox>>
node  == <<nodeUp, executed, limited, browser, crashed, strays>>
clock == <<late, grace, cancel>>
vars  == <<host, wires, node, clock>>

Steps   == 0..Len(Program)
Request == [id : Nat, method : Method, step : Steps]
Reply   == [id : Nat, answer : Answer, after : Nat, limited : BOOLEAN]
Config  == [collects : BOOLEAN, replays : BOOLEAN]
Note    == [step : Steps, observation : Nat, answer : Answer]

TypeOK ==
  /\ config \in Config
  /\ at \in Method \cup {"close", "returned"}
  /\ phase \in {"send", "blocked", "check", "receive"}
  /\ id \in Nat /\ step \in Steps /\ result \in Answer /\ passed \in BOOLEAN
  /\ observations \in Seq(Nat) /\ notes \in Seq(Note)
  /\ outcome \in {"none", "run", "remote", "protocol", "io", "deadline", "cancelled"}
  /\ nodeUp \in BOOLEAN /\ limited \in BOOLEAN /\ crashed \in BOOLEAN
  /\ inbox \in Seq(Request) /\ outbox \in Seq(Reply)
  /\ executed \in Seq([step : Steps, answer : Answer])
  /\ browser \in {"none", "up", "closed", "killed"}
  /\ strays \in 0..MaxStray
  /\ late \in BOOLEAN /\ grace \in BOOLEAN /\ cancel \in BOOLEAN

\* BridgeProcess::spawn has succeeded; initialize is the first request.
Init ==
  /\ config \in Config
  /\ at = "initialize" /\ phase = "send" /\ id = 0
  /\ step = 0 /\ result = "ok" /\ passed = TRUE
  /\ observations = << >> /\ notes = << >> /\ outcome = "none"
  /\ nodeUp = TRUE /\ inbox = << >> /\ outbox = << >>
  /\ executed = << >> /\ limited = FALSE
  /\ browser = "none" /\ crashed = FALSE /\ strays = 0
  /\ late = FALSE /\ grace = FALSE /\ cancel = FALSE
-----------------------------------------------------------------------------
(* Node and the rest of the world. *)

\* BridgeSession.handle: errors become answers.  Without a browser every method
\* but the first two is refused, and frames are taken after a failed step only.
Answers(request) ==
  IF request.method = "initialize" THEN {"ok"}
  ELSE IF request.method = "prepare" THEN {"ok", "remote"}
  ELSE IF browser # "up" THEN {"remote"}
  ELSE IF request.method = "execute_step" /\ Program[request.step] # Act THEN Answer
  ELSE IF /\ request.method = "capture_failure_reel"
          /\ \A k \in DOMAIN executed : executed[k].answer = "ok" THEN {"remote"}
  ELSE {"ok", "remote"}

\* What a request does to the browser: a launch or a finish that fails may
\* leave it either way.
Browsers(request, answer) ==
  IF request.method = "prepare"
  THEN IF answer = "ok" THEN {"up"} ELSE {browser, "up"}
  ELSE IF request.method = "finish"
  THEN IF answer = "ok" THEN {"closed"} ELSE {browser, "closed"}
  ELSE {browser}

Serve ==
  /\ nodeUp /\ inbox # << >>
  /\ LET request == Head(inbox) IN
     \E answer \in Answers(request), short \in BOOLEAN :
       /\ short => request.method = "finish" /\ answer = "ok"
       /\ inbox' = Tail(inbox)
       /\ executed' = IF request.method = "execute_step" /\ browser = "up"
                      THEN Append(executed, [step |-> request.step, answer |-> answer])
                      ELSE executed
       /\ outbox' = Append(outbox, [id |-> request.id, answer |-> answer,
                                    after |-> Len(executed'), limited |-> short])
       /\ limited' = (limited \/ short)
       /\ browser' \in Browsers(request, answer)
  /\ UNCHANGED <<host, nodeUp, crashed, strays, clock>>

\* A line nobody asked for; no request has id 0.
Stray ==
  /\ nodeUp /\ strays < MaxStray
  /\ strays' = strays + 1
  /\ outbox' = Append(outbox, [id |-> 0, answer |-> "ok", after |-> 0, limited |-> FALSE])
  /\ UNCHANGED <<host, inbox, nodeUp, executed, limited, browser, crashed, clock>>

\* Node dies; its browser may notice or not.
Crash ==
  /\ nodeUp
  /\ nodeUp' = FALSE /\ crashed' = TRUE
  /\ browser' \in {browser, "closed"}
  /\ UNCHANGED <<host, wires, executed, limited, strays, clock>>

\* Stdin has ended and no browser keeps node running.
Exit ==
  /\ at = "close" /\ nodeUp /\ inbox = << >> /\ browser # "up"
  /\ nodeUp' = FALSE
  /\ UNCHANGED <<host, wires, executed, limited, browser, crashed, strays, clock>>

Tick ==
  /\ at # "returned" /\ ~late
  /\ late' = TRUE
  /\ UNCHANGED <<host, wires, node, grace, cancel>>

\* The ten seconds close waits.
Grace ==
  /\ at = "close" /\ ~grace
  /\ grace' = TRUE
  /\ UNCHANGED <<host, wires, node, late, cancel>>

Cancel ==
  /\ at # "returned" /\ ~cancel
  /\ cancel' = TRUE
  /\ UNCHANGED <<host, wires, node, late, grace>>
-----------------------------------------------------------------------------
(* The host: request, close, drop. *)

\* stdin is closed and nothing is killed.
DropClosesStdin == UNCHANGED <<nodeUp, browser>>

\* The process tree is killed when node itself still runs.
Drop ==
  /\ nodeUp' = FALSE
  /\ browser' = IF nodeUp /\ browser = "up" THEN "killed" ELSE browser

\* The command returns, and the bridge is dropped.
End(o) ==
  /\ at' = "returned" /\ outcome' = o
  /\ Drop
  /\ UNCHANGED <<phase, id, executed, limited, crashed, strays>>

NewRequest(n) == [id |-> n, method |-> at, step |-> step]

Send ==
  /\ at \in Method /\ phase = "send"
  /\ \/ cancel /\ End("cancelled") /\ UNCHANGED inbox
     \/ ~cancel /\ ~nodeUp /\ End("io") /\ UNCHANGED inbox
     \/ /\ ~cancel /\ nodeUp
        /\ id' = id + 1
        /\ \/ at \in Large /\ phase' = "blocked" /\ UNCHANGED inbox
           \/ phase' = "check" /\ inbox' = Append(inbox, NewRequest(id + 1))
        /\ UNCHANGED <<at, outcome, node>>
  /\ UNCHANGED <<config, kept, outbox, clock>>

\* write_all blocks until node has read enough of the request; it looks at
\* neither the deadline nor the flag.
Drain ==
  /\ at # "returned" /\ phase = "blocked" /\ nodeUp
  /\ phase' = "check" /\ inbox' = Append(inbox, NewRequest(id))
  /\ UNCHANGED <<config, at, id, kept, outcome, outbox, node, clock>>

BrokenPipe ==
  /\ at # "returned" /\ phase = "blocked" /\ ~nodeUp
  /\ End("io")
  /\ UNCHANGED <<config, kept, wires, clock>>

\* The deadline is left to node.
CheckCancelOnly ==
  /\ at \in Method /\ phase = "check"
  /\ IF cancel THEN End("cancelled")
     ELSE phase' = "receive" /\ UNCHANGED <<at, id, outcome, node>>
  /\ UNCHANGED <<config, kept, wires, clock>>

\* The head of the receive loop reads the flag, then the clock.
Check ==
  /\ at \in Method /\ phase = "check"
  /\ IF cancel THEN End("cancelled")
     ELSE IF late THEN End("deadline")
     ELSE phase' = "receive" /\ UNCHANGED <<at, id, outcome, node>>
  /\ UNCHANGED <<config, kept, wires, clock>>

\* recv_timeout: nothing within 100 ms, or node's end of the pipe is closed.
ReceiveNothing ==
  /\ at \in Method /\ phase = "receive" /\ outbox = << >>
  /\ \/ phase' = "check" /\ UNCHANGED <<at, id, outcome, node>>
     \/ ~nodeUp /\ End("protocol")
  /\ UNCHANGED <<config, kept, wires, clock>>
-----------------------------------------------------------------------------
(* The host: run_browser_program_at, one request after the other. *)

Ask(m) == at' = m /\ phase' = "send" /\ UNCHANGED <<id, outcome, node>>

NextStep ==
  /\ IF step < Len(Program)
     THEN step' = step + 1 /\ Ask("execute_step")
     ELSE step' = step /\ Ask("finish")

\* The assertion is kept with the observation that follows it; the first failed
\* step ends the loop.
AfterStep(n) ==
  /\ notes' = IF Program[step] = Act THEN notes
              ELSE Append(notes, [step |-> step, observation |-> n, answer |-> result])
  /\ IF passed THEN NextStep
     ELSE Ask("capture_failure_reel") /\ UNCHANGED step

GotObservation(r) ==
  /\ observations' = Append(observations, r.after)
  /\ \/ step = 0 /\ NextStep /\ UNCHANGED notes
     \/ step # 0 /\ config.collects /\ Ask("collect_ui") /\ UNCHANGED <<step, notes>>
     \/ step # 0 /\ ~config.collects /\ AfterStep(Len(observations) + 1)
  /\ UNCHANGED <<result, passed>>

GotStep(r) ==
  /\ result' = r.answer
  /\ passed' = (passed /\ r.answer = "ok")
  /\ Ask("observe")
  /\ UNCHANGED <<step, observations, notes>>

\* A replay that fell short is not looked at.
ConcludedAsRun(r) == passed

\* A strict replay that fell short fails the program.
Concluded(r) == passed /\ ~(config.replays /\ r.limited)

GotFinish(r) ==
  /\ passed' = Concluded(r)
  /\ Ask("close")
  /\ UNCHANGED <<step, result, observations, notes>>

\* UI evidence that could not be collected is a limitation.
GotUi(r) ==
  /\ AfterStep(Len(observations))
  /\ UNCHANGED <<result, passed, observations>>

\* So are frames that could not be taken.
GotReel(r) == Ask("finish") /\ UNCHANGED kept

\* Bodies and files of these answers are read, and may not be readable.
Unreadable(r) ==
  /\ r.answer = "ok"
  /\ at \in {"observe", "collect_ui", "capture_failure_reel", "finish"}

\* An error answer ends the command, except that of a step, which fails the
\* program, and those of the evidence collectors.
Handle(r) ==
  \/ /\ at \in {"initialize", "prepare", "observe", "finish"} /\ r.answer # "ok"
     /\ End("remote") /\ UNCHANGED kept
  \/ Unreadable(r) /\ End("protocol") /\ UNCHANGED kept
  \/ r.answer = "ok" /\ at = "initialize" /\ Ask("prepare") /\ UNCHANGED kept
  \/ r.answer = "ok" /\ at = "prepare" /\ Ask("observe") /\ UNCHANGED kept
  \/ r.answer = "ok" /\ at = "observe" /\ GotObservation(r)
  \/ r.answer = "ok" /\ at = "finish" /\ GotFinish(r)
  \/ at = "execute_step" /\ GotStep(r)
  \/ at = "collect_ui" /\ GotUi(r)
  \/ at = "capture_failure_reel" /\ GotReel(r)

\* Whatever line comes next is the reply.
MatchesAny(r) == TRUE

Matches(r) == r.id = id

Receive ==
  /\ at \in Method /\ phase = "receive" /\ outbox # << >>
  /\ outbox' = Tail(outbox)
  /\ LET r == Head(outbox) IN
       \/ Matches(r) /\ Handle(r)
       \/ ~Matches(r) /\ End("protocol") /\ UNCHANGED kept
  /\ UNCHANGED <<config, inbox, clock>>

\* close: stdin is closed, node has ten seconds to exit.
Close ==
  /\ at = "close"
  /\ \/ ~nodeUp /\ End("run")
     \/ nodeUp /\ grace /\ End("protocol")
  /\ UNCHANGED <<config, kept, wires, clock>>

World == Serve \/ Drain \/ Stray \/ Crash \/ Exit \/ Tick \/ Grace \/ Cancel

Host == Send \/ BrokenPipe \/ Check \/ ReceiveNothing \/ Receive \/ Close

Next == World \/ Host

Spec == Init /\ [][Next]_vars

\* The host's thread is scheduled and time passes.  Nothing is assumed of node.
FairSpec == Spec /\ WF_vars(Host) /\ WF_vars(Tick) /\ WF_vars(Grace)
-----------------------------------------------------------------------------
(* Properties. *)

\* Each observation the host keeps was taken when exactly the steps before it
\* had run, and an assertion cites the observation that follows its step, over
\* late answers, stray lines, collector errors and failed steps.
ObservationsFollowTheirSteps ==
  /\ \A k \in DOMAIN observations : observations[k] = k - 1
  /\ \A i \in DOMAIN notes : notes[i].observation = notes[i].step + 1

\* Node runs the steps of the program in order, each once, and none after one
\* that failed, although the collectors still run.
NothingRunsAfterAFailure ==
  \A k \in DOMAIN executed :
    /\ executed[k].step = k
    /\ executed[k].answer # "ok" => k = Len(executed)

\* A program is reported as passed exactly when node ran every step of it, none
\* failed, and a strict replay found all it needed; the assertions reported are
\* those node ran, with the answers it gave.
ResultIsWhatRan ==
  outcome = "run" =>
    /\ passed <=>
         /\ Len(executed) = Len(Program)
         /\ \A k \in DOMAIN executed : executed[k].answer = "ok"
         /\ ~(config.replays /\ limited)
    /\ {[step |-> notes[i].step, answer |-> notes[i].answer] : i \in DOMAIN notes}
         = {executed[k] : k \in {j \in DOMAIN executed : Program[j] # Act}}

\* "Deadline, cancel, and output-cap kills terminate ... Chromium descendants":
\* however a command ends, neither node nor its browser is left, unless node
\* had died by itself.
NothingIsLeft ==
  at = "returned" => ~nodeUp /\ (browser = "up" => crashed)

\* Whatever node does, the command returns, unless it is blocked writing a
\* request that does not fit the pipe: the one place the deadline cannot reach.
SessionEnds == []<>(at = "returned" \/ phase = "blocked")
=============================================================================
