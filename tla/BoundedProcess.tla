--------------------------- MODULE BoundedProcess ---------------------------
(***************************************************************************)
(* One run_bounded: a registered program and the processes it starts, the  *)
(* two pipes they write, the two reader threads that drain them into one   *)
(* channel, and the collector that watches the channel, the deadline, the  *)
(* cancel flag, the output cap and the program's exit.                     *)
(*                                                                         *)
(* Output is counted in chunks of one read.  The channel keeps the order   *)
(* of each sender, so a count of chunks and a final Done per stream stand  *)
(* for it; which stream the collector hears first is left open.            *)
(***************************************************************************)
EXTENDS Naturals

CONSTANTS
  Leader,      \* the spawned process
  Descendant,  \* processes it may start
  MaxOutput,   \* max_output_bytes, in chunks
  MaxWritten,  \* bound on what the processes write
  PipeSize     \* chunks a pipe holds

Tree   == {Leader} \cup Descendant
Stream == {"out", "err"}
Other(s) == IF s = "out" THEN "err" ELSE "out"

ASSUME ConstantsAssumption ==
  /\ Leader \notin Descendant
  /\ MaxOutput \in Nat \ {0}
  /\ MaxWritten \in Nat
  /\ PipeSize \in Nat \ {0}

VARIABLES
  alive,    \* processes of the tree that run
  born,     \* processes of the tree that were started
  holds,    \* holds[s]: processes that have the write end of s open
  written,  \* written[s]: chunks written to s
  pipe,     \* pipe[s]: chunks in the pipe
  reader,   \* reader[s]: "off", "reading", or once Done is sent "done", and
            \* "failed" when it was an error that ended it
  sent,     \* sent[s]: chunks of s in the channel
  heard,    \* heard[s]: has the collector received the Done of s?
  got,      \* got[s]: length of the collected stdout or stderr
  late,     \* has the deadline passed?
  cancel,   \* the shared cancel flag
  at,       \* where the collector is
  why       \* what it returned

program == <<alive, born, holds, written>>
readers == <<reader, sent>>
result  == <<heard, got, at, why>>
vars    == <<program, pipe, readers, late, cancel, result>>

TypeOK ==
  /\ alive \subseteq Tree /\ born \subseteq Tree
  /\ holds \in [Stream -> SUBSET Tree]
  /\ written \in [Stream -> Nat]
  /\ pipe \in [Stream -> 0..PipeSize]
  /\ reader \in [Stream -> {"off", "reading", "done", "failed"}]
  /\ sent \in [Stream -> Nat]
  /\ heard \in [Stream -> BOOLEAN]
  /\ got \in [Stream -> Nat]
  /\ late \in BOOLEAN /\ cancel \in BOOLEAN
  /\ at \in {"start", "cancel", "deadline", "receive", "reap", "returned"}
  /\ why \in {"none", "ok", "cancelled", "deadline", "limit", "spawn"}

Init ==
  /\ alive = {} /\ born = {}
  /\ holds = [s \in Stream |-> {}]
  /\ written = [s \in Stream |-> 0]
  /\ pipe = [s \in Stream |-> 0]
  /\ reader = [s \in Stream |-> "off"]
  /\ sent = [s \in Stream |-> 0]
  /\ heard = [s \in Stream |-> FALSE]
  /\ got = [s \in Stream |-> 0]
  /\ late = FALSE /\ cancel = FALSE
  /\ at = "start" /\ why = "none"
-----------------------------------------------------------------------------
(* The operating system: processes, pipes and time.                        *)

\* A child inherits the ends its parent has open.
Fork(p, d) ==
  /\ p \in alive /\ d \notin born
  /\ alive' = alive \cup {d} /\ born' = born \cup {d}
  /\ holds' = [s \in Stream |-> IF p \in holds[s] THEN holds[s] \cup {d} ELSE holds[s]]
  /\ UNCHANGED <<written, pipe, readers, late, cancel, result>>

\* A write blocks while the pipe is full, and fails once nobody reads it.
WriteChunk(p, s) ==
  /\ p \in alive \cap holds[s]
  /\ reader[s] # "failed"
  /\ pipe[s] < PipeSize
  /\ written["out"] + written["err"] < MaxWritten
  /\ written' = [written EXCEPT ![s] = @ + 1]
  /\ pipe' = [pipe EXCEPT ![s] = @ + 1]
  /\ UNCHANGED <<alive, born, holds, readers, late, cancel, result>>

CloseStream(p, s) ==
  /\ p \in alive \cap holds[s]
  /\ holds' = [holds EXCEPT ![s] = @ \ {p}]
  /\ UNCHANGED <<alive, born, written, pipe, readers, late, cancel, result>>

Exit(p) ==
  /\ p \in alive
  /\ alive' = alive \ {p}
  /\ holds' = [s \in Stream |-> holds[s] \ {p}]
  /\ UNCHANGED <<born, written, pipe, readers, late, cancel, result>>

\* The deadline passes; somebody asks to cancel.
Tick ==
  /\ at # "start" /\ ~late
  /\ late' = TRUE
  /\ UNCHANGED <<program, pipe, readers, cancel, result>>

Cancel ==
  /\ ~cancel
  /\ cancel' = TRUE
  /\ UNCHANGED <<program, pipe, readers, late, result>>

\* Only the spawned process is killed.
KillLeader ==
  /\ alive' = alive \ {Leader}
  /\ holds' = [s \in Stream |-> holds[s] \ {Leader}]
  /\ UNCHANGED <<born, written>>

\* child.kill and child.wait: the process group or the job object dies.
KillTree ==
  /\ alive' = {}
  /\ holds' = [s \in Stream |-> {}]
  /\ UNCHANGED <<born, written>>
-----------------------------------------------------------------------------
(* The reader threads.  Once the collector has returned there is no receiver: *)
(* the next send fails and the thread ends, which nobody can tell.            *)

Reading(s) == reader[s] = "reading" /\ at # "returned"

\* stderr is read once stdout has ended.
ReadOneByOne(s) ==
  /\ Reading(s)
  /\ s = "err" => reader["out"] = "done"
  /\ pipe[s] > 0
  /\ pipe' = [pipe EXCEPT ![s] = @ - 1]
  /\ sent' = [sent EXCEPT ![s] = @ + 1]
  /\ UNCHANGED <<program, reader, late, cancel, result>>

\* read returns a chunk, which goes into the channel; the channel has no bound.
ReadChunk(s) ==
  /\ Reading(s)
  /\ pipe[s] > 0
  /\ pipe' = [pipe EXCEPT ![s] = @ - 1]
  /\ sent' = [sent EXCEPT ![s] = @ + 1]
  /\ UNCHANGED <<program, reader, late, cancel, result>>

\* read returns 0: no process has the write end open.  Done is sent and the
\* thread ends.
ReadEnd(s) ==
  /\ Reading(s)
  /\ pipe[s] = 0 /\ holds[s] = {}
  /\ reader' = [reader EXCEPT ![s] = "done"]
  /\ UNCHANGED <<program, pipe, sent, late, cancel, result>>

\* read returns an error: Done is sent as well, the read end is closed and what
\* was in the pipe is lost.
ReadFails(s) ==
  /\ Reading(s)
  /\ reader' = [reader EXCEPT ![s] = "failed"]
  /\ pipe' = [pipe EXCEPT ![s] = 0]
  /\ UNCHANGED <<program, sent, late, cancel, result>>
-----------------------------------------------------------------------------
(* run_bounded and collect_child. *)

Give(w) == at' = "returned" /\ why' = w /\ UNCHANGED <<heard, got>>

Go(from, to) == at = from /\ at' = to /\ UNCHANGED <<heard, got, why>>

\* Nothing is spawned once cancelled; the spawn itself may fail.
Start ==
  /\ at = "start"
  /\ \/ cancel /\ Give("cancelled") /\ UNCHANGED <<program, reader>>
     \/ ~cancel /\ Give("spawn") /\ UNCHANGED <<program, reader>>
     \/ /\ ~cancel
        /\ Go("start", "cancel")
        /\ alive' = {Leader} /\ born' = {Leader}
        /\ holds' = [s \in Stream |-> {Leader}]
        /\ reader' = [s \in Stream |-> "reading"]
        /\ UNCHANGED written
  /\ UNCHANGED <<pipe, sent, late, cancel>>

\* The head of the loop reads the flag, then the clock.
CheckCancel ==
  /\ at = "cancel"
  /\ IF cancel THEN Give("cancelled") /\ KillTree
     ELSE Go("cancel", "deadline") /\ UNCHANGED program
  /\ UNCHANGED <<pipe, readers, late, cancel>>

CheckDeadline ==
  /\ at = "deadline"
  /\ IF late THEN Give("deadline") /\ KillTree
     ELSE Go("deadline", "receive") /\ UNCHANGED program
  /\ UNCHANGED <<pipe, readers, late, cancel>>

\* append_capped: stdout and stderr share one cap.
AppendChunk(s) ==
  IF got[s] + got[Other(s)] + 1 > MaxOutput
  THEN Give("limit") /\ KillTree
  ELSE /\ got' = [got EXCEPT ![s] = @ + 1]
       /\ at' = "reap" /\ UNCHANGED <<heard, why, program>>

ReceiveChunk(s) ==
  /\ at = "receive"
  /\ sent[s] > 0
  /\ sent' = [sent EXCEPT ![s] = @ - 1]
  /\ AppendChunk(s)
  /\ UNCHANGED <<pipe, reader, late, cancel>>

Ended(s) == reader[s] \in {"done", "failed"}

ReceiveDone(s) ==
  /\ Ended(s) /\ sent[s] = 0 /\ ~heard[s]
  /\ at = "receive" /\ at' = "reap"
  /\ heard' = [heard EXCEPT ![s] = TRUE]
  /\ UNCHANGED <<program, pipe, readers, late, cancel, got, why>>

\* recv in place of recv_timeout.
ReceiveBlocks ==
  /\ \A s \in Stream : heard[s]
  /\ Go("receive", "reap")
  /\ UNCHANGED <<program, pipe, readers, late, cancel>>

\* recv_timeout finds the channel empty: it waits at most 20 ms, or is told
\* that both senders are gone, whose Done it has then received.
ReceiveNothing ==
  /\ \A s \in Stream : sent[s] = 0 /\ (Ended(s) => heard[s])
  /\ Go("receive", "reap")
  /\ UNCHANGED <<program, pipe, readers, late, cancel>>

\* One Done is enough.
FinishedEarly == \E s \in Stream : heard[s]

\* done_readers >= expected_readers.
Finished == \A s \in Stream : heard[s]

\* try_wait reports the exit of the spawned process.
Reap ==
  /\ at = "reap"
  /\ IF Leader \notin alive /\ Finished THEN Give("ok") ELSE Go("reap", "cancel")
  /\ UNCHANGED <<program, pipe, readers, late, cancel>>

\* try_wait fails: the error is returned and the program goes on.
ReapFails ==
  /\ at = "reap"
  /\ Give("spawn")
  /\ UNCHANGED <<program, pipe, readers, late, cancel>>

System ==
  \/ \E p \in Tree :
       \/ \E d \in Descendant : Fork(p, d)
       \/ \E s \in Stream : WriteChunk(p, s) \/ CloseStream(p, s)
       \/ Exit(p)
  \/ Tick
  \/ Cancel

Reader(s) == ReadChunk(s) \/ ReadEnd(s)

Collector ==
  \/ Start \/ CheckCancel \/ CheckDeadline
  \/ \E s \in Stream : ReceiveChunk(s) \/ ReceiveDone(s)
  \/ ReceiveNothing \/ Reap \/ ReapFails

Next == System \/ (\E s \in Stream : Reader(s) \/ ReadFails(s)) \/ Collector

Spec == Init /\ [][Next]_vars

\* The threads of wvq are scheduled.  Nothing is assumed of the program, which
\* may hang, nor of the deadline.
FairSpec == Spec /\ WF_vars(Collector) /\ \A s \in Stream : WF_vars(Reader(s))
-----------------------------------------------------------------------------
(* Properties. *)

\* A result is the whole output: every chunk any process of the tree wrote was
\* collected, and none can write another, although the program may have exited
\* long before its descendants and its pipes ran dry.  Only a stream whose
\* read failed may be cut short.
ResultIsComplete ==
  why = "ok" => \A s \in Stream :
    reader[s] # "failed" => holds[s] = {} /\ got[s] = written[s]

\* "Deadline, cancel, and output-cap kills terminate Vitest workers and
\* Chromium descendants, not only the parent": nothing of the tree survives
\* one of these answers, also when the program itself had exited before.
NothingSurvivesAKill ==
  why \in {"cancelled", "deadline", "limit"} => alive = {}

\* What is collected keeps within the cap, and only a program that wrote more
\* is told that it did: its output reached the cap and one chunk beyond.
LimitIsReal ==
  /\ got["out"] + got["err"] <= MaxOutput
  /\ why = "limit" => written["out"] + written["err"] > MaxOutput

\* No program waits for ever on a full pipe, whichever stream it fills.
PipesAreDrained ==
  \A s \in Stream : pipe[s] = PipeSize ~> (pipe[s] < PipeSize \/ at = "returned")

\* A request to stop is heeded however much output keeps coming, and a program
\* that ended is reported without waiting for the deadline.
StopsAndEnds ==
  at # "start" /\ (late \/ cancel \/ alive = {}) ~> at = "returned"
-----------------------------------------------------------------------------
(* The inductive invariant. *)

\* Every chunk written is in the pipe, in the channel, or collected, unless a
\* read failed; the one that breaks the cap is in none of them.
Conserved ==
  why # "limit" =>
    \A s \in Stream :
      /\ pipe[s] + sent[s] + got[s] <= written[s]
      /\ reader[s] # "failed" => pipe[s] + sent[s] + got[s] = written[s]

StreamInv ==
  \A s \in Stream :
    /\ reader[s] = "done" => pipe[s] = 0 /\ holds[s] = {}
    /\ reader[s] = "failed" => pipe[s] = 0
    /\ heard[s] => Ended(s) /\ sent[s] = 0
    /\ holds[s] \subseteq alive

CollectorInv ==
  /\ why # "none" => at = "returned"
  /\ at = "start" => alive = {} /\ \A s \in Stream : reader[s] = "off"

IInv ==
  /\ TypeOK /\ Conserved /\ StreamInv /\ CollectorInv
  /\ ResultIsComplete /\ NothingSurvivesAKill /\ LimitIsReal
=============================================================================
