---------------------------- MODULE RunnerProofs ----------------------------
(***************************************************************************)
(* Proofs about running things: one bounded process, and the suite runs    *)
(* and audits of several processes in one repository.                      *)
(***************************************************************************)
EXTENDS BoundedProcess, SuiteRun, SequenceFacts

(***************************************************************************)
(* BoundedProcess: its safety properties, for any process tree, pipe       *)
(* size, cap and amount of output.                                         *)
(***************************************************************************)

\* The steps of the operating system keep the invariant: they neither collect
\* anything nor give an answer.
LEMMA SystemStep ==
  ASSUME IInv, System
  PROVE  IInv'
<1>1. ASSUME NEW p \in Tree, NEW d \in Descendant, Fork(p, d) PROVE IInv'
  <2>1. /\ p \in alive /\ alive' = alive \cup {d} /\ born' = born \cup {d}
        /\ \A s \in Stream : holds'[s] = IF p \in holds[s] THEN holds[s] \cup {d}
                                         ELSE holds[s]
        /\ holds' \in [Stream -> SUBSET Tree]
        /\ UNCHANGED <<written, pipe, reader, sent, late, cancel, heard, got, at, why>>
    BY <1>1 DEF Fork, IInv, TypeOK, readers, result, Tree
  <2>2. TypeOK'
    BY <2>1 DEF IInv, TypeOK, Tree
  <2>3. \A s \in Stream : holds[s] = {} => holds'[s] = {}
    BY <2>1
  <2>4. Conserved' /\ LimitIsReal'
    BY <2>1 DEF IInv, Conserved, LimitIsReal
  <2>5. StreamInv'
    BY <2>1, <2>3 DEF IInv, StreamInv, Ended
  <2>6. CollectorInv' /\ NothingSurvivesAKill'
    BY <2>1 DEF IInv, CollectorInv, NothingSurvivesAKill
  <2>7. ResultIsComplete'
    BY <2>1, <2>3 DEF IInv, ResultIsComplete
  <2> QED BY <2>2, <2>4, <2>5, <2>6, <2>7 DEF IInv
<1>2. ASSUME NEW p \in Tree, NEW s \in Stream, WriteChunk(p, s) PROVE IInv'
  <2>1. /\ p \in alive /\ p \in holds[s] /\ pipe[s] < PipeSize /\ reader[s] # "failed"
        /\ written' = [written EXCEPT ![s] = @ + 1]
        /\ pipe' = [pipe EXCEPT ![s] = @ + 1]
        /\ UNCHANGED <<alive, born, holds, reader, sent, late, cancel, heard, got, at, why>>
    BY <1>2 DEF WriteChunk, readers, result
  <2>2. TypeOK'
    BY <2>1, ConstantsAssumption DEF IInv, TypeOK
  <2>3. Conserved'
    <3>1. pipe[s] \in Nat /\ written[s] \in Nat /\ sent[s] \in Nat /\ got[s] \in Nat
      BY ConstantsAssumption DEF IInv, TypeOK
    <3>2. pipe'[s] = pipe[s] + 1 /\ written'[s] = written[s] + 1
      BY <2>1 DEF IInv, TypeOK
    <3>3. \A t \in Stream \ {s} : pipe'[t] = pipe[t] /\ written'[t] = written[t]
      BY <2>1 DEF IInv, TypeOK
    <3> QED BY <2>1, <3>1, <3>2, <3>3 DEF IInv, Conserved
  <2>4. LimitIsReal'
    <3>1. /\ written["out"] \in Nat /\ written["err"] \in Nat
          /\ written'["out"] \in {written["out"], written["out"] + 1}
          /\ written'["err"] \in {written["err"], written["err"] + 1}
      BY <2>1 DEF IInv, TypeOK, Stream
    <3>2. /\ got["out"] + got["err"] <= MaxOutput
          /\ why = "limit" => written["out"] + written["err"] > MaxOutput
      BY DEF IInv, LimitIsReal
    <3>3. why = "limit" => written'["out"] + written'["err"] > MaxOutput
      BY <3>1, <3>2, ConstantsAssumption
    <3> QED BY <2>1, <3>2, <3>3 DEF LimitIsReal
  <2>5. StreamInv'
    BY <2>1 DEF IInv, TypeOK, StreamInv, Ended
  <2>6. CollectorInv' /\ NothingSurvivesAKill' /\ ResultIsComplete'
    BY <2>1 DEF IInv, CollectorInv, NothingSurvivesAKill, ResultIsComplete
  <2> QED BY <2>2, <2>3, <2>4, <2>5, <2>6 DEF IInv
<1>3. ASSUME NEW p \in Tree, NEW s \in Stream, CloseStream(p, s) PROVE IInv'
  <2>1. /\ holds' = [holds EXCEPT ![s] = @ \ {p}]
        /\ UNCHANGED <<alive, born, written, pipe, reader, sent, late, cancel,
                       heard, got, at, why>>
    BY <1>3 DEF CloseStream, readers, result
  <2>2. TypeOK'
    BY <2>1 DEF IInv, TypeOK
  <2>3. Conserved' /\ LimitIsReal' /\ CollectorInv' /\ NothingSurvivesAKill'
    BY <2>1 DEF IInv, Conserved, LimitIsReal, CollectorInv, NothingSurvivesAKill
  <2>4. StreamInv' /\ ResultIsComplete'
    BY <2>1 DEF IInv, TypeOK, StreamInv, Ended, ResultIsComplete
  <2> QED BY <2>2, <2>3, <2>4 DEF IInv
<1>4. ASSUME NEW p \in Tree, Exit(p) PROVE IInv'
  <2>1. /\ alive' = alive \ {p} /\ holds' = [s \in Stream |-> holds[s] \ {p}]
        /\ UNCHANGED <<born, written, pipe, reader, sent, late, cancel,
                       heard, got, at, why>>
    BY <1>4 DEF Exit, readers, result
  <2>2. TypeOK'
    BY <2>1 DEF IInv, TypeOK
  <2>3. Conserved' /\ LimitIsReal' /\ CollectorInv' /\ NothingSurvivesAKill'
    BY <2>1 DEF IInv, Conserved, LimitIsReal, CollectorInv, NothingSurvivesAKill
  <2>4. StreamInv' /\ ResultIsComplete'
    BY <2>1 DEF IInv, TypeOK, StreamInv, Ended, ResultIsComplete
  <2> QED BY <2>2, <2>3, <2>4 DEF IInv
<1>5. CASE Tick \/ Cancel
  <2>1. /\ late' \in BOOLEAN /\ cancel' \in BOOLEAN
        /\ UNCHANGED <<program, pipe, readers, result>>
    BY <1>5 DEF Tick, Cancel, IInv, TypeOK
  <2>2. TypeOK'
    BY <2>1 DEF IInv, TypeOK, program, readers, result
  <2>3. Conserved' /\ StreamInv' /\ CollectorInv'
    BY <2>1 DEF IInv, Conserved, StreamInv, Ended, CollectorInv, program, readers, result
  <2>4. ResultIsComplete' /\ NothingSurvivesAKill' /\ LimitIsReal'
    BY <2>1 DEF IInv, ResultIsComplete, NothingSurvivesAKill, LimitIsReal,
       program, readers, result
  <2> QED BY <2>2, <2>3, <2>4 DEF IInv
<1> QED BY <1>1, <1>2, <1>3, <1>4, <1>5 DEF System

\* A reader moves a chunk from its pipe to the channel, or ends on a pipe that
\* is empty and that nobody can fill again.
LEMMA ReaderStep ==
  ASSUME IInv, NEW s \in Stream, Reader(s)
  PROVE  IInv'
<1>1. CASE ReadChunk(s)
  <2>1. /\ reader[s] = "reading" /\ at # "returned" /\ pipe[s] > 0
        /\ pipe' = [pipe EXCEPT ![s] = @ - 1]
        /\ sent' = [sent EXCEPT ![s] = @ + 1]
        /\ UNCHANGED <<alive, born, holds, written, reader, late, cancel,
                       heard, got, at, why>>
    BY <1>1 DEF ReadChunk, Reading, program, result
  <2>2. TypeOK'
    BY <2>1, ConstantsAssumption DEF IInv, TypeOK
  <2>3. Conserved'
    <3>1. pipe[s] \in Nat /\ written[s] \in Nat /\ sent[s] \in Nat /\ got[s] \in Nat
      BY ConstantsAssumption DEF IInv, TypeOK
    <3>2. pipe'[s] = pipe[s] - 1 /\ sent'[s] = sent[s] + 1
      BY <2>1 DEF IInv, TypeOK
    <3>3. \A t \in Stream \ {s} : pipe'[t] = pipe[t] /\ sent'[t] = sent[t]
      BY <2>1 DEF IInv, TypeOK
    <3> QED BY <2>1, <3>1, <3>2, <3>3 DEF IInv, Conserved
  <2>4. LimitIsReal' /\ CollectorInv' /\ NothingSurvivesAKill' /\ ResultIsComplete'
    BY <2>1 DEF IInv, LimitIsReal, CollectorInv, NothingSurvivesAKill, ResultIsComplete
  <2>5. StreamInv'
    BY <2>1 DEF IInv, TypeOK, StreamInv, Ended
  <2> QED BY <2>2, <2>3, <2>4, <2>5 DEF IInv
<1>2. CASE ReadEnd(s)
  <2>1. /\ reader[s] = "reading" /\ pipe[s] = 0 /\ holds[s] = {} /\ at # "start"
        /\ reader' = [reader EXCEPT ![s] = "done"]
        /\ UNCHANGED <<alive, born, holds, written, pipe, sent, late, cancel,
                       heard, got, at, why>>
    BY <1>2 DEF ReadEnd, Reading, program, result, IInv, CollectorInv
  <2>2. TypeOK'
    BY <2>1 DEF IInv, TypeOK
  <2>3. Conserved' /\ LimitIsReal' /\ CollectorInv' /\ NothingSurvivesAKill'
        /\ ResultIsComplete'
    BY <2>1 DEF IInv, Conserved, LimitIsReal, CollectorInv, NothingSurvivesAKill,
       ResultIsComplete
  <2>4. StreamInv'
    BY <2>1 DEF IInv, TypeOK, StreamInv, Ended
  <2> QED BY <2>2, <2>3, <2>4 DEF IInv
<1> QED BY <1>1, <1>2 DEF Reader

\* What a failed read loses was written, and is never taken for complete.
LEMMA ReadFailsStep ==
  ASSUME IInv, NEW s \in Stream, ReadFails(s)
  PROVE  IInv'
<1>1. /\ reader[s] = "reading" /\ at # "returned" /\ at # "start"
      /\ reader' = [reader EXCEPT ![s] = "failed"]
      /\ pipe' = [pipe EXCEPT ![s] = 0]
      /\ UNCHANGED <<alive, born, holds, written, sent, late, cancel,
                     heard, got, at, why>>
  BY DEF ReadFails, Reading, program, result, IInv, CollectorInv
<1>2. why = "none"
  BY <1>1 DEF IInv, TypeOK, CollectorInv
<1>3. TypeOK'
  BY <1>1, ConstantsAssumption DEF IInv, TypeOK
<1>4. Conserved'
  BY <1>1 DEF IInv, TypeOK, Conserved
<1>5. LimitIsReal' /\ CollectorInv' /\ NothingSurvivesAKill' /\ ResultIsComplete'
  BY <1>1, <1>2 DEF IInv, LimitIsReal, CollectorInv, NothingSurvivesAKill,
     ResultIsComplete
<1>6. StreamInv'
  BY <1>1 DEF IInv, TypeOK, StreamInv, Ended
<1> QED BY <1>3, <1>4, <1>5, <1>6 DEF IInv

\* An answer that collects nothing and kills the tree.
LEMMA KillStep ==
  ASSUME IInv, NEW w \in {"cancelled", "deadline"}, Give(w), KillTree, why = "none",
         UNCHANGED <<pipe, readers, late, cancel>>
  PROVE  IInv'
<1>1. /\ alive' = {} /\ \A s \in Stream : holds'[s] = {}
      /\ holds' \in [Stream -> SUBSET Tree]
      /\ at' = "returned" /\ why' = w
      /\ UNCHANGED <<born, written, pipe, reader, sent, late, cancel, heard, got>>
  BY DEF KillTree, Give, readers
<1>2. TypeOK'
  BY <1>1 DEF IInv, TypeOK
<1>3. Conserved' /\ LimitIsReal'
  BY <1>1 DEF IInv, Conserved, LimitIsReal
<1>4. StreamInv' /\ CollectorInv' /\ ResultIsComplete' /\ NothingSurvivesAKill'
  BY <1>1 DEF IInv, StreamInv, Ended, CollectorInv, ResultIsComplete, NothingSurvivesAKill
<1> QED BY <1>2, <1>3, <1>4 DEF IInv

\* A move of the collector inside its loop.
LEMMA GoStep ==
  ASSUME IInv, NEW from \in {"cancel", "deadline", "receive", "reap"},
         NEW to \in {"cancel", "deadline", "receive", "reap"}, Go(from, to),
         UNCHANGED <<program, pipe, readers, late, cancel>>
  PROVE  IInv'
<1>1. /\ at = from /\ at' = to /\ why = "none"
      /\ UNCHANGED <<alive, born, holds, written, pipe, reader, sent, late, cancel,
                     heard, got, why>>
  BY DEF Go, program, readers, IInv, CollectorInv
<1>2. TypeOK'
  BY <1>1 DEF IInv, TypeOK
<1>3. Conserved' /\ StreamInv' /\ CollectorInv'
  BY <1>1 DEF IInv, Conserved, StreamInv, Ended, CollectorInv
<1>4. ResultIsComplete' /\ NothingSurvivesAKill' /\ LimitIsReal'
  BY <1>1 DEF IInv, ResultIsComplete, NothingSurvivesAKill, LimitIsReal
<1> QED BY <1>2, <1>3, <1>4 DEF IInv

LEMMA StartStep ==
  ASSUME IInv, Start
  PROVE  IInv'
<1>1. CASE cancel /\ Give("cancelled") /\ UNCHANGED <<program, reader>>
  <2>1. /\ at = "start" /\ alive = {} /\ at' = "returned" /\ why' = "cancelled"
        /\ why = "none"
        /\ UNCHANGED <<alive, born, holds, written, pipe, reader, sent, late, cancel,
                       heard, got>>
    BY <1>1 DEF Start, Give, program, IInv, CollectorInv
  <2>2. TypeOK'
    BY <2>1 DEF IInv, TypeOK
  <2>3. Conserved' /\ StreamInv' /\ CollectorInv' /\ LimitIsReal'
    BY <2>1 DEF IInv, Conserved, StreamInv, Ended, CollectorInv, LimitIsReal
  <2>4. ResultIsComplete' /\ NothingSurvivesAKill'
    BY <2>1 DEF ResultIsComplete, NothingSurvivesAKill
  <2> QED BY <2>2, <2>3, <2>4 DEF IInv
<1>2. CASE ~cancel /\ Give("spawn") /\ UNCHANGED <<program, reader>>
  <2>1. /\ at = "start" /\ why = "none" /\ at' = "returned" /\ why' = "spawn"
        /\ UNCHANGED <<alive, born, holds, written, pipe, reader, sent, late, cancel,
                       heard, got>>
    BY <1>2 DEF Start, Give, program, IInv, CollectorInv
  <2>2. TypeOK'
    BY <2>1 DEF IInv, TypeOK
  <2>3. Conserved' /\ StreamInv' /\ CollectorInv' /\ LimitIsReal'
    BY <2>1 DEF IInv, Conserved, StreamInv, Ended, CollectorInv, LimitIsReal
  <2>4. ResultIsComplete' /\ NothingSurvivesAKill'
    BY <2>1 DEF ResultIsComplete, NothingSurvivesAKill
  <2> QED BY <2>2, <2>3, <2>4 DEF IInv
<1>3. CASE /\ ~cancel /\ Go("start", "cancel")
           /\ alive' = {Leader} /\ born' = {Leader}
           /\ holds' = [s \in Stream |-> {Leader}]
           /\ reader' = [s \in Stream |-> "reading"]
           /\ UNCHANGED written
  <2>1. /\ at = "start" /\ why = "none" /\ at' = "cancel"
        /\ \A s \in Stream : holds'[s] = {Leader} /\ reader'[s] = "reading"
        /\ alive' = {Leader}
        /\ UNCHANGED <<written, pipe, sent, late, cancel, heard, got, why>>
    BY <1>3 DEF Start, Go, IInv, CollectorInv
  <2>2. TypeOK'
    BY <1>3, <2>1 DEF IInv, TypeOK, Tree
  <2>3. \A s \in Stream : heard[s] = FALSE
    BY <2>1 DEF IInv, StreamInv, Ended, CollectorInv, TypeOK
  <2>4. Conserved' /\ CollectorInv' /\ LimitIsReal' /\ ResultIsComplete'
        /\ NothingSurvivesAKill'
    BY <2>1 DEF IInv, Conserved, CollectorInv, LimitIsReal, ResultIsComplete,
       NothingSurvivesAKill
  <2>5. StreamInv'
    BY <2>1, <2>3 DEF StreamInv, Ended
  <2> QED BY <2>2, <2>4, <2>5 DEF IInv
<1> QED BY <1>1, <1>2, <1>3 DEF Start

\* The chunk is collected, or it was the one beyond the cap.
LEMMA ReceiveStep ==
  ASSUME IInv, NEW s \in Stream, ReceiveChunk(s)
  PROVE  IInv'
<1>0. /\ at = "receive" /\ why = "none" /\ sent[s] > 0
      /\ sent' = [sent EXCEPT ![s] = @ - 1] /\ AppendChunk(s)
      /\ UNCHANGED <<pipe, reader, late, cancel>>
  BY DEF ReceiveChunk, IInv, CollectorInv
<1>1. ~heard[s]
  BY <1>0 DEF IInv, StreamInv, Ended, TypeOK
<1>2. /\ Other(s) \in Stream /\ Stream = {s, Other(s)} /\ s # Other(s)
      /\ \A f \in [Stream -> Nat] : f["out"] + f["err"] = f[s] + f[Other(s)]
  BY DEF Stream, Other
<1>3. CASE got[s] + got[Other(s)] + 1 > MaxOutput
  <2>1. /\ alive' = {} /\ \A t \in Stream : holds'[t] = {}
        /\ holds' \in [Stream -> SUBSET Tree]
        /\ at' = "returned" /\ why' = "limit"
        /\ UNCHANGED <<born, written, heard, got>>
    BY <1>0, <1>3 DEF AppendChunk, Give, KillTree
  <2>2. TypeOK'
    <3>1. sent' \in [Stream -> Nat]
      BY <1>0 DEF IInv, TypeOK
    <3> QED BY <1>0, <2>1, <3>1 DEF IInv, TypeOK
  <2>3. StreamInv'
    <3>1. \A t \in Stream : heard[t] => sent'[t] = sent[t]
      BY <1>0, <1>1 DEF IInv, TypeOK
    <3> QED BY <1>0, <2>1, <3>1 DEF IInv, StreamInv, Ended
  <2>4. Conserved' /\ CollectorInv' /\ ResultIsComplete' /\ NothingSurvivesAKill'
    BY <2>1 DEF Conserved, CollectorInv, ResultIsComplete, NothingSurvivesAKill
  <2>5. LimitIsReal'
    <3>1. /\ written[s] >= got[s] + 1 /\ written[Other(s)] >= got[Other(s)]
          /\ written[s] \in Nat /\ written[Other(s)] \in Nat
          /\ got[s] \in Nat /\ got[Other(s)] \in Nat
      BY <1>0, <1>2 DEF IInv, TypeOK, Conserved
    <3>2. written[s] + written[Other(s)] > MaxOutput
      BY <1>3, <3>1, ConstantsAssumption
    <3>3. written["out"] + written["err"] > MaxOutput
      BY <1>2, <3>2 DEF IInv, TypeOK
    <3> QED BY <2>1, <3>3 DEF IInv, LimitIsReal
  <2> QED BY <2>2, <2>3, <2>4, <2>5 DEF IInv
<1>4. CASE ~(got[s] + got[Other(s)] + 1 > MaxOutput)
  <2>1. /\ got' = [got EXCEPT ![s] = @ + 1] /\ at' = "reap"
        /\ UNCHANGED <<alive, born, holds, written, heard, why>>
    BY <1>0, <1>4 DEF AppendChunk, program
  <2>2. TypeOK'
    BY <1>0, <2>1 DEF IInv, TypeOK
  <2>3. StreamInv'
    <3>1. \A t \in Stream : heard[t] => sent'[t] = sent[t]
      BY <1>0, <1>1 DEF IInv, TypeOK
    <3> QED BY <1>0, <2>1, <3>1 DEF IInv, StreamInv, Ended
  <2>4. CollectorInv' /\ ResultIsComplete' /\ NothingSurvivesAKill'
    BY <1>0, <2>1 DEF CollectorInv, ResultIsComplete, NothingSurvivesAKill
  <2>5. Conserved'
    BY <1>0, <2>1 DEF IInv, TypeOK, Conserved
  <2>6. LimitIsReal'
    <3>1. got'[s] = got[s] + 1 /\ got'[Other(s)] = got[Other(s)]
          /\ got[s] \in Nat /\ got[Other(s)] \in Nat /\ got' \in [Stream -> Nat]
      BY <1>2, <2>1, <2>2 DEF IInv, TypeOK
    <3>2. got'[s] + got'[Other(s)] <= MaxOutput
      BY <1>4, <3>1, ConstantsAssumption
    <3>3. got'["out"] + got'["err"] <= MaxOutput
      BY <1>2, <3>1, <3>2
    <3> QED BY <1>0, <2>1, <3>3 DEF LimitIsReal
  <2> QED BY <2>2, <2>3, <2>4, <2>5, <2>6 DEF IInv
<1> QED BY <1>3, <1>4

\* Once both Done are heard, nothing is left in the pipes or in the channel.
LEMMA ReapStep ==
  ASSUME IInv, Reap
  PROVE  IInv'
<1>1. CASE Leader \notin alive /\ Finished
  <2>1. /\ at = "reap" /\ why = "none" /\ at' = "returned" /\ why' = "ok"
        /\ UNCHANGED <<alive, born, holds, written, pipe, reader, sent, late, cancel,
                       heard, got>>
    BY <1>1 DEF Reap, Give, program, readers, IInv, CollectorInv
  <2>2. TypeOK'
    BY <2>1 DEF IInv, TypeOK
  <2>3. Conserved' /\ StreamInv' /\ CollectorInv' /\ LimitIsReal' /\ NothingSurvivesAKill'
    BY <2>1 DEF IInv, Conserved, StreamInv, Ended, CollectorInv, LimitIsReal,
       NothingSurvivesAKill
  <2>4. \A s \in Stream : reader[s] # "failed" => holds[s] = {} /\ got[s] = written[s]
    BY <1>1, <2>1 DEF Finished, IInv, TypeOK, Conserved, StreamInv, Ended
  <2> QED BY <2>1, <2>2, <2>3, <2>4 DEF IInv, ResultIsComplete
<1>2. CASE ~(Leader \notin alive /\ Finished)
  BY <1>2, GoStep DEF Reap
<1> QED BY <1>1, <1>2

LEMMA CollectorStep ==
  ASSUME IInv, Collector
  PROVE  IInv'
<1>1. CASE Start
  BY <1>1, StartStep
<1>2. CASE CheckCancel
  <2>1. why = "none"
    BY <1>2 DEF CheckCancel, IInv, CollectorInv
  <2> QED BY <1>2, <2>1, KillStep, GoStep DEF CheckCancel
<1>3. CASE CheckDeadline
  <2>1. why = "none"
    BY <1>3 DEF CheckDeadline, IInv, CollectorInv
  <2> QED BY <1>3, <2>1, KillStep, GoStep DEF CheckDeadline
<1>4. ASSUME NEW s \in Stream, ReceiveDone(s) PROVE IInv'
  <2>1. /\ at = "receive" /\ at' = "reap" /\ why = "none"
        /\ Ended(s) /\ sent[s] = 0
        /\ heard' = [heard EXCEPT ![s] = TRUE]
        /\ UNCHANGED <<alive, born, holds, written, pipe, reader, sent, late, cancel,
                       got, why>>
    BY <1>4 DEF ReceiveDone, program, readers, IInv, CollectorInv
  <2>2. TypeOK'
    BY <2>1 DEF IInv, TypeOK
  <2>3. Conserved' /\ CollectorInv' /\ LimitIsReal' /\ ResultIsComplete'
        /\ NothingSurvivesAKill'
    BY <2>1 DEF IInv, Conserved, CollectorInv, LimitIsReal, ResultIsComplete,
       NothingSurvivesAKill
  <2>4. StreamInv'
    BY <2>1 DEF IInv, TypeOK, StreamInv, Ended
  <2> QED BY <2>2, <2>3, <2>4 DEF IInv
<1>5. CASE ReceiveNothing
  BY <1>5, GoStep DEF ReceiveNothing
<1>6. CASE ReapFails
  <2>1. /\ why = "none" /\ at' = "returned" /\ why' = "spawn"
        /\ UNCHANGED <<alive, born, holds, written, pipe, reader, sent, late, cancel,
                       heard, got>>
    BY <1>6 DEF ReapFails, Give, program, readers, IInv, CollectorInv
  <2>2. TypeOK'
    BY <2>1 DEF IInv, TypeOK
  <2>3. Conserved' /\ StreamInv' /\ CollectorInv' /\ LimitIsReal'
    BY <2>1 DEF IInv, Conserved, StreamInv, Ended, CollectorInv, LimitIsReal
  <2>4. ResultIsComplete' /\ NothingSurvivesAKill'
    BY <2>1 DEF ResultIsComplete, NothingSurvivesAKill
  <2> QED BY <2>2, <2>3, <2>4 DEF IInv
<1> QED BY <1>1, <1>2, <1>3, <1>4, <1>5, <1>6, ReceiveStep, ReapStep DEF Collector

\* The inductive invariant.
THEOREM ProcessInvariant == Spec => []IInv
<1>1. Init => IInv
  <2> SUFFICES ASSUME Init PROVE IInv
    OBVIOUS
  <2>1. TypeOK
    <3>1. /\ holds \in [Stream -> SUBSET Tree] /\ heard \in [Stream -> BOOLEAN]
          /\ reader \in [Stream -> {"off", "reading", "done", "failed"}]
      BY Zenon DEF Init
    <3>2. /\ written \in [Stream -> Nat] /\ sent \in [Stream -> Nat]
          /\ got \in [Stream -> Nat] /\ pipe \in [Stream -> 0..PipeSize]
      BY ConstantsAssumption DEF Init
    <3> QED BY <3>1, <3>2 DEF Init, TypeOK
  <2>2. Conserved /\ StreamInv /\ CollectorInv
    BY DEF Init, Conserved, StreamInv, Ended, CollectorInv
  <2>3. ResultIsComplete /\ NothingSurvivesAKill /\ LimitIsReal
    BY ConstantsAssumption DEF Init, ResultIsComplete, NothingSurvivesAKill,
       LimitIsReal, Stream
  <2> QED BY <2>1, <2>2, <2>3 DEF IInv
<1>2. IInv /\ [Next]_vars => IInv'
  <2> SUFFICES ASSUME IInv, [Next]_vars PROVE IInv'
    OBVIOUS
  <2>1. CASE UNCHANGED vars
    <3>1. UNCHANGED <<alive, born, holds, written, pipe, reader, sent, heard, got,
                      late, cancel, at, why>>
      BY <2>1 DEF vars, program, readers, result
    <3>2. TypeOK' /\ Conserved' /\ StreamInv' /\ CollectorInv'
      BY <3>1 DEF IInv, TypeOK, Conserved, StreamInv, Ended, CollectorInv
    <3>3. ResultIsComplete' /\ NothingSurvivesAKill' /\ LimitIsReal'
      BY <3>1 DEF IInv, ResultIsComplete, NothingSurvivesAKill, LimitIsReal
    <3> QED BY <3>2, <3>3 DEF IInv
  <2> QED BY <2>1, SystemStep, ReaderStep, ReadFailsStep, CollectorStep DEF Next
<1> QED BY <1>1, <1>2, PTL DEF Spec

\* Every variable keeps its type.
THEOREM TypeCorrect == Spec => []TypeOK
BY ProcessInvariant, PTL DEF IInv

\* An answer "ok" carries every chunk the whole tree wrote.
THEOREM ResultComplete == Spec => []ResultIsComplete
BY ProcessInvariant, PTL DEF IInv

\* Cancellation, deadline and cap leave no process of the tree.
THEOREM NothingSurvives == Spec => []NothingSurvivesAKill
BY ProcessInvariant, PTL DEF IInv

\* The cap holds, and only a program that exceeded it is cut off.
THEOREM LimitReal == Spec => []LimitIsReal
BY ProcessInvariant, PTL DEF IInv

-----------------------------------------------------------------------------
(***************************************************************************)
(* SuiteRun.  A plan that stays reduced has a runner process for every     *)
(* test it selected: each test has a target, each target lists its tests   *)
(* in order and cuts the list into pieces that leave nothing out.  While a *)
(* run is executed and stored its records only lose the mark that they     *)
(* passed, one process owns its row until the summary makes it whole, and  *)
(* whole rows stay as an audit read them.                                  *)
(***************************************************************************)

(* What a reduced run executes *)

\* The plan of a reduced run executes, for every obligation, a test with a case bound
\* to it.
Proves(j) ==
  j.scope = "impacted" =>
    \A n \in Need : \E b \in CaseBindings(Binding, PresentAt[j.tree]) :
      /\ n.id \in b.obligations
      /\ \/ b.path \in BrowserPath
         \/ \E i \in 1..Len(j.requests) : b.path \in Range(j.requests[i].tests)

Merged == MergedBindings(Binding, {})

LEMMA MergedIs ==
  ASSUME NEW b \in Merged
  PROVE  \A x \in b.obligations : \E d \in Binding :
               d.path = b.path /\ d.case = b.case /\ x \in d.obligations
<1> DEFINE Same(d) == {e \in Binding \cup {} : /\ e.path = d.path /\ e.runner = d.runner
                                               /\ e.suite = d.suite /\ e.case = d.case}
<1>1. PICK d \in Binding \cup {} :
        b = [path |-> d.path, runner |-> d.runner, suite |-> d.suite, case |-> d.case,
             obligations |-> UNION {e.obligations : e \in Same(d)},
             cost |-> Min({e.cost : e \in Same(d)}),
             penalty |-> Max({e.penalty : e \in Same(d)})]
  BY DEF Merged, MergedBindings
<1>2. /\ b.path = d.path /\ b.case = d.case
      /\ b.obligations = UNION {e.obligations : e \in Same(d)}
  BY <1>1
<1> QED BY <1>2

LEMMA CasesAreFinite ==
  ASSUME NEW t
  PROVE  IsFiniteSet(CargoCases(t, Merged))
<1> DEFINE Same(b) == {e \in Binding \cup {} : /\ e.path = b.path /\ e.runner = b.runner
                                               /\ e.suite = b.suite /\ e.case = b.case}
           One(b) == [path |-> b.path, runner |-> b.runner, suite |-> b.suite, case |-> b.case,
                      obligations |-> UNION {e.obligations : e \in Same(b)},
                      cost |-> Min({e.cost : e \in Same(b)}),
                      penalty |-> Max({e.penalty : e \in Same(b)})]
<1>1. Merged = {One(b) : b \in Binding \cup {}}
  BY DEF Merged, MergedBindings
<1> HIDE DEF One
<1> DEFINE f == [b \in Binding |-> One(b)]
<1>2. f \in Surjection(Binding, Merged)
  BY <1>1 DEF Surjection
<1>3. IsFiniteSet(Merged)
  BY <1>2, FS_Surjection, SuiteAssumption
<1>4. CargoCases(t, Merged) \subseteq Merged
  BY DEF CargoCases
<1> QED BY <1>3, <1>4, FS_Subset

\* The target that takes a test's filter.
LEMMA TargetIs ==
  ASSUME NEW t, NEW present, Mappable(t, Targets, present, Merged)
  PROVE  /\ TargetOf(t, Targets, Merged) \in 1..Len(Targets)
         /\ Takes(Targets[TargetOf(t, Targets, Merged)], t, Merged)
<1> DEFINE N == Len(Targets)
           T(i) == Takes(Targets[i], t, Merged)
           D(i) == Targets[i].depth
           Deepest(i, n) == /\ i \in 1..n /\ T(i)
                         /\ \A j \in 1..n : T(j) => D(j) < D(i) \/ (D(j) = D(i) /\ i <= j)
           Bad == {n \in 0..N : (\E i \in 1..n : T(i)) /\ ~ \E i \in 1..n : Deepest(i, n)}
<1>1. N \in Nat /\ \A i \in 1..N : D(i) \in Nat
  <2>1. N \in Nat /\ \A i \in 1..N : Targets[i] \in Range(Targets)
    BY SuiteAssumption
  <2> QED BY <2>1, SuiteAssumption
<1> HIDE DEF T, D
<1>2. Bad = {}
  <2> SUFFICES ASSUME Bad # {} PROVE FALSE
    OBVIOUS
  <2>1. Bad \in SUBSET Nat
    BY <1>1
  <2>2. PICK n \in Bad : \A m \in Bad : n <= m
    BY <2>1, LeastNumber
  <2>3. n \in 1..N
    BY <2>2, <1>1
  <2>4. n - 1 \notin Bad /\ n - 1 \in 0..N
    <3>1. ~ (n <= n - 1) /\ n - 1 \in 0..N
      BY <2>3, <1>1
    <3> HIDE DEF Bad
    <3> QED BY <3>1, <2>2
  <2>5. CASE ~ \E i \in 1..(n - 1) : T(i)
    <3>1. T(n)
      BY <2>2, <2>3, <2>5
    <3>2. Deepest(n, n)
      BY <3>1, <2>3, <2>5, <1>1
    <3> QED BY <3>2, <2>2, <2>3
  <2>6. CASE \E i \in 1..(n - 1) : T(i)
    <3>1. PICK i \in 1..(n - 1) : Deepest(i, n - 1)
      BY <2>4, <2>6
    <3>2. /\ i \in 1..n /\ i \in 1..N /\ T(i) /\ D(i) \in Nat /\ D(n) \in Nat
          /\ \A j \in 1..n : j \in 1..(n - 1) \/ j = n
          /\ \A j \in 1..(n - 1) : j \in 1..N /\ D(j) \in Nat
      <4>1. N \in Nat /\ n \in 1..N /\ i \in 1..(n - 1)
        BY <2>3, <1>1
      <4>2. /\ i \in 1..n /\ i \in 1..N /\ n \in 1..N
            /\ \A j \in 1..n : j \in 1..(n - 1) \/ j = n
            /\ \A j \in 1..(n - 1) : j \in 1..N
        <5> HIDE DEF N
        <5> QED BY <4>1
      <4> QED BY <4>2, <1>1, <3>1
    <3>5. \A j \in 1..(n - 1) : T(j) => D(j) < D(i) \/ (D(j) = D(i) /\ i <= j)
      BY <3>1
    <3>6. i <= n /\ n \in 1..n
      BY <3>2, <2>3, <1>1
    <3>3. CASE T(n) /\ D(i) < D(n)
      <4>1. ASSUME NEW j \in 1..n, T(j) PROVE D(j) < D(n) \/ (D(j) = D(n) /\ n <= j)
        <5>1. CASE j = n
          BY <5>1, <3>2, <3>6
        <5>2. CASE j # n
          <6>1. j \in 1..(n - 1)
            BY <5>2, <3>2
          <6>2. D(j) \in Nat /\ (D(j) < D(i) \/ D(j) = D(i))
            BY <6>1, <4>1, <3>2, <3>5
          <6>3. D(i) < D(n) /\ D(i) \in Nat /\ D(n) \in Nat
            BY <3>2, <3>3
          <6>4. D(j) < D(n)
            <7> DEFINE a == D(j)  b == D(i)  c == D(n)
            <7>1. a \in Nat /\ b \in Nat /\ c \in Nat /\ (a < b \/ a = b) /\ b < c
              BY <6>2, <6>3
            <7> HIDE DEF a, b, c
            <7>2. a < c
              BY <7>1
            <7> QED BY <7>2 DEF a, c
          <6> QED BY <6>4
        <5> QED BY <5>1, <5>2
      <4>2. Deepest(n, n)
        BY <4>1, <3>3, <3>6
      <4> QED BY <4>2, <2>2, <2>3
    <3>4. CASE ~ (T(n) /\ D(i) < D(n))
      <4>1. ASSUME NEW j \in 1..n, T(j) PROVE D(j) < D(i) \/ (D(j) = D(i) /\ i <= j)
        <5>1. CASE j = n
          BY <5>1, <4>1, <3>2, <3>4, <3>6
        <5>2. CASE j # n
          BY <5>2, <4>1, <3>2, <3>5
        <5> QED BY <5>1, <5>2
      <4>2. Deepest(i, n)
        BY <4>1, <3>2
      <4> QED BY <4>2, <3>2, <2>2
    <3> QED BY <3>3, <3>4
  <2> QED BY <2>5, <2>6
<1>3. \E i \in 1..N : T(i)
  BY DEF Mappable, T
<1>4. N \in 0..N
  BY <1>1
<1>5. \E i \in 1..N : Deepest(i, N)
  BY <1>2, <1>3, <1>4
<1>6. TargetOf(t, Targets, Merged) = CHOOSE i \in 1..N : Deepest(i, N)
  <2>1. TargetOf(t, Targets, Merged) = CHOOSE i \in 1..N :
          T(i) /\ \A j \in 1..N : T(j) => D(j) < D(i) \/ (D(j) = D(i) /\ i <= j)
    BY DEF TargetOf, T, D
  <2>2. \A i \in 1..N : Deepest(i, N) <=>
          T(i) /\ \A j \in 1..N : T(j) => D(j) < D(i) \/ (D(j) = D(i) /\ i <= j)
    OBVIOUS
  <2> HIDE DEF Deepest, N
  <2> QED BY <2>1, <2>2
<1>7. Deepest(TargetOf(t, Targets, Merged), N) /\ TargetOf(t, Targets, Merged) \in 1..N
  <2> HIDE DEF Deepest, N
  <2> QED BY <1>5, <1>6
<1> QED BY <1>7 DEF T

\* Cut into pieces of a given size, a sequence keeps each of its places.
LEMMA PieceOf ==
  ASSUME NEW L \in Nat, NEW size \in Nat \ {0}, NEW m \in 1..L
  PROVE  /\ (L + size - 1) \div size \in Nat
         /\ \E k \in 1..((L + size - 1) \div size) :
               (k - 1) * size + 1 <= m /\ m <= k * size
<1> DEFINE K == (L + size - 1) \div size
           q == (m - 1) \div size
<1>1. q \in Nat /\ K \in Nat
  OBVIOUS
<1>2. q * size <= m - 1 /\ m - 1 < (q + 1) * size
  OBVIOUS
<1>3. K * size <= L + size - 1 /\ L + size - 1 < (K + 1) * size
  OBVIOUS
<1> HIDE DEF K, q
<1>4. q < K
  <2> SUFFICES ASSUME K <= q PROVE FALSE
    BY <1>1
  <2> DEFINE d == q - K
  <2>1. d \in Nat /\ q = K + d
    BY <1>1
  <2> HIDE DEF d
  <2>2. (q + 1) * size = (K + 1) * size + d * size /\ d * size \in Nat
    BY <1>1, <2>1
  <2>3. (q + 1) * size = q * size + size
    BY <1>1
  <2> DEFINE a == (q + 1) * size  b == (K + 1) * size  c == q * size
  <2>4. a \in Int /\ b \in Int /\ c \in Int /\ a >= b /\ a = c + size /\ c <= m - 1
        /\ L + size - 1 < b
    BY <1>1, <1>2, <1>3, <2>2, <2>3
  <2> HIDE DEF a, b, c
  <2> QED BY <2>4
<1>5. q + 1 \in 1..K /\ (q + 1) - 1 = q
  BY <1>1, <1>4
<1>6. (q + 1) - 1 \in Nat /\ ((q + 1) - 1) * size + 1 <= m /\ m <= (q + 1) * size
  <2> DEFINE a == (q + 1) * size  c == q * size
  <2>1. a \in Int /\ c \in Int /\ c <= m - 1 /\ m - 1 < a
    BY <1>1, <1>2
  <2>2. ((q + 1) - 1) * size = c
    BY <1>5
  <2> HIDE DEF a, c
  <2>3. c + 1 <= m /\ m <= a
    BY <2>1
  <2> QED BY <2>2, <2>3, <1>1, <1>5 DEF a
<1> QED BY <1>1, <1>5, <1>6 DEF K

LEMMA RangeHas ==
  ASSUME NEW s, NEW x
  PROVE  x \in Range(s) <=> \E i \in DOMAIN s : s[i] = x
BY DEF Range

\* The pieces of a sequence together contain what the sequence does.
LEMMA PieceHas ==
  ASSUME NEW T, NEW s \in Seq(T), NEW size \in Nat \ {0}, NEW x \in Range(s)
  PROVE  \E k \in 1..((Len(s) + size - 1) \div size) :
            x \in Range(SubSeq(s, (k - 1) * size + 1, Min({k * size, Len(s)})))
<1> DEFINE K == (Len(s) + size - 1) \div size
<1>1. PICK m \in 1..Len(s) : s[m] = x
  BY RangeHas
<1>2. Len(s) \in Nat
  OBVIOUS
<1>3. /\ K \in Nat
      /\ \E k \in 1..K : (k - 1) * size + 1 <= m /\ m <= k * size
  BY <1>1, <1>2, PieceOf
<1> HIDE DEF K
<1>4. PICK k \in 1..K : (k - 1) * size + 1 <= m /\ m <= k * size
  BY <1>3
<1> DEFINE a == (k - 1) * size + 1
           c == k * size
           b == Min({c, Len(s)})
<1>5. k \in Nat /\ k - 1 \in Nat /\ c \in Nat /\ (k - 1) * size \in Nat
  BY <1>3
<1>6. a \in Nat /\ 1 <= a /\ a <= m /\ m <= c /\ m \in Nat /\ m <= Len(s)
  BY <1>1, <1>2, <1>4, <1>5
<1> HIDE DEF a, c
<1>7. b \in {c, Len(s)} /\ m <= b /\ b <= Len(s) /\ b \in Nat
  <2>1. \E z \in {c, Len(s)} : \A y \in {c, Len(s)} : z <= y
    BY <1>2, <1>5, <1>6
  <2>2. b \in {c, Len(s)} /\ \A y \in {c, Len(s)} : b <= y
    BY <2>1 DEF Min
  <2> QED BY <2>2, <1>2, <1>5, <1>6
<1> HIDE DEF b
<1>8. /\ SubSeq(s, a, b) = [i \in 1..(b - a + 1) |-> s[a + i - 1]]
  BY <1>6, <1>7 DEF SubSeq
<1>9. m - a + 1 \in 1..(b - a + 1) /\ a + (m - a + 1) - 1 = m
  BY <1>6, <1>7
<1>10. SubSeq(s, a, b)[m - a + 1] = x /\ m - a + 1 \in DOMAIN SubSeq(s, a, b)
  BY <1>1, <1>8, <1>9
<1>11. x \in Range(SubSeq(s, a, b))
  BY <1>10, RangeHas
<1> QED BY <1>11 DEF K, a, b, c

\* Every test of a target is in one of its processes, and they are all of that target.
LEMMA BatchesHave ==
  ASSUME NEW target, NEW Z \in SUBSET Nat, IsFiniteSet(Z),
         \A t \in Z : Takes(target, t, Merged)
  PROVE  /\ IsSequence(Batches(target, Z, Merged))
         /\ \A t \in Z : \E r \in Range(Batches(target, Z, Merged)) : t \in Range(r.tests)
         /\ \A r \in Range(Batches(target, Z, Merged)) : r.target = target
<1> DEFINE size == IF target.kind = "cargo" THEN 1 ELSE MaxFilters
           Filters(t) == IF target.kind = "cargo"
                         THEN [i \in 1..Cardinality(CargoCases(t, Merged)) |-> t]
                         ELSE <<t>>
           order == InOrder(Z)
           seqs == [i \in 1..Len(order) |-> Filters(order[i])]
           pairs == FlattenSeq(seqs)
           K == (Len(pairs) + size - 1) \div size
           Piece(k) == [target |-> target,
                        tests |-> SubSeq(pairs, (k - 1) * size + 1, Min({k * size, Len(pairs)}))]
           batches == [k \in 1..K |-> Piece(k)]
<1>1. size \in Nat \ {0}
  BY SuiteAssumption
<1>2. Cardinality(Z) \in Nat /\ Ascending(order, Z)
  <2>1. order = CHOOSE f \in [1..Cardinality(Z) -> Z] : \A i, j \in DOMAIN f : i < j => f[i] < f[j]
    BY DEF InOrder
  <2>2. \E f \in [1..Cardinality(Z) -> Z] : \A i, j \in DOMAIN f : i < j => f[i] < f[j]
    BY AscendingExists DEF Ascending
  <2> HIDE DEF order
  <2>3. order \in [1..Cardinality(Z) -> Z] /\ \A i, j \in DOMAIN order : i < j => order[i] < order[j]
    BY <2>1, <2>2
  <2> QED BY <2>3, FS_CardinalityType DEF Ascending
<1>3. /\ Len(order) = Cardinality(Z) /\ DOMAIN order = 1..Len(order)
      /\ \A i \in 1..Len(order) : order[i] \in Z
      /\ \A t \in Z : \E i \in 1..Len(order) : order[i] = t
  <2> HIDE DEF order
  <2>1. order \in [1..Cardinality(Z) -> Z] /\ order \in Seq(Z)
    BY <1>2, SeqDef DEF Ascending
  <2> QED BY <2>1, <1>2, AscendingLists
<1> HIDE DEF order
<1>4. ASSUME NEW t \in Z
      PROVE  Filters(t) \in Seq(Z) /\ t \in Range(Filters(t))
  <2>1. CASE target.kind = "cargo"
    <3> DEFINE n == Cardinality(CargoCases(t, Merged))
    <3>1. CargoCases(t, Merged) # {}
      BY <2>1, <1>4 DEF Takes, AcceptsFilter
    <3>2. n \in Nat /\ n # 0
      BY <3>1, CasesAreFinite, FS_CardinalityType, FS_EmptySet
    <3> HIDE DEF n
    <3>3. [i \in 1..n |-> t] \in Seq(Z)
      BY <3>2, SeqDef
    <3>4. 1 \in DOMAIN [i \in 1..n |-> t] /\ [i \in 1..n |-> t][1] = t
      BY <3>2
    <3>5. Filters(t) = [i \in 1..n |-> t]
      BY <2>1 DEF n
    <3> HIDE DEF Filters
    <3> QED BY <3>3, <3>4, <3>5, RangeHas
  <2>2. CASE target.kind # "cargo"
    <3>1. Filters(t) = <<t>>
      BY <2>2
    <3> HIDE DEF Filters
    <3> QED BY <3>1, SingleShape
  <2> QED BY <2>1, <2>2
<1> HIDE DEF Filters
<1>5. seqs \in Seq(Seq(Z))
  <2>1. Len(order) \in Nat /\ \A i \in 1..Len(order) : Filters(order[i]) \in Seq(Z)
    BY <1>2, <1>3, <1>4
  <2>2. seqs \in [1..Len(order) -> Seq(Z)]
    BY <2>1
  <2> QED BY <2>1, <2>2, SeqDef
<1>6. /\ pairs \in Seq(Z)
      /\ \A k \in DOMAIN seqs : Range(seqs[k]) \subseteq Range(pairs)
  <2> HIDE DEF seqs
  <2> QED BY <1>5, FlattenOf
<1>7. \A t \in Z : t \in Range(pairs)
  <2> SUFFICES ASSUME NEW t \in Z PROVE t \in Range(pairs)
    OBVIOUS
  <2>1. PICK i \in 1..Len(order) : order[i] = t
    BY <1>3
  <2>2. seqs[i] = Filters(t) /\ i \in DOMAIN seqs
    BY <2>1
  <2>3. t \in Range(seqs[i])
    BY <2>2, <1>4
  <2> HIDE DEF seqs, pairs
  <2> QED BY <2>2, <2>3, <1>6
<1> HIDE DEF seqs, size
<1>8. Len(pairs) \in Nat /\ K \in Nat
  <2> DEFINE L == Len(pairs)
  <2>1. L \in Nat
    BY <1>6
  <2> HIDE DEF L, pairs
  <2>2. (L + size - 1) \div size \in Nat
    BY <2>1, <1>1
  <2> QED BY <2>1, <2>2 DEF L
<1>9. Batches(target, Z, Merged) = batches
  BY DEF Batches, size, Filters, order, seqs
<1>10. IsSequence(batches)
  <2> DEFINE P == {Piece(k) : k \in 1..K}
  <2>1. \A k \in 1..K : Piece(k) \in P
    OBVIOUS
  <2> HIDE DEF P, Piece, K
  <2>2. batches \in [1..K -> P]
    BY <2>1
  <2>3. batches \in Seq(P)
    BY <2>2, <1>8, SeqDef
  <2> QED BY <2>3, SequenceOf
<1>11. ASSUME NEW t \in Z PROVE \E r \in Range(batches) : t \in Range(r.tests)
  <2> HIDE DEF pairs
  <2>1. PICK k \in 1..K :
          t \in Range(SubSeq(pairs, (k - 1) * size + 1, Min({k * size, Len(pairs)})))
    BY <1>1, <1>6, <1>7, PieceHas
  <2>2. t \in Range(Piece(k).tests)
    BY <2>1
  <2> HIDE DEF Piece, K
  <2>3. k \in DOMAIN batches /\ batches[k] = Piece(k)
    BY <2>1
  <2>4. Piece(k) \in Range(batches)
    BY <2>3, RangeHas
  <2> QED BY <2>2, <2>4
<1>12. ASSUME NEW r \in Range(batches) PROVE r.target = target
  <2>1. \A k \in 1..K : Piece(k).target = target
    OBVIOUS
  <2> HIDE DEF Piece, K
  <2>2. PICK k \in DOMAIN batches : batches[k] = r
    BY <1>12, RangeHas
  <2> QED BY <2>1, <2>2
<1> HIDE DEF batches
<1> QED BY <1>9, <1>10, <1>11, <1>12

\* The requests are of targets of the repository.
OfTargets(requests) ==
  /\ Len(requests) \in Nat
  /\ \A i \in 1..Len(requests) : requests[i].target \in Range(Targets)

\* Every test of the selection that no browser program runs is in a runner process, when
\* each can be mapped to a target.
LEMMA RequestsHave ==
  ASSUME NEW selected, NEW tr \in Trees,
         \A t \in selected \ BrowserPath : Mappable(t, Targets, PresentAt[tr], Merged)
  PROVE  /\ \A t \in selected \ BrowserPath :
            \E i \in 1..Len(FilteredRequests(selected, Targets, Merged)) :
               t \in Range(FilteredRequests(selected, Targets, Merged)[i].tests)
         /\ OfTargets(FilteredRequests(selected, Targets, Merged))
<1> DEFINE Of(i) == {t \in selected \ BrowserPath : TargetOf(t, Targets, Merged) = i}
           N == Len(Targets)
           seqs == [i \in 1..N |-> Batches(Targets[i], Of(i), Merged)]
           U == UNION {Range(Batches(Targets[i], Of(i), Merged)) : i \in 1..N}
           requests == FlattenSeq(seqs)
<1>1. N \in Nat
  BY SuiteAssumption
<1>2. ASSUME NEW i \in 1..N
      PROVE  /\ Of(i) \in SUBSET Nat /\ IsFiniteSet(Of(i))
             /\ \A t \in Of(i) : Takes(Targets[i], t, Merged)
  <2>1. Of(i) \subseteq PresentAt[tr]
    BY DEF Mappable
  <2>2. PresentAt[tr] \subseteq Nat /\ IsFiniteSet(PresentAt[tr])
    BY SuiteAssumption
  <2>3. \A t \in Of(i) : Takes(Targets[i], t, Merged)
    BY TargetIs
  <2>4. IsFiniteSet(Of(i))
    BY <2>1, <2>2, FS_Subset
  <2> QED BY <2>1, <2>2, <2>3, <2>4
<1> HIDE DEF Of
<1>3. ASSUME NEW i \in 1..N
      PROVE  /\ IsSequence(Batches(Targets[i], Of(i), Merged))
             /\ \A t \in Of(i) : \E r \in Range(Batches(Targets[i], Of(i), Merged)) :
                                    t \in Range(r.tests)
             /\ \A r \in Range(Batches(Targets[i], Of(i), Merged)) : r.target = Targets[i]
  BY <1>2, BatchesHave
<1>4. seqs \in Seq(Seq(U))
  <2>1. ASSUME NEW i \in 1..N PROVE Batches(Targets[i], Of(i), Merged) \in Seq(U)
    <3> DEFINE b == Batches(Targets[i], Of(i), Merged)
    <3>1. b \in Seq(Range(b)) /\ Range(b) \subseteq U
      BY <1>3 DEF IsSequence
    <3> HIDE DEF b, U
    <3>2. b \in [1..Len(b) -> U] /\ Len(b) \in Nat
      BY <3>1
    <3>3. b \in Seq(U)
      BY <3>2, SeqDef
    <3> QED BY <3>3 DEF b
  <2> HIDE DEF U
  <2>2. seqs \in [1..N -> Seq(U)]
    BY <2>1
  <2> QED BY <2>2, <1>1, SeqDef
<1>5. /\ requests \in Seq(U)
      /\ \A k \in DOMAIN seqs : Range(seqs[k]) \subseteq Range(requests)
  <2> HIDE DEF seqs, U
  <2> QED BY <1>4, FlattenOf
<1>6. FilteredRequests(selected, Targets, Merged) = requests
  BY DEF FilteredRequests, Of
<1>7. ASSUME NEW t \in selected \ BrowserPath
      PROVE  \E i \in 1..Len(requests) : t \in Range(requests[i].tests)
  <2> DEFINE k == TargetOf(t, Targets, Merged)
  <2>1. k \in 1..N /\ t \in Of(k)
    BY TargetIs DEF Of
  <2> HIDE DEF k
  <2>2. PICK r \in Range(Batches(Targets[k], Of(k), Merged)) : t \in Range(r.tests)
    BY <2>1, <1>3
  <2>3. k \in DOMAIN seqs /\ seqs[k] = Batches(Targets[k], Of(k), Merged)
    BY <2>1
  <2> HIDE DEF seqs, requests, N
  <2>4. r \in Range(requests)
    BY <2>2, <2>3, <1>5
  <2>5. PICK i \in DOMAIN requests : requests[i] = r
    BY <2>4, RangeHas
  <2>6. DOMAIN requests = 1..Len(requests)
    BY <1>5
  <2> QED BY <2>2, <2>5, <2>6
<1>8. OfTargets(requests)
  <2>1. \A r \in U : r.target \in Range(Targets)
    <3>1. \A i \in 1..N : Targets[i] \in Range(Targets)
      BY SuiteAssumption DEF Range
    <3> QED BY <1>3, <3>1
  <2> HIDE DEF requests, U
  <2>2. Len(requests) \in Nat /\ \A i \in 1..Len(requests) : requests[i] \in U
    BY <1>5
  <2> QED BY <2>1, <2>2 DEF OfTargets
<1> HIDE DEF requests
<1> QED BY <1>6, <1>7, <1>8

\* A full run's requests are of targets too.
LEMMA FullHas == OfTargets(FullRequests(Targets).requests)
<1> DEFINE Kept == {i \in 1..Len(Targets) :
                      ~(/\ Targets[i].kind = "stories"
                        /\ \E h \in Range(Targets) : h.cwd = Targets[i].cwd
                                                    /\ h.name \in {"vitest", "vitest-coverage"})}
           order == InOrder(Kept)
           n == Cardinality(Kept)
           requests == [i \in 1..n |-> [target |-> Targets[order[i]], tests |-> <<>>]]
<1>1. Len(Targets) \in Nat /\ \A i \in 1..Len(Targets) : Targets[i] \in Range(Targets)
  BY SuiteAssumption DEF Range
<1>2. Kept \subseteq 1..Len(Targets)
  OBVIOUS
<1>3. FullRequests(Targets).requests = requests
  BY DEF FullRequests
<1> HIDE DEF Kept
<1>4. IsFiniteSet(Kept) /\ Kept \in SUBSET Nat /\ n \in Nat
  <2>1. IsFiniteSet(1..Len(Targets))
    BY <1>1, FS_Interval
  <2>2. IsFiniteSet(Kept)
    BY <1>2, <2>1, FS_Subset
  <2> QED BY <1>1, <1>2, <2>2, FS_CardinalityType
<1>5. order \in [1..n -> Kept]
  <2>1. \E f \in [1..n -> Kept] : \A i, j \in DOMAIN f : i < j => f[i] < f[j]
    BY <1>4, AscendingExists DEF Ascending
  <2> QED BY <2>1 DEF InOrder
<1> HIDE DEF order, n
<1>6. \A i \in 1..n : requests[i].target \in Range(Targets)
  BY <1>1, <1>2, <1>5
<1>7. Len(requests) = n
  <2> DEFINE U == {requests[i] : i \in 1..n}
  <2>1. requests \in [1..n -> U]
    OBVIOUS
  <2> HIDE DEF requests, U
  <2>2. requests \in Seq(U)
    BY <2>1, <1>4, SeqDef
  <2> QED BY <2>1, <2>2, <1>4
<1> HIDE DEF requests
<1> QED BY <1>3, <1>4, <1>6, <1>7 DEF OfTargets

\* The requests of any plan are of targets.
LEMMA PlanHas ==
  ASSUME NEW scope, NEW selection, NEW tr \in Trees
  PROVE  OfTargets(ExecutionRequests(scope, selection, Targets, Merged, PresentAt[tr]).requests)
<1> DEFINE plan == ExecutionRequests(scope, selection, Targets, Merged, PresentAt[tr])
           selected == selection.selected
           filtered == FilteredRequests(selected, Targets, Merged)
<1>1. \/ plan = FullRequests(Targets)
      \/ /\ plan.requests = filtered
         /\ \A t \in selected \ BrowserPath : Mappable(t, Targets, PresentAt[tr], Merged)
  BY DEF ExecutionRequests
<1> HIDE DEF plan, selected
<1> QED BY <1>1, FullHas, RequestsHave DEF plan

\* A plan that stayed reduced proves every obligation: it was complete, and everything it
\* selected is executed.
LEMMA ReducedPlan ==
  ASSUME NEW scope, NEW static, NEW historical, NEW tr \in Trees
  PROVE  LET selection == LiveSelection(static, {}, historical, Merged, Need, PresentAt[tr])
             plan == ExecutionRequests(scope, selection, Targets, Merged, PresentAt[tr])
         IN  plan.scope = "impacted" =>
               \A n \in Need : \E b \in CaseBindings(Binding, PresentAt[tr]) :
                 /\ n.id \in b.obligations
                 /\ \/ b.path \in BrowserPath
                    \/ \E i \in 1..Len(plan.requests) : b.path \in Range(plan.requests[i].tests)
<1> DEFINE present == PresentAt[tr]
           selection == LiveSelection(static, {}, historical, Merged, Need, present)
           selected == selection.selected
           plan == ExecutionRequests(scope, selection, Targets, Merged, present)
           filtered == FilteredRequests(selected, Targets, Merged)
<1> SUFFICES ASSUME plan.scope = "impacted", NEW n \in Need
             PROVE  \E b \in CaseBindings(Binding, present) :
                      /\ n.id \in b.obligations
                      /\ \/ b.path \in BrowserPath
                         \/ \E i \in 1..Len(plan.requests) :
                               b.path \in Range(plan.requests[i].tests)
  OBVIOUS
<1>1. n.id \in UNION {b.obligations :
                 b \in {d \in CaseBindings(Merged, present) : d.path \in selected}}
      \/ n.id \in selection.uncovered
  BY DEF LiveSelection
<1> HIDE DEF selection
<1>2. /\ plan.requests = filtered /\ Complete(selection)
      /\ \A t \in selected \ BrowserPath : Mappable(t, Targets, present, Merged)
  <2>1. FullRequests(Targets).scope = "all"
    BY DEF FullRequests
  <2> QED BY <2>1 DEF ExecutionRequests
<1>3. PICK b \in CaseBindings(Merged, present) : b.path \in selected /\ n.id \in b.obligations
  BY <1>1, <1>2 DEF Complete
<1>4. b \in Merged /\ b.case # NoCase /\ b.path \in present
  BY <1>3 DEF CaseBindings
<1>5. PICK d \in Binding : d.path = b.path /\ d.case = b.case /\ n.id \in d.obligations
  BY <1>3, <1>4, MergedIs
<1>6. d \in CaseBindings(Binding, present)
  BY <1>4, <1>5 DEF CaseBindings
<1>7. d.path \in BrowserPath
      \/ \E i \in 1..Len(plan.requests) : d.path \in Range(plan.requests[i].tests)
  <2> SUFFICES ASSUME d.path \notin BrowserPath
               PROVE  \E i \in 1..Len(filtered) : d.path \in Range(filtered[i].tests)
    BY <1>2
  <2>1. d.path \in selected \ BrowserPath
    BY <1>3, <1>5
  <2> HIDE DEF plan, selected
  <2> QED BY <1>2, <2>1, RequestsHave
<1> QED BY <1>5, <1>6, <1>7

-----------------------------------------------------------------------------
(* Suite runs and audits *)

JobFields == {"pc", "tree", "requested", "scope", "impact", "selected", "requests",
              "records", "stale", "id"}
RecordFields == {"tests", "passed", "error", "cases", "covers"}
RowFields == {"tree", "requested", "scope", "impact", "selected", "passed", "cases",
              "summary"}
AuditFields == {"pc", "impacted", "full", "status", "missed", "left", "learned"}

\* A record has finitely many cases, and none failed when it passed.
RecordOK(r) ==
  /\ RecordFields \subseteq DOMAIN r /\ IsFiniteSet(r.cases)
  /\ r.passed \in BOOLEAN
  /\ r.passed => Failed(r.cases) = {}

RecordsOK(rs) ==
  /\ rs \in Seq({rs[i] : i \in DOMAIN rs})
  /\ \A i \in 1..Len(rs) : RecordOK(rs[i])

AtWork == {"next", "ran", "attached", "publishing", "stored", "observed"}
InStore == {"stored", "observed"}

PlanOK(j) == Proves(j) /\ IsFiniteSet(j.impact) /\ OfTargets(j.requests)

JobOK(j) ==
  \/ j = Idle
  \/ /\ j.pc \in AtWork /\ JobFields \subseteq DOMAIN j /\ RecordsOK(j.records) /\ PlanOK(j)
     /\ j.pc = "ran" => Len(j.records) \in 1..Len(j.requests)

\* A run being stored has its row, not yet whole, which passed only when every
\* record passed.
StoredOK(j, rs) ==
  j.pc \in InStore =>
     /\ j.id \in DOMAIN rs
     /\ rs[j.id].summary = FALSE
     /\ rs[j.id].passed => \A i \in 1..Len(j.records) : j.records[i].passed

RowOK(r) ==
  /\ RowFields \subseteq DOMAIN r /\ IsFiniteSet(r.impact) /\ IsFiniteSet(r.cases)
  /\ r.passed => Failed(r.cases) = {}

\* The status and the missed tests of an audit of two whole runs
WhatRunsSay(status, missed, impacted, full) ==
  /\ Audited(impacted) /\ Audited(full)
  /\ status = AuditStatus(impacted, full)
  /\ status # "not_reduced" => missed = Missed(impacted, full)

AuditOK(a) ==
  \/ a = Idle
  \/ /\ a.pc \in {"found", "stored"}
     /\ AuditFields \subseteq DOMAIN a
     /\ WhatRunsSay(a.status, a.missed, a.impacted, a.full)

AuditRowOK(a) ==
  /\ {"impacted", "full", "status", "missed", "learned", "done"} \subseteq DOMAIN a
  /\ Audited(a.impacted) /\ Audited(a.full)
  /\ a.status = AuditStatus(a.impacted, a.full)
  /\ a.status # "not_reduced" => a.missed = Cardinality(Missed(a.impacted, a.full))

JobsOK ==
  /\ job = [p \in Proc |-> job[p]]
  /\ \A p \in Proc : JobOK(job[p]) /\ StoredOK(job[p], runs)
  /\ \A p, q \in Proc : p # q /\ job[p].pc \in InStore /\ job[q].pc \in InStore
        => job[p].id # job[q].id

RunsOK == runs = [i \in DOMAIN runs |-> runs[i]] /\ \A i \in DOMAIN runs : RowOK(runs[i])

AuditsOK ==
  /\ audit = [p \in Proc |-> audit[p]]
  /\ \A p \in Proc : AuditOK(audit[p])
  /\ \A a \in audits : AuditRowOK(a)

SuiteInv == JobsOK /\ RunsOK /\ AuditsOK

\* A report that a runner writes is about tests that exist in the tree, so finitely many.
FilesOK ==
  /\ files = [f \in Report |-> files[f]]
  /\ \A f \in Report : f[2] \in JunitNames /\ files[f] # None => IsFiniteSet(files[f].tests)

\* The working tree and the reports in it
WorldOK == tree \in Trees /\ FilesOK

-----------------------------------------------------------------------------

\* What a step leaves of a job: the same run at the same point, but for the reports
\* that stay stale.
SameRun(j, k) ==
  \/ k = j
  \/ /\ j.pc = "ran" /\ j # Idle
     /\ k.pc = j.pc /\ DOMAIN k = DOMAIN j /\ k.records = j.records /\ k.id = j.id
     /\ k.tree = j.tree /\ k.scope = j.scope /\ k.requests = j.requests
     /\ k.impact = j.impact

\* The job that goes on from j.
GoesOn(j, k, pc, records, id) ==
  /\ JobFields \subseteq DOMAIN k
  /\ k.pc = pc /\ k.records = records /\ k.id = id
  /\ k.tree = j.tree /\ k.scope = j.scope /\ k.requests = j.requests
     /\ k.impact = j.impact

LEMMA WroteIsSame ==
  ASSUME NEW fs, NEW js, NEW q \in Proc, JobOK(js[q])
  PROVE  SameRun(js[q], Wrote(fs, js)[q])
<1>1. CASE js[q].pc = "ran"
  <2>1. js[q] # Idle
    BY <1>1 DEF Idle
  <2>2. JobFields \subseteq DOMAIN js[q]
    BY <2>1 DEF JobOK
  <2>3. Wrote(fs, js)[q] = [js[q] EXCEPT !.stale = @ \ fs]
    BY <1>1 DEF Wrote
  <2> DEFINE j == js[q]  k == [j EXCEPT !.stale = @ \ fs]
  <2>4. /\ k.pc = j.pc /\ DOMAIN k = DOMAIN j /\ k.records = j.records /\ k.id = j.id
        /\ k.tree = j.tree /\ k.scope = j.scope /\ k.requests = j.requests
     /\ k.impact = j.impact
    BY <2>2 DEF JobFields
  <2> QED BY <1>1, <2>1, <2>3, <2>4 DEF SameRun
<1>2. CASE js[q].pc # "ran"
  BY <1>2 DEF Wrote, SameRun
<1> QED BY <1>1, <1>2

LEMMA SameRunKeeps ==
  ASSUME NEW j, NEW k, NEW rs, SameRun(j, k)
  PROVE  /\ JobOK(j) => JobOK(k)
         /\ StoredOK(j, rs) => StoredOK(k, rs)
         /\ k.pc \in InStore => j.pc \in InStore /\ k.id = j.id
         /\ k # Idle => j # Idle
BY DEF SameRun, JobOK, StoredOK, InStore, Idle, AtWork, PlanOK, Proves

-----------------------------------------------------------------------------

\* Whole runs stay as they are, and no run disappears.
KeepsWhole ==
  \A i \in DOMAIN runs : i \in DOMAIN runs' /\ (runs[i].summary => runs'[i] = runs[i])

LEMMA SayStays ==
  ASSUME KeepsWhole, NEW i, NEW f
  PROVE  /\ Audited(i) => Audited(i)'
         /\ Audited(i) /\ Audited(f) => /\ AuditStatus(i, f)' = AuditStatus(i, f)
                                        /\ Missed(i, f)' = Missed(i, f)
<1>1. ASSUME NEW x, Audited(x) PROVE Audited(x)' /\ runs'[x] = runs[x]
  BY <1>1 DEF KeepsWhole, Audited
<1>2. ASSUME Audited(i), Audited(f)
      PROVE  AuditStatus(i, f)' = AuditStatus(i, f) /\ Missed(i, f)' = Missed(i, f)
  <2>1. runs'[i] = runs[i] /\ runs'[f] = runs[f]
    BY <1>1, <1>2
  <2>2. Missed(i, f)' = Missed(i, f)
    BY <2>1 DEF Missed
  <2>3. AuditStatus(i, f)' = AuditStatus(i, f)
    BY <2>1, <2>2 DEF AuditStatus
  <2> QED BY <2>2, <2>3
<1> QED BY <1>1, <1>2

LEMMA AuditKept ==
  ASSUME KeepsWhole, NEW a
  PROVE  (AuditOK(a) => AuditOK(a)') /\ (AuditRowOK(a) => AuditRowOK(a)')
BY SayStays DEF AuditOK, AuditRowOK, WhatRunsSay

LEMMA AuditsKept ==
  ASSUME AuditsOK, KeepsWhole, UNCHANGED <<audit, audits>>
  PROVE  AuditsOK'
BY AuditKept DEF AuditsOK

LEMMA RunsSame ==
  ASSUME UNCHANGED runs
  PROVE  KeepsWhole
BY DEF KeepsWhole

LEMMA JobsStep ==
  ASSUME JobsOK, NEW p \in Proc, job' = [q \in Proc |-> job'[q]],
         \A q \in Proc \ {p} : SameRun(job[q], job'[q]),
         JobOK(job'[p]), StoredOK(job'[p], runs'),
         \A q \in Proc \ {p} : job[q].pc \in InStore =>
            /\ job[q].id \in DOMAIN runs'
            /\ runs'[job[q].id].summary = runs[job[q].id].summary
            /\ runs'[job[q].id].passed = runs[job[q].id].passed
            /\ job'[p].pc \in InStore => job'[p].id # job[q].id
  PROVE  JobsOK'
<1>1. ASSUME NEW q \in Proc \ {p} PROVE JobOK(job'[q]) /\ StoredOK(job'[q], runs')
  <2>1. JobOK(job[q]) /\ StoredOK(job[q], runs) /\ SameRun(job[q], job'[q])
    BY DEF JobsOK
  <2>2. StoredOK(job[q], runs')
    BY <2>1 DEF StoredOK
  <2> QED BY <2>1, <2>2, SameRunKeeps
<1>2. ASSUME NEW q \in Proc \ {p}, job'[q].pc \in InStore
      PROVE  job[q].pc \in InStore /\ job'[q].id = job[q].id
  BY <1>2, SameRunKeeps
<1>3. ASSUME NEW q \in Proc, NEW r \in Proc, q # r, job'[q].pc \in InStore,
             job'[r].pc \in InStore
      PROVE  job'[q].id # job'[r].id
  <2>1. CASE q = p
    BY <2>1, <1>2, <1>3
  <2>2. CASE r = p
    BY <2>2, <1>2, <1>3
  <2>3. CASE q # p /\ r # p
    BY <2>3, <1>2, <1>3 DEF JobsOK
  <2> QED BY <2>1, <2>2, <2>3
<1> QED BY <1>1, <1>3 DEF JobsOK

\* A step of p's run before anything is stored.
LEMMA RunStep ==
  ASSUME SuiteInv, NEW p \in Proc, job' = [q \in Proc |-> job'[q]],
         \A q \in Proc \ {p} : SameRun(job[q], job'[q]),
         JobOK(job'[p]), job'[p].pc \notin InStore,
         UNCHANGED <<runs, audit, audits>>
  PROVE  SuiteInv'
<1>1. StoredOK(job'[p], runs')
  BY DEF StoredOK
<1>2. \A q \in Proc : job[q].pc \in InStore => job[q].id \in DOMAIN runs
  BY DEF SuiteInv, JobsOK, StoredOK
<1>3. JobsOK'
  BY <1>1, <1>2, JobsStep DEF SuiteInv
<1>4. RunsOK'
  BY DEF SuiteInv, RunsOK
<1>5. AuditsOK'
  BY AuditsKept, RunsSame DEF SuiteInv
<1> QED BY <1>3, <1>4, <1>5 DEF SuiteInv

LEMMA SetJob ==
  ASSUME NEW f, f = [q \in Proc |-> f[q]], NEW p \in Proc, NEW g, g = [f EXCEPT ![p] = g[p]]
  PROVE  g = [q \in Proc |-> g[q]] /\ \A q \in Proc \ {p} : SameRun(f[q], g[q])
BY DEF SameRun

\* As SetJob, where the step also wrote reports.
LEMMA SetJobWrote ==
  ASSUME JobsOK, NEW p \in Proc, NEW k, NEW fs, JobOK(k),
         job' = Wrote(fs, [job EXCEPT ![p] = k])
  PROVE  /\ job' = [q \in Proc |-> job'[q]]
         /\ \A q \in Proc \ {p} : SameRun(job[q], job'[q])
         /\ SameRun(k, job'[p])
<1> DEFINE g == [job EXCEPT ![p] = k]
<1>1. g[p] = k /\ \A q \in Proc \ {p} : g[q] = job[q]
  BY DEF JobsOK
<1>2. \A q \in Proc : JobOK(g[q])
  BY <1>1 DEF JobsOK
<1> HIDE DEF g
<1>3. job' = Wrote(fs, g)
  BY DEF g
<1>4. job' = [q \in Proc |-> job'[q]]
  BY <1>3 DEF Wrote
<1>5. \A q \in Proc : SameRun(g[q], job'[q])
  BY <1>2, <1>3, WroteIsSame
<1> QED BY <1>1, <1>4, <1>5

-----------------------------------------------------------------------------

LEMMA SuiteInitSound == SuiteInit => SuiteInv
<1> SUFFICES ASSUME SuiteInit PROVE SuiteInv
  OBVIOUS
<1>1. \A p \in Proc : job[p] = Idle /\ audit[p] = Idle
  BY DEF SuiteInit
<1>2. \A p \in Proc : job[p].pc \notin InStore
  BY <1>1 DEF Idle, InStore
<1>3. JobsOK
  BY <1>1, <1>2 DEF JobsOK, JobOK, StoredOK, SuiteInit
<1>4. RunsOK
  BY DEF SuiteInit, RunsOK
<1>5. AuditsOK
  BY <1>1 DEF AuditsOK, AuditOK, SuiteInit
<1> QED BY <1>3, <1>4, <1>5 DEF SuiteInv

\* A record's fields.
LEMMA Appended ==
  ASSUME NEW rs, RecordsOK(rs), NEW r, RecordOK(r)
  PROVE  RecordsOK(Append(rs, r))
<1> DEFINE T == {rs[i] : i \in DOMAIN rs} \cup {r}
<1>1. rs \in Seq({rs[i] : i \in DOMAIN rs})
  BY DEF RecordsOK
<1>2. rs \in Seq(T)
  <2> DEFINE U == {rs[i] : i \in DOMAIN rs}
  <2>1. rs \in Seq(U) /\ U \subseteq T
    BY <1>1
  <2> HIDE DEF U, T
  <2> QED BY <2>1
<1>3. r \in T
  OBVIOUS
<1> HIDE DEF T
<1>4. /\ Append(rs, r) \in Seq(T) /\ Len(Append(rs, r)) = Len(rs) + 1 /\ Len(rs) \in Nat
      /\ \A i \in 1..Len(rs) : Append(rs, r)[i] = rs[i]
      /\ Append(rs, r)[Len(rs) + 1] = r
  BY <1>2, <1>3
<1>5. \A i \in 1..Len(Append(rs, r)) : RecordOK(Append(rs, r)[i])
  BY <1>4 DEF RecordsOK
<1>6. ASSUME NEW s \in Seq(T) PROVE s \in Seq({s[i] : i \in DOMAIN s})
  <2> DEFINE U == {s[i] : i \in DOMAIN s}
  <2>1. Len(s) \in Nat /\ DOMAIN s = 1..Len(s) /\ \A i \in 1..Len(s) : s[i] \in U
    BY <1>6
  <2> HIDE DEF U
  <2>2. s \in [1..Len(s) -> U]
    BY <2>1, <1>6
  <2>3. s \in Seq(U)
    BY <2>1, <2>2, SeqDef
  <2> QED BY <2>3 DEF U
<1> QED BY <1>4, <1>5, <1>6 DEF RecordsOK

LEMMA Replaced ==
  ASSUME NEW rs, RecordsOK(rs), NEW n, NEW r, n \in DOMAIN rs => RecordOK(r)
  PROVE  RecordsOK([rs EXCEPT ![n] = r])
<1> DEFINE s == [rs EXCEPT ![n] = r]  U == {s[i] : i \in DOMAIN s}
<1>0. rs \in Seq({rs[i] : i \in DOMAIN rs})
  BY DEF RecordsOK
<1>1. Len(rs) \in Nat /\ DOMAIN rs = 1..Len(rs)
  BY <1>0
<1>2. s = [i \in 1..Len(rs) |-> s[i]] /\ DOMAIN s = 1..Len(rs)
  BY <1>0, <1>1
<1>3. \A i \in 1..Len(rs) : s[i] \in U
  BY <1>2
<1>4. \A i \in 1..Len(rs) : s[i] = IF i = n THEN r ELSE rs[i]
  BY <1>1
<1> HIDE DEF U, s
<1>5. s \in [1..Len(rs) -> U]
  BY <1>2, <1>3
<1>6. s \in Seq(U) /\ Len(s) = Len(rs)
  BY <1>1, <1>5, SeqDef
<1>7. \A i \in 1..Len(s) : RecordOK(s[i])
  BY <1>1, <1>4, <1>6 DEF RecordsOK
<1> QED BY <1>6, <1>7 DEF RecordsOK, s, U

LEMMA EditSound == SuiteInv /\ Edit => SuiteInv'
<1> SUFFICES ASSUME SuiteInv, Edit PROVE SuiteInv'
  OBVIOUS
<1>1. UNCHANGED <<job, runs, audit, audits>>
  BY DEF Edit
<1>2. JobsOK' /\ RunsOK'
  BY <1>1 DEF SuiteInv, JobsOK, RunsOK
<1>3. AuditsOK'
  BY <1>1, AuditsKept, RunsSame DEF SuiteInv
<1> QED BY <1>2, <1>3 DEF SuiteInv

LEMMA PrepareSound ==
  ASSUME SuiteInv, WorldOK, NEW p \in Proc, NEW scope, NEW nodes \in Impacts, NEW static,
         Prepare(p, scope, nodes, static)
  PROVE  SuiteInv'
<1> DEFINE selection == SelectionOf(static, nodes)
           plan == ExecutionRequests(scope, selection, Targets,
                        MergedBindings(Binding, {}), PresentAt[tree])
           k == [pc |-> "next", tree |-> tree, requested |-> scope, scope |-> plan.scope,
                 impact |-> nodes, selected |-> selection.selected,
                 requests |-> plan.requests, records |-> <<>>, stale |-> {}, id |-> None]
<1>1. job' = [job EXCEPT ![p] = k] /\ UNCHANGED <<runs, audit, audits>>
  BY DEF Prepare
<1>2. /\ k.pc = "next" /\ JobFields \subseteq DOMAIN k /\ k.records = <<>>
      /\ k.scope = plan.scope /\ k.requests = plan.requests /\ k.tree = tree
      /\ k.impact = nodes
  BY DEF JobFields
<1> HIDE DEF k
<1>6. Proves(k)
  <2> DEFINE historical == HistoricalTests(obs, misses, nodes)
             s == LiveSelection(static, {}, historical, Merged, Need, PresentAt[tree])
             r == ExecutionRequests(scope, s, Targets, Merged, PresentAt[tree])
  <2>1. plan = r
    BY DEF SelectionOf, Merged
  <2> HIDE DEF historical, plan
  <2>2. r.scope = "impacted" =>
           \A n \in Need : \E b \in CaseBindings(Binding, PresentAt[tree]) :
             /\ n.id \in b.obligations
             /\ \/ b.path \in BrowserPath
                \/ \E i \in 1..Len(r.requests) : b.path \in Range(r.requests[i].tests)
    BY ReducedPlan DEF WorldOK
  <2> HIDE DEF r
  <2> QED BY <1>2, <2>1, <2>2 DEF Proves
<1>3. RecordsOK(<<>>)
  <2>1. <<>> \in Seq({<<>>[i] : i \in DOMAIN <<>>}) /\ Len(<<>>) = 0
    OBVIOUS
  <2> QED BY <2>1 DEF RecordsOK
<1>7. OfTargets(plan.requests)
  <2> HIDE DEF selection
  <2> QED BY PlanHas DEF WorldOK, Merged
<1>4. JobOK(k)
  <2> HIDE DEF plan
  <2>1. IsFiniteSet(nodes)
    BY SuiteAssumption
  <2> QED BY <1>2, <1>3, <1>6, <1>7, <2>1 DEF JobOK, AtWork, PlanOK
<1>5. job'[p] = k /\ job' = [q \in Proc |-> job'[q]]
      /\ \A q \in Proc \ {p} : SameRun(job[q], job'[q])
  BY <1>1 DEF SuiteInv, JobsOK, SameRun
<1> QED BY <1>1, <1>2, <1>4, <1>5, RunStep DEF InStore

LEMMA AtWorkIs ==
  ASSUME NEW j, JobOK(j), j.pc # "idle"
  PROVE  /\ j # Idle /\ j.pc \in AtWork /\ JobFields \subseteq DOMAIN j
         /\ RecordsOK(j.records) /\ PlanOK(j)
         /\ j.pc = "ran" => Len(j.records) \in 1..Len(j.requests)
BY DEF JobOK, Idle

\* What the functional update of a job's fields is.
LEMMA RanJob ==
  ASSUME NEW j, JobFields \subseteq DOMAIN j, NEW s, NEW r
  PROVE  LET k == [j EXCEPT !.pc = "ran", !.stale = s, !.records = Append(@, r)]
         IN  GoesOn(j, k, "ran", Append(j.records, r), j.id)
BY DEF GoesOn, JobFields

LEMMA AttachedJob ==
  ASSUME NEW j, JobFields \subseteq DOMAIN j, NEW s, NEW n, NEW r
  PROVE  LET k == [j EXCEPT !.pc = "attached", !.stale = s, !.records = r]
         IN  GoesOn(j, k, "attached", r, j.id)
BY DEF GoesOn, JobFields

LEMMA MovedJob ==
  ASSUME NEW j, JobFields \subseteq DOMAIN j, NEW pc
  PROVE  GoesOn(j, [j EXCEPT !.pc = pc], pc, j.records, j.id)
BY DEF GoesOn, JobFields

LEMMA StoredJob ==
  ASSUME NEW j, JobFields \subseteq DOMAIN j, NEW pc, NEW id
  PROVE  GoesOn(j, [j EXCEPT !.pc = pc, !.id = id], pc, j.records, id)
BY DEF GoesOn, JobFields

LEMMA GoesOnOK ==
  ASSUME NEW j, NEW k, NEW pc \in AtWork, NEW rs, NEW id, GoesOn(j, k, pc, rs, id),
         RecordsOK(rs), PlanOK(j), pc = "ran" => Len(rs) \in 1..Len(j.requests)
  PROVE  JobOK(k) /\ k.pc = pc
BY DEF GoesOn, JobOK, PlanOK, Proves

LEMMA InvokedIsFinite ==
  ASSUME WorldOK, NEW p
  PROVE  IsFiniteSet(Invoked(p))
<1>1. Invoked(p) \subseteq PresentAt[tree]
  BY DEF Invoked
<1> QED BY <1>1, FS_Subset, SuiteAssumption DEF WorldOK

\* The record a request leaves: it passes only when none of its own cases failed.
LEMMA ExecuteSound ==
  ASSUME SuiteInv, WorldOK, NEW p \in Proc, NEW settled, NEW ending,
         Execute(p, settled, ending)
  PROVE  SuiteInv'
<1> DEFINE failed  == Invoked(p) \cap broken
           young   == IF settled THEN {} ELSE recent
           before  == ClearedFiles({Cwd(p)})
           fresh   == IF ending = "killed" THEN {}
                      ELSE {<<Cwd(p), n>> : n \in Request(p).target.reports}
           stdout == IF Request(p).target.stdout /\ ending # "killed"
                     THEN {[test |-> t, fail |-> t \in broken] : t \in Invoked(p)}
                     ELSE {}
           stale == {f \in Report \ young : before[f] # None}
           record == [tests  |-> Request(p).tests,
                      passed |-> ending = "lenient" \/ (ending = "exit" /\ failed = {}),
                      error  |-> ending = "killed",
                      cases  |-> stdout,
                      covers |-> <<>>]
           k == [job[p] EXCEPT !.pc = "ran", !.stale = stale, !.records = Append(@, record)]
<1>1. job[p].pc = "next" /\ UNCHANGED <<runs, audit, audits>>
  BY DEF Execute
<1>0. ending = "lenient" => ~ Request(p).target.stdout
  BY DEF Execute
<1>2. JobOK(job[p]) /\ job = [q \in Proc |-> job[q]]
  BY DEF SuiteInv, JobsOK
<1>3. job[p] # Idle /\ JobFields \subseteq DOMAIN job[p] /\ RecordsOK(job[p].records) /\ PlanOK(job[p])
  BY <1>1, <1>2, AtWorkIs
<1>4. job' = Wrote(fresh, [job EXCEPT ![p].pc = "ran", ![p].stale = stale,
                                        ![p].records = Append(@, record)])
  BY DEF Execute
<1>5. [job EXCEPT ![p].pc = "ran", ![p].stale = stale, ![p].records = Append(@, record)]
        = [job EXCEPT ![p] = k]
  <2> HIDE DEF stale, record
  <2> QED BY <1>2
<1>11. IsFiniteSet(stdout)
  <2> DEFINE f == [t \in Invoked(p) |-> [test |-> t, fail |-> t \in broken]]
             T == {[test |-> t, fail |-> t \in broken] : t \in Invoked(p)}
  <2>1. IsFiniteSet(Invoked(p))
    BY InvokedIsFinite
  <2>2. f \in Surjection(Invoked(p), T)
    BY DEF Surjection
  <2>3. IsFiniteSet(T)
    <3> HIDE DEF f, T
    <3> QED BY <2>1, <2>2, FS_Surjection
  <2> QED BY <2>3, FS_EmptySet
<1>6. RecordOK(record)
  <2>1. CASE ending = "killed"
    BY <2>1, <1>11 DEF RecordOK, RecordFields
  <2>2. CASE ending # "killed" /\ record.passed
    <3>1. ASSUME NEW c \in stdout PROVE ~ c.fail
      <4>1. PICK t \in Invoked(p) : c = [test |-> t, fail |-> t \in broken]
        BY <3>1
      <4>2. ending # "lenient"
        BY <1>0, <3>1
      <4>3. failed = {}
        BY <2>2, <4>2
      <4>4. t \notin broken
        BY <4>3
      <4> QED BY <4>1, <4>4
    <3>2. Failed(stdout) = {}
      BY <3>1 DEF Failed
    <3> QED BY <3>2, <1>11 DEF RecordOK, RecordFields
  <2>3. CASE ~ record.passed
    BY <2>3, <1>11 DEF RecordOK, RecordFields
  <2> QED BY <2>1, <2>2, <2>3
<1> HIDE DEF record, stale, fresh
<1>7. GoesOn(job[p], k, "ran", Append(job[p].records, record), job[p].id)
  BY <1>3, RanJob
<1>12. Len(Append(job[p].records, record)) \in 1..Len(job[p].requests)
  <2>1. /\ Len(job[p].records) < Len(job[p].requests) /\ Len(job[p].requests) \in Nat
        /\ job[p].records \in Seq({job[p].records[i] : i \in DOMAIN job[p].records})
    BY <1>3 DEF Execute, PlanOK, OfTargets, RecordsOK
  <2> QED BY <2>1
<1>8. JobOK(k) /\ k.pc = "ran"
  <2> DEFINE j == job[p]  rs == Append(j.records, record)
  <2>1. RecordsOK(rs)
    BY <1>3, <1>6, Appended
  <2>2. GoesOn(j, k, "ran", rs, j.id) /\ PlanOK(j) /\ Len(rs) \in 1..Len(j.requests)
    BY <1>3, <1>7, <1>12
  <2> HIDE DEF j, rs, k
  <2> QED BY <2>1, <2>2, GoesOnOK DEF AtWork
<1> HIDE DEF k
<1>9. /\ job' = [q \in Proc |-> job'[q]]
      /\ \A q \in Proc \ {p} : SameRun(job[q], job'[q])
      /\ SameRun(k, job'[p])
  <2>1. job' = Wrote(fresh, [job EXCEPT ![p] = k])
    BY <1>4, <1>5
  <2> QED BY <2>1, <1>8, SetJobWrote DEF SuiteInv
<1>10. JobOK(job'[p]) /\ job'[p].pc \notin InStore
  <2>1. JobOK(job'[p])
    BY <1>8, <1>9, SameRunKeeps
  <2>2. job'[p].pc = "ran"
    BY <1>8, <1>9 DEF SameRun
  <2> QED BY <2>1, <2>2 DEF InStore
<1> QED BY <1>1, <1>9, <1>10, RunStep

\* The reports of a directory add finitely many cases.
LEMMA AddedIsFinite ==
  ASSUME WorldOK, NEW p, JobOK(job[p]), job[p].pc = "ran"
  PROVE  IsFiniteSet(UNION {CasesOf(files[<<RanCwd(p), n>>]) : n \in Fresh(p) \cap JunitNames})
<1> DEFINE In(n) == files[<<RanCwd(p), n>>]
           Junits == Fresh(p) \cap JunitNames
           f == [n \in Junits |-> CasesOf(In(n))]
           S == {CasesOf(In(n)) : n \in Junits}
<1>1. RanCwd(p) \in Cwds
  <2> DEFINE n == Len(job[p].records)  rs == job[p].requests
  <2>1. n \in 1..Len(rs) /\ rs[n].target \in Range(Targets)
    BY AtWorkIs DEF PlanOK, OfTargets
  <2>2. PICK i \in DOMAIN Targets : Targets[i] = rs[n].target
    BY <2>1, RangeHas
  <2>3. DOMAIN Targets = 1..Len(Targets)
    BY SuiteAssumption
  <2> QED BY <2>2, <2>3 DEF RanCwd, Cwds
<1>2. ASSUME NEW n \in Junits PROVE IsFiniteSet(CasesOf(In(n)))
  <2> DEFINE e == <<RanCwd(p), n>>  c == files[e]
             g == [t \in c.tests |-> [test |-> t, fail |-> t \in c.failed]]
  <2>1. n \in Range(ReportNames) /\ files[e] # None /\ n \in JunitNames
    BY DEF Fresh
  <2>2. e \in Report /\ e[2] = n
    BY <1>1, <2>1 DEF Report
  <2>3. IsFiniteSet(c.tests)
    BY <2>1, <2>2 DEF WorldOK, FilesOK
  <2> HIDE DEF c
  <2>4. g \in Surjection(c.tests, CasesOf(c))
    BY DEF Surjection, CasesOf
  <2>5. IsFiniteSet(CasesOf(c))
    <3> HIDE DEF g
    <3> QED BY <2>3, <2>4, FS_Surjection
  <2> QED BY <2>5 DEF c
<1>3. IsFiniteSet(Junits)
  <2>1. IsFiniteSet(JunitNames)
    <3>1. IsFiniteSet({"junit"}) /\ JunitNames = {"junit"} \cup {"reports"}
      BY FS_Singleton DEF JunitNames
    <3> QED BY <3>1, FS_AddElement
  <2> QED BY <2>1, FS_Subset
<1>4. f \in Surjection(Junits, S)
  BY DEF Surjection
<1>5. IsFiniteSet(S)
  <2> HIDE DEF f, Junits, S
  <2> QED BY <1>3, <1>4, FS_Surjection
<1>6. \A T \in S : IsFiniteSet(T)
  BY <1>2
<1> HIDE DEF S
<1>7. IsFiniteSet(UNION S)
  BY <1>5, <1>6, FS_UNION
<1> QED BY <1>7 DEF S

\* The reports found may add failed cases only to a record that no longer passes.
LEMMA AttachSound ==
  ASSUME SuiteInv, WorldOK, NEW p \in Proc, NEW malformed \in BOOLEAN, Attach(p, malformed)
  PROVE  SuiteInv'
<1> DEFINE In(n) == files[<<RanCwd(p), n>>]
           Junits == Fresh(p) \cap JunitNames
           Covers == SelectSeq(ReportNames, LAMBDA n : n \in Fresh(p) \cap CoverNames
                                  /\ ~ (malformed /\ In(n) = Torn))
           bad == \/ \E n \in Junits : In(n).failed # {}
                  \/ malformed /\ \E n \in Fresh(p) : In(n) = Torn
           covers == [i \in 1..Len(Covers) |-> In(Covers[i])]
           added == UNION {CasesOf(In(n)) : n \in Junits}
           r == Latest(p)
           record == [tests |-> r.tests, passed |-> r.passed /\ ~ bad,
                      error |-> r.error \/ bad, cases |-> r.cases \cup added,
                      covers |-> covers]
           n == Len(job[p].records)
           rs == [job[p].records EXCEPT ![n] = record]
           k == [job[p] EXCEPT !.pc = "attached", !.stale = {}, !.records = rs]
<1>1. job[p].pc = "ran" /\ UNCHANGED <<runs, audit, audits>>
  BY DEF Attach
<1>2. JobOK(job[p]) /\ job = [q \in Proc |-> job[q]]
  BY DEF SuiteInv, JobsOK
<1>3. job[p] # Idle /\ JobFields \subseteq DOMAIN job[p] /\ RecordsOK(job[p].records) /\ PlanOK(job[p])
  BY <1>1, <1>2, AtWorkIs
<1>4. job' = [job EXCEPT ![p].pc = "attached", ![p].stale = {}, ![p].records[n] = record]
  BY DEF Attach
<1>5. ASSUME ~ bad, NEW c \in added PROVE ~ c.fail
  <2>1. PICK m \in Junits : c \in CasesOf(In(m))
    BY <1>5
  <2>2. In(m).failed = {}
    BY <1>5, <2>1
  <2>3. PICK t \in In(m).tests : c = [test |-> t, fail |-> t \in In(m).failed]
    BY <2>1 DEF CasesOf
  <2> QED BY <2>2, <2>3
<1>12. IsFiniteSet(added)
  BY <1>1, <1>2, AddedIsFinite
<1> HIDE DEF bad, added, covers
<1>6. n \in DOMAIN job[p].records => RecordOK(record)
  <2> SUFFICES ASSUME n \in DOMAIN job[p].records PROVE RecordOK(record)
    OBVIOUS
  <2>1. RecordOK(r)
    BY <1>3 DEF RecordsOK, Latest
  <2>2. record.passed = (r.passed /\ ~ bad) /\ record.cases = r.cases \cup added
        /\ RecordFields \subseteq DOMAIN record
    BY DEF RecordFields
  <2> HIDE DEF record
  <2>3. record.passed \in BOOLEAN
    BY <2>2
  <2>4. ASSUME record.passed PROVE Failed(record.cases) = {}
    <3>1. Failed(r.cases) = {} /\ \A c \in added : ~ c.fail
      BY <2>1, <2>2, <2>4, <1>5 DEF RecordOK
    <3> QED BY <2>2, <3>1 DEF Failed
  <2>5. IsFiniteSet(record.cases)
    BY <2>1, <2>2, <1>12, FS_Union DEF RecordOK
  <2> QED BY <2>2, <2>3, <2>4, <2>5 DEF RecordOK
<1> HIDE DEF record
<1>7. job' = [job EXCEPT ![p] = k]
  <2> HIDE DEF n
  <2> QED BY <1>4, <1>2, <1>3 DEF JobFields
<1>8. RecordsOK(rs)
  <2> HIDE DEF n
  <2> QED BY <1>3, <1>6, Replaced
<1> HIDE DEF rs
<1>9. GoesOn(job[p], k, "attached", rs, job[p].id)
  BY <1>3, AttachedJob
<1> HIDE DEF k
<1>10. JobOK(k) /\ k.pc = "attached"
  <2> DEFINE j == job[p]
  <2>1. GoesOn(j, k, "attached", rs, j.id) /\ PlanOK(j) /\ RecordsOK(rs)
    BY <1>3, <1>8, <1>9
  <2> HIDE DEF j
  <2>2. "attached" \in AtWork
    BY DEF AtWork
  <2> QED BY <2>1, <2>2, GoesOnOK
<1>11. job'[p] = k /\ job' = [q \in Proc |-> job'[q]]
       /\ \A q \in Proc \ {p} : SameRun(job[q], job'[q])
  BY <1>2, <1>7 DEF SameRun
<1> QED BY <1>1, <1>10, <1>11, RunStep DEF InStore

\* A step that only moves p's run from one point to the next.
LEMMA MoveStep ==
  ASSUME SuiteInv, NEW p \in Proc, job[p].pc \in AtWork, NEW pc \in AtWork \ (InStore \cup {"ran"}),
         job' = [job EXCEPT ![p].pc = pc], UNCHANGED <<runs, audit, audits>>
  PROVE  SuiteInv'
<1>1. JobOK(job[p]) /\ job = [q \in Proc |-> job[q]]
  BY DEF SuiteInv, JobsOK
<1>2. JobFields \subseteq DOMAIN job[p] /\ RecordsOK(job[p].records) /\ PlanOK(job[p])
  BY <1>1, AtWorkIs DEF AtWork
<1> DEFINE k == [job[p] EXCEPT !.pc = pc]
<1>3. JobOK(k) /\ k.pc = pc
  <2>1. GoesOn(job[p], k, pc, job[p].records, job[p].id)
    BY <1>2, MovedJob
  <2> HIDE DEF k
  <2> QED BY <2>1, <1>2, GoesOnOK
<1>4. job' = [job EXCEPT ![p] = k]
  BY <1>1
<1> HIDE DEF k
<1>5. job'[p] = k /\ job' = [q \in Proc |-> job'[q]]
      /\ \A q \in Proc \ {p} : SameRun(job[q], job'[q])
  BY <1>1, <1>4 DEF SameRun
<1> QED BY <1>3, <1>5, RunStep

LEMMA MoveWroteStep ==
  ASSUME SuiteInv, NEW p \in Proc, job[p].pc \in AtWork,
         NEW pc \in AtWork \ (InStore \cup {"ran"}), NEW fs,
         job' = Wrote(fs, [job EXCEPT ![p].pc = pc]), UNCHANGED <<runs, audit, audits>>
  PROVE  SuiteInv'
<1>1. JobOK(job[p]) /\ job = [q \in Proc |-> job[q]]
  BY DEF SuiteInv, JobsOK
<1>2. JobFields \subseteq DOMAIN job[p] /\ RecordsOK(job[p].records) /\ PlanOK(job[p])
  BY <1>1, AtWorkIs DEF AtWork
<1> DEFINE k == [job[p] EXCEPT !.pc = pc]
<1>3. JobOK(k) /\ k.pc = pc
  <2>1. GoesOn(job[p], k, pc, job[p].records, job[p].id)
    BY <1>2, MovedJob
  <2> HIDE DEF k
  <2> QED BY <2>1, <1>2, GoesOnOK
<1>4. [job EXCEPT ![p].pc = pc] = [job EXCEPT ![p] = k]
  BY <1>1
<1> HIDE DEF k
<1>5. /\ job' = [q \in Proc |-> job'[q]]
      /\ \A q \in Proc \ {p} : SameRun(job[q], job'[q])
      /\ SameRun(k, job'[p])
  <2>1. job' = Wrote(fs, [job EXCEPT ![p] = k])
    BY <1>4
  <2> QED BY <2>1, <1>3, SetJobWrote DEF SuiteInv
<1>6. JobOK(job'[p]) /\ job'[p].pc = pc
  BY <1>3, <1>5, SameRunKeeps DEF SameRun
<1> QED BY <1>5, <1>6, RunStep

LEMMA PublishSound ==
  ASSUME SuiteInv, NEW p \in Proc, Truncate(p) \/ Publish(p) \/ PublishNothing(p)
  PROVE  SuiteInv'
<1>1. CASE Truncate(p)
  <2>1. /\ job' = Wrote({Published}, [job EXCEPT ![p].pc = "publishing"])
        /\ UNCHANGED <<runs, audit, audits>> /\ job[p].pc \in AtWork
        /\ "publishing" \in AtWork \ (InStore \cup {"ran"})
    BY <1>1 DEF Truncate, AtWork, InStore
  <2> QED BY <2>1, MoveWroteStep
<1>2. CASE Publish(p)
  <2>1. /\ job' = Wrote({Published}, [job EXCEPT ![p].pc = "next"])
        /\ UNCHANGED <<runs, audit, audits>> /\ job[p].pc \in AtWork
        /\ "next" \in AtWork \ (InStore \cup {"ran"})
    BY <1>2 DEF Publish, AtWork, InStore
  <2> QED BY <2>1, MoveWroteStep
<1>3. CASE PublishNothing(p)
  <2>1. /\ job' = [job EXCEPT ![p].pc = "next"]
        /\ UNCHANGED <<runs, audit, audits>> /\ job[p].pc \in AtWork
        /\ "next" \in AtWork \ (InStore \cup {"ran"})
    BY <1>3 DEF PublishNothing, AtWork, InStore
  <2> QED BY <2>1, MoveStep
<1> QED BY <1>1, <1>2, <1>3

\* The row of a run says that it passed when every record did.
LEMMA PutRunSound ==
  ASSUME SuiteInv, NEW p \in Proc, NEW id, PutRun(p, id)
  PROVE  SuiteInv'
<1> DEFINE row == [tree |-> tree, requested |-> job[p].requested, scope |-> job[p].scope,
                   impact |-> job[p].impact, selected |-> job[p].selected,
                   passed |-> \A i \in 1..Len(job[p].records) :
                                  job[p].records[i].passed /\ ~ job[p].records[i].error,
                   cases |-> {}, summary |-> FALSE]
           k == [job[p] EXCEPT !.pc = "stored", !.id = id]
<1>1. /\ job[p].pc = "next" /\ id \notin DOMAIN runs
      /\ runs' = [i \in DOMAIN runs \cup {id} |-> IF i = id THEN row ELSE runs[i]]
      /\ UNCHANGED <<audit, audits>>
  BY DEF PutRun
<1>2. JobOK(job[p]) /\ job = [q \in Proc |-> job[q]]
  BY DEF SuiteInv, JobsOK
<1>3. JobFields \subseteq DOMAIN job[p] /\ RecordsOK(job[p].records) /\ PlanOK(job[p])
  BY <1>1, <1>2, AtWorkIs
<1>4. job' = [job EXCEPT ![p] = k]
  <2>1. job' = [job EXCEPT ![p].pc = "stored", ![p].id = id]
    BY DEF PutRun
  <2> QED BY <2>1, <1>2
<1>5. GoesOn(job[p], k, "stored", job[p].records, id)
  BY <1>3, StoredJob
<1>6. /\ RowFields \subseteq DOMAIN row /\ row.cases = {} /\ row.summary = FALSE
      /\ row.impact = job[p].impact
      /\ row.passed => \A i \in 1..Len(job[p].records) : job[p].records[i].passed
  BY DEF RowFields
<1> HIDE DEF row, k
<1>7. JobOK(k) /\ k.pc = "stored" /\ k.id = id /\ k.records = job[p].records
  BY <1>3, <1>5, GoesOnOK DEF AtWork, GoesOn
<1>8. job'[p] = k /\ job' = [q \in Proc |-> job'[q]]
      /\ \A q \in Proc \ {p} : SameRun(job[q], job'[q])
  BY <1>2, <1>4 DEF SameRun
<1>9. /\ id \in DOMAIN runs' /\ runs'[id] = row /\ DOMAIN runs' = DOMAIN runs \cup {id}
      /\ \A i \in DOMAIN runs : i \in DOMAIN runs' /\ i # id /\ runs'[i] = runs[i]
      /\ runs' = [i \in DOMAIN runs' |-> runs'[i]]
  BY <1>1
<1>10. StoredOK(k, runs')
  BY <1>6, <1>7, <1>9 DEF StoredOK
<1>11. \A q \in Proc : job[q].pc \in InStore => job[q].id \in DOMAIN runs
  BY DEF SuiteInv, JobsOK, StoredOK
<1>12. JobsOK'
  <2>1. JobOK(job'[p]) /\ StoredOK(job'[p], runs')
    BY <1>7, <1>8, <1>10
  <2>2. ASSUME NEW q \in Proc \ {p}, job[q].pc \in InStore
        PROVE  /\ job[q].id \in DOMAIN runs'
               /\ runs'[job[q].id].summary = runs[job[q].id].summary
               /\ runs'[job[q].id].passed = runs[job[q].id].passed
               /\ job'[p].id # job[q].id
    BY <2>2, <1>7, <1>8, <1>9, <1>11
  <2> QED BY <1>8, <2>1, <2>2, JobsStep DEF SuiteInv
<1>13. RowOK(row)
  BY <1>3, <1>6, FS_EmptySet DEF RowOK, Failed, PlanOK
<1>14. RunsOK'
  BY <1>9, <1>13 DEF SuiteInv, RunsOK
<1>15. AuditsOK'
  <2>1. KeepsWhole
    BY <1>9 DEF KeepsWhole
  <2> QED BY <2>1, <1>1, AuditsKept DEF SuiteInv
<1> QED BY <1>12, <1>14, <1>15 DEF SuiteInv

LEMMA ObserveSound ==
  ASSUME SuiteInv, NEW p \in Proc, Observe(p)
  PROVE  SuiteInv'
<1> DEFINE k == [job[p] EXCEPT !.pc = "observed"]
<1>1. /\ job[p].pc = "stored" /\ UNCHANGED <<runs, audit, audits>>
      /\ job' = [job EXCEPT ![p].pc = "observed"]
  BY DEF Observe
<1>2. JobOK(job[p]) /\ job = [q \in Proc |-> job[q]] /\ StoredOK(job[p], runs)
  BY DEF SuiteInv, JobsOK
<1>3. JobFields \subseteq DOMAIN job[p] /\ RecordsOK(job[p].records) /\ PlanOK(job[p])
  BY <1>1, <1>2, AtWorkIs
<1>4. job' = [job EXCEPT ![p] = k]
  BY <1>1, <1>2
<1>5. GoesOn(job[p], k, "observed", job[p].records, job[p].id)
  BY <1>3, MovedJob
<1> HIDE DEF k
<1>6. /\ JobOK(k) /\ k.pc = "observed" /\ k.records = job[p].records
      /\ k.id = job[p].id
  BY <1>3, <1>5, GoesOnOK DEF AtWork, GoesOn
<1>7. StoredOK(k, runs')
  BY <1>1, <1>2, <1>6 DEF StoredOK, InStore
<1>8. job'[p] = k /\ job' = [q \in Proc |-> job'[q]]
      /\ \A q \in Proc \ {p} : SameRun(job[q], job'[q])
  BY <1>2, <1>4 DEF SameRun
<1>9. \A q \in Proc : job[q].pc \in InStore =>
         job[q].id \in DOMAIN runs /\ (q # p => job[q].id # job[p].id)
  BY <1>1 DEF SuiteInv, JobsOK, StoredOK, InStore
<1>10. JobsOK'
  <2>1. JobOK(job'[p]) /\ StoredOK(job'[p], runs')
    BY <1>6, <1>7, <1>8
  <2>2. ASSUME NEW q \in Proc \ {p}, job[q].pc \in InStore
        PROVE  /\ job[q].id \in DOMAIN runs'
               /\ runs'[job[q].id].summary = runs[job[q].id].summary
               /\ runs'[job[q].id].passed = runs[job[q].id].passed
               /\ job'[p].id # job[q].id
    BY <2>2, <1>1, <1>6, <1>8, <1>9
  <2> QED BY <1>8, <2>1, <2>2, JobsStep DEF SuiteInv
<1>11. RunsOK'
  BY <1>1 DEF SuiteInv, RunsOK
<1>12. AuditsOK'
  BY <1>1, AuditsKept, RunsSame DEF SuiteInv
<1> QED BY <1>10, <1>11, <1>12 DEF SuiteInv

LEMMA CasesOfRecords ==
  ASSUME NEW rs, RecordsOK(rs)
  PROVE  IsFiniteSet(UNION {rs[i].cases : i \in 1..Len(rs)})
<1> DEFINE N == 1..Len(rs)
           f == [i \in N |-> rs[i].cases]
           S == {rs[i].cases : i \in N}
<1>1. IsFiniteSet(N)
  <2>1. rs \in Seq({rs[i] : i \in DOMAIN rs})
    BY DEF RecordsOK
  <2>2. Len(rs) \in Nat
    BY <2>1
  <2> QED BY <2>2, FS_Interval
<1>2. \A T \in S : IsFiniteSet(T)
  BY DEF RecordsOK, RecordOK
<1>3. f \in Surjection(N, S)
  BY DEF Surjection
<1> HIDE DEF f, N, S
<1>4. IsFiniteSet(S)
  BY <1>1, <1>3, FS_Surjection
<1>5. IsFiniteSet(UNION S)
  BY <1>2, <1>4, FS_UNION
<1> QED BY <1>5 DEF S, N

\* Cases come from the records; those of a run that passed all passed.
LEMMA PutCaseSound ==
  ASSUME SuiteInv, NEW p \in Proc, PutCase(p)
  PROVE  SuiteInv'
<1> DEFINE id == job[p].id
<1>1. /\ job[p].pc = "observed" /\ UNCHANGED <<job, audit, audits>>
      /\ \E cs \in SUBSET AllCases(p) : runs' = [runs EXCEPT ![id].cases = @ \cup cs]
  <2> DEFINE left == AllCases(p) \ runs[job[p].id].cases
             first == Min({c.test : c \in left})
             cs == {c \in left : c.test = first}
  <2>1. cs \in SUBSET AllCases(p)
    OBVIOUS
  <2>2. /\ job[p].pc = "observed" /\ UNCHANGED <<job, audit, audits>>
        /\ runs' = [runs EXCEPT ![id].cases = @ \cup cs]
    BY DEF PutCase
  <2> HIDE DEF cs
  <2> QED BY <2>1, <2>2
<1>2. PICK cs \in SUBSET AllCases(p) : runs' = [runs EXCEPT ![id].cases = @ \cup cs]
  BY <1>1
<1>3. /\ JobOK(job[p]) /\ StoredOK(job[p], runs)
      /\ runs = [i \in DOMAIN runs |-> runs[i]] /\ \A i \in DOMAIN runs : RowOK(runs[i])
  BY DEF SuiteInv, JobsOK, RunsOK
<1>4. id \in DOMAIN runs /\ runs[id].summary = FALSE /\ RowFields \subseteq DOMAIN runs[id]
  BY <1>1, <1>3 DEF StoredOK, InStore, RowOK
<1>5. RecordsOK(job[p].records)
  BY <1>1, <1>3, AtWorkIs
<1> HIDE DEF id
<1>6. /\ DOMAIN runs' = DOMAIN runs /\ runs' = [i \in DOMAIN runs' |-> runs'[i]]
      /\ \A i \in DOMAIN runs : i # id => runs'[i] = runs[i]
      /\ runs'[id] = [runs[id] EXCEPT !.cases = @ \cup cs]
  BY <1>2, <1>3, <1>4
<1>7. /\ DOMAIN runs'[id] = DOMAIN runs[id]
      /\ runs'[id].cases = runs[id].cases \cup cs
      /\ runs'[id].passed = runs[id].passed /\ runs'[id].summary = runs[id].summary
      /\ runs'[id].impact = runs[id].impact
  BY <1>4, <1>6 DEF RowFields
<1>8. ASSUME runs[id].passed PROVE Failed(runs'[id].cases) = {}
  <2>1. \A i \in 1..Len(job[p].records) : job[p].records[i].passed
    BY <1>1, <1>3, <1>8 DEF StoredOK, InStore, id
  <2>2. \A i \in 1..Len(job[p].records) : Failed(job[p].records[i].cases) = {}
    BY <2>1, <1>5 DEF RecordsOK, RecordOK
  <2>3. ASSUME NEW c \in cs PROVE ~ c.fail
    <3>1. PICK i \in 1..Len(job[p].records) : c \in job[p].records[i].cases
      BY <2>3 DEF AllCases
    <3>2. Failed(job[p].records[i].cases) = {}
      BY <2>2
    <3> QED BY <3>1, <3>2 DEF Failed
  <2>4. Failed(runs[id].cases) = {}
    BY <1>3, <1>4, <1>8 DEF RowOK
  <2> QED BY <1>7, <2>3, <2>4 DEF Failed
<1>9. RunsOK'
  <2>2. IsFiniteSet(cs)
    <3>1. IsFiniteSet(AllCases(p))
      BY <1>5, CasesOfRecords DEF AllCases
    <3> QED BY <3>1, FS_Subset
  <2>3. IsFiniteSet(runs'[id].cases)
    <3>1. IsFiniteSet(runs[id].cases)
      BY <1>3, <1>4 DEF RowOK
    <3>2. IsFiniteSet(runs[id].cases \cup cs)
      BY <2>2, <3>1, FS_Union
    <3> QED BY <1>7, <3>2
  <2>1. RowOK(runs'[id])
    BY <1>3, <1>4, <1>7, <1>8, <2>3 DEF RowOK
  <2> QED BY <2>1, <1>3, <1>6 DEF RunsOK
<1>10. AuditsOK'
  <2>1. KeepsWhole
    BY <1>4, <1>6 DEF KeepsWhole
  <2> QED BY <2>1, <1>1, AuditsKept DEF SuiteInv
<1>11. JobsOK'
  <2>1. \A q \in Proc : StoredOK(job[q], runs)
    BY DEF SuiteInv, JobsOK
  <2>2. \A q \in Proc : StoredOK(job[q], runs')
    BY <2>1, <1>6, <1>7 DEF StoredOK
  <2> QED BY <2>2, <1>1 DEF SuiteInv, JobsOK
<1> QED BY <1>9, <1>10, <1>11 DEF SuiteInv

\* Only the process that stores a run makes it whole.
LEMMA PutSummarySound ==
  ASSUME SuiteInv, NEW p \in Proc, PutSummary(p)
  PROVE  SuiteInv'
<1> DEFINE id == job[p].id
<1>1. /\ job[p].pc = "observed" /\ UNCHANGED <<audit, audits>>
      /\ runs' = [runs EXCEPT ![id].summary = TRUE]
      /\ job' = [job EXCEPT ![p] = Idle]
  BY DEF PutSummary
<1>3. /\ JobOK(job[p]) /\ StoredOK(job[p], runs) /\ job = [q \in Proc |-> job[q]]
      /\ runs = [i \in DOMAIN runs |-> runs[i]] /\ \A i \in DOMAIN runs : RowOK(runs[i])
  BY DEF SuiteInv, JobsOK, RunsOK
<1>4. id \in DOMAIN runs /\ runs[id].summary = FALSE /\ RowFields \subseteq DOMAIN runs[id]
  BY <1>1, <1>3 DEF StoredOK, InStore, RowOK
<1> HIDE DEF id
<1>6. /\ DOMAIN runs' = DOMAIN runs /\ runs' = [i \in DOMAIN runs' |-> runs'[i]]
      /\ \A i \in DOMAIN runs : i # id => runs'[i] = runs[i]
      /\ runs'[id] = [runs[id] EXCEPT !.summary = TRUE]
  BY <1>1, <1>3, <1>4
<1>7. /\ DOMAIN runs'[id] = DOMAIN runs[id]
      /\ runs'[id].cases = runs[id].cases /\ runs'[id].passed = runs[id].passed
      /\ runs'[id].impact = runs[id].impact
  BY <1>4, <1>6 DEF RowFields
<1>9. RunsOK'
  <2>1. RowOK(runs'[id])
    BY <1>3, <1>4, <1>7 DEF RowOK
  <2> QED BY <2>1, <1>3, <1>6 DEF RunsOK
<1>10. AuditsOK'
  <2>1. KeepsWhole
    BY <1>4, <1>6 DEF KeepsWhole
  <2> QED BY <2>1, <1>1, AuditsKept DEF SuiteInv
<1>11. JobsOK'
  <2>1. job'[p] = Idle /\ job' = [q \in Proc |-> job'[q]]
        /\ \A q \in Proc \ {p} : SameRun(job[q], job'[q])
    BY <1>1, <1>3 DEF SameRun
  <2>2. JobOK(job'[p]) /\ StoredOK(job'[p], runs') /\ job'[p].pc \notin InStore
    BY <2>1 DEF JobOK, StoredOK, Idle, InStore
  <2>3. ASSUME NEW q \in Proc \ {p}, job[q].pc \in InStore
        PROVE  /\ job[q].id \in DOMAIN runs'
               /\ runs'[job[q].id].summary = runs[job[q].id].summary
               /\ runs'[job[q].id].passed = runs[job[q].id].passed
    <3>1. job[q].id \in DOMAIN runs /\ job[q].id # id
      BY <2>3, <1>1 DEF SuiteInv, JobsOK, StoredOK, InStore, id
    <3> QED BY <3>1, <1>6
  <2> QED BY <2>1, <2>2, <2>3, JobsStep DEF SuiteInv
<1> QED BY <1>9, <1>10, <1>11 DEF SuiteInv

LEMMA AuditStep ==
  ASSUME SuiteInv, UNCHANGED <<job, runs>>, AuditsOK'
  PROVE  SuiteInv'
BY DEF SuiteInv, JobsOK, RunsOK

\* While the runs stay, what was audited stays true.
LEMMA SetAudit ==
  ASSUME SuiteInv, NEW p \in Proc, UNCHANGED <<job, runs>>, NEW k, AuditOK(k),
         audit' = [audit EXCEPT ![p] = k],
         \A a \in audits' : AuditRowOK(a)
  PROVE  SuiteInv'
<1>1. audit = [q \in Proc |-> audit[q]] /\ \A q \in Proc : AuditOK(audit[q])
  BY DEF SuiteInv, AuditsOK
<1>2. /\ audit' = [q \in Proc |-> audit'[q]] /\ \A q \in Proc : AuditOK(audit'[q])
  BY <1>1
<1>4. (\A q \in Proc : AuditOK(audit[q]))'
  BY <1>2 DEF AuditOK, WhatRunsSay, Audited, AuditStatus, Missed
<1>5. (\A a \in audits : AuditRowOK(a))'
  BY DEF AuditRowOK, Audited, AuditStatus, Missed
<1> QED BY <1>2, <1>4, <1>5, AuditStep DEF AuditsOK

LEMMA BeginAuditSound ==
  ASSUME SuiteInv, NEW p \in Proc, NEW i, NEW f, BeginAudit(p, i, f)
  PROVE  SuiteInv'
<1> DEFINE status == AuditStatus(i, f)
           missed == IF status = "not_reduced" THEN {} ELSE Missed(i, f)
           k == [pc |-> "found", impacted |-> i, full |-> f, status |-> status,
                 missed |-> missed, left |-> missed \cap PresentAt[tree],
                 learned |-> missed \cap PresentAt[tree]]
<1>1. /\ audit' = [audit EXCEPT ![p] = k] /\ UNCHANGED <<job, runs, audits>>
      /\ Audited(i) /\ Audited(f)
  BY DEF BeginAudit, ShadowRuns
<1>2. WhatRunsSay(status, missed, i, f)
  BY <1>1 DEF WhatRunsSay
<1>3. AuditOK(k)
  <2> HIDE DEF status, missed
  <2> QED BY <1>2 DEF AuditOK, AuditFields
<1>4. \A a \in audits' : AuditRowOK(a)
  BY <1>1 DEF SuiteInv, AuditsOK
<1> HIDE DEF k
<1> QED BY <1>1, <1>3, <1>4, SetAudit

LEMMA PutAuditSound ==
  ASSUME SuiteInv, NEW p \in Proc, PutAudit(p)
  PROVE  SuiteInv'
<1> DEFINE a == audit[p]
           row == [impacted |-> a.impacted, full |-> a.full, status |-> a.status,
                   missed |-> Cardinality(a.missed), learned |-> Cardinality(a.learned),
                   done |-> FALSE]
           k == [a EXCEPT !.pc = "stored"]
<1>1. /\ a.pc = "found" /\ UNCHANGED <<job, runs>>
      /\ audits' \subseteq audits \cup {row}
      /\ audit' = [audit EXCEPT ![p] = k] \/ audit' = [audit EXCEPT ![p] = Idle]
  BY DEF PutAudit
<1>2. AuditOK(a) /\ a # Idle
  BY <1>1 DEF SuiteInv, AuditsOK, Idle
<1>3. /\ AuditFields \subseteq DOMAIN a
      /\ WhatRunsSay(a.status, a.missed, a.impacted, a.full)
  BY <1>2 DEF AuditOK
<1> HIDE DEF a
<1>4. AuditRowOK(row)
  BY <1>3 DEF WhatRunsSay, AuditRowOK
<1>5. AuditOK(k)
  <2>1. /\ DOMAIN k = DOMAIN a /\ k.pc = "stored" /\ k.status = a.status
        /\ k.missed = a.missed /\ k.impacted = a.impacted /\ k.full = a.full
    BY <1>3 DEF AuditFields
  <2> HIDE DEF k
  <2> QED BY <2>1, <1>3 DEF AuditOK
<1>6. AuditOK(Idle)
  BY DEF AuditOK
<1>7. \A b \in audits' : AuditRowOK(b)
  BY <1>1, <1>4 DEF SuiteInv, AuditsOK
<1> HIDE DEF k, row
<1> QED BY <1>1, <1>5, <1>6, <1>7, SetAudit

LEMMA LearnMissSound ==
  ASSUME SuiteInv, NEW p \in Proc, LearnMiss(p)
  PROVE  SuiteInv'
<1> DEFINE a == audit[p]
           t == Min(a.left)
           k == [a EXCEPT !.left = @ \ {t}]
<1>1. /\ a.pc = "stored" /\ UNCHANGED <<job, runs, audits>>
      /\ audit' = [audit EXCEPT ![p].left = @ \ {t}]
  BY DEF LearnMiss
<1>2. AuditOK(a) /\ a # Idle /\ audit = [q \in Proc |-> audit[q]]
  BY <1>1 DEF SuiteInv, AuditsOK, Idle
<1>3. /\ AuditFields \subseteq DOMAIN a
      /\ WhatRunsSay(a.status, a.missed, a.impacted, a.full)
  BY <1>2 DEF AuditOK
<1>4. audit' = [audit EXCEPT ![p] = k]
  <2> HIDE DEF t
  <2> QED BY <1>1, <1>2
<1> HIDE DEF a, t
<1>5. AuditOK(k)
  <2>1. /\ DOMAIN k = DOMAIN a /\ k.pc = a.pc /\ k.status = a.status
        /\ k.missed = a.missed /\ k.impacted = a.impacted /\ k.full = a.full
    BY <1>3 DEF AuditFields
  <2> HIDE DEF k
  <2> QED BY <2>1, <1>1, <1>3 DEF AuditOK
<1>7. \A b \in audits' : AuditRowOK(b)
  BY <1>1 DEF SuiteInv, AuditsOK
<1> HIDE DEF k
<1> QED BY <1>1, <1>4, <1>5, <1>7, SetAudit

LEMMA FinishAuditSound ==
  ASSUME SuiteInv, NEW p \in Proc, FinishAudit(p)
  PROVE  SuiteInv'
<1>1. /\ UNCHANGED <<job, runs>> /\ audit' = [audit EXCEPT ![p] = Idle]
      /\ \A b \in audits' : b \in audits \/ \E a \in audits : b = [a EXCEPT !.done = TRUE]
  BY DEF FinishAudit
<1>2. \A a \in audits : AuditRowOK(a)
  BY DEF SuiteInv, AuditsOK
<1>3. ASSUME NEW a, AuditRowOK(a) PROVE AuditRowOK([a EXCEPT !.done = TRUE])
  <2> DEFINE b == [a EXCEPT !.done = TRUE]
  <2>1. /\ DOMAIN b = DOMAIN a /\ b.status = a.status
        /\ b.missed = a.missed /\ b.impacted = a.impacted /\ b.full = a.full
    BY <1>3 DEF AuditRowOK
  <2> HIDE DEF b
  <2>2. AuditRowOK(b)
    BY <2>1, <1>3 DEF AuditRowOK
  <2> QED BY <2>2 DEF b
<1>4. \A b \in audits' : AuditRowOK(b)
  BY <1>1, <1>2, <1>3
<1>5. AuditOK(Idle)
  BY DEF AuditOK
<1> QED BY <1>1, <1>4, <1>5, SetAudit

\* Reports are only written for the tests of the tree, or removed.
LEMMA ClearedAreOK ==
  ASSUME FilesOK, NEW dirs
  PROVE  \A f \in Report : f[2] \in JunitNames /\ ClearedFiles(dirs)[f] # None
            => IsFiniteSet(ClearedFiles(dirs)[f].tests)
BY DEF FilesOK, ClearedFiles

LEMMA WorldStays == WorldOK /\ [SuiteNext]_suiteVars => WorldOK'
<1> SUFFICES ASSUME WorldOK, [SuiteNext]_suiteVars PROVE WorldOK'
  OBVIOUS
<1>0. tree \in Trees /\ FilesOK
  BY DEF WorldOK
<1>1. ASSUME NEW p \in Proc, Step(p) PROVE tree' = tree
  BY <1>1 DEF Step, Prepare, Execute, Attach, Truncate, Publish, PublishNothing, PutRun,
              Observe, PutCase, PutSummary, BeginAudit, PutAudit, LearnMiss, FinishAudit
<1>2. ASSUME NEW g, g = [f \in Report |-> g[f]],
             \A f \in Report : f[2] \in JunitNames /\ g[f] # None => IsFiniteSet(g[f].tests),
             files' = g
      PROVE  FilesOK'
  BY <1>2 DEF FilesOK
<1>3. ASSUME NEW dirs, files' = ClearedFiles(dirs) PROVE FilesOK'
  <2>1. ClearedFiles(dirs) = [f \in Report |-> ClearedFiles(dirs)[f]]
    BY DEF ClearedFiles
  <2> QED BY <1>0, <1>2, <1>3, <2>1, ClearedAreOK
<1>4. ASSUME NEW g, \A f \in Report : f[2] \in JunitNames /\ g[f] # None
                       => IsFiniteSet(g[f].tests),
             g = [f \in Report |-> g[f]], NEW c, files' = [g EXCEPT ![Published] = c]
      PROVE  FilesOK'
  <2> DEFINE h == [g EXCEPT ![Published] = c]
  <2>1. h = [f \in Report |-> h[f]]
    BY <1>4
  <2>2. \A f \in Report : f[2] \in JunitNames => f # Published
    BY DEF Published, JunitNames
  <2>3. \A f \in Report : f # Published => h[f] = g[f]
    BY <1>4
  <2> HIDE DEF h
  <2>4. \A f \in Report : f[2] \in JunitNames /\ h[f] # None => IsFiniteSet(h[f].tests)
    BY <1>4, <2>2, <2>3
  <2> QED BY <1>2, <1>4, <2>1, <2>4 DEF h
<1>5. ASSUME NEW p \in Proc, NEW settled, NEW ending, Execute(p, settled, ending)
      PROVE  FilesOK'
  <2> DEFINE failed  == Invoked(p) \cap broken
             before  == ClearedFiles({Cwd(p)})
             touched == IF ending = "killed" THEN {}
                        ELSE {<<Cwd(p), n>> : n \in Request(p).target.reports}
             new == [tests |-> Invoked(p), failed |-> failed]
             g == [f \in Report |-> IF f \in touched THEN new ELSE before[f]]
  <2>1. files' = g
    BY <1>5 DEF Execute
  <2>2. IsFiniteSet(new.tests)
    BY InvokedIsFinite
  <2>3. \A f \in Report : f[2] \in JunitNames /\ before[f] # None
                             => IsFiniteSet(before[f].tests)
    BY <1>0, ClearedAreOK
  <2> HIDE DEF new, before, touched
  <2>4. /\ g = [f \in Report |-> g[f]]
        /\ \A f \in Report : g[f] = new \/ g[f] = before[f]
    OBVIOUS
  <2> HIDE DEF g
  <2>5. \A f \in Report : f[2] \in JunitNames /\ g[f] # None => IsFiniteSet(g[f].tests)
    BY <2>2, <2>3, <2>4
  <2> QED BY <1>2, <2>1, <2>4, <2>5
<1>6. ASSUME NEW p \in Proc, Step(p) PROVE FilesOK'
  <2>1. CASE UNCHANGED files
    BY <2>1, <1>0 DEF FilesOK
  <2>2. CASE \E scope \in {"impacted", "all"}, nodes \in Impacts, static \in Statics :
               Prepare(p, scope, nodes, static)
    BY <2>2, <1>3 DEF Prepare
  <2>3. CASE \E settled \in BOOLEAN, ending \in {"exit", "lenient", "killed"} :
               Execute(p, settled, ending)
    BY <2>3, <1>5
  <2>4. CASE Truncate(p)
    BY <2>4, <1>0, <1>4 DEF Truncate, FilesOK
  <2>5. CASE Publish(p)
    <3> DEFINE g == ClearedFiles({RanCwd(p)})
    <3>1. g = [f \in Report |-> g[f]]
      BY DEF ClearedFiles
    <3>2. \E c : files' = [g EXCEPT ![Published] = c]
      BY <2>5 DEF Publish
    <3>3. \A f \in Report : f[2] \in JunitNames /\ g[f] # None => IsFiniteSet(g[f].tests)
      BY <1>0, ClearedAreOK
    <3> HIDE DEF g
    <3> QED BY <3>1, <3>2, <3>3, <1>4
  <2>6. CASE PublishNothing(p)
    BY <2>6, <1>3 DEF PublishNothing
  <2>7. \/ UNCHANGED files
        \/ \E scope \in {"impacted", "all"}, nodes \in Impacts, static \in Statics :
               Prepare(p, scope, nodes, static)
        \/ \E settled \in BOOLEAN, ending \in {"exit", "lenient", "killed"} :
               Execute(p, settled, ending)
        \/ Truncate(p) \/ Publish(p) \/ PublishNothing(p)
    BY <1>6 DEF Step, Attach, PutRun, Observe, PutCase, PutSummary, BeginAudit, PutAudit,
                LearnMiss, FinishAudit
  <2> QED BY <2>1, <2>2, <2>3, <2>4, <2>5, <2>6, <2>7
<1>7. CASE Edit
  BY <1>7, <1>0 DEF Edit, WorldOK, FilesOK
<1>8. CASE UNCHANGED suiteVars
  BY <1>8, <1>0 DEF suiteVars, WorldOK, FilesOK
<1>9. ASSUME NEW p \in Proc, Step(p) PROVE WorldOK'
  BY <1>9, <1>0, <1>1, <1>6 DEF WorldOK
<1> QED BY <1>7, <1>8, <1>9 DEF SuiteNext

LEMMA SuiteStep == SuiteInv /\ WorldOK /\ [SuiteNext]_suiteVars => SuiteInv'
<1> SUFFICES ASSUME SuiteInv, WorldOK, [SuiteNext]_suiteVars PROVE SuiteInv'
  OBVIOUS
<1>1. CASE Edit
  BY <1>1, EditSound
<1>2. ASSUME NEW p \in Proc, Step(p) PROVE SuiteInv'
  <2>1. CASE \E scope \in {"impacted", "all"}, nodes \in Impacts, static \in Statics :
               Prepare(p, scope, nodes, static)
    BY <2>1, PrepareSound
  <2>2. CASE \E settled \in BOOLEAN, ending \in {"exit", "lenient", "killed"} :
               Execute(p, settled, ending)
    BY <2>2, ExecuteSound
  <2>3. CASE \E malformed \in BOOLEAN : Attach(p, malformed)
    BY <2>3, AttachSound
  <2>4. CASE Truncate(p) \/ Publish(p) \/ PublishNothing(p)
    BY <2>4, PublishSound
  <2>5. CASE \E id \in Runs : PutRun(p, id)
    BY <2>5, PutRunSound
  <2>6. CASE Observe(p)
    BY <2>6, ObserveSound
  <2>7. CASE PutCase(p)
    BY <2>7, PutCaseSound
  <2>8. CASE PutSummary(p)
    BY <2>8, PutSummarySound
  <2>9. CASE \E i \in Runs, f \in Runs : BeginAudit(p, i, f)
    BY <2>9, BeginAuditSound
  <2>10. CASE PutAudit(p)
    BY <2>10, PutAuditSound
  <2>11. CASE LearnMiss(p)
    BY <2>11, LearnMissSound
  <2>12. CASE FinishAudit(p)
    BY <2>12, FinishAuditSound
  <2> QED BY <1>2, <2>1, <2>2, <2>3, <2>4, <2>5, <2>6, <2>7, <2>8, <2>9, <2>10, <2>11,
             <2>12 DEF Step
<1>3. CASE UNCHANGED suiteVars
  <2>1. UNCHANGED <<job, runs, audit, audits>>
    BY <1>3 DEF suiteVars
  <2>2. AuditsOK'
    BY <2>1, AuditsKept, RunsSame DEF SuiteInv
  <2> QED BY <2>1, <2>2, AuditStep
<1> QED BY <1>1, <1>2, <1>3 DEF SuiteNext

\* The inductive invariant of suite runs and audits (run_execute.rs, selection_audit.rs):
\* a reduced plan proves every obligation, a record that passed has no failed case, a run
\* being stored belongs to one process and is not yet whole, an audit holds what its two
\* whole runs say, and reports and cases are of finitely many tests.
THEOREM SuiteInvariant == SuiteSpec => [](SuiteInv /\ WorldOK)
<1>1. SuiteInit => SuiteInv
  BY SuiteInitSound
<1>2. SuiteInit => WorldOK
  <2>1. \E t \in Trees : \A u \in Trees : t <= u
    BY LeastNumber, SuiteAssumption
  <2>2. Min(Trees) \in Trees
    BY <2>1 DEF Min
  <2> QED BY <2>2 DEF SuiteInit, WorldOK, FilesOK
<1> QED BY <1>1, <1>2, WorldStays, SuiteStep, PTL DEF SuiteSpec

\* A run is stored as passed only when none of its cases failed, whatever reports other
\* processes leave where its runners look (runner.rs, run_execute.rs).
THEOREM PassedRunsAreClean == SuiteSpec => []PassedRunsHaveNoFailure
<1>1. SuiteInv => PassedRunsHaveNoFailure
  BY DEF SuiteInv, RunsOK, RowOK, PassedRunsHaveNoFailure
<1> QED BY <1>1, SuiteInvariant, PTL

\* An audit says what its two runs say once they are stored whole, although any process
\* may audit any stored run while others store theirs (selection_audit.rs).
THEOREM AuditsAreOfWholeRuns == SuiteSpec => []AuditsReadWholeRuns
<1>1. SuiteInv => AuditsReadWholeRuns
  BY DEF SuiteInv, AuditsOK, AuditRowOK, AuditsReadWholeRuns
<1> QED BY <1>1, SuiteInvariant, PTL

\* Whatever the history, the change and the layout of the repository, a run reduced to the
\* impacted tests executes a test for every obligation (selection_build.rs, execute.rs).
THEOREM ReducedRunsProve == SuiteSpec => []ReducedRunsStillProve
<1>1. SuiteInv => ReducedRunsStillProve
  BY DEF SuiteInv, JobsOK, JobOK, PlanOK, Proves, ReducedRunsStillProve
<1> QED BY <1>1, SuiteInvariant, PTL

-----------------------------------------------------------------------------
(* What audits teach.  A miss that an audit says it learned has a row for   *)
(* every node its run impacted, and a test with such a row comes before     *)
(* every test that was never missed when history is cut.                    *)

Recorded(t, i, f) ==
  \A n \in runs[i].impact : [test |-> t, node |-> n, audit |-> <<i, f>>] \in misses

OfPair(i, f) == {b \in audits : b.impacted = i /\ b.full = f}

\* An audit has recorded the tests it no longer has left, and once it is stored the row
\* of its pair counts what it learns.
LearnerOK(a) ==
  a # Idle =>
    /\ a.learned \subseteq a.missed
    /\ \A t \in a.learned \ a.left : Recorded(t, a.impacted, a.full)
    /\ a.pc = "stored" =>
          /\ OfPair(a.impacted, a.full) # {}
          /\ \A b \in OfPair(a.impacted, a.full) :
                b.learned = Cardinality(a.learned) /\ b.missed = Cardinality(a.missed)

\* An audit that has ended, and learned all it missed, has recorded all of it.
RowLearned(a) ==
  a.done /\ a.status = "contradicted" /\ a.learned = a.missed =>
    \A t \in Missed(a.impacted, a.full) : Recorded(t, a.impacted, a.full)

LearnInv ==
  /\ IsFiniteSet(misses)
  /\ \A p \in Proc : LearnerOK(audit[p])
  /\ \A a \in audits : RowLearned(a)

\* What was recorded stays recorded.
LEMMA RecordedStays ==
  ASSUME KeepsWhole, misses \subseteq misses', NEW t, NEW i, NEW f, Audited(i),
         Recorded(t, i, f)
  PROVE  Recorded(t, i, f)'
BY DEF KeepsWhole, Audited, Recorded

LEMMA LearnerStays ==
  ASSUME KeepsWhole, misses \subseteq misses', NEW a, AuditOK(a), LearnerOK(a),
         a.pc = "stored" => OfPair(a.impacted, a.full)' # {},
         a.pc = "stored" => \A b \in OfPair(a.impacted, a.full)' :
            \E c \in OfPair(a.impacted, a.full) : b.learned = c.learned /\ b.missed = c.missed
  PROVE  LearnerOK(a)'
<1> SUFFICES ASSUME a # Idle PROVE LearnerOK(a)'
  BY DEF LearnerOK
<1>1. Audited(a.impacted)
  BY DEF AuditOK, WhatRunsSay
<1>2. \A t \in a.learned \ a.left : Recorded(t, a.impacted, a.full)'
  BY <1>1, RecordedStays DEF LearnerOK
<1> QED BY <1>2 DEF LearnerOK

LEMMA RowStays ==
  ASSUME KeepsWhole, misses \subseteq misses', NEW a, AuditRowOK(a), RowLearned(a)
  PROVE  RowLearned(a)'
<1>1. Audited(a.impacted) /\ Audited(a.full)
  BY DEF AuditRowOK
<1>2. Missed(a.impacted, a.full)' = Missed(a.impacted, a.full)
  BY <1>1, SayStays
<1> SUFFICES ASSUME a.done, a.status = "contradicted", a.learned = a.missed,
                    NEW t \in Missed(a.impacted, a.full)
             PROVE  Recorded(t, a.impacted, a.full)'
  BY <1>2 DEF RowLearned
<1>3. Recorded(t, a.impacted, a.full)
  BY DEF RowLearned
<1> QED BY <1>1, <1>3, RecordedStays

\* A step that makes no audit.
LEMMA LearnKept ==
  ASSUME SuiteInv, LearnInv, KeepsWhole, UNCHANGED <<audit, audits, misses>>
  PROVE  LearnInv'
<1>1. /\ \A p \in Proc : AuditOK(audit[p]) /\ LearnerOK(audit[p])
      /\ \A a \in audits : AuditRowOK(a) /\ RowLearned(a)
  BY DEF SuiteInv, AuditsOK, LearnInv
<1>2. ASSUME NEW a, AuditOK(a), LearnerOK(a) PROVE LearnerOK(a)'
  <2>1. OfPair(a.impacted, a.full)' = OfPair(a.impacted, a.full)
    BY DEF OfPair
  <2>2. a.pc = "stored" => a # Idle
    BY DEF Idle
  <2> QED BY <1>2, <2>1, <2>2, LearnerStays DEF LearnerOK
<1>3. \A p \in Proc : LearnerOK(audit[p])'
  BY <1>1, <1>2
<1>4. \A a \in audits : RowLearned(a)'
  BY <1>1, RowStays
<1> QED BY <1>3, <1>4 DEF LearnInv

\* Storing a run, its cases or its summary leaves the whole runs alone.
LEMMA StoringKeepsWhole ==
  ASSUME SuiteInv, NEW p \in Proc,
         (\E id \in Runs : PutRun(p, id)) \/ PutCase(p) \/ PutSummary(p)
  PROVE  KeepsWhole
<1>1. ASSUME NEW id \in Runs, PutRun(p, id) PROVE KeepsWhole
  BY <1>1 DEF PutRun, KeepsWhole
<1>2. CASE PutCase(p) \/ PutSummary(p)
  <2> DEFINE id == job[p].id
  <2>1. job[p].pc = "observed"
    BY <1>2 DEF PutCase, PutSummary
  <2>2. id \in DOMAIN runs /\ runs[id].summary = FALSE
    BY <2>1 DEF SuiteInv, JobsOK, StoredOK, InStore
  <2>3. /\ DOMAIN runs' = DOMAIN runs
        /\ \A i \in DOMAIN runs : i # id => runs'[i] = runs[i]
    BY <1>2 DEF PutCase, PutSummary, SuiteInv, RunsOK
  <2> QED BY <2>2, <2>3 DEF KeepsWhole
<1> QED BY <1>1, <1>2

\* The rows of a pair that counts anything stay as they count it.
PairStays(i, f) ==
  /\ OfPair(i, f) # {} => OfPair(i, f)' # {}
  /\ \A b \in OfPair(i, f)' : OfPair(i, f) # {} =>
       \E c \in OfPair(i, f) : b.learned = c.learned /\ b.missed = c.missed

\* A step that changes only p's audit and the rows of audits and misses.
LEMMA LearnStep ==
  ASSUME SuiteInv, LearnInv, UNCHANGED runs, NEW p \in Proc, NEW k,
         audit' = [audit EXCEPT ![p] = k], misses \subseteq misses', IsFiniteSet(misses'),
         LearnerOK(k)', \A a \in audits' : RowLearned(a)', \A i, f : PairStays(i, f)
  PROVE  LearnInv'
<1>1. KeepsWhole
  BY RunsSame
<1>2. /\ audit = [q \in Proc |-> audit[q]]
      /\ \A q \in Proc : AuditOK(audit[q]) /\ LearnerOK(audit[q])
  BY DEF SuiteInv, AuditsOK, LearnInv
<1>3. audit'[p] = k /\ \A q \in Proc \ {p} : audit'[q] = audit[q]
  BY <1>2
<1>4. ASSUME NEW a, AuditOK(a), LearnerOK(a) PROVE LearnerOK(a)'
  <2>1. a.pc = "stored" => a # Idle
    BY DEF Idle
  <2>2. PairStays(a.impacted, a.full)
    OBVIOUS
  <2>3. a.pc = "stored" => OfPair(a.impacted, a.full) # {}
    BY <1>4, <2>1 DEF LearnerOK
  <2> QED BY <1>1, <1>4, <2>2, <2>3, LearnerStays DEF PairStays
<1>5. \A q \in Proc : LearnerOK(audit[q])'
  BY <1>2, <1>3, <1>4
<1> QED BY <1>5 DEF LearnInv

LEMMA LearnPairsSame ==
  ASSUME UNCHANGED audits, NEW i, NEW f
  PROVE  PairStays(i, f)
BY DEF PairStays, OfPair

LEMMA AuditIs ==
  ASSUME SuiteInv, LearnInv, NEW p \in Proc, audit[p].pc \in {"found", "stored"}
  PROVE  /\ audit[p] # Idle /\ AuditFields \subseteq DOMAIN audit[p]
         /\ WhatRunsSay(audit[p].status, audit[p].missed, audit[p].impacted, audit[p].full)
         /\ LearnerOK(audit[p])
<1>1. AuditOK(audit[p]) /\ LearnerOK(audit[p])
  BY DEF SuiteInv, AuditsOK, LearnInv
<1>2. audit[p] # Idle
  BY DEF Idle
<1> QED BY <1>1, <1>2 DEF AuditOK

LEMMA RowsStay ==
  ASSUME SuiteInv, LearnInv, UNCHANGED runs, misses \subseteq misses', NEW a \in audits
  PROVE  RowLearned(a)'
BY RowStays, RunsSame DEF SuiteInv, AuditsOK, LearnInv

LEMMA BeginAuditLearns ==
  ASSUME SuiteInv, LearnInv, NEW p \in Proc, NEW i, NEW f, BeginAudit(p, i, f)
  PROVE  LearnInv'
<1> DEFINE status == AuditStatus(i, f)
           missed == IF status = "not_reduced" THEN {} ELSE Missed(i, f)
<1>1. PICK k : k = [pc |-> "found", impacted |-> i, full |-> f, status |-> status,
                    missed |-> missed, left |-> missed \cap PresentAt[tree],
                    learned |-> missed \cap PresentAt[tree]]
  OBVIOUS
<1>2. audit' = [audit EXCEPT ![p] = k] /\ UNCHANGED <<runs, audits, misses>>
  BY <1>1 DEF BeginAudit
<1>3. k.pc # "stored" /\ k.learned \subseteq k.missed /\ k.learned \ k.left = {}
  <2> HIDE DEF missed, status
  <2> QED BY <1>1
<1>4. LearnerOK(k)'
  BY <1>3 DEF LearnerOK
<1>5. \A a \in audits' : RowLearned(a)'
  BY <1>2, RowsStay
<1>6. \A x, y : PairStays(x, y)
  BY <1>2, LearnPairsSame
<1>7. IsFiniteSet(misses')
  BY <1>2 DEF LearnInv
<1> QED BY <1>2, <1>4, <1>5, <1>6, <1>7, LearnStep

LEMMA PutAuditLearns ==
  ASSUME SuiteInv, LearnInv, NEW p \in Proc, PutAudit(p)
  PROVE  LearnInv'
<1>1. PICK a : a = audit[p]
  OBVIOUS
<1>2. PICK row : row = [impacted |-> a.impacted, full |-> a.full, status |-> a.status,
                        missed |-> Cardinality(a.missed),
                        learned |-> Cardinality(a.learned), done |-> FALSE]
  OBVIOUS
<1> DEFINE same == OfPair(a.impacted, a.full)
<1>3. /\ a.pc = "found" /\ UNCHANGED <<runs, misses>>
      /\ audits' = IF same = {} THEN audits \cup {row} ELSE audits
      /\ audit' = [audit EXCEPT ![p] =
           IF \A b \in same : b.status = row.status /\ b.missed = row.missed
                              /\ b.learned = row.learned
           THEN [a EXCEPT !.pc = "stored"] ELSE Idle]
  BY <1>1, <1>2 DEF PutAudit, OfPair
<1>4. /\ a # Idle /\ AuditFields \subseteq DOMAIN a /\ LearnerOK(a)
      /\ WhatRunsSay(a.status, a.missed, a.impacted, a.full)
  BY <1>1, <1>3, AuditIs
<1>5. \A i, f : PairStays(i, f)
  <2> SUFFICES ASSUME NEW i, NEW f PROVE PairStays(i, f)
    OBVIOUS
  <2>1. CASE i = a.impacted /\ f = a.full
    BY <1>3, <2>1 DEF PairStays, OfPair
  <2>2. CASE ~ (i = a.impacted /\ f = a.full)
    <3>1. OfPair(i, f)' = OfPair(i, f)
      BY <1>2, <1>3, <2>2 DEF OfPair
    <3> QED BY <3>1 DEF PairStays
  <2> QED BY <2>1, <2>2
<1>6. \A b \in audits' : RowLearned(b)'
  <2>1. ASSUME NEW b \in audits PROVE RowLearned(b)'
    BY <1>3, RowsStay
  <2>2. RowLearned(row)'
    BY <1>2 DEF RowLearned
  <2> QED BY <1>3, <2>1, <2>2
<1>7. IsFiniteSet(misses')
  BY <1>3 DEF LearnInv
<1>8. CASE audit' = [audit EXCEPT ![p] = Idle]
  <2>1. LearnerOK(Idle)'
    BY DEF LearnerOK
  <2> QED BY <1>3, <1>5, <1>6, <1>7, <1>8, <2>1, LearnStep
<1>9. CASE \A b \in same : b.status = row.status /\ b.missed = row.missed
                           /\ b.learned = row.learned
  <2>1. PICK k : k = [a EXCEPT !.pc = "stored"]
    OBVIOUS
  <2>2. /\ k.learned = a.learned /\ k.missed = a.missed /\ k.left = a.left
        /\ k.impacted = a.impacted /\ k.full = a.full
    BY <1>4, <2>1 DEF AuditFields
  <2>3. \A t \in a.learned \ a.left : Recorded(t, a.impacted, a.full)'
    <3>1. Audited(a.impacted) /\ KeepsWhole
      BY <1>3, <1>4, RunsSame DEF WhatRunsSay
    <3> QED BY <1>3, <1>4, <3>1, RecordedStays DEF LearnerOK
  <2>4. OfPair(a.impacted, a.full)' = IF same = {} THEN {row} ELSE same
    BY <1>2, <1>3 DEF OfPair
  <2>5. LearnerOK(k)'
    BY <1>2, <1>4, <1>9, <2>2, <2>3, <2>4 DEF LearnerOK
  <2>6. audit' = [audit EXCEPT ![p] = k]
    BY <1>3, <1>9, <2>1
  <2> QED BY <1>3, <1>5, <1>6, <1>7, <2>5, <2>6, LearnStep
<1> QED BY <1>3, <1>8, <1>9

\* The rows of one more missed test are finitely many, one for each node.
LEMMA LearnMissLearns ==
  ASSUME SuiteInv, LearnInv, NEW p \in Proc, LearnMiss(p)
  PROVE  LearnInv'
<1>1. PICK a : a = audit[p]
  OBVIOUS
<1>2. PICK t : t = Min(a.left)
  OBVIOUS
<1> DEFINE M == {[test |-> t, node |-> n, audit |-> <<a.impacted, a.full>>]
                    : n \in runs[a.impacted].impact}
<1>3. /\ a.pc = "stored" /\ UNCHANGED <<runs, audits>>
      /\ misses' = misses \cup M
      /\ audit' = [audit EXCEPT ![p].left = @ \ {t}]
  BY <1>1, <1>2 DEF LearnMiss
<1>4. /\ a # Idle /\ AuditFields \subseteq DOMAIN a /\ LearnerOK(a)
      /\ WhatRunsSay(a.status, a.missed, a.impacted, a.full)
  BY <1>1, <1>3, AuditIs
<1>5. Audited(a.impacted) /\ KeepsWhole
  BY <1>3, <1>4, RunsSame DEF WhatRunsSay
<1>6. IsFiniteSet(M)
  <2> DEFINE I == runs[a.impacted].impact
             g == [n \in I |-> [test |-> t, node |-> n, audit |-> <<a.impacted, a.full>>]]
  <2>1. IsFiniteSet(I)
    BY <1>5 DEF Audited, SuiteInv, RunsOK, RowOK
  <2>2. g \in Surjection(I, M)
    BY DEF Surjection
  <2> HIDE DEF g, I, M
  <2> QED BY <2>1, <2>2, FS_Surjection
<1>7. IsFiniteSet(misses')
  BY <1>3, <1>6, FS_Union DEF LearnInv
<1>8. Recorded(t, a.impacted, a.full)'
  BY <1>3 DEF Recorded
<1>9. PICK k : k = [a EXCEPT !.left = @ \ {t}]
  OBVIOUS
<1>10. /\ k.learned = a.learned /\ k.missed = a.missed /\ k.left = a.left \ {t}
       /\ k.impacted = a.impacted /\ k.full = a.full /\ k.pc = a.pc
  BY <1>4, <1>9 DEF AuditFields
<1>11. audit' = [audit EXCEPT ![p] = k]
  BY <1>1, <1>3, <1>9 DEF SuiteInv, AuditsOK
<1>12. LearnerOK(k)'
  <2>1. \A u \in a.learned \ a.left : Recorded(u, a.impacted, a.full)'
    BY <1>3, <1>4, <1>5, RecordedStays DEF LearnerOK
  <2>2. \A u \in k.learned \ k.left : Recorded(u, k.impacted, k.full)'
    BY <1>8, <1>10, <2>1
  <2>3. OfPair(a.impacted, a.full)' = OfPair(a.impacted, a.full)
    BY <1>3 DEF OfPair
  <2> QED BY <1>3, <1>4, <1>10, <2>2, <2>3 DEF LearnerOK
<1>13. \A b \in audits' : RowLearned(b)'
  BY <1>3, RowsStay
<1>14. \A i, f : PairStays(i, f)
  BY <1>3, LearnPairsSame
<1> QED BY <1>3, <1>7, <1>11, <1>12, <1>13, <1>14, LearnStep

LEMMA MissedIsFinite ==
  ASSUME SuiteInv, NEW i, NEW f, Audited(f)
  PROVE  IsFiniteSet(Missed(i, f))
<1> DEFINE C == runs[f].cases
           T == {c.test : c \in C}
           g == [c \in C |-> c.test]
<1>1. IsFiniteSet(C)
  BY DEF Audited, SuiteInv, RunsOK, RowOK
<1>2. Missed(i, f) \subseteq T
  BY DEF Missed, Failed
<1>3. g \in Surjection(C, T)
  BY DEF Surjection
<1> HIDE DEF C, T, g
<1>4. IsFiniteSet(T)
  BY <1>1, <1>3, FS_Surjection
<1> QED BY <1>2, <1>4, FS_Subset

\* An audit that ends with nothing left has recorded all it learned; when that is as much
\* as it missed, it is all it missed.
LEMMA FinishAuditLearns ==
  ASSUME SuiteInv, LearnInv, NEW p \in Proc, FinishAudit(p)
  PROVE  LearnInv'
<1>1. PICK a : a = audit[p]
  OBVIOUS
<1> DEFINE End(b) == IF b.impacted = a.impacted /\ b.full = a.full
                     THEN [b EXCEPT !.done = TRUE] ELSE b
<1>2. /\ a.pc = "stored" /\ a.left = {} /\ UNCHANGED <<runs, misses>>
      /\ audits' = {End(b) : b \in audits} /\ audit' = [audit EXCEPT ![p] = Idle]
  BY <1>1 DEF FinishAudit
<1>3. /\ a # Idle /\ LearnerOK(a)
      /\ WhatRunsSay(a.status, a.missed, a.impacted, a.full)
  BY <1>1, <1>2, AuditIs
<1>4. ASSUME NEW b \in audits
      PROVE  /\ End(b).impacted = b.impacted /\ End(b).full = b.full
             /\ End(b).status = b.status /\ End(b).learned = b.learned
             /\ End(b).missed = b.missed
  BY DEF SuiteInv, AuditsOK, AuditRowOK
<1>5. \A i, f : PairStays(i, f)
  <2> SUFFICES ASSUME NEW i, NEW f PROVE PairStays(i, f)
    OBVIOUS
  <2> HIDE DEF End
  <2>1. \A b \in OfPair(i, f)' :
           \E c \in OfPair(i, f) : b.learned = c.learned /\ b.missed = c.missed
    BY <1>2, <1>4 DEF OfPair
  <2>2. \A c \in OfPair(i, f) : End(c) \in OfPair(i, f)'
    BY <1>2, <1>4 DEF OfPair
  <2> QED BY <2>1, <2>2 DEF PairStays
<1>6. \A b \in audits' : RowLearned(b)'
  <2> SUFFICES ASSUME NEW b \in audits, NEW c, c = End(b) PROVE RowLearned(c)'
    BY <1>2
  <2>0. AuditRowOK(b)
    BY DEF SuiteInv, AuditsOK
  <2>1. CASE ~ (b.impacted = a.impacted /\ b.full = a.full)
    BY <1>2, <2>1, RowsStay
  <2>2. CASE b.impacted = a.impacted /\ b.full = a.full
    <3>1. /\ c.impacted = a.impacted /\ c.full = a.full /\ c.status = b.status
          /\ c.learned = b.learned /\ c.missed = b.missed
      BY <1>4, <2>2
    <3> HIDE DEF End
    <3>2. Missed(a.impacted, a.full)' = Missed(a.impacted, a.full)
      BY <1>2, <1>3, SayStays, RunsSame DEF WhatRunsSay
    <3> SUFFICES ASSUME c.status = "contradicted", c.learned = c.missed,
                        NEW t \in Missed(a.impacted, a.full)
                 PROVE  Recorded(t, a.impacted, a.full)'
      BY <3>1, <3>2 DEF RowLearned
    <3>3. a.status = "contradicted" /\ a.missed = Missed(a.impacted, a.full)
      BY <1>3, <2>0, <2>2, <3>1 DEF AuditRowOK, WhatRunsSay
    <3>4. Cardinality(a.learned) = Cardinality(a.missed) /\ a.learned \subseteq a.missed
      <4>1. b \in OfPair(a.impacted, a.full)
        BY <2>2 DEF OfPair
      <4> QED BY <1>2, <1>3, <3>1, <4>1 DEF LearnerOK
    <3>5. IsFiniteSet(a.missed)
      BY <1>3, <3>3, MissedIsFinite DEF WhatRunsSay
    <3>6. a.learned = a.missed
      BY <3>4, <3>5, FS_Subset
    <3>7. Recorded(t, a.impacted, a.full)
      BY <1>2, <1>3, <3>3, <3>6 DEF LearnerOK
    <3> QED BY <1>2, <1>3, <3>7, RecordedStays, RunsSame DEF WhatRunsSay
  <2> QED BY <2>1, <2>2
<1>7. LearnerOK(Idle)'
  BY DEF LearnerOK
<1>8. IsFiniteSet(misses')
  BY <1>2 DEF LearnInv
<1> QED BY <1>2, <1>5, <1>6, <1>7, <1>8, LearnStep

LEMMA LearnedStep == SuiteInv /\ LearnInv /\ [SuiteNext]_suiteVars => LearnInv'
<1> SUFFICES ASSUME SuiteInv, LearnInv, [SuiteNext]_suiteVars PROVE LearnInv'
  OBVIOUS
<1>1. CASE Edit \/ UNCHANGED suiteVars
  <2>1. UNCHANGED <<runs, audit, audits, misses>>
    BY <1>1 DEF Edit, suiteVars
  <2> QED BY <2>1, LearnKept, RunsSame
<1>2. ASSUME NEW p \in Proc, Step(p) PROVE LearnInv'
  <2>1. CASE \/ \E scope \in {"impacted", "all"}, nodes \in Impacts, static \in Statics :
                  Prepare(p, scope, nodes, static)
             \/ \E settled \in BOOLEAN, ending \in {"exit", "lenient", "killed"} :
                  Execute(p, settled, ending)
             \/ \E malformed \in BOOLEAN : Attach(p, malformed)
             \/ Truncate(p) \/ Publish(p) \/ PublishNothing(p) \/ Observe(p)
    <3>1. UNCHANGED <<runs, audit, audits, misses>>
      BY <2>1 DEF Prepare, Execute, Attach, Truncate, Publish, PublishNothing, Observe
    <3> QED BY <3>1, LearnKept, RunsSame
  <2>2. CASE (\E id \in Runs : PutRun(p, id)) \/ PutCase(p) \/ PutSummary(p)
    <3>1. UNCHANGED <<audit, audits, misses>>
      BY <2>2 DEF PutRun, PutCase, PutSummary
    <3> QED BY <2>2, <3>1, LearnKept, StoringKeepsWhole
  <2>3. CASE \E i \in Runs, f \in Runs : BeginAudit(p, i, f)
    BY <2>3, BeginAuditLearns
  <2>4. CASE PutAudit(p)
    BY <2>4, PutAuditLearns
  <2>5. CASE LearnMiss(p)
    BY <2>5, LearnMissLearns
  <2>6. CASE FinishAudit(p)
    BY <2>6, FinishAuditLearns
  <2> QED BY <1>2, <2>1, <2>2, <2>3, <2>4, <2>5, <2>6 DEF Step
<1> QED BY <1>1, <1>2 DEF SuiteNext

\* The tests that were ever missed are no more than the history keeps.
HistoryFits == Cardinality({m.test : m \in misses}) <= MaxHistory

\* A test that was missed on one of the nodes is among the historical tests of a change
\* that impacts them, unless as many others were missed as the history keeps.
LEMMA MissedAreRecalled ==
  ASSUME IsFiniteSet(misses), HistoryFits, NEW nodes, NEW t \in MissedTests(misses, nodes)
  PROVE  t \in HistoricalTests(obs, misses, nodes)
<1> DEFINE all == ObservedTests(obs, nodes) \cup MissedTests(misses, nodes)
           MissesOf(u) == {m \in misses : m.test = u /\ m.node \in nodes}
           Misses(u) == Cardinality(MissesOf(u))
           Seen(u) == {n \in nodes : Observations(obs, u, n) >= MinObservations}
           Matched(u) == Cardinality(Seen(u) \cup
                           {n \in nodes : \E m \in misses : m.test = u /\ m.node = n})
           Floor(u) == IF Seen(u) = {} THEN 0
                       ELSE Min({Observations(obs, u, n) : n \in Seen(u)})
           Before(u, v) ==
             \/ Misses(u) > Misses(v)
             \/ /\ Misses(u) = Misses(v)
                /\ \/ Matched(u) > Matched(v)
                   \/ /\ Matched(u) = Matched(v)
                      /\ \/ Floor(u) > Floor(v)
                         \/ Floor(u) = Floor(v) /\ u < v
           Ahead == {u \in all \ {t} : Before(u, t)}
           Ever == {m.test : m \in misses}
<1>1. HistoricalTests(obs, misses, nodes)
        = {v \in all : Cardinality({u \in all \ {v} : Before(u, v)}) < MaxHistory}
  BY DEF HistoricalTests
<1>2. t \in all
  OBVIOUS
<1>3. \A u : Before(u, t) => Misses(u) > Misses(t) \/ Misses(u) = Misses(t)
  OBVIOUS
<1> HIDE DEF Before
<1>4. \A u : IsFiniteSet(MissesOf(u)) /\ Misses(u) \in Nat
             /\ (Misses(u) = 0 <=> MissesOf(u) = {})
  <2> SUFFICES ASSUME NEW u PROVE /\ IsFiniteSet(MissesOf(u)) /\ Misses(u) \in Nat
                                  /\ (Misses(u) = 0 <=> MissesOf(u) = {})
    OBVIOUS
  <2>1. IsFiniteSet(MissesOf(u))
    BY FS_Subset
  <2> HIDE DEF MissesOf
  <2> QED BY <2>1, FS_CardinalityType, FS_EmptySet
<1>5. MissesOf(t) # {} /\ t \in Ever
  BY DEF MissedTests
<1>6. \A u \in Ahead : u \in Ever \ {t}
  <2> SUFFICES ASSUME NEW u \in Ahead PROVE MissesOf(u) # {} /\ u # t
    OBVIOUS
  <2>1. Misses(u) > Misses(t) \/ Misses(u) = Misses(t)
    BY <1>3
  <2>2. Misses(u) \in Nat /\ Misses(t) \in Nat /\ Misses(t) # 0
    BY <1>4, <1>5
  <2>3. Misses(u) # 0
    <3> HIDE DEF Misses
    <3> QED BY <2>1, <2>2
  <2> QED BY <2>3, <1>4
<1>7. IsFiniteSet(Ever)
  <2> DEFINE g == [m \in misses |-> m.test]
  <2>1. g \in Surjection(misses, Ever)
    BY DEF Surjection
  <2> HIDE DEF g, Ever
  <2> QED BY <2>1, FS_Surjection
<1> HIDE DEF MissesOf
<1>8. Cardinality(Ahead) < MaxHistory
  <2> HIDE DEF Ahead
  <2>1. /\ IsFiniteSet(Ever \ {t}) /\ Cardinality(Ever \ {t}) = Cardinality(Ever) - 1
        /\ Cardinality(Ever) \in Nat
    <3> HIDE DEF Ever
    <3> QED BY <1>5, <1>7, FS_RemoveElement, FS_CardinalityType
  <2>2. Cardinality(Ahead) <= Cardinality(Ever \ {t}) /\ Cardinality(Ahead) \in Nat
    <3> DEFINE E == Ever \ {t}
    <3>1. Ahead \in SUBSET E /\ IsFiniteSet(E)
      BY <1>6, <2>1
    <3> HIDE DEF E
    <3> QED BY <3>1, FS_Subset, FS_CardinalityType DEF E
  <2>3. Cardinality(Ever) <= MaxHistory
    BY DEF HistoryFits
  <2> QED BY <2>1, <2>2, <2>3, SuiteAssumption
<1> HIDE DEF all
<1> QED BY <1>1, <1>2, <1>8

\* What an audit learned is selected from then on, while no more tests were ever missed
\* than the history of a change keeps (Store::historical_tests_for_nodes orders missed
\* tests first and cuts after MaxHistory; selection_audit.rs).
THEOREM LearnedMisses == SuiteSpec => [](HistoryFits => LearnedMissesAreSelected)
<1>1. SuiteInit => LearnInv
  <2> SUFFICES ASSUME SuiteInit PROVE LearnInv
    OBVIOUS
  <2>1. \A p \in Proc : audit[p] = Idle
    BY DEF SuiteInit
  <2> QED BY <2>1, FS_EmptySet DEF SuiteInit, LearnInv, LearnerOK
<1>2. SuiteInv /\ LearnInv => (HistoryFits => LearnedMissesAreSelected)
  <2> SUFFICES ASSUME SuiteInv, LearnInv, HistoryFits, NEW a \in audits, a.done,
                      a.status = "contradicted", a.learned = a.missed,
                      NEW t \in Missed(a.impacted, a.full) \cap PresentAt[tree],
                      NEW nodes \in Impacts, NEW n \in nodes \cap runs[a.impacted].impact
               PROVE  t \in SelectionOf({}, nodes).selected
    BY DEF LearnedMissesAreSelected
  <2>1. [test |-> t, node |-> n, audit |-> <<a.impacted, a.full>>] \in misses
    BY DEF LearnInv, RowLearned, Recorded
  <2>2. t \in MissedTests(misses, nodes)
    BY <2>1 DEF MissedTests
  <2>3. t \in HistoricalTests(obs, misses, nodes)
    BY <2>2, MissedAreRecalled DEF LearnInv
  <2> QED BY <2>3 DEF SelectionOf, LiveSelection
<1> QED BY <1>1, <1>2, SuiteInvariant, LearnedStep, PTL DEF SuiteSpec

=============================================================================
