---------------------------- MODULE BehaviorLedger ----------------------------
(***************************************************************************)
(* The behaviour graph of the ledger and what its writers say of it.       *)
(* Journals of ordinary use are ingested (live/ingest_journal.rs),         *)
(* sessions are recorded (live/record_capture.rs, live/record_persist.rs)  *)
(* and runs store what their browser programs saw, with the documents on   *)
(* surfaces and behaviours (live/run_finish.rs, persist_behavior.rs).      *)
(*                                                                         *)
(* Only a session's rows are one transaction.  All else is a statement at  *)
(* a time: a writer first asks what is known, one query for each state and *)
(* edge, then stores one row or artifact after the other, and may die      *)
(* between any two.                                                        *)
(***************************************************************************)
EXTENDS Surfaces

CONSTANTS
    Proc,          \* processes that write to the ledger
    Runs,          \* run identities
    Journals,      \* journals a host sends: [session, data, initial, events]
    Recordings,    \* traces of passive recordings: journals with [obligations, apis]
    Sources        \* what a run may have collected: name -> sources

\* Events, observations and spans are sequences, links and browsers finite.
ASSUME TracesAssumption ==
    /\ \A t \in Journals \cup Recordings : t.events \in Seq(Range(t.events))
    /\ \A t \in Recordings : IsFiniteSet(t.obligations) /\ IsFiniteSet(t.apis)

ASSUME SourcesAssumption ==
    \A name \in DOMAIN Sources :
        /\ Sources[name].browser \in Seq(Range(Sources[name].browser))
        /\ \A b \in Range(Sources[name].browser) :
              b.observations \in Seq(Range(b.observations)) /\ b.spans \in Seq(Range(b.spans))

VARIABLES
    states,        \* rows of behavior_states
    edges,         \* rows of behavior_edges: <<src, action, dst>>
    sessions,      \* recorded sessions, with their events and links
    traces,        \* sessions that have a behavior-trace artifact
    journals,      \* continuous-observation-journal artifacts
    docs,          \* the documents of each run, Unknown until stored
    job            \* what each process is doing

behaviorVars == <<states, edges, sessions, traces, journals, docs, job>>

Idle == [kind |-> "idle"]
None == Unknown
NoDocs == [matrix |-> None, plan |-> None, behaviors |-> None, contribution |-> None]

-----------------------------------------------------------------------------
(* Traces *)

MaxEvents == 1000
Path(t) == <<t.initial>> \o [i \in DOMAIN t.events |-> t.events[i].after]
TraceEdges(t) ==
    [i \in DOMAIN t.events |-> <<Path(t)[i], t.events[i].action, Path(t)[i + 1]>>]
\* The loops are left out.
Moves(t) ==
    FlattenSeq([i \in DOMAIN TraceEdges(t) |->
        IF Path(t)[i] = Path(t)[i + 1] THEN <<>> ELSE <<TraceEdges(t)[i]>>])

\* Only what a page can observe by itself, with values the document names.
Valid(j) ==
    /\ Len(j.events) <= MaxEvents
    /\ \A s \in Range(Path(j)) : s.route # Unknown
    /\ \A x \in Range(j.events) :
          \/ x.action \in {"navigate", "activate", "press"}
          \/ x.action \in {"fill", "select"} /\ x.value \in j.data

\* A recording that claims an obligation is previewed as a program, which needs a step.
Promotable(t) == t.obligations = {} \/ Moves(t) # <<>>

\* The semantic state of an observation has no actor, component, data class or flags.
Semantic(s) == [s EXCEPT !.actor = Unknown, !.component = Unknown, !.data = Unknown,
                         !.modal = Unknown, !.flags = Unknown]

-----------------------------------------------------------------------------
(* What a writer asks and what it stores, in order *)

Ops(kind, seq) == [i \in DOMAIN seq |-> <<kind, seq[i]>>]

\* An ingest that counts states only.
ReadsOfStates(t) == Ops("state", Path(t))

Reads(t) == Ops("state", Path(t)) \o Ops("edge", Moves(t))

\* A writer that stores the artifacts before the graph they speak of.
ArtifactsFirst(t) == <<<<"trace", t>>, <<"journal", t>>>>
                       \o Ops("state", Path(t)) \o Ops("edge", TraceEdges(t))

JournalWrites(t) == Ops("state", Path(t)) \o Ops("edge", TraceEdges(t))
                      \o <<<<"trace", t>>, <<"journal", t>>>>

RecordReads(t) == Reads(t) \o Ops("obligation", SetToSeq(t.obligations))
                    \o Ops("api", SetToSeq(t.apis))
RecordWrites(t) == Ops("state", Path(t)) \o Ops("edge", TraceEdges(t))
                     \o <<<<"session", t>>, <<"trace", t>>>>

\* persist_program_behavior: the states of the observations that name a route, then the
\* spans between two of them.
ProgramWrites(b) ==
    LET Named(i) == i \in DOMAIN b.observations /\ b.observations[i].state.route # Unknown
        At(i) == Semantic(b.observations[i].state)
    IN  FlattenSeq([i \in DOMAIN b.observations |->
            IF Named(i) THEN <<<<"state", At(i)>>>> ELSE <<>>])
        \o FlattenSeq([i \in DOMAIN b.spans |->
            LET x == b.spans[i]
            IN  IF Named(x.start) /\ Named(x.end)
                THEN <<<<"edge", <<At(x.start), x.action, At(x.end)>>>>>> ELSE <<>>])

RunWrites(src) ==
    <<<<"load", None>>, <<"matrix", None>>, <<"plan", None>>, <<"behaviors", None>>>>
      \o FlattenSeq([i \in DOMAIN src.browser |-> ProgramWrites(src.browser[i])])
      \o (IF src.browser = <<>> THEN <<>> ELSE <<<<"contribution", None>>>>)

Known(read) ==
    CASE read[1] = "state"      -> read[2] \in states
      [] read[1] = "edge"       -> read[2] \in edges
      [] read[1] = "obligation" -> \E t \in sessions : read[2] \in t.obligations
      [] read[1] = "api"        -> \E t \in sessions : read[2] \in t.apis

-----------------------------------------------------------------------------
BehaviorInit ==
    /\ states = {} /\ edges = {} /\ sessions = {} /\ traces = {} /\ journals = {}
    /\ docs = [r \in {} |-> NoDocs]
    /\ job = [p \in Proc |-> Idle]

Begin(p, j) == job[p] = Idle /\ job' = [job EXCEPT ![p] = j]
Ledger == <<states, edges, sessions, traces, journals, docs>>

StartIngest(p) ==
    \E t \in {j \in Journals : Valid(j)} :
        /\ Begin(p, [kind |-> "ingest", trace |-> t, useful |-> FALSE,
                     reads |-> Reads(t), writes |-> JournalWrites(t)])
        /\ UNCHANGED Ledger

\* A recording's session is new; one that cannot be previewed stores nothing.
StartRecord(p) ==
    \E t \in Recordings :
        /\ \A s \in sessions : s.session # t.session
        /\ \A q \in Proc : job[q].kind = "record" => job[q].trace.session # t.session
        /\ t.session \notin traces
        /\ Begin(p, [kind |-> "record", trace |-> t, useful |-> FALSE,
                     reads |-> RecordReads(t),
                     writes |-> IF Promotable(t) THEN RecordWrites(t) ELSE <<>>])
        /\ UNCHANGED Ledger

StartRun(p) ==
    \E r \in Runs \ DOMAIN docs : \E src \in DOMAIN Sources :
        /\ Begin(p, [kind |-> "run", run |-> r, source |-> src, loaded |-> {},
                     claims |-> {}, useful |-> TRUE,
                     reads |-> <<>>, writes |-> RunWrites(Sources[src])])
        /\ docs' = [x \in DOMAIN docs \cup {r} |-> IF x = r THEN NoDocs ELSE docs[x]]
        /\ UNCHANGED <<states, edges, sessions, traces, journals>>

\* has_behavior_state and its likes, one at a time
Look(p) ==
    /\ job[p].kind \in {"ingest", "record"} /\ job[p].reads # <<>>
    /\ job' = [job EXCEPT ![p].useful = @ \/ ~ Known(Head(job[p].reads)),
                          ![p].reads = Tail(@)]
    /\ UNCHANGED Ledger

\* The reply says discarded: nothing is stored.
Discard(p) ==
    /\ job[p].kind \in {"ingest", "record"} /\ job[p].reads = <<>> /\ ~ job[p].useful
    /\ job' = [job EXCEPT ![p] = [kind |-> "discarded", trace |-> job[p].trace]]
    /\ UNCHANGED Ledger

Writing(p, kind) ==
    /\ job[p].kind \in {"ingest", "record", "run"} /\ job[p].reads = <<>> /\ job[p].useful
    /\ job[p].writes # <<>> /\ Head(job[p].writes)[1] = kind
Operand(p) == Head(job[p].writes)[2]
Done(p) == job' = [job EXCEPT ![p].writes = Tail(@)]

\* INSERT OR IGNORE says whether the row is this writer's.
Claimed(kind, row) ==
    IF row \in (IF kind = "state" THEN states ELSE edges) THEN {} ELSE {<<kind, row>>}

DoneClaiming(p, kind) ==
    IF job[p].kind = "run"
    THEN job' = [job EXCEPT ![p].writes = Tail(@),
                            ![p].claims = @ \cup Claimed(kind, Operand(p))]
    ELSE Done(p)

PutState(p) ==
    /\ Writing(p, "state") /\ DoneClaiming(p, "state")
    /\ states' = states \cup {Operand(p)}
    /\ UNCHANGED <<edges, sessions, traces, journals, docs>>

PutEdge(p) ==
    /\ Writing(p, "edge") /\ DoneClaiming(p, "edge")
    /\ edges' = edges \cup {Operand(p)}
    /\ UNCHANGED <<states, sessions, traces, journals, docs>>

PutSession(p) ==
    /\ Writing(p, "session") /\ Done(p)
    /\ sessions' = {t \in sessions : t.session # Operand(p).session} \cup {Operand(p)}
    /\ UNCHANGED <<states, edges, traces, journals, docs>>

\* An artifact's id holds its session's: a second one is an error.
PutTrace(p) ==
    /\ Writing(p, "trace")
    /\ IF Operand(p).session \in traces
       THEN job' = [job EXCEPT ![p] = Idle] /\ UNCHANGED traces
       ELSE Done(p) /\ traces' = traces \cup {Operand(p).session}
    /\ UNCHANGED <<states, edges, sessions, journals, docs>>

PutJournal(p) ==
    /\ Writing(p, "journal") /\ Done(p)
    /\ journals' = journals \cup {Operand(p)}
    /\ UNCHANGED <<states, edges, sessions, traces, docs>>

-----------------------------------------------------------------------------
(* The documents of a run *)

LoadJournals(p) ==
    /\ Writing(p, "load")
    /\ job' = [job EXCEPT ![p].loaded = journals, ![p].writes = Tail(@)]
    /\ UNCHANGED Ledger

Store(p, kind, doc) ==
    /\ Writing(p, kind) /\ Done(p)
    /\ docs' = [docs EXCEPT ![job[p].run][kind] = doc]
    /\ UNCHANGED <<states, edges, sessions, traces, journals>>

Collected(p) == Sources[job[p].source]

PutMatrix(p) ==
    Store(p, "matrix", Matrix(Collected(p).graph,
        [bindings |-> Collected(p).bindings, coverage |-> Collected(p).coverage,
         passing |-> Collected(p).passing, flows |-> Collected(p).flows,
         ui |-> Collected(p).ui, mutated |-> Collected(p).mutated,
         browser |-> Range(Collected(p).browser), journals |-> job[p].loaded]))

PutPlan(p) == Store(p, "plan", Plan(docs[job[p].run].matrix))

\* A run that reads the journals again for its second document.
JournalsReread(p) == journals

JournalsOfRun(p) == job[p].loaded

PutBehaviors(p) ==
    Store(p, "behaviors", Behaviors(Collected(p).graph,
        (UNION {JournalFacts(j) : j \in JournalsOfRun(p)})
          \cup UNION {BrowserFacts(b) : b \in Range(Collected(p).browser)}))

PutContribution(p) == Store(p, "contribution", job[p].claims)

\* The reply is out, or the process died: nothing is undone.
Leave(p) ==
    /\ job[p] # Idle
    /\ job' = [job EXCEPT ![p] = Idle]
    /\ UNCHANGED Ledger

Step(p) ==
    \/ StartIngest(p) \/ StartRecord(p) \/ StartRun(p)
    \/ Look(p) \/ Discard(p)
    \/ PutState(p) \/ PutEdge(p) \/ PutSession(p) \/ PutTrace(p) \/ PutJournal(p)
    \/ LoadJournals(p) \/ PutMatrix(p) \/ PutPlan(p) \/ PutBehaviors(p)
    \/ PutContribution(p) \/ Leave(p)
BehaviorNext == \E p \in Proc : Step(p)
BehaviorSpec == BehaviorInit /\ [][BehaviorNext]_behaviorVars

-----------------------------------------------------------------------------
(* What is promised *)

InGraph(t) == /\ Range(Path(t)) \subseteq states
              /\ Range(TraceEdges(t)) \subseteq edges

\* Whoever stops where: an edge joins known states, and a session, a journal or a claim
\* that the ledger shows speaks of states and edges that the graph has (the order of
\* writes in persist_journal_behavior, persist_controlled_record and
\* persist_program_behavior, each a statement at a time).
GraphHoldsEvidence ==
    /\ \A x \in edges : {x[1], x[3]} \subseteq states
    /\ \A t \in sessions \cup journals : InGraph(t)
    /\ \A r \in DOMAIN docs : docs[r].contribution # None =>
          \A c \in docs[r].contribution :
              c[2] \in (IF c[1] = "state" THEN states ELSE edges)

\* What is discarded as no_new_behavior was all there: every state, and every edge but the
\* loops, that the novelty does not count (journal_novelty, capture_controlled_record).
DiscardedWasKnown ==
    \A p \in Proc : job[p].kind = "discarded" =>
        /\ Range(Path(job[p].trace)) \subseteq states
        /\ Range(Moves(job[p].trace)) \subseteq edges

\* The two documents of a run agree although the journals it read may have been joined by
\* others since: a surface with a behaviour was seen at run time (finish_controlled_run).
BehaviorsWereSeen ==
    \A r \in DOMAIN docs :
        (docs[r].matrix # None /\ docs[r].behaviors # None) =>
            \A b \in docs[r].behaviors :
                docs[r].matrix.rows[b.id.surface].runtime = "present"

\* The cells a truncated walk of a source's tests bears on.
CutCells ==
    [name \in DOMAIN Sources |->
        LET src == Sources[name] IN
        UNION {Touching(Application(src.graph), Reach(src.graph, b.path).nodes)
                 \X (IF b.obligations THEN {"test", "intent"} ELSE {"test"})
                 : b \in {c \in src.bindings : Reach(src.graph, c.path).truncated}}]

\* What a test touches whose walk was cut short is asked for as unmeasured in the columns
\* of tests and, where the test is bound to obligations, of intent: it counts neither as
\* absent nor, though another test reaches it whole, as present (binding_column,
\* plan_cheapest_evidence).  The columns of proof and mutation and the surfaces beyond the
\* cut are not part of this: there the code does say absent.
CutTestsAreAskedFor ==
    \A p \in Proc : job[p].kind = "run" /\ docs[job[p].run].plan # None =>
        \A cell \in CutCells[job[p].source] :
            \E gap \in docs[job[p].run].plan :
                /\ gap.surface = cell[1] /\ gap.column = cell[2]
                /\ gap.need = "unmeasured"
=============================================================================
