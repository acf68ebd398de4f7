------------------------------ MODULE UiDetect ------------------------------
(***************************************************************************)
(* What the detectors find in a layout snapshot, what an imported          *)
(* accessibility report adds, and what one revision measured altogether.   *)
(*                                                                         *)
(* A finding is [check, severity, at, subject, counterpart, node]: all but *)
(* severity and node are its fingerprint, node the one control it is about *)
(* (NoNode for a group or a page).  What a run of the browser programs     *)
(* returns of the interface is [listened, evidence]: listened, the network *)
(* was always captured and never cut; a piece of evidence is               *)
(*   [limited, layout: {} or {snapshot}, axe: {} or {report},              *)
(*    repeated: mutating requests one action sent more than once]          *)
(* and a report [readable, cut, violations: [rule, impact, targets]].      *)
(***************************************************************************)
EXTENDS UiLayout, Sequences

CONSTANTS
  MaxPairs,       \* MAX_CANDIDATE_PAIRS
  MaxViolations,  \* MAX_A11Y_IMPORT_VIOLATIONS
  MaxTargets      \* MAX_A11Y_IMPORT_NODES

UiFinding(snapshot, check, severity, subject, counterpart) ==
  [check |-> check, severity |-> severity, at |-> StateKey(snapshot), subject |-> subject,
   counterpart |-> counterpart, node |-> NoNode]

\* A finding about one control or text.
About(snapshot, check, severity, node, counterpart) ==
  [UiFinding(snapshot, check, severity, Identity(node), counterpart) EXCEPT !.node = node.id]

Nobody == <<"nobody">>

\* UiCheck::is_responsive: a wider or narrower page may have it or not.
Responsive(finding) == finding.check \in {"occlusion", "overflow", "clipping", "overlap"}

Fingerprint(finding) ==
  <<finding.check, finding.at, finding.subject, finding.counterpart>>

\* The same problem at any width.
ResponsiveIdentity(finding) ==
  <<finding.check, finding.at.place, finding.subject, finding.counterpart>>

Visible(snapshot) == {n \in snapshot.nodes : n.visible}
Controls(snapshot) == {n \in snapshot.nodes : Actionable(n)}
-----------------------------------------------------------------------------
(* Identities that more than one node claims. *)

\* Two visible nodes with one id, or with one test id.
DuplicateIdentity(snapshot, check, field) ==
  LET held == {n[field] : n \in Visible(snapshot)}
  IN  {UiFinding(snapshot, check, "error", <<field, key>>, Nobody) :
         key \in {k \in held :
                    Filled(k) /\ Cardinality({n \in Visible(snapshot) : n[field] = k}) > 1}}

\* Two controls no semantic locator can tell apart; without a row, record or
\* dialog around them it is only a warning.
AmbiguousInteractive(snapshot) ==
  LET Twins(n, m) == /\ n.role = m.role /\ n.name = m.name
                     /\ ScopeOf(snapshot, n.id) = ScopeOf(snapshot, m.id)
      named == {n \in Controls(snapshot) : Filled(n.role) /\ Filled(n.name)}
      confused == {n \in named : \E m \in named \ {n} : Twins(n, m)}
      Scoped(n, scope) ==
        IF scope = Absent
        THEN UiFinding(snapshot, "ambiguous", "warn", <<n.role, n.name>>, Nobody)
        ELSE UiFinding(snapshot, "ambiguous", "error", <<n.role, n.name>>, <<"scope", scope>>)
  IN  {Scoped(n, ScopeOf(snapshot, n.id)) : n \in confused}
-----------------------------------------------------------------------------
(* Accessibility. *)

Labelable(node) ==
  \/ node.tag \in {"select", "textarea"}
  \/ node.tag = "input" /\ node.input \notin {"hidden", "button", "submit", "reset", "image"}

Focusable == {"button", "link", "checkbox", "switch", "textbox", "combobox", "searchbox",
              "slider", "spinbutton"}

StateToken ==
  [disabled |-> {"true", "false"},
   checked  |-> {"true", "false", "mixed", "undefined"},
   selected |-> {"true", "false", "undefined"},
   pressed  |-> {"true", "false", "mixed", "undefined"},
   expanded |-> {"true", "false", "undefined"}]

\* role_state_issues: the ARIA states fit the role and the native control.
RoleStateFits(node) ==
  LET has(state) == node.aria[state] # Absent
      native == node.tag = "input" /\ node.input \in {"checkbox", "radio"}
  IN  /\ \A state \in DOMAIN StateToken : has(state) => node.aria[state] \in StateToken[state]
      /\ node.role \in {"checkbox", "radio", "switch"} /\ ~native => has("checked")
      /\ has("checked") => node.role \in {"checkbox", "menuitemcheckbox", "menuitemradio",
                                           "option", "radio", "switch", "treeitem"}
      /\ has("pressed") => node.role = "button"
      /\ has("selected") => node.role \in {"gridcell", "option", "row", "tab", "treeitem"}
      /\ node.aria.checked = "mixed" => node.role \in {"checkbox", "menuitemcheckbox"}
      /\ ~(node.native_disabled = "true" /\ node.aria.disabled = "false")
      /\ ~(/\ node.native_disabled = "false" /\ node.aria.disabled = "true"
           /\ node.tag \in {"button", "input", "select", "textarea"})

\* The rules a visible node breaks; a fact an old collector did not measure
\* breaks none.
Broken(node) ==
  LET dialog == node.role \in {"dialog", "alertdialog"}
      breaks ==
        [accessible_name |-> /\ node.interactive /\ node.enabled /\ ~node.decorative
                             /\ ~Filled(node.name),
         form_label      |-> Labelable(node) /\ node.labelled = "false",
         keyboard        |-> /\ node.oracle /\ node.interactive /\ node.enabled
                             /\ node.role \in Focusable /\ node.focusable = "false",
         role_state      |-> ~RoleStateFits(node),
         dialog_name     |-> dialog /\ ~Filled(node.name),
         dialog_focus    |-> dialog /\ node.modal = "true" /\ node.focus_inside = "false"]
  IN  IF node.tag = Absent THEN {} ELSE {rule \in DOMAIN breaks : breaks[rule]}

\* A rule broken by a node the sealed contract names is an error.
Accessibility(snapshot) ==
  UNION {{About(snapshot, rule, IF node.oracle \/ rule = "keyboard" THEN "error" ELSE "warn",
                node, Nobody) : rule \in Broken(node)} : node \in Visible(snapshot)}

Impact(level) ==
  IF level \in {"critical", "serious"} THEN "error"
  ELSE IF level = "moderate" THEN "warn" ELSE "info"

First(s, n) == SubSeq(s, 1, Smaller(Len(s), n))

\* The violations of a report that are looked at.
Kept(report) ==
  LET first == First(report.violations, MaxViolations)
  IN  {v \in {first[k] : k \in DOMAIN first} : Filled(v.rule)}

\* import_a11y_violations: a finding per target, for the page when there is none.
Imported(snapshot, report) ==
  UNION {LET targets == IF v.targets = << >> THEN <<"page">> ELSE First(v.targets, MaxTargets)
         IN  {UiFinding(snapshot, "imported", Impact(v.impact), <<"axe", v.rule, targets[k]>>,
                      Nobody) : k \in DOMAIN targets}
         : v \in Kept(report)}

ImportIsCut(report) ==
  \/ report.cut
  \/ Len(report.violations) > MaxViolations
  \/ \E v \in Kept(report) : Len(v.targets) > MaxTargets
-----------------------------------------------------------------------------
(* Layout. *)

Hits(snapshot, node) == {h \in snapshot.hits : h.target = node.id}

\* What is on top of a control at a point does not keep the event from it: it
\* is part of the control or around it, lets the event through, or is meant to
\* lie there.
BlockerAllowed(snapshot, policy, node, topmost) ==
  \/ topmost = NoNode
  \/ SelfOrDescendant(snapshot, topmost, node.id)
  \/ SelfOrDescendant(snapshot, node.id, topmost)
  \/ LET blocker == NodeOf(snapshot, topmost)
     IN  ~blocker.pointer \/ blocker.decorative \/ OverlapAllowed(policy, blocker, node)

\* A control that loses at least the policy's share of its sampled points; the
\* one that takes most of them (the first of equals) is named.
Occlusion(snapshot, policy) ==
  LET Lost(n) == {h \in Hits(snapshot, n) :
                    ~BlockerAllowed(snapshot, policy, n, h.topmost)}
      Share(n) == (Cardinality(Lost(n)) * 1000) \div Cardinality(Hits(snapshot, n))
      Taken(n, id) == Cardinality({h \in Lost(n) : h.topmost = id})
      Most(n) == {h.topmost : h \in {g \in Lost(n) :
                    \A other \in Lost(n) : Taken(n, g.topmost) >= Taken(n, other.topmost)}}
      Blocker(n) == IF Lost(n) = {} THEN Nobody
                    ELSE Identity(NodeOf(snapshot, Min(Most(n))))
  IN  {About(snapshot, "occlusion", "error", n, Blocker(n)) :
         n \in {m \in Controls(snapshot) :
                  Hits(snapshot, m) # {} /\ Share(m) >= policy.occlusion}}

\* How far a rectangle leaves the viewport, 0 if it does not.
Outside(snapshot, r) ==
  Max({0, -r.x, -r.y, Right(r) - snapshot.width, Bottom(r) - snapshot.height})

\* A control outside the viewport that nothing scrolls back into it, and a page
\* that scrolls sideways.
Overflow(snapshot, policy) ==
  {About(snapshot, "overflow", "error", n, Nobody) :
     n \in {m \in Controls(snapshot) :
              /\ ~Scrolls(snapshot, m)
              /\ \E r \in VisibleBounds(m) : Outside(snapshot, r) > policy.tolerance}}
    \cup
  (IF /\ snapshot.client_width > 0
      /\ snapshot.page_width - snapshot.client_width > policy.tolerance
   THEN {UiFinding(snapshot, "overflow", "warn", <<"document">>, Nobody)} ELSE {})

\* Text its box does not show; an error when nothing else says what a control is.
Clipping(snapshot, policy) ==
  LET Cut(n) == \E t \in n.text : \/ t.sw - t.cw > policy.tolerance
                                  \/ t.sh - t.ch > policy.tolerance
      Severity(n) == IF Actionable(n) /\ ~Filled(n.name) THEN "error" ELSE "warn"
  IN  {About(snapshot, "clipping", Severity(n), n, Nobody) :
         n \in {m \in Visible(snapshot) :
                  Cut(m) /\ ~m.scrollable /\ ~TruncationAccepted(policy, m)}}

\* Of two rectangles with one left edge neither comes first.
SweepStrictly(snapshot) ==
  LET boxed == UNION {{n} \X {r \in VisibleBounds(n) : ~Hollow(r)} : n \in Controls(snapshot)}
  IN  {pair \in boxed \X boxed :
         /\ pair[1][2].x < pair[2][2].x
         /\ Right(pair[1][2]) > pair[2][2].x
         /\ Intersection(pair[1][2], pair[2][2]) # {}}

\* overlapping_pairs sweeps by the left edge: the earlier rectangle is compared
\* while its right edge is ahead.
Sweep(snapshot) ==
  LET Boxes(n) == {r \in VisibleBounds(n) : ~Hollow(r)}
      Before(a, b) == \/ a[2].x < b[2].x
                      \/ a[2].x = b[2].x /\ a[1].id < b[1].id
      boxed == UNION {{n} \X Boxes(n) : n \in Controls(snapshot)}
  IN  {pair \in boxed \X boxed :
         /\ Before(pair[1], pair[2])
         /\ Right(pair[1][2]) > pair[2][2].x
         /\ Intersection(pair[1][2], pair[2][2]) # {}}

\* A sample of the target shows the other one painted above it.
PaintsOver(snapshot, other, target) ==
  \E h \in Hits(snapshot, target) :
    /\ h.topmost # NoNode
    /\ SelfOrDescendant(snapshot, h.topmost, other.id)
    /\ ~SelfOrDescendant(snapshot, h.topmost, target.id)

\* Two controls that lie on each other, in the order the browser confirms: the
\* one collected first is asked first.
Overlap(snapshot, policy) ==
  LET pairs == {{p[1][1], p[2][1]} : p \in Sweep(snapshot)}
      Nested(a, b) == \/ SelfOrDescendant(snapshot, a.id, b.id)
                      \/ SelfOrDescendant(snapshot, b.id, a.id)
      Tops(a, b) == /\ {a, b} \in pairs /\ ~Nested(a, b)
                    /\ PaintsOver(snapshot, a, b)
                    /\ b.id < a.id \/ ~PaintsOver(snapshot, b, a)
      Ordered == {o \in Controls(snapshot) \X Controls(snapshot) : Tops(o[1], o[2])}
  IN  {UiFinding(snapshot, "overlap", "warn", Identity(o[2]), Identity(o[1])) :
         o \in {q \in Ordered : ~OverlapAllowed(policy, q[1], q[2])}}

\* detect; past MaxPairs the sweep stops, and what it says is no longer whole.
Detected(snapshot, policy) ==
  DuplicateIdentity(snapshot, "duplicate_id", "dom_id")
    \cup DuplicateIdentity(snapshot, "duplicate_test_id", "test_id")
    \cup Accessibility(snapshot) \cup AmbiguousInteractive(snapshot)
    \cup Occlusion(snapshot, policy) \cup Overflow(snapshot, policy)
    \cup Clipping(snapshot, policy) \cup Overlap(snapshot, policy)

DetectionIsCut(snapshot, policy) ==
  \/ snapshot.truncated
  \/ Cardinality(snapshot.nodes) > policy.max_nodes
  \/ Cardinality(Sweep(snapshot)) > MaxPairs
-----------------------------------------------------------------------------
(* analyse_ui_snapshots: everything one revision measured. *)

Layouts(result) == UNION {e.layout : e \in result.evidence}

\* The run fails on a snapshot that claims another revision or is not sound.
AnalysisFails(result, revision) ==
  \E s \in Layouts(result) : s.revision # revision \/ ~Sound(s)

\* One user action that sent the same mutating request more than once.
DuplicateMutations(snapshot, repeated) ==
  {UiFinding(snapshot, "duplicate_mutation", "error", request, Nobody) : request \in repeated}

\* A page that could not be collected, did not settle or was cut leaves the
\* measurement incomplete, as do network captures that may have missed a request.
Analysis(result, policy) ==
  LET seen == {e \in result.evidence : e.layout # {}}
      reports == UNION {e.axe : e \in seen}
      FindingsOf(e, s) ==
        Detected(s, policy) \cup DuplicateMutations(s, e.repeated)
          \cup UNION {Imported(s, r) : r \in {a \in e.axe : a.readable}}
  IN  [states |-> {StateKey(s) : s \in Layouts(result)},
       findings |-> UNION {UNION {FindingsOf(e, s) : s \in e.layout} : e \in seen},
       breakpoints |-> UNION {s.breakpoints : s \in Layouts(result)},
       blind |-> \E s \in Layouts(result) : ~s.complete,
       truncated |-> \/ ~result.listened
                     \/ \E e \in result.evidence : e.limited \/ e.layout = {}
                     \/ \E s \in Layouts(result) : DetectionIsCut(s, policy)
                     \/ \E r \in reports : ~r.readable \/ ImportIsCut(r)]
=============================================================================
