------------------------------ MODULE UiLayout ------------------------------
(***************************************************************************)
(* A layout snapshot (one page at one step and viewport, as the browser    *)
(* collected it) and the policy that says what of it is intended.          *)
(*                                                                         *)
(* Lengths are whole pixels.  An optional text is Absent, or a string; the *)
(* empty string stands for a blank one and Overlong for one longer than    *)
(* the collector may keep.  An optional fact is "true", "false" or Absent, *)
(* an optional rectangle or document a set of at most one.  Node ids are   *)
(* numbers in the order of collection, NoNode none.                        *)
(*   node      [id, parent, dom_id, test_id, role, name, hint, entity,     *)
(*              tag, input, oracle, focusable, labelled, native_disabled,  *)
(*              modal, focus_inside, aria, rects, clip, visible,           *)
(*              interactive, enabled, pointer, scrollable, decorative,     *)
(*              text: {} or {[sw, cw, sh, ch]}]                            *)
(*   snapshot  [schema, revision, program, step, route, width, height,     *)
(*              breakpoints, complete, page_width, client_width, nodes,    *)
(*              hits: [target, point, topmost, stack], truncated]          *)
(***************************************************************************)
EXTENDS Integers, FiniteSets, FiniteSetsExt

CONSTANTS
  SchemaV,         \* LAYOUT_SNAPSHOT_SCHEMA_V
  MaxNodes,        \* MAX_NODES
  MaxSamples,      \* MAX_HIT_TEST_SAMPLES
  MaxBreakpoints,  \* MAX_RESPONSIVE_BREAKPOINTS
  MaxProbes,       \* the most responsive probes a policy may ask for
  MaxWidth         \* the widest viewport or breakpoint anyone may name

Absent == "absent"
NoNode == 0
Overlong == "overlong"
PathLike == "a/b"

Filled(text) == text \notin {Absent, ""}
-----------------------------------------------------------------------------
(* Rectangles. *)

Rectangle == [x : Int, y : Int, w : Int, h : Int]

Right(r) == r.x + r.w
Bottom(r) == r.y + r.h
Area(r) == r.w * r.h
Hollow(r) == r.w <= 0 \/ r.h <= 0

Larger(a, b) == IF a >= b THEN a ELSE b
Smaller(a, b) == IF a <= b THEN a ELSE b

\* The shared region, {} when the two only touch.
Intersection(a, b) ==
  LET x == Larger(a.x, b.x)
      y == Larger(a.y, b.y)
      right == Smaller(Right(a), Right(b))
      bottom == Smaller(Bottom(a), Bottom(b))
  IN  IF right <= x \/ bottom <= y THEN {}
      ELSE {[x |-> x, y |-> y, w |-> right - x, h |-> bottom - y]}

\* The union of the client rectangles that have an extent.
Bounds(node) ==
  LET solid == {r \in node.rects : ~Hollow(r)}
      x == Min({r.x : r \in solid})
      y == Min({r.y : r \in solid})
  IN  IF solid = {} THEN {}
      ELSE {[x |-> x, y |-> y, w |-> Max({Right(r) : r \in solid}) - x,
             h |-> Max({Bottom(r) : r \in solid}) - y]}

\* A node as the collector numbers and measures it.
NodeIsMeasured(node) ==
  /\ node.id \in Nat
  /\ node.rects \cup node.clip \subseteq Rectangle /\ IsFiniteSet(node.rects)
  /\ \A a, b \in node.clip : a = b

VisibleBounds(node) ==
  IF node.clip = {} THEN Bounds(node)
  ELSE UNION {Intersection(b, c) : b \in Bounds(node), c \in node.clip}

Actionable(node) == node.visible /\ node.interactive /\ node.enabled /\ node.pointer
-----------------------------------------------------------------------------
(* Identity and ancestry. *)

Identity(node) ==
  IF Filled(node.test_id) THEN <<"testid", node.test_id>>
  ELSE IF Filled(node.dom_id) THEN <<"#", node.dom_id>>
  ELSE IF Filled(node.role) /\ Filled(node.name) THEN <<node.role, node.name>>
  ELSE IF Filled(node.role) THEN <<node.role, "<unnamed>">>
  ELSE IF Filled(node.name) THEN <<"text", node.name>>
  ELSE IF Filled(node.hint) THEN <<"component", node.hint>>
  ELSE <<"node", node.id>>

NodeOf(snapshot, id) == CHOOSE n \in snapshot.nodes : n.id = id

\* The k-th ancestor of a node, NoNode above the root; the node count bounds the
\* walk, so a cycle of parents ends.
Lineage(snapshot, id) ==
  LET up[k \in 0..Cardinality(snapshot.nodes)] ==
        IF k = 0 THEN id
        ELSE IF up[k - 1] = NoNode THEN NoNode ELSE NodeOf(snapshot, up[k - 1]).parent
  IN  up

Above(snapshot, id) ==
  LET up == Lineage(snapshot, id)
  IN  {up[k] : k \in DOMAIN up \ {0}} \ {NoNode}

SelfOrDescendant(snapshot, candidate, ancestor) ==
  candidate = ancestor \/ ancestor \in Above(snapshot, candidate)

\* The entity key of the nearest node at or above that has one.
ScopeOf(snapshot, id) ==
  LET up == Lineage(snapshot, id)
      keyed == {k \in DOMAIN up : up[k] # NoNode /\ Filled(NodeOf(snapshot, up[k]).entity)}
  IN  IF keyed = {} THEN Absent ELSE NodeOf(snapshot, up[Min(keyed)]).entity

Scrolls(snapshot, node) ==
  \E id \in Above(snapshot, node.id) : NodeOf(snapshot, id).scrollable

\* What base and head are compared by, with and without the viewport.
StateKey(snapshot) ==
  [place |-> <<snapshot.program, snapshot.step, snapshot.route>>, width |-> snapshot.width]
-----------------------------------------------------------------------------
(* LayoutSnapshot::validate. *)

NodeIsSound(node) ==
  /\ \A r \in node.rects \cup node.clip : r.w >= 0 /\ r.h >= 0
  /\ \A text \in {node.name, node.hint, node.entity, node.role, node.dom_id, node.test_id,
                  node.tag, node.input}
                   \cup {node.aria[a] : a \in DOMAIN node.aria} : text # Overlong
  /\ \A t \in node.text : {t.sw, t.cw, t.sh, t.ch} \subseteq Nat

\* A snapshot the detectors may reason about.
Sound(snapshot) ==
  LET ids == {n.id : n \in snapshot.nodes}
  IN  /\ snapshot.schema = SchemaV
      /\ Filled(snapshot.program) /\ snapshot.route # Overlong
      /\ snapshot.width > 0 /\ snapshot.height > 0
      /\ Cardinality(snapshot.breakpoints) <= MaxBreakpoints
      /\ snapshot.breakpoints \subseteq 1..MaxWidth
      /\ Cardinality(snapshot.nodes) <= MaxNodes
      /\ Cardinality(snapshot.hits) <= MaxSamples
      /\ Cardinality(ids) = Cardinality(snapshot.nodes)
      /\ \A n \in snapshot.nodes : NodeIsSound(n) /\ n.parent \in ids \cup {NoNode}
      /\ \A h \in snapshot.hits :
           {h.target} \cup ({h.topmost} \ {NoNode}) \cup h.stack \subseteq ids
-----------------------------------------------------------------------------
(* The policy: ui_integrity of config.yaml.  A section is                  *)
(*   [keys, enabled, max_nodes, tolerance, occlusion (permille),           *)
(*    responsive: [enabled, min, max, probes],                             *)
(*    overlaps: [top, bottom, reason, expires], truncations: [target,      *)
(*    full_value, reason, expires], exceptions: [print, ui, reason,        *)
(*    expires]]; keys are the names it uses, a date is a number, NoDate    *)
(*    none and BadDate one that is no ISO date.                            *)

NoDate == -1
BadDate == -2

Field == {"role", "name", "test_id", "hint", "dom_id"}

Blank(matcher) == \A f \in Field : matcher[f] = Absent

\* Every populated field must match, and an empty matcher matches nothing.
Matches(matcher, node) ==
  /\ ~Blank(matcher)
  /\ \A f \in Field : matcher[f] # Absent => node[f] = matcher[f]

\* A matcher names something, by its meaning and not by a path.
MatcherIsSound(matcher) ==
  /\ ~Blank(matcher)
  /\ \A f \in Field : matcher[f] \notin {"", PathLike}

Expired(rule, today) == rule.expires # NoDate /\ rule.expires < today

RuleIsSound(rule) == rule.reason # "" /\ rule.expires # BadDate

KnownKeys == {"enabled", "max_nodes", "geometry_tolerance_px", "occlusion_failure_ratio",
              "responsive", "allowed_overlaps", "accepted_text_truncation", "exceptions"}

\* parse_policy refuses what could silence a finding by accident.
PolicyIsSound(section) ==
  /\ section.keys \subseteq KnownKeys
  /\ section.max_nodes \in 1..MaxNodes /\ section.tolerance \in 0..64
  /\ section.occlusion \in 0..1000
  /\ section.responsive.min \in 1..MaxWidth /\ section.responsive.max \in 1..MaxWidth
  /\ section.responsive.min < section.responsive.max
  /\ section.responsive.probes \in 2..MaxProbes
  /\ \A rule \in section.overlaps :
       RuleIsSound(rule) /\ MatcherIsSound(rule.top) /\ MatcherIsSound(rule.bottom)
  /\ \A rule \in section.truncations : RuleIsSound(rule) /\ MatcherIsSound(rule.target)
  /\ \A rule \in section.exceptions :
       RuleIsSound(rule) /\ rule.ui /\ rule.reason # Absent

\* parse_policy of a sound section: expired allowances stop applying and stay
\* visible.
Policy(section, today) ==
  LET live(rules) == {r \in rules : ~Expired(r, today)}
  IN  [enabled |-> section.enabled, max_nodes |-> section.max_nodes,
       tolerance |-> section.tolerance, occlusion |-> section.occlusion,
       responsive |-> section.responsive, overlaps |-> live(section.overlaps),
       truncations |-> live(section.truncations),
       excepted |-> {r.print : r \in live(section.exceptions)},
       expired |-> (section.overlaps \ live(section.overlaps))
                     \cup (section.truncations \ live(section.truncations))
                     \cup (section.exceptions \ live(section.exceptions))]

OverlapAllowed(policy, top, bottom) ==
  \E rule \in policy.overlaps : Matches(rule.top, top) /\ Matches(rule.bottom, bottom)

\* An allowance that asks for the full value holds only while it is there.
TruncationAccepted(policy, node) ==
  \E rule \in policy.truncations :
    Matches(rule.target, node) /\ (rule.full_value => Filled(node.name))
=============================================================================
