----------------------------- MODULE UiRatchet ------------------------------
(***************************************************************************)
(* Base against head: the ratchet of what two revisions measured, and the  *)
(* search for the viewport widths where a regression starts and ends.      *)
(*                                                                         *)
(* A probe measures both revisions at one width.  The search starts from   *)
(* the bounds of the range, some device widths and the breakpoints of the  *)
(* style sheets, and then halves the widest gap between two neighbours     *)
(* that disagree, until none is left or the budget is spent.               *)
(***************************************************************************)
EXTENDS UiDetect

CONSTANTS
  Width,      \* the widths a viewport may have
  Sentinel    \* RESPONSIVE_SENTINEL_WIDTHS

ASSUME WidthAssumption ==
  /\ Width \subseteq 1..MaxWidth /\ Sentinel \subseteq Width
  /\ MaxProbes \in Nat /\ MaxProbes >= 2

\* by_fingerprint: of the findings with one fingerprint the last detected stays.
ByFingerprint(findings) ==
  {f \in findings : \A g \in findings : Fingerprint(g) = Fingerprint(f) => g.node <= f.node}

Prints(findings) == {Fingerprint(f) : f \in findings}

\* ratchet: what only the head has is new, or returned if it was once fixed; it
\* is no regression where the base never looked.
Delta(base, head, previouslyFixed, policy) ==
  LET before == ByFingerprint(base.findings)
      after == ByFingerprint(head.findings)
      both == base.states \cap head.states
      live == {f \in after : Fingerprint(f) \notin policy.excepted}
      appeared == {f \in live : f.at \in both /\ Fingerprint(f) \notin Prints(before)}
      returned == {f \in appeared : Fingerprint(f) \in previouslyFixed}
  IN  [new |-> appeared \ returned, returned |-> returned,
       fixed |-> {f \in before : /\ Fingerprint(f) \notin Prints(after) \cup policy.excepted
                                 /\ f.at \in both},
       unmeasured |-> ((base.states \cup head.states) \ both)
                         \cup {f.at : f \in {g \in live : g.at \notin both}},
       truncated |-> base.truncated \/ head.truncated]

\* A side that could not be measured: truncated and without a state.
NothingSeen == [states |-> {}, findings |-> {}, breakpoints |-> {}, blind |-> FALSE,
                truncated |-> TRUE]
-----------------------------------------------------------------------------
(* The responsive search.  probes is a function from the widths measured to *)
(* their deltas.                                                           *)

\* responsive_probe_plan seeds the bounds first, then sentinels and breakpoints,
\* then the neighbours of breakpoints; each group is taken in ascending order
\* while the budget lasts.
Seeds(responsive, breakpoints) ==
  LET range == responsive.min..responsive.max
      bounds == {responsive.min, responsive.max}
      own == ((Sentinel \cup breakpoints) \cap range) \ bounds
      near == (range \cap UNION {{w - 1, w + 1} : w \in breakpoints \cap range})
                \ (own \cup bounds)
      Absorb(taken, group) ==
        {w \in group : Cardinality(taken) + Cardinality({v \in group : v <= w})
                         <= responsive.probes}
      second == bounds \cup Absorb(bounds, own)
  IN  IF ~responsive.enabled THEN {} ELSE second \cup Absorb(second, near)

\* The plan left out a seed.
PlanIsCut(responsive, breakpoints) ==
  LET all == Seeds([responsive EXCEPT !.probes = Cardinality(Width) + 2], breakpoints)
  IN  Seeds(responsive, breakpoints) # all

\* The responsive regressions at one width.
Regressions(probe) ==
  {<<"new", f>> : f \in {g \in probe.new : Responsive(g)}}
    \cup {<<"returned", f>> : f \in {g \in probe.returned : Responsive(g)}}

Regressed(probe) == {<<r[1], ResponsiveIdentity(r[2])>> : r \in Regressions(probe)}

\* Two measured widths with none between them.
Neighbours(probes) ==
  {pair \in (DOMAIN probes) \X (DOMAIN probes) :
     pair[1] < pair[2] /\ \A w \in DOMAIN probes : w <= pair[1] \/ w >= pair[2]}

\* The gaps that hide a transition.
Open(probes) ==
  {pair \in Neighbours(probes) :
     pair[2] - pair[1] > 1 /\ Regressed(probes[pair[1]]) # Regressed(probes[pair[2]])}

\* next_responsive_probe: the middle of the widest open gap, the leftmost of
\* equals; {} when there is none or limit probes were made.
NextProbe(limit, probes) ==
  LET gaps == Open(probes)
      widest == Max({g[2] - g[1] : g \in gaps})
      lefts == {g[1] : g \in {h \in gaps : h[2] - h[1] = widest}}
  IN  IF Cardinality(DOMAIN probes) >= limit \/ gaps = {} THEN {}
      ELSE {Min(lefts) + widest \div 2}

\* responsive_probe_incomplete
Incomplete(probe) == probe.truncated \/ probe.unmeasured # {}

\* measure_responsive_probe_with_retry: an incomplete probe is made once more, and
\* the second answer stays.
Retried(first, second) == IF Incomplete(first) THEN second ELSE first

\* One more width is measured.
Probed(probes, width, probe) ==
  [w \in DOMAIN probes \cup {width} |-> IF w = width THEN probe ELSE probes[w]]

\* A probe that was not whole does not count against the search.
SearchIsCutBySpan(probes) == NextProbe(MaxProbes, probes) # {}

\* The search says so when it could not see everything it had to.
SearchIsCut(probes) ==
  \/ \E w \in DOMAIN probes : Incomplete(probes[w])
  \/ NextProbe(MaxProbes, probes) # {}

\* responsive_failure_intervals: the runs of neighbouring widths with one
\* regression, and whether the width before and after proves the boundary.
Intervals(responsive, probes) ==
  LET Has(w, key) == key \in Regressed(probes[w])
      Run(v, w, key) == \A u \in DOMAIN probes : u \in v..w => Has(u, key)
      Shown(w, key) == CHOOSE r \in Regressions(probes[w]) :
                         <<r[1], ResponsiveIdentity(r[2])>> = key
      keys == UNION {Regressed(probes[w]) : w \in DOMAIN probes}
      spans == {s \in (DOMAIN probes) \X (DOMAIN probes) \X keys :
                  /\ s[1] <= s[2] /\ Run(s[1], s[2], s[3])
                  /\ \A pair \in Neighbours(probes) :
                       /\ pair[2] = s[1] => ~Has(pair[1], s[3])
                       /\ pair[1] = s[2] => ~Has(pair[2], s[3])}
  IN  {[key |-> s[3], first |-> s[1], last |-> s[2],
        lower |-> s[1] = responsive.min \/ s[1] - 1 \in DOMAIN probes,
        upper |-> s[2] = responsive.max \/ s[2] + 1 \in DOMAIN probes,
        finding |-> Shown(s[1], s[3])[2]] : s \in spans}
-----------------------------------------------------------------------------
(* ui_delta_document. *)

IsError(f) == f.severity = "error"

\* The references the verdict reads: the findings, and the intervals of their
\* kind.
References(kind, findings, intervals) ==
  {[subject |-> f.subject, severity |-> f.severity] :
     f \in findings \cup {i.finding : i \in {j \in intervals : j.key[1] = kind}}}

Document(delta, intervals, cut) ==
  [state |-> IF \E f \in delta.new \cup delta.returned \cup {i.finding : i \in intervals} :
                  IsError(f) THEN "blocking"
             ELSE IF delta.truncated \/ cut \/ delta.unmeasured # {} THEN "unmeasured"
             ELSE IF delta.new \cup delta.returned = {} THEN "clean" ELSE "warnings",
   new |-> References("new", delta.new, intervals),
   returned |-> References("returned", delta.returned, intervals)]
=============================================================================
