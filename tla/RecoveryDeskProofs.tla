-------------------------- MODULE RecoveryDeskProofs --------------------------
(***************************************************************************)
(* Proofs about RecoveryDesk, for every change, every number of hosts and  *)
(* reviewers and every limit.  The argument: a desk never alters what it   *)
(* recovered, only the reviews; a review past PROPOSED has a report        *)
(* without a blocking finding and the digest of its candidate's sentence;  *)
(* the identifiers in a review point at recorded decisions of the right    *)
(* role about this candidate, made on a sentence with that digest, and     *)
(* what has been recorded stays; so whatever is sealed carries its reasons *)
(* with it.                                                                *)
(***************************************************************************)
EXTENDS RecoveryDesk, TLAPS

-----------------------------------------------------------------------------
(* The invariant *)

State == {"RECOVERED", "PROPOSED", "AUTO_CHECKED", "QA_REVIEW", "QA_VERIFIED",
          "PRODUCT_DECISION_REQUIRED", "PRODUCT_APPROVED", "REJECTED", "OBSERVED_ONLY",
          "SEALED"}

Ids(t) == DOMAIN Recovered[t].reviews

AllIds  == UNION {Ids(t) : t \in DOMAIN Delta}
Texts   == {Recovered[t].candidates[i].text : t \in DOMAIN Delta,
                i \in UNION {DOMAIN Recovered[u].candidates : u \in DOMAIN Delta}}
Digests == {CandidateDigest(text) : text \in Texts}

Review == [state : State, digest : Digests, qa : Nat \cup {None},
           product : Nat \cup {None}, requiresProduct : BOOLEAN]

\* What Open installs, with other reviews.
DeskOf(t) ==
    [of : {t}, candidates : {Recovered[t].candidates}, report : {Recovered[t].report},
     reviews : [Ids(t) -> Review], packet : {Recovered[t].packet},
     questions : {Recovered[t].questions}]

Desks == UNION {DeskOf(t) : t \in DOMAIN Delta}

Made == [candidate : AllIds, text : Texts, digest : Digests,
         role : {"qa", "product", "developer"}, decision : Decision]

TypeOK ==
    /\ tree \in DOMAIN Delta
    /\ desk \in [Host -> Desks \cup {None}]
    /\ seen \in [Reviewer -> [candidate : AllIds, text : Texts, digest : Digests] \cup {None}]
    /\ made \in Seq(Made)

\* Decision i of m, those recorded, is of this role and about the candidate id, and was
\* made on a sentence with this digest.
Counts(m, i, id, digest, role) ==
    /\ i \in DOMAIN m /\ m[i].role = role /\ m[i].candidate = id
    /\ CandidateDigest(m[i].text) = digest

\* The digest of the sentence that desk t has under id.
DigestOf(t, id) == CandidateDigest(Recovered[t].candidates[id[1]].text)

\* A review is of its candidate's sentence, points at decisions on it, and moved on only
\* when the checks of its desk let it.
ReviewRests(m, t, id, v) ==
    /\ v.digest = DigestOf(t, id)
    /\ v.qa # None => Counts(m, v.qa, id, v.digest, "qa")
    /\ v.product # None =>
          /\ Counts(m, v.product, id, v.digest, "product")
          /\ v.state \in {"PRODUCT_APPROVED", "REJECTED", "SEALED"}
    /\ v.state = "QA_VERIFIED" => v.qa # None /\ m[v.qa].decision \in SealEligible
    /\ v.state = "PRODUCT_APPROVED" =>
          v.product # None /\ m[v.product].decision \in SealEligible
    /\ v.state \notin {"RECOVERED", "PROPOSED"} =>
          /\ ~ BlocksReview(Recovered[t].report)
          /\ v.requiresProduct \/ ~ OracleIsWeak(Recovered[t].report.confidence[id])

DesksRest ==
    \A h \in Host : desk[h] # None =>
        \A id \in DOMAIN desk[h].reviews : ReviewRests(made, desk[h].of, id, desk[h].reviews[id])

\* The same of what was sealed, whatever became of the desk.
SealRests(m, s, t, id) ==
    /\ s.of = t /\ s.candidate = Recovered[t].candidates[id[1]]
    /\ ~ BlocksReview(Recovered[t].report)
    /\ Counts(m, s.qa, id, DigestOf(t, id), "qa")
    /\ s.product = None =>
          /\ m[s.qa].decision \in SealEligible
          /\ ~ OracleIsWeak(Recovered[t].report.confidence[id])
    /\ s.product # None =>
          /\ Counts(m, s.product, id, DigestOf(t, id), "product")
          /\ m[s.product].decision \in SealEligible

SealsRest == \A s \in sealed : \E t \in DOMAIN Delta : \E id \in Ids(t) : SealRests(made, s, t, id)

\* What a reviewer takes along is a sentence with its digest.
SeenWhole == \A r \in Reviewer :
    seen[r] # None => seen[r].digest = CandidateDigest(seen[r].text)

IInv == TypeOK /\ SeenWhole /\ DesksRest /\ SealsRest

-----------------------------------------------------------------------------
(* What is recovered *)

\* The identifier of a candidate says where it stands in the list; a candidate about a
\* surface the change adds or removes is one about an endpoint.
LEMMA CandidateAtIndex ==
  ASSUME NEW d, NEW i \in DOMAIN RecoveryCandidates(d)
  PROVE  LET c == RecoveryCandidates(d)[i]
         IN  /\ c.id[1] = i
             /\ c.subject \in d.added \cup d.removed => c.endpoint
             /\ c.endpoint \in BOOLEAN
<1> DEFINE c == RecoveryCandidates(d)[i]
<1>1. /\ c.id = <<i, c.subject>>
      /\ c.endpoint = (c.subject \in d.added \cup d.removed)
  BY Zenon DEF RecoveryCandidates
<1>2. <<i, c.subject>>[1] = i
  OBVIOUS
<1> HIDE DEF c
<1>3. c.id[1] = i
  BY <1>1, <1>2
<1>4. /\ c.subject \in d.added \cup d.removed => c.endpoint
      /\ c.endpoint \in BOOLEAN
  <2>1. CASE c.subject \in d.added \cup d.removed
    <3>1. (c.subject \in d.added \cup d.removed) = TRUE
      BY <2>1
    <3>2. c.endpoint = TRUE
      BY <1>1, <3>1, Zenon
    <3> QED BY <3>2
  <2>2. CASE c.subject \notin d.added \cup d.removed
    <3>1. (c.subject \in d.added \cup d.removed) = FALSE
      BY <2>2
    <3>2. c.endpoint = FALSE
      BY <1>1, <3>1, Zenon
    <3> QED BY <2>2, <3>2
  <2> QED BY <2>1, <2>2
<1> QED BY <1>3, <1>4 DEF c

\* Every part of a desk as Open installs it.
LEMMA RecoveredParts ==
  ASSUME NEW t \in DOMAIN Delta
  PROVE  LET d == Recovered[t]
             candidates == RecoveryCandidates(Delta[t])
         IN  /\ d = Recover(t)
             /\ d.of = t
             /\ d.candidates = candidates
             /\ d.report = VerifyCandidates(candidates, Delta[t])
             /\ Ids(t) = {candidates[i].id : i \in DOMAIN candidates}
             /\ d.reviews = [id \in Ids(t) |-> Opened(candidates[id[1]], d.report)]
<1>1. Recovered[t] = Recover(t)
  BY DEF Recovered
<1> QED BY <1>1 DEF Recover, Ids

\* A review is of the candidate at the place its identifier names.
LEMMA CandidateOfId ==
  ASSUME NEW t \in DOMAIN Delta, NEW id \in Ids(t)
  PROVE  LET d == Recovered[t]
         IN  /\ id[1] \in DOMAIN d.candidates
             /\ d.candidates[id[1]].id = id
             /\ d.report.confidence[id] = Assess(d.candidates[id[1]].evidence)
<1> DEFINE cs == RecoveryCandidates(Delta[t])
<1>1. Recovered[t].candidates = cs /\ Recovered[t].report = VerifyCandidates(cs, Delta[t])
      /\ Ids(t) = {cs[i].id : i \in DOMAIN cs}
  BY RecoveredParts
<1>2. PICK i \in DOMAIN cs : id = cs[i].id
  BY <1>1
<1>3. id[1] = i
  BY <1>2, CandidateAtIndex
<1>4. VerifyCandidates(cs, Delta[t]).confidence[id] = Assess(cs[id[1]].evidence)
  BY <1>1 DEF VerifyCandidates
<1> QED BY <1>1, <1>2, <1>3, <1>4

\* A desk opens with every candidate proposed, and in QA's hands where no check blocks.
LEMMA OpenedRests ==
  ASSUME NEW t \in DOMAIN Delta, NEW id \in Ids(t)
  PROVE  LET v == Recovered[t].reviews[id]
         IN  /\ v \in Review
             /\ ReviewRests(made, t, id, v)
<1> DEFINE c == Recovered[t].candidates[id[1]]
           report == Recovered[t].report
           v == Recovered[t].reviews[id]
<1>1. v = Opened(c, report)
  <2>1. /\ Recovered[t].candidates = RecoveryCandidates(Delta[t])
        /\ Recovered[t].reviews =
              [k \in Ids(t) |-> Opened(RecoveryCandidates(Delta[t])[k[1]], report)]
    BY RecoveredParts
  <2> QED BY <2>1
<1>2. c.id = id /\ id[1] \in DOMAIN Recovered[t].candidates
  BY CandidateOfId
<1>3. c.text \in Texts /\ CandidateDigest(c.text) \in Digests
  BY <1>2 DEF Texts, Digests
<1>4. CASE BlocksReview(report)
  <2>1. v = [NewReview(c) EXCEPT !.state = "PROPOSED"]
    BY <1>1, <1>4 DEF Opened, AutoCheck, NewReview
  <2> QED BY <2>1, <1>3 DEF NewReview, Review, State, ReviewRests, DigestOf
<1>5. CASE ~ BlocksReview(report)
  <2>1. /\ v.state = "QA_REVIEW" /\ v.qa = None /\ v.product = None
        /\ v.requiresProduct = OracleIsWeak(report.confidence[id])
        /\ v = [NewReview(c) EXCEPT !.state = "QA_REVIEW",
                                    !.requiresProduct = OracleIsWeak(report.confidence[id])]
    BY <1>1, <1>2, <1>5 DEF Opened, AutoCheck, NewReview
  <2>2. OracleIsWeak(report.confidence[id]) \in BOOLEAN
    BY DEF OracleIsWeak
  <2>3. v \in Review
    BY <2>1, <2>2, <1>3 DEF NewReview, Review, State
  <2>4. v.digest = DigestOf(t, id)
    BY <2>1 DEF NewReview, DigestOf
  <2> QED BY <2>1, <2>3, <2>4, <1>5 DEF ReviewRests
<1> QED BY <1>4, <1>5

\* A finding that one check makes of one candidate is in the report.
LEMMA FindingsOfChecks ==
  ASSUME NEW cs, NEW d, NEW i \in DOMAIN cs,
         ~ BlocksReview(VerifyCandidates(cs, d))
  PROVE  /\ CheckDuplicate(cs[i], d) = {}
         /\ CheckCode(cs[i], d) = {}
         /\ \A k \in DOMAIN cs : cs[k].subject = cs[i].subject => cs[k].holds = cs[i].holds
<1> DEFINE found == VerifyCandidates(cs, d).findings
<1>1. \A f \in found : f.kind = "weak_oracle_independence"
  BY DEF BlocksReview
<1>2. ASSUME NEW k \in CheckDuplicate(cs[i], d) \cup CheckCode(cs[i], d)
      PROVE  [candidate |-> cs[i].id, kind |-> k] \in found
  BY <1>2 DEF VerifyCandidates
<1>3. \A k \in CheckDuplicate(cs[i], d) \cup CheckCode(cs[i], d) : k # "weak_oracle_independence"
  BY DEF CheckDuplicate, CheckCode
<1>4. CheckDuplicate(cs[i], d) \cup CheckCode(cs[i], d) = {}
  BY <1>1, <1>2, <1>3
<1>5. ASSUME NEW k \in DOMAIN cs, cs[k].subject = cs[i].subject, cs[k].holds # cs[i].holds
      PROVE  FALSE
  <2>1. [candidate |-> cs[i].id, kind |-> "internal_contradiction"] \in CheckContradiction(cs)
    BY <1>5 DEF CheckContradiction
  <2>2. CheckContradiction(cs) \subseteq found
    BY DEF VerifyCandidates
  <2> QED BY <2>1, <2>2, <1>1
<1> QED BY <1>4, <1>5

-----------------------------------------------------------------------------
(* What a step leaves in place *)

\* A desk that is open is one the tree could have opened.
LEMMA DeskParts ==
  ASSUME TypeOK, NEW h \in Host, desk[h] # None
  PROVE  /\ desk[h].of \in DOMAIN Delta
         /\ desk[h] \in DeskOf(desk[h].of)
         /\ desk[h].candidates = Recovered[desk[h].of].candidates
         /\ desk[h].reviews \in [Ids(desk[h].of) -> Review]
<1>1. PICK t \in DOMAIN Delta : desk[h] \in DeskOf(t)
  <2>1. desk[h] \in Desks
    BY DEF TypeOK
  <2> QED BY <2>1, Zenon DEF Desks
<1> QED BY <1>1 DEF DeskOf

\* Changing one review of one desk changes nothing else of any desk.
LEMMA DeskUpdate ==
  ASSUME TypeOK, NEW h \in Host, desk[h] # None,
         NEW id \in DOMAIN desk[h].reviews, NEW v \in Review,
         desk' = [desk EXCEPT ![h].reviews[id] = v]
  PROVE  /\ desk' \in [Host -> Desks \cup {None}]
         /\ desk'[h].of = desk[h].of
         /\ desk'[h].reviews = [desk[h].reviews EXCEPT ![id] = v]
         /\ \A g \in Host : g # h => desk'[g] = desk[g]
<1> DEFINE t == desk[h].of
<1>1. t \in DOMAIN Delta /\ desk[h] \in DeskOf(t) /\ desk[h].reviews \in [Ids(t) -> Review]
  BY DeskParts
<1>2. DOMAIN desk = Host /\ desk'[h] = [desk[h] EXCEPT !.reviews[id] = v]
  BY DEF TypeOK
<1>3. [desk[h].reviews EXCEPT ![id] = v] \in [Ids(t) -> Review]
  BY <1>1
<1>4. /\ desk'[h] \in DeskOf(t)
      /\ desk'[h].of = desk[h].of
      /\ desk'[h].reviews = [desk[h].reviews EXCEPT ![id] = v]
  BY <1>1, <1>2, <1>3 DEF DeskOf
<1>5. \A g \in Host : g # h => desk'[g] = desk[g]
  BY DEF TypeOK
<1>6. DOMAIN desk' = Host /\ desk' = [g \in Host |-> desk'[g]]
  BY DEF TypeOK
<1>7. desk'[h] \in Desks
  BY <1>1, <1>4, Zenon DEF Desks
<1>8. \A g \in Host : desk'[g] \in Desks \cup {None}
  BY <1>5, <1>7 DEF TypeOK
<1> QED BY <1>4, <1>5, <1>6, <1>8

\* A decision is recorded behind the others.
LEMMA MadeGrows ==
  ASSUME NEW m \in Seq(Made), NEW d \in Made
  PROVE  /\ Append(m, d) \in Seq(Made)
         /\ Len(m) + 1 \in Nat /\ Len(m) + 1 \in DOMAIN Append(m, d)
         /\ Append(m, d)[Len(m) + 1] = d
         /\ \A i \in DOMAIN m : i \in DOMAIN Append(m, d) /\ Append(m, d)[i] = m[i]
OBVIOUS

\* What rested on the decisions recorded rests on them when there are more.
LEMMA RestsGrow ==
  ASSUME NEW m, NEW n, \A i \in DOMAIN m : i \in DOMAIN n /\ n[i] = m[i]
  PROVE  /\ \A t, id, v : ReviewRests(m, t, id, v) => ReviewRests(n, t, id, v)
         /\ \A s, t, id : SealRests(m, s, t, id) => SealRests(n, s, t, id)
BY DEF ReviewRests, SealRests, Counts

-----------------------------------------------------------------------------
(* The steps *)

LEMMA InitEstablishes == Init => IInv
<1> SUFFICES ASSUME Init PROVE IInv
  OBVIOUS
<1>1. tree \in DOMAIN Delta
  <2>1. 1 \in DOMAIN Delta /\ \A y \in DOMAIN Delta : 1 <= y
    BY DeltaAssumption
  <2>2. Min(DOMAIN Delta) \in DOMAIN Delta
    BY <2>1 DEF Min
  <2> QED BY <2>2 DEF Init
<1>2. TypeOK
  <2>1. <<>> \in Seq(Made)
    OBVIOUS
  <2> QED BY <1>1, <2>1 DEF Init, TypeOK
<1> QED BY <1>2 DEF Init, IInv, SeenWhole, DesksRest, SealsRest

LEMMA EditKeeps == ASSUME IInv, Edit PROVE IInv'
<1>1. TypeOK'
  BY DEF Edit, IInv, TypeOK
<1> QED BY <1>1 DEF Edit, IInv, SeenWhole, DesksRest, SealsRest

LEMMA OpenKeeps == ASSUME IInv, NEW h \in Host, Open(h) PROVE IInv'
<1> DEFINE d == Recovered[tree]
<1>1. /\ tree \in DOMAIN Delta
      /\ desk' = [desk EXCEPT ![h] = d]
      /\ UNCHANGED <<tree, seen, made, sealed>>
  BY DEF Open, IInv, TypeOK
<1>2. \A id \in Ids(tree) : d.reviews[id] \in Review /\ ReviewRests(made, tree, id, d.reviews[id])
  BY <1>1, OpenedRests
<1>3. d = Recover(tree) /\ d.of = tree /\ DOMAIN d.reviews = Ids(tree)
  BY <1>1, RecoveredParts DEF Ids
<1>4. d.reviews \in [Ids(tree) -> Review]
  <2>1. d.reviews = [id \in Ids(tree) |-> Opened(d.candidates[id[1]], d.report)]
    BY <1>1, RecoveredParts
  <2> QED BY <1>2, <2>1
<1>5. d \in Desks
  <2>1. d \in DeskOf(tree)
    BY <1>3, <1>4 DEF Recover, DeskOf
  <2> QED BY <1>1, <2>1, Zenon DEF Desks
<1>6. TypeOK'
  BY <1>1, <1>5 DEF IInv, TypeOK
<1>7. ASSUME NEW g \in Host, desk'[g] # None, NEW id \in DOMAIN desk'[g].reviews
      PROVE  ReviewRests(made', desk'[g].of, id, desk'[g].reviews[id])
  <2>1. CASE g = h
    BY <1>1, <1>2, <1>3, <1>7, <2>1 DEF IInv, TypeOK
  <2>2. CASE g # h
    BY <1>1, <1>7, <2>2 DEF IInv, TypeOK, DesksRest
  <2> QED BY <2>1, <2>2
<1>8. SealsRest' /\ SeenWhole'
  BY <1>1 DEF IInv, SealsRest, SeenWhole
<1> QED BY <1>6, <1>7, <1>8 DEF IInv, DesksRest

LEMMA CloseKeeps == ASSUME IInv, NEW h \in Host, Close(h) PROVE IInv'
<1>1. desk' = [desk EXCEPT ![h] = None] /\ UNCHANGED <<tree, seen, made, sealed>>
  BY DEF Close
<1>2. TypeOK'
  <2>1. desk' \in [Host -> Desks \cup {None}]
    BY <1>1 DEF IInv, TypeOK
  <2> QED BY <1>1, <2>1 DEF IInv, TypeOK
<1>3. DesksRest'
  BY <1>1 DEF IInv, TypeOK, DesksRest
<1> QED BY <1>1, <1>2, <1>3 DEF IInv, SeenWhole, SealsRest

LEMMA LookKeeps ==
  ASSUME IInv, NEW r \in Reviewer, NEW h \in Host, NEW id, Look(r, h, id)
  PROVE  IInv'
<1> DEFINE read == [candidate |-> id, text |-> desk[h].candidates[id[1]].text,
                    digest |-> desk[h].reviews[id].digest]
<1>1. /\ desk[h] # None /\ id \in DOMAIN desk[h].reviews
      /\ seen' = [seen EXCEPT ![r] = read]
      /\ UNCHANGED <<tree, desk, made, sealed>>
  BY DEF Look, Knows
<1> DEFINE t == desk[h].of
<1>2. /\ t \in DOMAIN Delta /\ desk[h].candidates = Recovered[t].candidates
      /\ desk[h].reviews \in [Ids(t) -> Review]
  BY <1>1, DeskParts DEF IInv
<1>3. id \in Ids(t) /\ id[1] \in DOMAIN Recovered[t].candidates
  BY <1>1, <1>2, CandidateOfId
<1>4. id \in AllIds /\ read.text \in Texts /\ read.digest \in Digests
  <2>1. id \in AllIds
    BY <1>2, <1>3, Zenon DEF AllIds
  <2>2. read.text \in Texts
    BY <1>2, <1>3 DEF Texts
  <2>3. read.digest \in Digests
    BY <1>1, <1>2 DEF Review
  <2> QED BY <2>1, <2>2, <2>3
<1>5. read \in [candidate : AllIds, text : Texts, digest : Digests]
  BY <1>4
<1>6. TypeOK'
  BY <1>1, <1>5 DEF IInv, TypeOK
<1>7. read.digest = CandidateDigest(read.text)
  BY <1>1, <1>2 DEF IInv, DesksRest, ReviewRests, DigestOf
<1>8. SeenWhole'
  BY <1>1, <1>7 DEF IInv, TypeOK, SeenWhole
<1> QED BY <1>1, <1>6, <1>8 DEF IInv, DesksRest, SealsRest

LEMMA SealKeeps ==
  ASSUME IInv, NEW h \in Host, NEW id, Seal(h, id)
  PROVE  IInv'
<1> DEFINE t == desk[h].of
           v == desk[h].reviews[id]
           w == [v EXCEPT !.state = "SEALED"]
           s == [candidate |-> desk[h].candidates[id[1]], of |-> desk[h].of,
                 qa |-> desk[h].reviews[id].qa, product |-> desk[h].reviews[id].product]
<1>1. /\ desk[h] # None /\ id \in DOMAIN desk[h].reviews /\ MaySeal(v)
      /\ desk' = [desk EXCEPT ![h].reviews[id].state = "SEALED"]
      /\ sealed' = sealed \cup {s}
      /\ UNCHANGED <<tree, seen, made>>
  BY DEF Seal, Knows
<1>2. /\ t \in DOMAIN Delta /\ desk[h].candidates = Recovered[t].candidates
      /\ desk[h].reviews \in [Ids(t) -> Review]
  BY <1>1, DeskParts DEF IInv
<1>3. id \in Ids(t) /\ v \in Review /\ ReviewRests(made, t, id, v)
  BY <1>1, <1>2 DEF IInv, DesksRest
<1>4. w \in Review /\ desk' = [desk EXCEPT ![h].reviews[id] = w]
  BY <1>1, <1>3 DEF Review, State
<1>5. /\ desk' \in [Host -> Desks \cup {None}]
      /\ desk'[h].of = t
      /\ desk'[h].reviews = [desk[h].reviews EXCEPT ![id] = w]
      /\ \A g \in Host : g # h => desk'[g] = desk[g]
  BY <1>1, <1>4, DeskUpdate DEF IInv
<1>6. TypeOK'
  BY <1>1, <1>5 DEF IInv, TypeOK
<1>7. ReviewRests(made, t, id, w)
  BY <1>1, <1>3 DEF ReviewRests, MaySeal, Review
<1>8. ASSUME NEW g \in Host, desk'[g] # None, NEW k \in DOMAIN desk'[g].reviews
      PROVE  ReviewRests(made, desk'[g].of, k, desk'[g].reviews[k])
  <2>1. CASE g # h
    BY <1>5, <1>8, <2>1 DEF IInv, DesksRest
  <2>2. CASE g = h /\ k # id
    BY <1>1, <1>2, <1>5, <1>8, <2>2 DEF IInv, DesksRest
  <2>3. CASE g = h /\ k = id
    BY <1>2, <1>3, <1>5, <1>7, <2>3
  <2> QED BY <2>1, <2>2, <2>3
<1>9. SealRests(made, s, t, id)
  BY <1>1, <1>2, <1>3 DEF SealRests, ReviewRests, MaySeal, Review
<1>10. SealsRest'
  BY <1>1, <1>2, <1>3, <1>9 DEF IInv, SealsRest
<1>11. DesksRest' /\ SeenWhole'
  BY <1>1, <1>8 DEF DesksRest, IInv, SeenWhole
<1> QED BY <1>6, <1>10, <1>11 DEF IInv

\* A review after a decision that fits it rests on what is recorded then.
LEMMA QaRests ==
  ASSUME NEW m \in Seq(Made), NEW d \in Made, NEW t, NEW id, NEW v \in Review,
         ReviewRests(m, t, id, v), v.state = "QA_REVIEW", d.role = "qa", d.candidate = id,
         CandidateDigest(d.text) = v.digest
  PROVE  /\ RecordQa(v, d, Len(m) + 1) \in Review
         /\ ReviewRests(Append(m, d), t, id, RecordQa(v, d, Len(m) + 1))
<1> DEFINE i == Len(m) + 1
           n == Append(m, d)
           w == RecordQa(v, d, i)
<1>1. i \in Nat /\ i \in DOMAIN n /\ n[i] = d /\ \A k \in DOMAIN m : k \in DOMAIN n /\ n[k] = m[k]
  BY MadeGrows
<1> HIDE DEF i, n
<1>2. v.product = None
  BY DEF ReviewRests
<1>3. /\ w.qa = i /\ w.product = None
      /\ w.digest = v.digest
      /\ w.requiresProduct = (v.requiresProduct \/ d.decision \in Escalates)
      /\ w.state \in {"OBSERVED_ONLY", "PRODUCT_DECISION_REQUIRED", "QA_VERIFIED", "REJECTED"}
      /\ w.state = "QA_VERIFIED" => d.decision \in SealEligible
  BY <1>2 DEF RecordQa, Review
<1>4. w.requiresProduct \in BOOLEAN
  BY <1>3
<1>5. w \in Review
  BY <1>1, <1>2, <1>3, <1>4 DEF RecordQa, Review, State
<1>6. /\ ~ BlocksReview(Recovered[t].report)
      /\ v.requiresProduct \/ ~ OracleIsWeak(Recovered[t].report.confidence[id])
  BY DEF ReviewRests
<1>7. w.requiresProduct \/ ~ OracleIsWeak(Recovered[t].report.confidence[id])
  BY <1>3, <1>6
<1>8. i # None
  BY <1>1, NoneAssumption
<1>9. ReviewRests(n, t, id, w)
  BY <1>1, <1>3, <1>6, <1>7, <1>8 DEF ReviewRests, Counts
<1> QED BY <1>5, <1>9 DEF i, n

LEMMA ProductRests ==
  ASSUME NEW m \in Seq(Made), NEW d \in Made, NEW t, NEW id, NEW v \in Review,
         ReviewRests(m, t, id, v), v.state = "PRODUCT_DECISION_REQUIRED",
         d.role = "product", d.candidate = id, CandidateDigest(d.text) = v.digest
  PROVE  /\ RecordProduct(v, d, Len(m) + 1) \in Review
         /\ ReviewRests(Append(m, d), t, id, RecordProduct(v, d, Len(m) + 1))
<1> DEFINE i == Len(m) + 1
           n == Append(m, d)
           w == RecordProduct(v, d, i)
<1>1. i \in Nat /\ i \in DOMAIN n /\ n[i] = d /\ \A k \in DOMAIN m : k \in DOMAIN n /\ n[k] = m[k]
  BY MadeGrows
<1> HIDE DEF i, n
<1>2. /\ w.qa = v.qa /\ w.product = i
      /\ w.digest = v.digest /\ w.requiresProduct = v.requiresProduct
      /\ w.state \in {"PRODUCT_APPROVED", "REJECTED"}
      /\ w.state = "PRODUCT_APPROVED" => d.decision \in SealEligible
  BY DEF RecordProduct, Review
<1>3. w \in Review
  BY <1>1 DEF RecordProduct, Review, State
<1>4. i # None
  BY <1>1, NoneAssumption
<1>5. ReviewRests(n, t, id, w)
  BY <1>1, <1>2, <1>4 DEF ReviewRests, Counts
<1> QED BY <1>3, <1>5 DEF i, n

LEMMA DecideKeeps ==
  ASSUME IInv, NEW r \in Reviewer, NEW h \in Host, NEW decision \in Tried,
         Decide(r, h, decision)
  PROVE  IInv'
<1> DEFINE id == seen[r].candidate
           t == desk[h].of
           v == desk[h].reviews[id]
           d == [candidate |-> id, text |-> seen[r].text, digest |-> seen[r].digest,
                 role |-> RoleOf[r], decision |-> decision]
           i == Len(made) + 1
<1>1. /\ seen[r] # None /\ desk[h] # None /\ id \in DOMAIN desk[h].reviews
      /\ made' = Append(made, d)
      /\ UNCHANGED <<tree, seen, sealed>>
  BY DEF Decide, Knows
<1>2. \/ /\ v.state = "PRODUCT_DECISION_REQUIRED" /\ d.role = "product"
         /\ d.digest = v.digest
         /\ desk' = [desk EXCEPT ![h].reviews[id] = RecordProduct(v, d, i)]
      \/ /\ v.state = "QA_REVIEW" /\ d.role = "qa" /\ d.digest = v.digest
         /\ desk' = [desk EXCEPT ![h].reviews[id] = RecordQa(v, d, i)]
  BY DEF Decide, Fits
<1>3. made \in Seq(Made) /\ d \in Made
  <2>1. seen[r] \in [candidate : AllIds, text : Texts, digest : Digests]
    BY <1>1 DEF IInv, TypeOK
  <2> QED BY <2>1, RoleAssumption, TriedAssumption DEF IInv, TypeOK, Made
<1>4. /\ t \in DOMAIN Delta /\ desk[h].reviews \in [Ids(t) -> Review]
  BY <1>1, DeskParts DEF IInv
<1>5. /\ id \in Ids(t) /\ v \in Review /\ ReviewRests(made, t, id, v) /\ d.candidate = id
      /\ CandidateDigest(d.text) = d.digest
  BY <1>1, <1>4 DEF IInv, DesksRest, SeenWhole
<1>6. PICK w \in Review : ReviewRests(made', t, id, w)
                          /\ desk' = [desk EXCEPT ![h].reviews[id] = w]
  <2> HIDE DEF d, v, id, t
  <2> QED BY <1>1, <1>2, <1>3, <1>5, QaRests, ProductRests
<1>7. /\ desk' \in [Host -> Desks \cup {None}]
      /\ desk'[h].of = t
      /\ desk'[h].reviews = [desk[h].reviews EXCEPT ![id] = w]
      /\ \A g \in Host : g # h => desk'[g] = desk[g]
  BY <1>1, <1>6, DeskUpdate DEF IInv
<1>8. /\ made' \in Seq(Made)
      /\ \A k \in DOMAIN made : k \in DOMAIN made' /\ made'[k] = made[k]
  BY <1>1, <1>3, MadeGrows
<1>9. TypeOK'
  BY <1>1, <1>7, <1>8 DEF IInv, TypeOK
<1>10. /\ \A u, k, x : ReviewRests(made, u, k, x) => ReviewRests(made', u, k, x)
       /\ \A s, u, k : SealRests(made, s, u, k) => SealRests(made', s, u, k)
  BY <1>8, RestsGrow
<1>11. ASSUME NEW g \in Host, desk'[g] # None, NEW k \in DOMAIN desk'[g].reviews
       PROVE  ReviewRests(made', desk'[g].of, k, desk'[g].reviews[k])
  <2>1. CASE g # h
    BY <1>7, <1>10, <1>11, <2>1 DEF IInv, DesksRest
  <2>2. CASE g = h /\ k # id
    BY <1>1, <1>4, <1>7, <1>10, <1>11, <2>2 DEF IInv, DesksRest
  <2>3. CASE g = h /\ k = id
    BY <1>4, <1>5, <1>6, <1>7, <2>3
  <2> QED BY <2>1, <2>2, <2>3
<1>12. DesksRest'
  BY <1>11 DEF DesksRest
<1>13. SealsRest' /\ SeenWhole'
  BY <1>1, <1>10 DEF IInv, SealsRest, SeenWhole
<1> QED BY <1>9, <1>12, <1>13 DEF IInv

-----------------------------------------------------------------------------
(* The theorems *)

\* Every step of the hosts and the reviewers keeps the invariant.
THEOREM DeskInvariant == Spec => []IInv
<1>1. IInv /\ [Next]_vars => IInv'
  <2> SUFFICES ASSUME IInv, [Next]_vars PROVE IInv'
    OBVIOUS
  <2>1. CASE Edit
    BY <2>1, EditKeeps
  <2>2. CASE \E h \in Host : Open(h) \/ Close(h)
    BY <2>2, OpenKeeps, CloseKeeps
  <2>3. CASE \E h \in Host : desk[h] # None /\ \E id \in DOMAIN desk[h].reviews :
                \/ \E r \in Reviewer : Look(r, h, id)
                \/ Seal(h, id)
    BY <2>3, LookKeeps, SealKeeps
  <2>4. CASE \E r \in Reviewer, h \in Host, decision \in Tried : Decide(r, h, decision)
    BY <2>4, DecideKeeps
  <2>5. CASE UNCHANGED vars
    BY <2>5 DEF vars, IInv, TypeOK, SeenWhole, DesksRest, SealsRest
  <2> QED BY <2>1, <2>2, <2>3, <2>4, <2>5 DEF Next
<1> QED BY <1>1, InitEstablishes, PTL DEF Spec

\* A desk is what it recovered with reviews of its own candidates, and the decisions
\* recorded are a sequence (desk.rs, review.rs).
THEOREM DeskTypes == Spec => []TypeOK
<1>1. IInv => TypeOK
  BY DEF IInv
<1> QED BY <1>1, DeskInvariant, PTL

\* A confidence that is not weak has evidence from outside the change.
LEMMA StrongHasIntent ==
  ASSUME NEW evidence, ~ OracleIsWeak(Assess(evidence))
  PROVE  "A" \in Tiers(evidence) \/ "B" \in Tiers(evidence)
BY DEF OracleIsWeak, Assess

\* Whatever is sealed was accepted by a QA reviewer with evidence from outside the change,
\* or answered for by the product owner, on a sentence with the digest of the sealed one
\* (review.rs, verify.rs).
THEOREM ApprovedSeals == Spec => []SealsRestOnApproval
<1>1. IInv => SealsRestOnApproval
  <2> SUFFICES ASSUME IInv, NEW s \in sealed
               PROVE  /\ MadeOn(s.qa, s.candidate, "qa")
                      /\ IF s.product = None
                         THEN /\ made[s.qa].decision \in SealEligible
                              /\ \/ "A" \in Tiers(s.candidate.evidence)
                                 \/ "B" \in Tiers(s.candidate.evidence)
                         ELSE /\ MadeOn(s.product, s.candidate, "product")
                              /\ made[s.product].decision \in SealEligible
    BY DEF SealsRestOnApproval
  <2>1. PICK t \in DOMAIN Delta : \E id \in Ids(t) : SealRests(made, s, t, id)
    BY DEF IInv, SealsRest
  <2>2. PICK id \in Ids(t) : SealRests(made, s, t, id)
    BY <2>1
  <2>3. /\ s.candidate.id = id
        /\ CandidateDigest(s.candidate.text) = DigestOf(t, id)
        /\ Recovered[t].report.confidence[id] = Assess(s.candidate.evidence)
    BY <2>2, CandidateOfId DEF SealRests, DigestOf
  <2>4. MadeOn(s.qa, s.candidate, "qa")
    BY <2>2, <2>3 DEF SealRests, Counts, MadeOn
  <2>5. s.product # None => MadeOn(s.product, s.candidate, "product")
    BY <2>2, <2>3 DEF SealRests, Counts, MadeOn
  <2> QED BY <2>2, <2>3, <2>4, <2>5, StrongHasIntent DEF SealRests
<1> QED BY <1>1, DeskInvariant, PTL

\* No requirement already says what is sealed, no other candidate of its desk says the
\* opposite, and the change does not remove what it depends on (verify.rs).
THEOREM UncontestedSeals == Spec => []SealedIsUncontested
<1>1. IInv => SealedIsUncontested
  <2> SUFFICES ASSUME IInv, NEW s \in sealed
               PROVE  /\ s.candidate.text \notin Range(Delta[s.of].requirements)
                      /\ ~ (s.candidate.holds /\ s.candidate.subject \in Delta[s.of].removed)
                      /\ \A other \in Range(Recovered[s.of].candidates) :
                            other.subject = s.candidate.subject => other.holds = s.candidate.holds
    BY DEF SealedIsUncontested
  <2>1. PICK t \in DOMAIN Delta : \E id \in Ids(t) : SealRests(made, s, t, id)
    BY DEF IInv, SealsRest
  <2>2. PICK id \in Ids(t) : SealRests(made, s, t, id)
    BY <2>1
  <2> DEFINE cs == RecoveryCandidates(Delta[t])
             k == id[1]
  <2>3. /\ s.of = t /\ k \in DOMAIN cs /\ s.candidate = cs[k]
        /\ Recovered[t].candidates = cs
        /\ ~ BlocksReview(VerifyCandidates(cs, Delta[t]))
    BY <2>2, RecoveredParts, CandidateOfId DEF SealRests
  <2>4. /\ cs[k].subject \in Delta[t].added \cup Delta[t].removed => cs[k].endpoint
    BY <2>3, CandidateAtIndex
  <2> HIDE DEF cs, k
  <2>5. /\ CheckDuplicate(cs[k], Delta[t]) = {} /\ CheckCode(cs[k], Delta[t]) = {}
        /\ \A j \in DOMAIN cs : cs[j].subject = cs[k].subject => cs[j].holds = cs[k].holds
    BY <2>3, FindingsOfChecks
  <2>6. cs[k].text \notin Range(Delta[t].requirements)
    BY <2>5 DEF CheckDuplicate
  <2>7. ~ (cs[k].holds /\ cs[k].subject \in Delta[t].removed)
    BY <2>4, <2>5 DEF CheckCode
  <2>8. \A other \in Range(cs) : \E j \in DOMAIN cs : other = cs[j]
    BY DEF Range
  <2> QED BY <2>3, <2>5, <2>6, <2>7, <2>8
<1> QED BY <1>1, DeskInvariant, PTL

\* What was rejected, left as observed or sealed stays so while its desk is open
\* (review.rs).
THEOREM FinalReviewsStay == Spec => FinalStatesStay
<1> DEFINE Stays == \A h \in Host : desk[h] # None /\ desk[h]' # None =>
                       \A id \in DOMAIN desk[h].reviews :
                          desk[h].reviews[id].state \in Final =>
                             desk[h]'.reviews[id].state = desk[h].reviews[id].state
<1>1. IInv /\ [Next]_vars => [Stays]_vars
  <2> SUFFICES ASSUME IInv, Next,
                      NEW h \in Host, desk[h] # None, desk'[h] # None,
                      NEW id \in DOMAIN desk[h].reviews,
                      desk[h].reviews[id].state \in Final
               PROVE  desk'[h].reviews[id].state = desk[h].reviews[id].state
    OBVIOUS
  <2>1. CASE desk' = desk
    BY <2>1
  <2>2. CASE \E g \in Host : Open(g) \/ Close(g)
    BY <2>2 DEF IInv, TypeOK, Open, Close
  <2>3. ASSUME NEW g \in Host, NEW k \in DOMAIN desk[g].reviews, Seal(g, k)
        PROVE  desk'[h].reviews[id].state = desk[h].reviews[id].state
    <3>1. /\ desk' = [desk EXCEPT ![g].reviews[k].state = "SEALED"]
          /\ desk[g].reviews[k].state \notin Final
      BY <2>3 DEF Seal, Knows, MaySeal, Final
    <3>2. desk[h].reviews \in [Ids(desk[h].of) -> Review]
          /\ desk[h] \in DeskOf(desk[h].of)
      BY DeskParts DEF IInv
    <3> QED BY <3>1, <3>2 DEF IInv, TypeOK, DeskOf, Review
  <2>4. ASSUME NEW r \in Reviewer, NEW g \in Host, NEW decision \in Tried,
               Decide(r, g, decision)
        PROVE  desk'[h].reviews[id].state = desk[h].reviews[id].state
    <3>1. PICK v : /\ desk' = [desk EXCEPT ![g].reviews[seen[r].candidate] = v]
                   /\ desk[g].reviews[seen[r].candidate].state \notin Final
      BY <2>4 DEF Decide, Final
    <3>2. desk[h].reviews \in [Ids(desk[h].of) -> Review]
          /\ desk[h] \in DeskOf(desk[h].of)
      BY DeskParts DEF IInv
    <3> QED BY <3>1, <3>2 DEF IInv, TypeOK, DeskOf
  <2>5. CASE Edit \/ \E g \in Host, k \in DOMAIN desk[h].reviews, r \in Reviewer : Look(r, g, k)
    BY <2>1, <2>5 DEF Edit, Look
  <2> QED BY <2>2, <2>3, <2>4, <2>5, <2>1 DEF Next, Look
<1> QED BY <1>1, DeskInvariant, PTL DEF Spec, FinalStatesStay, Stays
=============================================================================
