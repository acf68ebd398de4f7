----------------------------- MODULE ProofBook ------------------------------
(***************************************************************************)
(* What the evidence ledger promises about proofs, with no processes, no   *)
(* artifacts and no order of persistence.  A run has one truth about each  *)
(* obligation, fixed when the run is recorded.  The book holds at most one *)
(* claim per run and obligation, never changes one, and a claim never says *)
(* more than the truth: it equals it, or it stops short of it.             *)
(***************************************************************************)
EXTENDS Verdicts, Sequences

CONSTANT Obligation

VARIABLES truth,   \* truth[r][o]: what all the evidence of run r shows of o
          book     \* set of [run, obligation, verdict]

\* Missing evidence may weaken a claim, it may never invent one.
Admissible(v, t) ==
  \/ v = t
  \/ v = "UNPROVEN"
  \/ v = "PARTIAL" /\ t = "PROVEN"

Init == truth = << >> /\ book = {}

Observe ==
  /\ \E t \in [Obligation -> ProofVerdict] : truth' = Append(truth, t)
  /\ UNCHANGED book

Claim ==
  /\ \E r \in 1..Len(truth), o \in Obligation, v \in ProofVerdict :
       /\ ~\E c \in book : c.run = r /\ c.obligation = o
       /\ Admissible(v, truth[r][o])
       /\ book' = book \cup {[run |-> r, obligation |-> o, verdict |-> v]}
  /\ UNCHANGED truth

Next == Observe \/ Claim

Spec == Init /\ [][Next]_<<truth, book>>
=============================================================================
