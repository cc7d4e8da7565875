--------------------------- MODULE RiskInvariant ---------------------------
(***************************************************************************)
(* What holds of the assessments as long as no call has failed and no two  *)
(* have crossed.  The code has no lock and no guarded write: all it relies *)
(* on is that one call ends before the next one begins.                    *)
(***************************************************************************)
EXTENDS ClientRisk

\* One call at work is all there is until two overlap.
Alone == \A v, w \in Worker : job[v].at # "idle" /\ job[w].at # "idle" => v = w

AtWorkOn(c, places) == \E w \in Worker : job[w].at \in places /\ job[w].c = c

\* What a call on its own has made of its assessment, or found there.
AloneFits(w) ==
  LET at == job[w].at  c == job[w].c  tier == job[w].tier  freeze == customer.freeze IN
  /\ at \in {"label", "process", "escalate", "score", "sign", "openReview"} =>
       cra[c].status = "PENDING_SUMSUB_RESULT" /\ review[c] = <<>>
  /\ at = "mark" => cra[c].status = "PENDING_SUMSUB_RESULT"
  /\ at = "signoff" => cra[c].status = "PENDING_MLRO_REVIEW"
  /\ at \in {"caseCustomer", "caseSign"} => cra[c].status = "ESCALATED_TO_SUMSUB"
  \* its tier is not LOW for a HIGH customer, unless the MLRO dismissed it
  /\ at = "score" /\ tier = "LOW" => customer.rating # "HIGH"
  /\ at = "score" /\ job[w].review => tier = "HIGH"
  /\ at = "sign" /\ cra[c].tier = "LOW" => customer.rating # "HIGH"
  /\ at \in {"openReview", "mark"} => cra[c].tier = "HIGH"
  /\ at = "cascade" /\ tier = "LOW" =>
       \/ customer.rating # "HIGH"
       \/ job[w].verdict = "REJECTED" /\ cra[c].previous = "LOW"
  \* the freeze it is about to lift, or has lifted
  /\ at = "caseSign" => freeze # "sanctions" \/ customer.status = "OFF"
  /\ at \in {"freeze", "expire"} => holding.cycle
  /\ at \in {"refresh", "release"} => job[w].saw = freeze

\* An assessment has one review, open while it waits for it and never again.
ReviewFits(c) ==
  /\ Len(review[c]) <= 1
  /\ cra[c].status = "PENDING_SUMSUB_RESULT" => review[c] = <<>> \/ AtWorkOn(c, {"mark"})
  /\ cra[c].status = "ESCALATED_TO_SUMSUB" => review[c] = <<>>
  /\ cra[c].status = "PENDING_MLRO_REVIEW" => cra[c].tier = "HIGH"
  /\ cra[c].status = "SIGNED" => \A i \in DOMAIN review[c] : review[c][i] # "PENDING"

\* Somebody is there, or at work, to lift the freeze.
FreezeFits ==
  /\ customer.freeze = "sanctions" /\ customer.status = "APPROVED" =>
       \E c \in Id : cra[c].status = "ESCALATED_TO_SUMSUB"
  /\ customer.freeze = "tier" => \E c \in Id : upgrade[c] \in Open
  /\ customer.freeze = "material" =>
       holding.cycle \/ \E w \in Worker : job[w].at = "release"

UndisturbedInv ==
  /\ overlaps = 0 => Alone
  /\ Undisturbed =>
       /\ \A w \in Worker : AloneFits(w)
       /\ \A c \in Id : ReviewFits(c)
       /\ FreezeFits

\* The approval cases a call on its own opens are undecided until it has said so in
\* the row.
CaseIsNew(w) ==
  LET at == job[w].at  c == job[w].c IN
  /\ at = "mark" => ~Decided(review[c])
  /\ at = "openPhase2" => phase2[c] = <<>>
  /\ at = "link" => ~Decided(phase2[c])

\* A row that waits for a decision has not got it yet, or it is being carried out.
WaitsForCase(c) ==
  /\ cra[c].status = "PENDING_MLRO_REVIEW" => ~Decided(review[c]) \/ AtWorkOn(c, {"signoff"})
  /\ upgrade[c] = "PENDING_LEVEL2" => phase2[c] = <<>> \/ AtWorkOn(c, {"link"})
  /\ upgrade[c] = "PENDING_PHASE2_APPROVAL" =>
       ~Decided(phase2[c]) \/ AtWorkOn(c, {"tierSignoff"})

DecisionsInv ==
  Undisturbed =>
    /\ \A w \in Worker : CaseIsNew(w)
    /\ \A c \in Id : WaitsForCase(c)

\* Between calls, every decision has been carried out: no assessment is left open
\* with its case closed, which would block all later ones, and no upgrade, which
\* would keep the customer frozen.
DecisionsAreSettled ==
  Quiet /\ Undisturbed => \A c \in Id :
    /\ Decided(review[c]) => cra[c].status = "SIGNED"
    /\ Decided(phase2[c]) => upgrade[c] \in {"COMPLETED", "REJECTED"}
=============================================================================
