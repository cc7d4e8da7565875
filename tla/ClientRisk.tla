----------------------------- MODULE ClientRisk -----------------------------
(***************************************************************************)
(* The risk assessments (CRA) of one approved customer, the upgrade cases   *)
(* they lead to, and the compliance freeze they share with the refresh of  *)
(* an expired document.                                                    *)
(*                                                                         *)
(* A job is one call - a cron tick, a webhook dispatch, an approval event - *)
(* and each of its actions is one SQL statement or transaction together    *)
(* with the reads that follow it: two jobs interleave at every await.      *)
(* Nothing guards a write by the status it was based on.                   *)
(***************************************************************************)
EXTENDS RiskPolicy, Naturals, Sequences, FiniteSets

CONSTANTS
  Worker,      \* calls that may be at work at a time
  MaxCra,      \* bound: assessments
  MaxCases,    \* bound: approval cases of one assessment or upgrade
  MaxFaults,   \* bound: calls that fail or die half way
  MaxOverlaps, \* bound: calls that begin while another is at work
  Reports,     \* the AML results Sumsub may send
  Documents    \* documents expire, or they do not

ASSUME RiskAssumption ==
  /\ MaxCra \in Nat /\ MaxCases \in Nat /\ MaxFaults \in Nat /\ MaxOverlaps \in Nat
  /\ Reports \subseteq AmlResult /\ Documents \in BOOLEAN

VARIABLES
  customer,  \* riskRating, the reason of a compliance freeze, onboardingStatus
  cra,       \* the rows of ClientRiskAssessment, in the order they were created
  upgrade,   \* the TierUpgradeCase of each assessment
  review,    \* the RISK_RATING_MLRO_REVIEW cases of each assessment
  phase2,    \* the RISK_RATING_TIER_UPGRADE_APPROVAL cases of each upgrade
  answer,    \* what Sumsub answers to the inspection of each assessment
  holding,   \* the document: state and refresh cycle
  job,
  faults,
  overlaps

vars == <<customer, cra, upgrade, review, phase2, answer, holding, job, faults, overlaps>>

Id == 1..MaxCra
Freeze == {"none", "sanctions", "tier", "material", "unnamed"}
Verdict == {"APPROVED", "REJECTED"}
ActiveStatus == {"PENDING_SUMSUB_RESULT", "PENDING_MLRO_REVIEW", "ESCALATED_TO_SUMSUB"}
CraStatus == ActiveStatus \union {"none", "SIGNED"}
UpgradeStatus ==
  {"none", "PENDING_LEVEL2", "PENDING_PHASE2_APPROVAL", "COMPLETED", "REJECTED"}
Open == {"PENDING_LEVEL2", "PENDING_PHASE2_APPROVAL"}
NoResult == [answer |-> "none", labels |-> {}]
CraRow == [status : CraStatus, previous : Tier, tier : Tier, labels : SUBSET Label,
           inspected : BOOLEAN]
NoCra == [status |-> "none", previous |-> "UNKNOWN", tier |-> "UNKNOWN",
          labels |-> {}, inspected |-> FALSE]

\* `tier` is what the job has computed or read, `review` where it sends the
\* assessment, `again` that its webhook falls through to the next rule.
Idle == [at |-> "idle", c |-> 0, result |-> NoResult, tier |-> "none",
         review |-> FALSE, again |-> FALSE, verdict |-> "none", saw |-> "none"]

Place ==
  {"idle", "check", "create", "amlCheck", "label", "process", "escalate", "score", "sign",
   "cascade", "openReview", "mark", "signoff", "upgrade", "openPhase2", "link",
   "tierSignoff", "caseCustomer", "caseSign", "freeze", "expire", "refresh", "release"}

Job == [at : Place, c : Id \union {0}, result : AmlResult \union {NoResult},
        tier : Tier \union {"none"}, review : BOOLEAN, again : BOOLEAN,
        verdict : Verdict \union {"none"}, saw : Freeze]

\* Every variable holds values of its kind.
TypeOK ==
  /\ customer \in [rating : Tier, freeze : Freeze, status : {"APPROVED", "OFF"}]
  /\ cra \in [Id -> CraRow]
  /\ upgrade \in [Id -> UpgradeStatus]
  /\ review \in [Id -> Seq(Verdict \union {"PENDING"})]
  /\ phase2 \in [Id -> Seq(Verdict \union {"PENDING"})]
  /\ answer \in [Id -> AmlResult \union {NoResult}]
  /\ holding \in [expired : BOOLEAN, cycle : BOOLEAN]
  /\ job \in [Worker -> Job]
  /\ faults \in 0..MaxFaults /\ overlaps \in 0..MaxOverlaps

Init ==
  /\ customer = [rating |-> "LOW", freeze |-> "none", status |-> "APPROVED"]
  /\ cra = [c \in Id |-> NoCra]
  /\ upgrade = [c \in Id |-> "none"]
  /\ review = [c \in Id |-> <<>>] /\ phase2 = [c \in Id |-> <<>>]
  /\ answer = [c \in Id |-> NoResult]
  /\ holding = [expired |-> FALSE, cycle |-> FALSE]
  /\ job = [w \in Worker |-> Idle]
  /\ faults = 0 /\ overlaps = 0

Active == {c \in Id : cra[c].status \in ActiveStatus}
Created == {c \in Id : cra[c].status # "none"}
Latest(ids) == {c \in ids : \A d \in ids : d <= c}

Quiet == \A w \in Worker : job[w] = Idle

\* A call begins; `overlaps` counts those that find another one at work.
Begin(w, first) ==
  /\ job[w] = Idle
  /\ overlaps' = IF Quiet THEN overlaps ELSE overlaps + 1
  /\ overlaps' <= MaxOverlaps
  /\ job' = [job EXCEPT ![w] = first]
Goto(w, at) == job' = [job EXCEPT ![w].at = at]
Done(w) == job' = [job EXCEPT ![w] = Idle]
At(w, at) == job[w].at = at

\* The bound on assessments, kept where one is asked for.
Room == Cardinality(Created)
          + Cardinality({w \in Worker : job[w].at \in {"check", "create"}}) < MaxCra

\* The AML handlers return nothing, so dispatch goes on to the rule for a
\* spontaneous hit with the same webhook.
Finish(w) ==
  IF /\ job[w].again /\ job[w].result.answer = "RED"
     /\ customer.status = "APPROVED" /\ Room
  THEN job' = [job EXCEPT ![w] = [Idle EXCEPT !.at = "check", !.result = job[w].result]]
  ELSE Done(w)

-----------------------------------------------------------------------------
\* startAssessment: by the monthly cron or by an administrator.
Trigger(w) ==
  /\ Room /\ Begin(w, [Idle EXCEPT !.at = "check"])
  /\ UNCHANGED <<customer, cra, upgrade, review, phase2, answer, holding, faults>>

\* dispatch, clue 5: recordAssessmentFromKnownAmlResult.
SpontaneousHit(w, result) ==
  /\ customer.status = "APPROVED" /\ result.answer = "RED" /\ Room
  /\ Begin(w, [Idle EXCEPT !.at = "check", !.result = result])
  /\ UNCHANGED <<customer, cra, upgrade, review, phase2, answer, holding, faults>>

\* "Idempotency: block if ANY active assessment exists", then read the customer.
Check(w) ==
  /\ At(w, "check")
  /\ IF Active # {} THEN Done(w)
     ELSE job' = [job EXCEPT ![w].at = "create", ![w].tier = customer.rating]
  /\ UNCHANGED <<customer, cra, upgrade, review, phase2, answer, holding, faults>>

Create(w) ==
  LET c == Cardinality(Created) + 1
      known == job[w].result # NoResult
  IN  /\ At(w, "create") /\ c \in Id    \* there is room, see Finish
      /\ cra' = [cra EXCEPT ![c] =
                  [status |-> "PENDING_SUMSUB_RESULT", previous |-> job[w].tier,
                   tier |-> "UNKNOWN", labels |-> job[w].result.labels,
                   inspected |-> known]]
      /\ job' = [job EXCEPT ![w].c = c,
                            ![w].at = IF known THEN "process" ELSE "amlCheck"]
      /\ answer' = [answer EXCEPT ![c] = job[w].result]
      /\ UNCHANGED <<customer, upgrade, review, phase2, holding, faults>>

\* runAmlCheck gives the inspection id a webhook is matched by; its failure
\* is caught, and the assessment stays active.
AmlCheck(w) ==
  /\ At(w, "amlCheck") /\ Done(w)
  /\ \/ cra' = [cra EXCEPT ![job[w].c].inspected = TRUE] /\ UNCHANGED faults
     \/ faults < MaxFaults /\ faults' = faults + 1 /\ UNCHANGED cra
  /\ UNCHANGED <<customer, upgrade, review, phase2, answer, holding>>

\* dispatch, clue 2: the answer to an inspection, handleSumsubAmlResult.  It
\* may be delivered twice; Sumsub does not change it.
AmlAnswer(w, c, result) ==
  /\ cra[c].inspected /\ cra[c].status = "PENDING_SUMSUB_RESULT"
  /\ answer[c] \in {NoResult, result} /\ answer' = [answer EXCEPT ![c] = result]
  /\ Begin(w, [Idle EXCEPT !.at = "label", !.c = c, !.result = result, !.again = TRUE])
  /\ UNCHANGED <<customer, cra, upgrade, review, phase2, holding, faults>>

StoreLabels(w) ==
  /\ At(w, "label") /\ Goto(w, "process")
  /\ cra' = [cra EXCEPT ![job[w].c].labels = job[w].result.labels]
  /\ UNCHANGED <<customer, upgrade, review, phase2, answer, holding, faults>>

\* The labels of the last signed assessment, if there is one.
SignedLabels == {cra[c].labels : c \in Latest({d \in Id : cra[d].status = "SIGNED"})}

\* processAssessmentResult: read the customer and apply the policy.
Process(w) ==
  LET result == job[w].result
      before == customer.rating
      tier == ResultingTier(result, holding.expired, before)
  IN  /\ At(w, "process")
      /\ IF Sanctioned(result) THEN Goto(w, "escalate")
         ELSE job' = [job EXCEPT ![w].at = "score", ![w].tier = tier,
                ![w].review = NeedsReview(result, tier, before, SignedLabels)]
      /\ UNCHANGED <<customer, cra, upgrade, review, phase2, answer, holding, faults>>

\* handleSanctionsPath.
Escalate(w) ==
  /\ At(w, "escalate")
  /\ customer' = [customer EXCEPT !.freeze = "sanctions"]
  /\ cra' = [cra EXCEPT ![job[w].c].status = "ESCALATED_TO_SUMSUB",
                        ![job[w].c].tier = "HIGH"]
  /\ Finish(w)
  /\ UNCHANGED <<upgrade, review, phase2, answer, holding, faults>>

\* The result is stored, then routeSignoff.
Score(w) ==
  /\ At(w, "score")
  /\ cra' = [cra EXCEPT ![job[w].c].tier = job[w].tier]
  /\ Goto(w, IF job[w].review THEN "openReview" ELSE "sign")
  /\ UNCHANGED <<customer, upgrade, review, phase2, answer, holding, faults>>

\* postSignoffCascade reads the assessment and the customer...
CascadeOf(row) ==
  [at |-> "cascade", tier |-> IF row.tier # customer.rating THEN row.tier ELSE "none"]

AutoSign(w) ==
  LET c == job[w].c
      next == CascadeOf(cra[c])
  IN  /\ At(w, "sign")
      /\ cra' = [cra EXCEPT ![c].status = "SIGNED"]
      /\ job' = [job EXCEPT ![w].at = next.at, ![w].tier = next.tier]
      /\ UNCHANGED <<customer, upgrade, review, phase2, answer, holding, faults>>

\* ... and writes what it has computed from them.
Cascade(w) ==
  /\ At(w, "cascade")
  /\ customer' = [customer EXCEPT !.rating =
                    IF job[w].tier = "none" THEN @ ELSE job[w].tier]
  /\ Finish(w)
  /\ UNCHANGED <<cra, upgrade, review, phase2, answer, holding, faults>>

\* startMlroReview: an approval case, then the assessment.
OpenReview(w) ==
  LET c == job[w].c
  IN  /\ At(w, "openReview") /\ Len(review[c]) < MaxCases
      /\ review' = [review EXCEPT ![c] = Append(@, "PENDING")]
      /\ Goto(w, "mark")
      /\ UNCHANGED <<customer, cra, upgrade, phase2, answer, holding, faults>>

MarkReview(w) ==
  /\ At(w, "mark")
  /\ cra' = [cra EXCEPT ![job[w].c].status = "PENDING_MLRO_REVIEW"]
  /\ Finish(w)
  /\ UNCHANGED <<customer, upgrade, review, phase2, answer, holding, faults>>

-----------------------------------------------------------------------------
\* The MLRO decides a case; its event starts handleSignoffComplete.
MlroDecides(w, c, verdict) ==
  \E i \in DOMAIN review[c] :
    /\ review[c][i] = "PENDING"
    /\ review' = [review EXCEPT ![c][i] = verdict]
    /\ Begin(w, [Idle EXCEPT !.at = "signoff", !.c = c, !.verdict = verdict])
    /\ UNCHANGED <<customer, cra, upgrade, phase2, answer, holding, faults>>

LowToHigh(row) == row.previous = "LOW" /\ row.tier = "HIGH"

\* Mutant: a rejection opens an upgrade as well.
SignoffPromotes(w) ==
  LET c == job[w].c
  IN  /\ At(w, "signoff")
      /\ cra' = [cra EXCEPT ![c].status = "SIGNED"]
      /\ job' = [job EXCEPT ![w].at = IF LowToHigh(cra[c]) THEN "upgrade" ELSE "cascade"]
      /\ UNCHANGED <<customer, upgrade, review, phase2, answer, holding, faults>>

\* Mutant: a rejection is not recorded.
SignoffApproved(w) ==
  LET c == job[w].c
  IN  /\ At(w, "signoff")
      /\ cra' = IF job[w].verdict = "APPROVED"
                THEN [cra EXCEPT ![c].status = "SIGNED"] ELSE cra
      /\ job' = [job EXCEPT ![w].at = "cascade"]
      /\ UNCHANGED <<customer, upgrade, review, phase2, answer, holding, faults>>

\* A promotion is left to an upgrade case; a false positive gets its tier back.
Signoff(w) ==
  LET c == job[w].c
      approved == job[w].verdict = "APPROVED"
      row == [cra[c] EXCEPT !.status = "SIGNED",
                !.tier = IF ~approved /\ LowToHigh(cra[c]) THEN cra[c].previous ELSE @]
      next == IF approved /\ LowToHigh(cra[c])
              THEN [at |-> "upgrade", tier |-> "none"] ELSE CascadeOf(row)
  IN  /\ At(w, "signoff")
      /\ cra' = [cra EXCEPT ![c] = row]
      /\ job' = [job EXCEPT ![w].at = next.at, ![w].tier = next.tier]
      /\ UNCHANGED <<customer, upgrade, review, phase2, answer, holding, faults>>

\* createFromCra: one case for an assessment, and the customer is frozen.
OpenUpgrade(w) ==
  LET c == job[w].c
  IN  /\ At(w, "upgrade") /\ Done(w)
      /\ IF upgrade[c] = "none"
         THEN /\ upgrade' = [upgrade EXCEPT ![c] = "PENDING_LEVEL2"]
              /\ customer' = [customer EXCEPT !.freeze = "tier"]
         ELSE UNCHANGED <<upgrade, customer>>    \* sourceCraId is unique
      /\ UNCHANGED <<cra, review, phase2, answer, holding, faults>>

\* dispatch, clue 4.5: handleLevel2WorkflowComplete finds the latest case.
Level2Complete(w) ==
  /\ customer.status = "APPROVED"
  /\ \E c \in Latest({d \in Id : upgrade[d] = "PENDING_LEVEL2"}) :
       Begin(w, [Idle EXCEPT !.at = "openPhase2", !.c = c])
  /\ UNCHANGED <<customer, cra, upgrade, review, phase2, answer, holding, faults>>

OpenPhase2(w) ==
  LET c == job[w].c
  IN  /\ At(w, "openPhase2") /\ Len(phase2[c]) < MaxCases
      /\ phase2' = [phase2 EXCEPT ![c] = Append(@, "PENDING")]
      /\ Goto(w, "link")
      /\ UNCHANGED <<customer, cra, upgrade, review, answer, holding, faults>>

LinkPhase2(w) ==
  /\ At(w, "link") /\ Done(w)
  /\ upgrade' = [upgrade EXCEPT ![job[w].c] = "PENDING_PHASE2_APPROVAL"]
  /\ UNCHANGED <<customer, cra, review, phase2, answer, holding, faults>>

Phase2Decides(w, c, verdict) ==
  \E i \in DOMAIN phase2[c] :
    /\ phase2[c][i] = "PENDING"
    /\ phase2' = [phase2 EXCEPT ![c][i] = verdict]
    /\ Begin(w, [Idle EXCEPT !.at = "tierSignoff", !.c = c, !.verdict = verdict])
    /\ UNCHANGED <<customer, cra, upgrade, review, answer, holding, faults>>

\* Mutant: the upgrade forgets the freeze it was opened with.
TierSignoffFrozen(w) ==
  LET approved == job[w].verdict = "APPROVED"
  IN  /\ At(w, "tierSignoff") /\ Done(w)
      /\ customer' = IF approved THEN [customer EXCEPT !.rating = "HIGH"]
                     ELSE [customer EXCEPT !.status = "OFF", !.freeze = "none"]
      /\ upgrade' = [upgrade EXCEPT ![job[w].c] =
                       IF approved THEN "COMPLETED" ELSE "REJECTED"]
      /\ UNCHANGED <<cra, review, phase2, answer, holding, faults>>

\* TierUpgradeCaseService.handleSignoffComplete lifts any freeze.
TierSignoff(w) ==
  LET approved == job[w].verdict = "APPROVED"
  IN  /\ At(w, "tierSignoff") /\ Done(w)
      /\ customer' = [customer EXCEPT !.freeze = "none",
                        !.rating = IF approved THEN "HIGH" ELSE @,
                        !.status = IF approved THEN @ ELSE "OFF"]
      /\ upgrade' = [upgrade EXCEPT ![job[w].c] =
                       IF approved THEN "COMPLETED" ELSE "REJECTED"]
      /\ UNCHANGED <<cra, review, phase2, answer, holding, faults>>

-----------------------------------------------------------------------------
\* caseDecisionSimulated: the decision on an escalated assessment.
CaseDecision(w, c, verdict) ==
  /\ cra[c].status = "ESCALATED_TO_SUMSUB"
  /\ Begin(w, [Idle EXCEPT !.at = "caseCustomer", !.c = c, !.verdict = verdict])
  /\ UNCHANGED <<customer, cra, upgrade, review, phase2, answer, holding, faults>>

CaseCustomer(w) ==
  /\ At(w, "caseCustomer") /\ Goto(w, "caseSign")
  /\ customer' = IF job[w].verdict = "APPROVED" THEN [customer EXCEPT !.freeze = "none"]
                 ELSE [customer EXCEPT !.status = "OFF",
                         !.freeze = IF @ = "none" THEN "unnamed" ELSE @]
  /\ UNCHANGED <<cra, upgrade, review, phase2, answer, holding, faults>>

CaseSign(w) ==
  /\ At(w, "caseSign") /\ Done(w)
  /\ cra' = [cra EXCEPT ![job[w].c].status = "SIGNED"]
  /\ UNCHANGED <<customer, upgrade, review, phase2, answer, holding, faults>>

\* handleSumsubDocMonitoringFire: enterBlockingStage opens a cycle...
DocumentExpires(w) ==
  /\ Documents /\ ~holding.cycle
  /\ Begin(w, [Idle EXCEPT !.at = "freeze"])
  /\ holding' = [holding EXCEPT !.cycle = TRUE]
  /\ UNCHANGED <<customer, cra, upgrade, review, phase2, answer, faults>>

\* ... freezes the customer, whatever the freeze there is...
MaterialFreeze(w) ==
  /\ At(w, "freeze") /\ Goto(w, "expire")
  /\ customer' = [customer EXCEPT !.freeze = "material"]
  /\ UNCHANGED <<cra, upgrade, review, phase2, answer, holding, faults>>

\* ... and marks the holding.
MaterialExpired(w) ==
  /\ At(w, "expire") /\ Done(w)
  /\ holding' = [holding EXCEPT !.expired = TRUE]
  /\ UNCHANGED <<customer, cra, upgrade, review, phase2, answer, faults>>

\* handleSumsubActionResult, GREEN: the customer is read first...
MaterialGreen(w) ==
  /\ holding.cycle
  /\ Begin(w, [Idle EXCEPT !.at = "refresh", !.saw = customer.freeze])
  /\ UNCHANGED <<customer, cra, upgrade, review, phase2, answer, holding, faults>>

\* ... the holding refreshed and the cycle closed (two updates of two rows, taken
\* as one: nothing reads one of them without the other)...
MaterialRefreshed(w) ==
  /\ At(w, "refresh") /\ Goto(w, "release")
  /\ holding' = [expired |-> FALSE, cycle |-> FALSE]
  /\ UNCHANGED <<customer, cra, upgrade, review, phase2, answer, faults>>

\* ... the freeze lifted if it was of this kind, and an assessment started.
MaterialRelease(w) ==
  /\ At(w, "release")
  /\ customer' = [customer EXCEPT !.freeze = IF job[w].saw = "material" THEN "none" ELSE @]
  /\ IF Room THEN job' = [job EXCEPT ![w] = [Idle EXCEPT !.at = "check"]] ELSE Done(w)
  /\ UNCHANGED <<cra, upgrade, review, phase2, answer, holding, faults>>

-----------------------------------------------------------------------------
\* A statement throws or the process dies; the call is not repeated here.
Fail(w) ==
  /\ ~At(w, "idle") /\ faults < MaxFaults
  /\ faults' = faults + 1 /\ Done(w)
  /\ UNCHANGED <<customer, cra, upgrade, review, phase2, answer, holding, overlaps>>

\* What starts a call: the calendar, Sumsub, a document or a reviewer.
Call(w) ==
  \/ Trigger(w) \/ Level2Complete(w) \/ DocumentExpires(w) \/ MaterialGreen(w)
  \/ \E result \in Reports :
       SpontaneousHit(w, result) \/ \E c \in Id : AmlAnswer(w, c, result)
  \/ \E c \in Id, verdict \in Verdict :
       \/ MlroDecides(w, c, verdict) \/ Phase2Decides(w, c, verdict)
       \/ CaseDecision(w, c, verdict)

\* What a call does on its own.
Work(w) ==
  /\ \/ Check(w) \/ Create(w) \/ AmlCheck(w) \/ StoreLabels(w) \/ Process(w)
     \/ Escalate(w) \/ Score(w) \/ AutoSign(w) \/ Cascade(w)
     \/ OpenReview(w) \/ MarkReview(w) \/ Signoff(w) \/ OpenUpgrade(w)
     \/ OpenPhase2(w) \/ LinkPhase2(w) \/ TierSignoff(w)
     \/ CaseCustomer(w) \/ CaseSign(w)
     \/ MaterialFreeze(w) \/ MaterialExpired(w) \/ MaterialRefreshed(w)
     \/ MaterialRelease(w)
  /\ UNCHANGED overlaps

Next == \E w \in Worker : Call(w) \/ Work(w) \/ Fail(w)

Spec == Init /\ [][Next]_vars
\* A call that has begun goes on; nobody has to begin one.
FairSpec == Spec /\ \A w \in Worker : WF_vars(Work(w))
-----------------------------------------------------------------------------
DecidedAs(cases, verdict) == \E i \in DOMAIN cases : cases[i] = verdict
Decided(cases) == \E verdict \in Verdict : DecidedAs(cases, verdict)

\* The exceptions below: a call has failed, or two were at work at a time.
Undisturbed == faults = 0 /\ overlaps = 0

\* Whichever calls race or fail: every row is well typed; an upgrade exists only
\* for an assessment that the MLRO approved and is COMPLETED only if its second
\* phase was approved too; a customer rated HIGH has been before the MLRO
\* (approved or not: a rejected promotion from UNKNOWN is carried out).
RiskInv ==
  /\ TypeOK
  /\ \A c \in Id :
       /\ upgrade[c] # "none" => DecidedAs(review[c], "APPROVED")
       /\ upgrade[c] = "COMPLETED" => DecidedAs(phase2[c], "APPROVED")
  /\ customer.rating = "HIGH" => \E c \in Id : Decided(review[c])

\* Sanctions, upgrades and documents freeze a customer and overwrite each other's
\* reason.  Between calls, a frozen customer has somebody to release it: the
\* assessment that was escalated, the upgrade that is open, or the refresh
\* cycle of the document.
FrozenHasOwner ==
  Quiet /\ Undisturbed /\ customer.status = "APPROVED" =>
    /\ customer.freeze = "sanctions" => \E c \in Id : cra[c].status = "ESCALATED_TO_SUMSUB"
    /\ customer.freeze = "tier" => \E c \in Id : upgrade[c] \in Open
    /\ customer.freeze = "material" => holding.cycle

\* The policy's downgradeForbidden, as far as the code keeps it: a HIGH customer
\* becomes LOW only when the MLRO dismisses an assessment that was created
\* before it was HIGH.
DowngradeIsDismissed ==
  [][customer.rating = "HIGH" /\ customer'.rating = "LOW" /\ Undisturbed =>
       \E w \in Worker : /\ At(w, "cascade") /\ job[w].verdict = "REJECTED"
                         /\ cra[job[w].c].previous = "LOW"]_vars

\* A decision of the MLRO ends with the assessment signed, one on the second
\* phase with the upgrade closed: neither stays open, blocking the next one,
\* when its case is closed.
DecisionSettles ==
  \A c \in Id :
    /\ Decided(review[c]) ~> (cra[c].status = "SIGNED" \/ ~Undisturbed)
    /\ Decided(phase2[c]) ~> (upgrade[c] \in {"COMPLETED", "REJECTED"} \/ ~Undisturbed)
=============================================================================
