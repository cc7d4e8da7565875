-------------------------- MODULE ClientRiskProofs --------------------------
(***************************************************************************)
(* ClientRisk for any number of calls, assessments, cases, faults and      *)
(* overlaps: whatever crosses it, a call at a place has what brought it    *)
(* there (JobFits), because a decision, an answer and an upgrade are never *)
(* taken back (Later).                                                     *)
(***************************************************************************)
EXTENDS RiskInvariant, FiniteSetTheorems, SequenceTheorems, TLAPS

Heard == \E c \in Id : Decided(review[c])

\* The places of a call that works on an assessment, and on Sumsub's answer.
Answering == {"label", "process", "escalate", "score", "sign"}
Named == Place \ {"idle", "check", "create", "freeze", "expire", "refresh", "release"}

JobFits(w) ==
  LET at == job[w].at  c == job[w].c  labels == job[w].result.labels IN
  /\ at \in Named => c \in Id /\ cra[c].status # "none"
  /\ at \in {"create", "score"} => job[w].tier \in Tier
  /\ at \in Answering => answer[c] = job[w].result /\ answer[c] # NoResult
  /\ at = "escalate" => labels # {}
  /\ at \in {"score", "sign"} /\ ~job[w].review /\ labels # {} => Heard
  /\ at = "score" /\ job[w].tier = "HIGH" /\ labels = {} => Heard
  /\ at = "sign" => ~job[w].review
  /\ at = "cascade" /\ job[w].tier = "HIGH" => Heard
  /\ at = "signoff" => job[w].verdict \in Verdict /\ DecidedAs(review[c], job[w].verdict)
  /\ at = "upgrade" => DecidedAs(review[c], "APPROVED")
  /\ at \in {"openPhase2", "link", "tierSignoff"} => upgrade[c] # "none"
  /\ at = "tierSignoff" => job[w].verdict \in Verdict /\ DecidedAs(phase2[c], job[w].verdict)

RowFits(c) ==
  /\ upgrade[c] # "none" => DecidedAs(review[c], "APPROVED")
  /\ upgrade[c] = "COMPLETED" => DecidedAs(phase2[c], "APPROVED")
  /\ phase2[c] # <<>> => upgrade[c] # "none"
  /\ cra[c].tier = "HIGH" => Heard \/ answer[c].labels # {}
  /\ cra[c].status = "none" => answer[c] = NoResult /\ review[c] = <<>>

\* Assessments are created in the order of their numbers.
InOrder == \E n \in 0..MaxCra : \A c \in Id : cra[c].status # "none" <=> c <= n

RiskInduction ==
  /\ TypeOK /\ InOrder
  /\ \A w \in Worker : JobFits(w)
  /\ \A c \in Id : RowFits(c)
  /\ customer.rating = "HIGH" => Heard

\* What is never taken back: an assessment, an answer, an upgrade, a decision.
CraStays == \A c \in Id : cra[c].status # "none" => cra'[c].status # "none"
AnswerStays == \A c \in Id : answer[c] # NoResult => answer'[c] = answer[c]
UpgradeStays == \A c \in Id : upgrade[c] # "none" => upgrade'[c] # "none"
ReviewStays == \A c \in Id, verdict \in Verdict :
                 DecidedAs(review[c], verdict) => DecidedAs(review'[c], verdict)
Phase2Stays == \A c \in Id, verdict \in Verdict :
                 DecidedAs(phase2[c], verdict) => DecidedAs(phase2'[c], verdict)
Later == CraStays /\ AnswerStays /\ UpgradeStays /\ ReviewStays /\ Phase2Stays

\* What a step may do to the rows for RowFits to hold on.
RowSteps ==
  \A c \in Id :
    /\ upgrade'[c] # "none" => upgrade[c] # "none" \/ DecidedAs(review[c], "APPROVED")
    /\ upgrade'[c] = "COMPLETED" => upgrade[c] = "COMPLETED" \/ DecidedAs(phase2[c], "APPROVED")
    /\ phase2'[c] # <<>> => upgrade[c] # "none"
    /\ cra'[c].tier = "HIGH" => cra[c].tier = "HIGH" \/ Heard \/ answer'[c].labels # {}
    /\ cra'[c].status = "none" =>
         cra[c].status = "none" /\ answer'[c] = answer[c] /\ review'[c] = review[c]

-----------------------------------------------------------------------------
\* Once the MLRO has decided an assessment, it has.
LEMMA HeardStays == ASSUME ReviewStays PROVE Heard => Heard'
BY DEF ReviewStays, Heard, Decided

\* What a call at work relies on is not taken from it by the others.
LEMMA OthersFit ==
  ASSUME TypeOK, Later, NEW v \in Worker, JobFits(v), job'[v] = job[v]
  PROVE  JobFits(v)'
<1> DEFINE c == job[v].c
<1>1. job[v].at \in Named => c \in Id /\ cra'[c].status # "none"
  BY DEF JobFits, Later, CraStays
<1>2. Answering \subseteq Named /\ {"signoff", "upgrade", "openPhase2", "link", "tierSignoff"} \subseteq Named
  BY DEF Answering, Named, Place
<1>3. Heard => Heard'
  BY HeardStays DEF Later
<1>4. job[v].at \in Answering => answer'[c] = job[v].result /\ answer'[c] # NoResult
  BY <1>1, <1>2 DEF JobFits, Later, AnswerStays
<1>5. job[v].at = "signoff" => job[v].verdict \in Verdict /\ DecidedAs(review'[c], job[v].verdict)
  BY <1>1, <1>2 DEF JobFits, Later, ReviewStays
<1>6. job[v].at = "upgrade" => DecidedAs(review'[c], "APPROVED")
  BY <1>1, <1>2 DEF JobFits, Later, ReviewStays, Verdict
<1>7. job[v].at \in {"openPhase2", "link", "tierSignoff"} => upgrade'[c] # "none"
  BY <1>1, <1>2 DEF JobFits, Later, UpgradeStays
<1>8. job[v].at = "tierSignoff" => job[v].verdict \in Verdict /\ DecidedAs(phase2'[c], job[v].verdict)
  BY <1>1, <1>2 DEF JobFits, Later, Phase2Stays
<1> QED
  BY <1>1, <1>3, <1>4, <1>5, <1>6, <1>7, <1>8 DEF JobFits, DecidedAs

\* A call that is over relies on nothing.
LEMMA IdleFits == ASSUME NEW w \in Worker, job'[w].at = "idle" PROVE JobFits(w)'
BY DEF JobFits, Answering, Named

\* The types of a call's places, in one step.
LEMMA RuleTyped ==
  ASSUME NEW result \in AmlResult, NEW stale \in BOOLEAN, NEW previous \in Tier
  PROVE  ResultingTier(result, stale, previous) \in Tier
BY DEF ResultingTier, RuleTier, Tier

\* HIGH comes from a label, or the customer has it already; and what nobody is
\* to review was HIGH before.
LEMMA RuleReviewed ==
  ASSUME NEW result \in AmlResult, NEW stale \in BOOLEAN, NEW previous \in Tier, NEW before,
         NEW tier, tier = ResultingTier(result, stale, previous)
  PROVE  /\ tier = "HIGH" /\ result.labels = {} => previous = "HIGH"
         /\ ~NeedsReview(result, tier, previous, before) /\ result.labels # {} => previous = "HIGH"
BY DEF ResultingTier, RuleTier, NeedsReview, Tier

-----------------------------------------------------------------------------
\* Approval cases are decided in place and opened at the end of their list.
LEMMA CasesTyped ==
  ASSUME NEW S, NEW cases \in [Id -> Seq(S)], NEW c \in Id, NEW x \in S
  PROVE  /\ \A i \in DOMAIN cases[c] : [cases EXCEPT ![c][i] = x] \in [Id -> Seq(S)]
         /\ [cases EXCEPT ![c] = Append(@, x)] \in [Id -> Seq(S)]
<1>1. ASSUME NEW i \in DOMAIN cases[c] PROVE [cases EXCEPT ![c][i] = x] \in [Id -> Seq(S)]
  <2>1. cases[c] \in Seq(S)
    OBVIOUS
  <2>2. [cases[c] EXCEPT ![i] = x] \in Seq(S)
    BY <2>1, ExceptSeq
  <2> QED
    BY <2>2
<1> QED
  BY <1>1

\* Types.
LEMMA JobTyped ==
  ASSUME TypeOK, NEW w \in Worker, NEW new \in Job, job' = [job EXCEPT ![w] = new]
  PROVE  job' \in [Worker -> Job]
BY DEF TypeOK

\* What a call starts from, and what a webhook used twice starts.
LEMMA IdleTyped ==
  /\ Idle \in Job
  /\ \A result \in AmlResult : [Idle EXCEPT !.at = "check", !.result = result] \in Job
<1>1. "idle" \in Place /\ "check" \in Place
  BY DEF Place
<1>2. "none" \in Freeze
  BY DEF Freeze
<1>3. Idle \in [at : Place, c : Id \union {0}, result : AmlResult \union {NoResult},
               tier : Tier \union {"none"}, review : BOOLEAN, again : BOOLEAN,
               verdict : Verdict \union {"none"}, saw : Freeze]
  BY <1>1, <1>2 DEF Idle
<1> QED
  BY <1>1, <1>3 DEF Job

\* A call that is over.
LEMMA DoneTyped ==
  ASSUME TypeOK, NEW w \in Worker, Done(w) \/ Finish(w)
  PROVE  job' \in [Worker -> Job]
<1>1. CASE Done(w)
  BY <1>1, JobTyped, IdleTyped DEF Done
<1>2. CASE job' = [job EXCEPT ![w] = [Idle EXCEPT !.at = "check", !.result = job[w].result]]
            /\ job[w].result.answer = "RED"
  <2>1. job[w].result \in AmlResult
    BY <1>2 DEF TypeOK, Job, NoResult
  <2> QED
    BY <1>2, <2>1, JobTyped, IdleTyped
<1> QED
  BY <1>1, <1>2 DEF Finish

\* A call that moves on.
LEMMA GotoTyped ==
  ASSUME TypeOK, NEW w \in Worker, NEW at \in Place, Goto(w, at)
  PROVE  job' \in [Worker -> Job]
<1>1. job[w] \in Job
  BY DEF TypeOK
<1>2. [job[w] EXCEPT !.at = at] \in Job
  BY <1>1 DEF Job
<1>3. job' = [job EXCEPT ![w] = [job[w] EXCEPT !.at = at]]
  BY DEF Goto, TypeOK
<1> QED
  BY <1>2, <1>3, JobTyped

\* A call that begins.
LEMMA BeginTyped ==
  ASSUME TypeOK, NEW w \in Worker, NEW first \in Job, Begin(w, first)
  PROVE  job' \in [Worker -> Job] /\ overlaps' \in 0..MaxOverlaps
BY JobTyped, RiskAssumption DEF Begin, TypeOK

\* The statuses the service writes are statuses.
LEMMA StatusTyped ==
  {"PENDING_SUMSUB_RESULT", "PENDING_MLRO_REVIEW", "ESCALATED_TO_SUMSUB", "SIGNED"}
    \subseteq CraStatus
BY DEF CraStatus, ActiveStatus

\* One column of one assessment written leaves a row.
LEMMA RowTyped ==
  ASSUME NEW rows \in [Id -> CraRow], NEW c \in Id
  PROVE  /\ \A status \in CraStatus : [rows EXCEPT ![c].status = status] \in [Id -> CraRow]
         /\ \A tier \in Tier : [rows EXCEPT ![c].tier = tier] \in [Id -> CraRow]
         /\ \A labels \in SUBSET Label : [rows EXCEPT ![c].labels = labels] \in [Id -> CraRow]
         /\ [rows EXCEPT ![c].inspected = TRUE] \in [Id -> CraRow]
<1>1. rows[c] \in CraRow
  OBVIOUS
<1>2. \A row \in CraRow : [rows EXCEPT ![c] = row] \in [Id -> CraRow]
  OBVIOUS
<1>3. /\ \A status \in CraStatus : [rows[c] EXCEPT !.status = status] \in CraRow
      /\ \A tier \in Tier : [rows[c] EXCEPT !.tier = tier] \in CraRow
      /\ \A labels \in SUBSET Label : [rows[c] EXCEPT !.labels = labels] \in CraRow
      /\ [rows[c] EXCEPT !.inspected = TRUE] \in CraRow
  BY <1>1 DEF CraRow
<1> QED
  BY <1>2, <1>3

\* The calls, as they begin.
LEMMA CallTyped ==
  ASSUME TypeOK, NEW w \in Worker, Call(w)
  PROVE  TypeOK'
<1>1. {"check", "label", "signoff", "openPhase2", "tierSignoff", "caseCustomer", "freeze",
       "refresh"} \subseteq Place
  BY DEF Place
<1>2. \A at \in Place : [Idle EXCEPT !.at = at] \in Job
  BY IdleTyped DEF Job
<1>3. \A at \in Place, c \in Id : [Idle EXCEPT !.at = at, !.c = c] \in Job
  BY IdleTyped DEF Job
<1>4. \A at \in Place, c \in Id, verdict \in Verdict :
        [Idle EXCEPT !.at = at, !.c = c, !.verdict = verdict] \in Job
  BY IdleTyped DEF Job
<1>5. ASSUME Trigger(w) PROVE TypeOK'
  BY <1>1, <1>2, <1>5, BeginTyped DEF Trigger, TypeOK
<1>6. ASSUME Level2Complete(w) PROVE TypeOK'
  BY <1>1, <1>3, <1>6, BeginTyped DEF Level2Complete, Latest, TypeOK
<1>7. ASSUME DocumentExpires(w) PROVE TypeOK'
  BY <1>1, <1>2, <1>7, BeginTyped DEF DocumentExpires, TypeOK
<1>8. ASSUME MaterialGreen(w) PROVE TypeOK'
  <2>1. customer.freeze \in Freeze
    BY DEF TypeOK
  <2>2. \A saw \in Freeze : [Idle EXCEPT !.at = "refresh", !.saw = saw] \in Job
    BY <1>1, IdleTyped DEF Job
  <2> QED
    BY <1>8, <2>1, <2>2, BeginTyped DEF MaterialGreen, TypeOK
<1>9. ASSUME NEW result \in Reports, SpontaneousHit(w, result) PROVE TypeOK'
  BY <1>9, IdleTyped, BeginTyped, RiskAssumption DEF SpontaneousHit, TypeOK
<1>10. ASSUME NEW result \in Reports, NEW c \in Id, AmlAnswer(w, c, result) PROVE TypeOK'
  <2>1. result \in AmlResult
    BY RiskAssumption
  <2>2. [Idle EXCEPT !.at = "label", !.c = c] \in Job
    BY <1>1, <1>3
  <2>3. [[Idle EXCEPT !.at = "label", !.c = c] EXCEPT !.result = result, !.again = TRUE] \in Job
    BY <2>1, <2>2 DEF Job
  <2>4. job' \in [Worker -> Job] /\ overlaps' \in 0..MaxOverlaps
    BY <1>10, <2>3, BeginTyped DEF AmlAnswer, Idle
  <2>5. answer' \in [Id -> AmlResult \union {NoResult}]
    BY <1>10, <2>1 DEF AmlAnswer, TypeOK
  <2> QED
    BY <1>10, <2>4, <2>5 DEF AmlAnswer, TypeOK
<1>11. ASSUME NEW c \in Id, NEW verdict \in Verdict, MlroDecides(w, c, verdict) PROVE TypeOK'
  <2>1. verdict \in Verdict \union {"PENDING"}
    OBVIOUS
  <2>2. review' \in [Id -> Seq(Verdict \union {"PENDING"})]
    BY <1>11, <2>1, CasesTyped DEF MlroDecides, TypeOK
  <2> QED
    BY <1>1, <1>4, <1>11, <2>2, BeginTyped DEF MlroDecides, TypeOK
<1>12. ASSUME NEW c \in Id, NEW verdict \in Verdict, Phase2Decides(w, c, verdict) PROVE TypeOK'
  <2>1. verdict \in Verdict \union {"PENDING"}
    OBVIOUS
  <2>2. phase2' \in [Id -> Seq(Verdict \union {"PENDING"})]
    BY <1>12, <2>1, CasesTyped DEF Phase2Decides, TypeOK
  <2> QED
    BY <1>1, <1>4, <1>12, <2>2, BeginTyped DEF Phase2Decides, TypeOK
<1>13. ASSUME NEW c \in Id, NEW verdict \in Verdict, CaseDecision(w, c, verdict) PROVE TypeOK'
  BY <1>1, <1>4, <1>13, BeginTyped DEF CaseDecision, TypeOK
<1> QED
  BY <1>5, <1>6, <1>7, <1>8, <1>9, <1>10, <1>11, <1>12, <1>13 DEF Call

\* A call's own steps need what it relies on: it has an assessment, a tier to
\* write, an answer.
LEMMA WorkTyped ==
  ASSUME TypeOK, NEW w \in Worker, JobFits(w), Work(w)
  PROVE  TypeOK'
<1>1. {"create", "amlCheck", "process", "escalate", "score", "openReview", "sign", "cascade",
       "mark", "upgrade", "link", "caseSign", "expire", "release"} \subseteq Place
  BY DEF Place
<1>2. job[w] \in Job /\ job[w].at \in Place
  BY DEF TypeOK, Job
<1>3. \A at \in Place, tier \in Tier \union {"none"} :
        [job[w] EXCEPT !.at = at, !.tier = tier] \in Job
  BY <1>2 DEF Job
<1>5. UNCHANGED overlaps
  BY DEF Work
<1>6. ASSUME Check(w) PROVE TypeOK'
  <2>1. customer.rating \in Tier
    BY DEF TypeOK
  <2>2. [job[w] EXCEPT !.at = "create", !.tier = customer.rating] \in Job
    BY <1>1, <1>3, <2>1
  <2>3. job' \in [Worker -> Job]
    BY <1>6, <2>2, DoneTyped, JobTyped DEF Check, TypeOK
  <2> QED
    BY <1>5, <1>6, <2>3 DEF Check, TypeOK
<1>7. ASSUME Create(w) PROVE TypeOK'
  <2> DEFINE c == Cardinality(Created) + 1
  <2>1. c \in Id /\ job[w].at = "create" /\ job[w].tier \in Tier
    BY <1>7 DEF Create, At, JobFits
  <2>2. job[w].result \in AmlResult \union {NoResult} /\ job[w].result.labels \in SUBSET Label
    BY <1>2 DEF Job, AmlResult, NoResult
  <2>3. \A at \in Place : [job[w] EXCEPT !.c = c, !.at = at] \in Job
    BY <1>2, <2>1 DEF Job
  <2>4. job' \in [Worker -> Job]
    BY <1>1, <1>7, <2>3, JobTyped DEF Create, TypeOK
  <2>5. answer' \in [Id -> AmlResult \union {NoResult}]
    BY <1>7, <2>1, <2>2 DEF Create, TypeOK
  <2>6. [status |-> "PENDING_SUMSUB_RESULT", previous |-> job[w].tier, tier |-> "UNKNOWN",
         labels |-> job[w].result.labels, inspected |-> job[w].result # NoResult] \in CraRow
    BY <2>1, <2>2, StatusTyped DEF CraRow, Tier
  <2>7. cra' \in [Id -> CraRow]
    BY <1>7, <2>1, <2>6 DEF Create, TypeOK
  <2> QED
    BY <1>5, <1>7, <2>4, <2>5, <2>7 DEF Create, TypeOK
<1>8. ASSUME AmlCheck(w) PROVE TypeOK'
  <2>0. job[w].c \in Id
    BY <1>2, <1>8 DEF AmlCheck, At, JobFits, Named
  <2>1. cra' \in [Id -> CraRow]
    <3>1. cra' = cra \/ cra' = [cra EXCEPT ![job[w].c].inspected = TRUE]
      BY <1>8 DEF AmlCheck
    <3>2. cra \in [Id -> CraRow]
      BY DEF TypeOK
    <3>3. [cra EXCEPT ![job[w].c].inspected = TRUE] \in [Id -> CraRow]
      BY <2>0, <3>2, RowTyped
    <3> QED
      BY <3>1, <3>2, <3>3
  <2>2. job' \in [Worker -> Job]
    BY <1>8, DoneTyped DEF AmlCheck
  <2>3. faults' \in 0..MaxFaults
    BY <1>8, RiskAssumption DEF AmlCheck, TypeOK
  <2> QED
    BY <1>5, <1>8, <2>1, <2>2, <2>3 DEF AmlCheck, TypeOK
<1>9. ASSUME StoreLabels(w) PROVE TypeOK'
  <2>1. job[w].result.labels \in SUBSET Label
    BY <1>2 DEF Job, AmlResult, NoResult
  <2>2. cra' \in [Id -> CraRow]
    BY <1>9, <2>1 DEF StoreLabels, TypeOK, CraRow
  <2>3. job' \in [Worker -> Job]
    BY <1>1, <1>9, GotoTyped DEF StoreLabels
  <2> QED
    BY <1>5, <1>9, <2>2, <2>3 DEF StoreLabels, TypeOK
<1>10. ASSUME Process(w) PROVE TypeOK'
  <2>1. job[w].result \in AmlResult
    BY <1>2, <1>10 DEF Process, At, JobFits, Answering, Job
  <2>2. customer.rating \in Tier /\ holding.expired \in BOOLEAN
    BY DEF TypeOK
  <2>3. ResultingTier(job[w].result, holding.expired, customer.rating) \in Tier
    BY <2>1, <2>2, RuleTyped
  <2>4. \A tier \in Tier, r \in BOOLEAN :
          [job[w] EXCEPT !.at = "score", !.tier = tier, !.review = r] \in Job
    BY <1>1, <1>2 DEF Job
  <2>5. \A tier, before, result, previous : NeedsReview(result, tier, previous, before) \in BOOLEAN
    BY DEF NeedsReview
  <2>6. job' \in [Worker -> Job]
    <3>1. CASE Sanctioned(job[w].result)
      BY <1>1, <1>10, <3>1, GotoTyped DEF Process
    <3>2. CASE ~Sanctioned(job[w].result)
      <4>1. PICK r \in BOOLEAN :
              job' = [job EXCEPT ![w].at = "score",
                ![w].tier = ResultingTier(job[w].result, holding.expired, customer.rating),
                ![w].review = r]
        BY <1>10, <2>5, <3>2 DEF Process
      <4> QED
        BY <2>3, <2>4, <4>1, JobTyped DEF TypeOK
    <3> QED
      BY <3>1, <3>2
  <2> QED
    BY <1>5, <1>10, <2>6 DEF Process, TypeOK
<1>11. ASSUME Escalate(w) PROVE TypeOK'
  <2>1. "HIGH" \in Tier /\ "sanctions" \in Freeze
    BY DEF Tier, Freeze
  <2>0. job[w].c \in Id
    BY <1>2, <1>11 DEF Escalate, At, JobFits, Named
  <2>2. cra' \in [Id -> CraRow]
    <3>1. [cra EXCEPT ![job[w].c].status = "ESCALATED_TO_SUMSUB"] \in [Id -> CraRow]
      BY <2>0, RowTyped, StatusTyped DEF TypeOK
    <3>2. [[cra EXCEPT ![job[w].c].status = "ESCALATED_TO_SUMSUB"]
             EXCEPT ![job[w].c].tier = "HIGH"] \in [Id -> CraRow]
      BY <2>0, <2>1, <3>1, RowTyped
    <3> QED
      BY <1>11, <3>2 DEF Escalate
  <2>3. job' \in [Worker -> Job]
    BY <1>11, DoneTyped DEF Escalate
  <2>4. customer' \in [rating : Tier, freeze : Freeze, status : {"APPROVED", "OFF"}]
    BY <1>11, <2>1 DEF Escalate, TypeOK
  <2> QED
    BY <1>5, <1>11, <2>2, <2>3, <2>4 DEF Escalate, TypeOK
<1>12. ASSUME Score(w) PROVE TypeOK'
  <2>1. job[w].tier \in Tier
    BY <1>12 DEF Score, At, JobFits
  <2>2. cra' \in [Id -> CraRow]
    BY <1>12, <2>1 DEF Score, TypeOK, CraRow
  <2>3. job' \in [Worker -> Job]
    BY <1>1, <1>12, GotoTyped DEF Score
  <2> QED
    BY <1>5, <1>12, <2>2, <2>3 DEF Score, TypeOK
<1>13. ASSUME AutoSign(w) PROVE TypeOK'
  <2>1. job[w].c \in Id
    BY <1>2, <1>13 DEF AutoSign, At, JobFits, Named
  <2>2. cra[job[w].c].tier \in Tier
    BY <2>1 DEF TypeOK, CraRow
  <2>3. job' \in [Worker -> Job]
    BY <1>1, <1>3, <1>13, <2>2, JobTyped DEF AutoSign, CascadeOf, TypeOK
  <2>4. cra' \in [Id -> CraRow]
    BY <1>13, <2>1, RowTyped, StatusTyped DEF AutoSign, TypeOK
  <2> QED
    BY <1>5, <1>13, <2>3, <2>4 DEF AutoSign, TypeOK
<1>14. ASSUME Cascade(w) PROVE TypeOK'
  <2>1. job[w].tier \in Tier \union {"none"}
    BY <1>2 DEF Job
  <2> QED
    BY <1>5, <1>14, <2>1, DoneTyped DEF Cascade, TypeOK
<1>15. ASSUME OpenReview(w) PROVE TypeOK'
  <2>1. job[w].c \in Id
    BY <1>2, <1>15 DEF OpenReview, At, JobFits, Named
  <2>2. review' \in [Id -> Seq(Verdict \union {"PENDING"})]
    BY <1>15, <2>1, CasesTyped DEF OpenReview, TypeOK
  <2> QED
    BY <1>1, <1>5, <1>15, <2>2, GotoTyped DEF OpenReview, TypeOK
<1>16. ASSUME MarkReview(w) PROVE TypeOK'
  <2>0. job[w].c \in Id
    BY <1>2, <1>16 DEF MarkReview, At, JobFits, Named
  <2>1. cra' \in [Id -> CraRow]
    BY <1>16, <2>0, RowTyped, StatusTyped DEF MarkReview, TypeOK
  <2>2. job' \in [Worker -> Job]
    BY <1>16, DoneTyped DEF MarkReview
  <2> QED
    BY <1>5, <1>16, <2>1, <2>2 DEF MarkReview, TypeOK
<1>17. ASSUME Signoff(w) PROVE TypeOK'
  <2>1. job[w].c \in Id
    BY <1>2, <1>17 DEF Signoff, At, JobFits, Named
  <2> DEFINE c == job[w].c
             old == cra[c]
             lowered == ~(job[w].verdict = "APPROVED") /\ LowToHigh(old)
             new == [old EXCEPT !.status = "SIGNED", !.tier = IF lowered THEN old.previous ELSE @]
  <2>2. old \in CraRow
    BY <2>1 DEF TypeOK
  <2>3. new \in CraRow
    BY <2>2, StatusTyped DEF CraRow
  <2>4. cra' = [cra EXCEPT ![c] = new]
    BY <1>17 DEF Signoff
  <2>5. cra' \in [Id -> CraRow]
    BY <2>3, <2>4 DEF TypeOK
  <2>6. new.tier \in Tier
    BY <2>3 DEF CraRow
  <2>7. PICK at \in {"upgrade", "cascade"}, tier \in Tier \union {"none"} :
          job' = [job EXCEPT ![w].at = at, ![w].tier = tier]
    BY <1>17, <2>6 DEF Signoff, CascadeOf
  <2>8. job' \in [Worker -> Job]
    BY <1>1, <1>3, <2>7, JobTyped DEF TypeOK
  <2> QED
    BY <1>5, <1>17, <2>5, <2>8 DEF Signoff, TypeOK
<1>18. ASSUME OpenUpgrade(w) PROVE TypeOK'
  BY <1>5, <1>18, DoneTyped DEF OpenUpgrade, TypeOK, UpgradeStatus, Freeze
<1>19. ASSUME OpenPhase2(w) PROVE TypeOK'
  <2>1. job[w].c \in Id
    BY <1>2, <1>19 DEF OpenPhase2, At, JobFits, Named
  <2>2. phase2' \in [Id -> Seq(Verdict \union {"PENDING"})]
    BY <1>19, <2>1, CasesTyped DEF OpenPhase2, TypeOK
  <2> QED
    BY <1>1, <1>5, <1>19, <2>2, GotoTyped DEF OpenPhase2, TypeOK
<1>20. ASSUME LinkPhase2(w) PROVE TypeOK'
  BY <1>5, <1>20, DoneTyped DEF LinkPhase2, TypeOK, UpgradeStatus
<1>21. ASSUME TierSignoff(w) PROVE TypeOK'
  BY <1>5, <1>21, DoneTyped DEF TierSignoff, TypeOK, UpgradeStatus, Freeze, Tier
<1>22. ASSUME CaseCustomer(w) PROVE TypeOK'
  BY <1>1, <1>5, <1>22, GotoTyped DEF CaseCustomer, TypeOK, Freeze
<1>23. ASSUME CaseSign(w) PROVE TypeOK'
  <2>0. job[w].c \in Id
    BY <1>2, <1>23 DEF CaseSign, At, JobFits, Named
  <2>1. cra' \in [Id -> CraRow]
    BY <1>23, <2>0, RowTyped, StatusTyped DEF CaseSign, TypeOK
  <2>2. job' \in [Worker -> Job]
    BY <1>23, DoneTyped DEF CaseSign
  <2> QED
    BY <1>5, <1>23, <2>1, <2>2 DEF CaseSign, TypeOK
<1>24. ASSUME MaterialFreeze(w) PROVE TypeOK'
  BY <1>1, <1>5, <1>24, GotoTyped DEF MaterialFreeze, TypeOK, Freeze
<1>25. ASSUME MaterialExpired(w) PROVE TypeOK'
  BY <1>5, <1>25, DoneTyped DEF MaterialExpired, TypeOK
<1>26. ASSUME MaterialRefreshed(w) PROVE TypeOK'
  BY <1>1, <1>5, <1>26, GotoTyped DEF MaterialRefreshed, TypeOK
<1>27. ASSUME MaterialRelease(w) PROVE TypeOK'
  <2>1. "check" \in Place /\ \A at \in Place : [Idle EXCEPT !.at = at] \in Job
    <3>1. "check" \in Place
      BY DEF Place
    <3> QED
      BY <3>1, IdleTyped DEF Job
  <2>2. job' \in [Worker -> Job]
    BY <1>27, <2>1, DoneTyped, JobTyped DEF MaterialRelease
  <2> QED
    BY <1>5, <1>27, <2>2 DEF MaterialRelease, TypeOK, Freeze
<1> QED
  BY <1>6, <1>7, <1>8, <1>9, <1>10, <1>11, <1>12, <1>13, <1>14, <1>15, <1>16, <1>17, <1>18,
     <1>19, <1>20, <1>21, <1>22, <1>23, <1>24, <1>25, <1>26, <1>27 DEF Work

\* A call that fails.
LEMMA FailTyped ==
  ASSUME TypeOK, NEW w \in Worker, Fail(w)
  PROVE  TypeOK'
BY DoneTyped, RiskAssumption DEF Fail, TypeOK

-----------------------------------------------------------------------------
\* Nothing that a step leaves alone is taken back.
LEMMA SameStays ==
  /\ UNCHANGED cra => CraStays
  /\ UNCHANGED answer => AnswerStays
  /\ UNCHANGED upgrade => UpgradeStays
  /\ UNCHANGED review => ReviewStays
  /\ UNCHANGED phase2 => Phase2Stays
BY DEF CraStays, AnswerStays, UpgradeStays, ReviewStays, Phase2Stays

\* A decision stays when another case is opened, or decided.
LEMMA DecisionStays ==
  ASSUME NEW S, NEW cases \in Seq(S), NEW x \in S, NEW verdict \in Verdict,
         DecidedAs(cases, verdict)
  PROVE  /\ DecidedAs(Append(cases, x), verdict)
         /\ \A i \in DOMAIN cases :
              cases[i] = "PENDING" => DecidedAs([cases EXCEPT ![i] = x], verdict)
<1>1. PICK k \in DOMAIN cases : cases[k] = verdict
  BY DEF DecidedAs
<1>2. k \in DOMAIN Append(cases, x) /\ Append(cases, x)[k] = verdict
  BY <1>1
<1>3. verdict # "PENDING"
  BY DEF Verdict
<1>4. \A i \in DOMAIN cases : cases[i] = "PENDING" =>
        k \in DOMAIN [cases EXCEPT ![i] = x] /\ [cases EXCEPT ![i] = x][k] = verdict
  BY <1>1, <1>3
<1> QED
  BY <1>2, <1>4 DEF DecidedAs

\* A decision stays in the approval cases of any assessment.
LEMMA CasesStay ==
  ASSUME NEW old \in [Id -> Seq(Verdict \union {"PENDING"})], NEW c \in Id,
         NEW x \in Verdict \union {"PENDING"}, NEW d \in Id, NEW verdict \in Verdict,
         DecidedAs(old[d], verdict)
  PROVE  /\ DecidedAs([old EXCEPT ![c] = Append(@, x)][d], verdict)
         /\ \A i \in DOMAIN old[c] :
              old[c][i] = "PENDING" => DecidedAs([old EXCEPT ![c][i] = x][d], verdict)
<1>1. CASE d # c
  BY <1>1
<1>2. CASE d = c
  <2>1. old[c] \in Seq(Verdict \union {"PENDING"})
    OBVIOUS
  <2>2. [old EXCEPT ![c] = Append(@, x)][d] = Append(old[c], x)
    BY <1>2
  <2>3. \A i \in DOMAIN old[c] : [old EXCEPT ![c][i] = x][d] = [old[c] EXCEPT ![i] = x]
    BY <1>2
  <2> QED
    BY <1>2, <2>1, <2>2, <2>3, DecisionStays
<1> QED
  BY <1>1, <1>2

\* The next assessment is a new one.
LEMMA NextIsNew ==
  ASSUME InOrder, Cardinality(Created) + 1 \in Id
  PROVE  \E n \in 0..MaxCra : /\ \A c \in Id : cra[c].status # "none" <=> c <= n
                             /\ Cardinality(Created) + 1 = n + 1
<1>1. PICK n \in 0..MaxCra : \A c \in Id : cra[c].status # "none" <=> c <= n
  BY DEF InOrder
<1>2. Created = 1..n
  BY <1>1, RiskAssumption DEF Created, Id
<1>3. Cardinality(1..n) = n
  BY FS_Interval, RiskAssumption
<1> QED
  BY <1>1, <1>2, <1>3

\* What a step may do to the rows keeps them fitting.
LEMMA RowsFit ==
  ASSUME Later, RowSteps, \A c \in Id : RowFits(c)
  PROVE  \A c \in Id : RowFits(c)'
<1> SUFFICES ASSUME NEW c \in Id PROVE RowFits(c)'
  OBVIOUS
<1>0. "APPROVED" \in Verdict
  BY DEF Verdict
<1>1. RowFits(c) /\ (Heard => Heard')
  BY HeardStays DEF Later
<1>2. upgrade'[c] # "none" => DecidedAs(review'[c], "APPROVED")
  BY <1>0, <1>1 DEF RowSteps, RowFits, Later, ReviewStays
<1>3. upgrade'[c] = "COMPLETED" => DecidedAs(phase2'[c], "APPROVED")
  BY <1>0, <1>1 DEF RowSteps, RowFits, Later, Phase2Stays
<1>4. phase2'[c] # <<>> => upgrade'[c] # "none"
  BY DEF RowSteps, Later, UpgradeStays
<1>5. answer[c].labels # {} => answer'[c] = answer[c]
  BY DEF Later, AnswerStays, NoResult
<1>6. cra'[c].tier = "HIGH" => Heard' \/ answer'[c].labels # {}
  BY <1>1, <1>5 DEF RowSteps, RowFits
<1>7. cra'[c].status = "none" => answer'[c] = NoResult /\ review'[c] = <<>>
  BY <1>1 DEF RowSteps, RowFits
<1> QED
  BY <1>2, <1>3, <1>4, <1>6, <1>7 DEF RowFits, DecidedAs

\* What a step that leaves the rows alone does to them.
LEMMA SameRows ==
  ASSUME UNCHANGED <<cra, upgrade, review, phase2, answer>>, \A c \in Id : RowFits(c)
  PROVE  Later /\ RowSteps
BY SameStays DEF Later, RowSteps, RowFits

\* A call that begins is at the place it begins with.
LEMMA BeginSets ==
  ASSUME TypeOK, NEW w \in Worker, NEW first, Begin(w, first)
  PROVE  job'[w] = first
BY DEF Begin, TypeOK

\* A call that begins, begins with what it needs.
LEMMA CallKeeps ==
  ASSUME TypeOK, \A c \in Id : RowFits(c), NEW w \in Worker, Call(w)
  PROVE  Later /\ RowSteps /\ JobFits(w)' /\ UNCHANGED <<cra, customer>>
<1> DEFINE Goal == Later /\ RowSteps /\ JobFits(w)' /\ UNCHANGED <<cra, customer>>
<1>1. ASSUME Trigger(w) PROVE Goal
  <2>1. job'[w].at = "check"
    BY <1>1, BeginSets DEF Trigger, Idle
  <2>2. JobFits(w)'
    BY <2>1 DEF JobFits, Answering, Named
  <2> QED
    BY <1>1, <2>2, SameRows DEF Trigger
<1>2. ASSUME Level2Complete(w) PROVE Goal
  <2>1. PICK c \in Id : upgrade[c] = "PENDING_LEVEL2"
                       /\ Begin(w, [Idle EXCEPT !.at = "openPhase2", !.c = c])
    BY <1>2 DEF Level2Complete, Latest
  <2>2. job'[w].at = "openPhase2" /\ job'[w].c = c
    BY <2>1, BeginSets DEF Idle
  <2>3. cra[c].status # "none"
    <3>1. RowFits(c) /\ DecidedAs(review[c], "APPROVED")
      BY <2>1 DEF RowFits
    <3> QED
      BY <3>1 DEF RowFits, DecidedAs
  <2>4. JobFits(w)'
    BY <1>2, <2>1, <2>2, <2>3 DEF Level2Complete, JobFits, Answering
  <2> QED
    BY <1>2, <2>4, SameRows DEF Level2Complete
<1>3. ASSUME DocumentExpires(w) PROVE Goal
  <2>1. job'[w].at = "freeze"
    BY <1>3, BeginSets DEF DocumentExpires, Idle
  <2>2. JobFits(w)'
    BY <2>1 DEF JobFits, Answering, Named
  <2> QED
    BY <1>3, <2>2, SameRows DEF DocumentExpires
<1>4. ASSUME MaterialGreen(w) PROVE Goal
  <2>1. job'[w].at = "refresh"
    BY <1>4, BeginSets DEF MaterialGreen, Idle
  <2>2. JobFits(w)'
    BY <2>1 DEF JobFits, Answering, Named
  <2> QED
    BY <1>4, <2>2, SameRows DEF MaterialGreen
<1>5. ASSUME NEW result \in Reports, SpontaneousHit(w, result) PROVE Goal
  <2>1. job'[w].at = "check"
    BY <1>5, BeginSets DEF SpontaneousHit, Idle
  <2>2. JobFits(w)'
    BY <2>1 DEF JobFits, Answering, Named
  <2> QED
    BY <1>5, <2>2, SameRows DEF SpontaneousHit
<1>6. ASSUME NEW result \in Reports, NEW c \in Id, AmlAnswer(w, c, result) PROVE Goal
  <2>1. job'[w].at = "label" /\ job'[w].c = c /\ job'[w].result = result
    <3>1. job'[w] = [Idle EXCEPT !.at = "label", !.c = c, !.result = result, !.again = TRUE]
      BY <1>6, BeginSets DEF AmlAnswer
    <3> QED
      BY <3>1 DEF Idle
  <2>2. result # NoResult
    BY RiskAssumption DEF AmlResult, NoResult
  <2>3. answer' = [answer EXCEPT ![c] = result] /\ answer[c] \in {NoResult, result}
        /\ cra[c].status = "PENDING_SUMSUB_RESULT" /\ UNCHANGED <<cra, upgrade, review, phase2, customer>>
    BY <1>6 DEF AmlAnswer
  <2>4. answer'[c] = result /\ \A d \in Id : d # c => answer'[d] = answer[d]
    BY <2>3 DEF TypeOK
  <2>5. JobFits(w)'
    BY <2>1, <2>2, <2>3, <2>4 DEF JobFits, Answering, Named
  <2>6. AnswerStays
    BY <2>3, <2>4 DEF AnswerStays
  <2>7. RowSteps
    BY <2>3, <2>4 DEF RowSteps, RowFits
  <2> QED
    BY <2>3, <2>5, <2>6, <2>7, SameStays DEF Later
<1>7. ASSUME NEW c \in Id, NEW verdict \in Verdict, MlroDecides(w, c, verdict) PROVE Goal
  <2>1. PICK i \in DOMAIN review[c] :
          /\ review[c][i] = "PENDING" /\ review' = [review EXCEPT ![c][i] = verdict]
          /\ Begin(w, [Idle EXCEPT !.at = "signoff", !.c = c, !.verdict = verdict])
          /\ UNCHANGED <<customer, cra, upgrade, phase2, answer>>
    BY <1>7 DEF MlroDecides
  <2>2. job'[w].at = "signoff" /\ job'[w].c = c /\ job'[w].verdict = verdict
    BY <2>1, BeginSets DEF Idle
  <2>3. ReviewStays
    <3>1. review \in [Id -> Seq(Verdict \union {"PENDING"})] /\ verdict \in Verdict \union {"PENDING"}
      BY DEF TypeOK
    <3>2. ASSUME NEW d \in Id, NEW given \in Verdict, DecidedAs(review[d], given)
          PROVE  DecidedAs(review'[d], given)
      <4>1. DecidedAs([review EXCEPT ![c][i] = verdict][d], given)
        BY <2>1, <3>1, <3>2, CasesStay
      <4> QED
        BY <2>1, <4>1
    <3> QED
      BY <3>2 DEF ReviewStays
  <2>4. DecidedAs(review'[c], verdict)
    BY <2>1 DEF TypeOK, DecidedAs
  <2>5. review[c] # <<>> /\ cra[c].status # "none"
    BY <2>1 DEF RowFits
  <2>6. JobFits(w)'
    BY <2>1, <2>2, <2>4, <2>5 DEF JobFits, Answering
  <2>7. RowSteps
    BY <2>1, <2>5 DEF RowSteps, RowFits, TypeOK
  <2> QED
    BY <2>1, <2>3, <2>6, <2>7, SameStays DEF Later
<1>8. ASSUME NEW c \in Id, NEW verdict \in Verdict, Phase2Decides(w, c, verdict) PROVE Goal
  <2>1. PICK i \in DOMAIN phase2[c] :
          /\ phase2[c][i] = "PENDING" /\ phase2' = [phase2 EXCEPT ![c][i] = verdict]
          /\ Begin(w, [Idle EXCEPT !.at = "tierSignoff", !.c = c, !.verdict = verdict])
          /\ UNCHANGED <<customer, cra, upgrade, review, answer>>
    BY <1>8 DEF Phase2Decides
  <2>2. job'[w].at = "tierSignoff" /\ job'[w].c = c /\ job'[w].verdict = verdict
    BY <2>1, BeginSets DEF Idle
  <2>3. Phase2Stays
    <3>1. phase2 \in [Id -> Seq(Verdict \union {"PENDING"})] /\ verdict \in Verdict \union {"PENDING"}
      BY DEF TypeOK
    <3>2. ASSUME NEW d \in Id, NEW given \in Verdict, DecidedAs(phase2[d], given)
          PROVE  DecidedAs(phase2'[d], given)
      <4>1. DecidedAs([phase2 EXCEPT ![c][i] = verdict][d], given)
        BY <2>1, <3>1, <3>2, CasesStay
      <4> QED
        BY <2>1, <4>1
    <3> QED
      BY <3>2 DEF Phase2Stays
  <2>4. DecidedAs(phase2'[c], verdict)
    BY <2>1 DEF TypeOK, DecidedAs
  <2>5. phase2[c] # <<>> /\ upgrade[c] # "none" /\ DecidedAs(review[c], "APPROVED")
    BY <2>1 DEF RowFits
  <2>6. cra[c].status # "none"
    BY <2>5 DEF RowFits, DecidedAs
  <2>7. JobFits(w)'
    BY <2>1, <2>2, <2>4, <2>5, <2>6 DEF JobFits, Answering
  <2>8. RowSteps
    BY <2>1, <2>5 DEF RowSteps, RowFits, TypeOK
  <2> QED
    BY <2>1, <2>3, <2>7, <2>8, SameStays DEF Later
<1>9. ASSUME NEW c \in Id, NEW verdict \in Verdict, CaseDecision(w, c, verdict) PROVE Goal
  <2>1. job'[w].at = "caseCustomer" /\ job'[w].c = c
    BY <1>9, BeginSets DEF CaseDecision, Idle
  <2>2. JobFits(w)'
    BY <1>9, <2>1 DEF CaseDecision, JobFits, Answering
  <2> QED
    BY <1>9, <2>2, SameRows DEF CaseDecision
<1> QED
  BY <1>1, <1>2, <1>3, <1>4, <1>5, <1>6, <1>7, <1>8, <1>9 DEF Call

-----------------------------------------------------------------------------
\* A call at one of these places works on an assessment.
LEMMA NamedPlaces ==
  /\ Answering \subseteq Named
  /\ {"amlCheck", "cascade", "openReview", "mark", "signoff", "upgrade", "openPhase2", "link",
      "tierSignoff", "caseCustomer", "caseSign"} \subseteq Named
BY DEF Answering, Named, Place

\* A call that is over, or begins again, relies on nothing.
LEMMA FinishFits ==
  ASSUME TypeOK, NEW w \in Worker, Done(w) \/ Finish(w)
  PROVE  JobFits(w)'
<1>1. ASSUME Done(w) PROVE job'[w] = Idle
  BY <1>1 DEF Done, TypeOK
<1>2. ASSUME NEW result, job' = [job EXCEPT ![w] = [Idle EXCEPT !.at = "check", !.result = result]]
      PROVE  job'[w].at = "check"
  <2>1. job'[w] = [Idle EXCEPT !.at = "check", !.result = result]
    BY <1>2 DEF TypeOK
  <2> QED
    BY <2>1 DEF Idle
<1>3. job'[w] = Idle \/ job'[w].at = "check"
  BY <1>1, <1>2 DEF Finish
<1> QED
  BY <1>3 DEF Idle, JobFits, Answering, Named

\* A call that moves on changes its place only.
LEMMA GotoSets ==
  ASSUME TypeOK, NEW w \in Worker, NEW at, Goto(w, at)
  PROVE  /\ job'[w].at = at /\ job'[w].c = job[w].c /\ job'[w].result = job[w].result
         /\ job'[w].tier = job[w].tier /\ job'[w].review = job[w].review
         /\ job'[w].verdict = job[w].verdict
<1>1. job[w] \in Job
  BY DEF TypeOK
<1>2. job'[w] = [job[w] EXCEPT !.at = at]
  BY DEF Goto, TypeOK
<1> QED
  BY <1>1, <1>2 DEF Job

\* A step that writes the row of one assessment only.
LEMMA RowWritten ==
  ASSUME InOrder, \A c \in Id : RowFits(c), NEW c \in Id,
         UNCHANGED <<upgrade, review, phase2, answer>>,
         \A d \in Id : d # c => cra'[d] = cra[d],
         cra[c].status # "none", cra'[c].status # "none",
         cra'[c].tier = "HIGH" => cra[c].tier = "HIGH" \/ Heard \/ answer[c].labels # {}
  PROVE  Later /\ RowSteps /\ InOrder'
<1>1. \A d \in Id : cra'[d].status = "none" <=> cra[d].status = "none"
  OBVIOUS
<1>2. InOrder'
  BY <1>1 DEF InOrder
<1>3. CraStays
  BY <1>1 DEF CraStays
<1>4. RowSteps
  BY <1>1 DEF RowSteps, RowFits
<1> QED
  BY <1>2, <1>3, <1>4, SameStays DEF Later

\* Between two places of the same call.
LEMMA SameCall ==
  ASSUME UNCHANGED <<cra, upgrade, review, phase2, answer>>, InOrder,
         \A c \in Id : RowFits(c)
  PROVE  Later /\ RowSteps /\ InOrder'
BY SameRows DEF InOrder

\* What a call at work relies on at its next place, it has.
LEMMA WorkKeeps ==
  ASSUME TypeOK, InOrder, \A c \in Id : RowFits(c), customer.rating = "HIGH" => Heard,
         NEW w \in Worker, JobFits(w), Work(w)
  PROVE  Later /\ RowSteps /\ JobFits(w)' /\ InOrder' /\ (customer'.rating = "HIGH" => Heard)
<1> DEFINE Goal == /\ Later /\ RowSteps /\ JobFits(w)' /\ InOrder'
                   /\ customer'.rating = "HIGH" => Heard
           c == job[w].c
<1>1. job[w] \in Job
  BY DEF TypeOK
<1>2. job[w].at \in Named => c \in Id /\ cra[c].status # "none"
  BY DEF JobFits
<1>3. job[w].at \in Answering => answer[c] = job[w].result /\ answer[c] # NoResult
  BY DEF JobFits
<1>4. job[w].at \in Answering => job[w].at \in Named
  BY NamedPlaces
<1>5. UNCHANGED <<cra, upgrade, review, phase2, answer>> => Later /\ RowSteps /\ InOrder'
  BY SameCall
<1>6. ASSUME Check(w) PROVE Goal
  <2>1. ASSUME Active # {} PROVE JobFits(w)'
    BY <1>6, <2>1, FinishFits DEF Check
  <2>2. ASSUME Active = {} PROVE JobFits(w)'
    <3>1. job'[w] = [job[w] EXCEPT !.at = "create", !.tier = customer.rating]
      BY <1>6, <2>2 DEF Check, TypeOK
    <3>2. job'[w].at = "create" /\ job'[w].tier \in Tier
      BY <1>1, <3>1 DEF TypeOK, Job
    <3>3. JobFits(w)'
      BY <3>2 DEF JobFits, Answering, Named
    <3> QED
      BY <3>3
  <2>3. JobFits(w)'
    BY <2>1, <2>2
  <2> QED
    BY <1>5, <1>6, <2>3 DEF Check
<1>7. ASSUME Create(w) PROVE Goal
  <2> DEFINE new == Cardinality(Created) + 1
             known == job[w].result # NoResult
  <2>1. new \in Id /\ UNCHANGED <<customer, upgrade, review, phase2>>
    BY <1>7 DEF Create
  <2>2. PICK n \in 0..MaxCra : /\ \A d \in Id : cra[d].status # "none" <=> d <= n
                             /\ new = n + 1
    BY <2>1, NextIsNew
  <2>3. cra[new].status = "none" /\ answer[new] = NoResult /\ review[new] = <<>>
    BY <2>1, <2>2, RiskAssumption DEF Id, RowFits
  <2>4. /\ cra'[new].status = "PENDING_SUMSUB_RESULT" /\ cra'[new].tier = "UNKNOWN"
        /\ answer'[new] = job[w].result
        /\ \A d \in Id : d # new => cra'[d] = cra[d] /\ answer'[d] = answer[d]
    BY <1>7, <2>1 DEF Create, TypeOK
  <2>5. /\ job'[w].c = new /\ job'[w].result = job[w].result
        /\ job'[w].at = IF known THEN "process" ELSE "amlCheck"
    BY <1>1, <1>7 DEF Create, TypeOK, Job
  <2>6. JobFits(w)'
    <3>1. CASE known
      BY <2>1, <2>4, <2>5, <3>1 DEF JobFits, Answering
    <3>2. CASE ~known
      BY <2>1, <2>4, <2>5, <3>2 DEF JobFits, Answering
    <3> QED
      BY <3>1, <3>2
  <2>7. \A d \in Id : cra'[d].status # "none" <=> d <= n + 1
    BY <2>1, <2>2, <2>4, RiskAssumption DEF Id
  <2>8. InOrder'
    <3>1. n + 1 \in 0..MaxCra
      BY <2>1, <2>2, RiskAssumption DEF Id
    <3> QED
      BY <2>7, <3>1 DEF InOrder
  <2>9. CraStays /\ AnswerStays
    BY <2>3, <2>4 DEF CraStays, AnswerStays
  <2>10. RowSteps
    BY <2>1, <2>4 DEF RowSteps, RowFits
  <2> QED
    BY <2>1, <2>6, <2>8, <2>9, <2>10, SameStays DEF Later
<1>8. ASSUME AmlCheck(w) PROVE Goal
  <2>1. c \in Id /\ cra[c].status # "none"
    BY <1>2, <1>4, <1>8, NamedPlaces DEF AmlCheck, At, Answering
  <2>2. cra'[c].status # "none" /\ cra'[c].tier = cra[c].tier /\ \A d \in Id : d # c => cra'[d] = cra[d]
    <3>1. cra' = cra \/ cra' = [cra EXCEPT ![c].inspected = TRUE]
      BY <1>8 DEF AmlCheck
    <3>2. CASE cra' = [cra EXCEPT ![c].inspected = TRUE]
      BY <2>1, <3>2 DEF TypeOK, CraRow
    <3> QED
      BY <2>1, <3>1, <3>2
  <2>3. Later /\ RowSteps /\ InOrder'
    BY <1>8, <2>1, <2>2, RowWritten DEF AmlCheck
  <2> QED
    BY <1>8, <2>3, FinishFits DEF AmlCheck
<1>9. ASSUME StoreLabels(w) PROVE Goal
  <2>1. c \in Id /\ cra[c].status # "none"
    BY <1>2, <1>4, <1>9, NamedPlaces DEF StoreLabels, At, Answering
  <2>2. cra'[c].status # "none" /\ cra'[c].tier = cra[c].tier /\ \A d \in Id : d # c => cra'[d] = cra[d]
    BY <1>9, <2>1 DEF StoreLabels, TypeOK, CraRow
  <2>3. Later /\ RowSteps /\ InOrder'
    BY <1>9, <2>1, <2>2, RowWritten DEF StoreLabels
  <2>4. JobFits(w)'
    <3>1. job'[w].at = "process" /\ job'[w].c = c /\ job'[w].result = job[w].result
      BY <1>9, GotoSets DEF StoreLabels
    <3>2. answer'[c] = job[w].result /\ answer'[c] # NoResult
      BY <1>3, <1>9 DEF StoreLabels, At, Answering
    <3> QED
      BY <2>1, <2>2, <3>1, <3>2 DEF JobFits, Answering
  <2> QED
    BY <1>9, <2>3, <2>4 DEF StoreLabels
<1>10. ASSUME Process(w) PROVE Goal
  <2>1. c \in Id /\ cra[c].status # "none"
    BY <1>2, <1>4, <1>10, NamedPlaces DEF Process, At, Answering
  <2> DEFINE result == job[w].result
             before == customer.rating
             tier == ResultingTier(result, holding.expired, before)
             seen == SignedLabels
  <2>2. result \in AmlResult /\ answer[c] = result /\ answer[c] # NoResult
    BY <1>1, <1>3, <1>10 DEF Process, At, Answering, Job
  <2>3. UNCHANGED <<customer, cra, upgrade, review, phase2, answer>>
    BY <1>10 DEF Process
  <2>4. CASE Sanctioned(result)
    <3>1. job'[w].at = "escalate" /\ job'[w].c = c /\ job'[w].result = result
      BY <1>10, <2>4, GotoSets DEF Process
    <3>2. result.labels # {}
      BY <2>4 DEF Sanctioned
    <3>3. JobFits(w)'
      BY <2>1, <2>2, <2>3, <3>1, <3>2 DEF JobFits, Answering
    <3> QED
      BY <1>5, <2>3, <3>3
  <2>5. CASE ~Sanctioned(result)
    <3>1. /\ job'[w].at = "score" /\ job'[w].c = c /\ job'[w].result = result
          /\ job'[w].tier = tier /\ job'[w].review = NeedsReview(result, tier, before, seen)
      BY <1>1, <1>10, <2>5 DEF Process, TypeOK, Job
    <3>2. before \in Tier /\ holding.expired \in BOOLEAN
      BY DEF TypeOK
    <3>3. tier \in Tier
      BY <2>2, <3>2, RuleTyped
    <3>4. /\ tier = "HIGH" /\ result.labels = {} => before = "HIGH"
          /\ ~NeedsReview(result, tier, before, seen) /\ result.labels # {} => before = "HIGH"
      BY <2>2, <3>2, RuleReviewed
    <3>5. before = "HIGH" => Heard'
      BY <2>3 DEF Heard
    <3> HIDE DEF tier, before, seen
    <3>6. JobFits(w)'
      BY <2>1, <2>2, <2>3, <3>1, <3>3, <3>4, <3>5 DEF JobFits, Answering
    <3> QED
      BY <1>5, <2>3, <3>6
  <2> QED
    BY <2>4, <2>5
<1>11. ASSUME Escalate(w) PROVE Goal
  <2>1. c \in Id /\ cra[c].status # "none"
    BY <1>2, <1>4, <1>11, NamedPlaces DEF Escalate, At, Answering
  <2>2. cra'[c].status # "none" /\ \A d \in Id : d # c => cra'[d] = cra[d]
    BY <1>11, <2>1 DEF Escalate, TypeOK, CraRow
  <2>3. answer[c].labels # {}
    BY <1>11 DEF Escalate, At, JobFits, Answering
  <2>4. Later /\ RowSteps /\ InOrder'
    BY <1>11, <2>1, <2>2, <2>3, RowWritten DEF Escalate
  <2>5. customer'.rating = customer.rating
    BY <1>11 DEF Escalate, TypeOK
  <2> QED
    BY <1>11, <2>4, <2>5, FinishFits DEF Escalate
<1>12. ASSUME Score(w) PROVE Goal
  <2>1. c \in Id /\ cra[c].status # "none"
    BY <1>2, <1>4, <1>12, NamedPlaces DEF Score, At, Answering
  <2>2. cra'[c].status # "none" /\ cra'[c].tier = job[w].tier /\ \A d \in Id : d # c => cra'[d] = cra[d]
    BY <1>12, <2>1 DEF Score, TypeOK, CraRow
  <2>3. job[w].tier = "HIGH" => Heard \/ answer[c].labels # {}
    BY <1>12 DEF Score, At, JobFits, Answering
  <2>4. Later /\ RowSteps /\ InOrder'
    BY <1>12, <2>1, <2>2, <2>3, RowWritten DEF Score
  <2>5. /\ job'[w].at = IF job[w].review THEN "openReview" ELSE "sign"
        /\ job'[w].c = c /\ job'[w].result = job[w].result /\ job'[w].review = job[w].review
    BY <1>12, GotoSets DEF Score
  <2>6. /\ answer'[c] = job[w].result /\ answer'[c] # NoResult
        /\ ~job[w].review /\ job[w].result.labels # {} => Heard'
    <3>1. Heard => Heard'
      BY <2>4, HeardStays DEF Later
    <3> QED
      BY <1>3, <1>12, <3>1 DEF Score, At, JobFits, Answering
  <2>7. JobFits(w)'
    BY <2>1, <2>2, <2>5, <2>6 DEF JobFits, Answering
  <2> QED
    BY <1>12, <2>4, <2>7 DEF Score
<1>13. ASSUME AutoSign(w) PROVE Goal
  <2>1. c \in Id /\ cra[c].status # "none"
    BY <1>2, <1>4, <1>13, NamedPlaces DEF AutoSign, At, Answering
  <2>2. cra'[c].status # "none" /\ cra'[c].tier = cra[c].tier /\ \A d \in Id : d # c => cra'[d] = cra[d]
    BY <1>13, <2>1 DEF AutoSign, TypeOK, CraRow
  <2>3. Later /\ RowSteps /\ InOrder'
    BY <1>13, <2>1, <2>2, RowWritten DEF AutoSign
  <2>4. cra[c].tier = "HIGH" => Heard
    BY <1>13, <2>1 DEF AutoSign, At, JobFits, RowFits, Answering
  <2>5. job'[w].at = "cascade" /\ job'[w].c = c /\ job'[w].tier \in {cra[c].tier, "none"}
    BY <1>1, <1>13 DEF AutoSign, CascadeOf, TypeOK, Job
  <2>6. Heard => Heard'
    BY <2>3, HeardStays DEF Later
  <2>7. JobFits(w)'
    BY <2>1, <2>2, <2>4, <2>5, <2>6 DEF JobFits, Answering
  <2> QED
    BY <1>13, <2>3, <2>7 DEF AutoSign
<1>14. ASSUME Cascade(w) PROVE Goal
  <2>1. customer'.rating = "HIGH" => Heard
    BY <1>14 DEF Cascade, At, JobFits, TypeOK
  <2> QED
    BY <1>5, <1>14, <2>1, FinishFits DEF Cascade
<1>15. ASSUME OpenReview(w) PROVE Goal
  <2>1. c \in Id /\ cra[c].status # "none"
    BY <1>2, <1>4, <1>15, NamedPlaces DEF OpenReview, At, Answering
  <2>2. review' = [review EXCEPT ![c] = Append(@, "PENDING")]
        /\ UNCHANGED <<customer, cra, upgrade, phase2, answer>>
    BY <1>15 DEF OpenReview
  <2>3. ReviewStays
    <3>1. review \in [Id -> Seq(Verdict \union {"PENDING"})] /\ "PENDING" \in Verdict \union {"PENDING"}
      BY DEF TypeOK
    <3>2. ASSUME NEW d \in Id, NEW given \in Verdict, DecidedAs(review[d], given)
          PROVE  DecidedAs(review'[d], given)
      <4>1. DecidedAs([review EXCEPT ![c] = Append(@, "PENDING")][d], given)
        BY <2>1, <3>1, <3>2, CasesStay
      <4> QED
        BY <2>2, <4>1
    <3> QED
      BY <3>2 DEF ReviewStays
  <2>4. RowSteps
    BY <2>1, <2>2 DEF RowSteps, RowFits, TypeOK
  <2>5. job'[w].at = "mark" /\ job'[w].c = c
    BY <1>15, GotoSets DEF OpenReview
  <2>6. JobFits(w)'
    BY <2>1, <2>2, <2>5 DEF JobFits, Answering
  <2> QED
    BY <2>2, <2>3, <2>4, <2>6, SameStays DEF Later, InOrder
<1>16. ASSUME MarkReview(w) PROVE Goal
  <2>1. c \in Id /\ cra[c].status # "none"
    BY <1>2, <1>4, <1>16, NamedPlaces DEF MarkReview, At, Answering
  <2>2. cra'[c].status # "none" /\ cra'[c].tier = cra[c].tier /\ \A d \in Id : d # c => cra'[d] = cra[d]
    BY <1>16, <2>1 DEF MarkReview, TypeOK, CraRow
  <2>3. Later /\ RowSteps /\ InOrder'
    BY <1>16, <2>1, <2>2, RowWritten DEF MarkReview
  <2> QED
    BY <1>16, <2>3, FinishFits DEF MarkReview
<1>17. ASSUME Signoff(w) PROVE Goal
  <2>1. c \in Id /\ cra[c].status # "none"
    BY <1>2, <1>4, <1>17, NamedPlaces DEF Signoff, At, Answering
  <2> DEFINE approved == job[w].verdict = "APPROVED"
             row == [cra[c] EXCEPT !.status = "SIGNED",
                       !.tier = IF ~approved /\ LowToHigh(cra[c]) THEN cra[c].previous ELSE @]
  <2>2. cra' = [cra EXCEPT ![c] = row]
    BY <1>17 DEF Signoff
  <2>3. row.status = "SIGNED" /\ (row.tier = "HIGH" => cra[c].tier = "HIGH")
    BY <2>1 DEF TypeOK, CraRow, LowToHigh
  <2>4. cra'[c].status # "none" /\ (cra'[c].tier = "HIGH" => cra[c].tier = "HIGH")
        /\ \A d \in Id : d # c => cra'[d] = cra[d]
    BY <2>1, <2>2, <2>3 DEF TypeOK
  <2>5. UNCHANGED <<customer, upgrade, review, phase2, answer>>
    BY <1>17 DEF Signoff
  <2>6. Later /\ RowSteps /\ InOrder'
    BY <2>1, <2>4, <2>5, RowWritten
  <2>7. job[w].verdict \in Verdict /\ DecidedAs(review'[c], job[w].verdict)
    BY <1>17, <2>5 DEF Signoff, At, JobFits
  <2>8. Heard'
    BY <2>1, <2>7 DEF Heard, Decided
  <2>9. PICK at \in {"upgrade", "cascade"} :
          /\ \E tier : job' = [job EXCEPT ![w].at = at, ![w].tier = tier]
          /\ at = "upgrade" => approved
    BY <1>17 DEF Signoff, CascadeOf
  <2>10. job'[w].at = at /\ job'[w].c = c
    BY <1>1, <2>9 DEF TypeOK, Job
  <2>11. JobFits(w)'
    BY <2>1, <2>4, <2>7, <2>8, <2>9, <2>10 DEF JobFits, Answering
  <2> QED
    BY <2>5, <2>6, <2>11
<1>18. ASSUME OpenUpgrade(w) PROVE Goal
  <2>1. c \in Id /\ cra[c].status # "none"
    BY <1>2, <1>4, <1>18, NamedPlaces DEF OpenUpgrade, At, Answering
  <2>2. DecidedAs(review[c], "APPROVED")
    BY <1>18 DEF OpenUpgrade, At, JobFits
  <2>3. /\ \A d \in Id : upgrade'[d] = upgrade[d] \/ (upgrade'[d] = "PENDING_LEVEL2" /\ d = c)
        /\ customer'.rating = customer.rating /\ UNCHANGED <<cra, review, phase2, answer>>
    <3>1. \/ upgrade' = [upgrade EXCEPT ![c] = "PENDING_LEVEL2"]
             /\ customer' = [customer EXCEPT !.freeze = "tier"]
          \/ UNCHANGED <<upgrade, customer>>
      BY <1>18 DEF OpenUpgrade
    <3>2. UNCHANGED <<cra, review, phase2, answer>>
      BY <1>18 DEF OpenUpgrade
    <3> QED
      BY <3>1, <3>2 DEF TypeOK
  <2>4. UpgradeStays
    BY <2>3 DEF UpgradeStays
  <2>5. RowSteps
    BY <2>2, <2>3 DEF RowSteps, RowFits
  <2> QED
    BY <1>18, <2>3, <2>4, <2>5, SameStays, FinishFits DEF OpenUpgrade, Later, InOrder
<1>19. ASSUME OpenPhase2(w) PROVE Goal
  <2>1. c \in Id /\ cra[c].status # "none"
    BY <1>2, <1>4, <1>19, NamedPlaces DEF OpenPhase2, At, Answering
  <2>2. phase2' = [phase2 EXCEPT ![c] = Append(@, "PENDING")]
        /\ UNCHANGED <<customer, cra, upgrade, review, answer>> /\ upgrade[c] # "none"
    BY <1>19 DEF OpenPhase2, At, JobFits
  <2>3. Phase2Stays
    <3>1. phase2 \in [Id -> Seq(Verdict \union {"PENDING"})] /\ "PENDING" \in Verdict \union {"PENDING"}
      BY DEF TypeOK
    <3>2. ASSUME NEW d \in Id, NEW given \in Verdict, DecidedAs(phase2[d], given)
          PROVE  DecidedAs(phase2'[d], given)
      <4>1. DecidedAs([phase2 EXCEPT ![c] = Append(@, "PENDING")][d], given)
        BY <2>1, <3>1, <3>2, CasesStay
      <4> QED
        BY <2>2, <4>1
    <3> QED
      BY <3>2 DEF Phase2Stays
  <2>4. RowSteps
    BY <2>1, <2>2 DEF RowSteps, RowFits, TypeOK
  <2>5. job'[w].at = "link" /\ job'[w].c = c
    BY <1>19, GotoSets DEF OpenPhase2
  <2>6. JobFits(w)'
    BY <2>1, <2>2, <2>5 DEF JobFits, Answering
  <2> QED
    BY <2>2, <2>3, <2>4, <2>6, SameStays DEF Later, InOrder
<1>20. ASSUME LinkPhase2(w) PROVE Goal
  <2>1. c \in Id /\ cra[c].status # "none"
    BY <1>2, <1>4, <1>20, NamedPlaces DEF LinkPhase2, At, Answering
  <2>2. upgrade[c] # "none"
    BY <1>20 DEF LinkPhase2, At, JobFits
  <2>3. /\ \A d \in Id : upgrade'[d] = IF d = c THEN "PENDING_PHASE2_APPROVAL" ELSE upgrade[d]
        /\ UNCHANGED <<customer, cra, review, phase2, answer>>
    BY <1>20 DEF LinkPhase2, TypeOK
  <2>4. UpgradeStays
    BY <2>3 DEF UpgradeStays
  <2>5. RowSteps
    BY <2>2, <2>3 DEF RowSteps, RowFits
  <2> QED
    BY <1>20, <2>3, <2>4, <2>5, SameStays, FinishFits DEF LinkPhase2, Later, InOrder
<1>21. ASSUME TierSignoff(w) PROVE Goal
  <2>1. c \in Id /\ cra[c].status # "none"
    BY <1>2, <1>4, <1>21, NamedPlaces DEF TierSignoff, At, Answering
  <2> DEFINE approved == job[w].verdict = "APPROVED"
  <2>2. upgrade[c] # "none" /\ DecidedAs(phase2[c], job[w].verdict)
    BY <1>21 DEF TierSignoff, At, JobFits
  <2>3. /\ \A d \in Id : upgrade'[d] = IF d = c THEN IF approved THEN "COMPLETED" ELSE "REJECTED"
                                     ELSE upgrade[d]
        /\ UNCHANGED <<cra, review, phase2, answer>>
    BY <1>21 DEF TierSignoff, TypeOK
  <2>4. UpgradeStays
    BY <2>3 DEF UpgradeStays
  <2>5. RowSteps
    BY <2>2, <2>3 DEF RowSteps, RowFits
  <2>6. Heard
    BY <2>1, <2>2 DEF RowFits, Heard, Decided, Verdict
  <2> QED
    BY <1>21, <2>3, <2>4, <2>5, <2>6, SameStays, FinishFits DEF TierSignoff, Later, InOrder
<1>22. ASSUME CaseCustomer(w) PROVE Goal
  <2>1. c \in Id /\ cra[c].status # "none"
    BY <1>2, <1>4, <1>22, NamedPlaces DEF CaseCustomer, At, Answering
  <2>2. job'[w].at = "caseSign" /\ job'[w].c = c
    BY <1>22, GotoSets DEF CaseCustomer
  <2>3. UNCHANGED <<cra, upgrade, review, phase2, answer>> /\ customer'.rating = customer.rating
    BY <1>22 DEF CaseCustomer, TypeOK
  <2>4. JobFits(w)'
    BY <2>1, <2>2, <2>3 DEF JobFits, Answering
  <2> QED
    BY <1>5, <2>3, <2>4
<1>23. ASSUME CaseSign(w) PROVE Goal
  <2>1. c \in Id /\ cra[c].status # "none"
    BY <1>2, <1>4, <1>23, NamedPlaces DEF CaseSign, At, Answering
  <2>2. cra'[c].status # "none" /\ cra'[c].tier = cra[c].tier /\ \A d \in Id : d # c => cra'[d] = cra[d]
    BY <1>23, <2>1 DEF CaseSign, TypeOK, CraRow
  <2>3. Later /\ RowSteps /\ InOrder'
    BY <1>23, <2>1, <2>2, RowWritten DEF CaseSign
  <2> QED
    BY <1>23, <2>3, FinishFits DEF CaseSign
<1>24. ASSUME MaterialFreeze(w) PROVE Goal
  <2>1. job'[w].at = "expire"
    BY <1>24, GotoSets DEF MaterialFreeze
  <2>2. JobFits(w)'
    BY <2>1 DEF JobFits, Answering, Named
  <2>3. customer'.rating = customer.rating
    BY <1>24 DEF MaterialFreeze, TypeOK
  <2> QED
    BY <1>5, <1>24, <2>2, <2>3 DEF MaterialFreeze
<1>25. ASSUME MaterialRefreshed(w) PROVE Goal
  <2>1. job'[w].at = "release"
    BY <1>25, GotoSets DEF MaterialRefreshed
  <2>2. JobFits(w)'
    BY <2>1 DEF JobFits, Answering, Named
  <2>3. customer'.rating = customer.rating
    BY <1>25 DEF MaterialRefreshed, TypeOK
  <2> QED
    BY <1>5, <1>25, <2>2, <2>3 DEF MaterialRefreshed
<1>26. ASSUME MaterialExpired(w) PROVE Goal
  BY <1>5, <1>26, FinishFits DEF MaterialExpired
<1>27. ASSUME MaterialRelease(w) PROVE Goal
  <2>1. job'[w].at \in {"idle", "check"}
    BY <1>27 DEF MaterialRelease, Done, Idle, TypeOK
  <2>2. JobFits(w)'
    BY <2>1 DEF JobFits, Answering, Named
  <2>3. customer'.rating = customer.rating
    BY <1>27 DEF MaterialRelease, TypeOK
  <2> QED
    BY <1>5, <1>27, <2>2, <2>3 DEF MaterialRelease
<1> QED
  BY <1>6, <1>7, <1>8, <1>9, <1>10, <1>11, <1>12, <1>13, <1>14, <1>15, <1>16, <1>17,
     <1>18, <1>19, <1>20, <1>21, <1>22, <1>23, <1>24, <1>25, <1>26, <1>27 DEF Work

-----------------------------------------------------------------------------
\* A step moves one call.
LEMMA OthersStay ==
  ASSUME NEW w \in Worker, Call(w) \/ Work(w) \/ Fail(w), NEW v \in Worker, v # w, TypeOK
  PROVE  job'[v] = job[v]
<1>1. ASSUME Call(w) PROVE job'[v] = job[v]
  BY <1>1 DEF Call, Trigger, Level2Complete, DocumentExpires, MaterialGreen, SpontaneousHit,
              AmlAnswer, MlroDecides, Phase2Decides, CaseDecision, Begin, TypeOK
<1>2. ASSUME Done(w) \/ Finish(w) \/ \E at : Goto(w, at) PROVE job'[v] = job[v]
  BY <1>2 DEF Done, Finish, Goto, TypeOK
<1>3. ASSUME Check(w) \/ Create(w) \/ Process(w) \/ AutoSign(w) \/ Signoff(w) \/ MaterialRelease(w)
      PROVE  job'[v] = job[v]
  BY <1>2, <1>3 DEF Check, Create, Process, AutoSign, Signoff, MaterialRelease, TypeOK
<1>4. ASSUME \/ AmlCheck(w) \/ StoreLabels(w) \/ Escalate(w) \/ Score(w) \/ Cascade(w)
             \/ OpenReview(w) \/ MarkReview(w) \/ OpenUpgrade(w) \/ OpenPhase2(w) \/ LinkPhase2(w)
             \/ TierSignoff(w) \/ CaseCustomer(w) \/ CaseSign(w) \/ MaterialFreeze(w)
             \/ MaterialExpired(w) \/ MaterialRefreshed(w) \/ Fail(w)
      PROVE  job'[v] = job[v]
  BY <1>2, <1>4 DEF AmlCheck, StoreLabels, Escalate, Score, Cascade, OpenReview, MarkReview,
    OpenUpgrade, OpenPhase2, LinkPhase2, TierSignoff, CaseCustomer, CaseSign, MaterialFreeze,
    MaterialExpired, MaterialRefreshed, Fail
<1> QED
  BY <1>1, <1>3, <1>4 DEF Work

\* What holds of the rows and of the calls is kept by every step.
LEMMA RiskStep == RiskInduction /\ [Next]_vars => RiskInduction'
<1> SUFFICES ASSUME RiskInduction, [Next]_vars PROVE RiskInduction'
  OBVIOUS
<1>1. TypeOK /\ InOrder /\ (\A w \in Worker : JobFits(w)) /\ (\A c \in Id : RowFits(c))
      /\ (customer.rating = "HIGH" => Heard)
  BY DEF RiskInduction
<1>2. CASE UNCHANGED vars
  <2>1. UNCHANGED <<cra, upgrade, review, phase2, answer, job, customer>>
    BY <1>2 DEF vars
  <2>2. TypeOK'
    BY <1>1, <1>2 DEF TypeOK, vars
  <2>3. InOrder' /\ (customer'.rating = "HIGH" => Heard') /\ \A c \in Id : RowFits(c)'
    BY <1>1, <2>1 DEF InOrder, Heard, RowFits
  <2>4. \A w \in Worker : JobFits(w)'
    BY <1>1, <2>1, SameRows, OthersFit
  <2> QED
    BY <2>2, <2>3, <2>4 DEF RiskInduction
<1>3. ASSUME NEW w \in Worker, Call(w) \/ Work(w) \/ Fail(w) PROVE RiskInduction'
  <2>1. TypeOK'
    BY <1>1, <1>3, CallTyped, WorkTyped, FailTyped
  <2>2. /\ Later /\ RowSteps /\ JobFits(w)' /\ InOrder'
        /\ customer'.rating = "HIGH" => Heard
    <3>1. CASE Call(w)
      <4>1. Later /\ RowSteps /\ JobFits(w)' /\ UNCHANGED <<cra, customer>>
        BY <1>1, <3>1, CallKeeps
      <4> QED
        BY <1>1, <4>1 DEF InOrder
    <3>2. CASE Work(w)
      BY <1>1, <3>2, WorkKeeps
    <3>3. CASE Fail(w)
      <4>1. JobFits(w)' /\ UNCHANGED <<customer, cra, upgrade, review, phase2, answer>>
        BY <1>1, <3>3, FinishFits DEF Fail
      <4> QED
        BY <1>1, <4>1, SameCall
    <3> QED
      BY <1>3, <3>1, <3>2, <3>3
  <2>3. \A c \in Id : RowFits(c)'
    BY <1>1, <2>2, RowsFit
  <2>4. ASSUME NEW v \in Worker, v # w PROVE JobFits(v)'
    <3>1. job'[v] = job[v]
      BY <1>1, <1>3, <2>4, OthersStay
    <3> QED
      BY <1>1, <2>2, <3>1, OthersFit
  <2>5. Heard => Heard'
    BY <2>2, HeardStays DEF Later
  <2> QED
    BY <2>1, <2>2, <2>3, <2>4, <2>5 DEF RiskInduction
<1> QED
  BY <1>2, <1>3 DEF Next

\* It holds when nothing has happened yet.
LEMMA RiskBegins == Init => RiskInduction
<1> SUFFICES ASSUME Init PROVE RiskInduction
  OBVIOUS
<1>1. TypeOK
  <2>1. NoCra \in CraRow
    BY DEF NoCra, CraRow, CraStatus, Tier
  <2>2. customer \in [rating : Tier, freeze : Freeze, status : {"APPROVED", "OFF"}]
    BY DEF Init, Tier, Freeze
  <2>3. upgrade \in [Id -> UpgradeStatus]
    BY DEF Init, UpgradeStatus
  <2>4. <<>> \in Seq(Verdict \union {"PENDING"})
    OBVIOUS
  <2>5. cra \in [Id -> CraRow] /\ job \in [Worker -> Job]
    BY <2>1, IdleTyped DEF Init
  <2>6. /\ review \in [Id -> Seq(Verdict \union {"PENDING"})]
        /\ phase2 \in [Id -> Seq(Verdict \union {"PENDING"})]
    BY <2>4 DEF Init
  <2>7. /\ answer \in [Id -> AmlResult \union {NoResult}]
        /\ holding \in [expired : BOOLEAN, cycle : BOOLEAN]
        /\ faults \in 0..MaxFaults /\ overlaps \in 0..MaxOverlaps
    BY RiskAssumption DEF Init
  <2> QED
    BY <2>2, <2>3, <2>5, <2>6, <2>7 DEF TypeOK
<1>2. InOrder
  <2>1. \A c \in Id : cra[c].status # "none" <=> c <= 0
    BY RiskAssumption DEF Init, NoCra, Id
  <2> QED
    BY <2>1, RiskAssumption DEF InOrder
<1>3. \A w \in Worker : JobFits(w)
  BY DEF Init, Idle, JobFits, Answering, Named
<1>4. \A c \in Id : RowFits(c)
  BY DEF Init, NoCra, RowFits
<1>5. customer.rating # "HIGH"
  BY DEF Init
<1> QED
  BY <1>1, <1>2, <1>3, <1>4, <1>5 DEF RiskInduction

\* However many calls cross, fail or are answered twice: an upgrade exists only for
\* an assessment that the MLRO approved and is completed only if its second phase
\* was, and a customer rated HIGH has been before the MLRO.
THEOREM RiskReviewed == Spec => []RiskInv
<1>1. RiskInduction => RiskInv
  BY DEF RiskInduction, RowFits, Heard, RiskInv
<1> QED
  BY <1>1, RiskBegins, RiskStep, PTL DEF Spec

-----------------------------------------------------------------------------
(* What holds as long as calls neither fail nor cross (RiskInvariant).  The
   call of a step, w, is then the only one there is.                         *)

Sole(w) == \A v \in Worker : v # w => job[v].at = "idle" /\ job'[v].at = "idle"

\* What is known of the call before its step, and what is to hold after it.
Ready(w) ==
  /\ TypeOK /\ InOrder /\ JobFits(w) /\ (\A c \in Id : RowFits(c)) /\ Sole(w)
  /\ AloneFits(w) /\ (\A c \in Id : ReviewFits(c)) /\ FreezeFits
ReviewsFit == \A c \in Id : ReviewFits(c)

\* At these places a call relies on nothing that others could have changed.
LEMMA RestFits ==
  ASSUME NEW w \in Worker,
         job'[w].at \in {"idle", "check", "create", "amlCheck", "upgrade", "openPhase2",
                         "link", "tierSignoff"}
  PROVE  AloneFits(w)'
BY DEF AloneFits

\* A call that is over, or begins again.
LEMMA FinishRests ==
  ASSUME TypeOK, NEW w \in Worker, Done(w) \/ Finish(w)
  PROVE  AloneFits(w)'
<1>1. ASSUME Done(w) PROVE job'[w] = Idle
  BY <1>1 DEF Done, TypeOK
<1>2. ASSUME NEW result, job' = [job EXCEPT ![w] = [Idle EXCEPT !.at = "check", !.result = result]]
      PROVE  job'[w].at = "check"
  <2>1. job'[w] = [Idle EXCEPT !.at = "check", !.result = result]
    BY <1>2 DEF TypeOK
  <2> QED
    BY <2>1 DEF Idle
<1>3. job'[w] = Idle \/ job'[w].at = "check"
  BY <1>1, <1>2 DEF Finish
<1>4. Idle.at = "idle"
  BY DEF Idle
<1>5. job'[w].at \in {"idle", "check"}
  BY <1>3, <1>4
<1> QED
  BY <1>5, RestFits

\* Where the only call is not writing a review, an assessment that waits for
\* Sumsub has none.
LEMMA NoMark ==
  ASSUME NEW w \in Worker, Sole(w), NEW c \in Id, ReviewFits(c),
         ~(job[w].at = "mark" /\ job[w].c = c)
  PROVE  cra[c].status = "PENDING_SUMSUB_RESULT" => review[c] = <<>>
<1>1. \A v \in Worker : v # w => job[v].at # "mark"
  BY DEF Sole, Idle
<1> QED
  BY <1>1 DEF ReviewFits, AtWorkOn

\* The reviews of the assessments a step leaves alone fit as before.
LEMMA OtherReviews ==
  ASSUME NEW w \in Worker, Ready(w), NEW c, ReviewsFit,
         \A d \in Id \ {c} : cra'[d] = cra[d] /\ review'[d] = review[d],
         job[w].at = "mark" => job[w].c = c,
         c \in Id => ReviewFits(c)'
  PROVE  ReviewsFit'
<1> SUFFICES ASSUME NEW d \in Id, d # c PROVE ReviewFits(d)'
  BY DEF ReviewsFit
<1>1. ReviewFits(d) /\ cra'[d] = cra[d] /\ review'[d] = review[d]
  BY DEF ReviewsFit
<1>2. cra[d].status = "PENDING_SUMSUB_RESULT" => review[d] = <<>>
  BY <1>1, NoMark DEF Ready
<1> QED
  BY <1>1, <1>2 DEF ReviewFits

\* A step that leaves all of them alone.
LEMMA SameReviews ==
  ASSUME NEW w \in Worker, Ready(w), UNCHANGED <<cra, review>>, job[w].at # "mark"
  PROVE  ReviewsFit'
<1>1. ReviewsFit
  BY DEF Ready, ReviewsFit
<1>2. 0 \notin Id
  BY DEF Id
<1> QED
  BY <1>1, <1>2, OtherReviews

\* A step that lifts no freeze and leaves its owner.
LEMMA SameFreeze ==
  ASSUME NEW w \in Worker, Ready(w), job[w].at # "release",
         customer'.freeze = customer.freeze, customer'.status = customer.status,
         \A c \in Id : cra[c].status = "ESCALATED_TO_SUMSUB" =>
                         cra'[c].status = "ESCALATED_TO_SUMSUB",
         \A c \in Id : upgrade[c] \in Open => upgrade'[c] \in Open,
         holding.cycle => holding'.cycle
  PROVE  FreezeFits'
<1>1. \A v \in Worker : job[v].at # "release"
  BY DEF Ready, Sole, Idle
<1>2. FreezeFits
  BY DEF Ready
<1>3. customer.freeze = "material" => holding.cycle
  BY <1>1, <1>2 DEF FreezeFits
<1> QED
  BY <1>2, <1>3 DEF FreezeFits

\* A call that begins, and finds nobody at work.
LEMMA CallAlone ==
  ASSUME NEW w \in Worker, Ready(w), Call(w), job[w] = Idle
  PROVE  AloneFits(w)' /\ ReviewsFit' /\ FreezeFits'
<1> DEFINE Goal == AloneFits(w)' /\ ReviewsFit' /\ FreezeFits'
<1>t. TypeOK /\ (\A c \in Id : RowFits(c) /\ ReviewFits(c))
  BY DEF Ready
<1>i. job[w].at \notin {"mark", "release"}
  BY DEF Idle
<1>n. \A c \in Id : cra[c].status = "PENDING_SUMSUB_RESULT" => review[c] = <<>>
  BY <1>i, NoMark DEF Ready
<1>s. ASSUME UNCHANGED <<customer, cra, upgrade, review, holding>>
      PROVE  ReviewsFit' /\ FreezeFits'
  BY <1>i, <1>s, SameReviews, SameFreeze
<1>1. ASSUME Trigger(w) \/ Level2Complete(w) \/ (\E result \in Reports : SpontaneousHit(w, result))
      PROVE  Goal
  <2>1. job'[w].at \in {"check", "openPhase2"}
    <3>1. ASSUME Trigger(w) PROVE job'[w].at = "check"
      BY <1>t, <3>1, BeginSets DEF Trigger, Idle
    <3>2. ASSUME Level2Complete(w) PROVE job'[w].at = "openPhase2"
      <4>1. PICK c \in Id : Begin(w, [Idle EXCEPT !.at = "openPhase2", !.c = c])
        BY <3>2 DEF Level2Complete, Latest
      <4> QED
        BY <1>t, <4>1, BeginSets DEF Idle
    <3>3. ASSUME NEW result \in Reports, SpontaneousHit(w, result) PROVE job'[w].at = "check"
      <4>1. Begin(w, [Idle EXCEPT !.at = "check", !.result = result])
        BY <3>3 DEF SpontaneousHit
      <4> QED
        BY <1>t, <4>1, BeginSets DEF Idle
    <3> QED
      BY <1>1, <3>1, <3>2, <3>3
  <2>2. UNCHANGED <<customer, cra, upgrade, review, holding>>
    BY <1>1 DEF Trigger, Level2Complete, SpontaneousHit
  <2> QED
    BY <1>s, <2>1, <2>2, RestFits
<1>2. ASSUME DocumentExpires(w) PROVE Goal
  <2>1. job'[w].at = "freeze"
    BY <1>t, <1>2, BeginSets DEF DocumentExpires, Idle
  <2>2. UNCHANGED <<customer, cra, upgrade, review>> /\ holding'.cycle
    BY <1>t, <1>2 DEF DocumentExpires, TypeOK
  <2>3. AloneFits(w)'
    BY <2>1, <2>2 DEF AloneFits
  <2> QED
    BY <1>i, <2>2, <2>3, SameReviews, SameFreeze
<1>3. ASSUME MaterialGreen(w) PROVE Goal
  <2>1. job'[w].at = "refresh" /\ job'[w].saw = customer.freeze
    BY <1>t, <1>3, BeginSets DEF MaterialGreen, Idle
  <2>2. UNCHANGED <<customer, cra, upgrade, review, holding>>
    BY <1>3 DEF MaterialGreen
  <2>3. AloneFits(w)'
    BY <2>1, <2>2 DEF AloneFits
  <2> QED
    BY <1>s, <2>2, <2>3
<1>4. ASSUME NEW result \in Reports, NEW c \in Id, AmlAnswer(w, c, result) PROVE Goal
  <2>1. Begin(w, [Idle EXCEPT !.at = "label", !.c = c, !.result = result, !.again = TRUE])
    BY <1>4 DEF AmlAnswer
  <2>2. job'[w].at = "label" /\ job'[w].c = c
    BY <1>t, <2>1, BeginSets DEF Idle
  <2>3. /\ UNCHANGED <<customer, cra, upgrade, review, holding>>
        /\ cra[c].status = "PENDING_SUMSUB_RESULT"
    BY <1>4 DEF AmlAnswer
  <2>4. AloneFits(w)'
    BY <1>n, <2>2, <2>3 DEF AloneFits
  <2> QED
    BY <1>s, <2>3, <2>4
<1>5. ASSUME NEW c \in Id, NEW verdict \in Verdict, MlroDecides(w, c, verdict) PROVE Goal
  <2>1. PICK i \in DOMAIN review[c] :
          /\ review[c][i] = "PENDING" /\ review' = [review EXCEPT ![c][i] = verdict]
          /\ Begin(w, [Idle EXCEPT !.at = "signoff", !.c = c, !.verdict = verdict])
    BY <1>5 DEF MlroDecides
  <2>2. job'[w].at = "signoff" /\ job'[w].c = c
    BY <1>t, <2>1, BeginSets DEF Idle
  <2>3. UNCHANGED <<customer, cra, upgrade, holding>>
    BY <1>5 DEF MlroDecides
  <2>4. cra[c].status = "PENDING_MLRO_REVIEW"
    <3>1. review[c] # <<>>
      BY <2>1
    <3>2. cra[c].status \notin {"none", "PENDING_SUMSUB_RESULT", "ESCALATED_TO_SUMSUB", "SIGNED"}
      BY <1>t, <1>n, <2>1, <3>1 DEF RowFits, ReviewFits
    <3> QED
      BY <1>t, <3>2 DEF TypeOK, CraRow, CraStatus, ActiveStatus
  <2>5. AloneFits(w)'
    BY <2>2, <2>3, <2>4 DEF AloneFits
  <2>6. ReviewFits(c)'
    <3>1. review[c] \in Seq(Verdict \union {"PENDING"})
      BY <1>t DEF TypeOK
    <3>2. review'[c] = [review[c] EXCEPT ![i] = verdict]
      BY <1>t, <2>1 DEF TypeOK
    <3>3. Len(review'[c]) = Len(review[c])
      BY <3>1, <3>2
    <3> QED
      BY <1>t, <2>3, <2>4, <3>3 DEF ReviewFits
  <2>7. \A d \in Id \ {c} : cra'[d] = cra[d] /\ review'[d] = review[d]
    BY <1>t, <2>1, <2>3 DEF TypeOK
  <2>8. ReviewsFit
    BY <1>t DEF ReviewsFit
  <2>9. ReviewsFit'
    BY <1>i, <2>6, <2>7, <2>8, OtherReviews
  <2> QED
    BY <1>i, <2>3, <2>5, <2>9, SameFreeze
<1>6. ASSUME NEW c \in Id, NEW verdict \in Verdict, Phase2Decides(w, c, verdict) PROVE Goal
  <2>1. Begin(w, [Idle EXCEPT !.at = "tierSignoff", !.c = c, !.verdict = verdict])
        /\ UNCHANGED <<customer, cra, upgrade, review, holding>>
    BY <1>6 DEF Phase2Decides
  <2>2. job'[w].at = "tierSignoff"
    BY <1>t, <2>1, BeginSets DEF Idle
  <2> QED
    BY <1>s, <2>1, <2>2, RestFits
<1>7. ASSUME NEW c \in Id, NEW verdict \in Verdict, CaseDecision(w, c, verdict) PROVE Goal
  <2>1. /\ Begin(w, [Idle EXCEPT !.at = "caseCustomer", !.c = c, !.verdict = verdict])
        /\ UNCHANGED <<customer, cra, upgrade, review, holding>>
        /\ cra[c].status = "ESCALATED_TO_SUMSUB"
    BY <1>7 DEF CaseDecision
  <2>2. job'[w].at = "caseCustomer" /\ job'[w].c = c
    BY <1>t, <2>1, BeginSets DEF Idle
  <2>3. AloneFits(w)'
    BY <2>1, <2>2 DEF AloneFits
  <2> QED
    BY <1>s, <2>1, <2>3
<1> QED
  BY <1>1, <1>2, <1>3, <1>4, <1>5, <1>6, <1>7 DEF Call

\* The row of one assessment written, in what its review depends on.
LEMMA ReviewWritten ==
  ASSUME NEW w \in Worker, Ready(w), NEW c \in Id, job[w].c = c, UNCHANGED review,
         \A d \in Id \ {c} : cra'[d] = cra[d],
         /\ cra'[c].status = "PENDING_SUMSUB_RESULT" =>
              review[c] = <<>> \/ (job'[w].at = "mark" /\ job'[w].c = c)
         /\ cra'[c].status = "ESCALATED_TO_SUMSUB" => review[c] = <<>>
         /\ cra'[c].status = "PENDING_MLRO_REVIEW" => cra'[c].tier = "HIGH"
         /\ cra'[c].status = "SIGNED" => \A i \in DOMAIN review[c] : review[c][i] # "PENDING"
  PROVE  ReviewsFit'
<1>1. ReviewsFit
  BY DEF Ready, ReviewsFit
<1>2. ReviewFits(c)'
  BY <1>1 DEF ReviewsFit, ReviewFits, AtWorkOn
<1> QED
  BY <1>1, <1>2, OtherReviews

\* The call at work leaves what its next step, and the next call, rely on.
LEMMA WorkAlone ==
  ASSUME NEW w \in Worker, Ready(w), Work(w)
  PROVE  AloneFits(w)' /\ ReviewsFit' /\ FreezeFits'
<1> DEFINE Goal == AloneFits(w)' /\ ReviewsFit' /\ FreezeFits'
           c == job[w].c
<1>t. /\ TypeOK /\ JobFits(w) /\ AloneFits(w) /\ FreezeFits
      /\ \A d \in Id : RowFits(d) /\ ReviewFits(d)
  BY DEF Ready
<1>j. job[w] \in Job /\ job \in [Worker -> Job] /\ cra \in [Id -> CraRow]
  BY <1>t DEF TypeOK
<1>c. job[w].at \in Named => c \in Id /\ cra[c].status # "none"
  BY <1>t DEF JobFits
<1>r. ReviewsFit
  BY <1>t DEF ReviewsFit
<1>s. ASSUME UNCHANGED <<customer, cra, upgrade, review, holding>>,
             job[w].at \notin {"mark", "release"}
      PROVE  ReviewsFit' /\ FreezeFits'
  BY <1>s, SameReviews, SameFreeze
<1>1. ASSUME Check(w) PROVE Goal
  <2>1. At(w, "check") /\ UNCHANGED <<customer, cra, upgrade, review, holding>>
    BY <1>1 DEF Check
  <2>2. ASSUME Active = {} PROVE job'[w].at = "create"
    <3>1. job'[w] = [job[w] EXCEPT !.at = "create", !.tier = customer.rating]
      BY <1>1, <1>j, <2>2 DEF Check
    <3> QED
      BY <1>j, <3>1 DEF Job
  <2>3. ASSUME Active # {} PROVE Done(w)
    BY <1>1, <2>3 DEF Check
  <2> QED
    BY <1>s, <1>t, <2>1, <2>2, <2>3, RestFits, FinishRests DEF At
<1>2. ASSUME Create(w) PROVE Goal
  <2>0. PICK new \in Id : new = Cardinality(Created) + 1
    BY <1>2 DEF Create
  <2>k. PICK at \in {"process", "amlCheck"} :
          at = IF job[w].result # NoResult THEN "process" ELSE "amlCheck"
    OBVIOUS
  <2>1. new \in Id /\ UNCHANGED <<customer, upgrade, review, holding>> /\ job[w].at = "create"
    BY <1>2, <2>0 DEF Create, At
  <2>2. cra[new].status = "none" /\ review[new] = <<>>
    <3>1. cra[new].status = "none"
      BY <2>0, <2>1, NextIsNew DEF Ready
    <3> QED
      BY <1>t, <2>1, <3>1 DEF RowFits
  <2>3. /\ cra'[new].status = "PENDING_SUMSUB_RESULT"
        /\ \A d \in Id \ {new} : cra'[d] = cra[d]
    BY <1>2, <1>j, <2>0, <2>1 DEF Create
  <2>4. job'[w].at = at /\ job'[w].c = new
    <3>1. job'[w] = [job[w] EXCEPT !.c = new, !.at = at]
      BY <1>2, <1>j, <2>0, <2>k DEF Create
    <3> QED
      BY <1>j, <3>1 DEF Job
  <2>5. AloneFits(w)'
    <3>1. CASE at = "amlCheck"
      BY <2>4, <3>1, RestFits
    <3>2. CASE at = "process"
      BY <2>1, <2>2, <2>3, <2>4, <3>2 DEF AloneFits
    <3> QED
      BY <2>k, <3>1, <3>2
  <2>6. ReviewFits(new)'
    BY <1>t, <2>1, <2>2, <2>3 DEF ReviewFits
  <2>7. ReviewsFit'
    BY <1>r, <2>1, <2>3, <2>6, OtherReviews
  <2>8. \A d \in Id : cra[d].status = "ESCALATED_TO_SUMSUB" =>
                        cra'[d].status = "ESCALATED_TO_SUMSUB"
    BY <2>2, <2>3
  <2>9. FreezeFits'
    BY <2>1, <2>8, SameFreeze
  <2> QED
    BY <2>k, <2>4, <2>5, <2>7, <2>9
<1>3. ASSUME AmlCheck(w) PROVE Goal
  <2>1. /\ Done(w) /\ UNCHANGED <<customer, upgrade, review, holding>>
        /\ job[w].at = "amlCheck" /\ c \in Id
    BY <1>3, <1>c, NamedPlaces DEF AmlCheck, At
  <2>2. cra' = [cra EXCEPT ![c].inspected = TRUE] \/ UNCHANGED cra
    BY <1>3 DEF AmlCheck
  <2>3. /\ cra'[c].status = cra[c].status /\ cra'[c].tier = cra[c].tier
        /\ \A d \in Id \ {c} : cra'[d] = cra[d]
    BY <1>j, <2>1, <2>2 DEF CraRow
  <2>4. cra[c].status = "PENDING_SUMSUB_RESULT" => review[c] = <<>>
    BY <1>t, <2>1, NoMark DEF Ready
  <2>5. ReviewsFit'
    BY <1>t, <2>1, <2>3, <2>4, ReviewWritten DEF ReviewFits
  <2>6. FreezeFits'
    BY <2>1, <2>3, SameFreeze
  <2> QED
    BY <1>t, <2>1, <2>5, <2>6, FinishRests
<1>4. ASSUME StoreLabels(w) PROVE Goal
  <2>1. /\ Goto(w, "process") /\ UNCHANGED <<customer, upgrade, review, holding>>
        /\ job[w].at = "label" /\ c \in Id
        /\ cra' = [cra EXCEPT ![c].labels = job[w].result.labels]
    BY <1>4, <1>c, NamedPlaces DEF StoreLabels, At, Answering
  <2>2. /\ cra'[c].status = cra[c].status /\ cra'[c].tier = cra[c].tier
        /\ \A d \in Id \ {c} : cra'[d] = cra[d]
    BY <1>j, <2>1 DEF CraRow
  <2>3. cra[c].status = "PENDING_SUMSUB_RESULT" /\ review[c] = <<>>
    BY <1>t, <2>1 DEF AloneFits
  <2>4. ReviewsFit'
    BY <1>t, <2>1, <2>2, <2>3, ReviewWritten DEF ReviewFits
  <2>5. FreezeFits'
    BY <2>1, <2>2, SameFreeze
  <2>6. job'[w].at = "process" /\ job'[w].c = c
    BY <1>t, <2>1, GotoSets
  <2>7. AloneFits(w)'
    BY <2>1, <2>2, <2>3, <2>6 DEF AloneFits
  <2> QED
    BY <2>4, <2>5, <2>6, <2>7
<1>5. ASSUME Process(w) PROVE Goal
  <2> DEFINE result == job[w].result
             tier == ResultingTier(result, holding.expired, customer.rating)
             review1 == NeedsReview(result, tier, customer.rating, SignedLabels)
  <2>1. UNCHANGED <<customer, cra, upgrade, review, holding>> /\ job[w].at = "process"
    BY <1>5 DEF Process, At
  <2>2. cra[c].status = "PENDING_SUMSUB_RESULT" /\ review[c] = <<>>
    BY <1>t, <2>1 DEF AloneFits
  <2>3. (tier = "LOW" => customer.rating # "HIGH") /\ (review1 => tier = "HIGH")
    BY DEF ResultingTier, NeedsReview
  <2>4. CASE Goto(w, "escalate")
    <3>1. job'[w].at = "escalate" /\ job'[w].c = c
      BY <1>t, <2>4, GotoSets
    <3>2. AloneFits(w)'
      BY <2>1, <2>2, <3>1 DEF AloneFits
    <3> QED
      BY <1>s, <2>1, <3>1, <3>2
  <2>5. CASE job' = [job EXCEPT ![w].at = "score", ![w].tier = tier, ![w].review = review1]
    <3>1. job'[w] = [job[w] EXCEPT !.at = "score", !.tier = tier, !.review = review1]
      BY <1>j, <2>5
    <3>2. /\ job'[w].at = "score" /\ job'[w].c = c /\ job'[w].tier = tier
          /\ job'[w].review = review1
      BY <1>j, <3>1 DEF Job
    <3>3. AloneFits(w)'
      BY <2>1, <2>2, <2>3, <3>2 DEF AloneFits
    <3> QED
      BY <1>s, <2>1, <3>2, <3>3
  <2> QED
    BY <1>5, <2>4, <2>5 DEF Process
<1>6. ASSUME Escalate(w) PROVE Goal
  <2>1. /\ Finish(w) /\ UNCHANGED <<upgrade, review, holding>> /\ job[w].at = "escalate" /\ c \in Id
        /\ customer' = [customer EXCEPT !.freeze = "sanctions"]
        /\ cra' = [cra EXCEPT ![c].status = "ESCALATED_TO_SUMSUB", ![c].tier = "HIGH"]
    BY <1>6, <1>c, NamedPlaces DEF Escalate, At, Answering
  <2>2. cra'[c].status = "ESCALATED_TO_SUMSUB" /\ \A d \in Id \ {c} : cra'[d] = cra[d]
    BY <1>j, <2>1 DEF CraRow
  <2>3. review[c] = <<>>
    BY <1>t, <2>1 DEF AloneFits
  <2>4. ReviewsFit'
    BY <2>1, <2>2, <2>3, ReviewWritten
  <2>5. customer'.freeze = "sanctions"
    BY <1>t, <2>1 DEF TypeOK
  <2>6. FreezeFits'
    BY <2>1, <2>2, <2>5 DEF FreezeFits
  <2> QED
    BY <1>t, <2>1, <2>4, <2>6, FinishRests
<1>7. ASSUME Score(w) PROVE Goal
  <2>1. /\ UNCHANGED <<customer, upgrade, review, holding>> /\ job[w].at = "score" /\ c \in Id
        /\ cra' = [cra EXCEPT ![c].tier = job[w].tier]
        /\ Goto(w, IF job[w].review THEN "openReview" ELSE "sign")
    BY <1>7, <1>c, NamedPlaces DEF Score, At, Answering
  <2>2. /\ cra'[c].status = cra[c].status /\ cra'[c].tier = job[w].tier
        /\ \A d \in Id \ {c} : cra'[d] = cra[d]
    BY <1>j, <2>1 DEF CraRow
  <2>3. /\ cra[c].status = "PENDING_SUMSUB_RESULT" /\ review[c] = <<>>
        /\ job[w].review => job[w].tier = "HIGH"
        /\ job[w].tier = "LOW" => customer.rating # "HIGH"
    BY <1>t, <2>1 DEF AloneFits
  <2>4. ReviewsFit'
    BY <2>1, <2>2, <2>3, ReviewWritten
  <2>5. FreezeFits'
    <3>1. \A d \in Id : cra'[d].status = cra[d].status
      BY <2>2
    <3> QED
      BY <2>1, <3>1, SameFreeze
  <2>6. job'[w].at = (IF job[w].review THEN "openReview" ELSE "sign") /\ job'[w].c = c
    BY <1>t, <2>1, GotoSets
  <2>7. AloneFits(w)'
    BY <2>1, <2>2, <2>3, <2>6 DEF AloneFits
  <2> QED
    BY <2>4, <2>5, <2>6, <2>7
<1>8. ASSUME AutoSign(w) PROVE Goal
  <2>1. /\ UNCHANGED <<customer, upgrade, review, holding>> /\ job[w].at = "sign" /\ c \in Id
        /\ cra' = [cra EXCEPT ![c].status = "SIGNED"]
    BY <1>8, <1>c, NamedPlaces DEF AutoSign, At, Answering
  <2>2. cra'[c].status = "SIGNED" /\ \A d \in Id \ {c} : cra'[d] = cra[d]
    BY <1>j, <2>1 DEF CraRow
  <2>3. /\ cra[c].status = "PENDING_SUMSUB_RESULT" /\ review[c] = <<>>
        /\ cra[c].tier = "LOW" => customer.rating # "HIGH"
    BY <1>t, <2>1 DEF AloneFits
  <2>4. ReviewsFit'
    BY <2>1, <2>2, <2>3, ReviewWritten
  <2>5. FreezeFits'
    <3>1. \A d \in Id : cra[d].status = "ESCALATED_TO_SUMSUB" =>
                          cra'[d].status = "ESCALATED_TO_SUMSUB"
      BY <2>2, <2>3
    <3> QED
      BY <2>1, <3>1, SameFreeze
  <2>6. job'[w].at = "cascade" /\ job'[w].tier \in {cra[c].tier, "none"}
    BY <1>8, <1>j DEF AutoSign, CascadeOf, Job
  <2>7. AloneFits(w)'
    BY <2>1, <2>3, <2>6 DEF AloneFits
  <2> QED
    BY <2>4, <2>5, <2>6, <2>7
<1>9. ASSUME Cascade(w) PROVE Goal
  <2>1. /\ Finish(w) /\ UNCHANGED <<cra, upgrade, review, holding>> /\ job[w].at = "cascade"
        /\ customer'.freeze = customer.freeze /\ customer'.status = customer.status
    BY <1>9, <1>t DEF Cascade, At, TypeOK
  <2> QED
    BY <1>t, <2>1, SameReviews, SameFreeze, FinishRests
<1>10. ASSUME OpenReview(w) PROVE Goal
  <2>1. /\ Goto(w, "mark") /\ UNCHANGED <<customer, cra, upgrade, holding>>
        /\ job[w].at = "openReview" /\ c \in Id
        /\ review' = [review EXCEPT ![c] = Append(@, "PENDING")]
    BY <1>10, <1>c, NamedPlaces DEF OpenReview, At
  <2>2. /\ cra[c].status = "PENDING_SUMSUB_RESULT" /\ review[c] = <<>>
        /\ cra[c].tier = "HIGH"
    BY <1>t, <2>1 DEF AloneFits
  <2>3. job'[w].at = "mark" /\ job'[w].c = c
    BY <1>t, <2>1, GotoSets
  <2>4. \A d \in Id \ {c} : cra'[d] = cra[d] /\ review'[d] = review[d]
    BY <1>t, <2>1 DEF TypeOK
  <2>5. review'[c] = Append(<<>>, "PENDING")
    BY <1>t, <2>1, <2>2 DEF TypeOK
  <2>6. Len(review'[c]) <= 1
    BY <2>5
  <2>7. ReviewsFit'
    <3>1. PICK d \in Id : d = c
      BY <2>1
    <3>2. ReviewFits(d)'
      BY <2>1, <2>2, <2>3, <2>6, <3>1 DEF ReviewFits, AtWorkOn
    <3> QED
      BY <1>r, <2>1, <2>4, <3>1, <3>2, OtherReviews
  <2>8. FreezeFits'
    BY <2>1, SameFreeze
  <2>9. AloneFits(w)'
    BY <2>1, <2>2, <2>3 DEF AloneFits
  <2> QED
    BY <2>7, <2>8, <2>9
<1>11. ASSUME MarkReview(w) PROVE Goal
  <2>1. /\ Finish(w) /\ UNCHANGED <<customer, upgrade, review, holding>>
        /\ job[w].at = "mark" /\ c \in Id
        /\ cra' = [cra EXCEPT ![c].status = "PENDING_MLRO_REVIEW"]
    BY <1>11, <1>c, NamedPlaces DEF MarkReview, At
  <2>2. /\ cra'[c].status = "PENDING_MLRO_REVIEW" /\ cra'[c].tier = cra[c].tier
        /\ \A d \in Id \ {c} : cra'[d] = cra[d]
    BY <1>j, <2>1 DEF CraRow
  <2>3. cra[c].status = "PENDING_SUMSUB_RESULT" /\ cra[c].tier = "HIGH"
    BY <1>t, <2>1 DEF AloneFits
  <2>4. ReviewsFit'
    BY <2>1, <2>2, <2>3, ReviewWritten
  <2>5. FreezeFits'
    <3>1. \A d \in Id : cra[d].status = "ESCALATED_TO_SUMSUB" =>
                          cra'[d].status = "ESCALATED_TO_SUMSUB"
      BY <2>2, <2>3
    <3> QED
      BY <2>1, <3>1, SameFreeze
  <2> QED
    BY <1>t, <2>1, <2>4, <2>5, FinishRests
<1>12. ASSUME Signoff(w) PROVE Goal
  <2> DEFINE approved == job[w].verdict = "APPROVED"
             row == [cra[c] EXCEPT !.status = "SIGNED",
                       !.tier = IF ~approved /\ LowToHigh(cra[c]) THEN cra[c].previous ELSE @]
             next == IF approved /\ LowToHigh(cra[c])
                     THEN [at |-> "upgrade", tier |-> "none"] ELSE CascadeOf(row)
  <2>1. /\ UNCHANGED <<customer, upgrade, review, holding>> /\ job[w].at = "signoff" /\ c \in Id
        /\ cra' = [cra EXCEPT ![c] = row]
        /\ job' = [job EXCEPT ![w].at = next.at, ![w].tier = next.tier]
    BY <1>12, <1>c, NamedPlaces DEF Signoff, At
  <2>2. cra[c].status = "PENDING_MLRO_REVIEW" /\ cra[c].tier = "HIGH"
    BY <1>t, <2>1 DEF AloneFits, ReviewFits
  <2>3. /\ row.status = "SIGNED" /\ row.previous = cra[c].previous
        /\ row.tier \in {"HIGH", "LOW"}
        /\ row.tier = "LOW" => ~approved /\ cra[c].previous = "LOW"
    BY <1>j, <2>1, <2>2 DEF CraRow, LowToHigh
  <2>4. /\ cra'[c].status = "SIGNED" /\ cra'[c].previous = cra[c].previous
        /\ \A d \in Id \ {c} : cra'[d] = cra[d]
    BY <1>j, <2>1, <2>3
  <2>5. \A i \in DOMAIN review[c] : review[c][i] # "PENDING"
    <3>1. job[w].verdict \in Verdict /\ DecidedAs(review[c], job[w].verdict)
      BY <1>t, <2>1 DEF JobFits
    <3>2. review[c] \in Seq(Verdict \union {"PENDING"}) /\ Len(review[c]) <= 1
      BY <1>t, <2>1 DEF TypeOK, ReviewFits
    <3>3. \A i \in DOMAIN review[c] : i = 1
      BY <3>2
    <3> QED
      BY <3>1, <3>3 DEF DecidedAs, Verdict
  <2>6. ReviewsFit'
    BY <2>1, <2>4, <2>5, ReviewWritten
  <2>7. FreezeFits'
    <3>1. \A d \in Id : cra[d].status = "ESCALATED_TO_SUMSUB" =>
                          cra'[d].status = "ESCALATED_TO_SUMSUB"
      BY <2>2, <2>4
    <3> QED
      BY <2>1, <3>1, SameFreeze
  <2>8. next.at \in {"upgrade", "cascade"} /\ next.tier \in {row.tier, "none"}
    BY DEF CascadeOf
  <2>9. /\ job'[w].at = next.at /\ job'[w].tier = next.tier /\ job'[w].c = c
        /\ job'[w].verdict = job[w].verdict
    <3>1. job'[w] = [job[w] EXCEPT !.at = next.at, !.tier = next.tier]
      BY <1>j, <2>1
    <3> QED
      BY <1>j, <3>1 DEF Job
  <2>10. job'[w].tier = "LOW" => job'[w].verdict = "REJECTED" /\ cra'[c].previous = "LOW"
    <3>1. job[w].verdict \in Verdict
      BY <1>t, <2>1 DEF JobFits
    <3> QED
      BY <2>3, <2>4, <2>8, <2>9, <3>1 DEF Verdict
  <2>11. AloneFits(w)'
    <3>1. CASE job'[w].at = "upgrade"
      BY <3>1, RestFits
    <3>2. CASE job'[w].at = "cascade"
      BY <2>9, <2>10, <3>2 DEF AloneFits
    <3> QED
      BY <2>8, <2>9, <3>1, <3>2
  <2> QED
    BY <2>6, <2>7, <2>8, <2>9, <2>11
<1>13. ASSUME OpenUpgrade(w) PROVE Goal
  <2>1. /\ Done(w) /\ UNCHANGED <<cra, review, holding>> /\ job[w].at = "upgrade" /\ c \in Id
    BY <1>13, <1>c, NamedPlaces DEF OpenUpgrade, At
  <2>2. CASE UNCHANGED <<upgrade, customer>>
    BY <1>s, <1>t, <2>1, <2>2, FinishRests
  <2>3. CASE /\ upgrade' = [upgrade EXCEPT ![c] = "PENDING_LEVEL2"]
             /\ customer' = [customer EXCEPT !.freeze = "tier"]
    <3>1. upgrade'[c] \in Open /\ customer'.freeze = "tier"
      BY <1>t, <2>1, <2>3 DEF TypeOK, Open
    <3>2. FreezeFits'
      BY <2>1, <3>1 DEF FreezeFits
    <3> QED
      BY <1>t, <2>1, <3>2, SameReviews, FinishRests
  <2> QED
    BY <1>13, <2>2, <2>3 DEF OpenUpgrade
<1>14. ASSUME OpenPhase2(w) PROVE Goal
  <2>1. /\ Goto(w, "link") /\ UNCHANGED <<customer, cra, upgrade, review, holding>>
        /\ job[w].at = "openPhase2"
    BY <1>14 DEF OpenPhase2, At
  <2>2. job'[w].at = "link"
    BY <1>t, <2>1, GotoSets
  <2> QED
    BY <1>s, <2>1, <2>2, RestFits
<1>15. ASSUME LinkPhase2(w) PROVE Goal
  <2>1. /\ Done(w) /\ UNCHANGED <<customer, cra, review, holding>> /\ job[w].at = "link"
        /\ upgrade' = [upgrade EXCEPT ![c] = "PENDING_PHASE2_APPROVAL"]
    BY <1>15 DEF LinkPhase2, At
  <2>2. \A d \in Id : upgrade[d] \in Open => upgrade'[d] \in Open
    BY <1>t, <2>1 DEF TypeOK, Open
  <2> QED
    BY <1>t, <2>1, <2>2, SameReviews, SameFreeze, FinishRests
<1>16. ASSUME TierSignoff(w) PROVE Goal
  <2>1. /\ Done(w) /\ UNCHANGED <<cra, review, holding>> /\ job[w].at = "tierSignoff"
        /\ customer'.freeze = "none"
    BY <1>16, <1>t DEF TierSignoff, At, TypeOK
  <2>2. FreezeFits'
    BY <2>1 DEF FreezeFits
  <2> QED
    BY <1>t, <2>1, <2>2, SameReviews, FinishRests
<1>17. ASSUME CaseCustomer(w) PROVE Goal
  <2>1. /\ Goto(w, "caseSign") /\ UNCHANGED <<cra, upgrade, review, holding>>
        /\ job[w].at = "caseCustomer" /\ c \in Id
    BY <1>17, <1>c, NamedPlaces DEF CaseCustomer, At
  <2>2. \/ customer'.freeze = "none" /\ customer'.status = customer.status
        \/ /\ customer'.status = "OFF"
           /\ customer'.freeze \in {customer.freeze, "unnamed"}
    BY <1>17, <1>t DEF CaseCustomer, TypeOK
  <2>3. cra[c].status = "ESCALATED_TO_SUMSUB"
    BY <1>t, <2>1 DEF AloneFits
  <2>4. FreezeFits'
    <3>1. customer.freeze = "material" => holding.cycle
      BY <1>t, <2>1 DEF FreezeFits, Ready, Sole, Idle
    <3> QED
      BY <1>t, <2>1, <2>2, <3>1 DEF FreezeFits
  <2>5. job'[w].at = "caseSign" /\ job'[w].c = c
    BY <1>t, <2>1, GotoSets
  <2>6. AloneFits(w)'
    BY <2>1, <2>2, <2>3, <2>5 DEF AloneFits
  <2> QED
    BY <2>1, <2>4, <2>5, <2>6, SameReviews
<1>18. ASSUME CaseSign(w) PROVE Goal
  <2>1. /\ Done(w) /\ UNCHANGED <<customer, upgrade, review, holding>>
        /\ job[w].at = "caseSign" /\ c \in Id
        /\ cra' = [cra EXCEPT ![c].status = "SIGNED"]
    BY <1>18, <1>c, NamedPlaces DEF CaseSign, At
  <2>2. cra'[c].status = "SIGNED" /\ \A d \in Id \ {c} : cra'[d] = cra[d]
    BY <1>j, <2>1 DEF CraRow
  <2>3. /\ cra[c].status = "ESCALATED_TO_SUMSUB"
        /\ customer.freeze # "sanctions" \/ customer.status = "OFF"
    BY <1>t, <2>1 DEF AloneFits
  <2>4. review[c] = <<>>
    BY <1>t, <2>1, <2>3 DEF ReviewFits
  <2>5. ReviewsFit'
    BY <2>1, <2>2, <2>4, ReviewWritten
  <2>6. FreezeFits'
    <3>1. customer.freeze = "material" => holding.cycle
      BY <1>t, <2>1 DEF FreezeFits, Ready, Sole, Idle
    <3> QED
      BY <1>t, <2>1, <2>3, <3>1 DEF FreezeFits
  <2> QED
    BY <1>t, <2>1, <2>5, <2>6, FinishRests
<1>19. ASSUME MaterialFreeze(w) PROVE Goal
  <2>1. /\ Goto(w, "expire") /\ UNCHANGED <<cra, upgrade, review, holding>>
        /\ job[w].at = "freeze" /\ customer'.freeze = "material"
    BY <1>19, <1>t DEF MaterialFreeze, At, TypeOK
  <2>2. holding.cycle
    BY <1>t, <2>1 DEF AloneFits
  <2>3. FreezeFits'
    BY <2>1, <2>2 DEF FreezeFits
  <2>4. job'[w].at = "expire"
    BY <1>t, <2>1, GotoSets
  <2>5. AloneFits(w)'
    BY <2>1, <2>2, <2>4 DEF AloneFits
  <2> QED
    BY <2>1, <2>3, <2>4, <2>5, SameReviews
<1>20. ASSUME MaterialExpired(w) PROVE Goal
  <2>1. /\ Done(w) /\ UNCHANGED <<customer, cra, upgrade, review>> /\ job[w].at = "expire"
        /\ holding'.cycle = holding.cycle
    BY <1>20, <1>t DEF MaterialExpired, At, TypeOK
  <2> QED
    BY <1>t, <2>1, SameReviews, SameFreeze, FinishRests
<1>21. ASSUME MaterialRefreshed(w) PROVE Goal
  <2>1. /\ Goto(w, "release") /\ UNCHANGED <<customer, cra, upgrade, review>>
        /\ job[w].at = "refresh"
    BY <1>21 DEF MaterialRefreshed, At
  <2>2. job'[w].at = "release" /\ job'[w].saw = job[w].saw
    <3>1. job'[w] = [job[w] EXCEPT !.at = "release"]
      BY <1>j, <2>1 DEF Goto
    <3> QED
      BY <1>j, <3>1 DEF Job
  <2>3. job[w].saw = customer.freeze
    BY <1>t, <2>1 DEF AloneFits
  <2>4. AloneFits(w)'
    BY <2>1, <2>2, <2>3 DEF AloneFits
  <2>5. FreezeFits'
    BY <1>t, <2>1, <2>2 DEF FreezeFits
  <2> QED
    BY <2>1, <2>2, <2>4, <2>5, SameReviews
<1>22. ASSUME MaterialRelease(w) PROVE Goal
  <2>1. /\ UNCHANGED <<cra, upgrade, review, holding>> /\ job[w].at = "release"
        /\ customer'.freeze = IF job[w].saw = "material" THEN "none" ELSE customer.freeze
        /\ customer'.status = customer.status
    BY <1>22, <1>t DEF MaterialRelease, At, TypeOK
  <2>2. customer'.freeze # "material"
    BY <1>t, <2>1 DEF AloneFits
  <2>3. FreezeFits'
    BY <1>t, <2>1, <2>2 DEF FreezeFits
  <2>4. CASE job' = [job EXCEPT ![w] = [Idle EXCEPT !.at = "check"]]
    <3>1. job'[w].at = "check"
      BY <1>j, <2>4 DEF Idle
    <3> QED
      BY <2>1, <2>3, <3>1, RestFits, SameReviews
  <2>5. CASE Done(w)
    BY <1>t, <2>1, <2>3, <2>5, FinishRests, SameReviews
  <2> QED
    BY <1>22, <2>4, <2>5 DEF MaterialRelease
<1> QED
  BY <1>1, <1>2, <1>3, <1>4, <1>5, <1>6, <1>7, <1>8, <1>9, <1>10, <1>11, <1>12, <1>13,
     <1>14, <1>15, <1>16, <1>17, <1>18, <1>19, <1>20, <1>21, <1>22 DEF Work

\* A step counts the calls that cross and those that fail, and forgets neither.
LEMMA CountsGrow ==
  ASSUME TypeOK, NEW w \in Worker, Call(w) \/ Work(w) \/ Fail(w)
  PROVE  /\ Undisturbed' => Undisturbed
         /\ overlaps' = 0 => overlaps = 0 /\ (Call(w) => Quiet)
<1>1. faults \in Nat /\ overlaps \in Nat
  BY RiskAssumption DEF TypeOK
<1>2. ASSUME NEW first, Begin(w, first)
      PROVE  overlaps' \in {overlaps, overlaps + 1} /\ (overlaps' = 0 => Quiet)
  BY <1>1, <1>2 DEF Begin
<1>3. CASE Call(w)
  <2>1. UNCHANGED faults /\ \E first : Begin(w, first)
    BY <1>3 DEF Call, Trigger, Level2Complete, DocumentExpires, MaterialGreen,
                SpontaneousHit, AmlAnswer, MlroDecides, Phase2Decides, CaseDecision
  <2> QED
    BY <1>1, <1>2, <2>1 DEF Undisturbed
<1>4. CASE Work(w) /\ ~Call(w)
  <2>1. UNCHANGED overlaps
    BY <1>4 DEF Work
  <2>2. faults' \in {faults, faults + 1}
    BY <1>4 DEF Work, Check, Create, AmlCheck, StoreLabels, Process, Escalate, Score, AutoSign,
                Cascade, OpenReview, MarkReview, Signoff, OpenUpgrade, OpenPhase2, LinkPhase2,
                TierSignoff, CaseCustomer, CaseSign, MaterialFreeze, MaterialExpired,
                MaterialRefreshed, MaterialRelease
  <2> QED
    BY <1>1, <1>4, <2>1, <2>2 DEF Undisturbed
<1>5. CASE Fail(w) /\ ~Call(w)
  BY <1>1, <1>5 DEF Fail, Undisturbed
<1> QED
  BY <1>3, <1>4, <1>5

\* The call that takes a step of its own was at work.
LEMMA WorkIsNotIdle ==
  ASSUME NEW w \in Worker, Work(w) \/ Fail(w)
  PROVE  job[w].at # "idle"
BY DEF Work, Fail, At, Check, Create, AmlCheck, StoreLabels, Process, Escalate, Score, AutoSign,
       Cascade, OpenReview, MarkReview, Signoff, OpenUpgrade, OpenPhase2, LinkPhase2, TierSignoff,
       CaseCustomer, CaseSign, MaterialFreeze, MaterialExpired, MaterialRefreshed, MaterialRelease

\* What holds while calls neither fail nor cross is kept by every step.
LEMMA UndisturbedStep == RiskInduction /\ UndisturbedInv /\ [Next]_vars => UndisturbedInv'
<1> SUFFICES ASSUME RiskInduction, UndisturbedInv, [Next]_vars PROVE UndisturbedInv'
  OBVIOUS
<1>t. /\ TypeOK /\ InOrder /\ (\A v \in Worker : JobFits(v)) /\ \A c \in Id : RowFits(c)
      /\ overlaps = 0 => Alone
  BY DEF RiskInduction, UndisturbedInv
<1>1. CASE UNCHANGED vars
  BY <1>1 DEF vars, UndisturbedInv, Alone, Undisturbed, AloneFits, ReviewFits, AtWorkOn,
              FreezeFits
<1>2. ASSUME NEW w \in Worker, Call(w) \/ Work(w) \/ Fail(w) PROVE UndisturbedInv'
  <2>1. \A v \in Worker : v # w => job'[v] = job[v]
    BY <1>2, <1>t, OthersStay
  <2>2. overlaps' = 0 => \A v \in Worker : v # w => job[v].at = "idle" /\ job'[v].at = "idle"
    <3> SUFFICES ASSUME overlaps' = 0, NEW v \in Worker, v # w PROVE job[v].at = "idle"
      BY <2>1
    <3>1. CASE Call(w)
      BY <1>t, <3>1, CountsGrow DEF Quiet, Idle
    <3>2. CASE Work(w) \/ Fail(w)
      <4>1. Alone
        BY <1>2, <1>t, CountsGrow
      <4> QED
        BY <3>2, <4>1, WorkIsNotIdle DEF Alone
    <3> QED
      BY <1>2, <3>1, <3>2
  <2>3. overlaps' = 0 => Alone'
    BY <2>2 DEF Alone
  <2>4. ASSUME Undisturbed'
        PROVE  (\A v \in Worker : AloneFits(v)') /\ ReviewsFit' /\ FreezeFits'
    <3>1. Undisturbed /\ overlaps' = 0 /\ faults' = 0
      BY <1>2, <1>t, <2>4, CountsGrow DEF Undisturbed
    <3>2. Ready(w)
      BY <1>t, <2>2, <3>1 DEF UndisturbedInv, Ready, Sole
    <3>3. AloneFits(w)' /\ ReviewsFit' /\ FreezeFits'
      <4>1. CASE Call(w)
        <5>1. job[w] = Idle
          BY <1>t, <3>1, <4>1, CountsGrow DEF Quiet
        <5> QED
          BY <3>2, <4>1, <5>1, CallAlone
      <4>2. CASE Work(w)
        BY <3>2, <4>2, WorkAlone
      <4>3. CASE Fail(w)
        BY <1>t, <3>1, <4>3, RiskAssumption DEF Fail, TypeOK
      <4> QED
        BY <1>2, <4>1, <4>2, <4>3
    <3>4. ASSUME NEW v \in Worker, v # w PROVE AloneFits(v)'
      BY <2>2, <3>1, <3>4, RestFits
    <3> QED
      BY <3>3, <3>4
  <2> QED
    BY <2>3, <2>4 DEF UndisturbedInv, ReviewsFit
<1> QED
  BY <1>1, <1>2 DEF Next

\* It holds when nothing has happened yet.
LEMMA UndisturbedBegins == Init => UndisturbedInv
<1> SUFFICES ASSUME Init PROVE UndisturbedInv
  OBVIOUS
<1>1. \A w \in Worker : job[w].at = "idle"
  BY DEF Init, Idle
<1>2. \A c \in Id : cra[c].status = "none" /\ review[c] = <<>>
  BY DEF Init, NoCra
<1>3. \A c \in Id : ReviewFits(c)
  BY <1>2 DEF ReviewFits
<1>4. customer.freeze = "none"
  BY DEF Init
<1> QED
  BY <1>1, <1>3, <1>4 DEF UndisturbedInv, Alone, AloneFits, FreezeFits

\* As long as no call has failed and no two have crossed, each call finds its
\* assessment as the one before left it, and every freeze has somebody to lift it.
THEOREM UndisturbedInvariant == Spec => [](RiskInduction /\ UndisturbedInv)
<1> QED
  BY RiskBegins, RiskStep, UndisturbedBegins, UndisturbedStep, PTL DEF Spec

\* Between calls, a frozen customer has somebody to release it, whichever freeze
\* has overwritten which: as long as none has failed and no two have crossed.
THEOREM FrozenIsOwned == Spec => []FrozenHasOwner
<1>1. UndisturbedInv => FrozenHasOwner
  <2> SUFFICES ASSUME UndisturbedInv, Quiet, Undisturbed, customer.status = "APPROVED"
               PROVE  /\ customer.freeze = "sanctions" =>
                            \E c \in Id : cra[c].status = "ESCALATED_TO_SUMSUB"
                      /\ customer.freeze = "tier" => \E c \in Id : upgrade[c] \in Open
                      /\ customer.freeze = "material" => holding.cycle
    BY DEF FrozenHasOwner
  <2>1. \A w \in Worker : job[w].at # "release"
    BY DEF Quiet, Idle
  <2> QED
    BY <2>1 DEF UndisturbedInv, FreezeFits
<1> QED
  BY <1>1, UndisturbedInvariant, PTL

\* A HIGH customer becomes LOW only when the MLRO dismisses an assessment that was
\* created before: the policy never computes LOW for a HIGH customer, and between
\* the computation and its write no other call has made the customer HIGH.
THEOREM DowngradesAreDismissed == Spec => DowngradeIsDismissed
<1> DEFINE Dismissed ==
      customer.rating = "HIGH" /\ customer'.rating = "LOW" /\ Undisturbed =>
        \E w \in Worker : /\ At(w, "cascade") /\ job[w].verdict = "REJECTED"
                          /\ cra[job[w].c].previous = "LOW"
<1>1. RiskInduction /\ UndisturbedInv /\ [Next]_vars => [Dismissed]_vars
  <2> SUFFICES ASSUME RiskInduction, UndisturbedInv, Next, Undisturbed,
                      customer.rating = "HIGH", customer'.rating = "LOW"
               PROVE  \E w \in Worker : /\ At(w, "cascade") /\ job[w].verdict = "REJECTED"
                                        /\ cra[job[w].c].previous = "LOW"
    BY DEF vars
  <2>1. PICK w \in Worker : Call(w) \/ Work(w) \/ Fail(w)
    BY DEF Next
  <2>2. Cascade(w)
    <3>1. customer'.rating \notin {customer.rating, "HIGH"}
      OBVIOUS
    <3>2. customer \in [rating : Tier, freeze : Freeze, status : {"APPROVED", "OFF"}]
      BY DEF RiskInduction, TypeOK
    <3>3. CASE Call(w)
      BY <3>1, <3>3 DEF Call, Trigger, Level2Complete, DocumentExpires, MaterialGreen,
                  SpontaneousHit, AmlAnswer, MlroDecides, Phase2Decides, CaseDecision
    <3>4. CASE Fail(w)
      BY <3>1, <3>4 DEF Fail
    <3>5. CASE \/ Check(w) \/ Create(w) \/ AmlCheck(w) \/ StoreLabels(w) \/ Process(w)
               \/ Score(w) \/ AutoSign(w) \/ OpenReview(w) \/ MarkReview(w) \/ Signoff(w)
               \/ OpenPhase2(w) \/ LinkPhase2(w) \/ CaseSign(w) \/ MaterialExpired(w)
               \/ MaterialRefreshed(w)
      BY <3>1, <3>5 DEF Check, Create, AmlCheck, StoreLabels, Process, Score, AutoSign,
                  OpenReview, MarkReview, Signoff, OpenPhase2, LinkPhase2, CaseSign,
                  MaterialExpired, MaterialRefreshed
    <3>6. CASE \/ Escalate(w) \/ OpenUpgrade(w) \/ TierSignoff(w) \/ CaseCustomer(w)
               \/ MaterialFreeze(w) \/ MaterialRelease(w)
      BY <3>1, <3>2, <3>6 DEF Escalate, OpenUpgrade, TierSignoff, CaseCustomer, MaterialFreeze,
                        MaterialRelease
    <3> QED
      BY <2>1, <3>3, <3>4, <3>5, <3>6 DEF Work
  <2>3. job[w].at = "cascade" /\ job[w].tier = "LOW"
    BY <2>2 DEF Cascade, At, RiskInduction, TypeOK
  <2> QED
    BY <2>3 DEF UndisturbedInv, AloneFits, At
<1> QED
  BY <1>1, UndisturbedInvariant, PTL DEF Spec, DowngradeIsDismissed

-----------------------------------------------------------------------------
(* Decisions are carried out (DecisionsInv): between a case's decision and the
   write of its row there is only the call that the decision starts.           *)

AllWait == \A c \in Id : WaitsForCase(c)
Deciding(w) == Ready(w) /\ CaseIsNew(w) /\ AllWait

\* A call that has opened no case has nothing to say about one.
LEMMA NoNewCase ==
  ASSUME NEW w \in Worker, job'[w].at \notin {"mark", "openPhase2", "link"}
  PROVE  CaseIsNew(w)'
BY DEF CaseIsNew

\* A call that is over, or begins again, has opened none.
LEMMA FinishIsNew ==
  ASSUME TypeOK, NEW w \in Worker, Done(w) \/ Finish(w)
  PROVE  CaseIsNew(w)'
<1>1. ASSUME Done(w) PROVE job'[w] = Idle
  BY <1>1 DEF Done, TypeOK
<1>2. ASSUME NEW result, job' = [job EXCEPT ![w] = [Idle EXCEPT !.at = "check", !.result = result]]
      PROVE  job'[w].at = "check"
  <2>1. job'[w] = [Idle EXCEPT !.at = "check", !.result = result]
    BY <1>2 DEF TypeOK
  <2> QED
    BY <2>1 DEF Idle
<1>3. job'[w] = Idle \/ job'[w].at = "check"
  BY <1>1, <1>2 DEF Finish
<1>4. Idle.at = "idle"
  BY DEF Idle
<1> QED
  BY <1>3, <1>4, NoNewCase

\* The only call there is works on nothing but its own assessment.
LEMMA WaitsAlone ==
  ASSUME NEW w \in Worker, Deciding(w), NEW c \in Id
  PROVE  /\ cra[c].status = "PENDING_MLRO_REVIEW" =>
              ~Decided(review[c]) \/ (job[w].at = "signoff" /\ job[w].c = c)
         /\ upgrade[c] = "PENDING_LEVEL2" =>
              phase2[c] = <<>> \/ (job[w].at = "link" /\ job[w].c = c)
         /\ upgrade[c] = "PENDING_PHASE2_APPROVAL" =>
              ~Decided(phase2[c]) \/ (job[w].at = "tierSignoff" /\ job[w].c = c)
<1>1. \A v \in Worker : v # w => job[v].at \notin {"signoff", "link", "tierSignoff"}
  BY DEF Deciding, Ready, Sole
<1>2. WaitsForCase(c)
  BY DEF Deciding, AllWait
<1> QED
  BY <1>1, <1>2 DEF WaitsForCase, AtWorkOn

\* A step that writes one assessment, or its review, and no upgrade.
LEMMA AssessmentWaits ==
  ASSUME NEW w \in Worker, Deciding(w), NEW c, UNCHANGED <<upgrade, phase2>>,
         \A d \in Id \ {c} : cra'[d].status = cra[d].status /\ review'[d] = review[d],
         job[w].at \notin {"link", "tierSignoff"}, job[w].at = "signoff" => job[w].c = c,
         c \in Id /\ cra'[c].status = "PENDING_MLRO_REVIEW" =>
           ~Decided(review'[c]) \/ (job'[w].at = "signoff" /\ job'[w].c = c)
  PROVE  AllWait'
<1> SUFFICES ASSUME NEW d \in Id PROVE WaitsForCase(d)'
  BY DEF AllWait
<1>1. cra'[d].status = "PENDING_MLRO_REVIEW" =>
        ~Decided(review'[d]) \/ (job'[w].at = "signoff" /\ job'[w].c = d)
  <2>1. CASE d = c
    BY <2>1
  <2>2. CASE d # c
    BY <2>2, WaitsAlone
  <2> QED
    BY <2>1, <2>2
<1>2. upgrade'[d] = "PENDING_LEVEL2" => phase2'[d] = <<>>
  BY WaitsAlone
<1>3. upgrade'[d] = "PENDING_PHASE2_APPROVAL" => ~Decided(phase2'[d])
  BY WaitsAlone
<1> QED
  BY <1>1, <1>2, <1>3 DEF WaitsForCase, AtWorkOn

\* A step that writes one upgrade, or its second phase, and no assessment.
LEMMA UpgradeWaits ==
  ASSUME NEW w \in Worker, Deciding(w), NEW c, UNCHANGED <<cra, review>>,
         \A d \in Id \ {c} : upgrade'[d] = upgrade[d] /\ phase2'[d] = phase2[d],
         job[w].at # "signoff", job[w].at \in {"link", "tierSignoff"} => job[w].c = c,
         c \in Id /\ upgrade'[c] = "PENDING_LEVEL2" =>
           phase2'[c] = <<>> \/ (job'[w].at = "link" /\ job'[w].c = c),
         c \in Id /\ upgrade'[c] = "PENDING_PHASE2_APPROVAL" =>
           ~Decided(phase2'[c]) \/ (job'[w].at = "tierSignoff" /\ job'[w].c = c)
  PROVE  AllWait'
<1> SUFFICES ASSUME NEW d \in Id PROVE WaitsForCase(d)'
  BY DEF AllWait
<1>1. cra'[d].status = "PENDING_MLRO_REVIEW" => ~Decided(review'[d])
  BY WaitsAlone
<1>2. /\ upgrade'[d] = "PENDING_LEVEL2" =>
           phase2'[d] = <<>> \/ (job'[w].at = "link" /\ job'[w].c = d)
      /\ upgrade'[d] = "PENDING_PHASE2_APPROVAL" =>
           ~Decided(phase2'[d]) \/ (job'[w].at = "tierSignoff" /\ job'[w].c = d)
  <2>1. CASE d = c
    BY <2>1
  <2>2. CASE d # c
    BY <2>2, WaitsAlone
  <2> QED
    BY <2>1, <2>2
<1> QED
  BY <1>1, <1>2 DEF WaitsForCase, AtWorkOn

\* A step that writes none of them.
LEMMA NothingWaits ==
  ASSUME NEW w \in Worker, Deciding(w), UNCHANGED <<cra, upgrade, review, phase2>>,
         job[w].at \notin {"signoff", "link", "tierSignoff"}
  PROVE  AllWait'
<1>1. 0 \notin Id
  BY DEF Id
<1> QED
  BY <1>1, AssessmentWaits

\* What has just been asked for is not decided.
LEMMA PendingIsOpen == ~Decided(<<>>) /\ ~Decided(Append(<<>>, "PENDING"))
<1>1. \A i \in DOMAIN Append(<<>>, "PENDING") : Append(<<>>, "PENDING")[i] = "PENDING"
  OBVIOUS
<1> QED
  BY <1>1 DEF Decided, DecidedAs, Verdict

\* A call that begins: a decision starts the call that carries it out.
LEMMA CallDecides ==
  ASSUME NEW w \in Worker, Deciding(w), Call(w), job[w] = Idle
  PROVE  CaseIsNew(w)' /\ AllWait'
<1> DEFINE Goal == CaseIsNew(w)' /\ AllWait'
<1>t. TypeOK /\ (\A c \in Id : RowFits(c)) /\ job[w].at = "idle"
  BY DEF Deciding, Ready, Idle
<1>b. ASSUME NEW first, Begin(w, first), first.at \notin {"mark", "openPhase2", "link"}
      PROVE  CaseIsNew(w)'
  BY <1>t, <1>b, BeginSets, NoNewCase
<1>s. ASSUME UNCHANGED <<cra, upgrade, review, phase2>> PROVE AllWait'
  BY <1>s, <1>t, NothingWaits
<1>1. ASSUME \/ Trigger(w) \/ DocumentExpires(w) \/ MaterialGreen(w)
             \/ \E result \in Reports : SpontaneousHit(w, result)
      PROVE  Goal
  <2>1. UNCHANGED <<cra, upgrade, review, phase2>>
    BY <1>1 DEF Trigger, DocumentExpires, MaterialGreen, SpontaneousHit
  <2>2. CaseIsNew(w)'
    BY <1>1, <1>b DEF Trigger, DocumentExpires, MaterialGreen, SpontaneousHit, Idle
  <2> QED
    BY <1>s, <2>1, <2>2
<1>2. ASSUME Level2Complete(w) PROVE Goal
  <2>1. UNCHANGED <<cra, upgrade, review, phase2>>
    BY <1>2 DEF Level2Complete
  <2>2. PICK c \in Id : /\ upgrade[c] = "PENDING_LEVEL2"
                        /\ Begin(w, [Idle EXCEPT !.at = "openPhase2", !.c = c])
    BY <1>2 DEF Level2Complete, Latest
  <2>3. job'[w].at = "openPhase2" /\ job'[w].c = c
    BY <1>t, <2>2, BeginSets DEF Idle
  <2>4. phase2[c] = <<>>
    BY <1>t, <2>2, WaitsAlone
  <2>5. CaseIsNew(w)'
    BY <2>1, <2>3, <2>4 DEF CaseIsNew
  <2> QED
    BY <1>s, <2>1, <2>5
<1>3. ASSUME NEW result \in Reports, NEW c \in Id, AmlAnswer(w, c, result) PROVE Goal
  <2>1. Begin(w, [Idle EXCEPT !.at = "label", !.c = c, !.result = result, !.again = TRUE])
        /\ UNCHANGED <<cra, upgrade, review, phase2>>
    BY <1>3 DEF AmlAnswer
  <2>2. CaseIsNew(w)'
    BY <1>b, <2>1 DEF Idle
  <2> QED
    BY <1>s, <2>1, <2>2
<1>4. ASSUME NEW c \in Id, NEW verdict \in Verdict, MlroDecides(w, c, verdict) PROVE Goal
  <2>1. PICK i \in DOMAIN review[c] :
          /\ review' = [review EXCEPT ![c][i] = verdict]
          /\ Begin(w, [Idle EXCEPT !.at = "signoff", !.c = c, !.verdict = verdict])
    BY <1>4 DEF MlroDecides
  <2>2. job'[w].at = "signoff" /\ job'[w].c = c
    BY <1>t, <2>1, BeginSets DEF Idle
  <2>3. UNCHANGED <<cra, upgrade, phase2>>
    BY <1>4 DEF MlroDecides
  <2>4. \A d \in Id \ {c} : review'[d] = review[d]
    BY <1>t, <2>1 DEF TypeOK
  <2>5. AllWait'
    BY <1>t, <2>2, <2>3, <2>4, AssessmentWaits
  <2> QED
    BY <2>2, <2>5, NoNewCase
<1>5. ASSUME NEW c \in Id, NEW verdict \in Verdict, Phase2Decides(w, c, verdict) PROVE Goal
  <2>1. PICK i \in DOMAIN phase2[c] :
          /\ phase2' = [phase2 EXCEPT ![c][i] = verdict]
          /\ Begin(w, [Idle EXCEPT !.at = "tierSignoff", !.c = c, !.verdict = verdict])
    BY <1>5 DEF Phase2Decides
  <2>2. job'[w].at = "tierSignoff" /\ job'[w].c = c
    BY <1>t, <2>1, BeginSets DEF Idle
  <2>3. UNCHANGED <<cra, upgrade, review>>
    BY <1>5 DEF Phase2Decides
  <2>4. \A d \in Id \ {c} : phase2'[d] = phase2[d]
    BY <1>t, <2>1 DEF TypeOK
  <2>5. upgrade[c] # "PENDING_LEVEL2"
    <3>1. phase2[c] # <<>>
      BY <2>1
    <3> QED
      BY <1>t, <3>1, WaitsAlone
  <2>6. AllWait'
    BY <1>t, <2>2, <2>3, <2>4, <2>5, UpgradeWaits
  <2> QED
    BY <2>2, <2>6, NoNewCase
<1>6. ASSUME NEW c \in Id, NEW verdict \in Verdict, CaseDecision(w, c, verdict) PROVE Goal
  <2>1. /\ Begin(w, [Idle EXCEPT !.at = "caseCustomer", !.c = c, !.verdict = verdict])
        /\ UNCHANGED <<cra, upgrade, review, phase2>>
    BY <1>6 DEF CaseDecision
  <2>2. CaseIsNew(w)'
    BY <1>b, <2>1 DEF Idle
  <2> QED
    BY <1>s, <2>1, <2>2
<1> QED
  BY <1>1, <1>2, <1>3, <1>4, <1>5, <1>6 DEF Call

\* The call at work writes the row it was started for, and opens a case only for a
\* row that has none.
LEMMA WorkDecides ==
  ASSUME NEW w \in Worker, Deciding(w), Work(w)
  PROVE  CaseIsNew(w)' /\ AllWait'
<1> DEFINE Goal == CaseIsNew(w)' /\ AllWait'
           c == job[w].c
<1>t. /\ TypeOK /\ JobFits(w) /\ AloneFits(w) /\ CaseIsNew(w)
      /\ \A d \in Id : RowFits(d) /\ ReviewFits(d)
  BY DEF Deciding, Ready
<1>j. job[w] \in Job /\ job \in [Worker -> Job] /\ cra \in [Id -> CraRow]
  BY <1>t DEF TypeOK
<1>c. job[w].at \in Named => c \in Id /\ cra[c].status # "none"
  BY <1>t DEF JobFits
<1>m. ASSUME NEW at, Goto(w, at), at \notin {"mark", "openPhase2", "link"}
      PROVE  CaseIsNew(w)'
  BY <1>t, <1>m, GotoSets, NoNewCase
<1>s. ASSUME UNCHANGED <<cra, upgrade, review, phase2>>,
             job[w].at \notin {"signoff", "link", "tierSignoff"}
      PROVE  AllWait'
  BY <1>s, NothingWaits
<1>a. ASSUME UNCHANGED <<upgrade, review, phase2>>, NEW d \in Id,
             \A e \in Id \ {d} : cra'[e] = cra[e],
             job[w].at \notin {"link", "tierSignoff"}, job[w].at = "signoff" => c = d,
             \/ cra'[d].status \in {"PENDING_SUMSUB_RESULT", "ESCALATED_TO_SUMSUB", "SIGNED"}
             \/ ~Decided(review[d])
      PROVE  AllWait'
  BY <1>a, AssessmentWaits
<1>1. ASSUME Check(w) PROVE Goal
  <2>1. At(w, "check") /\ UNCHANGED <<cra, upgrade, review, phase2>>
    BY <1>1 DEF Check
  <2>2. ASSUME Active = {} PROVE job'[w].at = "create"
    <3>1. job'[w] = [job[w] EXCEPT !.at = "create", !.tier = customer.rating]
      BY <1>1, <1>j, <2>2 DEF Check
    <3> QED
      BY <1>j, <3>1 DEF Job
  <2>3. ASSUME Active # {} PROVE Done(w)
    BY <1>1, <2>3 DEF Check
  <2>4. CaseIsNew(w)'
    BY <1>t, <2>2, <2>3, NoNewCase, FinishIsNew
  <2> QED
    BY <1>s, <2>1, <2>4 DEF At
<1>2. ASSUME Create(w) PROVE Goal
  <2>0. PICK new \in Id : new = Cardinality(Created) + 1
    BY <1>2 DEF Create
  <2>k. PICK at \in {"process", "amlCheck"} :
          at = IF job[w].result # NoResult THEN "process" ELSE "amlCheck"
    OBVIOUS
  <2>1. UNCHANGED <<upgrade, review, phase2>> /\ job[w].at = "create"
    BY <1>2 DEF Create, At
  <2>2. /\ cra'[new].status = "PENDING_SUMSUB_RESULT"
        /\ \A d \in Id \ {new} : cra'[d] = cra[d]
    BY <1>2, <1>j, <2>0 DEF Create
  <2>3. job'[w].at = at
    <3>1. job'[w] = [job[w] EXCEPT !.c = new, !.at = at]
      BY <1>2, <1>j, <2>0, <2>k DEF Create
    <3> QED
      BY <1>j, <3>1 DEF Job
  <2>4. AllWait'
    BY <1>a, <2>1, <2>2
  <2> QED
    BY <2>3, <2>4, NoNewCase
<1>3. ASSUME AmlCheck(w) \/ StoreLabels(w) \/ Score(w) PROVE Goal
  <2>1. /\ UNCHANGED <<upgrade, review, phase2>> /\ job[w].at \in {"amlCheck", "label", "score"}
        /\ c \in Id
    BY <1>3, <1>c, NamedPlaces DEF AmlCheck, StoreLabels, Score, At, Answering
  <2>2. \/ UNCHANGED cra \/ cra' = [cra EXCEPT ![c].inspected = TRUE]
        \/ cra' = [cra EXCEPT ![c].labels = job[w].result.labels]
        \/ cra' = [cra EXCEPT ![c].tier = job[w].tier]
    BY <1>3 DEF AmlCheck, StoreLabels, Score
  <2>3. cra'[c].status = cra[c].status /\ \A d \in Id \ {c} : cra'[d] = cra[d]
    BY <1>j, <2>1, <2>2 DEF CraRow
  <2>4. \/ cra[c].status # "PENDING_MLRO_REVIEW"
        \/ ~Decided(review[c])
    BY <2>1, WaitsAlone
  <2>5. AllWait'
    BY <2>1, <2>3, <2>4, AssessmentWaits
  <2>6. CaseIsNew(w)'
    <3>1. ASSUME AmlCheck(w) PROVE Done(w)
      BY <3>1 DEF AmlCheck
    <3>2. ASSUME StoreLabels(w) PROVE Goto(w, "process")
      BY <3>2 DEF StoreLabels
    <3>3. ASSUME Score(w) PROVE Goto(w, IF job[w].review THEN "openReview" ELSE "sign")
      BY <3>3 DEF Score
    <3> QED
      BY <1>3, <1>m, <1>t, <3>1, <3>2, <3>3, FinishIsNew
  <2> QED
    BY <2>5, <2>6
<1>4. ASSUME Process(w) PROVE Goal
  <2>1. UNCHANGED <<cra, upgrade, review, phase2>> /\ job[w].at = "process"
    BY <1>4 DEF Process, At
  <2>2. CaseIsNew(w)'
    <3>1. CASE Goto(w, "escalate")
      BY <1>m, <3>1
    <3>2. CASE ~Goto(w, "escalate")
      <4>1. PICK tier, again : job' = [job EXCEPT ![w].at = "score", ![w].tier = tier,
                                                  ![w].review = again]
        BY <1>4, <3>2 DEF Process
      <4>2. job'[w] = [job[w] EXCEPT !.at = "score", !.tier = tier, !.review = again]
        BY <1>j, <4>1
      <4>3. job'[w].at = "score"
        BY <1>j, <4>2 DEF Job
      <4> QED
        BY <4>3, NoNewCase
    <3> QED
      BY <3>1, <3>2
  <2> QED
    BY <1>s, <2>1, <2>2
<1>5. ASSUME Escalate(w) PROVE Goal
  <2>1. /\ Finish(w) /\ UNCHANGED <<upgrade, review, phase2>> /\ job[w].at = "escalate" /\ c \in Id
        /\ cra' = [cra EXCEPT ![c].status = "ESCALATED_TO_SUMSUB", ![c].tier = "HIGH"]
    BY <1>5, <1>c, NamedPlaces DEF Escalate, At, Answering
  <2>2. cra'[c].status = "ESCALATED_TO_SUMSUB" /\ \A d \in Id \ {c} : cra'[d] = cra[d]
    BY <1>j, <2>1 DEF CraRow
  <2> QED
    BY <1>a, <1>t, <2>1, <2>2, FinishIsNew
<1>6. ASSUME AutoSign(w) PROVE Goal
  <2>1. /\ UNCHANGED <<upgrade, review, phase2>> /\ job[w].at = "sign" /\ c \in Id
        /\ cra' = [cra EXCEPT ![c].status = "SIGNED"]
    BY <1>6, <1>c, NamedPlaces DEF AutoSign, At, Answering
  <2>2. cra'[c].status = "SIGNED" /\ \A d \in Id \ {c} : cra'[d] = cra[d]
    BY <1>j, <2>1 DEF CraRow
  <2>3. job'[w].at = "cascade"
    BY <1>6, <1>j DEF AutoSign, CascadeOf, Job
  <2> QED
    BY <1>a, <2>1, <2>2, <2>3, NoNewCase
<1>7. ASSUME Cascade(w) PROVE Goal
  <2>1. Finish(w) /\ UNCHANGED <<cra, upgrade, review, phase2>> /\ job[w].at = "cascade"
    BY <1>7 DEF Cascade, At
  <2> QED
    BY <1>s, <1>t, <2>1, FinishIsNew
<1>8. ASSUME OpenReview(w) PROVE Goal
  <2>1. /\ Goto(w, "mark") /\ UNCHANGED <<cra, upgrade, phase2>>
        /\ job[w].at = "openReview" /\ c \in Id
        /\ review' = [review EXCEPT ![c] = Append(@, "PENDING")]
    BY <1>8, <1>c, NamedPlaces DEF OpenReview, At
  <2>2. review[c] = <<>>
    BY <1>t, <2>1 DEF AloneFits
  <2>3. job'[w].at = "mark" /\ job'[w].c = c
    BY <1>t, <2>1, GotoSets
  <2>4. /\ review'[c] = Append(<<>>, "PENDING")
        /\ \A d \in Id \ {c} : review'[d] = review[d]
    BY <1>t, <2>1, <2>2 DEF TypeOK
  <2>5. ~Decided(review'[c])
    BY <2>4, PendingIsOpen
  <2>6. AllWait'
    BY <2>1, <2>4, <2>5, AssessmentWaits
  <2>7. CaseIsNew(w)'
    <3>1. PICK d \in Id : d = c
      BY <2>1
    <3>2. ~Decided(review'[d]) /\ job'[w].at = "mark" /\ job'[w].c = d
      BY <2>3, <2>5, <3>1
    <3> QED
      BY <3>2 DEF CaseIsNew, Decided
  <2> QED
    BY <2>6, <2>7
<1>9. ASSUME MarkReview(w) PROVE Goal
  <2>1. /\ Finish(w) /\ UNCHANGED <<upgrade, review, phase2>> /\ job[w].at = "mark" /\ c \in Id
        /\ cra' = [cra EXCEPT ![c].status = "PENDING_MLRO_REVIEW"]
    BY <1>9, <1>c, NamedPlaces DEF MarkReview, At
  <2>2. \A d \in Id \ {c} : cra'[d] = cra[d]
    BY <1>j, <2>1
  <2>3. ~Decided(review[c])
    BY <1>t, <2>1 DEF CaseIsNew
  <2> QED
    BY <1>a, <1>t, <2>1, <2>2, <2>3, FinishIsNew
<1>10. ASSUME Signoff(w) PROVE Goal
  <2>1. /\ UNCHANGED <<upgrade, review, phase2>> /\ job[w].at = "signoff" /\ c \in Id
    BY <1>10, <1>c, NamedPlaces DEF Signoff, At
  <2>2. PICK row : /\ cra' = [cra EXCEPT ![c] = row]
                   /\ \E tier : row = [cra[c] EXCEPT !.status = "SIGNED", !.tier = tier]
    BY <1>10 DEF Signoff
  <2>3. cra'[c].status = "SIGNED" /\ \A d \in Id \ {c} : cra'[d] = cra[d]
    BY <1>j, <2>1, <2>2 DEF CraRow
  <2>4. PICK at \in {"upgrade", "cascade"} :
          \E tier : job' = [job EXCEPT ![w].at = at, ![w].tier = tier]
    BY <1>10 DEF Signoff, CascadeOf
  <2>5. job'[w].at = at
    <3>1. \E tier : job'[w] = [job[w] EXCEPT !.at = at, !.tier = tier]
      BY <1>j, <2>4
    <3> QED
      BY <1>j, <3>1 DEF Job
  <2> QED
    BY <1>a, <2>1, <2>3, <2>4, <2>5, NoNewCase
<1>11. ASSUME OpenUpgrade(w) PROVE Goal
  <2>1. Done(w) /\ UNCHANGED <<cra, review, phase2>> /\ job[w].at = "upgrade" /\ c \in Id
    BY <1>11, <1>c, NamedPlaces DEF OpenUpgrade, At
  <2>2. CASE UNCHANGED upgrade
    BY <1>s, <1>t, <2>1, <2>2, FinishIsNew
  <2>3. CASE upgrade[c] = "none" /\ upgrade' = [upgrade EXCEPT ![c] = "PENDING_LEVEL2"]
    <3>1. phase2[c] = <<>>
      BY <1>t, <2>1, <2>3 DEF RowFits
    <3>2. upgrade'[c] = "PENDING_LEVEL2" /\ \A d \in Id \ {c} : upgrade'[d] = upgrade[d]
      BY <1>t, <2>1, <2>3 DEF TypeOK
    <3>3. AllWait'
      BY <2>1, <3>1, <3>2, UpgradeWaits
    <3> QED
      BY <1>t, <2>1, <3>3, FinishIsNew
  <2> QED
    BY <1>11, <2>2, <2>3 DEF OpenUpgrade
<1>12. ASSUME OpenPhase2(w) PROVE Goal
  <2>1. /\ Goto(w, "link") /\ UNCHANGED <<cra, upgrade, review>>
        /\ job[w].at = "openPhase2" /\ c \in Id
        /\ phase2' = [phase2 EXCEPT ![c] = Append(@, "PENDING")]
    BY <1>12, <1>c, NamedPlaces DEF OpenPhase2, At
  <2>2. phase2[c] = <<>>
    BY <1>t, <2>1 DEF CaseIsNew
  <2>3. job'[w].at = "link" /\ job'[w].c = c
    BY <1>t, <2>1, GotoSets
  <2>4. /\ phase2'[c] = Append(<<>>, "PENDING")
        /\ \A d \in Id \ {c} : phase2'[d] = phase2[d]
    BY <1>t, <2>1, <2>2 DEF TypeOK
  <2>5. ~Decided(phase2'[c])
    BY <2>4, PendingIsOpen
  <2>6. AllWait'
    BY <2>1, <2>3, <2>4, <2>5, UpgradeWaits
  <2>7. CaseIsNew(w)'
    <3>1. PICK d \in Id : d = c
      BY <2>1
    <3>2. ~Decided(phase2'[d]) /\ job'[w].at = "link" /\ job'[w].c = d
      BY <2>3, <2>5, <3>1
    <3> QED
      BY <3>2 DEF CaseIsNew, Decided
  <2> QED
    BY <2>6, <2>7
<1>13. ASSUME LinkPhase2(w) PROVE Goal
  <2>1. /\ Done(w) /\ UNCHANGED <<cra, review, phase2>> /\ job[w].at = "link" /\ c \in Id
        /\ upgrade' = [upgrade EXCEPT ![c] = "PENDING_PHASE2_APPROVAL"]
    BY <1>13, <1>c, NamedPlaces DEF LinkPhase2, At
  <2>2. /\ upgrade'[c] = "PENDING_PHASE2_APPROVAL"
        /\ \A d \in Id \ {c} : upgrade'[d] = upgrade[d]
    BY <1>t, <2>1 DEF TypeOK
  <2>3. ~Decided(phase2[c])
    BY <1>t, <2>1 DEF CaseIsNew
  <2>4. AllWait'
    BY <2>1, <2>2, <2>3, UpgradeWaits
  <2> QED
    BY <1>t, <2>1, <2>4, FinishIsNew
<1>14. ASSUME TierSignoff(w) PROVE Goal
  <2>1. /\ Done(w) /\ UNCHANGED <<cra, review, phase2>> /\ job[w].at = "tierSignoff" /\ c \in Id
    BY <1>14, <1>c, NamedPlaces DEF TierSignoff, At
  <2>2. PICK closed \in {"COMPLETED", "REJECTED"} : upgrade' = [upgrade EXCEPT ![c] = closed]
    BY <1>14 DEF TierSignoff
  <2>3. upgrade'[c] = closed /\ \A d \in Id \ {c} : upgrade'[d] = upgrade[d]
    BY <1>t, <2>1, <2>2 DEF TypeOK
  <2>4. AllWait'
    BY <2>1, <2>2, <2>3, UpgradeWaits
  <2> QED
    BY <1>t, <2>1, <2>4, FinishIsNew
<1>15. ASSUME CaseSign(w) PROVE Goal
  <2>1. /\ Done(w) /\ UNCHANGED <<upgrade, review, phase2>> /\ job[w].at = "caseSign" /\ c \in Id
        /\ cra' = [cra EXCEPT ![c].status = "SIGNED"]
    BY <1>15, <1>c, NamedPlaces DEF CaseSign, At
  <2>2. cra'[c].status = "SIGNED" /\ \A d \in Id \ {c} : cra'[d] = cra[d]
    BY <1>j, <2>1 DEF CraRow
  <2> QED
    BY <1>a, <1>t, <2>1, <2>2, FinishIsNew
<1>16. ASSUME CaseCustomer(w) \/ MaterialFreeze(w) \/ MaterialRefreshed(w) PROVE Goal
  <2>1. /\ UNCHANGED <<cra, upgrade, review, phase2>>
        /\ job[w].at \in {"caseCustomer", "freeze", "refresh"}
        /\ \E at \in {"caseSign", "expire", "release"} : Goto(w, at)
    BY <1>16 DEF CaseCustomer, MaterialFreeze, MaterialRefreshed, At
  <2> QED
    BY <1>m, <1>s, <2>1
<1>17. ASSUME MaterialExpired(w) PROVE Goal
  <2>1. Done(w) /\ UNCHANGED <<cra, upgrade, review, phase2>> /\ job[w].at = "expire"
    BY <1>17 DEF MaterialExpired, At
  <2> QED
    BY <1>s, <1>t, <2>1, FinishIsNew
<1>18. ASSUME MaterialRelease(w) PROVE Goal
  <2>1. UNCHANGED <<cra, upgrade, review, phase2>> /\ job[w].at = "release"
    BY <1>18 DEF MaterialRelease, At
  <2>2. CASE job' = [job EXCEPT ![w] = [Idle EXCEPT !.at = "check"]]
    <3>1. job'[w].at = "check"
      BY <1>j, <2>2 DEF Idle
    <3> QED
      BY <1>s, <2>1, <3>1, NoNewCase
  <2>3. CASE Done(w)
    BY <1>s, <1>t, <2>1, <2>3, FinishIsNew
  <2> QED
    BY <1>18, <2>2, <2>3 DEF MaterialRelease
<1> QED
  BY <1>1, <1>2, <1>3, <1>4, <1>5, <1>6, <1>7, <1>8, <1>9, <1>10, <1>11, <1>12, <1>13,
     <1>14, <1>15, <1>16, <1>17, <1>18 DEF Work

\* Decisions stay carried out, or in the hands of the call that does it.
LEMMA DecisionsStep ==
  RiskInduction /\ UndisturbedInv /\ DecisionsInv /\ [Next]_vars => DecisionsInv'
<1> SUFFICES ASSUME RiskInduction, UndisturbedInv, DecisionsInv, [Next]_vars, Undisturbed'
             PROVE  (\A v \in Worker : CaseIsNew(v)') /\ AllWait'
  BY DEF DecisionsInv, AllWait
<1>t. /\ TypeOK /\ InOrder /\ (\A v \in Worker : JobFits(v)) /\ \A c \in Id : RowFits(c)
      /\ overlaps = 0 => Alone
  BY DEF RiskInduction, UndisturbedInv
<1>1. CASE UNCHANGED vars
  BY <1>1 DEF vars, DecisionsInv, Undisturbed, CaseIsNew, AllWait, WaitsForCase, AtWorkOn
<1>2. ASSUME NEW w \in Worker, Call(w) \/ Work(w) \/ Fail(w)
      PROVE  (\A v \in Worker : CaseIsNew(v)') /\ AllWait'
  <2>1. /\ Undisturbed /\ overlaps' = 0 /\ faults' = 0
        /\ Call(w) => Quiet
    BY <1>2, <1>t, CountsGrow DEF Undisturbed
  <2>2. \A v \in Worker : v # w => job'[v] = job[v]
    BY <1>2, <1>t, OthersStay
  <2>3. \A v \in Worker : v # w => job[v].at = "idle" /\ job'[v].at = "idle"
    <3> SUFFICES ASSUME NEW v \in Worker, v # w PROVE job[v].at = "idle"
      BY <2>2
    <3>1. CASE Call(w)
      BY <2>1, <3>1 DEF Quiet, Idle
    <3>2. CASE Work(w) \/ Fail(w)
      <4>1. Alone
        BY <1>t, <2>1 DEF Undisturbed
      <4> QED
        BY <3>2, <4>1, WorkIsNotIdle DEF Alone
    <3> QED
      BY <1>2, <3>1, <3>2
  <2>4. Deciding(w)
    BY <1>t, <2>1, <2>3 DEF UndisturbedInv, DecisionsInv, Deciding, AllWait, Ready, Sole
  <2>5. CaseIsNew(w)' /\ AllWait'
    <3>1. CASE Call(w)
      BY <2>1, <2>4, <3>1, CallDecides DEF Quiet
    <3>2. CASE Work(w)
      BY <2>4, <3>2, WorkDecides
    <3>3. CASE Fail(w)
      BY <1>t, <2>1, <3>3, RiskAssumption DEF Fail, TypeOK
    <3> QED
      BY <1>2, <3>1, <3>2, <3>3
  <2>6. ASSUME NEW v \in Worker, v # w PROVE CaseIsNew(v)'
    BY <2>3, <2>6, NoNewCase
  <2> QED
    BY <2>5, <2>6
<1> QED
  BY <1>1, <1>2 DEF Next

\* Nothing is waiting when nothing has happened yet.
LEMMA DecisionsBegin == Init => DecisionsInv
BY DEF Init, Idle, NoCra, DecisionsInv, CaseIsNew, WaitsForCase

\* As long as no call has failed and no two have crossed, a row that waits for its
\* case has an undecided one, or the call that carries the decision out is at work.
THEOREM DecisionsInvariant == Spec => []DecisionsInv
<1> DEFINE Inv == RiskInduction /\ UndisturbedInv /\ DecisionsInv
<1>1. Init => Inv
  BY RiskBegins, UndisturbedBegins, DecisionsBegin
<1>2. Inv /\ [Next]_vars => Inv'
  BY RiskStep, UndisturbedStep, DecisionsStep
<1>3. Inv => DecisionsInv
  OBVIOUS
<1> QED
  BY <1>1, <1>2, <1>3, PTL DEF Spec

\* Between calls, no assessment is left open with its review decided, which would
\* block every later one, and no upgrade with its second phase decided, which would
\* keep the customer frozen: no event comes a second time to close it.
THEOREM DecisionsAreKept == Spec => []DecisionsAreSettled
<1>1. RiskInduction /\ UndisturbedInv /\ DecisionsInv => DecisionsAreSettled
  <2> SUFFICES ASSUME RiskInduction, UndisturbedInv, DecisionsInv, Quiet, Undisturbed,
                      NEW c \in Id
               PROVE  /\ Decided(review[c]) => cra[c].status = "SIGNED"
                      /\ Decided(phase2[c]) => upgrade[c] \in {"COMPLETED", "REJECTED"}
    BY DEF DecisionsAreSettled
  <2>1. /\ RowFits(c) /\ ReviewFits(c) /\ WaitsForCase(c)
        /\ cra[c].status \in CraStatus /\ upgrade[c] \in UpgradeStatus
    BY DEF RiskInduction, UndisturbedInv, DecisionsInv, TypeOK, CraRow
  <2>2. \A places : "idle" \notin places => ~AtWorkOn(c, places)
    BY DEF Quiet, Idle, AtWorkOn
  <2>3. \A cases : Decided(cases) => cases # <<>>
    BY PendingIsOpen
  <2>4. Decided(review[c]) => cra[c].status = "SIGNED"
    <3>1. ASSUME Decided(review[c]) PROVE cra[c].status \notin ActiveStatus \union {"none"}
      BY <2>1, <2>2, <2>3, <3>1 DEF RowFits, ReviewFits, WaitsForCase, ActiveStatus
    <3> QED
      BY <2>1, <3>1 DEF CraStatus
  <2>5. Decided(phase2[c]) => upgrade[c] \in {"COMPLETED", "REJECTED"}
    <3>1. ASSUME Decided(phase2[c]) PROVE upgrade[c] \notin Open \union {"none"}
      BY <2>1, <2>2, <2>3, <3>1 DEF RowFits, WaitsForCase, Open
    <3> QED
      BY <2>1, <3>1 DEF UpgradeStatus, Open
  <2> QED
    BY <2>4, <2>5
<1> QED
  BY <1>1, UndisturbedInvariant, DecisionsInvariant, PTL
=============================================================================
