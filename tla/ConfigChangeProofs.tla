------------------------- MODULE ConfigChangeProofs -------------------------
(***************************************************************************)
(* ConfigChange for every set of users, roles, cases, values and policies  *)
(* and every number of faults: ChangeInv is inductive; from it follow that *)
(* the signers of a case are the right ones, that an approved case is      *)
(* signed in full, that no fee or limit change is lost, and that a         *)
(* configuration changes as ChangeControl says.                            *)
(***************************************************************************)
EXTENDS ConfigInvariant, SequenceTheorems, TLAPS

-----------------------------------------------------------------------------
\* Facts about sequences of steps.

LEMMA OneStepChanged ==
  ASSUME NEW s \in Seq(ApprovalStep), NEW i \in DOMAIN s, NEW e \in ApprovalStep
  PROVE  /\ [s EXCEPT ![i] = e] \in Seq(ApprovalStep)
         /\ DOMAIN [s EXCEPT ![i] = e] = DOMAIN s
<1>1. i \in 1 .. Len(s) BY LenProperties
<1>2. [s EXCEPT ![i] = e] \in Seq(ApprovalStep) BY <1>1, ExceptSeq, Zenon
<1> QED BY <1>2

LEMMA GivenUpSteps ==
  ASSUME NEW s \in Seq(ApprovalStep)
  PROVE  /\ GivenUp(s) \in Seq(ApprovalStep)
         /\ DOMAIN GivenUp(s) = DOMAIN s
<1>1. PICK n \in Nat : s \in [1 .. n -> ApprovalStep] BY SeqDef
<1>2. GivenUp(s) \in [1 .. n -> ApprovalStep]
  <2> SUFFICES ASSUME NEW i \in 1 .. n
               PROVE  (IF s[i].state = "PENDING" THEN [s[i] EXCEPT !.state = "CANCELLED"]
                       ELSE s[i]) \in ApprovalStep
    BY <1>1 DEF GivenUp
  <2> QED BY <1>1 DEF ApprovalStep, StepState
<1>3. GivenUp(s) \in Seq(ApprovalStep) BY <1>2, SeqDef
<1> QED BY <1>1, <1>3 DEF GivenUp

LEMMA NewSteps ==
  ASSUME NEW roles \in Seq(SUBSET Role)
  PROVE  [i \in DOMAIN roles |-> [roles |-> roles[i], state |-> "PENDING", by |-> NoUser]]
           \in Seq(ApprovalStep)
<1>1. PICK n \in Nat : roles \in [1 .. n -> SUBSET Role] BY SeqDef
<1>2. [i \in DOMAIN roles |-> [roles |-> roles[i], state |-> "PENDING", by |-> NoUser]]
        \in [1 .. n -> ApprovalStep]
  BY <1>1 DEF ApprovalStep, StepState
<1> QED BY <1>2, SeqDef

LEMMA StepsTyped ==
  ASSUME TypeOK, NEW c \in Case
  PROVE  /\ approval[c] \in ApprovalRow
         /\ Step(c) \in Seq(ApprovalStep)
         /\ \A i \in DOMAIN Step(c) : Step(c)[i] \in ApprovalStep
<1>1. approval[c] \in ApprovalRow BY DEF TypeOK
<1>2. Step(c) \in Seq(ApprovalStep) BY <1>1 DEF ApprovalRow, Step
<1>3. \A i \in DOMAIN Step(c) : Step(c)[i] \in ApprovalStep
  BY <1>2, SeqDef
<1> QED BY <1>1, <1>2, <1>3

LEMMA SignedTyped ==
  ASSUME TypeOK, NEW c \in Case, NEW i \in DOMAIN Step(c), NEW u \in User
  PROVE  /\ Signed(c, i, u) \in Seq(ApprovalStep)
         /\ DOMAIN Signed(c, i, u) = DOMAIN Step(c)
<1>1. [Step(c)[i] EXCEPT !.state = "APPROVED", !.by = u] \in ApprovalStep
  BY StepsTyped DEF ApprovalStep, StepState
<1> QED BY <1>1, StepsTyped, OneStepChanged DEF Signed

LEMMA RefusedTyped ==
  ASSUME TypeOK, NEW c \in Case, NEW i \in DOMAIN Step(c)
  PROVE  /\ Refused(c, i) \in Seq(ApprovalStep)
         /\ DOMAIN Refused(c, i) = DOMAIN Step(c)
<1>1. [Step(c)[i] EXCEPT !.state = "REJECTED"] \in ApprovalStep
  BY StepsTyped DEF ApprovalStep, StepState
<1> QED BY <1>1, StepsTyped, OneStepChanged DEF Refused

LEMMA SetCaseTyped ==
  ASSUME TypeOK, NEW c \in Case, NEW status \in CaseStatus,
         NEW steps \in Seq(ApprovalStep), SetCase(c, status, steps)
  PROVE  approval' \in [Case -> ApprovalRow]
<1>1. approval[c] \in ApprovalRow BY StepsTyped
<1>2. [approval[c] EXCEPT !.status = status, !.step = steps] \in ApprovalRow
  BY <1>1 DEF ApprovalRow
<1> QED BY <1>2 DEF SetCase, TypeOK

LEMMA StepsOfFamily ==
  ASSUME TypeOK, NEW f \in Family
  PROVE  Steps(f) \in Seq(SUBSET Role) /\ Steps(f) # <<>>
<1>1. CASE f = Governed /\ "policy" \in Family
  <2>1. value["policy"] \in Value BY <1>1 DEF TypeOK, ChangeFamily, Creation
  <2> QED BY <1>1, <2>1, ValueAssumption DEF Steps
<1>2. CASE ~(f = Governed /\ "policy" \in Family)
  BY <1>2, ValueAssumption DEF Steps
<1> QED BY <1>1, <1>2

-----------------------------------------------------------------------------
\* Types.

LEMMA RowsTyped ==
  ASSUME TypeOK, NEW c \in Case
  PROVE  /\ request[c] \in RequestRow /\ FamilyOf(c) \in Family
         /\ \A place \in Place : Goto(c, place) => request' \in [Case -> RequestRow]
         /\ \A place \in Place, status \in RequestStatus :
              Move(c, place, status) => request' \in [Case -> RequestRow]
         /\ \A status \in RequestStatus :
              SetStatus(c, status) => request' \in [Case -> RequestRow]
BY DEF TypeOK, RequestRow, FamilyOf, Goto, Move, SetStatus

LEMMA HandlersTyped ==
  ASSUME TypeOK, NEW h \in handler
  PROVE  /\ h \in Handler /\ h.case \in Case
         /\ Done(h) => handler' \subseteq Handler
         /\ \A place \in HandlerPlace : Then(h, place) => handler' \subseteq Handler
BY DEF TypeOK, Handler, Done, Then

LEMMA CaseOperationsTyped ==
  ASSUME TypeOK, NEW c \in Case, NEW u \in User,
         Approve(c, u) \/ Reject(c, u) \/ Cancel(c, u)
  PROVE  /\ approval' \in [Case -> ApprovalRow]
         /\ decided' \in [Case -> SUBSET Decision] /\ due' \in [Case -> SUBSET Decision]
<1>1. /\ decided \in [Case -> SUBSET Decision] /\ due \in [Case -> SUBSET Decision]
      /\ {"PENDING", "APPROVED", "REJECTED", "CANCELLED"} \subseteq CaseStatus
      /\ {"APPROVED", "DECLINED", "CANCELLED"} \subseteq Decision
  BY DEF TypeOK, CaseStatus, Decision
<1>2. \A decision \in Decision : Decide(c, decision) =>
        decided' \in [Case -> SUBSET Decision] /\ due' \in [Case -> SUBSET Decision]
  BY <1>1 DEF Decide
<1>3. CASE Approve(c, u)
  <2>1. PICK i \in DOMAIN Step(c), status \in {"PENDING", "APPROVED"} :
          /\ SetCase(c, status, Signed(c, i, u))
          /\ UNCHANGED <<decided, due>> \/ Decide(c, "APPROVED")
    BY <1>3 DEF Approve
  <2>2. approval' \in [Case -> ApprovalRow]
    BY <1>1, <2>1, SignedTyped, SetCaseTyped
  <2> QED BY <1>1, <1>2, <2>1, <2>2
<1>4. CASE Reject(c, u)
  <2>1. PICK i \in DOMAIN Step(c) : SetCase(c, "REJECTED", GivenUp(Refused(c, i)))
    BY <1>4 DEF Reject
  <2>2. GivenUp(Refused(c, i)) \in Seq(ApprovalStep) BY RefusedTyped, GivenUpSteps
  <2>3. approval' \in [Case -> ApprovalRow] BY <1>1, <2>1, <2>2, SetCaseTyped
  <2> QED BY <1>1, <1>2, <1>4, <2>3 DEF Reject
<1>5. CASE Cancel(c, u)
  <2>1. GivenUp(Step(c)) \in Seq(ApprovalStep) BY StepsTyped, GivenUpSteps
  <2>2. approval' \in [Case -> ApprovalRow]
    BY <1>1, <1>5, <2>1, SetCaseTyped DEF Cancel
  <2> QED BY <1>1, <1>2, <1>5, <2>2 DEF Cancel
<1> QED BY <1>3, <1>4, <1>5

LEMMA DraftTyped ==
  ASSUME TypeOK, NEW c \in Case,
         \/ CreateDraft(c, MakerOf[c], Steps(FamilyOf(c)))
         \/ ActivateFirstStep(c) \/ ActivateCase(c)
  PROVE  approval' \in [Case -> ApprovalRow]
<1>1. approval \in [Case -> ApprovalRow] BY DEF TypeOK
<1>2. CASE CreateDraft(c, MakerOf[c], Steps(FamilyOf(c)))
  <2> DEFINE roles == Steps(FamilyOf(c))
             steps == [i \in DOMAIN roles |->
                        [roles |-> roles[i], state |-> "PENDING", by |-> NoUser]]
  <2>1. steps \in Seq(ApprovalStep) BY RowsTyped, StepsOfFamily, NewSteps
  <2>2. [status |-> "DRAFT", maker |-> MakerOf[c], step |-> steps] \in ApprovalRow
    BY <2>1, FamilyAssumption DEF ApprovalRow, CaseStatus
  <2> QED BY <1>1, <1>2, <2>2 DEF CreateDraft
<1>3. CASE ActivateFirstStep(c)
  <2> DEFINE steps == [Step(c) EXCEPT ![1].state = "PENDING"]
  <2>1. steps \in Seq(ApprovalStep)
    <3>1. CASE 1 \in DOMAIN Step(c)
      <4>1. [Step(c)[1] EXCEPT !.state = "PENDING"] \in ApprovalStep
        BY <3>1, StepsTyped DEF ApprovalStep, StepState
      <4> QED BY <3>1, <4>1, StepsTyped, OneStepChanged
    <3>2. CASE 1 \notin DOMAIN Step(c)
      <4>1. PICK n \in Nat : Step(c) \in [1 .. n -> ApprovalStep] BY StepsTyped, SeqDef
      <4>2. steps \in [1 .. n -> ApprovalStep] BY <3>2, <4>1
      <4> QED BY <4>2, SeqDef
    <3> QED BY <3>1, <3>2
  <2>2. approval[c].status \in CaseStatus BY StepsTyped DEF ApprovalRow
  <2> QED BY <1>3, <2>1, <2>2, SetCaseTyped DEF ActivateFirstStep
<1>4. CASE ActivateCase(c)
  <2>1. [approval[c] EXCEPT !.status = "PENDING"] \in ApprovalRow
    BY StepsTyped DEF ApprovalRow, CaseStatus
  <2> QED BY <1>1, <1>4, <2>1 DEF ActivateCase
<1> QED BY <1>2, <1>3, <1>4

\* The call that makes a request.
LEMMA CallTyped ==
  ASSUME TypeOK, OnlyChangesLook, NEW c \in Case, Ask(c) \/ CallStep(c) \/ CreateFails(c)
  PROVE  TypeOK'
<1> USE DEF TypeOK
<1>p. /\ {"guard", "look", "insert", "refused", "draft", "submit", "activateStep",
          "activateCase", "announce", "done", "undo", "undoWrite", "failed"}
            \subseteq Place
      /\ {"PENDING_APPROVAL", "DELETED", "CANCELLED"} \subseteq RequestStatus
  BY DEF Place, Calling, InCreateAndSubmit, RequestStatus
<1>r. \A f \in ChangeFamily : value[f] \in Value OBVIOUS
<1>1. CASE Ask(c)
  <2>1. request' \in [Case -> RequestRow]
    <3>1. CASE Goto(c, "insert") BY <1>p, <3>1, RowsTyped
    <3>2. CASE /\ FamilyOf(c) \in ChangeFamily
               /\ request' = [request EXCEPT ![c] = [@ EXCEPT
                    !.at = "guard", !.snapshot = value[FamilyOf(c)]]]
      BY <1>p, <1>r, <3>2, RowsTyped DEF RequestRow
    <3> QED BY <1>1, <3>1, <3>2 DEF Ask
  <2> QED BY <1>1, <2>1 DEF Ask, caseVars
<1>2. CASE Guard(c)
  <2>1. request' \in [Case -> RequestRow] BY <1>2, <1>p, RowsTyped DEF Guard
  <2> QED BY <1>2, <2>1 DEF Guard, caseVars
<1>3. CASE Look(c)
  <2>1. FamilyOf(c) \in ChangeFamily BY <1>3 DEF Look, OnlyChangesLook
  <2>2. CASE Goto(c, "refused") BY <1>3, <1>p, <2>2, RowsTyped DEF Look, caseVars
  <2>3. CASE request' = [request EXCEPT ![c] =
               [@ EXCEPT !.at = "insert", !.snapshot = value[FamilyOf(c)]]]
    <3>1. request' \in [Case -> RequestRow]
      BY <1>p, <1>r, <2>1, <2>3, RowsTyped DEF RequestRow
    <3> QED BY <1>3, <3>1 DEF Look, caseVars
  <2> QED BY <1>3, <2>2, <2>3 DEF Look
<1>4. CASE Insert(c)
  <2>1. request' \in [Case -> RequestRow] BY <1>4, <1>p, RowsTyped DEF Insert
  <2> QED BY <1>4, <2>1 DEF Insert, caseVars
<1>5. CASE Draft(c)
  <2>1. request' \in [Case -> RequestRow] BY <1>5, <1>p, RowsTyped DEF Draft
  <2>2. approval' \in [Case -> ApprovalRow] BY <1>5, DraftTyped DEF Draft
  <2> QED BY <1>5, <2>1, <2>2 DEF Draft
<1>6. CASE ReadDraft(c)
  <2>1. request' \in [Case -> RequestRow] BY <1>6, <1>p, RowsTyped DEF ReadDraft
  <2> QED BY <1>6, <2>1 DEF ReadDraft, caseVars
<1>7. CASE SubmitStep(c)
  <2>1. request' \in [Case -> RequestRow] BY <1>7, <1>p, RowsTyped DEF SubmitStep
  <2>2. approval' \in [Case -> ApprovalRow] BY <1>7, DraftTyped DEF SubmitStep
  <2> QED BY <1>7, <2>1, <2>2 DEF SubmitStep
<1>8. CASE SubmitCase(c)
  <2>1. request' \in [Case -> RequestRow] BY <1>8, <1>p, RowsTyped DEF SubmitCase
  <2>2. approval' \in [Case -> ApprovalRow] BY <1>8, DraftTyped DEF SubmitCase
  <2> QED BY <1>8, <2>1, <2>2 DEF SubmitCase
<1>9. CASE Announce(c)
  <2>1. request' \in [Case -> RequestRow] BY <1>9, <1>p, RowsTyped DEF Announce
  <2> QED BY <1>9, <2>1 DEF Announce, caseVars
<1>10. CASE Undo(c)
  <2>1. \/ Goto(c, "failed") \/ Goto(c, "undoWrite") \/ Move(c, "failed", "DELETED")
    BY <1>10, Zenon DEF Undo
  <2>2. request' \in [Case -> RequestRow] BY <2>1, <1>p, RowsTyped
  <2> QED BY <1>10, <2>2 DEF Undo, caseVars
<1>11. CASE UndoWrite(c)
  <2>1. request' \in [Case -> RequestRow] BY <1>11, <1>p, RowsTyped DEF UndoWrite
  <2> QED BY <1>11, <2>1 DEF UndoWrite, caseVars
<1>12. CASE CreateFails(c)
  <2>1. request' \in [Case -> RequestRow] BY <1>12, <1>p, RowsTyped DEF CreateFails
  <2> QED BY <1>12, <2>1, ValueAssumption DEF CreateFails, caseVars, Fault
<1> QED BY <1>1, <1>2, <1>3, <1>4, <1>5, <1>6, <1>7, <1>8, <1>9, <1>10, <1>11, <1>12
     DEF CallStep

\* The approvers and the emission of their decisions.
LEMMA DecisionTyped ==
  ASSUME TypeOK, NEW c \in Case,
         \/ \E u \in User : Approves(c, u) \/ Rejects(c, u) \/ Cancels(c, u)
         \/ \E decision \in Decision : Deliver(c, decision) \/ DeliverFails(c, decision)
  PROVE  TypeOK'
<1>1. CASE \E u \in User : Approves(c, u) \/ Rejects(c, u) \/ Cancels(c, u)
  BY <1>1, CaseOperationsTyped DEF TypeOK, Approves, Rejects, Cancels, changeVars
<1>2. CASE \E decision \in Decision : Deliver(c, decision)
  <2>1. PICK decision \in Decision : Deliver(c, decision) BY <1>2
  <2>2. [case |-> c, decision |-> decision,
         at |-> IF decision = "APPROVED" THEN "read" ELSE "close"] \in Handler
    BY DEF Handler, HandlerPlace
  <2>3. handler' \subseteq Handler BY <2>1, <2>2 DEF Deliver, TypeOK
  <2> QED BY <2>1, <2>3 DEF Deliver, Emitted, TypeOK
<1>3. CASE \E decision \in Decision : DeliverFails(c, decision)
  BY <1>3, ValueAssumption DEF DeliverFails, Emitted, Fault, TypeOK
<1> QED BY <1>1, <1>2, <1>3

\* The handlers.
LEMMA HandlerTyped ==
  ASSUME TypeOK, NEW h \in handler, HandlerStep(h) \/ HandlerFails(h)
  PROVE  TypeOK'
<1> USE DEF TypeOK
<1>p. /\ {"read", "apply", "audit", "fail", "close", "closeWrite"} = HandlerPlace
      /\ {"APPROVED", "EXECUTED", "FAILED", "DELETED", "REJECTED", "CANCELLED"}
            \subseteq RequestStatus
  BY DEF HandlerPlace, RequestStatus
<1>c. h.case \in Case BY HandlersTyped
<1>1. CASE ReadRequest(h)
  <2>1. handler' \subseteq Handler BY <1>1, <1>p, HandlersTyped, Zenon DEF ReadRequest
  <2> QED BY <1>1, <2>1 DEF ReadRequest, caseVars
<1>2. CASE Apply(h)
  <2>1. handler' \subseteq Handler BY <1>2, <1>p, HandlersTyped, Zenon DEF Apply
  <2>2. WriteValue(h.case) => /\ request' \in [Case -> RequestRow]
                              /\ value' \in [ChangeFamily -> Value]
                              /\ applied' \subseteq Case
    BY <1>c, <1>p, RowsTyped, ValueAssumption DEF WriteValue
  <2>3. WriteValue(h.case) \/ UNCHANGED <<request, value, applied>>
    BY <1>2 DEF Apply
  <2> QED BY <1>2, <2>1, <2>2, <2>3 DEF Apply, caseVars
<1>3. CASE AuditApplied(h)
  <2>1. handler' \subseteq Handler BY <1>3, HandlersTyped DEF AuditApplied
  <2> QED BY <1>3, <2>1 DEF AuditApplied, caseVars
<1>4. CASE MarkFailed(h)
  <2>1. handler' \subseteq Handler BY <1>4, HandlersTyped DEF MarkFailed
  <2>2. \E status \in RequestStatus : SetStatus(h.case, status)
    <3>1. Status(h.case) \in RequestStatus BY <1>c, RowsTyped DEF RequestRow, Status
    <3>2. \/ SetStatus(h.case, "APPROVED") \/ SetStatus(h.case, "FAILED")
          \/ SetStatus(h.case, Status(h.case))
      BY <1>4, Zenon DEF MarkFailed
    <3> QED BY <1>p, <3>1, <3>2
  <2>3. request' \in [Case -> RequestRow] BY <1>c, <2>2, RowsTyped
  <2> QED BY <1>4, <2>1, <2>3 DEF MarkFailed, caseVars
<1>5. CASE CloseRead(h)
  <2>1. handler' \subseteq Handler BY <1>5, <1>p, HandlersTyped DEF CloseRead
  <2> QED BY <1>5, <2>1 DEF CloseRead, caseVars
<1>6. CASE CloseWrite(h)
  <2>1. handler' \subseteq Handler BY <1>6, HandlersTyped DEF CloseWrite
  <2>2. \/ SetStatus(h.case, "DELETED") \/ SetStatus(h.case, "REJECTED")
        \/ SetStatus(h.case, "CANCELLED") \/ UNCHANGED request
    BY <1>6, Zenon DEF CloseWrite
  <2>3. request' \in [Case -> RequestRow] BY <1>c, <1>p, <2>2, RowsTyped
  <2> QED BY <1>6, <2>1, <2>3 DEF CloseWrite, caseVars
<1>7. CASE HandlerFails(h)
  <2>1. handler' \subseteq Handler BY <1>7, <1>p, HandlersTyped DEF HandlerFails
  <2> QED BY <1>7, <1>c, <2>1, ValueAssumption DEF HandlerFails, caseVars, Fault
<1> QED BY <1>1, <1>2, <1>3, <1>4, <1>5, <1>6, <1>7 DEF HandlerStep

LEMMA CrashTyped ==
  ASSUME TypeOK, Crash
  PROVE  TypeOK'
<1>1. \A c \in Case : [request[c] EXCEPT !.at = "dead"] \in RequestRow
  BY DEF TypeOK, RequestRow, Place
<1>2. request' \in [Case -> RequestRow] BY <1>1 DEF TypeOK, Crash
<1>3. lost' \subseteq Case BY DEF TypeOK, Crash
<1> QED BY <1>2, <1>3, ValueAssumption DEF TypeOK, Crash, Fault

LEMMA InitTyped == Init => TypeOK
<1> SUFFICES ASSUME Init PROVE TypeOK OBVIOUS
<1>1. approval \in [Case -> ApprovalRow]
  <2>1. <<>> \in Seq(ApprovalStep) BY EmptySeq
  <2> QED BY <2>1 DEF Init, CaseInit, NoApproval, ApprovalRow, CaseStatus
<1>2. request \in [Case -> RequestRow]
  BY FamilyAssumption, ValueAssumption DEF Init, RequestRow, Place, RequestStatus
<1> QED BY <1>1, <1>2, ValueAssumption DEF Init, CaseInit, TypeOK

LEMMA StepTyped == TypeOK /\ OnlyChangesLook /\ [Next]_vars => TypeOK'
<1> SUFFICES ASSUME TypeOK, OnlyChangesLook, [Next]_vars PROVE TypeOK' OBVIOUS
<1>1. CASE UNCHANGED vars BY <1>1 DEF vars, TypeOK
<1>2. CASE Next
  BY <1>2, CallTyped, DecisionTyped, HandlerTyped, CrashTyped DEF Next
<1> QED BY <1>1, <1>2

-----------------------------------------------------------------------------
\* What the steps do to one row.

LEMMA RequestChange ==
  ASSUME TypeOK, NEW c \in Case
  PROVE  /\ \A place : Goto(c, place) =>
              /\ request'[c].at = place /\ request'[c].status = request[c].status
              /\ request'[c].family = request[c].family
              /\ \A d \in Case \ {c} : request'[d] = request[d]
         /\ \A place, status : Move(c, place, status) =>
              /\ request'[c].at = place /\ request'[c].status = status
              /\ request'[c].family = request[c].family
              /\ \A d \in Case \ {c} : request'[d] = request[d]
         /\ \A status : SetStatus(c, status) =>
              /\ request'[c].at = request[c].at /\ request'[c].status = status
              /\ request'[c].family = request[c].family
              /\ \A d \in Case \ {c} : request'[d] = request[d]
BY DEF TypeOK, RequestRow, Goto, Move, SetStatus

LEMMA ApprovalChange ==
  ASSUME TypeOK, NEW c \in Case
  PROVE  /\ \A status, steps : SetCase(c, status, steps) =>
              /\ approval'[c].status = status /\ approval'[c].step = steps
              /\ approval'[c].maker = approval[c].maker
              /\ \A d \in Case \ {c} : approval'[d] = approval[d]
         /\ ActivateCase(c) =>
              /\ approval'[c].status = "PENDING" /\ approval'[c].step = approval[c].step
              /\ approval'[c].maker = approval[c].maker
              /\ \A d \in Case \ {c} : approval'[d] = approval[d]
         /\ \A maker, steps : CreateDraft(c, maker, steps) =>
              /\ approval'[c].status = "DRAFT"
              /\ DOMAIN approval'[c].step = DOMAIN steps
              /\ \A i \in DOMAIN steps : approval'[c].step[i].state = "PENDING"
              /\ \A d \in Case \ {c} : approval'[d] = approval[d]
<1>1. c \in DOMAIN approval /\ DOMAIN approval = Case /\ approval[c] \in ApprovalRow
  BY DEF TypeOK
<1>2. ASSUME NEW status, NEW steps, SetCase(c, status, steps)
      PROVE  /\ approval'[c].status = status /\ approval'[c].step = steps
             /\ approval'[c].maker = approval[c].maker
             /\ \A d \in Case \ {c} : approval'[d] = approval[d]
  BY <1>1, <1>2 DEF ApprovalRow, SetCase
<1>3. ASSUME ActivateCase(c)
      PROVE  /\ approval'[c].status = "PENDING" /\ approval'[c].step = approval[c].step
             /\ approval'[c].maker = approval[c].maker
             /\ \A d \in Case \ {c} : approval'[d] = approval[d]
  BY <1>1, <1>3 DEF ApprovalRow, ActivateCase
<1>4. ASSUME NEW maker, NEW steps, CreateDraft(c, maker, steps)
      PROVE  /\ approval'[c].status = "DRAFT"
             /\ DOMAIN approval'[c].step = DOMAIN steps
             /\ \A i \in DOMAIN steps : approval'[c].step[i].state = "PENDING"
             /\ \A d \in Case \ {c} : approval'[d] = approval[d]
  <2>1. /\ approval'[c].status = "DRAFT"
        /\ approval'[c].step = [i \in DOMAIN steps |->
             [roles |-> steps[i], state |-> "PENDING", by |-> NoUser]]
        /\ \A d \in Case \ {c} : approval'[d] = approval[d]
    BY <1>1, <1>4 DEF CreateDraft
  <2> QED BY <2>1
<1> QED BY <1>2, <1>3, <1>4

\* What a step of the call that makes request c does to its case.
Before(c) == request[c].at \in BeforeSubmit /\ request[c].at' \in BeforeSubmit
             /\ approval'[c] = approval[c]
Drafted(c) ==
  /\ request[c].at = "draft" /\ request[c].at' = "submit"
  /\ approval'[c].status = "DRAFT"
  /\ \A i \in DOMAIN Step(c)' : Step(c)[i].state' = "PENDING"
InSubmit(c) ==
  /\ request[c].at \in Submitting /\ request[c].at' \in Submitting
  /\ approval'[c].status = approval[c].status
  /\ approval'[c].maker = approval[c].maker
  /\ \/ approval'[c].step = approval[c].step
     \/ approval'[c].step = [Step(c) EXCEPT ![1].state = "PENDING"]
Submitted(c) ==
  /\ request[c].at = "activateCase" /\ request[c].at' = "announce"
  /\ approval'[c].status = "PENDING" /\ approval'[c].step = approval[c].step
  /\ approval'[c].maker = approval[c].maker
Beyond(c) ==
  /\ request[c].at' \notin BeforeSubmit \union Submitting
  /\ approval'[c] = approval[c]

LEMMA CallEffect ==
  ASSUME TypeOK, NEW c \in Case, Ask(c) \/ CallStep(c) \/ CreateFails(c)
  PROVE  /\ UNCHANGED <<decided, due, value, handler, applied>>
         /\ \A d \in Case \ {c} : request'[d] = request[d] /\ approval'[d] = approval[d]
         /\ request'[c].family = request[c].family
         /\ request'[c].at \in {"guard", "look"} =>
              request[c].at = "guard" \/ FamilyOf(c) \in ChangeFamily
         /\ Before(c) \/ Drafted(c) \/ InSubmit(c) \/ Submitted(c) \/ Beyond(c)
         /\ request'[c].status = request[c].status \/ request'[c].status \in
              {"PENDING_APPROVAL", "CANCELLED", "DELETED"}
         /\ request'[c].status = "PENDING_APPROVAL" =>
              request[c].status = "PENDING_APPROVAL" \/ request[c].at = "insert"
<1>r. approval[c] \in ApprovalRow /\ request[c] \in RequestRow
  BY StepsTyped, RowsTyped
<1> USE DEF caseVars, BeforeSubmit, Submitting, Before, Beyond
<1>1. CASE Ask(c)
  <2>1. CASE Goto(c, "insert") BY <1>1, <2>1, RequestChange DEF Ask
  <2>2. CASE /\ FamilyOf(c) \in ChangeFamily
             /\ request' = [request EXCEPT ![c] = [@ EXCEPT
                  !.at = "guard", !.snapshot = value[FamilyOf(c)]]]
    BY <1>1, <1>r, <2>2 DEF Ask, TypeOK, RequestRow
  <2> QED BY <1>1, <2>1, <2>2 DEF Ask
<1>2. CASE Guard(c) BY <1>2, RequestChange DEF Guard
<1>3. CASE Look(c)
  <2>1. CASE Goto(c, "refused") BY <1>3, <2>1, RequestChange DEF Look
  <2>2. CASE request' = [request EXCEPT ![c] =
               [@ EXCEPT !.at = "insert", !.snapshot = value[FamilyOf(c)]]]
    BY <1>3, <1>r, <2>2 DEF Look, TypeOK, RequestRow
  <2> QED BY <1>3, <2>1, <2>2 DEF Look
<1>4. CASE Insert(c) BY <1>4, RequestChange DEF Insert
<1>5. CASE Draft(c)
  <2>1. /\ request[c].at = "draft" /\ request'[c].at = "submit"
        /\ request'[c].status = request[c].status
        /\ request'[c].family = request[c].family
        /\ \A d \in Case \ {c} : request'[d] = request[d]
    BY <1>5, RequestChange DEF Draft
  <2>2. /\ approval'[c].status = "DRAFT"
        /\ \A i \in DOMAIN approval'[c].step : approval'[c].step[i].state = "PENDING"
        /\ \A d \in Case \ {c} : approval'[d] = approval[d]
    BY <1>5, ApprovalChange DEF Draft
  <2>3. Drafted(c) BY <2>1, <2>2 DEF Drafted, Step
  <2> QED BY <1>5, <2>1, <2>2, <2>3 DEF Draft
<1>6. CASE ReadDraft(c) BY <1>6, RequestChange DEF ReadDraft, InSubmit
<1>7. CASE SubmitStep(c)
  BY <1>7, RequestChange, ApprovalChange DEF SubmitStep, ActivateFirstStep, InSubmit
<1>8. CASE SubmitCase(c)
  BY <1>8, RequestChange, ApprovalChange DEF SubmitCase, Submitted
<1>9. CASE Announce(c) BY <1>9, RequestChange DEF Announce
<1>10. CASE Undo(c)
  <2>1. \/ Goto(c, "failed") \/ Goto(c, "undoWrite") \/ Move(c, "failed", "DELETED")
    BY <1>10, Zenon DEF Undo
  <2> QED BY <1>10, <2>1, RequestChange DEF Undo
<1>11. CASE UndoWrite(c) BY <1>11, RequestChange DEF UndoWrite
<1>12. CASE CreateFails(c) BY <1>12, RequestChange DEF CreateFails
<1> QED BY <1>1, <1>2, <1>3, <1>4, <1>5, <1>6, <1>7, <1>8, <1>9, <1>10, <1>11, <1>12
     DEF CallStep

\* What a handler's step does to its request and to itself.
LEMMA HandlerEffect ==
  ASSUME TypeOK, NEW h \in handler, HandlerStep(h) \/ HandlerFails(h)
  PROVE  /\ UNCHANGED <<approval, decided, due>>
         /\ \A c \in Case : /\ request'[c].at = request[c].at
                            /\ request'[c].family = request[c].family
         /\ \A c \in Case \ {h.case} : request'[c] = request[c]
         /\ \/ Done(h)
            \/ \E place \in HandlerPlace :
                 /\ Then(h, place)
                 /\ place \in {"close", "closeWrite"} <=> h.at \in {"close", "closeWrite"}
                 /\ place \in {"read", "apply"} => h.at = "read" /\ applied' = applied
         /\ \/ UNCHANGED <<value, applied>>
            \/ h.at = "apply" /\ WriteValue(h.case) /\ Then(h, "audit")
         /\ request'[h.case].status = "PENDING_APPROVAL" =>
              request[h.case].status = "PENDING_APPROVAL" /\ applied' = applied
         /\ FamilyOf(h.case) = "limit" /\ request'[h.case].status = "FAILED" =>
              \/ request[h.case].status = "FAILED" /\ applied' = applied
              \/ request[h.case].status = "PENDING_APPROVAL" /\ applied' = applied
         /\ request'[h.case].status = "EXECUTED" =>
              request[h.case].status = "EXECUTED" \/ h.case \in applied'
<1>c. h.case \in Case BY HandlersTyped
<1>p. HandlerPlace = {"read", "apply", "audit", "fail", "close", "closeWrite"}
  BY DEF HandlerPlace
<1>s. \A status : SetStatus(h.case, status) =>
        /\ request'[h.case].status = status
        /\ \A c \in Case : /\ request'[c].at = request[c].at
                           /\ request'[c].family = request[c].family
        /\ \A c \in Case \ {h.case} : request'[c] = request[c]
  BY <1>c, RequestChange
<1> USE DEF caseVars
<1>1. CASE ReadRequest(h)
  <2>1. \/ Done(h)
        \/ h.at = "read" /\ (Then(h, "fail") \/ Then(h, "apply"))
    BY <1>1, Zenon DEF ReadRequest
  <2> QED BY <1>1, <1>p, <2>1 DEF ReadRequest
<1>2. CASE Apply(h)
  <2>1. h.at = "apply" BY <1>2 DEF Apply
  <2>2. CASE WriteValue(h.case) /\ Then(h, "audit")
    <3>1. \E status \in {"EXECUTED", "APPROVED"} : SetStatus(h.case, status)
      BY <2>2 DEF WriteValue
    <3>2. h.case \in applied' BY <2>2 DEF WriteValue
    <3>3. UNCHANGED <<approval, decided, due>> BY <1>2 DEF Apply
    <3> QED BY <1>p, <1>s, <2>1, <2>2, <3>1, <3>2, <3>3
  <2>3. CASE UNCHANGED <<request, value, applied>> /\ (Then(h, "fail") \/ Done(h))
    BY <1>2, <1>p, <2>1, <2>3 DEF Apply
  <2> QED BY <1>2, <2>2, <2>3, Zenon DEF Apply
<1>3. CASE AuditApplied(h) BY <1>3 DEF AuditApplied
<1>4. CASE MarkFailed(h)
  <2>1. UNCHANGED <<approval, decided, due, value, applied>> /\ Done(h)
    BY <1>4 DEF MarkFailed
  <2>2. CASE FamilyOf(h.case) = "limit"
    <3>1. SetStatus(h.case, IF Open(h.case) THEN "FAILED" ELSE Status(h.case))
      BY <1>4, <2>2, Zenon DEF MarkFailed
    <3> QED BY <1>s, <2>1, <3>1 DEF Open, Status
  <2>3. CASE FamilyOf(h.case) # "limit"
    <3>1. SetStatus(h.case, "APPROVED") \/ SetStatus(h.case, "FAILED")
      BY <1>4, <2>3, Zenon DEF MarkFailed
    <3> QED BY <1>s, <2>1, <2>3, <3>1
  <2> QED BY <2>2, <2>3
<1>5. CASE CloseRead(h)
  <2>1. Done(h) \/ (h.at = "close" /\ Then(h, "closeWrite"))
    BY <1>5, Zenon DEF CloseRead
  <2> QED BY <1>5, <1>p, <2>1 DEF CloseRead
<1>6. CASE CloseWrite(h)
  <2>1. UNCHANGED <<approval, decided, due, value, applied>> /\ Done(h)
    BY <1>6 DEF CloseWrite
  <2>2. \/ SetStatus(h.case, "DELETED") \/ SetStatus(h.case, "REJECTED")
        \/ SetStatus(h.case, "CANCELLED") \/ UNCHANGED request
    BY <1>6, Zenon DEF CloseWrite
  <2> QED BY <1>s, <2>1, <2>2
<1>7. CASE HandlerFails(h)
  <2>1. /\ UNCHANGED <<approval, decided, due, request, value, applied>>
        /\ h.at \in {"apply", "audit"}
    BY <1>7 DEF HandlerFails
  <2>2. Done(h) \/ Then(h, "fail") BY <1>7, Zenon DEF HandlerFails
  <2> QED BY <1>p, <2>1, <2>2
<1> QED BY <1>1, <1>2, <1>3, <1>4, <1>5, <1>6, <1>7 DEF HandlerStep

\* What an approver's step does to the case.
SignsOne(c, u) ==
  \E i \in DOMAIN Step(c) :
    /\ IsCurrent(c, i) /\ MaySign(c, i, u) /\ \E j \in StepsIn(c, "PENDING") : j > i
    /\ approval'[c].step = Signed(c, i, u) /\ approval'[c].status = "PENDING"
    /\ UNCHANGED <<decided, due>>
SignsLast(c, u) ==
  \E i \in DOMAIN Step(c) :
    /\ IsCurrent(c, i) /\ MaySign(c, i, u) /\ \A j \in StepsIn(c, "PENDING") : j <= i
    /\ approval'[c].step = Signed(c, i, u) /\ approval'[c].status = "APPROVED"
    /\ Decide(c, "APPROVED")
Declines(c, u) ==
  /\ \E i \in DOMAIN Step(c) :
       /\ IsCurrent(c, i) /\ MaySign(c, i, u)
       /\ approval'[c].step = GivenUp(Refused(c, i))
  /\ approval'[c].status = "REJECTED" /\ Decide(c, "DECLINED")
Withdraws(c) ==
  /\ approval'[c].step = GivenUp(Step(c))
  /\ approval'[c].status = "CANCELLED" /\ Decide(c, "CANCELLED")

LEMMA SignEffect ==
  ASSUME TypeOK, NEW c \in Case, NEW u \in User,
         Approves(c, u) \/ Rejects(c, u) \/ Cancels(c, u)
  PROVE  /\ UNCHANGED changeVars
         /\ approval[c].status \in {"DRAFT", "PENDING"}
         /\ \A d \in Case \ {c} : approval'[d] = approval[d]
         /\ approval'[c].maker = approval[c].maker
         /\ \/ approval[c].status = "PENDING"
               /\ (SignsOne(c, u) \/ SignsLast(c, u) \/ Declines(c, u))
            \/ Withdraws(c)
<1>1. CASE Approves(c, u)
  <2>1. PICK i \in DOMAIN Step(c) :
          /\ IsCurrent(c, i) /\ MaySign(c, i, u)
          /\ \/ /\ \E j \in StepsIn(c, "PENDING") : j > i
                /\ SetCase(c, "PENDING", Signed(c, i, u))
                /\ UNCHANGED <<decided, due>>
             \/ /\ \A j \in StepsIn(c, "PENDING") : j <= i
                /\ SetCase(c, "APPROVED", Signed(c, i, u))
                /\ Decide(c, "APPROVED")
    BY <1>1, Zenon DEF Approves, Approve
  <2>2. approval[c].status = "PENDING" /\ UNCHANGED changeVars
    BY <1>1 DEF Approves, Approve
  <2>3. CASE /\ \E j \in StepsIn(c, "PENDING") : j > i
             /\ SetCase(c, "PENDING", Signed(c, i, u))
             /\ UNCHANGED <<decided, due>>
    BY <2>1, <2>2, <2>3, ApprovalChange, Zenon DEF SignsOne
  <2>4. CASE /\ \A j \in StepsIn(c, "PENDING") : j <= i
             /\ SetCase(c, "APPROVED", Signed(c, i, u))
             /\ Decide(c, "APPROVED")
    BY <2>1, <2>2, <2>4, ApprovalChange, Zenon DEF SignsLast
  <2> QED BY <2>1, <2>3, <2>4
<1>2. CASE Rejects(c, u)
  <2>1. /\ approval[c].status = "PENDING" /\ UNCHANGED changeVars
        /\ Decide(c, "DECLINED")
        /\ \E i \in DOMAIN Step(c) :
             /\ IsCurrent(c, i) /\ MaySign(c, i, u)
             /\ SetCase(c, "REJECTED", GivenUp(Refused(c, i)))
    BY <1>2, Zenon DEF Rejects, Reject
  <2> QED BY <2>1, ApprovalChange, Zenon DEF Declines
<1>3. CASE Cancels(c, u)
  <2>1. /\ approval[c].status \in {"DRAFT", "PENDING"} /\ UNCHANGED changeVars
        /\ Decide(c, "CANCELLED") /\ SetCase(c, "CANCELLED", GivenUp(Step(c)))
    BY <1>3 DEF Cancels, Cancel
  <2> QED BY <2>1, ApprovalChange, Zenon DEF Withdraws
<1> QED BY <1>1, <1>2, <1>3

-----------------------------------------------------------------------------
\* ChangeInv is inductive.

LEMMA StepsAfter ==
  ASSUME TypeOK, NEW c \in Case
  PROVE  /\ \A i \in DOMAIN Step(c), u \in User :
              /\ DOMAIN Signed(c, i, u) = DOMAIN Step(c)
              /\ Signed(c, i, u)[i].state = "APPROVED" /\ Signed(c, i, u)[i].by = u
              /\ Signed(c, i, u)[i].roles = Step(c)[i].roles
              /\ \A j \in DOMAIN Step(c) \ {i} : Signed(c, i, u)[j] = Step(c)[j]
         /\ \A i \in DOMAIN Step(c) :
              /\ DOMAIN Refused(c, i) = DOMAIN Step(c)
              /\ Refused(c, i)[i].state = "REJECTED"
              /\ \A j \in DOMAIN Step(c) \ {i} : Refused(c, i)[j] = Step(c)[j]
         /\ \A steps :
              /\ DOMAIN GivenUp(steps) = DOMAIN steps
              /\ \A j \in DOMAIN steps : steps[j].state # "PENDING" =>
                   GivenUp(steps)[j] = steps[j]
              /\ \A j \in DOMAIN steps : steps[j] \in ApprovalStep =>
                   (GivenUp(steps)[j].state = "APPROVED" => GivenUp(steps)[j] = steps[j])
<1>1. \A i \in DOMAIN Step(c) : Step(c)[i] \in ApprovalStep BY StepsTyped
<1>2. ASSUME NEW i \in DOMAIN Step(c), NEW u \in User
      PROVE  /\ DOMAIN Signed(c, i, u) = DOMAIN Step(c)
             /\ Signed(c, i, u)[i].state = "APPROVED" /\ Signed(c, i, u)[i].by = u
             /\ Signed(c, i, u)[i].roles = Step(c)[i].roles
             /\ \A j \in DOMAIN Step(c) \ {i} : Signed(c, i, u)[j] = Step(c)[j]
  <2>1. /\ Signed(c, i, u)[i] = [Step(c)[i] EXCEPT !.state = "APPROVED", !.by = u]
        /\ \A j \in DOMAIN Step(c) \ {i} : Signed(c, i, u)[j] = Step(c)[j]
    BY DEF Signed
  <2> QED BY <1>1, <2>1, SignedTyped DEF ApprovalStep
<1>3. ASSUME NEW i \in DOMAIN Step(c)
      PROVE  /\ DOMAIN Refused(c, i) = DOMAIN Step(c)
             /\ Refused(c, i)[i].state = "REJECTED"
             /\ \A j \in DOMAIN Step(c) \ {i} : Refused(c, i)[j] = Step(c)[j]
  <2>1. /\ Refused(c, i)[i] = [Step(c)[i] EXCEPT !.state = "REJECTED"]
        /\ \A j \in DOMAIN Step(c) \ {i} : Refused(c, i)[j] = Step(c)[j]
    BY DEF Refused
  <2> QED BY <1>1, <2>1, RefusedTyped DEF ApprovalStep
<1>4. ASSUME NEW steps
      PROVE  /\ DOMAIN GivenUp(steps) = DOMAIN steps
             /\ \A j \in DOMAIN steps : steps[j].state # "PENDING" =>
                  GivenUp(steps)[j] = steps[j]
             /\ \A j \in DOMAIN steps : steps[j] \in ApprovalStep =>
                  (GivenUp(steps)[j].state = "APPROVED" => GivenUp(steps)[j] = steps[j])
  BY DEF GivenUp, ApprovalStep
<1> QED BY <1>2, <1>3, <1>4

LEMMA CallKeeps ==
  ASSUME ChangeInv, NEW c \in Case, Ask(c) \/ CallStep(c) \/ CreateFails(c)
  PROVE  /\ OnlyChangesLook' /\ CallOwnsDraft' /\ OpenIsUngranted' /\ OneApproval'
         /\ AppliedIsClosed' /\ StepsAreOpen'
<1>t. TypeOK BY DEF ChangeInv
<1>e. /\ UNCHANGED <<decided, due, value, handler, applied>>
      /\ \A d \in Case \ {c} : request'[d] = request[d] /\ approval'[d] = approval[d]
      /\ request'[c].family = request[c].family
      /\ request'[c].at \in {"guard", "look"} =>
           request[c].at = "guard" \/ FamilyOf(c) \in ChangeFamily
      /\ Before(c) \/ Drafted(c) \/ InSubmit(c) \/ Submitted(c) \/ Beyond(c)
      /\ request'[c].status = "PENDING_APPROVAL" =>
           request[c].status = "PENDING_APPROVAL" \/ request[c].at = "insert"
  BY <1>t, CallEffect
<1>1. OnlyChangesLook'
  BY <1>e DEF ChangeInv, OnlyChangesLook, FamilyOf
<1>2. CallOwnsDraft'
  BY <1>e DEF ChangeInv, CallOwnsDraft, Before, Drafted, InSubmit, Submitted, Beyond,
              BeforeSubmit, Submitting
<1>3. OpenIsUngranted'
  BY <1>e DEF ChangeInv, OpenIsUngranted, CallOwnsDraft, Granted, Before, Drafted,
              InSubmit, Submitted, Beyond, BeforeSubmit, Submitting
<1>4. OneApproval' BY <1>e DEF ChangeInv, OneApproval, Granted
<1>5. AppliedIsClosed'
  <2>1. request[c].at = "insert" => c \notin applied
    BY DEF ChangeInv, CallOwnsDraft, BeforeSubmit, OpenIsUngranted, OneApproval, Granted
  <2>2. applied \subseteq Case BY <1>t DEF TypeOK
  <2> QED BY <1>e, <2>1, <2>2 DEF ChangeInv, AppliedIsClosed, Open, Status
<1>6. StepsAreOpen'
  <2> SUFFICES ASSUME NEW d \in Case,
                      approval'[d].status \in {"none", "DRAFT", "PENDING"},
                      "CANCELLED" \notin decided[d],
                      NEW i \in DOMAIN Step(d)'
               PROVE  Step(d)[i].state' \in {"PENDING", "APPROVED"}
    BY <1>e DEF StepsAreOpen
  <2>1. CASE approval'[d] = approval[d]
    BY <2>1 DEF ChangeInv, StepsAreOpen, Step
  <2>2. CASE d = c /\ Drafted(c) BY <2>2 DEF Drafted
  <2>3. CASE d = c /\ (InSubmit(c) \/ Submitted(c))
    <3>1. approval[c].status \in {"DRAFT", "PENDING"}
      BY <2>3 DEF ChangeInv, CallOwnsDraft, OpenIsUngranted, InSubmit, Submitted,
                  Submitting
    <3>2. Step(c)' = Step(c) \/ Step(c)' = [Step(c) EXCEPT ![1].state = "PENDING"]
      BY <2>3 DEF InSubmit, Submitted, Step
    <3>3. i \in DOMAIN Step(c) /\ Step(c)[i].state \in {"PENDING", "APPROVED"}
      BY <2>3, <3>1, <3>2 DEF ChangeInv, StepsAreOpen
    <3>4. Step(c)[i] \in ApprovalStep BY <1>t, <3>3, StepsTyped
    <3> QED BY <2>3, <3>2, <3>3, <3>4 DEF ApprovalStep
  <2> QED BY <1>e, <2>1, <2>2, <2>3 DEF Before, Beyond
<1> QED BY <1>1, <1>2, <1>3, <1>4, <1>5, <1>6

LEMMA SignKeeps ==
  ASSUME ChangeInv, NEW c \in Case, NEW u \in User,
         Approves(c, u) \/ Rejects(c, u) \/ Cancels(c, u)
  PROVE  /\ OnlyChangesLook' /\ CallOwnsDraft' /\ OpenIsUngranted' /\ OneApproval'
         /\ AppliedIsClosed' /\ StepsAreOpen'
<1>t. TypeOK BY DEF ChangeInv
<1>e. /\ UNCHANGED changeVars
      /\ approval[c].status \in {"DRAFT", "PENDING"}
      /\ \A d \in Case \ {c} : approval'[d] = approval[d]
      /\ \/ approval[c].status = "PENDING"
            /\ (SignsOne(c, u) \/ SignsLast(c, u) \/ Declines(c, u))
         \/ Withdraws(c)
  BY <1>t, SignEffect
<1>d. /\ decided \in [Case -> SUBSET Decision] /\ due \in [Case -> SUBSET Decision]
  BY <1>t DEF TypeOK
<1>g. ~Granted(c) /\ c \notin applied /\ "APPROVED" \notin due[c]
      /\ \A h \in handler : h.case = c => h.decision # "APPROVED"
  BY <1>e DEF ChangeInv, OpenIsUngranted, OneApproval
<1>x. /\ \A d \in Case \ {c} : decided'[d] = decided[d] /\ due'[d] = due[d]
      /\ \/ UNCHANGED <<decided, due>> /\ approval'[c].status = "PENDING"
         \/ /\ "APPROVED" \in decided'[c] /\ approval'[c].status = "APPROVED"
         \/ /\ "APPROVED" \notin decided'[c] /\ "APPROVED" \notin due'[c]
            /\ approval'[c].status = "REJECTED"
         \/ /\ "APPROVED" \notin decided'[c] /\ "APPROVED" \notin due'[c]
            /\ "CANCELLED" \in decided'[c] /\ approval'[c].status = "CANCELLED"
  <2>1. CASE SignsOne(c, u) BY <2>1 DEF SignsOne
  <2>2. CASE SignsLast(c, u) BY <2>2, <1>d DEF SignsLast, Decide
  <2>3. CASE Declines(c, u) BY <2>3, <1>d, <1>g DEF Declines, Decide, Granted
  <2>4. CASE Withdraws(c) BY <2>4, <1>d, <1>g DEF Withdraws, Decide, Granted
  <2> QED BY <1>e, <2>1, <2>2, <2>3, <2>4
<1>1. OnlyChangesLook' BY <1>e DEF ChangeInv, OnlyChangesLook, FamilyOf, changeVars
<1>2. CallOwnsDraft'
  <2>1. approval'[c].status \in {"DRAFT", "CANCELLED"} \/ approval[c].status = "PENDING"
    BY <1>e, <1>x DEF Withdraws
  <2> QED BY <1>e, <2>1
       DEF ChangeInv, CallOwnsDraft, changeVars, BeforeSubmit, Submitting
<1>3. OpenIsUngranted'
  <2>1. ~Granted(c) BY <1>g
  <2> QED BY <1>e, <1>x, <2>1 DEF ChangeInv, OpenIsUngranted, Granted
<1>4. OneApproval'
  <2>1. \A d \in Case : Granted(d) => Granted(d)' BY <1>x, <1>g DEF Granted
  <2>2. \A d \in Case : "APPROVED" \in due'[d] =>
          "APPROVED" \in due[d] \/ (d = c /\ Granted(d)')
    BY <1>x, <1>g DEF Granted
  <2>3. handler' = handler /\ applied' = applied BY <1>e DEF changeVars
  <2>4. \A h \in handler : h.case \in Case BY <1>t, HandlersTyped
  <2>5. applied \subseteq Case BY <1>t DEF TypeOK
  <2> QED BY <1>g, <2>1, <2>2, <2>3, <2>4, <2>5 DEF ChangeInv, OneApproval
<1>5. AppliedIsClosed'
  BY <1>e DEF ChangeInv, AppliedIsClosed, Open, Status, changeVars
<1>6. StepsAreOpen'
  <2> SUFFICES ASSUME NEW d \in Case,
                      approval'[d].status \in {"none", "DRAFT", "PENDING"},
                      "CANCELLED" \notin decided'[d],
                      NEW i \in DOMAIN Step(d)'
               PROVE  Step(d)[i].state' \in {"PENDING", "APPROVED"}
    BY DEF StepsAreOpen
  <2>1. CASE d # c
    BY <2>1, <1>e, <1>x DEF ChangeInv, StepsAreOpen, Step
  <2>2. CASE d = c
    <3>1. SignsOne(c, u) /\ UNCHANGED decided
      BY <2>2, <1>e, <1>x DEF SignsOne, SignsLast, Declines, Withdraws
    <3>2. PICK k \in DOMAIN Step(c) : approval'[c].step = Signed(c, k, u)
      BY <3>1 DEF SignsOne
    <3>3. Step(c)' = Signed(c, k, u) BY <3>2 DEF Step
    <3>4. i \in DOMAIN Step(c) BY <2>2, <3>3, <1>t, StepsAfter
    <3>5. Step(c)[i].state \in {"PENDING", "APPROVED"}
      BY <2>2, <1>e, <3>1, <3>4 DEF ChangeInv, StepsAreOpen
    <3> QED BY <2>2, <3>3, <3>4, <3>5, <1>t, StepsAfter
  <2> QED BY <2>1, <2>2
<1> QED BY <1>1, <1>2, <1>3, <1>4, <1>5, <1>6

LEMMA EventKeeps ==
  ASSUME ChangeInv, NEW c \in Case, NEW decision \in Decision,
         Deliver(c, decision) \/ DeliverFails(c, decision)
  PROVE  /\ OnlyChangesLook' /\ CallOwnsDraft' /\ OpenIsUngranted' /\ OneApproval'
         /\ AppliedIsClosed' /\ StepsAreOpen'
<1> DEFINE new == [case |-> c, decision |-> decision,
                   at |-> IF decision = "APPROVED" THEN "read" ELSE "close"]
<1>e. /\ UNCHANGED <<approval, decided, request, value, applied>>
      /\ Emitted(c, decision)
      /\ handler' \in {handler, handler \union {new}}
  BY DEF Deliver, DeliverFails
<1>d. due \in [Case -> SUBSET Decision] BY DEF ChangeInv, TypeOK
<1>x. /\ decision \in due[c] /\ \A d \in Case : due'[d] \subseteq due[d]
      /\ decision \notin due'[c]
  BY <1>e, <1>d DEF Emitted
<1>1. OnlyChangesLook' BY <1>e DEF ChangeInv, OnlyChangesLook, FamilyOf
<1>2. CallOwnsDraft' BY <1>e DEF ChangeInv, CallOwnsDraft
<1>3. OpenIsUngranted' BY <1>e DEF ChangeInv, OpenIsUngranted, Granted
<1>4. OneApproval'
  <2>1. decision = "APPROVED" =>
          /\ Granted(c) /\ c \notin applied
          /\ \A h \in handler : h.case = c => h.decision # "APPROVED"
    BY <1>x DEF ChangeInv, OneApproval
  <2>2. \A d \in Case : "APPROVED" \in due'[d] =>
          /\ Granted(d)' /\ d \notin applied'
          /\ \A h \in handler' : h.case = d => h.decision # "APPROVED"
    BY <1>e, <1>x DEF ChangeInv, OneApproval, Granted
  <2>3. \A h \in handler' :
          /\ h.decision = "APPROVED" <=> h.at \notin {"close", "closeWrite"}
          /\ h.decision = "APPROVED" => Granted(h.case)'
          /\ h.at \in {"read", "apply"} => h.case \notin applied'
    BY <1>e, <2>1 DEF ChangeInv, OneApproval, Granted
  <2>4. \A g, h \in handler' :
          g.case = h.case /\ g.decision = "APPROVED" /\ h.decision = "APPROVED" => g = h
    BY <1>e, <2>1 DEF ChangeInv, OneApproval
  <2>5. \A d \in applied' : Granted(d)' BY <1>e DEF ChangeInv, OneApproval, Granted
  <2> QED BY <2>2, <2>3, <2>4, <2>5 DEF OneApproval
<1>5. AppliedIsClosed' BY <1>e DEF ChangeInv, AppliedIsClosed, Open, Status
<1>6. StepsAreOpen' BY <1>e DEF ChangeInv, StepsAreOpen, Step
<1> QED BY <1>1, <1>2, <1>3, <1>4, <1>5, <1>6

LEMMA WorkKeeps ==
  ASSUME ChangeInv, NEW h \in handler, HandlerStep(h) \/ HandlerFails(h)
  PROVE  /\ OnlyChangesLook' /\ CallOwnsDraft' /\ OpenIsUngranted' /\ OneApproval'
         /\ AppliedIsClosed' /\ StepsAreOpen'
<1>t. TypeOK BY DEF ChangeInv
<1>e. /\ UNCHANGED <<approval, decided, due>>
      /\ \A c \in Case : /\ request'[c].at = request[c].at
                         /\ request'[c].family = request[c].family
      /\ \A c \in Case \ {h.case} : request'[c] = request[c]
      /\ \/ Done(h)
         \/ \E place \in HandlerPlace :
              /\ Then(h, place)
              /\ place \in {"close", "closeWrite"} <=> h.at \in {"close", "closeWrite"}
              /\ place \in {"read", "apply"} => h.at = "read" /\ applied' = applied
      /\ \/ UNCHANGED <<value, applied>>
         \/ h.at = "apply" /\ WriteValue(h.case) /\ Then(h, "audit")
      /\ request'[h.case].status = "PENDING_APPROVAL" =>
           request[h.case].status = "PENDING_APPROVAL" /\ applied' = applied
  BY <1>t, HandlerEffect
<1>c. h \in Handler /\ h.case \in Case /\ applied \subseteq Case
  BY <1>t, HandlersTyped DEF TypeOK
<1>a. /\ applied \subseteq applied' /\ applied' \subseteq applied \union {h.case}
      /\ applied' # applied => h.at = "apply" /\ h.decision = "APPROVED"
                               /\ Granted(h.case) /\ Then(h, "audit")
  BY <1>e DEF WriteValue, ChangeInv, OneApproval
<1>1. OnlyChangesLook' BY <1>e DEF ChangeInv, OnlyChangesLook, FamilyOf
<1>2. CallOwnsDraft' BY <1>e DEF ChangeInv, CallOwnsDraft
<1>3. OpenIsUngranted' BY <1>e DEF ChangeInv, OpenIsUngranted, Granted
<1>4. OneApproval'
  <2>g. \A d \in Case : Granted(d)' <=> Granted(d) BY <1>e DEF Granted
  <2>h. \A g \in handler' :
          \/ g \in handler /\ g # h
          \/ /\ g.case = h.case /\ g.decision = h.decision
             /\ g.at \in {"close", "closeWrite"} <=> h.at \in {"close", "closeWrite"}
             /\ g.at \in {"read", "apply"} => h.at = "read" /\ applied' = applied
             /\ handler' = (handler \ {h}) \union {g}
    BY <1>c, <1>e DEF Then, Done, Handler
  <2>1. \A d \in Case : "APPROVED" \in due'[d] =>
          /\ Granted(d)' /\ d \notin applied'
          /\ \A g \in handler' : g.case = d => g.decision # "APPROVED"
    BY <1>a, <1>c, <1>e, <2>g, <2>h DEF ChangeInv, OneApproval
  <2>2. \A g \in handler' :
          /\ g.decision = "APPROVED" <=> g.at \notin {"close", "closeWrite"}
          /\ g.decision = "APPROVED" => Granted(g.case)'
          /\ g.at \in {"read", "apply"} => g.case \notin applied'
    <3> SUFFICES ASSUME NEW g \in handler'
                 PROVE  /\ g.decision = "APPROVED" <=> g.at \notin {"close", "closeWrite"}
                        /\ g.decision = "APPROVED" => Granted(g.case)'
                        /\ g.at \in {"read", "apply"} => g.case \notin applied'
      OBVIOUS
    <3>1. CASE g \in handler /\ g # h
      <4>1. g.case \in Case BY <1>t, <3>1, HandlersTyped
      <4>2. g.at \in {"read", "apply"} /\ g.case \in applied' => g.case = h.case
        BY <1>a, <3>1 DEF ChangeInv, OneApproval
      <4>3. g.at \in {"read", "apply"} => g.decision = "APPROVED"
        BY <3>1 DEF ChangeInv, OneApproval
      <4>4. g.at \in {"read", "apply"} /\ g.case \in applied' => applied' # applied
        BY <3>1 DEF ChangeInv, OneApproval
      <4>5. ~(g.at \in {"read", "apply"} /\ g.case \in applied')
        BY <1>a, <3>1, <4>2, <4>3, <4>4 DEF ChangeInv, OneApproval
      <4> QED BY <2>g, <3>1, <4>1, <4>5 DEF ChangeInv, OneApproval
    <3>2. CASE g \notin handler \/ g = h
      BY <1>c, <2>g, <2>h, <3>2 DEF ChangeInv, OneApproval
    <3> QED BY <3>1, <3>2
  <2>3. \A f, g \in handler' :
          f.case = g.case /\ f.decision = "APPROVED" /\ g.decision = "APPROVED" => f = g
    BY <2>h DEF ChangeInv, OneApproval
  <2>4. \A d \in applied' : Granted(d)'
    BY <1>a, <1>c, <2>g DEF ChangeInv, OneApproval
  <2> QED BY <2>1, <2>2, <2>3, <2>4 DEF OneApproval
<1>5. AppliedIsClosed'
  BY <1>a, <1>c, <1>e DEF ChangeInv, AppliedIsClosed, Open, Status
<1>6. StepsAreOpen' BY <1>e DEF ChangeInv, StepsAreOpen, Step
<1> QED BY <1>1, <1>2, <1>3, <1>4, <1>5, <1>6

LEMMA CrashKeeps ==
  ASSUME ChangeInv, Crash
  PROVE  /\ OnlyChangesLook' /\ CallOwnsDraft' /\ OpenIsUngranted' /\ OneApproval'
         /\ AppliedIsClosed' /\ StepsAreOpen'
<1>e. /\ UNCHANGED <<approval, decided, value, applied>>
      /\ handler' = {} /\ due' = [c \in Case |-> {}]
      /\ applied \subseteq Case
  BY DEF Crash, ChangeInv, TypeOK
<1>r. \A c \in Case : /\ request'[c].at \in {request[c].at, "dead"}
                      /\ request'[c].status = request[c].status
                      /\ request'[c].family = request[c].family
  BY DEF Crash, ChangeInv, TypeOK, RequestRow
<1>1. OnlyChangesLook' BY <1>r, <1>e DEF ChangeInv, OnlyChangesLook, FamilyOf
<1>2. CallOwnsDraft'
  BY <1>r, <1>e DEF ChangeInv, CallOwnsDraft, BeforeSubmit, Submitting
<1>3. OpenIsUngranted' BY <1>e DEF ChangeInv, OpenIsUngranted, Granted
<1>4. OneApproval' BY <1>e DEF ChangeInv, OneApproval, Granted
<1>5. AppliedIsClosed' BY <1>e, <1>r DEF ChangeInv, AppliedIsClosed, Open, Status
<1>6. StepsAreOpen' BY <1>e DEF ChangeInv, StepsAreOpen, Step
<1> QED BY <1>1, <1>2, <1>3, <1>4, <1>5, <1>6

LEMMA InitKeeps == Init => ChangeInv
<1> SUFFICES ASSUME Init PROVE ChangeInv OBVIOUS
<1>1. TypeOK BY InitTyped
<1>2. \A c \in Case : /\ request[c].at = "new" /\ request[c].status = "none"
                      /\ approval[c] = NoApproval /\ decided[c] = {} /\ due[c] = {}
  BY FamilyAssumption DEF Init, CaseInit
<1>3. handler = {} /\ applied = {} BY DEF Init
<1>4. \A c \in Case : DOMAIN Step(c) = {}
  <2>1. DOMAIN <<>> = {} BY EmptySeq
  <2> QED BY <1>2, <2>1 DEF NoApproval, Step
<1> QED BY <1>1, <1>2, <1>3, <1>4
    DEF ChangeInv, OnlyChangesLook, CallOwnsDraft, BeforeSubmit, Submitting,
        OpenIsUngranted, Granted, OneApproval, AppliedIsClosed, StepsAreOpen, NoApproval

LEMMA StepKeeps == ChangeInv /\ [Next]_vars => ChangeInv'
<1> SUFFICES ASSUME ChangeInv, [Next]_vars PROVE ChangeInv' OBVIOUS
<1>1. TypeOK' BY StepTyped DEF ChangeInv
<1>2. CASE UNCHANGED vars
  BY <1>1, <1>2 DEF vars, ChangeInv, OnlyChangesLook, CallOwnsDraft, OpenIsUngranted,
     Granted, OneApproval, AppliedIsClosed, StepsAreOpen, Step, FamilyOf, Open, Status
<1>3. CASE Next
  BY <1>1, <1>3, CallKeeps, SignKeeps, EventKeeps, WorkKeeps, CrashKeeps
     DEF Next, ChangeInv
<1> QED BY <1>2, <1>3

\* The inductive invariant holds, and with it every variable keeps its type.
THEOREM ChangeInvariant == Spec => []ChangeInv
<1>1. Init => ChangeInv BY InitKeeps
<1>2. ChangeInv /\ [Next]_vars => ChangeInv' BY StepKeeps
<1> QED BY <1>1, <1>2, PTL DEF Spec

-----------------------------------------------------------------------------
\* The signatures of a case.

\* What FourEyes says of one case.
SignersRight(c) ==
  \A i \in StepsIn(c, "APPROVED") :
    LET u == Step(c)[i].by IN
    /\ u \in User
    /\ u \in SuperAdmin \/ RolesOf[u] \intersect Step(c)[i].roles # {}
    /\ SameUserDenied /\ u = approval[c].maker => u \in SuperAdmin
    /\ \A j \in StepsIn(c, "APPROVED") : Step(c)[j].by = u => j = i

\* What ApprovedInFull says of one case.
SignedInFull(c) ==
  approval[c].status = "APPROVED" /\ "CANCELLED" \notin decided[c] =>
    StepsIn(c, "APPROVED") = DOMAIN Step(c)

LEMMA CallSigners ==
  ASSUME ChangeInv, FourEyes, ApprovedInFull, NEW c \in Case,
         Ask(c) \/ CallStep(c) \/ CreateFails(c)
  PROVE  FourEyes' /\ ApprovedInFull'
<1>t. TypeOK BY DEF ChangeInv
<1>e. /\ UNCHANGED decided
      /\ \A d \in Case \ {c} : approval'[d] = approval[d]
      /\ Before(c) \/ Drafted(c) \/ InSubmit(c) \/ Submitted(c) \/ Beyond(c)
  BY <1>t, CallEffect
<1>0. ASSUME NEW d \in Case, approval'[d] = approval[d]
      PROVE  SignersRight(d)' /\ SignedInFull(d)'
  BY <1>e, <1>0 DEF FourEyes, ApprovedInFull, SignersRight, SignedInFull, StepsIn, Step
<1>1. CASE Drafted(c)
  <2>1. \A i \in DOMAIN Step(c)' : Step(c)[i].state' # "APPROVED"
    BY <1>1 DEF Drafted
  <2>2. SignersRight(c)' /\ SignedInFull(c)'
    BY <1>1, <2>1 DEF Drafted, SignersRight, SignedInFull, StepsIn
  <2> QED BY <1>e, <1>0, <2>2 DEF FourEyes, ApprovedInFull, SignersRight, SignedInFull
<1>2. CASE InSubmit(c) \/ Submitted(c)
  <2>1. approval[c].status \in {"DRAFT", "CANCELLED"} /\ approval'[c].maker = approval[c].maker
        /\ approval'[c].status # "APPROVED"
    BY <1>2 DEF ChangeInv, CallOwnsDraft, Submitting, InSubmit, Submitted
  <2>2. Step(c)' = Step(c) \/ Step(c)' = [Step(c) EXCEPT ![1].state = "PENDING"]
    BY <1>2 DEF InSubmit, Submitted, Step
  <2>3. \A i \in StepsIn(c, "APPROVED")' :
          i \in StepsIn(c, "APPROVED") /\ Step(c)'[i] = Step(c)[i]
    <3>1. \A i \in DOMAIN Step(c) : Step(c)[i] \in ApprovalStep BY <1>t, StepsTyped
    <3> QED BY <2>2, <3>1 DEF StepsIn, ApprovalStep
  <2>4. SignersRight(c) BY DEF FourEyes, SignersRight
  <2>5. SignersRight(c)' BY <2>1, <2>3, <2>4 DEF SignersRight
  <2>6. SignedInFull(c)' BY <2>1 DEF SignedInFull
  <2> QED BY <1>e, <1>0, <2>5, <2>6 DEF FourEyes, ApprovedInFull, SignersRight, SignedInFull
<1>3. CASE Before(c) \/ Beyond(c)
  BY <1>e, <1>0, <1>3
     DEF Before, Beyond, FourEyes, ApprovedInFull, SignersRight, SignedInFull
<1> QED BY <1>e, <1>1, <1>2, <1>3

LEMMA SignSigners ==
  ASSUME ChangeInv, FourEyes, ApprovedInFull, NEW c \in Case, NEW u \in User,
         Approves(c, u) \/ Rejects(c, u) \/ Cancels(c, u)
  PROVE  FourEyes' /\ ApprovedInFull'
<1>t. TypeOK BY DEF ChangeInv
<1>e. /\ approval[c].status \in {"DRAFT", "PENDING"}
      /\ \A d \in Case \ {c} : approval'[d] = approval[d]
      /\ approval'[c].maker = approval[c].maker
      /\ \/ approval[c].status = "PENDING"
            /\ (SignsOne(c, u) \/ SignsLast(c, u) \/ Declines(c, u))
         \/ Withdraws(c)
  BY <1>t, SignEffect
<1>d. \A d \in Case \ {c} : decided'[d] = decided[d]
  BY <1>e, <1>t DEF TypeOK, SignsOne, SignsLast, Declines, Withdraws, Decide
<1>0. ASSUME NEW d \in Case \ {c}
      PROVE  SignersRight(d)' /\ SignedInFull(d)'
  BY <1>e, <1>d DEF FourEyes, ApprovedInFull, SignersRight, SignedInFull, StepsIn, Step
<1>y. \A i \in DOMAIN Step(c) : Step(c)[i] \in ApprovalStep BY <1>t, StepsTyped
<1>r. SignersRight(c) BY DEF FourEyes, SignersRight
<1>1. ASSUME NEW i \in DOMAIN Step(c), IsCurrent(c, i), MaySign(c, i, u),
             approval'[c].step = Signed(c, i, u)
      PROVE  SignersRight(c)'
  <2>1. Step(c)' = Signed(c, i, u) BY <1>1 DEF Step
  <2>2. /\ DOMAIN Step(c)' = DOMAIN Step(c)
        /\ Step(c)'[i].by = u /\ Step(c)'[i].roles = Step(c)[i].roles
        /\ \A j \in DOMAIN Step(c) \ {i} : Step(c)'[j] = Step(c)[j]
    BY <1>t, <2>1, StepsAfter
  <2>3. i \notin StepsIn(c, "APPROVED") BY <1>1 DEF IsCurrent, StepsIn
  <2>4. \A j \in StepsIn(c, "APPROVED")' :
          j = i \/ (j \in StepsIn(c, "APPROVED") /\ Step(c)'[j] = Step(c)[j])
    BY <2>2 DEF StepsIn
  <2>5. /\ u \in SuperAdmin \/ RolesOf[u] \intersect Step(c)[i].roles # {}
        /\ u \in SuperAdmin \/ ~SameUserDenied \/ u # approval[c].maker
        /\ \A j \in StepsIn(c, "APPROVED") : Step(c)[j].by # u
    BY <1>1 DEF MaySign
  <2> SUFFICES ASSUME NEW j \in StepsIn(c, "APPROVED")'
               PROVE  /\ Step(c)'[j].by \in User
                      /\ \/ Step(c)'[j].by \in SuperAdmin
                         \/ RolesOf[Step(c)'[j].by] \intersect Step(c)'[j].roles # {}
                      /\ SameUserDenied /\ Step(c)'[j].by = approval'[c].maker =>
                           Step(c)'[j].by \in SuperAdmin
                      /\ \A k \in StepsIn(c, "APPROVED")' :
                           Step(c)'[k].by = Step(c)'[j].by => k = j
    BY DEF SignersRight
  <2>6. CASE j = i BY <1>e, <2>2, <2>4, <2>5, <2>6
  <2>7. CASE j # i
    <3>1. j \in StepsIn(c, "APPROVED") /\ Step(c)'[j] = Step(c)[j] BY <2>4, <2>7
    <3> QED BY <1>e, <1>r, <2>2, <2>4, <2>5, <3>1 DEF SignersRight
  <2> QED BY <2>6, <2>7
<1>2. ASSUME \/ \E i \in DOMAIN Step(c) : /\ IsCurrent(c, i)
                                          /\ approval'[c].step = GivenUp(Refused(c, i))
             \/ approval'[c].step = GivenUp(Step(c))
      PROVE  SignersRight(c)'
  <2>1. \A j \in StepsIn(c, "APPROVED")' :
          j \in StepsIn(c, "APPROVED") /\ Step(c)'[j] = Step(c)[j]
    <3>1. CASE approval'[c].step = GivenUp(Step(c))
      <4>1. Step(c)' = GivenUp(Step(c)) BY <3>1 DEF Step
      <4> QED BY <1>t, <1>y, <4>1, StepsAfter DEF StepsIn
    <3>2. ASSUME NEW i \in DOMAIN Step(c), approval'[c].step = GivenUp(Refused(c, i))
          PROVE  \A j \in StepsIn(c, "APPROVED")' :
                   j \in StepsIn(c, "APPROVED") /\ Step(c)'[j] = Step(c)[j]
      <4>1. Step(c)' = GivenUp(Refused(c, i)) BY <3>2 DEF Step
      <4>2. /\ DOMAIN Refused(c, i) = DOMAIN Step(c)
            /\ Refused(c, i)[i].state = "REJECTED"
            /\ \A j \in DOMAIN Step(c) \ {i} : Refused(c, i)[j] = Step(c)[j]
        BY <1>t, StepsAfter
      <4>3. /\ DOMAIN GivenUp(Refused(c, i)) = DOMAIN Step(c)
            /\ GivenUp(Refused(c, i))[i].state = "REJECTED"
        BY <1>t, <4>2, StepsAfter
      <4>4. \A j \in DOMAIN Step(c) \ {i} : GivenUp(Refused(c, i))[j].state = "APPROVED" =>
              GivenUp(Refused(c, i))[j] = Step(c)[j]
        BY <1>t, <1>y, <4>2, StepsAfter
      <4> QED BY <4>1, <4>3, <4>4 DEF StepsIn
    <3> QED BY <1>2, <3>1, <3>2
  <2> QED BY <1>e, <1>r, <2>1 DEF SignersRight
<1>3. SignersRight(c)'
  BY <1>e, <1>1, <1>2 DEF SignsOne, SignsLast, Declines, Withdraws
<1>4. SignedInFull(c)'
  <2>1. CASE approval'[c].status # "APPROVED" BY <2>1 DEF SignedInFull
  <2>2. CASE SignsLast(c, u) /\ "CANCELLED" \notin decided'[c]
    <3>1. PICK i \in DOMAIN Step(c) :
            /\ IsCurrent(c, i) /\ \A j \in StepsIn(c, "PENDING") : j <= i
            /\ approval'[c].step = Signed(c, i, u)
      BY <2>2 DEF SignsLast
    <3>2. Step(c)' = Signed(c, i, u) BY <3>1 DEF Step
    <3>3. approval[c].status \in {"none", "DRAFT", "PENDING"} /\ "CANCELLED" \notin decided[c]
      BY <1>e, <1>t, <2>2 DEF TypeOK, SignsLast, Decide
    <3>4. \A j \in DOMAIN Step(c) : Step(c)[j].state \in {"PENDING", "APPROVED"}
      BY <3>3 DEF ChangeInv, StepsAreOpen
    <3>5. \A j \in StepsIn(c, "PENDING") : j = i
      <4>1. Step(c) \in Seq(ApprovalStep) BY <1>t, StepsTyped
      <4>2. \A j \in DOMAIN Step(c) : j \in Nat BY <4>1, LenProperties
      <4> QED BY <3>1, <4>2 DEF IsCurrent, StepsIn
    <3>6. \A j \in DOMAIN Step(c) \ {i} : Step(c)[j].state = "APPROVED"
      BY <3>4, <3>5 DEF StepsIn
    <3>7. \A j \in DOMAIN Step(c)' : Step(c)'[j].state = "APPROVED"
      BY <1>t, <3>2, <3>6, StepsAfter
    <3> QED BY <3>7 DEF SignedInFull, StepsIn
  <2>3. CASE "CANCELLED" \in decided'[c] BY <2>3 DEF SignedInFull
  <2> QED BY <1>e, <2>1, <2>2, <2>3 DEF SignsOne, Declines, Withdraws
<1> QED BY <1>0, <1>3, <1>4 DEF FourEyes, ApprovedInFull, SignersRight, SignedInFull

LEMMA SignersKeep ==
  ChangeInv /\ FourEyes /\ ApprovedInFull /\ [Next]_vars => FourEyes' /\ ApprovedInFull'
<1> SUFFICES ASSUME ChangeInv, FourEyes, ApprovedInFull, [Next]_vars
             PROVE  FourEyes' /\ ApprovedInFull'
  OBVIOUS
<1>1. ASSUME UNCHANGED <<approval, decided>>
      PROVE  FourEyes' /\ ApprovedInFull'
  BY <1>1 DEF FourEyes, ApprovedInFull, StepsIn, Step
<1>2. CASE UNCHANGED vars BY <1>1, <1>2 DEF vars
<1>3. ASSUME NEW c \in Case, NEW decision \in Decision,
             Deliver(c, decision) \/ DeliverFails(c, decision)
      PROVE  FourEyes' /\ ApprovedInFull'
  BY <1>1, <1>3 DEF Deliver, DeliverFails
<1>4. ASSUME NEW h \in handler, HandlerStep(h) \/ HandlerFails(h)
      PROVE  FourEyes' /\ ApprovedInFull'
  BY <1>1, <1>4, HandlerEffect DEF ChangeInv
<1>5. ASSUME Crash PROVE FourEyes' /\ ApprovedInFull' BY <1>1, <1>5 DEF Crash
<1>6. CASE Next
  BY <1>3, <1>4, <1>5, <1>6, CallSigners, SignSigners DEF Next
<1> QED BY <1>2, <1>6

\* The signers of a case are the right ones and each signs once, and a case that
\* nobody cancelled is approved by all its steps.
THEOREM CaseIsSigned == Spec => [](FourEyes /\ ApprovedInFull)
<1>1. Init => FourEyes /\ ApprovedInFull
  <2> SUFFICES ASSUME Init, NEW c \in Case
               PROVE  approval[c] = NoApproval /\ StepsIn(c, "APPROVED") = {}
    BY DEF FourEyes, ApprovedInFull, NoApproval
  <2>1. approval[c] = NoApproval BY DEF Init, CaseInit
  <2>2. DOMAIN Step(c) = {} BY <2>1, EmptySeq DEF Step, NoApproval
  <2> QED BY <2>1, <2>2 DEF StepsIn
<1>2. ChangeInv /\ FourEyes /\ ApprovedInFull /\ [Next]_vars => FourEyes' /\ ApprovedInFull'
  BY SignersKeep
<1> QED BY <1>1, <1>2, ChangeInvariant, PTL DEF Spec

\* A case that is approved is signed at every step: the last signature decides it,
\* and only a cancellation in the middle of createAndSubmit can take a step away.
THEOREM ApprovedCaseIsSigned == Spec => []ApprovedInFull
BY CaseIsSigned, PTL

-----------------------------------------------------------------------------
\* What requests are told, and what is written.

\* A fee or limit change replaces the value its maker saw.
THEOREM LostUpdateFree == Spec => NoLostUpdate
<1>1. ASSUME TypeOK, [Next]_vars, NEW c \in Case, c \in applied' \ applied,
             FamilyOf(c) \in {"fee", "limit"}
      PROVE  request[c].snapshot = value[FamilyOf(c)]
  <2>1. PICK h \in handler : Apply(h) /\ h.case = c
    <3>1. ASSUME NEW h \in handler, HandlerStep(h) \/ HandlerFails(h)
          PROVE  Apply(h) /\ h.case = c
      <4>1. h.at = "apply" /\ WriteValue(h.case) BY <1>1, <3>1, HandlerEffect
      <4>2. h.case = c BY <1>1, <4>1 DEF WriteValue
      <4>3. Apply(h)
        BY <1>1, <3>1, <4>1 DEF HandlerStep, ReadRequest, AuditApplied, MarkFailed,
                                CloseRead, CloseWrite, HandlerFails
      <4> QED BY <4>2, <4>3
    <3>2. ASSUME NEW d \in Case, Ask(d) \/ CallStep(d) \/ CreateFails(d)
          PROVE  applied' = applied
      BY <1>1, <3>2, CallEffect
    <3>3. ASSUME NEW d \in Case, NEW u \in User,
                 Approves(d, u) \/ Rejects(d, u) \/ Cancels(d, u)
          PROVE  applied' = applied
      BY <1>1, <3>3, SignEffect DEF changeVars
    <3>4. ASSUME NEW d \in Case, NEW decision \in Decision,
                 Deliver(d, decision) \/ DeliverFails(d, decision)
          PROVE  applied' = applied
      BY <3>4 DEF Deliver, DeliverFails
    <3>5. ~UNCHANGED vars /\ ~Crash BY <1>1 DEF vars, Crash
    <3> QED BY <1>1, <3>1, <3>2, <3>3, <3>4, <3>5 DEF Next
  <2>2. Fresh(c) BY <1>1, <2>1 DEF Apply
  <2> QED BY <2>2 DEF Fresh
<1>2. TypeOK /\ [Next]_vars =>
        \A c \in Case : c \in applied' \ applied /\ FamilyOf(c) \in {"fee", "limit"} =>
          request[c].snapshot = value[FamilyOf(c)]
  BY <1>1
<1>3. ChangeInv => TypeOK BY DEF ChangeInv
<1> QED BY <1>2, <1>3, ChangeInvariant, PTL DEF Spec, NoLostUpdate

\* A limit change that says failed has not been written, one that says executed has.
THEOREM LimitTellsTheTruth == Spec => []LimitOutcomeIsTrue
<1>1. Init => LimitOutcomeIsTrue
  BY FamilyAssumption DEF Init, LimitOutcomeIsTrue, Status
<1>2. ASSUME ChangeInv, LimitOutcomeIsTrue, [Next]_vars
      PROVE  LimitOutcomeIsTrue'
  <2>t. TypeOK BY <1>2 DEF ChangeInv
  <2>1. ASSUME NEW c \in Case, Ask(c) \/ CallStep(c) \/ CreateFails(c)
        PROVE  LimitOutcomeIsTrue'
    <3>1. /\ applied' = applied
          /\ \A d \in Case \ {c} : request'[d] = request[d]
          /\ request'[c].family = request[c].family
          /\ request'[c].status = request[c].status \/ request'[c].status \in
               {"PENDING_APPROVAL", "CANCELLED", "DELETED"}
      BY <2>t, <2>1, CallEffect
    <3> QED BY <1>2, <3>1 DEF LimitOutcomeIsTrue, FamilyOf, Status
  <2>2. ASSUME UNCHANGED <<request, applied>>
        PROVE  LimitOutcomeIsTrue'
    BY <1>2, <2>2 DEF LimitOutcomeIsTrue, FamilyOf, Status
  <2>3. ASSUME NEW c \in Case, NEW u \in User,
               Approves(c, u) \/ Rejects(c, u) \/ Cancels(c, u)
        PROVE  LimitOutcomeIsTrue'
    BY <2>2, <2>3 DEF Approves, Rejects, Cancels, changeVars
  <2>4. ASSUME NEW c \in Case, NEW decision \in Decision,
               Deliver(c, decision) \/ DeliverFails(c, decision)
        PROVE  LimitOutcomeIsTrue'
    BY <2>2, <2>4 DEF Deliver, DeliverFails
  <2>5. ASSUME NEW h \in handler, HandlerStep(h) \/ HandlerFails(h)
        PROVE  LimitOutcomeIsTrue'
    <3>1. /\ \A c \in Case : request'[c].family = request[c].family
          /\ \A c \in Case \ {h.case} : request'[c] = request[c]
          /\ UNCHANGED <<value, applied>> \/ WriteValue(h.case)
          /\ FamilyOf(h.case) = "limit" /\ request'[h.case].status = "FAILED" =>
               \/ request[h.case].status = "FAILED" /\ applied' = applied
               \/ request[h.case].status = "PENDING_APPROVAL" /\ applied' = applied
          /\ request'[h.case].status = "EXECUTED" =>
               request[h.case].status = "EXECUTED" \/ h.case \in applied'
      BY <2>t, <2>5, HandlerEffect
    <3>2. h.case \in Case BY <2>t, HandlersTyped
    <3>3. applied' \in {applied, applied \union {h.case}} BY <3>1 DEF WriteValue
    <3>4. request[h.case].status = "PENDING_APPROVAL" => h.case \notin applied
      BY <1>2 DEF ChangeInv, AppliedIsClosed, Open, Status
    <3> SUFFICES ASSUME NEW c \in Case, FamilyOf(c)' = "limit"
                 PROVE  /\ Status(c)' = "FAILED" => c \notin applied'
                        /\ Status(c)' = "EXECUTED" => c \in applied'
      BY DEF LimitOutcomeIsTrue
    <3>5. CASE c # h.case
      BY <1>2, <3>1, <3>3, <3>5 DEF LimitOutcomeIsTrue, FamilyOf, Status
    <3>6. CASE c = h.case
      BY <1>2, <3>1, <3>2, <3>3, <3>4, <3>6 DEF LimitOutcomeIsTrue, FamilyOf, Status
    <3> QED BY <3>5, <3>6
  <2>6. ASSUME Crash PROVE LimitOutcomeIsTrue'
    <3>1. \A c \in Case : /\ request'[c].status = request[c].status
                          /\ request'[c].family = request[c].family
      BY <2>t, <2>6 DEF Crash, TypeOK, RequestRow
    <3> QED BY <1>2, <2>6, <3>1 DEF Crash, LimitOutcomeIsTrue, FamilyOf, Status
  <2>7. CASE UNCHANGED vars BY <2>2, <2>7 DEF vars
  <2> QED BY <1>2, <2>1, <2>3, <2>4, <2>5, <2>6, <2>7 DEF Next
<1> QED BY <1>1, <1>2, ChangeInvariant, PTL DEF Spec

-----------------------------------------------------------------------------
\* What a request says of itself.

\* How a call ends, and what it writes into its row.
LEMMA CallEnds ==
  ASSUME TypeOK, NEW c \in Case, Ask(c) \/ CallStep(c) \/ CreateFails(c)
  PROVE  /\ lost' \in {lost, lost \union {c}}
         /\ request'[c].status # request[c].status =>
              \/ request[c].at = "insert" /\ request'[c].at = "draft"
              \/ request[c].at \in {"undo", "undoWrite"}
                   /\ request'[c].status \in {"DELETED", "CANCELLED"}
         /\ request'[c].at \in {"undo", "undoWrite", "failed"} /\ c \notin lost' =>
              \/ request[c].at \in {"undo", "undoWrite"}
              \/ request[c].at = "submit" /\ approval[c].status # "DRAFT"
         /\ request[c].at = "draft" /\ c \notin lost' => request'[c].at = "submit"
         /\ request[c].at \in {"submit", "activateStep"} /\ c \notin lost' =>
              \/ request'[c].at \in Submitting
              \/ request[c].at = "submit" /\ approval[c].status # "DRAFT"
         /\ request[c].at = "activateCase" /\ c \notin lost' =>
              approval'[c].status = "PENDING"
<1> USE RequestChange DEF Submitting
<1>1. CASE Ask(c)
  <2>1. CASE Goto(c, "insert") BY <1>1, <2>1 DEF Ask
  <2>2. CASE request' = [request EXCEPT ![c] = [@ EXCEPT
               !.at = "guard", !.snapshot = value[FamilyOf(c)]]]
    <3>1. request'[c].at = "guard" /\ request'[c].status = request[c].status
      BY <2>2, RowsTyped DEF TypeOK, RequestRow
    <3> QED BY <1>1, <3>1 DEF Ask
  <2> QED BY <1>1, <2>1, <2>2 DEF Ask
<1>2. CASE Guard(c) BY <1>2 DEF Guard
<1>3. CASE Look(c)
  <2>1. CASE Goto(c, "refused") BY <1>3, <2>1 DEF Look
  <2>2. CASE request' = [request EXCEPT ![c] =
               [@ EXCEPT !.at = "insert", !.snapshot = value[FamilyOf(c)]]]
    <3>1. request'[c].at = "insert" /\ request'[c].status = request[c].status
      BY <2>2, RowsTyped DEF TypeOK, RequestRow
    <3> QED BY <1>3, <3>1 DEF Look
  <2> QED BY <1>3, <2>1, <2>2 DEF Look
<1>4. CASE Insert(c) BY <1>4 DEF Insert
<1>5. CASE Draft(c) BY <1>5 DEF Draft
<1>6. CASE ReadDraft(c) BY <1>6 DEF ReadDraft
<1>7. CASE SubmitStep(c) BY <1>7 DEF SubmitStep
<1>8. CASE SubmitCase(c) BY <1>8, ApprovalChange DEF SubmitCase
<1>9. CASE Announce(c) BY <1>9 DEF Announce
<1>10. CASE Undo(c)
  <2>1. \/ Goto(c, "failed") \/ Goto(c, "undoWrite") \/ Move(c, "failed", "DELETED")
    BY <1>10, Zenon DEF Undo
  <2> QED BY <1>10, <2>1 DEF Undo
<1>11. CASE UndoWrite(c) BY <1>11 DEF UndoWrite
<1>12. CASE CreateFails(c) BY <1>12 DEF CreateFails
<1> QED BY <1>1, <1>2, <1>3, <1>4, <1>5, <1>6, <1>7, <1>8, <1>9, <1>10, <1>11, <1>12
     DEF CallStep

\* A refused case is closed for good, and is not granted.
LEMMA DeclinedIsClosed ==
  ASSUME ChangeInv, DecisionsStand, NEW c \in Case, "DECLINED" \in decided[c]
  PROVE  /\ ~Granted(c) /\ approval[c].status \notin {"none", "DRAFT", "PENDING", "CANCELLED"}
         /\ request[c].at \notin BeforeSubmit \union Submitting
<1>1. approval[c].status = "REJECTED" BY DEF DecisionsStand
<1> QED BY <1>1 DEF ChangeInv, OpenIsUngranted, CallOwnsDraft

LEMMA CallOutcome ==
  ASSUME ChangeInv, OutcomeInv, NEW c \in Case, Ask(c) \/ CallStep(c) \/ CreateFails(c)
  PROVE  OutcomeInv'
<1>t. TypeOK BY DEF ChangeInv
<1>e. /\ UNCHANGED <<decided, due, value, handler, applied>>
      /\ \A d \in Case \ {c} : request'[d] = request[d] /\ approval'[d] = approval[d]
      /\ request'[c].family = request[c].family
      /\ Before(c) \/ Drafted(c) \/ InSubmit(c) \/ Submitted(c) \/ Beyond(c)
      /\ request'[c].status = request[c].status \/ request'[c].status \in
           {"PENDING_APPROVAL", "CANCELLED", "DELETED"}
  BY <1>t, CallEffect
<1>x. /\ lost' \in {lost, lost \union {c}}
      /\ request'[c].status # request[c].status =>
           \/ request[c].at = "insert" /\ request'[c].at = "draft"
           \/ request[c].at \in {"undo", "undoWrite"}
                /\ request'[c].status \in {"DELETED", "CANCELLED"}
      /\ request'[c].at \in {"undo", "undoWrite", "failed"} /\ c \notin lost' =>
           \/ request[c].at \in {"undo", "undoWrite"}
           \/ request[c].at = "submit" /\ approval[c].status # "DRAFT"
      /\ request[c].at = "draft" /\ c \notin lost' => request'[c].at = "submit"
      /\ request[c].at \in {"submit", "activateStep"} /\ c \notin lost' =>
           \/ request'[c].at \in Submitting
           \/ request[c].at = "submit" /\ approval[c].status # "DRAFT"
      /\ request[c].at = "activateCase" /\ c \notin lost' =>
           approval'[c].status = "PENDING"
  BY <1>t, CallEnds
<1>h. \A h \in handler : h.case \in Case BY <1>t, HandlersTyped
<1>1. DecisionsStand'
  <2>1. "DECLINED" \in decided[c] => approval'[c].status = "REJECTED"
    <3> SUFFICES ASSUME "DECLINED" \in decided[c] PROVE approval'[c].status = "REJECTED"
      OBVIOUS
    <3>1. request[c].at \notin BeforeSubmit \union Submitting
      BY DeclinedIsClosed DEF OutcomeInv
    <3>2. Beyond(c) BY <1>e, <3>1 DEF Before, Drafted, InSubmit, Submitted, BeforeSubmit, Submitting
    <3> QED BY <3>2 DEF Beyond, OutcomeInv, DecisionsStand
  <2> QED BY <1>e, <2>1 DEF OutcomeInv, DecisionsStand
<1>2. UndoHasReason'
  <2>1. request[c].at = "submit" /\ approval[c].status # "DRAFT" => "CANCELLED" \in decided[c]
    BY DEF ChangeInv, CallOwnsDraft, Submitting, OpenIsUngranted
  <2> QED BY <1>e, <1>x, <2>1 DEF OutcomeInv, UndoHasReason
<1>3. HandlerKnows' BY <1>e, <1>x DEF OutcomeInv, HandlerKnows
<1>4. OutcomeIsTrue'
  <2> SUFFICES ASSUME NEW d \in Case, FamilyOf(d)' # "role", d \notin lost',
                      "CANCELLED" \notin decided'[d]
               PROVE  d \in applied' <=> Status(d)' \in {"APPROVED", "EXECUTED"}
    BY DEF OutcomeIsTrue
  <2>1. d \in applied <=> Status(d) \in {"APPROVED", "EXECUTED"}
    BY <1>e, <1>x DEF OutcomeInv, OutcomeIsTrue, FamilyOf
  <2>2. CASE request'[d].status = request[d].status BY <1>e, <2>1, <2>2 DEF Status
  <2>3. CASE request'[d].status # request[d].status
    <3>1. d = c BY <1>e, <2>3
    <3>2. request[c].at \notin {"undo", "undoWrite"}
      BY <1>e, <1>x, <3>1 DEF OutcomeInv, UndoHasReason
    <3>3. request[c].at = "insert" BY <1>x, <2>3, <3>1, <3>2
    <3>4. c \notin applied
      BY <3>3 DEF ChangeInv, CallOwnsDraft, BeforeSubmit, OpenIsUngranted, OneApproval, Granted
    <3>5. request'[c].status \notin {"APPROVED", "EXECUTED"} BY <1>e, <2>3, <3>1
    <3> QED BY <1>e, <3>1, <3>4, <3>5 DEF Status
  <2> QED BY <2>2, <2>3
<1>5. OpenIsInHand'
  <2> SUFFICES ASSUME NEW d \in Case, d \notin lost', Open(d)'
               PROVE  \/ InHand(d)'
                      \/ request'[d].at = "draft"
                      \/ request'[d].at \in Submitting /\ approval'[d].status = "DRAFT"
    BY DEF OpenIsInHand
  <2>0. d \notin lost BY <1>x
  <2>1. CASE d # c
    BY <1>e, <2>0, <2>1 DEF OutcomeInv, OpenIsInHand, InHand, Open, Status
  <2>2. CASE d = c
    <3>1. CASE request[c].at = "insert" /\ request'[c].at = "draft" BY <2>2, <3>1
    <3>2. CASE ~(request[c].at = "insert" /\ request'[c].at = "draft")
      <4>1. Open(c) BY <1>x, <2>2, <3>2 DEF Open, Status
      <4>2. \/ InHand(c) \/ request[c].at = "draft"
            \/ request[c].at \in Submitting /\ approval[c].status = "DRAFT"
        BY <2>0, <2>2, <4>1 DEF OutcomeInv, OpenIsInHand
      <4>3. CASE Before(c)
        <5>1. InHand(c)
          BY <1>x, <2>2, <4>2, <4>3 DEF Before, BeforeSubmit, Submitting
        <5> QED BY <1>e, <2>2, <4>3, <5>1 DEF InHand, Before
      <4>4. CASE Drafted(c) BY <2>2, <4>4 DEF Drafted, Submitting
      <4>5. CASE InSubmit(c)
        <5>1. InHand(c) \/ approval[c].status = "DRAFT"
          BY <4>2, <4>5 DEF InSubmit, Submitting
        <5> QED BY <1>e, <2>2, <4>5, <5>1 DEF InHand, InSubmit
      <4>6. CASE Submitted(c) BY <2>2, <4>6 DEF Submitted, InHand
      <4>7. CASE Beyond(c)
        <5>1. request[c].at # "draft"
          BY <1>x, <2>2, <4>7 DEF Beyond, Submitting
        <5>2. request[c].at \in Submitting =>
                approval[c].status # "DRAFT" \/ approval'[c].status = "PENDING"
          BY <1>x, <2>2, <4>7 DEF Beyond, Submitting
        <5>3. InHand(c) \/ approval'[c].status = "PENDING" BY <4>2, <5>1, <5>2
        <5> QED BY <1>e, <2>2, <4>7, <5>3 DEF InHand, Beyond
      <4> QED BY <1>e, <4>3, <4>4, <4>5, <4>6, <4>7
    <3> QED BY <3>1, <3>2
  <2> QED BY <2>1, <2>2
<1> QED BY <1>1, <1>2, <1>3, <1>4, <1>5 DEF OutcomeInv

LEMMA SignOutcome ==
  ASSUME ChangeInv, OutcomeInv, NEW c \in Case, NEW u \in User,
         Approves(c, u) \/ Rejects(c, u) \/ Cancels(c, u)
  PROVE  OutcomeInv'
<1>t. TypeOK BY DEF ChangeInv
<1>e. /\ UNCHANGED <<request, value, handler, applied, lost>>
      /\ approval[c].status \in {"DRAFT", "PENDING"}
      /\ \A d \in Case \ {c} : approval'[d] = approval[d]
      /\ \/ approval[c].status = "PENDING"
            /\ (SignsOne(c, u) \/ SignsLast(c, u) \/ Declines(c, u))
         \/ Withdraws(c)
  BY <1>t, SignEffect DEF changeVars
<1>d. /\ decided \in [Case -> SUBSET Decision] /\ due \in [Case -> SUBSET Decision]
  BY <1>t DEF TypeOK
<1>x. /\ \A d \in Case \ {c} : decided'[d] = decided[d] /\ due'[d] = due[d]
      /\ \/ decided'[c] = decided[c] /\ due'[c] = due[c] /\ approval'[c].status = "PENDING"
         \/ \E decision \in Decision :
              /\ decided'[c] = decided[c] \union {decision}
              /\ due'[c] = due[c] \union {decision}
              /\ decision = "DECLINED" <=> approval'[c].status = "REJECTED"
  <2>1. CASE SignsOne(c, u) BY <2>1 DEF SignsOne
  <2>2. CASE SignsLast(c, u) BY <2>2, <1>d DEF SignsLast, Decide, Decision
  <2>3. CASE Declines(c, u) BY <2>3, <1>d DEF Declines, Decide, Decision
  <2>4. CASE Withdraws(c) BY <2>4, <1>d DEF Withdraws, Decide, Decision
  <2> QED BY <1>e, <2>1, <2>2, <2>3, <2>4
<1>h. \A h \in handler : h.case \in Case BY <1>t, HandlersTyped
<1>g. \A d \in Case : decided[d] \subseteq decided'[d] BY <1>x
<1>1. DecisionsStand'
  <2>1. "DECLINED" \notin decided[c] BY <1>e DEF OutcomeInv, DecisionsStand
  <2>2. "DECLINED" \in decided'[c] => approval'[c].status = "REJECTED" BY <1>x, <2>1
  <2>3. \A d \in Case : due'[d] \subseteq decided'[d]
    BY <1>x DEF OutcomeInv, DecisionsStand
  <2>4. \A h \in handler' : h.decision \in decided'[h.case]
    BY <1>e, <1>g, <1>h DEF OutcomeInv, DecisionsStand
  <2> QED BY <1>e, <1>x, <2>2, <2>3, <2>4 DEF OutcomeInv, DecisionsStand
<1>2. UndoHasReason' BY <1>e, <1>g DEF OutcomeInv, UndoHasReason
<1>3. HandlerKnows' BY <1>e DEF OutcomeInv, HandlerKnows
<1>4. OutcomeIsTrue' BY <1>e, <1>g DEF OutcomeInv, OutcomeIsTrue, FamilyOf, Status
<1>5. OpenIsInHand'
  <2> SUFFICES ASSUME NEW d \in Case, d \notin lost, Open(d)
               PROVE  \/ InHand(d)'
                      \/ request[d].at = "draft"
                      \/ request[d].at \in Submitting /\ approval'[d].status = "DRAFT"
    BY <1>e DEF OpenIsInHand, Open, Status
  <2>1. CASE d # c
    BY <1>e, <1>x, <2>1 DEF OutcomeInv, OpenIsInHand, InHand
  <2>2. CASE d = c BY <1>x, <2>2 DEF InHand
  <2> QED BY <2>1, <2>2
<1> QED BY <1>1, <1>2, <1>3, <1>4, <1>5 DEF OutcomeInv

LEMMA EventOutcome ==
  ASSUME ChangeInv, OutcomeInv, NEW c \in Case, NEW decision \in Decision,
         Deliver(c, decision) \/ DeliverFails(c, decision)
  PROVE  OutcomeInv'
<1> DEFINE new == [case |-> c, decision |-> decision,
                   at |-> IF decision = "APPROVED" THEN "read" ELSE "close"]
<1>e. /\ UNCHANGED <<approval, decided, request, value, applied>>
      /\ Emitted(c, decision)
      /\ \/ handler' = handler \union {new} /\ lost' = lost
         \/ handler' = handler /\ lost' = lost \union {c}
  BY DEF Deliver, DeliverFails
<1>d. due \in [Case -> SUBSET Decision] BY DEF ChangeInv, TypeOK
<1>x. /\ decision \in due[c] /\ \A d \in Case : due'[d] \subseteq due[d]
      /\ \A d \in Case \ {c} : due'[d] = due[d]
  BY <1>e, <1>d DEF Emitted
<1>n. /\ new.case = c /\ new.decision = decision /\ new.at \notin {"audit", "fail"}
  OBVIOUS
<1> HIDE DEF new
<1>1. DecisionsStand'
  <2>1. \A h \in handler' : h.decision \in decided'[h.case]
    BY <1>e, <1>n, <1>x DEF OutcomeInv, DecisionsStand
  <2> QED BY <1>e, <1>x, <2>1 DEF OutcomeInv, DecisionsStand
<1>2. UndoHasReason' BY <1>e DEF OutcomeInv, UndoHasReason
<1>3. HandlerKnows' BY <1>e, <1>n DEF OutcomeInv, HandlerKnows
<1>4. OutcomeIsTrue' BY <1>e DEF OutcomeInv, OutcomeIsTrue, FamilyOf, Status
<1>5. OpenIsInHand'
  <2>1. \A d \in Case \ lost' : InHand(d) => InHand(d)'
    BY <1>e, <1>n, <1>x DEF InHand
  <2> QED BY <1>e, <2>1 DEF OutcomeInv, OpenIsInHand, Open, Status
<1> QED BY <1>1, <1>2, <1>3, <1>4, <1>5 DEF OutcomeInv

\* How a handler goes on and ends, and what it writes into its row.
LEMMA HandlerEnds ==
  ASSUME TypeOK, NEW h \in handler, HandlerStep(h) \/ HandlerFails(h)
  PROVE  /\ lost' \in {lost, lost \union {h.case}}
         /\ \/ Done(h) /\ (\/ h.case \in lost' \/ h.at = "audit"
                           \/ request'[h.case].status # "PENDING_APPROVAL")
            \/ Then(h, "audit") /\ h.case \in applied'
            \/ Then(h, "fail") /\ ((h.at \in {"read", "apply"} /\ applied' = applied) \/ h.case \in lost')
            \/ Then(h, "apply") \/ Then(h, "closeWrite")
         /\ \/ request'[h.case].status = request[h.case].status
                 /\ (applied' = applied \/ h.case \in applied)
            \/ /\ request'[h.case].status \in {"APPROVED", "EXECUTED"}
               /\ applied' = applied \union {h.case}
            \/ /\ h.at = "fail" /\ applied' = applied
               /\ (request'[h.case].status = "FAILED" \/ FamilyOf(h.case) = "role")
            \/ /\ h.at = "closeWrite" /\ applied' = applied
               /\ request'[h.case].status \notin {"APPROVED", "EXECUTED"}
<1>c. h.case \in Case BY HandlersTyped
<1>s. \A status : SetStatus(h.case, status) => request'[h.case].status = status
  BY <1>c, RequestChange
<1>1. CASE ReadRequest(h)
  <2>1. \/ Done(h) /\ ~Open(h.case)
        \/ h.at = "read" /\ (Then(h, "fail") \/ Then(h, "apply"))
    BY <1>1, Zenon DEF ReadRequest
  <2>2. UNCHANGED <<request, applied, lost>> BY <1>1 DEF ReadRequest
  <2> QED BY <2>1, <2>2 DEF Open, Status
<1>2. CASE Apply(h)
  <2>1. h.at = "apply" /\ lost' = lost BY <1>2 DEF Apply
  <2>2. CASE WriteValue(h.case) /\ Then(h, "audit")
    <3>1. \E status \in {"EXECUTED", "APPROVED"} : SetStatus(h.case, status)
      BY <2>2 DEF WriteValue
    <3>2. applied' = applied \union {h.case} BY <2>2 DEF WriteValue
    <3> QED BY <1>s, <2>1, <2>2, <3>1, <3>2
  <2>3. CASE UNCHANGED <<request, applied>> /\ Then(h, "fail") BY <2>1, <2>3
  <2>4. CASE UNCHANGED <<request, applied>> /\ Done(h) /\ ~Open(h.case)
    BY <2>1, <2>4 DEF Open, Status
  <2>5. Status(h.case) = "DELETED" => ~Open(h.case) BY DEF Open
  <2> QED BY <1>2, <2>2, <2>3, <2>4, <2>5, Zenon DEF Apply
<1>3. CASE AuditApplied(h) BY <1>3 DEF AuditApplied
<1>4. CASE MarkFailed(h)
  <2>1. UNCHANGED <<applied, lost>> /\ Done(h) /\ h.at = "fail" BY <1>4 DEF MarkFailed
  <2>2. \/ FamilyOf(h.case) = "role" /\ SetStatus(h.case, "APPROVED")
        \/ SetStatus(h.case, "FAILED")
        \/ ~Open(h.case) /\ SetStatus(h.case, Status(h.case))
    BY <1>4, Zenon DEF MarkFailed
  <2> QED BY <1>s, <2>1, <2>2 DEF Open, Status
<1>5. CASE CloseRead(h)
  <2>1. (Done(h) /\ ~Open(h.case)) \/ Then(h, "closeWrite")
    BY <1>5, Zenon DEF CloseRead
  <2>2. UNCHANGED <<request, applied, lost>> BY <1>5 DEF CloseRead
  <2> QED BY <2>1, <2>2 DEF Open, Status
<1>6. CASE CloseWrite(h)
  <2>1. UNCHANGED <<applied, lost>> /\ Done(h) /\ h.at = "closeWrite"
    BY <1>6 DEF CloseWrite
  <2>2. \/ SetStatus(h.case, "DELETED") \/ SetStatus(h.case, "REJECTED")
        \/ SetStatus(h.case, "CANCELLED") \/ (UNCHANGED request /\ Status(h.case) = "DELETED")
    BY <1>6, Zenon DEF CloseWrite
  <2> QED BY <1>s, <2>1, <2>2 DEF Status
<1>7. CASE HandlerFails(h)
  <2>1. /\ UNCHANGED <<request, applied>> /\ lost' = lost \union {h.case}
    BY <1>7 DEF HandlerFails
  <2>2. Done(h) \/ Then(h, "fail") BY <1>7, Zenon DEF HandlerFails
  <2> QED BY <2>1, <2>2
<1> QED BY <1>1, <1>2, <1>3, <1>4, <1>5, <1>6, <1>7 DEF HandlerStep

LEMMA WorkOutcome ==
  ASSUME ChangeInv, OutcomeInv, NEW h \in handler, HandlerStep(h) \/ HandlerFails(h)
  PROVE  OutcomeInv'
<1>t. TypeOK BY DEF ChangeInv
<1>e. /\ UNCHANGED <<approval, decided, due>>
      /\ \A c \in Case : /\ request'[c].at = request[c].at
                         /\ request'[c].family = request[c].family
      /\ \A c \in Case \ {h.case} : request'[c] = request[c]
      /\ UNCHANGED applied \/ (h.at = "apply" /\ applied' = applied \union {h.case})
      /\ request'[h.case].status = "PENDING_APPROVAL" =>
           request[h.case].status = "PENDING_APPROVAL"
  BY <1>t, HandlerEffect DEF WriteValue
<1>x. /\ lost' \in {lost, lost \union {h.case}}
      /\ \/ Done(h) /\ (\/ h.case \in lost' \/ h.at = "audit"
                        \/ request'[h.case].status # "PENDING_APPROVAL")
         \/ Then(h, "audit") /\ h.case \in applied'
         \/ Then(h, "fail") /\ ((h.at \in {"read", "apply"} /\ applied' = applied) \/ h.case \in lost')
         \/ Then(h, "apply") \/ Then(h, "closeWrite")
  BY <1>t, HandlerEnds
<1>w. \/ request'[h.case].status = request[h.case].status
           /\ (applied' = applied \/ h.case \in applied)
      \/ /\ request'[h.case].status \in {"APPROVED", "EXECUTED"}
         /\ applied' = applied \union {h.case}
      \/ /\ h.at = "fail" /\ applied' = applied
         /\ (request'[h.case].status = "FAILED" \/ FamilyOf(h.case) = "role")
      \/ /\ h.at = "closeWrite" /\ applied' = applied
         /\ request'[h.case].status \notin {"APPROVED", "EXECUTED"}
  BY <1>t, HandlerEnds
<1>c. h \in Handler /\ h.case \in Case /\ applied \subseteq Case
  BY <1>t, HandlersTyped DEF TypeOK
<1>p. \A place : Then(h, place) =>
        \E g : /\ g.case = h.case /\ g.decision = h.decision /\ g.at = place
               /\ handler' = (handler \ {h}) \union {g}
  BY <1>c DEF Then, Handler
<1>r. \A g \in handler' : g \in handler \/ (g.case = h.case /\ g.decision = h.decision)
  BY <1>x, <1>p DEF Done
<1>1. DecisionsStand' BY <1>e, <1>r DEF OutcomeInv, DecisionsStand
<1>2. UndoHasReason' BY <1>e, <1>x DEF OutcomeInv, UndoHasReason
<1>q. OneApproval BY DEF ChangeInv
<1>3. HandlerKnows'
  <2> SUFFICES ASSUME NEW g \in handler'
               PROVE  /\ g.at = "audit" => g.case \in applied'
                      /\ g.at = "fail" /\ g.case \notin lost' => g.case \notin applied'
    BY DEF HandlerKnows
  <2>1. CASE g \in handler /\ g # h
    <3>1. g.at \in {"audit", "fail"} => g.decision = "APPROVED"
      BY <1>q, <2>1 DEF OneApproval
    <3>2. h.at = "apply" => h.decision = "APPROVED" BY <1>q DEF OneApproval
    <3>3. g.at \in {"audit", "fail"} /\ h.at = "apply" => g.case # h.case
      BY <1>q, <2>1, <3>1, <3>2 DEF OneApproval
    <3> QED BY <1>e, <1>x, <2>1, <3>3 DEF OutcomeInv, HandlerKnows
  <2>2. CASE g \notin handler \/ g = h
    <3>1. CASE Done(h) BY <2>2, <3>1 DEF Done
    <3>2. CASE Then(h, "audit") /\ h.case \in applied'
      BY <1>p, <2>2, <3>2
    <3>3. CASE Then(h, "fail") /\ ((h.at \in {"read", "apply"} /\ applied' = applied) \/ h.case \in lost')
      <4>1. g.case = h.case /\ g.at = "fail" BY <1>p, <2>2, <3>3
      <4> QED BY <1>q, <3>3, <4>1 DEF OneApproval
    <3>4. CASE Then(h, "apply") \/ Then(h, "closeWrite")
      BY <1>p, <2>2, <3>4
    <3> QED BY <1>x, <3>1, <3>2, <3>3, <3>4
  <2> QED BY <2>1, <2>2
<1>4. OutcomeIsTrue'
  <2> SUFFICES ASSUME NEW d \in Case, FamilyOf(d)' # "role", d \notin lost',
                      "CANCELLED" \notin decided'[d]
               PROVE  d \in applied' <=> Status(d)' \in {"APPROVED", "EXECUTED"}
    BY DEF OutcomeIsTrue
  <2>1. /\ d \in applied <=> request[d].status \in {"APPROVED", "EXECUTED"}
        /\ d \notin lost /\ "CANCELLED" \notin decided[d] /\ FamilyOf(d) # "role"
    BY <1>e, <1>x DEF OutcomeInv, OutcomeIsTrue, FamilyOf, Status
  <2>2. CASE d # h.case BY <1>e, <2>1, <2>2 DEF Status
  <2>3. CASE d = h.case
    <3>1. h.at = "fail" => d \notin applied
      BY <2>1, <2>3 DEF OutcomeInv, HandlerKnows
    <3>2. h.at = "closeWrite" => d \notin applied
      <4> SUFFICES ASSUME h.at = "closeWrite" PROVE d \notin applied OBVIOUS
      <4>1. h.decision # "APPROVED" BY <1>q DEF OneApproval
      <4>2. h.decision \in decided[d] BY <2>3 DEF OutcomeInv, DecisionsStand
      <4>3. h.decision = "DECLINED" BY <1>c, <2>1, <4>1, <4>2 DEF Handler, Decision
      <4>4. ~Granted(d) BY <4>2, <4>3, DeclinedIsClosed DEF OutcomeInv
      <4> QED BY <1>q, <4>4 DEF OneApproval
    <3>3. (d \in applied <=> Status(d) \in {"APPROVED", "EXECUTED"})
            /\ Status(d)' = request'[d].status /\ FamilyOf(d) # "role"
      BY <2>1 DEF Status
    <3>4. CASE /\ request'[d].status = request[d].status
               /\ (applied' = applied \/ h.case \in applied)
      <4>1. d \in applied' <=> d \in applied BY <1>e, <2>3, <3>4
      <4> QED BY <3>3, <3>4, <4>1 DEF Status
    <3>5. CASE /\ request'[d].status \in {"APPROVED", "EXECUTED"}
               /\ applied' = applied \union {h.case}
      BY <2>3, <3>3, <3>5
    <3>6. CASE h.at = "fail" /\ applied' = applied /\ request'[d].status = "FAILED"
      BY <3>1, <3>3, <3>6
    <3>7. CASE /\ h.at = "closeWrite" /\ applied' = applied
               /\ request'[d].status \notin {"APPROVED", "EXECUTED"}
      BY <3>2, <3>3, <3>7
    <3> QED BY <1>w, <2>3, <3>3, <3>4, <3>5, <3>6, <3>7
  <2> QED BY <2>2, <2>3
<1>5. OpenIsInHand'
  <2> SUFFICES ASSUME NEW d \in Case, d \notin lost', Open(d)'
               PROVE  \/ InHand(d)'
                      \/ request'[d].at = "draft"
                      \/ request'[d].at \in Submitting /\ approval'[d].status = "DRAFT"
    BY DEF OpenIsInHand
  <2>1. d \notin lost /\ Open(d) BY <1>e, <1>x DEF Open, Status
  <2>2. \/ InHand(d)
        \/ request[d].at = "draft"
        \/ request[d].at \in Submitting /\ approval[d].status = "DRAFT"
    BY <2>1 DEF OutcomeInv, OpenIsInHand
  <2>3. InHand(d) => InHand(d)'
    <3>1. CASE d # h.case
      <4>1. \A g \in handler : g.case = d => g \in handler'
        BY <1>x, <1>p, <3>1 DEF Done
      <4> QED BY <1>e, <4>1 DEF InHand
    <3>2. CASE d = h.case /\ \E place : Then(h, place)
      <4>1. \E g \in handler' : g.case = d BY <1>p, <3>2
      <4> QED BY <4>1 DEF InHand
    <3>3. CASE d = h.case /\ Done(h)
      <4>1. h.at # "audit"
        <5>1. d \notin applied BY <2>1 DEF ChangeInv, AppliedIsClosed
        <5> QED BY <3>3, <5>1 DEF OutcomeInv, HandlerKnows
      <4>2. ~(\E place : Then(h, place)) => FALSE
        BY <1>x, <2>1, <3>3, <4>1 DEF Open, Status
      <4> QED BY <3>2, <3>3, <4>2
    <3> QED BY <1>x, <3>1, <3>2, <3>3
  <2> QED BY <1>e, <2>2, <2>3
<1> QED BY <1>1, <1>2, <1>3, <1>4, <1>5 DEF OutcomeInv

LEMMA CrashOutcome ==
  ASSUME ChangeInv, OutcomeInv, Crash
  PROVE  OutcomeInv'
<1> DEFINE hit == {c \in Case : \/ request[c].at \in Calling \/ due[c] # {}
                                \/ \E h \in handler : h.case = c}
<1>e. /\ UNCHANGED <<approval, decided, value, applied>>
      /\ handler' = {} /\ due' = [c \in Case |-> {}] /\ lost' = lost \union hit
  BY DEF Crash
<1>r. \A c \in Case : /\ request'[c].status = request[c].status
                      /\ request'[c].family = request[c].family
                      /\ request'[c].at # request[c].at => request'[c].at = "dead"
  BY DEF Crash, ChangeInv, TypeOK, RequestRow
<1>1. DecisionsStand' BY <1>e DEF OutcomeInv, DecisionsStand
<1>2. UndoHasReason' BY <1>e, <1>r DEF OutcomeInv, UndoHasReason
<1>3. HandlerKnows' BY <1>e DEF HandlerKnows
<1>4. OutcomeIsTrue' BY <1>e, <1>r DEF OutcomeInv, OutcomeIsTrue, FamilyOf, Status
<1>5. OpenIsInHand'
  <2> SUFFICES ASSUME NEW c \in Case, c \notin lost', Open(c)'
               PROVE  approval[c].status = "PENDING"
    BY <1>e DEF OpenIsInHand, InHand
  <2>1. /\ Open(c) /\ c \notin lost /\ request[c].at \notin Calling /\ due[c] = {}
        /\ ~\E h \in handler : h.case = c
    BY <1>e, <1>r DEF Open, Status
  <2>2. {"draft"} \union Submitting \subseteq Calling
    BY DEF Submitting, Calling, InCreateAndSubmit
  <2> QED BY <2>1, <2>2 DEF OutcomeInv, OpenIsInHand, InHand
<1> QED BY <1>1, <1>2, <1>3, <1>4, <1>5 DEF OutcomeInv

LEMMA InitOutcome == Init => OutcomeInv
<1> SUFFICES ASSUME Init PROVE OutcomeInv OBVIOUS
<1>1. \A c \in Case : /\ request[c].at = "new" /\ request[c].status = "none"
                      /\ decided[c] = {} /\ due[c] = {}
  BY FamilyAssumption DEF Init, CaseInit
<1>2. handler = {} /\ applied = {} BY DEF Init
<1> QED BY <1>1, <1>2 DEF OutcomeInv, DecisionsStand, UndoHasReason, HandlerKnows,
     OutcomeIsTrue, OpenIsInHand, Open, Status

LEMMA StepOutcome == ChangeInv /\ OutcomeInv /\ [Next]_vars => OutcomeInv'
<1> SUFFICES ASSUME ChangeInv, OutcomeInv, [Next]_vars PROVE OutcomeInv' OBVIOUS
<1>1. CASE UNCHANGED vars
  BY <1>1 DEF vars, OutcomeInv, DecisionsStand, UndoHasReason, HandlerKnows,
     OutcomeIsTrue, OpenIsInHand, InHand, Open, Status, FamilyOf
<1>2. CASE Next
  BY <1>2, CallOutcome, SignOutcome, EventOutcome, WorkOutcome, CrashOutcome DEF Next
<1> QED BY <1>1, <1>2

\* What the rows say of themselves is kept true by every step: the part of the
\* inductive invariant about the outcome of a request.
THEOREM OutcomeInvariant == Spec => []OutcomeInv
<1>1. Init => OutcomeInv BY InitOutcome
<1>2. ChangeInv /\ OutcomeInv /\ [Next]_vars => OutcomeInv' BY StepOutcome
<1> QED BY <1>1, <1>2, ChangeInvariant, PTL DEF Spec

\* The status of a request tells whether its proposal was written, at every await
\* of its call and of its handlers, until a fault hits it.
THEOREM OutcomeIsTold == Spec => []OutcomeIsTrue
<1>1. OutcomeInv => OutcomeIsTrue BY DEF OutcomeInv
<1> QED BY <1>1, OutcomeInvariant, PTL

\* A pending request, which blocks its target for every later one, is always in
\* somebody's hands unless a fault has hit it: in particular the catch block of
\* the policy workflow, which leaves the row open, runs only beside a handler that
\* closes it.
THEOREM RequestsAreInHand == Spec => []NothingForgotten
<1>1. OutcomeInv => NothingForgotten
  <2>1. {"draft"} \union Submitting \subseteq Calling
    BY DEF Submitting, Calling, InCreateAndSubmit
  <2> QED BY <2>1 DEF OutcomeInv, OpenIsInHand, InHand, NothingForgotten
<1> QED BY <1>1, OutcomeInvariant, PTL

-----------------------------------------------------------------------------
\* ConfigChange implements ChangeControl.

\* The refinement mapping.
Proposal == [c \in Case |-> [family |-> FamilyOf(c), to |-> Wanted[c]]]
GrantedCases == {c \in Case : "APPROVED" \in decided[c]}

LEMMA FamiliesStay ==
  ASSUME ChangeInv, [Next]_vars
  PROVE  Proposal' = Proposal
<1>t. TypeOK BY DEF ChangeInv
<1> SUFFICES \A c \in Case : request'[c].family = request[c].family
  BY DEF Proposal, FamilyOf
<1>1. ASSUME NEW d \in Case, Ask(d) \/ CallStep(d) \/ CreateFails(d)
      PROVE  \A c \in Case : request'[c].family = request[c].family
  BY <1>t, <1>1, CallEffect
<1>2. ASSUME UNCHANGED request
      PROVE  \A c \in Case : request'[c].family = request[c].family
  BY <1>2
<1>3. ASSUME NEW h \in handler, HandlerStep(h) \/ HandlerFails(h)
      PROVE  \A c \in Case : request'[c].family = request[c].family
  BY <1>t, <1>3, HandlerEffect
<1>4. ASSUME Crash PROVE \A c \in Case : request'[c].family = request[c].family
  BY <1>t, <1>4 DEF Crash, TypeOK, RequestRow
<1>5. ASSUME NEW d \in Case,
             \/ \E u \in User : Approves(d, u) \/ Rejects(d, u) \/ Cancels(d, u)
             \/ \E decision \in Decision : Deliver(d, decision) \/ DeliverFails(d, decision)
      PROVE  UNCHANGED request
  BY <1>5 DEF Approves, Rejects, Cancels, changeVars, Deliver, DeliverFails
<1> QED BY <1>1, <1>2, <1>3, <1>4, <1>5 DEF Next, vars

LEMMA StepRefines ==
  ASSUME ChangeInv, [Next]_vars
  PROVE  [Control!Next]_(Control!vars)
<1>t. TypeOK BY DEF ChangeInv
<1>p. Proposal' = Proposal BY FamiliesStay
<1> SUFFICES \/ UNCHANGED <<value, Proposal, GrantedCases, applied>>
             \/ \E c \in Case : Control!Grant(c) \/ Control!Apply(c)
  BY DEF Control!Next, Control!vars, Proposal, GrantedCases
<1>1. ASSUME NEW c \in Case, Ask(c) \/ CallStep(c) \/ CreateFails(c)
      PROVE  UNCHANGED <<value, GrantedCases, applied>>
  BY <1>t, <1>1, CallEffect DEF GrantedCases
<1>2. ASSUME NEW c \in Case, NEW u \in User,
             Approves(c, u) \/ Rejects(c, u) \/ Cancels(c, u)
      PROVE  \/ UNCHANGED <<value, GrantedCases, applied>>
             \/ Control!Grant(c)
  <2>1. UNCHANGED <<value, applied>>
        /\ (\/ UNCHANGED decided \/ \E decision \in Decision : Decide(c, decision))
    BY <1>t, <1>2, SignEffect
       DEF changeVars, SignsOne, SignsLast, Declines, Withdraws, Decision
  <2>2. decided \in [Case -> SUBSET Decision] BY <1>t DEF TypeOK
  <2>3. CASE UNCHANGED decided BY <2>1, <2>3 DEF GrantedCases
  <2>4. ASSUME NEW decision \in Decision, Decide(c, decision)
        PROVE  GrantedCases' = GrantedCases \/ GrantedCases' = GrantedCases \union {c}
    BY <2>2, <2>4 DEF Decide, GrantedCases
  <2>5. GrantedCases' = GrantedCases \union {c} => Control!Grant(c)
    BY <1>p, <2>1 DEF Control!Grant, GrantedCases, Proposal
  <2> QED BY <2>1, <2>3, <2>4, <2>5
<1>3. ASSUME NEW h \in handler, HandlerStep(h) \/ HandlerFails(h)
      PROVE  \/ UNCHANGED <<value, GrantedCases, applied>>
             \/ Control!Apply(h.case)
  <2>1. UNCHANGED decided /\ (UNCHANGED <<value, applied>> \/
          (h.at = "apply" /\ WriteValue(h.case)))
    BY <1>t, <1>3, HandlerEffect
  <2>2. GrantedCases' = GrantedCases BY <2>1 DEF GrantedCases
  <2>3. CASE h.at = "apply" /\ WriteValue(h.case)
    <3>1. h.case \in Case BY <1>t, HandlersTyped
    <3>2. h.case \in GrantedCases \ applied
      BY <2>3, <3>1 DEF ChangeInv, OneApproval, Granted, GrantedCases
    <3>3. DOMAIN value = ChangeFamily BY <1>t DEF TypeOK
    <3>4. Proposal[h.case] = [family |-> FamilyOf(h.case), to |-> Wanted[h.case]]
      BY <3>1 DEF Proposal
    <3> QED BY <1>p, <2>2, <2>3, <3>2, <3>3, <3>4
         DEF Control!Apply, WriteValue, GrantedCases, Proposal
  <2> QED BY <2>1, <2>2, <2>3
<1>4. ASSUME NEW c \in Case, NEW decision \in Decision,
             Deliver(c, decision) \/ DeliverFails(c, decision)
      PROVE  UNCHANGED <<value, GrantedCases, applied>>
  BY <1>4 DEF Deliver, DeliverFails, GrantedCases
<1>5. ASSUME Crash \/ UNCHANGED vars
      PROVE  UNCHANGED <<value, GrantedCases, applied>>
  BY <1>5 DEF Crash, vars, GrantedCases
<1>6. \A h \in handler : h.case \in Case BY <1>t, HandlersTyped
<1> QED BY <1>p, <1>1, <1>2, <1>3, <1>4, <1>5, <1>6 DEF Next

\* A configuration changes only by a granted proposal, to the value it proposed,
\* and once: ConfigChange implements ChangeControl.
THEOREM ControlImplemented == Spec => ImplementsControl
<1>1. Init => Control!Init
  <2> SUFFICES ASSUME Init PROVE Control!Init OBVIOUS
  <2>1. ChangeInv BY InitKeeps
  <2>2. TypeOK BY <2>1 DEF ChangeInv
  <2>3. value \in [DOMAIN value -> Value] BY <2>2 DEF TypeOK
  <2>4. \A c \in Case : FamilyOf(c) \in Family BY <2>2, RowsTyped
  <2>5. {c \in Case : "APPROVED" \in decided[c]} = {} /\ applied = {}
    BY DEF Init, CaseInit
  <2> QED BY <2>3, <2>4, <2>5, ValueAssumption DEF Control!Init
<1>2. ChangeInv /\ [Next]_vars => [Control!Next]_(Control!vars) BY StepRefines
<1> QED BY <1>1, <1>2, ChangeInvariant, PTL DEF Spec, ImplementsControl, Control!Spec
=============================================================================
