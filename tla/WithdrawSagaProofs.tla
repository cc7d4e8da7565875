------------------------- MODULE WithdrawSagaProofs -------------------------
(***************************************************************************)
(* Safety of a withdrawal for any number of handlers in flight, any use of *)
(* the admin endpoint and any number of exceptions and crashes.            *)
(***************************************************************************)
EXTENDS WithdrawInvariant, TLAPS

-----------------------------------------------------------------------------
(* Type correctness.                                                       *)

Handler == [at : At, with : Carried]

\* A started task replaces at most one task by a well-typed one.
LEMMA StartedType ==
  ASSUME NEW tasks \in [Task -> Handler], NEW at \in At, NEW with \in Carried
  PROVE  Started(tasks, at, with) \in [Task -> Handler]
<1> DEFINE first == CHOOSE t \in Free : TRUE
           new == [at |-> at, with |-> with]
<1>1. new \in Handler
  BY DEF Handler
<1> HIDE DEF first, new
<1>2. [tasks EXCEPT ![first] = new] \in [Task -> Handler]
  BY <1>1
<1> QED
  BY <1>2 DEF Started, first, new

LEMMA TypeInit == Init => TypeOK
<1> SUFFICES ASSUME Init PROVE TypeOK
  OBVIOUS
<1>1. feeFunds \in Seq({"CREATED", "CLEAR", "CANCELLED"})
  BY DEF Init
<1>2. transfer \in [Leg -> TransferState] /\ evidence \in [Leg -> EvidenceRow]
  BY DEF Init, Leg, TransferState, EvidenceRow, NoRow
<1>3. task \in [Task -> [at : At, with : Carried]]
  <2>1. Idle \in Handler /\ [at |-> "created", with |-> "-"] \in Handler
    BY DEF Idle, At, Carried, Handler
  <2> DEFINE first == CHOOSE t \in Task : TRUE
  <2>2. task = [t \in Task |-> IF t = first THEN [at |-> "created", with |-> "-"] ELSE Idle]
    BY DEF Init
  <2> HIDE DEF first
  <2> QED
    BY <2>1, <2>2 DEF Handler
<1>4. faults \in 0..MaxFaults
  BY MaxFaultsAssumption DEF Init
<1> QED
  BY <1>1, <1>2, <1>3, <1>4
  DEF Init, TypeOK, WithdrawStatus, Verdict, Decision, PayoutStatus

\* The ways a step leaves the tasks.
LEMMA GotoType ==
  ASSUME TypeOK, NEW t \in Task, NEW at \in At, Goto(t, at)
  PROVE  task' \in [Task -> Handler]
BY DEF TypeOK, Goto, Handler

LEMMA ReturnType ==
  ASSUME TypeOK, NEW t \in Task, Return(t)
  PROVE  task' \in [Task -> Handler]
BY DEF TypeOK, Return, Handler, Idle, At, Carried

LEMMA StartType ==
  ASSUME TypeOK, NEW at \in At, NEW with \in Carried, Start(at, with)
  PROVE  task' \in [Task -> Handler]
BY StartedType DEF TypeOK, Start, Handler

LEMMA EmitType ==
  ASSUME TypeOK, NEW t \in Task, NEW event \in At, NEW at \in At,
         EmitAndGoto(t, event, at)
  PROVE  task' \in [Task -> Handler]
<1>1. [task EXCEPT ![t].at = at] \in [Task -> Handler]
  BY DEF TypeOK, Handler
<1>2. "-" \in Carried
  BY DEF Carried
<1> QED
  BY <1>1, <1>2, StartedType DEF EmitAndGoto

LEMMA UpdateOrThrowType ==
  ASSUME TypeOK, NEW t \in Task, NEW action, NEW at \in At,
         UpdateOrThrow(t, action, at)
  PROVE  TypeOK'
<1>1. task' \in [Task -> Handler]
  BY GotoType, ReturnType DEF UpdateOrThrow
<1>2. status' \in WithdrawStatus
  BY DEF UpdateOrThrow, UpdateStatus, TypeOK
<1> QED
  BY <1>1, <1>2 DEF UpdateOrThrow, TypeOK, fixed, screen, books, Handler

LEMMA TypeGate == ASSUME TypeOK, NEW t \in Task, GateStep(t) PROVE TypeOK'
<1> USE DEF TypeOK, fixed, row, screen, books, Handler
<1>1. CASE Created(t)
  BY <1>1, GotoType, ReturnType DEF Created, At
<1>2. CASE Valuate(t)
  BY <1>2, GotoType DEF Valuate, At
<1>3. CASE Check(t)
  BY <1>3, UpdateOrThrowType DEF Check, At
<1>4. CASE OpenCase(t)
  BY <1>4, GotoType DEF OpenCase, At
<1>5. CASE RequireApproval(t)
  BY <1>5, UpdateOrThrowType DEF RequireApproval, At
<1>6. CASE Decided(t)
  BY <1>6, GotoType, ReturnType DEF Decided, At
<1>7. CASE Grant(t)
  BY <1>7, UpdateOrThrowType DEF Grant, At
<1>8. CASE Decline(t)
  BY <1>8, UpdateOrThrowType DEF Decline, At
<1> QED
  BY <1>1, <1>2, <1>3, <1>4, <1>5, <1>6, <1>7, <1>8 DEF GateStep

LEMMA TypePayoutPhase ==
  ASSUME TypeOK, NEW t \in Task, PayoutPhaseStep(t) PROVE TypeOK'
<1> USE DEF TypeOK, fixed, row, screen, books, Handler
<1>1. CASE ScreenKyt(t)
  <2>1. task' \in [Task -> Handler]
    BY <1>1, EmitType DEF ScreenKyt, At
  <2> QED
    BY <1>1, <2>1 DEF ScreenKyt
<1>2. CASE ScreenTravelRule(t)
  <2>1. task' \in [Task -> Handler]
    BY <1>2, EmitType DEF ScreenTravelRule, At
  <2> QED
    BY <1>2, <2>1 DEF ScreenTravelRule
<1>3. CASE CheckPass(t)
  BY <1>3, GotoType, ReturnType DEF CheckPass, At
<1>4. CASE Approve(t)
  BY <1>4, UpdateOrThrowType DEF Approve, At
<1>5. CASE CreatePayout(t)
  BY <1>5, GotoType DEF CreatePayout, At, PayoutStatus
<1>6. CASE LinkPayout(t)
  BY <1>6, GotoType, ReturnType DEF LinkPayout, At
<1>7. CASE CreateFeeFund(t)
  BY <1>7, ReturnType DEF CreateFeeFund
<1> QED
  BY <1>1, <1>2, <1>3, <1>4, <1>5, <1>6, <1>7 DEF PayoutPhaseStep

\* The ledger and evidence steps, for whichever leg.
LEMMA PostType ==
  ASSUME TypeOK, NEW t \in Task, NEW leg \in Leg, NEW at \in At, Post(t, leg, at)
  PROVE  TypeOK'
<1>1. task' \in [Task -> Handler]
  BY GotoType, ReturnType DEF Post
<1>2. transfer' \in [Leg -> TransferState]
  BY DEF Post, TypeOK, TransferState
<1> QED
  BY <1>1, <1>2 DEF Post, TypeOK, fixed, row, screen, Handler

LEMMA BookType ==
  ASSUME TypeOK, NEW t \in Task, NEW leg \in Leg, NEW at \in At,
         Mark(t, leg, at) \/ Enrich(t, leg, at)
  PROVE  TypeOK'
<1>1. task' \in [Task -> Handler]
  BY GotoType DEF Mark, Enrich
<1>2. evidence' \in [Leg -> EvidenceRow]
  <2>1. evidence[leg] \in EvidenceRow
    BY DEF TypeOK
  <2>2. [evidence[leg] EXCEPT !.type = "POSTED"] \in EvidenceRow
    BY <2>1 DEF EvidenceRow
  <2>3. [evidence[leg] EXCEPT !.code = "POST"] \in EvidenceRow
    BY <2>1 DEF EvidenceRow
  <2> QED
    BY <2>2, <2>3 DEF Mark, Enrich, TypeOK
<1> QED
  BY <1>1, <1>2 DEF Mark, Enrich, TypeOK, fixed, row, screen, Handler

LEMMA SetFeeFundType ==
  ASSUME TypeOK, NEW s \in {"CREATED", "CLEAR", "CANCELLED"}, SetFeeFundStatus(s)
  PROVE  feeFunds' \in Seq({"CREATED", "CLEAR", "CANCELLED"})
BY DEF TypeOK, SetFeeFundStatus

LEMMA TypeFinalize ==
  ASSUME TypeOK, NEW t \in Task, FinalizeStep(t) PROVE TypeOK'
<1> USE DEF TypeOK, fixed, row, screen, books, Handler
<1>0. "NET" \in Leg /\ "FEE" \in Leg /\ "FIRM" \in Leg
  BY DEF Leg
<1>1. CASE Finalize(t)
  <2>1. [at |-> "postNet", with |-> IF linked THEN "LINKED" ELSE "UNLINKED"] \in Handler
    BY DEF At, Carried
  <2> QED
    BY <1>1, <2>1, ReturnType DEF Finalize
<1>2. CASE PostNet(t)
  BY <1>0, <1>2, PostType DEF PostNet, At
<1>3. CASE MarkNet(t)
  BY <1>0, <1>3, BookType DEF MarkNet, At
<1>4. CASE EnrichNet(t)
  BY <1>0, <1>4, BookType DEF EnrichNet, At
<1>5. CASE PostFee(t)
  BY <1>0, <1>5, PostType DEF PostFee, At
<1>6. CASE MarkFee(t)
  BY <1>0, <1>6, BookType DEF MarkFee, At
<1>7. CASE EnrichFee(t)
  BY <1>0, <1>7, BookType DEF EnrichFee, At
<1>8. CASE FirmTransfer(t)
  <2>1. task' \in [Task -> Handler]
    BY <1>8, GotoType DEF FirmTransfer, At
  <2>2. transfer' \in [Leg -> TransferState]
    BY <1>8 DEF FirmTransfer, TransferState
  <2> QED
    BY <1>8, <2>1, <2>2 DEF FirmTransfer
<1>9. CASE FirmEvidence(t)
  <2>1. task' \in [Task -> Handler]
    BY <1>9, GotoType DEF FirmEvidence, At
  <2>2. evidence' \in [Leg -> EvidenceRow]
    BY <1>9 DEF FirmEvidence, EvidenceRow
  <2> QED
    BY <1>9, <2>1, <2>2 DEF FirmEvidence
<1>10. CASE ClearFund(t)
  BY <1>10, GotoType, SetFeeFundType DEF ClearFund, At
<1>11. CASE AssertSettled(t)
  BY <1>11, GotoType, ReturnType DEF AssertSettled, At
<1>12. CASE MarkSuccess(t)
  BY <1>12, UpdateOrThrowType DEF MarkSuccess, At
<1>13. CASE ClearPayout(t)
  BY <1>13, ReturnType DEF ClearPayout, PayoutStatus
<1> QED
  BY <1>1, <1>2, <1>3, <1>4, <1>5, <1>6, <1>7, <1>8, <1>9, <1>10, <1>11,
     <1>12, <1>13 DEF FinalizeStep

LEMMA VoidType ==
  ASSUME TypeOK, NEW t \in Task, NEW leg \in Leg, NEW at \in At, Void(t, leg, at)
  PROVE  TypeOK'
<1>1. task' \in [Task -> Handler]
  BY GotoType DEF Void
<1>2. transfer' \in [Leg -> TransferState]
  BY DEF Void, TypeOK, TransferState
<1>3. faults' \in 0..MaxFaults
  BY MaxFaultsAssumption DEF Void, TypeOK
<1> QED
  BY <1>1, <1>2, <1>3 DEF Void, TypeOK, fixed, row, screen, Handler

LEMMA TypeCompensation ==
  ASSUME TypeOK, NEW t \in Task, CompensationStep(t) PROVE TypeOK'
<1> USE DEF TypeOK, fixed, row, screen, books, Handler
<1>0. "NET" \in Leg /\ "FEE" \in Leg
  BY DEF Leg
<1>1. CASE Compensate(t)
  BY <1>1, GotoType DEF Compensate, At
<1>2. CASE CompStatus(t)
  BY <1>2, UpdateOrThrowType DEF CompStatus, At
<1>3. CASE VoidNet(t)
  BY <1>0, <1>3, VoidType DEF VoidNet, At
<1>4. CASE VoidFee(t)
  BY <1>0, <1>4, VoidType DEF VoidFee, At
<1>5. CASE CancelFund(t)
  BY <1>5, ReturnType, SetFeeFundType DEF CancelFund
<1> QED
  BY <1>1, <1>2, <1>3, <1>4, <1>5 DEF CompensationStep

LEMMA TypeExternal == ASSUME TypeOK, External PROVE TypeOK'
<1> USE DEF TypeOK, fixed, row, screen, books, Handler
<1>1. ASSUME NEW v \in Verdict, KytResult(v) \/ TravelRuleResult(v) PROVE TypeOK'
  BY <1>1, StartType DEF KytResult, TravelRuleResult, At, Carried
<1>2. ASSUME NEW d \in Decision, Decide(d) PROVE TypeOK'
  <2>1. task' \in [Task -> Handler]
    BY <1>2, StartType DEF Decide, At, Carried
  <2> QED
    BY <1>2, <2>1 DEF Decide
<1>3. ASSUME NEW a \in PayoutAction, PayoutUpdate(a) PROVE TypeOK'
  <2>1. task' \in [Task -> Handler]
    BY <1>3, StartType DEF PayoutUpdate, At, Carried
  <2> QED
    BY <1>3, <2>1 DEF PayoutUpdate
<1>4. ASSUME NEW a \in AdminActions, AdminUpdate(a) PROVE TypeOK'
  BY <1>4 DEF AdminUpdate, UpdateStatus
<1>5. CASE ReCloseout
  BY <1>5, StartType DEF ReCloseout, At, Carried
<1>6. CASE ReCompensate
  BY <1>6, StartType DEF ReCompensate, At, Carried
<1> QED
  BY <1>1, <1>2, <1>3, <1>4, <1>5, <1>6 DEF External

LEMMA TypeFault == ASSUME TypeOK, Fault PROVE TypeOK'
<1> USE DEF TypeOK, fixed, row, screen, books, Handler
<1>1. CASE Crash
  BY <1>1, MaxFaultsAssumption DEF Crash, Idle, At, Carried
<1>2. ASSUME NEW t \in Task, Throw(t) PROVE TypeOK'
  BY <1>2, ReturnType, MaxFaultsAssumption DEF Throw
<1> QED
  BY <1>1, <1>2 DEF Fault

LEMMA TypeStutter == ASSUME TypeOK, UNCHANGED vars PROVE TypeOK'
BY DEF TypeOK, vars, fixed, row, screen, books

LEMMA TypeStep == ASSUME TypeOK, [Next]_vars PROVE TypeOK'
BY TypeGate, TypePayoutPhase, TypeFinalize, TypeCompensation, TypeExternal,
   TypeFault, TypeStutter DEF Next, Step

\* Every reachable state of a withdrawal is well typed, for any set of tasks,
\* any use of the admin endpoint and any number of faults.
THEOREM TypeCorrect == Spec => []TypeOK
BY TypeInit, TypeStep, PTL DEF Spec

-----------------------------------------------------------------------------
(***************************************************************************)
(* What each kind of step of a withdrawal can and cannot disturb: the      *)
(* places where it leaves handlers, and the variables it leaves alone.     *)
(***************************************************************************)

\* Every handler stays as it is or ends up at one of these places.
Arrives(places) ==
  \A u \in Task : task'[u] = task[u] \/ task'[u].at \in places

\* The handler that an event starts was idle, and is not the one that emits.
LEMMA StartPicks ==
  ASSUME TypeOK, NEW at, NEW with, Start(at, with)
  PROVE  \E f \in Task : /\ task[f].at = "idle"
                         /\ task' = [task EXCEPT ![f] = [at |-> at, with |-> with]]
<1> DEFINE f == CHOOSE t \in Free : TRUE
<1>1. f \in Free
  BY DEF Start
<1>2. task' = [task EXCEPT ![f] = [at |-> at, with |-> with]]
  BY DEF Start, Started
<1> QED
  BY <1>1, <1>2 DEF Free

LEMMA EmitPicks ==
  ASSUME TypeOK, NEW t \in Task, task[t].at # "idle", NEW event, NEW at,
         EmitAndGoto(t, event, at)
  PROVE  \E f \in Task :
           /\ f # t /\ task[f].at = "idle"
           /\ task' = [[task EXCEPT ![t].at = at]
                         EXCEPT ![f] = [at |-> event, with |-> "-"]]
<1> DEFINE f == CHOOSE u \in Free : TRUE
<1>1. f \in Free
  BY DEF EmitAndGoto
<1>2. task' = [[task EXCEPT ![t].at = at] EXCEPT ![f] = [at |-> event, with |-> "-"]]
  BY DEF EmitAndGoto, Started
<1> QED
  BY <1>1, <1>2 DEF Free

LEMMA GotoArrives ==
  ASSUME TypeOK, NEW t \in Task, NEW at, Goto(t, at)
  PROVE  Arrives({at})
BY DEF TypeOK, Goto, Arrives

LEMMA ReturnArrives ==
  ASSUME TypeOK, NEW t \in Task, Return(t)
  PROVE  Arrives({"idle"})
BY DEF TypeOK, Return, Arrives, Idle

LEMMA ArrivesMore ==
  ASSUME NEW some, NEW more, some \subseteq more, Arrives(some)
  PROVE  Arrives(more)
BY DEF Arrives

LEMMA GotoWithin ==
  ASSUME TypeOK, NEW t \in Task, NEW places, NEW at \in places, Goto(t, at)
  PROVE  Arrives(places)
<1>1. Arrives({at}) /\ {at} \subseteq places
  BY GotoArrives
<1> QED
  BY <1>1 DEF Arrives

LEMMA ReturnWithin ==
  ASSUME TypeOK, NEW t \in Task, NEW places, "idle" \in places, Return(t)
  PROVE  Arrives(places)
BY ReturnArrives, ArrivesMore

LEMMA StartArrives ==
  ASSUME TypeOK, NEW at, NEW with, Start(at, with)
  PROVE  Arrives({at})
BY StartPicks DEF TypeOK, Arrives

LEMMA EmitArrives ==
  ASSUME TypeOK, NEW t \in Task, task[t].at # "idle", NEW event, NEW at,
         EmitAndGoto(t, event, at)
  PROVE  Arrives({event, at})
<1>1. PICK f \in Task :
           /\ f # t /\ task[f].at = "idle"
           /\ task' = [[task EXCEPT ![t].at = at]
                         EXCEPT ![f] = [at |-> event, with |-> "-"]]
  BY EmitPicks
<1> QED
  BY <1>1 DEF TypeOK, Arrives

LEMMA UpdateOrThrowArrives ==
  ASSUME TypeOK, NEW t \in Task, NEW action, NEW at, UpdateOrThrow(t, action, at)
  PROVE  /\ Arrives({"idle", at})
         /\ \/ UNCHANGED status
            \/ <<status, action, status'>> \in WithdrawTransitions
         /\ UNCHANGED <<hasFee, approval, payout, transfer, evidence, valuation>>
<1>1. Arrives({"idle", at})
  BY GotoArrives, ReturnArrives DEF UpdateOrThrow, Arrives
<1> QED
  BY <1>1 DEF UpdateOrThrow, UpdateStatus, fixed, books

\* One fact per group of steps.
LEMMA PayoutPhaseFrame ==
  ASSUME TypeOK, NEW t \in Task, PayoutPhaseStep(t)
  PROVE  /\ Arrives({"idle", "checkPass", "screenTravelRule", "approve",
                     "createPayout", "linkPayout", "createFeeFund"})
         /\ \/ UNCHANGED status
            \/ <<status, "APPROVE", status'>> \in WithdrawTransitions
         /\ \/ UNCHANGED payout
            \/ task[t].at = "createPayout" /\ payout = "NONE" /\ payout' = "CREATED"
         /\ UNCHANGED <<hasFee, approval, transfer, evidence, valuation>>
<1> USE DEF fixed, row, screen, books
<1>1. CASE ScreenKyt(t)
  <2>1. Arrives({"checkPass", "screenTravelRule"})
    BY <1>1, EmitArrives DEF ScreenKyt
  <2> QED
    BY <1>1, <2>1 DEF ScreenKyt, Arrives
<1>2. CASE ScreenTravelRule(t)
  <2>1. Arrives({"checkPass"})
    BY <1>2, EmitArrives DEF ScreenTravelRule, Arrives
  <2> QED
    BY <1>2, <2>1 DEF ScreenTravelRule, Arrives
<1>3. CASE CheckPass(t)
  BY <1>3, GotoArrives, ReturnArrives DEF CheckPass, Arrives
<1>4. CASE Approve(t)
  BY <1>4, UpdateOrThrowArrives DEF Approve, Arrives
<1>5. CASE CreatePayout(t)
  BY <1>5, GotoArrives DEF CreatePayout, Arrives
<1>6. CASE LinkPayout(t)
  BY <1>6, GotoArrives, ReturnArrives DEF LinkPayout, Arrives
<1>7. CASE CreateFeeFund(t)
  BY <1>7, ReturnArrives DEF CreateFeeFund, Arrives
<1> QED
  BY <1>1, <1>2, <1>3, <1>4, <1>5, <1>6, <1>7 DEF PayoutPhaseStep

LEMMA GateFrame ==
  ASSUME TypeOK, NEW t \in Task, GateStep(t)
  PROVE  /\ Arrives({"idle", "valuate", "openCase", "check", "requireApproval",
                     "grant", "decline", "screenKyt", "voidNet"})
         /\ UNCHANGED <<hasFee, payout, transfer, evidence>>
         /\ \/ UNCHANGED status
            \/ \E a \in {"CHECK", "REQUIRE_APPROVAL", "GATE_APPROVE", "REJECT"} :
                 <<status, a, status'>> \in WithdrawTransitions
<1> USE DEF fixed, row, screen, books
<1>1. CASE Created(t)
  BY <1>1, GotoArrives, ReturnArrives DEF Created, Arrives
<1>2. CASE Valuate(t)
  BY <1>2, GotoArrives DEF Valuate, Arrives
<1>3. CASE Check(t)
  BY <1>3, UpdateOrThrowArrives DEF Check, Arrives
<1>4. CASE OpenCase(t)
  BY <1>4, GotoArrives DEF OpenCase, Arrives
<1>5. CASE RequireApproval(t)
  BY <1>5, UpdateOrThrowArrives DEF RequireApproval, Arrives
<1>6. CASE Decided(t)
  BY <1>6, GotoArrives, ReturnArrives DEF Decided, Arrives
<1>7. CASE Grant(t)
  BY <1>7, UpdateOrThrowArrives DEF Grant, Arrives
<1>8. CASE Decline(t)
  BY <1>8, UpdateOrThrowArrives DEF Decline, Arrives
<1> QED
  BY <1>1, <1>2, <1>3, <1>4, <1>5, <1>6, <1>7, <1>8 DEF GateStep

LEMMA FinalizeFrame ==
  ASSUME TypeOK, NEW t \in Task, FinalizeStep(t)
  PROVE  /\ task[t].at \in Finalizing
         /\ Arrives(Finalizing \union {"idle"})
         /\ \/ UNCHANGED status
            \/ /\ task[t].at = "markSuccess"
               /\ <<status, "SUCCESS", status'>> \in WithdrawTransitions
         /\ \/ UNCHANGED payout
            \/ payout = "CONFIRMED" /\ payout' = "CLEARED"
         /\ \A leg \in Leg :
              transfer'[leg] = transfer[leg] \/ transfer'[leg] = "posted"
         /\ UNCHANGED <<hasFee, approval, valuation>>
<1> USE DEF fixed, row, screen, books, Finalizing
<1>1. CASE Finalize(t)
  <2>1. Arrives({"postNet", "idle"})
    BY <1>1, ReturnArrives DEF Finalize, Arrives, TypeOK
  <2> QED
    BY <1>1, <2>1, ArrivesMore DEF Finalize
<1>2. CASE PostNet(t)
  <2>1. \A leg \in Leg : transfer'[leg] = transfer[leg] \/ transfer'[leg] = "posted"
    BY <1>2 DEF PostNet, Post, TypeOK
  <2> QED
    BY <1>2, <2>1, GotoWithin, ReturnWithin DEF PostNet, Post
<1>3. CASE MarkNet(t)
  BY <1>3, GotoWithin DEF MarkNet, Mark
<1>4. CASE EnrichNet(t)
  BY <1>4, GotoWithin DEF EnrichNet, Enrich
<1>5. CASE PostFee(t)
  <2>1. \A leg \in Leg : transfer'[leg] = transfer[leg] \/ transfer'[leg] = "posted"
    BY <1>5 DEF PostFee, Post, TypeOK
  <2> QED
    BY <1>5, <2>1, GotoWithin, ReturnWithin DEF PostFee, Post
<1>6. CASE MarkFee(t)
  BY <1>6, GotoWithin DEF MarkFee, Mark
<1>7. CASE EnrichFee(t)
  BY <1>7, GotoWithin DEF EnrichFee, Enrich
<1>8. CASE FirmTransfer(t)
  <2>1. \A leg \in Leg : transfer'[leg] = transfer[leg] \/ transfer'[leg] = "posted"
    BY <1>8 DEF FirmTransfer, TypeOK
  <2> QED
    BY <1>8, <2>1, GotoWithin DEF FirmTransfer
<1>9. CASE FirmEvidence(t)
  BY <1>9, GotoWithin DEF FirmEvidence
<1>10. CASE ClearFund(t)
  BY <1>10, GotoWithin DEF ClearFund
<1>11. CASE AssertSettled(t)
  BY <1>11, GotoWithin, ReturnWithin DEF AssertSettled
<1>12. CASE MarkSuccess(t)
  <2>1. Arrives({"idle", "clearPayout"})
    BY <1>12, UpdateOrThrowArrives DEF MarkSuccess
  <2>2. Arrives(Finalizing \union {"idle"})
    BY <2>1 DEF Arrives
  <2> QED
    BY <1>12, <2>2, UpdateOrThrowArrives DEF MarkSuccess
<1>13. CASE ClearPayout(t)
  BY <1>13, ReturnWithin DEF ClearPayout
<1> QED
  BY <1>1, <1>2, <1>3, <1>4, <1>5, <1>6, <1>7, <1>8, <1>9, <1>10, <1>11,
     <1>12, <1>13 DEF FinalizeStep

LEMMA CompensationFrame ==
  ASSUME TypeOK, NEW t \in Task, CompensationStep(t)
  PROVE  /\ Arrives(Releasing \union {"idle", "compStatus"})
         /\ \/ UNCHANGED status
            \/ /\ task[t].at = "compStatus"
               /\ <<status, task[t].with, status'>> \in WithdrawTransitions
         /\ \A leg \in Leg :
              \/ transfer'[leg] = transfer[leg]
              \/ /\ task[t].at \in Releasing
                 /\ transfer[leg] = "pending" /\ transfer'[leg] = "voided"
         /\ UNCHANGED <<hasFee, approval, payout, evidence, valuation>>
<1> USE DEF fixed, row, screen, books, Releasing
<1>1. CASE Compensate(t)
  BY <1>1, GotoArrives DEF Compensate, Arrives
<1>2. CASE CompStatus(t)
  BY <1>2, UpdateOrThrowArrives DEF CompStatus, Arrives
<1>3. CASE VoidNet(t)
  BY <1>3, GotoArrives DEF VoidNet, Void, Arrives, TypeOK
<1>4. CASE VoidFee(t)
  BY <1>4, GotoArrives DEF VoidFee, Void, Arrives, TypeOK
<1>5. CASE CancelFund(t)
  BY <1>5, ReturnArrives DEF CancelFund, Arrives
<1> QED
  BY <1>1, <1>2, <1>3, <1>4, <1>5 DEF CompensationStep

LEMMA ScreenResultFrame ==
  ASSUME TypeOK, NEW v \in Verdict, KytResult(v) \/ TravelRuleResult(v)
  PROVE  /\ Arrives({"checkPass"})
         /\ UNCHANGED <<hasFee, status, approval, payout, transfer, evidence, valuation>>
BY StartArrives DEF KytResult, TravelRuleResult, fixed, books

LEMMA AdminFrame ==
  ASSUME TypeOK, NEW a \in AdminActions, AdminUpdate(a)
  PROVE  /\ <<status, a, status'>> \in WithdrawTransitions
         /\ status' \notin WorkflowOnly
         /\ a \in AdminWithdrawAction
         /\ UNCHANGED <<hasFee, approval, payout, transfer, evidence, task, valuation>>
BY AdminActionsAssumption DEF AdminUpdate, UpdateStatus, fixed, books

LEMMA FaultFrame ==
  ASSUME TypeOK, Fault
  PROVE  /\ Arrives({"idle"})
         /\ UNCHANGED <<hasFee, status, approval, payout, transfer, evidence, valuation>>
<1>1. CASE Crash
  BY <1>1 DEF Crash, Arrives, Idle, fixed, row, books
<1>2. ASSUME NEW t \in Task, Throw(t)
      PROVE  /\ Arrives({"idle"})
             /\ UNCHANGED <<hasFee, status, approval, payout, transfer, evidence, valuation>>
  BY <1>2, ReturnArrives DEF Throw, fixed, row, books
<1> QED
  BY <1>1, <1>2 DEF Fault

\* A rail status, once dead or paid, stays so.
LEMMA RailFrame ==
  ASSUME TypeOK, NEW a \in PayoutAction, PayoutUpdate(a)
  PROVE  /\ payout \notin {"NONE", "RETURNED"} \union Dead
         /\ payout' # "NONE"
         /\ payout \in Paid => payout' \in Paid
         /\ UNCHANGED <<hasFee, status, approval, transfer, evidence, valuation>>
         /\ \/ UNCHANGED task
            \/ payout' = "CONFIRMED" /\ Start("finalize", "-")
            \/ payout' \in Dead /\ Start("compensate", "FAIL")
            \/ payout' = "RETURNED" /\ Start("compensate", "RETURN")
<1>1. PICK next \in PayoutStatus :
       /\ <<payout, a, next>> \in RailTransitions(asset)
       /\ payout' = next
       /\ CASE next = "CONFIRMED" -> Start("finalize", "-")
            [] next \in Dead -> Start("compensate", "FAIL")
            [] next = "RETURNED" -> Start("compensate", "RETURN")
            [] OTHER -> UNCHANGED task
  BY DEF PayoutUpdate
<1>2. <<payout, a, next>> \in CryptoTransitions \union FiatTransitions
  BY <1>1 DEF RailTransitions
<1>3. /\ payout \notin {"NONE", "RETURNED"} \union Dead
      /\ payout \in Paid => next \in Paid
  BY <1>2 DEF CryptoTransitions, FiatTransitions, Paid, Dead
<1>4. \/ UNCHANGED task
      \/ next = "CONFIRMED" /\ Start("finalize", "-")
      \/ next \in Dead /\ Start("compensate", "FAIL")
      \/ next = "RETURNED" /\ Start("compensate", "RETURN")
  BY <1>1 DEF Dead
<1>5. UNCHANGED <<hasFee, status, approval, transfer, evidence, valuation>>
  BY DEF PayoutUpdate, fixed, row, books
<1> QED
  BY <1>1, <1>3, <1>4, <1>5 DEF PayoutStatus
=============================================================================
