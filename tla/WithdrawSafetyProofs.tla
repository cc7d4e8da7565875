------------------------ MODULE WithdrawSafetyProofs ------------------------
(***************************************************************************)
(* The safety of a withdrawal, for any number of handlers in flight, any   *)
(* use of the admin endpoint and any number of exceptions and crashes.     *)
(* The inductive invariant SafetyInv is proved part by part: the rail, the *)
(* approval gate, the charge, the release.                                 *)
(***************************************************************************)
EXTENDS WithdrawSagaProofs

-----------------------------------------------------------------------------
(* The rail.                                                               *)

Compensating == {"compensate", "compStatus"}

\* Enough for RailHeard: no handler newly finalizes or compensates, and what
\* the rail has said is final.
LEMMA RailUntouched ==
  ASSUME RailHeard,
         \A u \in Task : task'[u].at \in Finalizing => task[u].at \in Finalizing,
         \A u \in Task : task'[u].at \in Compensating =>
           task[u].at \in Compensating /\ task'[u].with = task[u].with,
         payout \in Paid => payout' \in Paid,
         payout \in Dead \union {"RETURNED"} => UNCHANGED payout
  PROVE  RailHeard'
<1>1. InFlight(Finalizing)' => payout' \in Paid
  BY DEF RailHeard, InFlight
<1>2. ASSUME NEW u \in Task, task'[u].at \in Compensating
      PROVE  \/ task'[u].with = "FAIL" /\ payout' \in Dead
             \/ task'[u].with = "RETURN" /\ payout' = "RETURNED"
  BY <1>2 DEF RailHeard, Compensating
<1> QED
  BY <1>1, <1>2 DEF RailHeard, Compensating

LEMMA RailHeardInit == Init => RailHeard
BY DEF Init, Idle, RailHeard, InFlight, Finalizing

LEMMA RailHeardStep == ASSUME TypeOK, RailHeard, [Next]_vars PROVE RailHeard'
<1>1. ASSUME NEW t \in Task, GateStep(t) PROVE RailHeard'
  <2>1. \A u \in Task :
          task'[u].at \in Finalizing \union Compensating => task'[u] = task[u]
    BY <1>1, GateFrame DEF Arrives, Finalizing, Compensating
  <2> QED
    BY <1>1, <2>1, GateFrame, RailUntouched
<1>2. ASSUME NEW t \in Task, PayoutPhaseStep(t) PROVE RailHeard'
  <2>1. \A u \in Task :
          task'[u].at \in Finalizing \union Compensating => task'[u] = task[u]
    BY <1>2, PayoutPhaseFrame DEF Arrives, Finalizing, Compensating
  <2>2. payout \in Paid \union Dead => UNCHANGED payout
    BY <1>2, PayoutPhaseFrame DEF Paid, Dead
  <2> QED
    BY <2>1, <2>2, RailUntouched DEF Paid
<1>3. ASSUME NEW t \in Task, FinalizeStep(t) PROVE RailHeard'
  <2>1. \A u \in Task : task'[u].at \in Compensating => task'[u] = task[u]
    BY <1>3, FinalizeFrame DEF Arrives, Finalizing, Compensating
  <2>2. payout \in Paid => payout' \in Paid
    BY <1>3, FinalizeFrame DEF Paid
  <2>3. payout \in Dead \union {"RETURNED"} => UNCHANGED payout
    BY <1>3, FinalizeFrame DEF Dead
  <2>4. InFlight(Finalizing)
    BY <1>3, FinalizeFrame DEF InFlight
  <2> QED
    BY <2>1, <2>2, <2>3, <2>4 DEF RailHeard, Compensating
<1>4. ASSUME NEW t \in Task, CompensationStep(t) PROVE RailHeard'
  <2>1. \A u \in Task : task'[u].at \in Finalizing => task'[u] = task[u]
    BY <1>4, CompensationFrame DEF Arrives, Finalizing, Releasing
  <2>2. \A u \in Task : task'[u].at \in Compensating =>
          task[u].at \in Compensating /\ task'[u].with = task[u].with
    <3>1. CASE Compensate(t)
      BY <3>1 DEF Compensate, Goto, TypeOK, Compensating
    <3>2. CASE CompStatus(t)
      BY <3>2 DEF CompStatus, UpdateOrThrow, Goto, Return, Idle, TypeOK, Compensating
    <3>3. CASE VoidNet(t)
      BY <3>3 DEF VoidNet, Void, Goto, TypeOK, Compensating
    <3>4. CASE VoidFee(t)
      BY <3>4 DEF VoidFee, Void, Goto, TypeOK, Compensating
    <3>5. CASE CancelFund(t)
      BY <3>5 DEF CancelFund, Return, Idle, TypeOK, Compensating
    <3> QED
      BY <1>4, <3>1, <3>2, <3>3, <3>4, <3>5 DEF CompensationStep
  <2> QED
    BY <1>4, <2>1, <2>2, CompensationFrame, RailUntouched
<1>5. ASSUME NEW v \in Verdict, KytResult(v) \/ TravelRuleResult(v) PROVE RailHeard'
  <2>1. \A u \in Task :
          task'[u].at \in Finalizing \union Compensating => task'[u] = task[u]
    BY <1>5, ScreenResultFrame DEF Arrives, Finalizing, Compensating
  <2> QED
    BY <1>5, <2>1, ScreenResultFrame, RailUntouched
<1>6. ASSUME NEW d \in Decision, Decide(d) PROVE RailHeard'
  <2>1. Arrives({"decided"})
    BY <1>6, StartArrives DEF Decide
  <2>2. \A u \in Task :
          task'[u].at \in Finalizing \union Compensating => task'[u] = task[u]
    BY <2>1 DEF Arrives, Finalizing, Compensating
  <2> QED
    BY <1>6, <2>2, RailUntouched DEF Decide
<1>7. ASSUME NEW a \in PayoutAction, PayoutUpdate(a) PROVE RailHeard'
  <2>1. \/ payout' = "CONFIRMED" /\ Start("finalize", "-")
        \/ payout' \in Dead /\ Start("compensate", "FAIL")
        \/ payout' = "RETURNED" /\ Start("compensate", "RETURN")
        => RailHeard'
    <3>1. CASE payout' = "CONFIRMED" /\ Start("finalize", "-")
      <4>1. PICK f \in Task : task' = [task EXCEPT ![f] = [at |-> "finalize", with |-> "-"]]
        BY <3>1, StartPicks
      <4>2. \A u \in Task : task'[u].at \in Compensating => task'[u] = task[u]
        BY <4>1 DEF TypeOK, Compensating
      <4> QED
        BY <1>7, <3>1, <4>2, RailFrame DEF RailHeard, Compensating, Paid
    <3>2. CASE payout' \in Dead /\ Start("compensate", "FAIL")
      <4>1. PICK f \in Task : task' = [task EXCEPT ![f] = [at |-> "compensate", with |-> "FAIL"]]
        BY <3>2, StartPicks
      <4>2. \A u \in Task : task'[u].at \in Compensating =>
              task'[u] = task[u] \/ task'[u].with = "FAIL"
        BY <4>1 DEF TypeOK, Compensating
      <4>3. \A u \in Task : task'[u].at \in Finalizing => task'[u] = task[u]
        BY <4>1 DEF TypeOK, Finalizing
      <4> QED
        BY <1>7, <3>2, <4>2, <4>3, RailFrame DEF RailHeard, InFlight, Compensating
    <3>3. CASE payout' = "RETURNED" /\ Start("compensate", "RETURN")
      <4>1. PICK f \in Task : task' = [task EXCEPT ![f] = [at |-> "compensate", with |-> "RETURN"]]
        BY <3>3, StartPicks
      <4>2. \A u \in Task : task'[u].at \in Compensating =>
              task'[u] = task[u] \/ task'[u].with = "RETURN"
        BY <4>1 DEF TypeOK, Compensating
      <4> QED
        BY <1>7, <3>3, <4>2, RailFrame DEF RailHeard, Compensating, Paid
    <3> QED
      BY <3>1, <3>2, <3>3
  <2>2. CASE UNCHANGED task
    BY <1>7, <2>2, RailFrame, RailUntouched
  <2> QED
    BY <1>7, <2>1, <2>2, RailFrame
<1>8. ASSUME NEW a \in AdminActions, AdminUpdate(a) PROVE RailHeard'
  BY <1>8, AdminFrame, RailUntouched
<1>9. CASE ReCloseout
  <2>1. PICK f \in Task : task' = [task EXCEPT ![f] = [at |-> "finalize", with |-> "-"]]
    BY <1>9, StartPicks DEF ReCloseout
  <2>2. \A u \in Task : task'[u].at \in Compensating => task'[u] = task[u]
    BY <2>1 DEF TypeOK, Compensating
  <2> QED
    BY <1>9, <2>2 DEF ReCloseout, RailHeard, Compensating, Paid
<1>10. CASE ReCompensate
  <2>1. PICK f \in Task : task' = [task EXCEPT ![f] =
           [at |-> "compensate", with |-> IF payout = "RETURNED" THEN "RETURN" ELSE "FAIL"]]
    BY <1>10, StartPicks DEF ReCompensate
  <2>2. \A u \in Task : task'[u].at \in Finalizing => task'[u] = task[u]
    BY <2>1 DEF TypeOK, Finalizing
  <2>3. \A u \in Task : task'[u].at \in Compensating =>
          \/ task'[u] = task[u]
          \/ task'[u].with = IF payout = "RETURNED" THEN "RETURN" ELSE "FAIL"
    BY <2>1 DEF TypeOK, Compensating
  <2> QED
    BY <1>10, <2>2, <2>3 DEF ReCompensate, RailHeard, InFlight, Compensating
<1>11. CASE Fault
  <2>1. \A u \in Task :
          task'[u].at \in Finalizing \union Compensating => task'[u] = task[u]
    BY <1>11, FaultFrame DEF Arrives, Finalizing, Compensating
  <2> QED
    BY <1>11, <2>1, FaultFrame, RailUntouched
<1>12. CASE UNCHANGED vars
  BY <1>12, RailUntouched DEF vars
<1> QED
  BY <1>1, <1>2, <1>3, <1>4, <1>5, <1>6, <1>7, <1>8, <1>9, <1>10, <1>11, <1>12
  DEF Next, Step, External

-----------------------------------------------------------------------------
(* The approval case is decided once.                                      *)

Turned == {"PENDING_APPROVAL", "CANCELLED", "REJECTED"}

\* Enough for OneDecision: no handler newly opens, and one that declines has
\* seen the withdrawal waiting.
LEMMA GateUntouched ==
  ASSUME OneDecision,
         \A u \in Task : task'[u].at \in Opening => task[u].at \in Opening,
         \A u \in Task : task'[u].at \in Deciding => task[u].at \in Deciding,
         \A u \in Task : task'[u].at = "decline" =>
           task[u].at = "decline" \/ status \in Turned,
         UNCHANGED approval,
         status \in Turned => status' \in Turned
  PROVE  OneDecision'
<1>1. Alone(Opening)' /\ Alone(Deciding)'
  BY DEF OneDecision, Alone
<1>2. InFlight(Opening)' => approval' = "NONE"
  BY DEF OneDecision, InFlight
<1>3. InFlight(Deciding)' => approval' \in Decision
  BY DEF OneDecision, InFlight
<1>4. \A u \in Task : task'[u].at = "decline" => status' \in Turned
  BY DEF OneDecision, Turned
<1> QED
  BY <1>1, <1>2, <1>3, <1>4 DEF OneDecision, Turned

LEMMA GateQuiet ==
  ASSUME OneDecision, UNCHANGED approval,
         \A u \in Task : task'[u].at \in Opening \union Deciding => task'[u] = task[u],
         status \in Turned => status' \in Turned
  PROVE  OneDecision'
BY GateUntouched DEF Deciding

LEMMA OneDecisionInit == Init => OneDecision
<1> SUFFICES ASSUME Init PROVE OneDecision
  OBVIOUS
<1> DEFINE first == CHOOSE t \in Task : TRUE
<1>1. \A t \in Task : /\ task[t].at \in {"created", "idle"}
                    /\ task[t].at = "created" => t = first
  BY DEF Init, Idle
<1> HIDE DEF first
<1> QED
  BY <1>1 DEF Init, OneDecision, Alone, InFlight, Opening, Deciding

LEMMA OneDecisionGate ==
  ASSUME TypeOK, OneDecision, NEW t \in Task, GateStep(t) PROVE OneDecision'
<1> USE DEF fixed, row, screen, books
<1>1. CASE Created(t)
  <2>1. \A u \in Task : task'[u].at \in Opening => task[u].at \in Opening
    BY <1>1 DEF Created, Goto, Return, Idle, TypeOK, Opening
  <2>2. \A u \in Task : task'[u].at \in Deciding => task'[u] = task[u]
    BY <1>1 DEF Created, Goto, Return, Idle, TypeOK, Deciding
  <2> QED
    BY <1>1, <2>1, <2>2, GateUntouched DEF Created, Deciding
<1>2. CASE Valuate(t)
  <2>1. \A u \in Task : task'[u].at \in Opening => task[u].at \in Opening
    BY <1>2 DEF Valuate, Goto, TypeOK, Opening
  <2>2. \A u \in Task : task'[u].at \in Deciding => task'[u] = task[u]
    BY <1>2 DEF Valuate, Goto, TypeOK, Deciding
  <2> QED
    BY <1>2, <2>1, <2>2, GateUntouched DEF Valuate, Deciding
<1>3. CASE Check(t)
  <2>1. Arrives({"idle", "screenKyt"}) /\ UNCHANGED approval
    BY <1>3, UpdateOrThrowArrives DEF Check
  <2>2. status \in Turned => status' \in Turned
    <3>1. UNCHANGED status \/ <<status, "CHECK", status'>> \in WithdrawTransitions
      BY <1>3, UpdateOrThrowArrives DEF Check
    <3> QED
      BY <3>1 DEF Turned, WithdrawTransitions
  <2>3. \A u \in Task : task'[u].at \in Opening \union Deciding => task'[u] = task[u]
    BY <2>1 DEF Arrives, Opening, Deciding
  <2> QED
    BY <2>1, <2>2, <2>3, GateQuiet
<1>4. CASE OpenCase(t)
  <2>1. /\ task[t].at \in Opening /\ approval = "NONE" /\ approval' = "PENDING"
        /\ task' = [task EXCEPT ![t].at = "requireApproval"] /\ UNCHANGED status
    BY <1>4 DEF OpenCase, Goto, OneDecision, InFlight, Opening
  <2>2. \A u \in Task : task[u].at \notin Deciding
    BY <2>1 DEF OneDecision, InFlight, Decision
  <2>3. \A u \in Task : task'[u].at \notin Deciding
    BY <2>1, <2>2 DEF TypeOK, Deciding
  <2>4. \A u \in Task : task'[u].at \notin Opening
    BY <2>1 DEF TypeOK, OneDecision, Alone, Opening
  <2> QED
    BY <2>3, <2>4 DEF OneDecision, Alone, InFlight, Deciding
<1>5. CASE RequireApproval(t)
  <2>1. Arrives({"idle"}) /\ UNCHANGED approval
    BY <1>5, UpdateOrThrowArrives DEF RequireApproval
  <2>2. status \in Turned => status' \in Turned
    <3>1. UNCHANGED status \/ <<status, "REQUIRE_APPROVAL", status'>> \in WithdrawTransitions
      BY <1>5, UpdateOrThrowArrives DEF RequireApproval
    <3> QED
      BY <3>1 DEF Turned, WithdrawTransitions
  <2>3. \A u \in Task : task'[u].at \in Opening \union Deciding => task'[u] = task[u]
    BY <2>1 DEF Arrives, Opening, Deciding
  <2> QED
    BY <2>1, <2>2, <2>3, GateQuiet
<1>6. CASE Decided(t)
  <2>1. \A u \in Task : task'[u].at \in Opening => task'[u] = task[u]
    BY <1>6 DEF Decided, Goto, Return, Idle, TypeOK, Opening
  <2>2. \A u \in Task : task'[u].at \in Deciding => task[u].at \in Deciding
    BY <1>6 DEF Decided, Goto, Return, Idle, TypeOK, Deciding
  <2>3. \A u \in Task : task'[u].at = "decline" =>
          task[u].at = "decline" \/ status \in Turned
    BY <1>6 DEF Decided, Goto, Return, Idle, TypeOK, Turned
  <2> QED
    BY <1>6, <2>1, <2>2, <2>3, GateUntouched DEF Decided
<1>7. CASE Grant(t)
  <2>1. \A u \in Task :
          task'[u].at \in Opening \union Deciding => task'[u] = task[u] /\ u # t
    BY <1>7 DEF Grant, UpdateOrThrow, Goto, Return, Idle, TypeOK, Opening, Deciding
  <2>2. \A u \in Task : task'[u].at \notin Deciding
    BY <1>7, <2>1 DEF Grant, OneDecision, Alone, Deciding
  <2>3. UNCHANGED approval
    BY <1>7, UpdateOrThrowArrives DEF Grant
  <2> QED
    BY <2>1, <2>2, <2>3 DEF OneDecision, Alone, InFlight, Deciding
<1>8. CASE Decline(t)
  <2>1. Arrives({"idle", "voidNet"}) /\ UNCHANGED approval
    BY <1>8, UpdateOrThrowArrives DEF Decline
  <2>2. status \in Turned => status' \in Turned
    <3>1. UNCHANGED status \/ <<status, "REJECT", status'>> \in WithdrawTransitions
      BY <1>8, UpdateOrThrowArrives DEF Decline
    <3> QED
      BY <3>1 DEF Turned, WithdrawTransitions
  <2>3. \A u \in Task : task'[u].at \in Opening \union Deciding => task'[u] = task[u]
    BY <2>1 DEF Arrives, Opening, Deciding
  <2> QED
    BY <2>1, <2>2, <2>3, GateQuiet
<1> QED
  BY <1>1, <1>2, <1>3, <1>4, <1>5, <1>6, <1>7, <1>8 DEF GateStep

LEMMA OneDecisionStep ==
  ASSUME TypeOK, RailHeard, OneDecision, [Next]_vars PROVE OneDecision'
<1> DEFINE Quietly ==
      \A u \in Task : task'[u].at \in Opening \union Deciding => task'[u] = task[u]
<1>1. ASSUME NEW t \in Task, PayoutPhaseStep(t) PROVE OneDecision'
  <2>1. status \in Turned => status' \in Turned
    BY <1>1, PayoutPhaseFrame DEF Turned, WithdrawTransitions
  <2>2. Quietly
    BY <1>1, PayoutPhaseFrame DEF Arrives, Opening, Deciding
  <2> QED
    BY <1>1, <2>1, <2>2, PayoutPhaseFrame, GateQuiet
<1>2. ASSUME NEW t \in Task, FinalizeStep(t) PROVE OneDecision'
  <2>1. status \in Turned => status' \in Turned
    BY <1>2, FinalizeFrame DEF Turned, WithdrawTransitions
  <2>2. Quietly
    BY <1>2, FinalizeFrame DEF Arrives, Opening, Deciding, Finalizing
  <2> QED
    BY <1>2, <2>1, <2>2, FinalizeFrame, GateQuiet
<1>3. ASSUME NEW t \in Task, CompensationStep(t) PROVE OneDecision'
  <2>1. task[t].at = "compStatus" => task[t].with \in {"FAIL", "RETURN"}
    BY DEF RailHeard
  <2>2. status \in Turned => status' \in Turned
    BY <1>3, <2>1, CompensationFrame DEF Turned, WithdrawTransitions
  <2>3. Quietly
    BY <1>3, CompensationFrame DEF Arrives, Opening, Deciding, Releasing
  <2> QED
    BY <1>3, <2>2, <2>3, CompensationFrame, GateQuiet
<1>4. ASSUME NEW v \in Verdict, KytResult(v) \/ TravelRuleResult(v) PROVE OneDecision'
  <2>1. Quietly
    BY <1>4, ScreenResultFrame DEF Arrives, Opening, Deciding
  <2> QED
    BY <1>4, <2>1, ScreenResultFrame, GateQuiet
<1>5. ASSUME NEW d \in Decision, Decide(d) PROVE OneDecision'
  <2>1. PICK f \in Task : /\ task' = [task EXCEPT ![f] = [at |-> "decided", with |-> d]]
                        /\ approval = "PENDING" /\ approval' = d /\ UNCHANGED status
    BY <1>5, StartPicks DEF Decide, row
  <2>2. \A u \in Task : task[u].at \notin Deciding \union Opening
    BY <2>1 DEF OneDecision, InFlight, Decision
  <2>3. \A u \in Task : task'[u].at \in Deciding => u = f /\ task'[u].at = "decided"
    BY <2>1, <2>2 DEF TypeOK
  <2>4. \A u \in Task : task'[u].at \notin Opening
    BY <2>1, <2>2 DEF TypeOK, Opening
  <2> QED
    BY <2>1, <2>3, <2>4 DEF OneDecision, Alone, InFlight, Deciding
<1>6. ASSUME NEW a \in PayoutAction, PayoutUpdate(a) PROVE OneDecision'
  <2>1. task' = task \/ Arrives({"finalize", "compensate"})
    BY <1>6, RailFrame, StartArrives DEF Arrives
  <2>2. Quietly
    BY <2>1 DEF Arrives, Opening, Deciding
  <2> QED
    BY <1>6, <2>2, RailFrame, GateQuiet
<1>7. ASSUME NEW a \in AdminActions, AdminUpdate(a) PROVE OneDecision'
  <2>1. status \in Turned => status' \in Turned
    BY <1>7, AdminFrame DEF Turned, WithdrawTransitions, AdminWithdrawAction
  <2> QED
    BY <1>7, <2>1, AdminFrame, GateQuiet
<1>8. ASSUME ReCloseout \/ ReCompensate PROVE OneDecision'
  <2>1. Arrives({"finalize"}) \/ Arrives({"compensate"})
    BY <1>8, StartArrives DEF ReCloseout, ReCompensate
  <2>2. Quietly
    BY <2>1 DEF Arrives, Opening, Deciding
  <2> QED
    BY <1>8, <2>2, GateQuiet DEF ReCloseout, ReCompensate, row
<1>9. CASE Fault
  <2>1. Quietly
    BY <1>9, FaultFrame DEF Arrives, Opening, Deciding
  <2> QED
    BY <1>9, <2>1, FaultFrame, GateQuiet
<1>10. CASE UNCHANGED vars
  BY <1>10, GateQuiet DEF vars, row
<1> QED
  BY <1>1, <1>2, <1>3, <1>4, <1>5, <1>6, <1>7, <1>8, <1>9, <1>10, OneDecisionGate
  DEF Next, Step, External

-----------------------------------------------------------------------------
(* What no step undoes.                                                    *)

\* A handler gets to payouts.create only by the APPROVE it has just made.
LEMMA ApprovedFirst ==
  ASSUME TypeOK, NEW t \in Task, PayoutPhaseStep(t), NEW u \in Task,
         task'[u].at = "createPayout"
  PROVE  \/ task[u].at = "createPayout"
         \/ <<status, "APPROVE", status'>> \in WithdrawTransitions
<1>1. CASE ScreenKyt(t)
  <2>1. Arrives({"checkPass", "screenTravelRule"})
    BY <1>1, EmitArrives DEF ScreenKyt
  <2> QED
    BY <2>1 DEF Arrives
<1>2. CASE ScreenTravelRule(t)
  <2>1. Arrives({"checkPass", "checkPass"})
    BY <1>2, EmitArrives DEF ScreenTravelRule
  <2> QED
    BY <2>1 DEF Arrives
<1>3. CASE CheckPass(t)
  BY <1>3 DEF CheckPass, Goto, Return, Idle, TypeOK
<1>4. CASE Approve(t)
  <2>1. CASE UpdateStatus("APPROVE")
    BY <2>1 DEF UpdateStatus
  <2>2. CASE Return(t)
    BY <2>2 DEF Return, Idle, TypeOK
  <2> QED
    BY <1>4, <2>1, <2>2 DEF Approve, UpdateOrThrow
<1>5. CASE CreatePayout(t)
  BY <1>5 DEF CreatePayout, Goto, TypeOK
<1>6. CASE LinkPayout(t)
  BY <1>6 DEF LinkPayout, Goto, Return, Idle, TypeOK
<1>7. CASE CreateFeeFund(t)
  BY <1>7 DEF CreateFeeFund, Return, Idle, TypeOK
<1> QED
  BY <1>1, <1>2, <1>3, <1>4, <1>5, <1>6, <1>7 DEF PayoutPhaseStep

\* The status follows the table, the rail's last word stands, and a payout
\* appears only where payouts.create is.
Forward ==
  /\ \/ UNCHANGED status
     \/ \E a \in WithdrawAction : <<status, a, status'>> \in WithdrawTransitions
  /\ payout \in Paid => payout' \in Paid
  /\ payout \in Dead => UNCHANGED payout
  /\ payout = "NONE" => UNCHANGED payout \/ InFlight({"createPayout"})
  /\ \A u \in Task : task'[u].at = "createPayout" =>
       \/ task[u].at = "createPayout"
       \/ <<status, "APPROVE", status'>> \in WithdrawTransitions
  /\ UNCHANGED hasFee

LEMMA StepForward == ASSUME TypeOK, RailHeard, [Next]_vars PROVE Forward
<1> USE DEF Forward
<1>1. ASSUME NEW t \in Task, GateStep(t) PROVE Forward
  <2>1. \A u \in Task : task'[u].at = "createPayout" => task'[u] = task[u]
    BY <1>1, GateFrame DEF Arrives
  <2> QED
    BY <1>1, <2>1, GateFrame DEF WithdrawAction
<1>2. ASSUME NEW t \in Task, PayoutPhaseStep(t) PROVE Forward
  <2>1. \/ UNCHANGED status
        \/ \E a \in WithdrawAction : <<status, a, status'>> \in WithdrawTransitions
    BY <1>2, PayoutPhaseFrame DEF WithdrawAction
  <2>2. /\ payout \in Paid => payout' \in Paid
        /\ payout \in Dead => UNCHANGED payout
        /\ payout = "NONE" => UNCHANGED payout \/ InFlight({"createPayout"})
    BY <1>2, PayoutPhaseFrame DEF Paid, Dead, InFlight
  <2> QED
    BY <1>2, <2>1, <2>2, ApprovedFirst, PayoutPhaseFrame
<1>3. ASSUME NEW t \in Task, FinalizeStep(t) PROVE Forward
  <2>1. \A u \in Task : task'[u].at = "createPayout" => task'[u] = task[u]
    BY <1>3, FinalizeFrame DEF Arrives, Finalizing
  <2>2. /\ payout \in Paid => payout' \in Paid
        /\ payout \in Dead \union {"NONE"} => UNCHANGED payout
    BY <1>3, FinalizeFrame DEF Paid, Dead
  <2> QED
    BY <1>3, <2>1, <2>2, FinalizeFrame DEF WithdrawAction
<1>4. ASSUME NEW t \in Task, CompensationStep(t) PROVE Forward
  <2>1. \A u \in Task : task'[u].at = "createPayout" => task'[u] = task[u]
    BY <1>4, CompensationFrame DEF Arrives, Releasing
  <2>2. task[t].at = "compStatus" => task[t].with \in WithdrawAction
    BY DEF RailHeard, WithdrawAction
  <2> QED
    BY <1>4, <2>1, <2>2, CompensationFrame
<1>5. ASSUME NEW v \in Verdict, KytResult(v) \/ TravelRuleResult(v) PROVE Forward
  BY <1>5, ScreenResultFrame DEF Arrives
<1>6. ASSUME NEW d \in Decision, Decide(d) PROVE Forward
  <2>1. Arrives({"decided"})
    BY <1>6, StartArrives DEF Decide
  <2> QED
    BY <1>6, <2>1 DEF Decide, Arrives, fixed, row
<1>7. ASSUME NEW a \in PayoutAction, PayoutUpdate(a) PROVE Forward
  <2>1. task' = task \/ Arrives({"finalize", "compensate"})
    BY <1>7, RailFrame, StartArrives DEF Arrives
  <2> QED
    BY <1>7, <2>1, RailFrame DEF Arrives
<1>8. ASSUME NEW a \in AdminActions, AdminUpdate(a) PROVE Forward
  BY <1>8, AdminFrame DEF AdminWithdrawAction, WithdrawAction
<1>9. ASSUME ReCloseout \/ ReCompensate PROVE Forward
  <2>1. Arrives({"finalize"}) \/ Arrives({"compensate"})
    BY <1>9, StartArrives DEF ReCloseout, ReCompensate
  <2> QED
    BY <1>9, <2>1 DEF ReCloseout, ReCompensate, Arrives, fixed, row
<1>10. CASE Fault
  BY <1>10, FaultFrame DEF Arrives
<1>11. CASE UNCHANGED vars
  BY <1>11 DEF vars, fixed, row
<1> QED
  BY <1>1, <1>2, <1>3, <1>4, <1>5, <1>6, <1>7, <1>8, <1>9, <1>10, <1>11
  DEF Next, Step, External

\* No payout exists, or is about to, before the compliance phase.
LEMMA NoEarlyPayoutInit == Init => NoEarlyPayout
BY DEF Init, Idle, NoEarlyPayout, InFlight

LEMMA NoEarlyPayoutStep == ASSUME NoEarlyPayout, Forward PROVE NoEarlyPayout'
<1>1. status' \in {"CREATED", "PENDING_APPROVAL"} =>
        /\ status \in {"CREATED", "PENDING_APPROVAL"}
        /\ <<status, "APPROVE", status'>> \notin WithdrawTransitions
  BY DEF Forward, WithdrawTransitions
<1> QED
  BY <1>1 DEF NoEarlyPayout, Forward, InFlight

\* A withdrawal that is rejected before it had a payout never gets one.
LEMMA NeverPaidStep == ASSUME NeverPaid, Forward PROVE NeverPaid'
<1>1. /\ status' = "REJECTED"
      /\ <<status, "APPROVE", status'>> \notin WithdrawTransitions
  BY DEF NeverPaid, Forward, WithdrawTransitions
<1> QED
  BY <1>1 DEF NeverPaid, Forward, InFlight

-----------------------------------------------------------------------------
(* The charge.                                                             *)

ChargeInv ==
  /\ EvidenceNotAhead /\ FirmFeeEarned /\ LegsExist
  /\ ChargeProgress /\ SettledInFull

\* What every step outside finalizeWithdrawal leaves of it.
ChargeUntouched ==
  /\ UNCHANGED <<evidence, hasFee>>
  /\ \A leg \in Leg :
       \/ transfer'[leg] = transfer[leg]
       \/ transfer[leg] = "pending" /\ transfer'[leg] = "voided"
  /\ \A u \in Task : task'[u].at \in Finalizing =>
       task'[u] = task[u] \/ task'[u].at = "finalize"
  /\ status' \in {"SUCCESS", "RETURNED"} => status \in {"SUCCESS", "RETURNED"}

LEMMA OnlyFinalizeCharges ==
  ASSUME TypeOK, RailHeard, [Next]_vars
  PROVE  ChargeUntouched \/ \E t \in Task : FinalizeStep(t)
<1> USE DEF ChargeUntouched
<1>1. ASSUME NEW t \in Task, GateStep(t) PROVE ChargeUntouched
  <2>1. \A u \in Task : task'[u].at \in Finalizing => task'[u] = task[u]
    BY <1>1, GateFrame DEF Arrives, Finalizing
  <2>2. status' \in {"SUCCESS", "RETURNED"} => UNCHANGED status
    BY <1>1, GateFrame DEF WithdrawTransitions
  <2> QED
    BY <1>1, <2>1, <2>2, GateFrame
<1>2. ASSUME NEW t \in Task, PayoutPhaseStep(t) PROVE ChargeUntouched
  <2>1. \A u \in Task : task'[u].at \in Finalizing => task'[u] = task[u]
    BY <1>2, PayoutPhaseFrame DEF Arrives, Finalizing
  <2>2. status' \in {"SUCCESS", "RETURNED"} => UNCHANGED status
    BY <1>2, PayoutPhaseFrame DEF WithdrawTransitions
  <2> QED
    BY <1>2, <2>1, <2>2, PayoutPhaseFrame
<1>3. ASSUME NEW t \in Task, CompensationStep(t) PROVE ChargeUntouched
  <2>1. \A u \in Task : task'[u].at \in Finalizing => task'[u] = task[u]
    BY <1>3, CompensationFrame DEF Arrives, Finalizing, Releasing
  <2>2. task[t].at = "compStatus" => task[t].with \in {"FAIL", "RETURN"}
    BY DEF RailHeard
  <2>3. status' \in {"SUCCESS", "RETURNED"} => status \in {"SUCCESS", "RETURNED"}
    BY <1>3, <2>2, CompensationFrame DEF WithdrawTransitions
  <2> QED
    BY <1>3, <2>1, <2>3, CompensationFrame
<1>4. ASSUME NEW v \in Verdict, KytResult(v) \/ TravelRuleResult(v) PROVE ChargeUntouched
  <2>1. \A u \in Task : task'[u].at \in Finalizing => task'[u] = task[u]
    BY <1>4, ScreenResultFrame DEF Arrives, Finalizing
  <2> QED
    BY <1>4, <2>1, ScreenResultFrame
<1>5. ASSUME NEW d \in Decision, Decide(d) PROVE ChargeUntouched
  <2>1. Arrives({"decided"})
    BY <1>5, StartArrives DEF Decide
  <2>2. \A u \in Task : task'[u].at \in Finalizing => task'[u] = task[u]
    BY <2>1 DEF Arrives, Finalizing
  <2> QED
    BY <1>5, <2>2 DEF Decide, fixed, row, books
<1>6. ASSUME NEW a \in PayoutAction, PayoutUpdate(a) PROVE ChargeUntouched
  <2>1. task' = task \/ Arrives({"finalize", "compensate"})
    BY <1>6, RailFrame, StartArrives DEF Arrives
  <2>2. \A u \in Task : task'[u].at \in Finalizing =>
          task'[u] = task[u] \/ task'[u].at = "finalize"
    BY <2>1 DEF Arrives, Finalizing
  <2> QED
    BY <1>6, <2>2, RailFrame
<1>7. ASSUME NEW a \in AdminActions, AdminUpdate(a) PROVE ChargeUntouched
  BY <1>7, AdminFrame DEF WorkflowOnly
<1>8. ASSUME ReCloseout \/ ReCompensate PROVE ChargeUntouched
  <2>1. Arrives({"finalize"}) \/ Arrives({"compensate"})
    BY <1>8, StartArrives DEF ReCloseout, ReCompensate
  <2>2. \A u \in Task : task'[u].at \in Finalizing =>
          task'[u] = task[u] \/ task'[u].at = "finalize"
    BY <2>1 DEF Arrives, Finalizing
  <2> QED
    BY <1>8, <2>2 DEF ReCloseout, ReCompensate, fixed, row, books
<1>9. CASE Fault
  <2>1. \A u \in Task : task'[u].at \in Finalizing => task'[u] = task[u]
    BY <1>9, FaultFrame DEF Arrives, Finalizing
  <2> QED
    BY <1>9, <2>1, FaultFrame
<1>10. CASE UNCHANGED vars
  BY <1>10 DEF vars, fixed, row, books
<1> QED
  BY <1>1, <1>2, <1>3, <1>4, <1>5, <1>6, <1>7, <1>8, <1>9, <1>10
  DEF Next, Step, External

LEMMA ChargeInit == Init => ChargeInv
<1> SUFFICES ASSUME Init PROVE ChargeInv
  OBVIOUS
<1>1. \A t \in Task : task[t].at \in {"created", "idle"}
  BY DEF Init, Idle
<1> QED
  BY <1>1 DEF Init, ChargeInv, EvidenceNotAhead, FirmFeeEarned, LegsExist,
     ChargeProgress, SettledInFull, InFlight, Leg, NoRow

LEMMA ChargeKept == ASSUME TypeOK, ChargeInv, ChargeUntouched PROVE ChargeInv'
<1> USE DEF ChargeInv
<1>1. \A leg \in Leg : transfer'[leg] = "posted" <=> transfer[leg] = "posted"
  BY DEF ChargeUntouched
<1>2. LegsExist'
  BY DEF LegsExist, ChargeUntouched, Leg
<1>3. EvidenceNotAhead' /\ FirmFeeEarned' /\ SettledInFull'
  BY <1>1 DEF EvidenceNotAhead, FirmFeeEarned, SettledInFull, ChargeUntouched, Leg
<1>4. \A u \in Task : task'[u].at \in Finalizing \ {"finalize"} => task'[u] = task[u]
  BY DEF ChargeUntouched
<1>5. ChargeProgress'
  BY <1>1, <1>4 DEF ChargeProgress, Charged, InFlight, Finalizing, ChargeUntouched, Leg
<1> QED
  BY <1>2, <1>3, <1>5

LEMMA ChargeFinalize ==
  ASSUME TypeOK, ChargeInv, NEW t \in Task, FinalizeStep(t) PROVE ChargeInv'
<1> USE DEF fixed, row, screen, books, TypeOK, Leg, ChargeInv
<1>1. CASE Finalize(t)
  <2>1. \A u \in Task : \/ task'[u] = task[u]
                        \/ task'[u].at \in {"idle", "postNet"}
    BY <1>1 DEF Finalize, Return, Idle
  <2>2. UNCHANGED <<hasFee, status, transfer, evidence>>
    BY <1>1 DEF Finalize
  <2> QED
    BY <2>1, <2>2 DEF EvidenceNotAhead, FirmFeeEarned, LegsExist, ChargeProgress,
       Charged, SettledInFull, InFlight
<1>2. CASE PostNet(t)
  <2>1. \A u \in Task : task'[u] = task[u] \/ task'[u].at \in {"idle", "markNet"}
    BY <1>2 DEF PostNet, Post, Goto, Return, Idle
  <2>2. /\ UNCHANGED <<hasFee, status, evidence>>
        /\ transfer'["FEE"] = transfer["FEE"] /\ transfer'["FIRM"] = transfer["FIRM"]
    BY <1>2 DEF PostNet, Post
  <2>3. CASE /\ transfer["NET"] = "pending"
             /\ transfer' = [transfer EXCEPT !["NET"] = "posted"]
    <3>1. transfer'["NET"] = "posted"
      BY <2>3
    <3>2. task[t].at = "postNet"
      BY <1>2 DEF PostNet
    <3> QED
      BY <2>1, <2>2, <2>3, <3>1, <3>2 DEF EvidenceNotAhead, FirmFeeEarned,
         LegsExist, ChargeProgress, Charged, SettledInFull, InFlight
  <2>4. CASE UNCHANGED transfer /\ Return(t)
    <3>1. \A u \in Task : task'[u] = task[u] \/ task'[u].at = "idle"
      BY <2>4 DEF Return, Idle
    <3> QED
      BY <2>2, <2>4, <3>1 DEF EvidenceNotAhead, FirmFeeEarned,
         LegsExist, ChargeProgress, Charged, SettledInFull, InFlight
  <2> QED
    BY <1>2, <2>3, <2>4 DEF PostNet, Post
<1>3. CASE MarkNet(t)
  BY <1>3 DEF MarkNet, Mark, Goto, EvidenceNotAhead, FirmFeeEarned,
     LegsExist, ChargeProgress, Charged, SettledInFull, InFlight
<1>4. CASE EnrichNet(t)
  BY <1>4 DEF EnrichNet, Enrich, Goto, EvidenceNotAhead, FirmFeeEarned,
     LegsExist, ChargeProgress, Charged, SettledInFull, InFlight
<1>5. CASE PostFee(t)
  <2>1. \A u \in Task : task'[u] = task[u] \/ task'[u].at \in {"idle", "markFee"}
    BY <1>5 DEF PostFee, Post, Goto, Return, Idle
  <2>2. /\ UNCHANGED <<hasFee, status, evidence>>
        /\ transfer'["NET"] = transfer["NET"] /\ transfer'["FIRM"] = transfer["FIRM"]
    BY <1>5 DEF PostFee, Post
  <2>3. CASE /\ transfer["FEE"] = "pending"
             /\ transfer' = [transfer EXCEPT !["FEE"] = "posted"]
    <3>1. transfer'["FEE"] = "posted"
      BY <2>3
    <3>2. task[t].at = "postFee"
      BY <1>5 DEF PostFee
    <3> QED
      BY <2>1, <2>2, <2>3, <3>1, <3>2 DEF EvidenceNotAhead, FirmFeeEarned,
         LegsExist, ChargeProgress, Charged, SettledInFull, InFlight
  <2>4. CASE UNCHANGED transfer /\ Return(t)
    <3>1. \A u \in Task : task'[u] = task[u] \/ task'[u].at = "idle"
      BY <2>4 DEF Return, Idle
    <3> QED
      BY <2>2, <2>4, <3>1 DEF EvidenceNotAhead, FirmFeeEarned,
         LegsExist, ChargeProgress, Charged, SettledInFull, InFlight
  <2> QED
    BY <1>5, <2>3, <2>4 DEF PostFee, Post
<1>6. CASE MarkFee(t)
  BY <1>6 DEF MarkFee, Mark, Goto, EvidenceNotAhead, FirmFeeEarned,
     LegsExist, ChargeProgress, Charged, SettledInFull, InFlight
<1>7. CASE EnrichFee(t)
  BY <1>7 DEF EnrichFee, Enrich, Goto, EvidenceNotAhead, FirmFeeEarned,
     LegsExist, ChargeProgress, Charged, SettledInFull, InFlight
<1>8. CASE FirmTransfer(t)
  BY <1>8 DEF FirmTransfer, Goto, EvidenceNotAhead, FirmFeeEarned,
     LegsExist, ChargeProgress, Charged, SettledInFull, InFlight
<1>9. CASE FirmEvidence(t)
  BY <1>9 DEF FirmEvidence, Goto, EvidenceNotAhead, FirmFeeEarned,
     LegsExist, ChargeProgress, Charged, SettledInFull, InFlight
<1>10. CASE ClearFund(t)
  BY <1>10 DEF ClearFund, Goto, EvidenceNotAhead, FirmFeeEarned,
     LegsExist, ChargeProgress, Charged, SettledInFull, InFlight
<1>11. CASE AssertSettled(t)
  BY <1>11 DEF AssertSettled, Settled, Goto, Return, Idle, EvidenceNotAhead, FirmFeeEarned,
     LegsExist, ChargeProgress, Charged, SettledInFull, InFlight
<1>12. CASE MarkSuccess(t)
  <2>1. \A u \in Task : task'[u] = task[u] \/ task'[u].at \in {"idle", "clearPayout"}
    BY <1>12, UpdateOrThrowArrives DEF MarkSuccess, Arrives
  <2>2. UNCHANGED <<hasFee, transfer, evidence>>
    BY <1>12, UpdateOrThrowArrives DEF MarkSuccess
  <2>3. Charged'
    BY <1>12, <2>2 DEF MarkSuccess, ChargeProgress, InFlight, Charged
  <2>4. EvidenceNotAhead' /\ FirmFeeEarned' /\ LegsExist' /\ SettledInFull'
    BY <2>2, <2>3 DEF EvidenceNotAhead, FirmFeeEarned, LegsExist, SettledInFull, Charged
  <2>5. ChargeProgress'
    BY <2>1, <2>2, <2>3 DEF ChargeProgress, InFlight
  <2> QED
    BY <2>4, <2>5
<1>13. CASE ClearPayout(t)
  BY <1>13 DEF ClearPayout, Return, Idle, EvidenceNotAhead, FirmFeeEarned,
     LegsExist, ChargeProgress, Charged, SettledInFull, InFlight
<1> QED
  BY <1>1, <1>2, <1>3, <1>4, <1>5, <1>6, <1>7, <1>8, <1>9, <1>10, <1>11,
     <1>12, <1>13 DEF FinalizeStep

LEMMA ChargeStep ==
  ASSUME TypeOK, RailHeard, ChargeInv, [Next]_vars PROVE ChargeInv'
BY OnlyFinalizeCharges, ChargeKept, ChargeFinalize

\* A leg that is charged was charged by a handler the rail has started.
LEMMA PaidStep ==
  ASSUME TypeOK, RailHeard, ChargedOnlyIfPaid, Forward, [Next]_vars
  PROVE  ChargedOnlyIfPaid'
<1>1. CASE ChargeUntouched
  BY <1>1 DEF ChargeUntouched, ChargedOnlyIfPaid, Forward
<1>2. ASSUME NEW t \in Task, FinalizeStep(t) PROVE ChargedOnlyIfPaid'
  <2>1. payout' \in Paid
    BY <1>2, FinalizeFrame DEF RailHeard, InFlight, Forward
  <2> QED
    BY <2>1 DEF ChargedOnlyIfPaid
<1> QED
  BY <1>1, <1>2, OnlyFinalizeCharges

-----------------------------------------------------------------------------
(* The release.                                                            *)

Justified == payout \in Dead \/ NeverPaid \/ status = "RETURNED"

LEMMA JustifiedStays == ASSUME Justified, Forward PROVE Justified'
<1>1. status = "RETURNED" => status' = "RETURNED"
  BY DEF Forward, WithdrawTransitions
<1> QED
  BY <1>1, NeverPaidStep DEF Justified, Forward

\* Enough for ReleaseJustified: no handler newly releases without a reason,
\* and no leg is newly voided but by one that does.
LEMMA ReleaseKept ==
  ASSUME RailHeard, ChargeInv, ReleaseJustified, Forward,
         \A u \in Task : task'[u].at \in Releasing =>
           task[u].at \in Releasing \/ Justified',
         \A leg \in Leg : transfer'[leg] = "voided" =>
           \/ transfer[leg] = "voided"
           \/ transfer[leg] = "pending" /\ InFlight(Releasing)
  PROVE  ReleaseJustified'
<1>1. InFlight(Releasing) => Justified
  BY DEF ReleaseJustified, Justified
<1>2. InFlight(Releasing)' => Justified'
  BY <1>1, JustifiedStays DEF InFlight
<1>3. ASSUME NEW leg \in Leg, transfer'[leg] = "voided"
      PROVE  payout' \in Dead \/ NeverPaid'
  <2>1. CASE transfer[leg] = "voided"
    BY <2>1, NeverPaidStep DEF ReleaseJustified, Forward
  <2>2. CASE transfer[leg] = "pending" /\ InFlight(Releasing)
    <3>1. status # "RETURNED"
      BY <2>2 DEF ChargeInv, SettledInFull, LegsExist, Leg
    <3> QED
      BY <1>1, <2>2, <3>1, NeverPaidStep DEF Justified, Forward
  <2> QED
    BY <1>3, <2>1, <2>2
<1> QED
  BY <1>2, <1>3 DEF ReleaseJustified, Justified

LEMMA ReleaseInit == Init => ReleaseJustified
BY DEF Init, Idle, ReleaseJustified, InFlight, Releasing, Leg

LEMMA ReleaseGate ==
  ASSUME TypeOK, OneDecision, NoEarlyPayout, NEW t \in Task, GateStep(t), Forward
  PROVE  \A u \in Task : task'[u].at \in Releasing =>
           task[u].at \in Releasing \/ Justified'
<1>1. CASE Decline(t)
  <2>1. CASE UpdateStatus("REJECT") /\ Goto(t, "voidNet")
    <3>1. status = "PENDING_APPROVAL" /\ status' = "REJECTED"
      BY <1>1, <2>1 DEF Decline, OneDecision, UpdateStatus, WithdrawTransitions
    <3>2. payout = "NONE" /\ ~InFlight({"createPayout"})
      BY <3>1 DEF NoEarlyPayout
    <3>3. NeverPaid'
      BY <1>1, <3>1, <3>2, UpdateOrThrowArrives
      DEF NeverPaid, Forward, InFlight, WithdrawTransitions, Decline
    <3> QED
      BY <3>3 DEF Justified
  <2>2. CASE Return(t)
    BY <2>2 DEF Return, Idle, TypeOK, Releasing
  <2> QED
    BY <1>1, <2>1, <2>2 DEF Decline, UpdateOrThrow
<1>2. CASE Created(t)
  BY <1>2 DEF Created, Goto, Return, Idle, TypeOK, Releasing
<1>3. CASE Valuate(t)
  BY <1>3 DEF Valuate, Goto, TypeOK, Releasing
<1>4. CASE Check(t) \/ RequireApproval(t) \/ Grant(t)
  BY <1>4 DEF Check, RequireApproval, Grant, UpdateOrThrow, Goto, Return, Idle, TypeOK, Releasing
<1>5. CASE OpenCase(t)
  BY <1>5 DEF OpenCase, Goto, TypeOK, Releasing
<1>6. CASE Decided(t)
  BY <1>6 DEF Decided, Goto, Return, Idle, TypeOK, Releasing
<1> QED
  BY <1>1, <1>2, <1>3, <1>4, <1>5, <1>6 DEF GateStep

LEMMA ReleaseCompensation ==
  ASSUME TypeOK, RailHeard, NEW t \in Task, CompensationStep(t), Forward
  PROVE  \A u \in Task : task'[u].at \in Releasing =>
           task[u].at \in Releasing \/ Justified'
<1>1. CASE Compensate(t)
  <2>1. CASE status = CompensationTarget(task[t].with)
    <3>1. Justified
      BY <1>1, <2>1 DEF Compensate, CompensationTarget, RailHeard, Justified
    <3> QED
      BY <3>1, JustifiedStays
  <2>2. CASE status # CompensationTarget(task[t].with)
    BY <1>1, <2>2 DEF Compensate, Goto, TypeOK, Releasing
  <2> QED
    BY <2>1, <2>2
<1>2. CASE CompStatus(t)
  <2>1. CASE UpdateStatus(task[t].with)
    <3>1. \/ payout \in Dead
          \/ task[t].with = "RETURN"
      BY <1>2 DEF CompStatus, RailHeard
    <3>2. task[t].with = "RETURN" => status' = "RETURNED"
      BY <2>1 DEF UpdateStatus, WithdrawTransitions
    <3> QED
      BY <3>1, <3>2 DEF Justified, Forward
  <2>2. CASE Return(t)
    BY <2>2 DEF Return, Idle, TypeOK, Releasing
  <2> QED
    BY <1>2, <2>1, <2>2 DEF CompStatus, UpdateOrThrow
<1>3. CASE VoidNet(t)
  BY <1>3 DEF VoidNet, Void, Goto, TypeOK, Releasing
<1>4. CASE VoidFee(t)
  BY <1>4 DEF VoidFee, Void, Goto, TypeOK, Releasing
<1>5. CASE CancelFund(t)
  BY <1>5 DEF CancelFund, Return, Idle, TypeOK, Releasing
<1> QED
  BY <1>1, <1>2, <1>3, <1>4, <1>5 DEF CompensationStep

LEMMA ReleaseStep ==
  ASSUME TypeOK, RailHeard, OneDecision, NoEarlyPayout, ChargeInv,
         ReleaseJustified, Forward, [Next]_vars
  PROVE  ReleaseJustified'
<1> DEFINE Quietly == \A u \in Task : task'[u].at \in Releasing => task'[u] = task[u]
           NoVoid == \A leg \in Leg : transfer'[leg] = "voided" => transfer[leg] = "voided"
<1>1. ASSUME NEW t \in Task, GateStep(t) PROVE ReleaseJustified'
  BY <1>1, ReleaseGate, GateFrame, ReleaseKept
<1>2. ASSUME NEW t \in Task, CompensationStep(t) PROVE ReleaseJustified'
  <2>1. \A leg \in Leg : transfer'[leg] = "voided" =>
           \/ transfer[leg] = "voided"
           \/ transfer[leg] = "pending" /\ InFlight(Releasing)
    BY <1>2, CompensationFrame DEF InFlight
  <2> QED
    BY <1>2, <2>1, ReleaseCompensation, ReleaseKept
<1>3. Quietly /\ NoVoid => ReleaseJustified'
  BY ReleaseKept
<1>4. ASSUME NEW t \in Task, PayoutPhaseStep(t) PROVE Quietly /\ NoVoid
  BY <1>4, PayoutPhaseFrame DEF Arrives, Releasing
<1>5. ASSUME NEW t \in Task, FinalizeStep(t) PROVE Quietly /\ NoVoid
  BY <1>5, FinalizeFrame DEF Arrives, Finalizing, Releasing
<1>6. ASSUME NEW v \in Verdict, KytResult(v) \/ TravelRuleResult(v) PROVE Quietly /\ NoVoid
  BY <1>6, ScreenResultFrame DEF Arrives, Releasing
<1>7. ASSUME NEW d \in Decision, Decide(d) PROVE Quietly /\ NoVoid
  <2>1. Arrives({"decided"})
    BY <1>7, StartArrives DEF Decide
  <2> QED
    BY <1>7, <2>1 DEF Decide, Arrives, Releasing, books
<1>8. ASSUME NEW a \in PayoutAction, PayoutUpdate(a) PROVE Quietly /\ NoVoid
  <2>1. task' = task \/ Arrives({"finalize", "compensate"})
    BY <1>8, RailFrame, StartArrives DEF Arrives
  <2> QED
    BY <1>8, <2>1, RailFrame DEF Arrives, Releasing
<1>9. ASSUME NEW a \in AdminActions, AdminUpdate(a) PROVE Quietly /\ NoVoid
  BY <1>9, AdminFrame
<1>10. ASSUME ReCloseout \/ ReCompensate PROVE Quietly /\ NoVoid
  <2>1. Arrives({"finalize"}) \/ Arrives({"compensate"})
    BY <1>10, StartArrives DEF ReCloseout, ReCompensate
  <2> QED
    BY <1>10, <2>1 DEF ReCloseout, ReCompensate, Arrives, Releasing, books
<1>11. ASSUME Fault PROVE Quietly /\ NoVoid
  BY <1>11, FaultFrame DEF Arrives, Releasing
<1>12. ASSUME UNCHANGED vars PROVE Quietly /\ NoVoid
  BY <1>12 DEF vars, books
<1> QED
  BY <1>1, <1>2, <1>3, <1>4, <1>5, <1>6, <1>7, <1>8, <1>9, <1>10, <1>11, <1>12
  DEF Next, Step, External

-----------------------------------------------------------------------------
(* The theorems.                                                           *)

LEMMA SafetyInit == Init => SafetyInv
<1>1. Init => ChargedOnlyIfPaid
  BY DEF Init, ChargedOnlyIfPaid, Leg
<1> QED
  BY <1>1, TypeInit, RailHeardInit, OneDecisionInit, NoEarlyPayoutInit, ChargeInit,
     ReleaseInit DEF SafetyInv, ChargeInv

LEMMA SafetyStep == ASSUME SafetyInv, [Next]_vars PROVE SafetyInv'
<1> USE DEF SafetyInv, ChargeInv
<1>1. Forward
  BY StepForward
<1> QED
  BY <1>1, TypeStep, RailHeardStep, OneDecisionStep, NoEarlyPayoutStep, ChargeStep,
     PaidStep, ReleaseStep

\* Everything a suspended handler relies on is still true when it resumes:
\* the inductive invariant of a withdrawal.
THEOREM SafetyInvariant == Spec => []SafetyInv
BY SafetyInit, SafetyStep, PTL DEF Spec

\* Customer and firm are charged only for money that has left the house
\* (finalizeWithdrawal against PayoutsService.updateStatus).
THEOREM NoChargeWithoutPayout == Spec => []ChargedOnlyIfPaid
<1>1. SafetyInv => ChargedOnlyIfPaid
  BY DEF SafetyInv
<1> QED
  BY <1>1, SafetyInvariant, PTL

\* The lock is given back only for money that never leaves (compensatePayout
\* and releaseLock), whatever operators and failures do meanwhile.
THEOREM NoReleaseOfPaidMoney == Spec => []ReleasedOnlyIfUnpaid
<1>1. SafetyInv => ReleasedOnlyIfUnpaid
  BY DEF SafetyInv, ReleaseJustified, NeverPaid, ReleasedOnlyIfUnpaid
<1> QED
  BY <1>1, SafetyInvariant, PTL

\* SUCCESS is written only over complete books (assertWithdrawSettled).
THEOREM SuccessIsSettled == Spec => []SettledInFull
<1>1. SafetyInv => SettledInFull
  BY DEF SafetyInv
<1> QED
  BY <1>1, SafetyInvariant, PTL

\* The firm's fee follows the customer's two payments in the ledger.
THEOREM FeeIsEarned == Spec => []FirmFeeEarned
<1>1. SafetyInv => FirmFeeEarned
  BY DEF SafetyInv
<1> QED
  BY <1>1, SafetyInvariant, PTL

\* The evidence in SQL never claims a charge the ledger does not have.
THEOREM EvidenceFollowsLedger == Spec => []EvidenceNotAhead
<1>1. SafetyInv => EvidenceNotAhead
  BY DEF SafetyInv
<1> QED
  BY <1>1, SafetyInvariant, PTL
-----------------------------------------------------------------------------
(* The ledger and its evidence.                                            *)

\* A handler in flight is moved by its own steps only.
OthersStay(t) ==
  \A u \in Task : u # t /\ task[u].at # "idle" => task'[u] = task[u]

\* A suspended handler keeps what it has read until it runs again: none of the
\* gate's, the payout phase's and the compensation's steps moves another one.
LEMMA StepMovesOne ==
  ASSUME TypeOK, NEW t \in Task,
         GateStep(t) \/ PayoutPhaseStep(t) \/ CompensationStep(t)
  PROVE  OthersStay(t) /\ task[t].at \notin Finalizing \union {"idle"}
<1> USE DEF OthersStay, TypeOK, Finalizing
<1>1. ASSUME NEW at, Goto(t, at) PROVE OthersStay(t)
  BY <1>1 DEF Goto
<1>2. ASSUME Return(t) PROVE OthersStay(t)
  BY <1>2 DEF Return
<1>3. ASSUME NEW action, NEW at, UpdateOrThrow(t, action, at) PROVE OthersStay(t)
  BY <1>1, <1>2, <1>3 DEF UpdateOrThrow
<1>4. ASSUME NEW event, NEW at, EmitAndGoto(t, event, at), task[t].at # "idle"
      PROVE  OthersStay(t)
  <2>1. PICK f \in Task : /\ f # t /\ task[f].at = "idle"
                          /\ task' = [[task EXCEPT ![t].at = at]
                                        EXCEPT ![f] = [at |-> event, with |-> "-"]]
    BY <1>4, EmitPicks
  <2> QED
    BY <2>1
<1>5. CASE GateStep(t)
  BY <1>1, <1>2, <1>3, <1>5 DEF GateStep, Created, Valuate, Check, OpenCase,
     RequireApproval, Decided, Grant, Decline
<1>6. CASE PayoutPhaseStep(t)
  BY <1>1, <1>2, <1>3, <1>4, <1>6 DEF PayoutPhaseStep, ScreenKyt, ScreenTravelRule,
     CheckPass, Approve, CreatePayout, LinkPayout, CreateFeeFund
<1>7. CASE CompensationStep(t)
  BY <1>1, <1>2, <1>3, <1>7 DEF CompensationStep, Compensate, CompStatus, VoidNet,
     VoidFee, Void, CancelFund
<1> QED
  BY <1>5, <1>6, <1>7

\* Unless a call fails, only finalizeWithdrawal moves a handler that is charging.
LEMMA OnlyFinalizeMoves ==
  ASSUME TypeOK, [Next]_vars, faults' = 0
  PROVE  \/ \A u \in Task : task[u].at \in Finalizing => task'[u] = task[u]
         \/ \E t \in Task : FinalizeStep(t)
<1> DEFINE Stay == \A u \in Task : task[u].at \in Finalizing => task'[u] = task[u]
<1>1. ASSUME NEW t \in Task, GateStep(t) \/ PayoutPhaseStep(t) \/ CompensationStep(t)
      PROVE  Stay
  BY <1>1, StepMovesOne DEF OthersStay, Finalizing
<1>2. ASSUME NEW at, NEW with, Start(at, with) PROVE Stay
  BY <1>2, StartPicks DEF TypeOK, Finalizing
<1>3. CASE External
  <2>1. ASSUME NEW a \in PayoutAction, PayoutUpdate(a) PROVE Stay
    <3>1. UNCHANGED task \/ \E at, with : Start(at, with)
      BY <2>1, RailFrame
    <3> QED
      BY <1>2, <3>1
  <2>2. ASSUME NEW a \in AdminActions, AdminUpdate(a) PROVE Stay
    BY <2>2, AdminFrame
  <2> QED
    BY <1>2, <1>3, <2>1, <2>2
    DEF External, KytResult, TravelRuleResult, Decide, ReCloseout, ReCompensate
<1>4. ~Fault
  BY DEF Fault, Crash, Throw, TypeOK
<1>5. CASE UNCHANGED vars
  BY <1>5 DEF vars
<1> QED
  BY <1>1, <1>3, <1>4, <1>5 DEF Next, Step

\* A fault is never forgotten.
LEMMA FaultsGrow ==
  ASSUME TypeOK, [Next]_vars PROVE faults' = 0 => faults = 0
<1>1. ASSUME NEW t \in Task, Step(t) PROVE faults' = faults \/ faults' = faults + 1
  BY <1>1 DEF Step, GateStep, PayoutPhaseStep, FinalizeStep, CompensationStep, UpdateOrThrow,
     Created, Valuate, Check, OpenCase, RequireApproval, Decided, Grant, Decline,
     ScreenKyt, ScreenTravelRule, CheckPass, Approve, CreatePayout, LinkPayout,
     CreateFeeFund, Finalize, PostNet, MarkNet, EnrichNet, PostFee, MarkFee, EnrichFee,
     Post, Mark, Enrich, FirmTransfer, FirmEvidence, ClearFund, AssertSettled,
     MarkSuccess, ClearPayout, Compensate, CompStatus, VoidNet, VoidFee, Void, CancelFund
<1>2. CASE External
  BY <1>2 DEF External, KytResult, TravelRuleResult, Decide, PayoutUpdate, AdminUpdate,
     ReCloseout, ReCompensate
<1>3. CASE Fault
  <2>1. faults \in Nat /\ faults' = faults + 1
    BY <1>3, MaxFaultsAssumption DEF Fault, Crash, Throw, TypeOK
  <2> QED
    BY <2>1
<1>4. CASE UNCHANGED vars
  BY <1>4 DEF vars
<1>5. faults \in Nat
  BY MaxFaultsAssumption DEF TypeOK
<1> QED
  BY <1>1, <1>2, <1>3, <1>4, <1>5 DEF Next

LEMMA RecordedInit == Init => ChargeRecorded
<1>1. Init => \A leg \in Leg : transfer[leg] # "posted"
  BY DEF Init
<1> QED
  BY <1>1 DEF ChargeRecorded, Leg

\* Nothing but finalizeWithdrawal disturbs the record of a charge.
LEMMA RecordedKept ==
  ASSUME TypeOK, ChargeRecorded, ChargeUntouched, faults' = 0 => faults = 0,
         faults' = 0 => \A u \in Task : task[u].at \in Finalizing => task'[u] = task[u]
  PROVE  ChargeRecorded'
<1> SUFFICES ASSUME faults' = 0 PROVE ChargeRecorded'
  BY DEF ChargeRecorded
<1>1. /\ \A leg \in Leg : transfer'[leg] = "posted" => transfer[leg] = "posted"
      /\ evidence' = evidence
  BY DEF ChargeUntouched
<1>2. \A place \in Finalizing : InFlight({place}) => InFlight({place})'
  BY DEF InFlight
<1>3. {"markNet", "enrichNet", "markFee", "enrichFee", "firmEvidence"} \subseteq Finalizing
  BY DEF Finalizing
<1> QED
  BY <1>1, <1>2, <1>3 DEF ChargeRecorded, Recording, Leg

LEMMA RecordedFinalize ==
  ASSUME TypeOK, LegsExist, ChargeRecorded, NEW t \in Task, FinalizeStep(t)
  PROVE  ChargeRecorded'
<1> USE DEF TypeOK, Leg
<1>1. /\ faults' = faults
      /\ \A u \in Task : u # t => task'[u] = task[u]
  BY DEF FinalizeStep, UpdateOrThrow, Finalize, PostNet, MarkNet, EnrichNet, PostFee, MarkFee,
     EnrichFee, Post, Mark, Enrich, FirmTransfer, FirmEvidence, ClearFund, AssertSettled,
     MarkSuccess, ClearPayout, Goto, Return
<1>2. ASSUME NEW place, InFlight({place}), task[t].at # place PROVE InFlight({place})'
  BY <1>1, <1>2 DEF InFlight
<1>3. ASSUME NEW at, Goto(t, at) PROVE InFlight({at})'
  BY <1>3 DEF InFlight, Goto
<1> SUFFICES ASSUME faults = 0 PROVE ChargeRecorded'
  BY <1>1 DEF ChargeRecorded
<1> DEFINE Places == {"markNet", "enrichNet", "markFee", "enrichFee", "firmEvidence"}
<1>4. ASSUME UNCHANGED <<transfer, evidence>>, task[t].at \notin Places
      PROVE  ChargeRecorded'
  <2>1. \A place \in Places : InFlight({place}) => InFlight({place})'
    BY <1>2, <1>4
  <2> QED
    BY <1>4, <2>1 DEF ChargeRecorded, Recording
<1>5. CASE Finalize(t)
  BY <1>4, <1>5 DEF Finalize, books
<1>6. CASE PostNet(t)
  <2>1. task[t].at = "postNet" /\ UNCHANGED evidence
    BY <1>6 DEF PostNet, Post
  <2>2. CASE transfer["NET"] = "pending" /\ Goto(t, "markNet")
    <3>1. InFlight({"markNet"})'
      BY <1>3, <2>2
    <3>2. \A place \in Places : InFlight({place}) => InFlight({place})'
      BY <1>2, <2>1
    <3>3. transfer'["FEE"] = transfer["FEE"] /\ transfer'["FIRM"] = transfer["FIRM"]
      BY <1>6 DEF PostNet, Post
    <3> QED
      BY <2>1, <3>1, <3>2, <3>3 DEF ChargeRecorded, Recording
  <2>3. CASE UNCHANGED transfer
    BY <1>4, <2>1, <2>3
  <2> QED
    BY <1>6, <2>2, <2>3 DEF PostNet, Post
<1>7. CASE MarkNet(t)
  <2>1. /\ evidence' = [evidence EXCEPT !["NET"].type = "POSTED"]
        /\ task[t].at = "markNet" /\ UNCHANGED transfer /\ InFlight({"enrichNet"})'
    BY <1>3, <1>7 DEF MarkNet, Mark
  <2>2. evidence'["NET"].type = "POSTED"
    BY <2>1 DEF EvidenceRow
  <2>3. evidence'["FEE"] = evidence["FEE"] /\ evidence'["FIRM"] = evidence["FIRM"]
    BY <2>1
  <2>4. \A place \in Places \ {"markNet"} : InFlight({place}) => InFlight({place})'
    BY <1>2, <2>1
  <2> QED
    BY <2>1, <2>2, <2>3, <2>4 DEF ChargeRecorded, Recording
<1>8. CASE EnrichNet(t)
  <2>1. /\ evidence' = [evidence EXCEPT !["NET"].code = "POST"]
        /\ task[t].at = "enrichNet" /\ UNCHANGED transfer
    BY <1>8 DEF EnrichNet, Enrich
  <2>2. evidence["NET"].type = "POSTED" => evidence'["NET"] = Recorded
    BY <2>1 DEF EvidenceRow, Recorded
  <2>3. evidence'["FEE"] = evidence["FEE"] /\ evidence'["FIRM"] = evidence["FIRM"]
    BY <2>1
  <2>4. \A place \in Places \ {"enrichNet"} : InFlight({place}) => InFlight({place})'
    BY <1>2, <2>1
  <2>5. evidence["NET"] = Recorded => evidence["NET"].type = "POSTED"
    BY DEF Recorded
  <2> QED
    BY <2>1, <2>2, <2>3, <2>4, <2>5 DEF ChargeRecorded, Recording
<1>9. CASE PostFee(t)
  <2>1. task[t].at = "postFee" /\ UNCHANGED evidence
    BY <1>9 DEF PostFee, Post
  <2>2. CASE transfer["FEE"] = "pending" /\ Goto(t, "markFee")
    <3>1. InFlight({"markFee"})'
      BY <1>3, <2>2
    <3>2. \A place \in Places : InFlight({place}) => InFlight({place})'
      BY <1>2, <2>1
    <3>3. transfer'["NET"] = transfer["NET"] /\ transfer'["FIRM"] = transfer["FIRM"]
      BY <1>9 DEF PostFee, Post
    <3> QED
      BY <2>1, <3>1, <3>2, <3>3 DEF ChargeRecorded, Recording
  <2>3. CASE UNCHANGED transfer
    BY <1>4, <2>1, <2>3
  <2> QED
    BY <1>9, <2>2, <2>3 DEF PostFee, Post
<1>10. CASE MarkFee(t)
  <2>1. /\ evidence' = [evidence EXCEPT !["FEE"].type = "POSTED"]
        /\ task[t].at = "markFee" /\ UNCHANGED transfer /\ InFlight({"enrichFee"})'
    BY <1>3, <1>10 DEF MarkFee, Mark
  <2>2. evidence'["FEE"].type = "POSTED"
    BY <2>1 DEF EvidenceRow
  <2>3. evidence'["NET"] = evidence["NET"] /\ evidence'["FIRM"] = evidence["FIRM"]
    BY <2>1
  <2>4. \A place \in Places \ {"markFee"} : InFlight({place}) => InFlight({place})'
    BY <1>2, <2>1
  <2> QED
    BY <2>1, <2>2, <2>3, <2>4 DEF ChargeRecorded, Recording
<1>11. CASE EnrichFee(t)
  <2>1. /\ evidence' = [evidence EXCEPT !["FEE"].code = "POST"]
        /\ task[t].at = "enrichFee" /\ UNCHANGED transfer
    BY <1>11 DEF EnrichFee, Enrich
  <2>2. evidence["FEE"].type = "POSTED" => evidence'["FEE"] = Recorded
    BY <2>1 DEF EvidenceRow, Recorded
  <2>3. evidence'["NET"] = evidence["NET"] /\ evidence'["FIRM"] = evidence["FIRM"]
    BY <2>1
  <2>4. \A place \in Places \ {"enrichFee"} : InFlight({place}) => InFlight({place})'
    BY <1>2, <2>1
  <2>5. evidence["FEE"] = Recorded => evidence["FEE"].type = "POSTED"
    BY DEF Recorded
  <2> QED
    BY <2>1, <2>2, <2>3, <2>4, <2>5 DEF ChargeRecorded, Recording
<1>12. CASE FirmTransfer(t)
  <2>1. /\ task[t].at = "firmTransfer" /\ UNCHANGED evidence
        /\ transfer'["NET"] = transfer["NET"] /\ transfer'["FEE"] = transfer["FEE"]
    BY <1>12 DEF FirmTransfer
  <2>2. \A place \in Places : InFlight({place}) => InFlight({place})'
    BY <1>2, <2>1
  <2>3. transfer["FIRM"] # "posted" => InFlight({"firmEvidence"})'
    BY <1>3, <1>12 DEF FirmTransfer, LegsExist
  <2> QED
    BY <2>1, <2>2, <2>3 DEF ChargeRecorded, Recording
<1>13. CASE FirmEvidence(t)
  <2>1. /\ evidence' = [evidence EXCEPT !["FIRM"] = Recorded]
        /\ task[t].at = "firmEvidence" /\ UNCHANGED transfer
    BY <1>13 DEF FirmEvidence, Recorded
  <2>2. \A place \in Places \ {"firmEvidence"} : InFlight({place}) => InFlight({place})'
    BY <1>2, <2>1
  <2>3. /\ evidence'["NET"] = evidence["NET"] /\ evidence'["FEE"] = evidence["FEE"]
        /\ evidence'["FIRM"] = Recorded
    BY <2>1
  <2> QED
    BY <2>1, <2>2, <2>3 DEF ChargeRecorded, Recording
<1>14. CASE ClearFund(t) \/ AssertSettled(t) \/ MarkSuccess(t) \/ ClearPayout(t)
  BY <1>4, <1>14, UpdateOrThrowArrives DEF ClearFund, AssertSettled, MarkSuccess,
     ClearPayout, books
<1> QED
  BY <1>5, <1>6, <1>7, <1>8, <1>9, <1>10, <1>11, <1>12, <1>13, <1>14 DEF FinalizeStep

LEMMA RecordedStep ==
  ASSUME SafetyInv, ChargeRecorded, [Next]_vars PROVE ChargeRecorded'
<1> USE DEF SafetyInv
<1>1. ASSUME NEW t \in Task, FinalizeStep(t) PROVE ChargeRecorded'
  BY <1>1, RecordedFinalize
<1>2. ASSUME ~\E t \in Task : FinalizeStep(t) PROVE ChargeRecorded'
  BY <1>2, OnlyFinalizeCharges, OnlyFinalizeMoves, FaultsGrow, RecordedKept
<1> QED
  BY <1>1, <1>2

\* Until something fails, a charge that the evidence does not tell is on its way
\* into it: the two stores part only while a handler is between two awaits.
THEOREM ChargesAreRecorded == Spec => []ChargeRecorded
<1>1. Init => SafetyInv /\ ChargeRecorded
  BY SafetyInit, RecordedInit
<1>2. SafetyInv /\ ChargeRecorded /\ [Next]_vars => (SafetyInv /\ ChargeRecorded)'
  BY SafetyStep, RecordedStep
<1> QED
  BY <1>1, <1>2, PTL DEF Spec

\* When no handler is in flight and nothing has failed, ledger and evidence tell
\* the same charges, whatever operators did with the status in between.
THEOREM LedgerIsRecorded == Spec => []BooksMatch
<1>1. SafetyInv /\ ChargeRecorded => BooksMatch
  <2> SUFFICES ASSUME SafetyInv, ChargeRecorded, Quiet, faults = 0
               PROVE  \A leg \in Leg : transfer[leg] = "posted" <=> evidence[leg] = Recorded
    BY DEF BooksMatch, Recorded
  <2>1. \A place : place # "idle" => ~InFlight({place})
    BY DEF Quiet, Free, InFlight
  <2>2. \A leg \in Leg : transfer[leg] = "posted" => evidence[leg] = Recorded
    BY <2>1 DEF ChargeRecorded, Recording, Leg
  <2>3. \A leg \in Leg : evidence[leg] = Recorded => transfer[leg] = "posted"
    BY DEF SafetyInv, EvidenceNotAhead, Recorded
  <2> QED
    BY <2>2, <2>3
<1> QED
  BY <1>1, SafetyInvariant, ChargesAreRecorded, PTL
=============================================================================
