----------------------- MODULE WithdrawPromiseProofs ------------------------
(***************************************************************************)
(* The handlers, events, operators and faults of a withdrawal, seen from   *)
(* the customer's money, do nothing but the four steps of CustomerLock; and *)
(* no large amount is paid without its approval.                          *)
(***************************************************************************)
EXTENDS WithdrawSafetyProofs

CustomerLegs == {"NET", "FEE"}

\* The ledger moves one leg at a time, and never in the step that moves the rail.
OneMove ==
  \/ UNCHANGED transfer
  \/ /\ UNCHANGED payout
     /\ \E new \in TransferState : transfer' = [transfer EXCEPT !["FIRM"] = new]
  \/ /\ UNCHANGED payout
     /\ \E leg \in CustomerLegs, new \in {"posted", "voided"} :
          transfer[leg] = "pending" /\ transfer' = [transfer EXCEPT ![leg] = new]

LEMMA StepIsOneMove == ASSUME TypeOK, [Next]_vars PROVE OneMove
<1> USE DEF OneMove
<1>1. ASSUME NEW t \in Task, GateStep(t) PROVE OneMove
  BY <1>1, GateFrame
<1>2. ASSUME NEW t \in Task, PayoutPhaseStep(t) PROVE OneMove
  BY <1>2, PayoutPhaseFrame
<1>3. ASSUME NEW t \in Task, FinalizeStep(t) PROVE OneMove
  <2>1. CASE PostNet(t) \/ PostFee(t)
    BY <2>1 DEF PostNet, PostFee, Post, CustomerLegs
  <2>2. CASE FirmTransfer(t)
    BY <2>2 DEF FirmTransfer, TransferState
  <2>3. CASE MarkNet(t) \/ MarkFee(t) \/ EnrichNet(t) \/ EnrichFee(t)
    BY <2>3 DEF MarkNet, MarkFee, EnrichNet, EnrichFee, Mark, Enrich
  <2>4. CASE Finalize(t) \/ FirmEvidence(t) \/ ClearFund(t) \/ AssertSettled(t) \/ ClearPayout(t)
    BY <2>4 DEF Finalize, FirmEvidence, ClearFund, AssertSettled, ClearPayout, books
  <2>5. CASE MarkSuccess(t)
    BY <2>5 DEF MarkSuccess, UpdateOrThrow, books
  <2> QED
    BY <1>3, <2>1, <2>2, <2>3, <2>4, <2>5 DEF FinalizeStep
<1>4. ASSUME NEW t \in Task, CompensationStep(t) PROVE OneMove
  <2>1. CASE VoidNet(t) \/ VoidFee(t)
    BY <2>1 DEF VoidNet, VoidFee, Void, CustomerLegs
  <2>2. CASE Compensate(t) \/ CancelFund(t)
    BY <2>2 DEF Compensate, CancelFund, books
  <2>3. CASE CompStatus(t)
    BY <2>3 DEF CompStatus, UpdateOrThrow, books
  <2> QED
    BY <1>4, <2>1, <2>2, <2>3 DEF CompensationStep
<1>5. ASSUME External PROVE OneMove
  BY <1>5 DEF External, KytResult, TravelRuleResult, Decide, PayoutUpdate, AdminUpdate,
     ReCloseout, ReCompensate, books
<1>6. CASE Fault
  BY <1>6, FaultFrame
<1>7. CASE UNCHANGED vars
  BY <1>7 DEF vars, books
<1> QED
  BY <1>1, <1>2, <1>3, <1>4, <1>5, <1>6, <1>7 DEF Next, Step

\* The state of a leg, read off the ledger.
LEMMA AbstractLegIs ==
  ASSUME NEW leg \in CustomerLegs
  PROVE  /\ transfer[leg] = "pending" => AbstractLeg[leg] = "locked"
         /\ transfer[leg] = "posted" => AbstractLeg[leg] = "charged"
         /\ transfer[leg] = "voided" => AbstractLeg[leg] = "free"
         /\ transfer[leg] \notin {"pending", "posted", "voided"} => AbstractLeg[leg] = "absent"
BY DEF AbstractLeg, CustomerLegs

LEMMA PromiseInit == Init => Promise!Init
<1> SUFFICES ASSUME Init PROVE Promise!Init
  OBVIOUS
<1>1. AbstractRail = "open"
  BY DEF Init, AbstractRail, Paid, Dead, Leg
<1>2. /\ transfer["NET"] = "pending"
      /\ transfer["FEE"] \in {"pending", "none"}
  BY DEF Init, Leg
<1>3. AbstractLeg["NET"] = "locked" /\ AbstractLeg["FEE"] \in {"locked", "absent"}
  BY <1>2, AbstractLegIs DEF CustomerLegs
<1>4. AbstractLeg \in [Promise!CustomerLeg -> {"locked", "absent"}]
  BY <1>3 DEF AbstractLeg, Promise!CustomerLeg
<1> QED
  BY <1>1, <1>3, <1>4 DEF Promise!Init

AnyVoided == \E leg \in CustomerLegs : transfer[leg] = "voided"

LEMMA AbstractRailIs ==
  AbstractRail = IF payout \in Paid THEN "paid" ELSE IF payout \in Dead THEN "dead"
                 ELSE IF AnyVoided THEN "refused" ELSE "open"
BY DEF AbstractRail, AnyVoided, CustomerLegs

\* A step that leaves the customer's legs alone moves at most the rail.
LEMMA RailMove ==
  ASSUME SafetyInv, Forward,
         \A leg \in CustomerLegs : transfer'[leg] = transfer[leg]
  PROVE  [Promise!Next]_(Promise!vars)
<1>1. AbstractLeg' = AbstractLeg
  BY DEF AbstractLeg, CustomerLegs
<1>2. AnyVoided' <=> AnyVoided
  BY DEF AnyVoided
<1>3. AbstractRail' = IF payout' \in Paid THEN "paid" ELSE IF payout' \in Dead THEN "dead"
                      ELSE IF AnyVoided THEN "refused" ELSE "open"
  BY <1>2 DEF AbstractRail, AnyVoided, CustomerLegs
<1>4. CASE AnyVoided
  <2>1. payout \in Dead \/ NeverPaid
    BY <1>4 DEF SafetyInv, ReleaseJustified, AnyVoided, CustomerLegs, Leg
  <2>2. payout' = payout
    BY <2>1, NeverPaidStep DEF Forward, NeverPaid
  <2>3. AbstractRail' = AbstractRail
    BY <1>3, <2>2, AbstractRailIs
  <2> QED
    BY <1>1, <2>3 DEF Promise!vars
<1>5. CASE ~AnyVoided
  <2>1. CASE payout \in Paid \union Dead
    <3>1. AbstractRail' = AbstractRail
      BY <1>3, <1>5, <2>1, AbstractRailIs DEF Forward
    <3> QED
      BY <1>1, <3>1 DEF Promise!vars
  <2>2. CASE payout \notin Paid \union Dead
    <3>1. AbstractRail = "open" /\ AbstractRail' \in {"open", "paid", "dead"}
      BY <1>3, <1>5, <2>2, AbstractRailIs
    <3> QED
      BY <1>1, <3>1 DEF Promise!vars, Promise!Next, Promise!Pay, Promise!Die
  <2> QED
    BY <2>1, <2>2
<1> QED
  BY <1>4, <1>5

\* A step that moves one of the customer's legs charges it or gives it back.
LEMMA LegMove ==
  ASSUME SafetyInv, SafetyInv', UNCHANGED payout,
         NEW leg \in CustomerLegs, NEW new \in {"posted", "voided"},
         transfer[leg] = "pending", transfer' = [transfer EXCEPT ![leg] = new]
  PROVE  Promise!Next
<1>1. leg \in Leg /\ transfer \in [Leg -> TransferState]
  BY DEF CustomerLegs, Leg, SafetyInv, TypeOK
<1>2. transfer'[leg] = new
  BY <1>1
<1>3. AbstractLeg[leg] = "locked"
  BY AbstractLegIs
<1>4. AbstractLeg' = [AbstractLeg EXCEPT ![leg] = IF new = "posted" THEN "charged" ELSE "free"]
  <2>1. AbstractLeg' = [l \in CustomerLegs |->
          CASE transfer'[l] = "pending" -> "locked"
            [] transfer'[l] = "posted" -> "charged"
            [] transfer'[l] = "voided" -> "free"
            [] OTHER -> "absent"]
    BY DEF AbstractLeg, CustomerLegs
  <2>2. \A l \in CustomerLegs : l # leg => transfer'[l] = transfer[l]
    BY <1>1 DEF CustomerLegs
  <2>3. \A l \in CustomerLegs :
          AbstractLeg'[l] = IF l # leg THEN AbstractLeg[l]
                            ELSE IF new = "posted" THEN "charged" ELSE "free"
    BY <1>2, <2>1, <2>2 DEF AbstractLeg, CustomerLegs
  <2>4. /\ DOMAIN AbstractLeg' = CustomerLegs /\ DOMAIN AbstractLeg = CustomerLegs
        /\ AbstractLeg' = [l \in CustomerLegs |-> AbstractLeg'[l]]
    BY <2>1 DEF AbstractLeg, CustomerLegs
  <2> QED
    BY <2>3, <2>4
<1>5. CASE new = "posted"
  <2>1. payout \in Paid
    BY <1>1, <1>2, <1>5 DEF SafetyInv, ChargedOnlyIfPaid
  <2>2. AbstractRail = "paid" /\ AbstractRail' = "paid"
    BY <2>1 DEF AbstractRail
  <2>3. Promise!Charge(leg)
    BY <1>3, <1>4, <1>5, <2>2 DEF Promise!Charge
  <2> QED
    BY <2>3 DEF Promise!Next, Promise!CustomerLeg, CustomerLegs
<1>6. CASE new = "voided"
  <2>1. payout' \in Dead \/ NeverPaid'
    BY <1>1, <1>2, <1>6 DEF SafetyInv, ReleaseJustified
  <2>2. payout \in Dead \/ payout = "NONE"
    BY <2>1 DEF NeverPaid
  <2>3. AbstractRail' = IF AbstractRail = "open" THEN "refused" ELSE AbstractRail
    <3>1. \E l \in CustomerLegs : transfer'[l] = "voided"
      BY <1>2, <1>6
    <3>2. CASE payout \in Dead
      BY <3>2 DEF AbstractRail, Dead, Paid
    <3>3. CASE payout = "NONE"
      BY <3>1, <3>3 DEF AbstractRail, Dead, Paid, CustomerLegs
    <3> QED
      BY <2>2, <3>2, <3>3
  <2>4. AbstractRail \in {"open", "refused", "dead"}
    BY <2>2 DEF AbstractRail, Dead, Paid
  <2>5. Promise!GiveBack(leg)
    BY <1>3, <1>4, <1>6, <2>3, <2>4 DEF Promise!GiveBack
  <2> QED
    BY <2>5 DEF Promise!Next, Promise!CustomerLeg, CustomerLegs
<1> QED
  BY <1>5, <1>6

LEMMA PromiseStep ==
  ASSUME SafetyInv, [Next]_vars PROVE [Promise!Next]_(Promise!vars)
<1>1. SafetyInv'
  BY SafetyStep
<1>2. Forward /\ OneMove
  BY StepForward, StepIsOneMove DEF SafetyInv
<1>3. CASE UNCHANGED transfer
  BY <1>2, <1>3, RailMove
<1>4. ASSUME NEW new \in TransferState, transfer' = [transfer EXCEPT !["FIRM"] = new]
      PROVE  [Promise!Next]_(Promise!vars)
  <2>1. \A leg \in CustomerLegs : transfer'[leg] = transfer[leg]
    BY <1>4 DEF CustomerLegs, SafetyInv, TypeOK, Leg
  <2> QED
    BY <1>2, <2>1, RailMove
<1>5. ASSUME UNCHANGED payout, NEW leg \in CustomerLegs, NEW new \in {"posted", "voided"},
             transfer[leg] = "pending", transfer' = [transfer EXCEPT ![leg] = new]
      PROVE  [Promise!Next]_(Promise!vars)
  BY <1>1, <1>5, LegMove
<1> QED
  BY <1>2, <1>3, <1>4, <1>5 DEF OneMove

\* A withdrawal keeps the promise CustomerLock states: each leg is charged
\* after the money was paid out, or given back when it never will be, once.
THEOREM WithdrawalKeepsPromise == Spec => KeepsPromise
<1>1. Init => Promise!Init
  BY PromiseInit
<1>2. SafetyInv /\ [Next]_vars => [Promise!Next]_(Promise!vars)
  BY PromiseStep
<1> QED
  BY <1>1, <1>2, SafetyInvariant, PTL DEF Spec, KeepsPromise, Promise!Spec

-----------------------------------------------------------------------------
(***************************************************************************)
(* The large-value gate.  It holds as long as no operator moves a          *)
(* withdrawal with CHECK through the admin endpoint, which is not gated.   *)
(***************************************************************************)
NotYetLarge == {"CREATED", "PENDING_APPROVAL", "CANCELLED", "REJECTED"}

\* The actions that do not open the gate.
Elsewhere == WithdrawAction \ {"CHECK", "REQUIRE_APPROVAL", "GATE_APPROVE"}
Aside == UNCHANGED status \/ \E a \in Elsewhere : <<status, a, status'>> \in WithdrawTransitions

\* A withdrawal that is not through the gate stays without a payout.
LEMMA NoPayoutYetStays ==
  ASSUME NoPayoutYet, Forward, status \in NotYetLarge
  PROVE  NoPayoutYet'
<1>1. <<status, "APPROVE", status'>> \notin WithdrawTransitions
  BY DEF NotYetLarge, WithdrawTransitions
<1> QED
  BY <1>1 DEF NoPayoutYet, Forward, InFlight

\* Enough for GateKept: the step is not one of the gate's own.
LEMMA GateKeptQuiet ==
  ASSUME GateKept, Forward, Aside, UNCHANGED <<approval, valuation>>,
         \A u \in Task : task'[u].at \in BeforeGate \union {"decided", "grant"} =>
           task'[u] = task[u]
  PROVE  GateKept'
<1>1. /\ status \in {"CREATED", "CANCELLED"} => status' \in {"CREATED", "CANCELLED"}
      /\ status \in NotYetLarge => status' \in NotYetLarge
  BY DEF Aside, Elsewhere, WithdrawAction, WithdrawTransitions, NotYetLarge
<1>2. Alone(BeforeGate)'
  BY DEF GateKept, Alone
<1>3. InFlight(Opening \union {"check"})' =>
        status' \in {"CREATED", "CANCELLED"} /\ NoPayoutYet'
  <2> SUFFICES ASSUME InFlight(Opening \union {"check"})'
               PROVE  status' \in {"CREATED", "CANCELLED"} /\ NoPayoutYet'
    OBVIOUS
  <2>1. InFlight(Opening \union {"check"})
    BY DEF InFlight, BeforeGate
  <2> QED
    BY <1>1, <2>1, NoPayoutYetStays DEF GateKept, NotYetLarge
<1>4. InFlight({"check"})' => valuation' = "SMALL"
  BY DEF GateKept, InFlight, BeforeGate
<1>5. /\ \A t \in Task : task'[t].at \in {"decided", "grant"} => approval' = task'[t].with
      /\ InFlight({"grant"})' => approval' = "APPROVED"
  BY DEF GateKept, InFlight
<1>6. valuation' = "LARGE" =>
        approval' = "APPROVED" \/ (status' \in NotYetLarge /\ NoPayoutYet')
  BY <1>1, NoPayoutYetStays DEF GateKept, NotYetLarge
<1> QED
  BY <1>2, <1>3, <1>4, <1>5, <1>6 DEF GateKept, NotYetLarge

LEMMA GateKeptInit == Init => GateKept
<1> SUFFICES ASSUME Init PROVE GateKept
  OBVIOUS
<1> DEFINE first == CHOOSE t \in Task : TRUE
<1>1. \A t \in Task : /\ task[t].at \in {"created", "idle"}
                      /\ task[t].at = "created" => t = first
  BY DEF Init, Idle
<1> HIDE DEF first
<1> QED
  BY <1>1 DEF Init, GateKept, NoPayoutYet, Alone, InFlight, BeforeGate, Opening

LEMMA GateKeptGate ==
  ASSUME TypeOK, OneDecision, GateKept, Forward, NEW t \in Task, GateStep(t)
  PROVE  GateKept'
<1> USE DEF fixed, row, screen, books
<1>1. CASE Created(t)
  <2>1. /\ UNCHANGED <<status, approval, payout, valuation>>
        /\ task[t].at = "created"
        /\ \A u \in Task : task'[u] = task[u] \/ u = t
        /\ \/ task'[t].at = "valuate" /\ status = "CREATED"
           \/ task'[t].at = "idle"
    BY <1>1 DEF Created, Goto, Return, Idle, TypeOK
  <2> QED
    BY <2>1 DEF GateKept, NoPayoutYet, Alone, InFlight, BeforeGate, Opening
<1>2. CASE Valuate(t)
  <2>1. /\ UNCHANGED <<status, approval, payout>>
        /\ task[t].at = "valuate"
        /\ \A u \in Task : task'[u] = task[u] \/ u = t
        /\ \/ task'[t].at = "openCase" /\ valuation' = "LARGE"
           \/ task'[t].at = "check" /\ valuation' = "SMALL"
    BY <1>2 DEF Valuate, Goto, TypeOK
  <2>2. status \in {"CREATED", "CANCELLED"} /\ NoPayoutYet
    BY <2>1 DEF GateKept, InFlight, Opening
  <2>3. \A u \in Task : task'[u].at \in BeforeGate => u = t
    BY <2>1 DEF GateKept, Alone, BeforeGate, Opening
  <2>4. NoPayoutYet'
    BY <2>1, <2>2 DEF NoPayoutYet, InFlight
  <2> QED
    BY <2>1, <2>2, <2>3, <2>4 DEF GateKept, Alone, InFlight, BeforeGate, Opening
<1>3. CASE Check(t)
  <2>1. /\ UNCHANGED <<approval, payout, valuation>>
        /\ task[t].at = "check"
        /\ \A u \in Task : task'[u] = task[u] \/ u = t
        /\ task'[t].at \in {"idle", "screenKyt"}
    BY <1>3 DEF Check, UpdateOrThrow, Goto, Return, Idle, TypeOK
  <2>2. valuation = "SMALL"
    BY <2>1 DEF GateKept, InFlight
  <2>3. \A u \in Task : task'[u].at \notin BeforeGate
    BY <2>1 DEF GateKept, Alone, BeforeGate, Opening
  <2> QED
    BY <2>1, <2>2, <2>3 DEF GateKept, Alone, InFlight, BeforeGate, Opening
<1>4. CASE OpenCase(t)
  <2>1. /\ UNCHANGED <<status, payout, valuation>>
        /\ task[t].at = "openCase" /\ approval' = "PENDING"
        /\ \A u \in Task : task'[u] = task[u] \/ u = t
        /\ task'[t].at = "requireApproval"
    BY <1>4 DEF OpenCase, Goto, TypeOK
  <2>2. /\ status \in {"CREATED", "CANCELLED"} /\ NoPayoutYet
        /\ \A u \in Task : task[u].at \notin Deciding
    BY <2>1 DEF GateKept, OneDecision, InFlight, Opening, Decision
  <2>3. \A u \in Task : task'[u].at \in BeforeGate => u = t
    BY <2>1 DEF GateKept, Alone, BeforeGate, Opening
  <2>4. NoPayoutYet'
    BY <2>1, <2>2 DEF NoPayoutYet, InFlight
  <2> QED
    BY <2>1, <2>2, <2>3, <2>4
    DEF GateKept, Alone, InFlight, BeforeGate, Opening, Deciding
<1>5. CASE RequireApproval(t)
  <2>1. /\ UNCHANGED <<approval, payout, valuation>>
        /\ task[t].at = "requireApproval"
        /\ \A u \in Task : task'[u] = task[u] \/ u = t
        /\ task'[t].at = "idle"
    BY <1>5 DEF RequireApproval, UpdateOrThrow, Goto, Return, Idle, TypeOK
  <2>2. \A u \in Task : task'[u].at \notin BeforeGate
    BY <2>1 DEF GateKept, Alone, BeforeGate, Opening
  <2>3. status' = status \/ <<status, "REQUIRE_APPROVAL", status'>> \in WithdrawTransitions
    BY <1>5, UpdateOrThrowArrives DEF RequireApproval
  <2>4. status \in NotYetLarge => status' \in NotYetLarge
    BY <2>3 DEF NotYetLarge, WithdrawTransitions
  <2>5. NoPayoutYet => NoPayoutYet'
    BY <2>1 DEF NoPayoutYet, InFlight
  <2> QED
    BY <2>1, <2>2, <2>4, <2>5
    DEF GateKept, Alone, InFlight, BeforeGate, Opening, NotYetLarge
<1>6. CASE Decided(t)
  <2>1. /\ UNCHANGED <<status, approval, payout, valuation>>
        /\ task[t].at = "decided"
        /\ \A u \in Task : task'[u] = task[u] \/ u = t
        /\ \/ task'[t].at \in {"idle", "decline"}
           \/ /\ task'[t].at = "grant" /\ task'[t].with = task[t].with
              /\ task[t].with = "APPROVED"
    BY <1>6 DEF Decided, Goto, Return, Idle, TypeOK
  <2>2. approval = task[t].with
    BY <2>1 DEF GateKept
  <2>3. \A u \in Task : task'[u].at \in BeforeGate \union {"createPayout"} => task'[u] = task[u]
    BY <2>1 DEF BeforeGate, Opening
  <2>4. NoPayoutYet' <=> NoPayoutYet
    BY <2>1 DEF NoPayoutYet, InFlight
  <2> QED
    BY <2>1, <2>2, <2>3, <2>4 DEF GateKept, Alone, InFlight, BeforeGate, Opening
<1>7. CASE Grant(t)
  <2>1. /\ UNCHANGED <<approval, payout, valuation>>
        /\ task[t].at = "grant"
        /\ \A u \in Task : task'[u] = task[u] \/ u = t
        /\ task'[t].at \in {"idle", "screenKyt"}
    BY <1>7 DEF Grant, UpdateOrThrow, Goto, Return, Idle, TypeOK
  <2>2. approval = "APPROVED"
    BY <2>1 DEF GateKept, InFlight
  <2>3. status' = status \/ <<status, "GATE_APPROVE", status'>> \in WithdrawTransitions
    BY <1>7, UpdateOrThrowArrives DEF Grant
  <2>4. status \in {"CREATED", "CANCELLED"} => status' = status
    BY <2>3 DEF WithdrawTransitions
  <2>5. \A u \in Task : task'[u].at \in BeforeGate \union {"createPayout", "decided", "grant"} =>
          task'[u] = task[u]
    BY <2>1 DEF BeforeGate, Opening
  <2>6. NoPayoutYet => NoPayoutYet'
    BY <2>1, <2>5 DEF NoPayoutYet, InFlight
  <2> QED
    BY <2>1, <2>2, <2>4, <2>5, <2>6 DEF GateKept, Alone, InFlight, BeforeGate, Opening
<1>8. CASE Decline(t)
  <2>1. UNCHANGED <<approval, valuation>>
    BY <1>8 DEF Decline, UpdateOrThrow
  <2>2. UNCHANGED status \/ <<status, "REJECT", status'>> \in WithdrawTransitions
    BY <1>8, UpdateOrThrowArrives DEF Decline
  <2>3. Arrives({"idle", "voidNet"})
    BY <1>8, UpdateOrThrowArrives DEF Decline
  <2>4. \A u \in Task : task'[u].at \in BeforeGate \union {"decided", "grant"} =>
           task'[u] = task[u]
    BY <2>3 DEF Arrives, BeforeGate, Opening
  <2> QED
    BY <2>1, <2>2, <2>4, GateKeptQuiet DEF Aside, Elsewhere, WithdrawAction
<1> QED
  BY <1>1, <1>2, <1>3, <1>4, <1>5, <1>6, <1>7, <1>8 DEF GateStep

LEMMA GateKeptStep ==
  ASSUME "CHECK" \notin AdminActions, SafetyInv, GateKept, [Next]_vars
  PROVE  GateKept'
<1> DEFINE Quietly == \A u \in Task :
      task'[u].at \in BeforeGate \union {"decided", "grant"} => task'[u] = task[u]
<1> USE DEF SafetyInv
<1>0. Forward
  BY StepForward
<1>1. ASSUME NEW t \in Task, GateStep(t) PROVE GateKept'
  BY <1>0, <1>1, GateKeptGate
<1>2. ASSUME NEW t \in Task, PayoutPhaseStep(t) PROVE GateKept'
  <2>1. Quietly
    BY <1>2, PayoutPhaseFrame DEF Arrives, BeforeGate, Opening
  <2>2. Aside /\ UNCHANGED <<approval, valuation>>
    BY <1>2, PayoutPhaseFrame DEF Aside, Elsewhere, WithdrawAction
  <2> QED
    BY <1>0, <2>1, <2>2, GateKeptQuiet
<1>3. ASSUME NEW t \in Task, FinalizeStep(t) PROVE GateKept'
  <2>1. Quietly
    BY <1>3, FinalizeFrame DEF Arrives, Finalizing, BeforeGate, Opening
  <2>2. Aside /\ UNCHANGED <<approval, valuation>>
    BY <1>3, FinalizeFrame DEF Aside, Elsewhere, WithdrawAction
  <2> QED
    BY <1>0, <2>1, <2>2, GateKeptQuiet
<1>4. ASSUME NEW t \in Task, CompensationStep(t) PROVE GateKept'
  <2>1. Quietly
    BY <1>4, CompensationFrame DEF Arrives, Releasing, BeforeGate, Opening
  <2>2. task[t].at = "compStatus" => task[t].with \in Elsewhere
    BY DEF RailHeard, Elsewhere, WithdrawAction
  <2>3. Aside /\ UNCHANGED <<approval, valuation>>
    BY <1>4, <2>2, CompensationFrame DEF Aside
  <2> QED
    BY <1>0, <2>1, <2>3, GateKeptQuiet
<1>5. ASSUME NEW v \in Verdict, KytResult(v) \/ TravelRuleResult(v) PROVE GateKept'
  <2>1. Quietly
    BY <1>5, ScreenResultFrame DEF Arrives, BeforeGate, Opening
  <2> QED
    BY <1>0, <1>5, <2>1, ScreenResultFrame, GateKeptQuiet DEF Aside
<1>6. ASSUME NEW d \in Decision, Decide(d) PROVE GateKept'
  <2>1. PICK f \in Task : /\ task' = [task EXCEPT ![f] = [at |-> "decided", with |-> d]]
                          /\ task[f].at = "idle"
                          /\ approval = "PENDING" /\ approval' = d
                          /\ UNCHANGED <<status, payout, valuation>>
    BY <1>6, StartPicks DEF Decide, row
  <2>2. \A u \in Task : task[u].at \notin Deciding
    BY <2>1 DEF OneDecision, InFlight, Decision
  <2>3. /\ \A u \in Task : u # f => task'[u] = task[u]
        /\ task'[f].at = "decided" /\ task'[f].with = d
    BY <2>1 DEF TypeOK
  <2>4. NoPayoutYet => NoPayoutYet'
    BY <2>1, <2>3 DEF NoPayoutYet, InFlight
  <2> QED
    BY <2>1, <2>2, <2>3, <2>4
    DEF GateKept, Alone, InFlight, BeforeGate, Opening, Deciding
<1>7. ASSUME NEW a \in PayoutAction, PayoutUpdate(a) PROVE GateKept'
  <2>1. task' = task \/ Arrives({"finalize", "compensate"})
    BY <1>7, RailFrame, StartArrives DEF Arrives
  <2>2. Quietly
    BY <2>1 DEF Arrives, BeforeGate, Opening
  <2> QED
    BY <1>0, <1>7, <2>2, RailFrame, GateKeptQuiet DEF Aside
<1>8. ASSUME NEW a \in AdminActions, AdminUpdate(a) PROVE GateKept'
  <2>1. a \in Elsewhere
    BY <1>8, AdminFrame DEF AdminWithdrawAction, Elsewhere, WithdrawAction
  <2>2. Aside
    BY <1>8, <2>1, AdminFrame DEF Aside
  <2> QED
    BY <1>0, <1>8, <2>2, AdminFrame, GateKeptQuiet
<1>9. ASSUME ReCloseout \/ ReCompensate PROVE GateKept'
  <2>1. Arrives({"finalize"}) \/ Arrives({"compensate"})
    BY <1>9, StartArrives DEF ReCloseout, ReCompensate
  <2>2. Quietly
    BY <2>1 DEF Arrives, BeforeGate, Opening
  <2>3. UNCHANGED <<status, approval, valuation>>
    BY <1>9 DEF ReCloseout, ReCompensate, row
  <2> QED
    BY <1>0, <2>2, <2>3, GateKeptQuiet DEF Aside
<1>10. CASE Fault
  <2>1. Quietly
    BY <1>10, FaultFrame DEF Arrives, BeforeGate, Opening
  <2> QED
    BY <1>0, <1>10, <2>1, FaultFrame, GateKeptQuiet DEF Aside
<1>11. CASE UNCHANGED vars
  BY <1>0, <1>11, GateKeptQuiet DEF Aside, vars, row
<1> QED
  BY <1>1, <1>2, <1>3, <1>4, <1>5, <1>6, <1>7, <1>8, <1>9, <1>10, <1>11
  DEF Next, Step, External

\* No payout is made for a large withdrawal before its case is approved
\* (openApprovalGate and onLargeValueApprovalDecided), unless an operator
\* opens the gate with CHECK.
THEOREM LargeNeedsApproval ==
  ASSUME "CHECK" \notin AdminActions
  PROVE  Spec => []LargeIsApproved
<1>1. Init => GateKept
  BY GateKeptInit
<1>2. SafetyInv /\ GateKept /\ [Next]_vars => GateKept'
  BY GateKeptStep
<1>3. GateKept => LargeIsApproved
  BY DEF GateKept, NoPayoutYet, LargeIsApproved
<1> QED
  BY <1>1, <1>2, <1>3, SafetyInvariant, PTL DEF Spec
-----------------------------------------------------------------------------
(***************************************************************************)
(* No answer of the rail is dropped.  Only one handler gets past the       *)
(* ledger's check of the net leg, the row of a withdrawal with a payout    *)
(* waits for the rail, and until something fails the handler that will do  *)
(* what the rail has decided is in flight or has done it.                  *)
(***************************************************************************)

LEMMA OutcomeInit == Init => OutcomeReached
<1> SUFFICES ASSUME Init PROVE OutcomeReached
  OBVIOUS
<1>1. \A t \in Task : task[t].at \in {"created", "idle"}
  BY DEF Init, Idle
<1>2. OneCharges
  BY <1>1 DEF Init, OneCharges, Alone, InFlight, Charging, NetRecorded, FeeRecorded,
     FirmRecorded, Leg
<1>3. RowFollowsRail /\ Underway
  BY <1>1 DEF Init, RowFollowsRail, Underway, InFlight, Dead
<1> QED
  BY <1>2, <1>3 DEF OutcomeReached

\* The handler that is charging stays the only one wherever it goes.
LEMMA ChargerAlone ==
  ASSUME TypeOK, Alone(Charging), NEW t \in Task, task[t].at \in Charging,
         NEW at, Goto(t, at) \/ (Return(t) /\ at = "idle")
  PROVE  /\ \A u \in Task : task'[u].at \in Charging => u = t
         /\ task'[t].at = at
         /\ \A places \in SUBSET Charging : InFlight(places)' => at \in places
BY DEF TypeOK, Alone, InFlight, Goto, Return, Idle

\* No step outside finalizeWithdrawal disturbs the one that charges.
LEMMA ChargerKept == ASSUME TypeOK, LegsExist, OneCharges, ChargeUntouched PROVE OneCharges'
<1>1. \A u \in Task : task'[u].at \in Charging => task'[u] = task[u]
  BY DEF ChargeUntouched, Charging, Finalizing
<1>2. Alone(Charging)'
  BY <1>1 DEF OneCharges, Alone
<1>3. ASSUME NEW places \in SUBSET Charging, InFlight(places)' PROVE InFlight(places)
  BY <1>1, <1>3 DEF InFlight
<1>4. /\ \A leg \in Leg : transfer'[leg] = "posted" <=> transfer[leg] = "posted"
      /\ \A leg \in Leg : transfer'[leg] = "none" <=> transfer[leg] = "none"
      /\ UNCHANGED <<evidence, hasFee>>
  BY DEF ChargeUntouched
<1>5. /\ NetRecorded \in SUBSET Charging /\ FeeRecorded \in SUBSET Charging
      /\ FirmRecorded \in SUBSET Charging
  BY DEF NetRecorded, FeeRecorded, FirmRecorded
<1>6. /\ {"postFee", "markFee", "enrichFee", "firmTransfer", "firmEvidence"} \in SUBSET Charging
      /\ {"markNet", "enrichNet", "postFee"} \in SUBSET Charging
      /\ Charging \ (FirmRecorded \union {"firmEvidence"}) \in SUBSET Charging
  BY DEF Charging
<1> QED
  BY <1>2, <1>3, <1>4, <1>5, <1>6 DEF OneCharges, Leg

LEMMA ChargerFinalize ==
  ASSUME TypeOK, LegsExist, FirmFeeEarned, OneCharges, NEW t \in Task, FinalizeStep(t)
  PROVE  OneCharges'
<1> USE DEF TypeOK, Leg, fixed, books, row, Charging, NetRecorded, FeeRecorded, FirmRecorded
<1>1. ASSUME UNCHANGED <<hasFee, transfer, evidence>>,
             \A u \in Task : task'[u].at \in Charging => task'[u] = task[u]
      PROVE  OneCharges'
  BY <1>1 DEF OneCharges, Alone, InFlight
<1>2. CASE Finalize(t)
  BY <1>1, <1>2 DEF Finalize, Return, Idle
<1>3. CASE PostNet(t)
  <2>1. CASE /\ transfer["NET"] = "pending" /\ Goto(t, "markNet")
             /\ transfer' = [transfer EXCEPT !["NET"] = "posted"]
    <3>1. \A u \in Task : task[u].at \notin Charging
      BY <2>1 DEF OneCharges, InFlight
    <3>2. /\ \A u \in Task : task'[u].at \in Charging => u = t
          /\ task'[t].at = "markNet"
      BY <2>1, <3>1 DEF Goto
    <3>3. /\ transfer'["NET"] = "posted" /\ transfer'["FEE"] = transfer["FEE"]
          /\ transfer'["FIRM"] = transfer["FIRM"] /\ UNCHANGED hasFee
      BY <1>3, <2>1 DEF PostNet, Post
    <3>4. transfer["FIRM"] = "none" /\ (hasFee => transfer["FEE"] # "posted")
      BY <2>1 DEF OneCharges, LegsExist, FirmFeeEarned
    <3> QED
      BY <3>2, <3>3, <3>4 DEF OneCharges, Alone, InFlight
  <2>2. CASE Return(t) /\ UNCHANGED transfer
    BY <1>1, <1>3, <2>2 DEF PostNet, Post, Return, Idle
  <2> QED
    BY <1>3, <2>1, <2>2 DEF PostNet, Post
<1>4. CASE ClearPayout(t)
  BY <1>1, <1>4 DEF ClearPayout, Return, Idle
<1> DEFINE NextPlace(places) ==
      /\ UNCHANGED hasFee
      /\ \A u \in Task : task'[u].at \in Charging => u = t
      /\ task'[t].at \in places
<1>5. ASSUME NEW at, task[t].at \in Charging, Goto(t, at), UNCHANGED hasFee
      PROVE  NextPlace({at})
  BY <1>5, ChargerAlone DEF OneCharges
<1>6. ASSUME task[t].at \in Charging, Return(t), UNCHANGED hasFee PROVE NextPlace({"idle"})
  BY <1>6, ChargerAlone DEF OneCharges
<1>7. CASE MarkNet(t)
  <2>1. /\ NextPlace({"enrichNet"}) /\ task[t].at = "markNet" /\ UNCHANGED transfer
        /\ \A leg \in Leg : evidence'[leg].code = evidence[leg].code
    BY <1>5, <1>7 DEF MarkNet, Mark, EvidenceRow
  <2> QED
    BY <2>1 DEF OneCharges, Alone, InFlight
<1>8. CASE EnrichNet(t)
  <2>1. /\ NextPlace(IF hasFee THEN {"postFee"} ELSE {"clearFund"})
        /\ task[t].at = "enrichNet" /\ UNCHANGED transfer
        /\ evidence'["NET"].code = "POST"
    BY <1>5, <1>8 DEF EnrichNet, Enrich, EvidenceRow
  <2> QED
    BY <2>1 DEF OneCharges, Alone, InFlight
<1>9. CASE PostFee(t)
  <2>1. task[t].at = "postFee" /\ UNCHANGED <<hasFee, evidence>>
    BY <1>9 DEF PostFee, Post
  <2>2. CASE /\ transfer["FEE"] = "pending" /\ Goto(t, "markFee")
             /\ transfer' = [transfer EXCEPT !["FEE"] = "posted"]
    <3>1. /\ NextPlace({"markFee"}) /\ transfer'["NET"] = transfer["NET"]
          /\ transfer'["FEE"] = "posted" /\ transfer'["FIRM"] = transfer["FIRM"]
      BY <1>5, <2>1, <2>2
    <3> QED
      BY <2>1, <3>1 DEF OneCharges, Alone, InFlight
  <2>3. CASE Return(t) /\ UNCHANGED transfer
    BY <1>1, <2>1, <2>3 DEF Return, Idle
  <2> QED
    BY <1>9, <2>2, <2>3 DEF PostFee, Post
<1>10. CASE MarkFee(t)
  <2>1. /\ NextPlace({"enrichFee"}) /\ task[t].at = "markFee" /\ UNCHANGED transfer
        /\ \A leg \in Leg : evidence'[leg].code = evidence[leg].code
    BY <1>5, <1>10 DEF MarkFee, Mark, EvidenceRow
  <2> QED
    BY <2>1 DEF OneCharges, Alone, InFlight
<1>11. CASE EnrichFee(t)
  <2>1. /\ NextPlace({"firmTransfer"}) /\ task[t].at = "enrichFee" /\ UNCHANGED transfer
        /\ evidence'["FEE"].code = "POST" /\ evidence'["NET"].code = evidence["NET"].code
    BY <1>5, <1>11 DEF EnrichFee, Enrich, EvidenceRow
  <2> QED
    BY <2>1 DEF OneCharges, Alone, InFlight
<1>12. CASE FirmTransfer(t)
  <2>1. task[t].at = "firmTransfer" /\ UNCHANGED <<hasFee, evidence>>
    BY <1>12 DEF FirmTransfer
  <2>2. transfer["FIRM"] = "none"
    BY <2>1 DEF OneCharges, InFlight
  <2>3. /\ NextPlace({"firmEvidence"}) /\ transfer'["NET"] = transfer["NET"]
        /\ transfer'["FEE"] = transfer["FEE"]
    BY <1>5, <1>12, <2>1, <2>2 DEF FirmTransfer
  <2> QED
    BY <2>1, <2>3 DEF OneCharges, Alone, InFlight
<1>13. CASE FirmEvidence(t)
  <2>1. /\ NextPlace({"clearFund"}) /\ task[t].at = "firmEvidence" /\ UNCHANGED transfer
        /\ evidence'["FIRM"].code = "POST" /\ evidence'["NET"] = evidence["NET"]
        /\ evidence'["FEE"] = evidence["FEE"]
    BY <1>5, <1>13 DEF FirmEvidence
  <2> QED
    BY <2>1 DEF OneCharges, Alone, InFlight
<1>14. CASE ClearFund(t)
  <2>1. NextPlace({"assertSettled"}) /\ task[t].at = "clearFund" /\ UNCHANGED books
    BY <1>5, <1>14 DEF ClearFund
  <2> QED
    BY <2>1 DEF OneCharges, Alone, InFlight
<1>15. CASE AssertSettled(t)
  <2>1. /\ NextPlace({"markSuccess", "idle"}) /\ task[t].at = "assertSettled"
        /\ UNCHANGED books
    BY <1>5, <1>6, <1>15 DEF AssertSettled
  <2> QED
    BY <2>1 DEF OneCharges, Alone, InFlight
<1>16. CASE MarkSuccess(t)
  <2>1. /\ NextPlace({"clearPayout", "idle"}) /\ task[t].at = "markSuccess"
        /\ UNCHANGED books
    BY <1>5, <1>6, <1>16 DEF MarkSuccess, UpdateOrThrow
  <2> QED
    BY <2>1 DEF OneCharges, Alone, InFlight
<1> QED
  BY <1>2, <1>3, <1>4, <1>7, <1>8, <1>9, <1>10, <1>11, <1>12, <1>13, <1>14, <1>15,
     <1>16 DEF FinalizeStep

LEMMA ChargerStep ==
  ASSUME SafetyInv, OneCharges, [Next]_vars PROVE OneCharges'
BY OnlyFinalizeCharges, ChargerKept, ChargerFinalize DEF SafetyInv

Awaiting == {"PAYOUT_PENDING", "SUCCESS", "FAILED", "RETURNED"}
\* The actions by which an operator can take a withdrawal from under its payout.
Overrides == {"FLAG", "REJECT"}

\* Enough for RowFollowsRail: the status moves as it may while the rail works, to
\* FAILED or RETURNED only when the rail has said so, and the rail keeps its word.
LEMMA RowKept ==
  ASSUME RowFollowsRail, Forward,
         status \in Awaiting => status' \in Awaiting,
         status' = "FAILED" => status = "FAILED" \/ payout \in Dead,
         status' = "RETURNED" => status = "RETURNED" \/ payout = "RETURNED",
         payout = "RETURNED" => payout' = "RETURNED"
  PROVE  RowFollowsRail'
<1>1. ASSUME payout' # "NONE" \/ InFlight({"createPayout"})' PROVE status' \in Awaiting
  <2>1. CASE payout # "NONE" \/ InFlight({"createPayout"})
    BY <2>1 DEF RowFollowsRail, Awaiting
  <2>2. CASE payout = "NONE" /\ ~InFlight({"createPayout"})
    <3>1. PICK u \in Task : task'[u].at = "createPayout"
      BY <1>1, <2>2 DEF Forward, InFlight
    <3>2. <<status, "APPROVE", status'>> \in WithdrawTransitions
      BY <2>2, <3>1 DEF Forward, InFlight
    <3> QED
      BY <3>2 DEF WithdrawTransitions, Awaiting
  <2> QED
    BY <2>1, <2>2
<1>2. status' = "FAILED" => payout' \in Dead
  BY DEF RowFollowsRail, Forward
<1>3. status' = "RETURNED" => payout' = "RETURNED"
  BY DEF RowFollowsRail
<1> QED
  BY <1>1, <1>2, <1>3 DEF RowFollowsRail, Awaiting

\* What the table says of a step that is neither a flag nor a rejection.
LEMMA TableMoves ==
  ASSUME NEW a \in WithdrawAction \ Overrides, <<status, a, status'>> \in WithdrawTransitions
  PROVE  /\ status \in Awaiting => status' \in Awaiting
         /\ status' = "FAILED" <=> a = "FAIL"
         /\ status' = "RETURNED" <=> a = "RETURN"
BY DEF WithdrawTransitions, WithdrawAction, Overrides, Awaiting

LEMMA RowStep ==
  ASSUME AdminActions \intersect Overrides = {}, SafetyInv, RowFollowsRail, [Next]_vars
  PROVE  RowFollowsRail'
<1> USE DEF SafetyInv
<1>0. Forward
  BY StepForward
<1> DEFINE Moves == /\ status \in Awaiting => status' \in Awaiting
                    /\ status' = "FAILED" => status = "FAILED" \/ payout \in Dead
                    /\ status' = "RETURNED" => status = "RETURNED" \/ payout = "RETURNED"
           Keeps == payout = "RETURNED" => payout' = "RETURNED"
<1>1. ASSUME UNCHANGED status PROVE Moves
  BY <1>1
<1>2. ASSUME NEW a \in WithdrawAction \ (Overrides \union {"FAIL", "RETURN"}),
             <<status, a, status'>> \in WithdrawTransitions
      PROVE  Moves
  BY <1>2, TableMoves
<1>3. ASSUME NEW t \in Task, GateStep(t) PROVE Moves /\ Keeps
  <2>1. CASE Decline(t)
    <3>1. status \in Turned
      BY <2>1 DEF Decline, OneDecision, Turned
    <3>2. UNCHANGED status \/ <<status, "REJECT", status'>> \in WithdrawTransitions
      BY <2>1, UpdateOrThrowArrives DEF Decline
    <3> QED
      BY <1>3, <3>1, <3>2, GateFrame DEF Turned, Awaiting, WithdrawTransitions
  <2>2. CASE Check(t) \/ RequireApproval(t) \/ Grant(t)
    <3>1. PICK a \in {"CHECK", "REQUIRE_APPROVAL", "GATE_APPROVE"} :
            UNCHANGED status \/ <<status, a, status'>> \in WithdrawTransitions
      BY <2>2, UpdateOrThrowArrives DEF Check, RequireApproval, Grant
    <3>2. Moves
      BY <3>1, <1>1, <1>2 DEF WithdrawAction, Overrides
    <3> QED
      BY <1>3, <3>2, GateFrame
  <2>3. CASE Created(t) \/ Valuate(t) \/ OpenCase(t) \/ Decided(t)
    <3>1. UNCHANGED status
      BY <2>3 DEF Created, Valuate, OpenCase, Decided, row
    <3> QED
      BY <1>1, <1>3, <3>1, GateFrame
  <2> QED
    BY <1>3, <2>1, <2>2, <2>3 DEF GateStep
<1>4. ASSUME NEW t \in Task, PayoutPhaseStep(t) PROVE Moves /\ Keeps
  <2>1. Moves
    BY <1>1, <1>2, <1>4, PayoutPhaseFrame DEF WithdrawAction, Overrides
  <2> QED
    BY <1>4, <2>1, PayoutPhaseFrame
<1>5. ASSUME NEW t \in Task, FinalizeStep(t) PROVE Moves /\ Keeps
  <2>1. Moves
    BY <1>1, <1>2, <1>5, FinalizeFrame DEF WithdrawAction, Overrides
  <2> QED
    BY <1>5, <2>1, FinalizeFrame
<1>6. ASSUME NEW t \in Task, CompensationStep(t) PROVE Moves /\ Keeps
  <2>1. CASE <<status, task[t].with, status'>> \in WithdrawTransitions /\ task[t].at = "compStatus"
    <3>1. \/ task[t].with = "FAIL" /\ payout \in Dead
          \/ task[t].with = "RETURN" /\ payout = "RETURNED"
      BY <2>1 DEF RailHeard
    <3>2. task[t].with \in WithdrawAction \ Overrides
      BY <3>1 DEF WithdrawAction, Overrides
    <3>3. /\ status \in Awaiting => status' \in Awaiting
          /\ status' = "FAILED" <=> task[t].with = "FAIL"
          /\ status' = "RETURNED" <=> task[t].with = "RETURN"
      BY <2>1, <3>2, TableMoves
    <3> QED
      BY <1>6, <3>1, <3>3, CompensationFrame
  <2> QED
    BY <1>1, <1>6, <2>1, CompensationFrame
<1>7. ASSUME NEW v \in Verdict, KytResult(v) \/ TravelRuleResult(v) PROVE Moves /\ Keeps
  BY <1>1, <1>7, ScreenResultFrame
<1>8. ASSUME NEW d \in Decision, Decide(d) PROVE Moves /\ Keeps
  BY <1>1, <1>8 DEF Decide, row
<1>9. ASSUME NEW a \in PayoutAction, PayoutUpdate(a) PROVE Moves /\ Keeps
  BY <1>1, <1>9, RailFrame
<1>10. ASSUME NEW a \in AdminActions, AdminUpdate(a) PROVE Moves /\ Keeps
  <2>1. a \in WithdrawAction \ (Overrides \union {"FAIL", "RETURN"})
    BY <1>10, AdminFrame DEF AdminWithdrawAction, WithdrawAction, Overrides
  <2> QED
    BY <1>2, <1>10, <2>1, AdminFrame
<1>11. ASSUME ReCloseout \/ ReCompensate PROVE Moves /\ Keeps
  BY <1>1, <1>11 DEF ReCloseout, ReCompensate, row
<1>12. CASE Fault
  BY <1>1, <1>12, FaultFrame, RowKept, <1>0
<1>13. CASE UNCHANGED vars
  BY <1>0, <1>1, <1>13, RowKept DEF vars, row
<1> QED
  BY <1>0, <1>3, <1>4, <1>5, <1>6, <1>7, <1>8, <1>9, <1>10, <1>11, <1>12, <1>13, RowKept
  DEF Next, Step, External

\* The lock is still there when the rail confirms, and gone for good when it is dead.
LEMMA LegsAwait ==
  ASSUME SafetyInv, OneCharges, RowFollowsRail
  PROVE  /\ payout \in Paid => transfer["NET"] # "voided"
         /\ payout \notin Paid => transfer["NET"] # "posted" /\ transfer["FEE"] # "posted"
         /\ payout \in Dead => status \in {"PAYOUT_PENDING", "FAILED"}
<1>1. /\ transfer["NET"] = "voided" => payout \in Dead \/ payout = "NONE"
      /\ \A leg \in Leg : transfer[leg] = "posted" => payout \in Paid
  BY DEF SafetyInv, ReleaseJustified, NeverPaid, ChargedOnlyIfPaid, Leg
<1>2. status \in {"SUCCESS", "RETURNED"} => payout \in Paid
  BY DEF SafetyInv, SettledInFull, ChargedOnlyIfPaid, Leg
<1> QED
  BY <1>1, <1>2 DEF RowFollowsRail, Paid, Dead, Leg

Settling == {"CONFIRMED", "CLEARED"}
SettleUnderway ==
  payout \in Settling /\ status = "PAYOUT_PENDING" =>
    \/ transfer["NET"] = "pending" /\ InFlight({"finalize", "postNet"})
    \/ InFlight(Charging)
ReleaseUnderway ==
  payout \in Dead =>
    /\ status = "FAILED" \/ InFlight({"compensate", "compStatus"})
    /\ transfer["NET"] = "voided" \/ InFlight({"compensate", "compStatus", "voidNet"})
    /\ hasFee => \/ transfer["FEE"] = "voided"
                 \/ InFlight({"compensate", "compStatus", "voidNet", "voidFee"})

\* A handler that finalizes goes on to the end unless another one charges.
LEMMA SettleFinalize ==
  ASSUME SafetyInv, OneCharges, SettleUnderway, NEW t \in Task, FinalizeStep(t)
  PROVE  SettleUnderway'
<1> USE DEF SafetyInv, TypeOK, Leg, fixed, books, row
<1>1. /\ \A u \in Task : u # t => task'[u] = task[u]
      /\ payout' \in Settling => payout \in Settling
      /\ status' = "PAYOUT_PENDING" => status = "PAYOUT_PENDING"
  <2>1. \A u \in Task : u # t => task'[u] = task[u]
    BY DEF FinalizeStep, UpdateOrThrow, Finalize, PostNet, MarkNet, EnrichNet, PostFee,
       MarkFee, EnrichFee, Post, Mark, Enrich, FirmTransfer, FirmEvidence, ClearFund,
       AssertSettled, MarkSuccess, ClearPayout, Goto, Return
  <2>2. status' = "PAYOUT_PENDING" => status = "PAYOUT_PENDING"
    BY FinalizeFrame DEF WithdrawTransitions
  <2> QED
    BY <2>1, <2>2, FinalizeFrame DEF Settling
<1> SUFFICES ASSUME payout' \in Settling, status' = "PAYOUT_PENDING"
             PROVE  \/ transfer'["NET"] = "pending" /\ InFlight({"finalize", "postNet"})'
                    \/ InFlight(Charging)'
  BY DEF SettleUnderway
<1>2. \/ transfer["NET"] = "pending" /\ InFlight({"finalize", "postNet"})
      \/ InFlight(Charging)
  BY <1>1 DEF SettleUnderway
<1>3. ASSUME NEW at \in Charging, Goto(t, at) PROVE InFlight(Charging)'
  BY <1>3 DEF InFlight, Goto
<1>4. task[t].at \notin Charging => (InFlight(Charging) => InFlight(Charging)')
  BY <1>1 DEF InFlight
<1>5. CASE Finalize(t)
  <2>1. task'[t].at = "postNet" /\ UNCHANGED transfer /\ task[t].at \notin Charging
    BY <1>1, <1>5 DEF Finalize, Charging
  <2> QED
    BY <1>2, <1>4, <2>1 DEF InFlight
<1>6. CASE PostNet(t)
  <2>1. CASE transfer["NET"] = "pending" /\ Goto(t, "markNet")
    BY <1>3, <2>1 DEF Charging
  <2>2. CASE transfer["NET"] # "pending"
    BY <1>2, <1>4, <1>6, <2>2 DEF PostNet, Charging
  <2> QED
    BY <1>6, <2>1, <2>2 DEF PostNet, Post
<1>7. CASE PostFee(t)
  <2>1. task[t].at \in {"postFee"} /\ transfer["FEE"] \notin {"none", "posted"}
    BY <1>7 DEF PostFee, OneCharges, InFlight
  <2>2. payout \notin Dead \union {"NONE"}
    BY <1>1 DEF Settling, Dead
  <2>3. transfer["FEE"] # "voided"
    BY <2>2 DEF ReleaseJustified, NeverPaid
  <2>4. transfer["FEE"] = "pending"
    BY <2>1, <2>3 DEF TransferState
  <2> QED
    BY <1>3, <1>7, <2>4 DEF PostFee, Post, Charging
<1>8. CASE MarkNet(t) \/ EnrichNet(t) \/ MarkFee(t) \/ EnrichFee(t) \/ FirmTransfer(t)
           \/ FirmEvidence(t) \/ ClearFund(t)
  BY <1>3, <1>8 DEF MarkNet, EnrichNet, MarkFee, EnrichFee, Mark, Enrich, FirmTransfer,
     FirmEvidence, ClearFund, Charging
<1>9. CASE AssertSettled(t)
  <2>1. Settled(task[t].with = "LINKED")
    BY <1>1, <1>9 DEF AssertSettled, Settled, Settling, OneCharges, InFlight, Charging,
       NetRecorded, FeeRecorded, FirmRecorded
  <2> QED
    BY <1>3, <1>9, <2>1 DEF AssertSettled, Charging
<1>10. CASE MarkSuccess(t)
  <2>1. status = "PAYOUT_PENDING" /\ ~Refused("SUCCESS")
    BY <1>1 DEF Refused, WithdrawTransitions, WithdrawStatus
  <2>2. <<"PAYOUT_PENDING", "SUCCESS", "PAYOUT_PENDING">> \in WithdrawTransitions
    BY <1>10, <2>1 DEF MarkSuccess, UpdateOrThrow, UpdateStatus
  <2> QED
    BY <2>2 DEF WithdrawTransitions
<1>11. CASE ClearPayout(t)
  BY <1>1, <1>2, <1>4, <1>11 DEF ClearPayout, Charging, InFlight
<1> QED
  BY <1>5, <1>6, <1>7, <1>8, <1>9, <1>10, <1>11 DEF FinalizeStep

\* A handler of the compensation gives back what it came for: nothing refuses it.
LEMMA ReleaseProceeds ==
  ASSUME SafetyInv, OneCharges, RowFollowsRail, ReleaseUnderway, faults' = faults,
         NEW t \in Task, CompensationStep(t)
  PROVE  ReleaseUnderway'
<1> USE DEF SafetyInv, TypeOK, Leg
<1> SUFFICES ASSUME payout' \in Dead PROVE ReleaseUnderway'
  BY DEF ReleaseUnderway
<1>1. /\ payout \in Dead /\ UNCHANGED <<hasFee, payout>>
      /\ \A u \in Task : u # t => task'[u] = task[u]
      /\ status = "FAILED" => status' = "FAILED"
      /\ \A leg \in Leg : transfer[leg] = "voided" => transfer'[leg] = "voided"
  <2>1. payout \in Dead /\ UNCHANGED <<hasFee, payout>>
    BY CompensationFrame
  <2>2. \A u \in Task : u # t => task'[u] = task[u]
    BY DEF CompensationStep, Compensate, CompStatus, VoidNet, VoidFee, Void, CancelFund,
       UpdateOrThrow, Goto, Return
  <2>3. status = "FAILED" => status' = "FAILED"
    BY CompensationFrame DEF WithdrawTransitions
  <2>4. \A leg \in Leg : transfer[leg] = "voided" => transfer'[leg] = "voided"
    BY CompensationFrame
  <2> QED
    BY <2>1, <2>2, <2>3, <2>4
<1>2. ASSUME NEW places, InFlight(places), task[t].at \notin places PROVE InFlight(places)'
  BY <1>1, <1>2 DEF InFlight
<1>3. ASSUME NEW places, task'[t].at \in places PROVE InFlight(places)'
  BY <1>3 DEF InFlight
<1>4. status \in {"PAYOUT_PENDING", "FAILED"}
  BY <1>1, LegsAwait
<1>5. task[t].at \in {"compensate", "compStatus"} => task[t].with = "FAIL"
  BY <1>1 DEF RailHeard, Dead
<1>6. CASE Compensate(t)
  <2>1. /\ task'[t].at = IF status = "FAILED" THEN "voidNet" ELSE "compStatus"
        /\ UNCHANGED status
    BY <1>5, <1>6 DEF Compensate, CompensationTarget, Goto, row
  <2> QED
    BY <1>1, <1>3, <2>1 DEF ReleaseUnderway
<1>7. CASE CompStatus(t)
  <2>1. task[t].with = "FAIL" /\ ~Refused("FAIL")
    BY <1>4, <1>5, <1>7 DEF CompStatus, Refused, WithdrawTransitions, WithdrawStatus
  <2>2. <<status, "FAIL", status'>> \in WithdrawTransitions /\ Goto(t, "voidNet")
    BY <1>7, <2>1 DEF CompStatus, UpdateOrThrow, UpdateStatus
  <2>3. status' = "FAILED" /\ task'[t].at = "voidNet"
    BY <2>2 DEF WithdrawTransitions, Goto
  <2> QED
    BY <1>3, <2>3 DEF ReleaseUnderway
<1>8. CASE VoidNet(t)
  <2>1. transfer["NET"] \in {"pending", "voided"}
    BY <1>1, LegsAwait DEF OneCharges, TransferState, Dead, Paid
  <2>2. transfer'["NET"] = "voided"
    BY <1>1, <1>8, <2>1 DEF VoidNet, Void
  <2>3. /\ task[t].at = "voidNet" /\ UNCHANGED status
        /\ task'[t].at = IF hasFee THEN "voidFee" ELSE "cancelFund"
    BY <1>8 DEF VoidNet, Void, Goto, row
  <2> QED
    BY <1>1, <1>2, <1>3, <2>2, <2>3 DEF ReleaseUnderway
<1>9. CASE VoidFee(t)
  <2>1. hasFee => transfer["FEE"] \in {"pending", "voided"}
    BY <1>1, LegsAwait DEF OneCharges, TransferState, Dead, Paid
  <2>2. hasFee => transfer'["FEE"] = "voided"
    BY <1>1, <1>9, <2>1 DEF VoidFee, Void
  <2>3. task[t].at = "voidFee" /\ UNCHANGED status
    BY <1>9 DEF VoidFee, Void, row
  <2> QED
    BY <1>1, <1>2, <2>2, <2>3 DEF ReleaseUnderway
<1>10. CASE CancelFund(t)
  <2>1. task[t].at = "cancelFund" /\ UNCHANGED status
    BY <1>10 DEF CancelFund, row
  <2> QED
    BY <1>1, <1>2, <2>1 DEF ReleaseUnderway
<1> QED
  BY <1>6, <1>7, <1>8, <1>9, <1>10 DEF CompensationStep

\* The rail decides in one step with the event that starts the handler to follow.
LEMMA RailStarts ==
  ASSUME TypeOK, [Next]_vars
  PROVE  /\ payout' \in Settling =>
              payout \in Settling \/ (/\ payout \notin Paid \union {"NONE"}
                                      /\ InFlight({"finalize"})'
                                      /\ UNCHANGED <<status, transfer>>)
         /\ payout' \in Dead => payout \in Dead \/ InFlight({"compensate"})'
<1> DEFINE Heard ==
      /\ payout' \in Settling =>
           payout \in Settling \/ (/\ payout \notin Paid \union {"NONE"}
                                   /\ InFlight({"finalize"})'
                                   /\ UNCHANGED <<status, transfer>>)
      /\ payout' \in Dead => payout \in Dead \/ InFlight({"compensate"})'
<1>1. ASSUME UNCHANGED payout PROVE Heard
  BY <1>1
<1>2. ASSUME NEW t \in Task, Step(t) PROVE Heard
  <2>1. \/ UNCHANGED payout
        \/ payout' = "CREATED"
        \/ payout = "CONFIRMED" /\ payout' = "CLEARED"
    BY <1>2, GateFrame, PayoutPhaseFrame, FinalizeFrame, CompensationFrame DEF Step
  <2> QED
    BY <1>1, <2>1 DEF Settling, Dead
<1>3. ASSUME NEW at, NEW with, Start(at, with) PROVE InFlight({at})'
  <2>1. PICK f \in Task : task' = [task EXCEPT ![f] = [at |-> at, with |-> with]]
    BY <1>3, StartPicks
  <2>2. task'[f].at = at
    BY <2>1 DEF TypeOK
  <2> QED
    BY <2>2 DEF InFlight
<1>4. ASSUME NEW a \in PayoutAction, PayoutUpdate(a) PROVE Heard
  <2>1. PICK next \in PayoutStatus :
          /\ a # "CLEAR" /\ <<payout, a, next>> \in CryptoTransitions \union FiatTransitions
          /\ payout' = next
          /\ CASE next = "CONFIRMED" -> Start("finalize", "-")
               [] next \in Dead -> Start("compensate", "FAIL")
               [] next = "RETURNED" -> Start("compensate", "RETURN")
               [] OTHER -> UNCHANGED task
    BY <1>4 DEF PayoutUpdate, RailTransitions
  <2>2. /\ next # "CLEARED"
        /\ next = "CONFIRMED" => payout \notin Paid \union {"NONE"}
    BY <2>1 DEF CryptoTransitions, FiatTransitions, Paid
  <2>3. next = "CONFIRMED" => Start("finalize", "-")
    BY <2>1 DEF Dead
  <2>4. next \in Dead => Start("compensate", "FAIL")
    BY <2>1 DEF Dead
  <2>5. UNCHANGED <<status, transfer>>
    BY <1>4, RailFrame
  <2>6. CASE next = "CONFIRMED"
    BY <1>3, <2>1, <2>2, <2>3, <2>5, <2>6 DEF Settling, Dead
  <2>7. CASE next \in Dead
    BY <1>3, <2>1, <2>4, <2>7 DEF Settling, Dead
  <2> QED
    BY <2>1, <2>2, <2>6, <2>7 DEF Settling
<1>5. CASE External
  BY <1>1, <1>4, <1>5 DEF External, KytResult, TravelRuleResult, Decide, AdminUpdate,
     ReCloseout, ReCompensate
<1>6. CASE Fault
  BY <1>1, <1>6, FaultFrame
<1>7. CASE UNCHANGED vars
  BY <1>1, <1>7 DEF vars
<1> QED
  BY <1>2, <1>5, <1>6, <1>7 DEF Next

LEMMA SettleKept ==
  ASSUME SafetyInv, SafetyInv', OneCharges, OneCharges', RowFollowsRail, SettleUnderway,
         [Next]_vars, faults' = 0, ~\E t \in Task : FinalizeStep(t)
  PROVE  SettleUnderway'
<1> USE DEF SafetyInv
<1> SUFFICES ASSUME payout' \in Settling, status' = "PAYOUT_PENDING"
             PROVE  \/ transfer'["NET"] = "pending" /\ InFlight({"finalize", "postNet"})'
                    \/ InFlight(Charging)'
  BY DEF SettleUnderway
<1>1. \A u \in Task : task[u].at \in Finalizing => task'[u] = task[u]
  BY OnlyFinalizeMoves
<1>2. ASSUME NEW places \in SUBSET Finalizing, InFlight(places) PROVE InFlight(places)'
  BY <1>1, <1>2 DEF InFlight
<1>3. transfer'["NET"] # "voided" /\ transfer'["NET"] # "none" /\ transfer'["NET"] \in TransferState
  <2>1. payout' \notin Dead \union {"NONE"}
    BY DEF Settling, Dead
  <2>2. transfer'["NET"] = "voided" => payout' \in Dead \/ payout' = "NONE"
    BY DEF ReleaseJustified, NeverPaid, Leg
  <2> QED
    BY <2>1, <2>2 DEF OneCharges, TypeOK, Leg
<1>4. CASE payout \in Settling
  <2>1. status = "PAYOUT_PENDING"
    <3>1. status \in Awaiting
      BY <1>4 DEF RowFollowsRail, Awaiting, Settling
    <3> QED
      BY <3>1, StepForward DEF Forward, Awaiting, WithdrawTransitions
  <2>2. CASE transfer["NET"] = "pending" /\ InFlight({"finalize", "postNet"})
    <3>1. transfer'["NET"] = "pending"
      BY <1>3, <2>2, OnlyFinalizeCharges DEF ChargeUntouched, Leg
    <3> QED
      BY <1>2, <2>2, <3>1 DEF Finalizing
  <2>3. CASE InFlight(Charging)
    BY <1>2, <2>3 DEF Finalizing, Charging
  <2> QED
    BY <1>4, <2>1, <2>2, <2>3 DEF SettleUnderway
<1>5. CASE payout \notin Settling
  <2>1. /\ payout \notin Paid \union {"NONE"} /\ InFlight({"finalize"})'
        /\ UNCHANGED <<status, transfer>>
    BY <1>5, RailStarts
  <2>2. transfer["NET"] # "posted"
    BY <2>1 DEF ChargedOnlyIfPaid, Leg
  <2> QED
    BY <1>3, <2>1, <2>2 DEF InFlight, TransferState
<1> QED
  BY <1>4, <1>5

Restoring == {"compensate", "compStatus", "voidNet", "voidFee"}

\* Unless a call fails, only the compensation moves a handler that gives back.
LEMMA OnlyCompensationMoves ==
  ASSUME TypeOK, [Next]_vars, faults' = 0
  PROVE  \/ \A u \in Task : task[u].at \in Restoring => task'[u] = task[u]
         \/ \E t \in Task : CompensationStep(t)
<1> DEFINE Stay == \A u \in Task : task[u].at \in Restoring => task'[u] = task[u]
<1>1. ASSUME NEW t \in Task, GateStep(t) \/ PayoutPhaseStep(t) PROVE Stay
  <2>1. task[t].at \notin Restoring
    BY <1>1 DEF GateStep, Created, Valuate, Check, OpenCase, RequireApproval, Decided, Grant,
       Decline, PayoutPhaseStep, ScreenKyt, ScreenTravelRule, CheckPass, Approve,
       CreatePayout, LinkPayout, CreateFeeFund, Restoring
  <2> QED
    BY <1>1, <2>1, StepMovesOne DEF OthersStay, Restoring
<1>2. ASSUME NEW t \in Task, FinalizeStep(t) PROVE Stay
  <2>1. task[t].at \notin Restoring
    BY <1>2, FinalizeFrame DEF Finalizing, Restoring
  <2>2. \A u \in Task : u # t => task'[u] = task[u]
    BY <1>2 DEF FinalizeStep, UpdateOrThrow, Finalize, PostNet, MarkNet, EnrichNet, PostFee,
       MarkFee, EnrichFee, Post, Mark, Enrich, FirmTransfer, FirmEvidence, ClearFund,
       AssertSettled, MarkSuccess, ClearPayout, Goto, Return, TypeOK
  <2> QED
    BY <2>1, <2>2
<1>3. ASSUME NEW at, NEW with, Start(at, with) PROVE Stay
  BY <1>3, StartPicks DEF TypeOK, Restoring
<1>4. CASE External
  <2>1. ASSUME NEW a \in PayoutAction, PayoutUpdate(a) PROVE Stay
    <3>1. UNCHANGED task \/ \E at, with : Start(at, with)
      BY <2>1, RailFrame
    <3> QED
      BY <1>3, <3>1
  <2>2. ASSUME NEW a \in AdminActions, AdminUpdate(a) PROVE Stay
    BY <2>2, AdminFrame
  <2> QED
    BY <1>3, <1>4, <2>1, <2>2
    DEF External, KytResult, TravelRuleResult, Decide, ReCloseout, ReCompensate
<1>5. ~Fault
  BY DEF Fault, Crash, Throw, TypeOK
<1>6. CASE UNCHANGED vars
  BY <1>6 DEF vars
<1> QED
  BY <1>1, <1>2, <1>4, <1>5, <1>6 DEF Next, Step

LEMMA ReleaseStays ==
  ASSUME SafetyInv, ReleaseUnderway, [Next]_vars, faults' = 0,
         ~\E t \in Task : CompensationStep(t)
  PROVE  ReleaseUnderway'
<1> USE DEF SafetyInv
<1> SUFFICES ASSUME payout' \in Dead PROVE ReleaseUnderway'
  BY DEF ReleaseUnderway
<1>1. CASE payout \in Dead
  <2>1. ASSUME NEW places \in SUBSET Restoring, InFlight(places) PROVE InFlight(places)'
    BY <2>1, OnlyCompensationMoves DEF InFlight
  <2>2. ~\E t \in Task : FinalizeStep(t)
    BY <1>1, FinalizeFrame DEF RailHeard, InFlight, Paid, Dead
  <2>3. UNCHANGED hasFee /\ \A leg \in Leg : transfer[leg] = "voided" => transfer'[leg] = "voided"
    BY <2>2, OnlyFinalizeCharges DEF ChargeUntouched
  <2>4. status = "FAILED" => status' = "FAILED"
    BY StepForward DEF Forward, WithdrawTransitions
  <2> QED
    BY <1>1, <2>1, <2>3, <2>4 DEF ReleaseUnderway, Restoring, Leg
<1>2. CASE payout \notin Dead
  BY <1>2, RailStarts DEF ReleaseUnderway, InFlight
<1> QED
  BY <1>1, <1>2

LEMMA UnderwayStep ==
  ASSUME SafetyInv, SafetyInv', OneCharges, OneCharges', RowFollowsRail, Underway, [Next]_vars
  PROVE  Underway'
<1> SUFFICES ASSUME faults' = 0 PROVE SettleUnderway' /\ ReleaseUnderway'
  BY DEF Underway, SettleUnderway, ReleaseUnderway, Settling
<1>1. faults = 0
  BY FaultsGrow DEF SafetyInv
<1>2. SettleUnderway /\ ReleaseUnderway
  BY <1>1 DEF Underway, SettleUnderway, ReleaseUnderway, Settling
<1>3. SettleUnderway'
  BY <1>2, SettleFinalize, SettleKept
<1>4. ReleaseUnderway'
  BY <1>1, <1>2, ReleaseProceeds, ReleaseStays
<1> QED
  BY <1>3, <1>4

\* Only one handler charges, the row follows the rail, and until something fails
\* what the rail has decided is done or in hand, whichever handlers cross: as long
\* as no operator takes the withdrawal from under its payout.
THEOREM OutcomeIsReached ==
  ASSUME AdminActions \intersect Overrides = {}
  PROVE  Spec => []OutcomeReached
<1>1. Init => SafetyInv /\ OutcomeReached
  BY SafetyInit, OutcomeInit
<1>2. SafetyInv /\ OutcomeReached /\ [Next]_vars => (SafetyInv /\ OutcomeReached)'
  <2> SUFFICES ASSUME SafetyInv, OutcomeReached, [Next]_vars
               PROVE  (SafetyInv /\ OutcomeReached)'
    OBVIOUS
  <2>1. SafetyInv' /\ OneCharges'
    BY SafetyStep, ChargerStep DEF OutcomeReached
  <2>2. RowFollowsRail'
    BY RowStep DEF OutcomeReached
  <2>3. Underway'
    BY <2>1, UnderwayStep DEF OutcomeReached
  <2> QED
    BY <2>1, <2>2, <2>3 DEF OutcomeReached
<1> QED
  BY <1>1, <1>2, PTL DEF Spec

\* No answer of the rail is dropped: once no handler is in flight and nothing has
\* failed, a confirmed payout has its withdrawal settled and a dead one has it
\* failed with the whole lock given back (the payout's event reaches a handler of
\* the saga, and that handler is not stopped by any other one).
THEOREM RailAnswersAreKept ==
  ASSUME AdminActions \intersect Overrides = {}
  PROVE  Spec => []RailIsAnswered
<1>1. SafetyInv /\ OutcomeReached => RailIsAnswered
  <2> SUFFICES ASSUME SafetyInv, OutcomeReached, Quiet, faults = 0
               PROVE  /\ payout \in Settling => status = "SUCCESS"
                      /\ payout \in Dead => status = "FAILED" /\ Released
    BY DEF RailIsAnswered, Settling
  <2> USE DEF OutcomeReached
  <2>1. \A places : "idle" \notin places => ~InFlight(places)
    BY DEF Quiet, Free, InFlight
  <2>2. payout \in Settling => status # "PAYOUT_PENDING"
    BY <2>1 DEF Underway, Settling, Charging
  <2>3. payout \in Settling => status \in {"PAYOUT_PENDING", "SUCCESS"}
    BY DEF RowFollowsRail, Settling, Dead
  <2>4. payout \in Dead => status = "FAILED" /\ Released
    BY <2>1 DEF Underway, Released
  <2> QED
    BY <2>2, <2>3, <2>4
<1> QED
  BY <1>1, SafetyInvariant, OutcomeIsReached, PTL
=============================================================================
