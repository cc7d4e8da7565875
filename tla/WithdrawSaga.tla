---------------------------- MODULE WithdrawSaga ----------------------------
(***************************************************************************)
(* One withdrawal from the commit of its creation to its last status.      *)
(*                                                                         *)
(* WithdrawWorkflowService drives three systems that share no transaction: *)
(* the SQL rows (withdrawal, payout, fee fund, evidence), the TigerBeetle  *)
(* ledger that holds the customer's money, and the rail that pays it out.  *)
(* Every SQL statement and every ledger call is an await: between two of   *)
(* them any other handler of the process may run.  A handler is a task     *)
(* with a program counter; an event starts one.  Events live only in the   *)
(* process: a crash or an exception loses the handler and nothing restarts *)
(* it except the two operator repair endpoints.                            *)
(*                                                                         *)
(* Withdrawals share nothing but the customer's balance and the quote,     *)
(* which are settled before this module starts (module WithdrawCreate), so *)
(* one withdrawal stands for any of them.                                  *)
(***************************************************************************)
EXTENDS Naturals, Sequences, WithdrawStates, PayoutRail

CONSTANTS
  Task,          \* handlers that may be in flight at the same time
  AdminActions,  \* what the admin status endpoint is used for
  MaxFaults      \* bound: exceptions and crashes in one behaviour

ASSUME AdminActionsAssumption == AdminActions \subseteq AdminWithdrawAction
ASSUME MaxFaultsAssumption == MaxFaults \in Nat

VARIABLES
  asset,       \* the type of the asset: fixed
  hasFee,      \* feeAmount > 0: fixed
  status,      \* withdrawTransaction.status
  valuation,   \* grossAedValue against the threshold; a failed rate is "LARGE"
  preKyt,      \* preKytStatus, "NONE" for the empty string
  travelRule,  \* travelRuleStatus
  linked,      \* withdrawTransaction.payoutId is set
  approval,    \* the WITHDRAW_LARGE_VALUE_APPROVAL case
  payout,      \* payout.status, "NONE" when there is no row
  feeFunds,    \* the statuses of the fee InternalFund rows, oldest first
  transfer,    \* the state of each leg in TigerBeetle
  evidence,    \* the tbTransferEvidence row of each leg
  task,        \* the handlers in flight
  faults       \* how many exceptions and crashes so far

fixed == <<asset, hasFee>>
screen == <<preKyt, travelRule>>
row == <<status, valuation, screen, linked>>
books == <<transfer, evidence>>
vars == <<fixed, row, approval, payout, feeFunds, books, task, faults>>

Leg == {"NET", "FEE", "FIRM"}
TransferState == {"none", "pending", "posted", "voided"}

\* An evidence row: the event it records (a LOCK row becomes a POST row on
\* finalize) and its transferType.
NoRow == [code |-> "none", type |-> "none"]
EvidenceRow == [code : {"none", "LOCK", "POST"},
                type : {"none", "PENDING", "POSTED", "VOIDED"}]

Verdict == {"PASSED", "FAILED"}

\* CANCELLED and EXPIRED take the DECLINED branch of the only handler.
Decision == {"APPROVED", "DECLINED"}

\* Where a handler can be suspended, and what it carries across awaits: the
\* decision, the compensating action, or whether payoutId was set when
\* finalizeWithdrawal read the row.
At == {"idle", "created", "valuate", "check", "openCase", "requireApproval",
       "decided", "grant", "decline", "screenKyt", "screenTravelRule",
       "checkPass", "approve", "createPayout", "linkPayout", "createFeeFund",
       "finalize", "postNet", "markNet", "enrichNet", "postFee", "markFee",
       "enrichFee", "firmTransfer", "firmEvidence", "clearFund",
       "assertSettled", "markSuccess", "clearPayout",
       "compensate", "compStatus", "voidNet", "voidFee", "cancelFund"}
Carried == {"-", "LINKED", "UNLINKED", "FAIL", "RETURN"} \union Decision

Idle == [at |-> "idle", with |-> "-"]

-----------------------------------------------------------------------------
(* Handlers: a step of task t continues it, ends it or starts another one. *)

Goto(t, at) == task' = [task EXCEPT ![t].at = at]
Return(t) == task' = [task EXCEPT ![t] = Idle]

Free == {t \in Task : task[t].at = "idle"}
Started(tasks, at, with) ==
  [tasks EXCEPT ![CHOOSE t \in Free : TRUE] = [at |-> at, with |-> with]]

\* eventEmitter.emit called from outside and from inside a handler.
Start(at, with) == Free # {} /\ task' = Started(task, at, with)
EmitAndGoto(t, event, at) ==
  Free # {} /\ task' = Started([task EXCEPT ![t].at = at], event, "-")

\* WithdrawTransactionsService.updateStatus: one SQL transaction, which reads
\* the status again and throws when the table has no such transition.
UpdateStatus(action) ==
  \E next \in WithdrawStatus :
    <<status, action, next>> \in WithdrawTransitions /\ status' = next
Refused(action) ==
  \A next \in WithdrawStatus :
    <<status, action, next>> \notin WithdrawTransitions

\* A handler's status update: go on when it is legal, else throw.
UpdateOrThrow(t, action, at) ==
  /\ \/ UpdateStatus(action) /\ Goto(t, at)
     \/ Refused(action) /\ Return(t) /\ UNCHANGED status
  /\ UNCHANGED <<fixed, valuation, screen, linked, approval, payout,
                 feeFunds, books, faults>>

-----------------------------------------------------------------------------
(* handleWithdrawalCreated and the approval gate.                          *)

Created(t) ==
  /\ task[t].at = "created"
  /\ IF status = "CREATED" THEN Goto(t, "valuate") ELSE Return(t)
  /\ UNCHANGED <<fixed, row, approval, payout, feeFunds, books, faults>>

\* Mutant: a valuation that cannot be made lets the withdrawal through.
ValuateFailsOpen(t) ==
  /\ task[t].at = "valuate"
  /\ valuation' = "LARGE" /\ Goto(t, "check")
  /\ UNCHANGED <<fixed, status, screen, linked, approval, payout, feeFunds,
                 books, faults>>

\* valuateAed, saveValuationSnapshot and shouldRequireApproval.
Valuate(t) ==
  /\ task[t].at = "valuate"
  /\ \/ valuation' = "LARGE" /\ Goto(t, "openCase")
     \/ valuation' = "SMALL" /\ Goto(t, "check")
  /\ UNCHANGED <<fixed, status, screen, linked, approval, payout, feeFunds,
                 books, faults>>

Check(t) ==
  task[t].at = "check" /\ UpdateOrThrow(t, "CHECK", "screenKyt")

\* createAndSubmit and linkApprovalCase; the case can be decided from now on.
OpenCase(t) ==
  /\ task[t].at = "openCase"
  /\ approval' = "PENDING"
  /\ Goto(t, "requireApproval")
  /\ UNCHANGED <<fixed, row, payout, feeFunds, books, faults>>

RequireApproval(t) ==
  /\ task[t].at = "requireApproval"
  /\ UpdateOrThrow(t, "REQUIRE_APPROVAL", "idle")

\* onLargeValueApprovalDecided.
Decided(t) ==
  /\ task[t].at = "decided"
  /\ IF status # "PENDING_APPROVAL" THEN Return(t)
     ELSE Goto(t, IF task[t].with = "APPROVED" THEN "grant" ELSE "decline")
  /\ UNCHANGED <<fixed, row, approval, payout, feeFunds, books, faults>>

Grant(t) ==
  task[t].at = "grant" /\ UpdateOrThrow(t, "GATE_APPROVE", "screenKyt")

Decline(t) ==
  task[t].at = "decline" /\ UpdateOrThrow(t, "REJECT", "voidNet")

-----------------------------------------------------------------------------
(* initializeTransactionScreen, checkScreenPass and initiatePayoutPhase.   *)

\* updateKytStatus(PENDING, phase 1), whose event is another checkScreenPass.
ScreenKyt(t) ==
  /\ task[t].at = "screenKyt"
  /\ preKyt' = "PENDING"
  /\ EmitAndGoto(t, "checkPass", "screenTravelRule")
  /\ UNCHANGED <<fixed, status, valuation, travelRule, linked, approval,
                 payout, feeFunds, books, faults>>

ScreenTravelRule(t) ==
  /\ task[t].at = "screenTravelRule"
  /\ travelRule' = IF asset = "FIAT" THEN "NOT_REQUIRED" ELSE "PENDING"
  /\ EmitAndGoto(t, "checkPass", "checkPass")
  /\ UNCHANGED <<fixed, status, valuation, preKyt, linked, approval, payout,
                 feeFunds, books, faults>>

\* Reads the row; two audit writes are awaited before the payout phase.
CheckPass(t) ==
  /\ task[t].at = "checkPass"
  /\ IF /\ status = "PENDING_COMPLIANCE"
        /\ preKyt = "PASSED"
        /\ travelRule \in {"PASSED", "NOT_REQUIRED"}
     THEN Goto(t, "approve") ELSE Return(t)
  /\ UNCHANGED <<fixed, row, approval, payout, feeFunds, books, faults>>

Approve(t) ==
  task[t].at = "approve" /\ UpdateOrThrow(t, "APPROVE", "createPayout")

\* PayoutsService.create returns the row of this withdrawal if there is one.
CreatePayout(t) ==
  /\ task[t].at = "createPayout"
  /\ payout' = IF payout = "NONE" THEN "CREATED" ELSE payout
  /\ Goto(t, "linkPayout")
  /\ UNCHANGED <<fixed, row, approval, feeFunds, books, faults>>

LinkPayout(t) ==
  /\ task[t].at = "linkPayout"
  /\ linked' = TRUE
  /\ IF hasFee THEN Goto(t, "createFeeFund") ELSE Return(t)
  /\ UNCHANGED <<fixed, status, valuation, screen, approval, payout,
                 feeFunds, books, faults>>

\* createWithdrawFeeFund inserts a row every time it is called.
CreateFeeFund(t) ==
  /\ task[t].at = "createFeeFund"
  /\ feeFunds' = Append(feeFunds, "CREATED")
  /\ Return(t)
  /\ UNCHANGED <<fixed, row, approval, payout, books, faults>>

-----------------------------------------------------------------------------
(* finalizeWithdrawal: the lock becomes a charge.                          *)

Finalize(t) ==
  /\ task[t].at = "finalize"
  /\ IF status = "PAYOUT_PENDING"
     THEN task' = [task EXCEPT ![t] =
            [at |-> "postNet", with |-> IF linked THEN "LINKED" ELSE "UNLINKED"]]
     ELSE Return(t)
  /\ UNCHANGED <<fixed, row, approval, payout, feeFunds, books, faults>>

\* Mutant: posting is best effort, as voiding is.
PostBestEffort(t, leg, at) ==
  /\ \/ /\ transfer[leg] = "pending"
        /\ transfer' = [transfer EXCEPT ![leg] = "posted"]
        /\ UNCHANGED faults
     \/ faults < MaxFaults /\ faults' = faults + 1 /\ UNCHANGED transfer
  /\ Goto(t, at)
  /\ UNCHANGED <<fixed, row, approval, payout, feeFunds, evidence>>

\* postPendingTransfer in TigerBeetle: rejected unless the leg is pending.
Post(t, leg, at) ==
  /\ \/ /\ transfer[leg] = "pending"
        /\ transfer' = [transfer EXCEPT ![leg] = "posted"]
        /\ Goto(t, at)
     \/ transfer[leg] # "pending" /\ Return(t) /\ UNCHANGED transfer
  /\ UNCHANGED <<fixed, row, approval, payout, feeFunds, evidence, faults>>

\* updateTransferType on the LOCK row, then enrichForPost on the same row.
Mark(t, leg, at) ==
  /\ evidence' = [evidence EXCEPT ![leg].type = "POSTED"]
  /\ Goto(t, at)
  /\ UNCHANGED <<fixed, row, approval, payout, feeFunds, transfer, faults>>

Enrich(t, leg, at) ==
  /\ evidence' = [evidence EXCEPT ![leg].code = "POST"]
  /\ Goto(t, at)
  /\ UNCHANGED <<fixed, row, approval, payout, feeFunds, transfer, faults>>

PostNet(t) == task[t].at = "postNet" /\ Post(t, "NET", "markNet")
MarkNet(t) == task[t].at = "markNet" /\ Mark(t, "NET", "enrichNet")
\* Mutant: the firm books its fee before the customer's fee is posted.
EnrichNetFirmFirst(t) ==
  /\ task[t].at = "enrichNet"
  /\ Enrich(t, "NET", IF hasFee THEN "firmTransfer" ELSE "clearFund")

EnrichNet(t) ==
  /\ task[t].at = "enrichNet"
  /\ Enrich(t, "NET", IF hasFee THEN "postFee" ELSE "clearFund")

PostFee(t) == task[t].at = "postFee" /\ Post(t, "FEE", "markFee")
MarkFee(t) == task[t].at = "markFee" /\ Mark(t, "FEE", "enrichFee")
EnrichFee(t) == task[t].at = "enrichFee" /\ Enrich(t, "FEE", "firmTransfer")

\* Mutant: the evidence row is taken to exist already.
FirmTransferUnrecorded(t) ==
  /\ task[t].at = "firmTransfer"
  /\ transfer' = [transfer EXCEPT !["FIRM"] = "posted"]
  /\ Goto(t, "clearFund")
  /\ UNCHANGED <<fixed, row, approval, payout, feeFunds, evidence, faults>>

\* executeTransfer: its id is deterministic, so a second call finds the
\* transfer and skips the evidence row.
FirmTransfer(t) ==
  /\ task[t].at = "firmTransfer"
  /\ transfer' = [transfer EXCEPT !["FIRM"] = "posted"]
  /\ Goto(t, IF transfer["FIRM"] = "none" THEN "firmEvidence" ELSE "clearFund")
  /\ UNCHANGED <<fixed, row, approval, payout, feeFunds, evidence, faults>>

FirmEvidence(t) ==
  /\ task[t].at = "firmEvidence"
  /\ evidence' = [evidence EXCEPT !["FIRM"] = [code |-> "POST", type |-> "POSTED"]]
  /\ Goto(t, "clearFund")
  /\ UNCHANGED <<fixed, row, approval, payout, feeFunds, transfer, faults>>

\* setWithdrawFeeFundStatus updates the first row it finds, if there is one.
SetFeeFundStatus(s) ==
  feeFunds' = IF feeFunds = <<>> THEN feeFunds ELSE [feeFunds EXCEPT ![1] = s]

ClearFund(t) ==
  /\ task[t].at = "clearFund"
  /\ SetFeeFundStatus("CLEAR")
  /\ Goto(t, "assertSettled")
  /\ UNCHANGED <<fixed, row, approval, payout, books, faults>>

\* Mutant: waits for CLEARED, which only a settled withdrawal brings about.
SettledWhenCleared(payoutLinked) ==
  /\ payoutLinked => payout = "CLEARED"
  /\ evidence["NET"].code = "POST"
  /\ hasFee => evidence["FEE"].code = "POST" /\ evidence["FIRM"].code = "POST"

\* assertWithdrawSettled throws unless payout and evidence are complete.
Settled(payoutLinked) ==
  /\ payoutLinked => payout \in {"CONFIRMED", "CLEARED"}
  /\ evidence["NET"].code = "POST"
  /\ hasFee => evidence["FEE"].code = "POST" /\ evidence["FIRM"].code = "POST"

AssertSettled(t) ==
  /\ task[t].at = "assertSettled"
  /\ IF Settled(task[t].with = "LINKED") THEN Goto(t, "markSuccess") ELSE Return(t)
  /\ UNCHANGED <<fixed, row, approval, payout, feeFunds, books, faults>>

MarkSuccess(t) ==
  task[t].at = "markSuccess" /\ UpdateOrThrow(t, "SUCCESS", "clearPayout")

\* The payout is CLEARED by the system only; a refusal is logged and dropped.
ClearPayout(t) ==
  /\ task[t].at = "clearPayout"
  /\ payout' = IF task[t].with = "LINKED" /\ payout = "CONFIRMED"
               THEN "CLEARED" ELSE payout
  /\ Return(t)
  /\ UNCHANGED <<fixed, row, approval, feeFunds, books, faults>>

-----------------------------------------------------------------------------
(* compensatePayout and releaseLock: the lock is given back.               *)

CompensationTarget(action) == IF action = "RETURN" THEN "RETURNED" ELSE "FAILED"

Compensate(t) ==
  /\ task[t].at = "compensate"
  /\ Goto(t, IF status = CompensationTarget(task[t].with)
             THEN "voidNet" ELSE "compStatus")
  /\ UNCHANGED <<fixed, row, approval, payout, feeFunds, books, faults>>

CompStatus(t) ==
  task[t].at = "compStatus" /\ UpdateOrThrow(t, task[t].with, "voidNet")

\* voidPendingTransferBestEffort: a leg that is not pending is rejected by the
\* ledger and a call that fails is only logged; the evidence is not touched.
Void(t, leg, at) ==
  /\ \/ /\ transfer[leg] = "pending"
        /\ transfer' = [transfer EXCEPT ![leg] = "voided"]
        /\ UNCHANGED faults
     \/ transfer[leg] # "pending" /\ UNCHANGED <<transfer, faults>>
     \/ faults < MaxFaults /\ faults' = faults + 1 /\ UNCHANGED transfer
  /\ Goto(t, at)
  /\ UNCHANGED <<fixed, row, approval, payout, feeFunds, evidence>>

\* Mutant: the fee leg is forgotten.
VoidNetOnly(t) ==
  task[t].at = "voidNet" /\ Void(t, "NET", "cancelFund")

VoidNet(t) ==
  /\ task[t].at = "voidNet"
  /\ Void(t, "NET", IF hasFee THEN "voidFee" ELSE "cancelFund")
VoidFee(t) == task[t].at = "voidFee" /\ Void(t, "FEE", "cancelFund")

CancelFund(t) ==
  /\ task[t].at = "cancelFund"
  /\ SetFeeFundStatus("CANCELLED")
  /\ Return(t)
  /\ UNCHANGED <<fixed, row, approval, payout, books, faults>>

-----------------------------------------------------------------------------
(* What arrives from outside: verdicts, decisions, the rail, operators.    *)

KytResult(verdict) ==
  /\ preKyt' = verdict
  /\ Start("checkPass", "-")
  /\ UNCHANGED <<fixed, status, valuation, travelRule, linked, approval,
                 payout, feeFunds, books, faults>>

TravelRuleResult(verdict) ==
  /\ travelRule' = verdict
  /\ Start("checkPass", "-")
  /\ UNCHANGED <<fixed, status, valuation, preKyt, linked, approval, payout,
                 feeFunds, books, faults>>

\* Mutant: a case that has been decided can be decided again.
DecideAgain(decision) ==
  /\ approval # "NONE"
  /\ approval' = decision
  /\ Start("decided", decision)
  /\ UNCHANGED <<fixed, row, payout, feeFunds, books, faults>>

Decide(decision) ==
  /\ approval = "PENDING"
  /\ approval' = decision
  /\ Start("decided", decision)
  /\ UNCHANGED <<fixed, row, payout, feeFunds, books, faults>>

\* Mutant: the withdrawal is settled on the first sight of the transfer.
PayoutUpdateHasty(action) ==
  /\ action # "CLEAR"
  /\ \E next \in PayoutStatus :
       /\ <<payout, action, next>> \in RailTransitions(asset)
       /\ payout' = next
       /\ CASE next \in {"CONFIRMING", "CONFIRMED"} -> Start("finalize", "-")
            [] next \in Dead -> Start("compensate", "FAIL")
            [] next = "RETURNED" -> Start("compensate", "RETURN")
            [] OTHER -> UNCHANGED task
  /\ UNCHANGED <<fixed, row, approval, feeFunds, books, faults>>

\* PayoutsService.updateStatus for an operator, with its event after commit.
PayoutUpdate(action) ==
  /\ action # "CLEAR"
  /\ \E next \in PayoutStatus :
       /\ <<payout, action, next>> \in RailTransitions(asset)
       /\ payout' = next
       /\ CASE next = "CONFIRMED" -> Start("finalize", "-")
            [] next \in Dead -> Start("compensate", "FAIL")
            [] next = "RETURNED" -> Start("compensate", "RETURN")
            [] OTHER -> UNCHANGED task
  /\ UNCHANGED <<fixed, row, approval, feeFunds, books, faults>>

\* Mutant: an operator's REJECT releases the lock without asking the rail.
AdminUpdateUnlocks(action) ==
  /\ action \in AdminActions
  /\ UpdateStatus(action)
  /\ status' \notin WorkflowOnly
  /\ IF action = "REJECT" THEN Start("voidNet", "-") ELSE UNCHANGED task
  /\ UNCHANGED <<fixed, valuation, screen, linked, approval, payout, feeFunds,
                 books, faults>>

\* PATCH /withdraw-transactions/:id/status: the status only, no lock release.
AdminUpdate(action) ==
  /\ action \in AdminActions
  /\ UpdateStatus(action)
  /\ status' \notin WorkflowOnly
  /\ UNCHANGED <<fixed, valuation, screen, linked, approval, payout, feeFunds,
                 books, task, faults>>

ReCloseout ==
  /\ payout = "CONFIRMED" /\ status = "PAYOUT_PENDING"
  /\ Start("finalize", "-")
  /\ UNCHANGED <<fixed, row, approval, payout, feeFunds, books, faults>>

ReCompensate ==
  /\ payout \in Dead \union {"RETURNED"}
  /\ Start("compensate", IF payout = "RETURNED" THEN "RETURN" ELSE "FAIL")
  /\ UNCHANGED <<fixed, row, approval, payout, feeFunds, books, faults>>

\* An await rejects (the database or the ledger is away): the handler ends.
Throw(t) ==
  /\ task[t].at # "idle"
  /\ faults < MaxFaults
  /\ faults' = faults + 1
  /\ Return(t)
  /\ UNCHANGED <<fixed, row, approval, payout, feeFunds, books>>

\* The process dies: every handler and every event in flight is gone.
Crash ==
  /\ Free # Task
  /\ faults < MaxFaults
  /\ faults' = faults + 1
  /\ task' = [t \in Task |-> Idle]
  /\ UNCHANGED <<fixed, row, approval, payout, feeFunds, books>>

-----------------------------------------------------------------------------
(* createWithdrawal has committed and emitted WITHDRAWAL_CREATED.          *)
Init ==
  /\ asset \in {"CRYPTO", "FIAT"}
  /\ hasFee \in BOOLEAN
  /\ status = "CREATED"
  /\ valuation = "NONE"
  /\ preKyt = IF asset = "CRYPTO" THEN "PENDING" ELSE "NONE"
  /\ travelRule = IF asset = "CRYPTO" THEN "PENDING" ELSE "NONE"
  /\ linked = FALSE
  /\ approval = "NONE"
  /\ payout = "NONE"
  /\ feeFunds = <<>>
  /\ transfer = [leg \in Leg |->
       IF leg = "NET" \/ (leg = "FEE" /\ hasFee) THEN "pending" ELSE "none"]
  /\ evidence = [leg \in Leg |->
       IF leg = "NET" \/ (leg = "FEE" /\ hasFee)
       THEN [code |-> "LOCK", type |-> "PENDING"] ELSE NoRow]
  /\ task = [t \in Task |-> IF t = CHOOSE first \in Task : TRUE
                             THEN [at |-> "created", with |-> "-"] ELSE Idle]
  /\ faults = 0

GateStep(t) ==
  \/ Created(t) \/ Valuate(t) \/ Check(t) \/ OpenCase(t) \/ RequireApproval(t)
  \/ Decided(t) \/ Grant(t) \/ Decline(t)

PayoutPhaseStep(t) ==
  \/ ScreenKyt(t) \/ ScreenTravelRule(t) \/ CheckPass(t) \/ Approve(t)
  \/ CreatePayout(t) \/ LinkPayout(t) \/ CreateFeeFund(t)

FinalizeStep(t) ==
  \/ Finalize(t) \/ PostNet(t) \/ MarkNet(t) \/ EnrichNet(t)
  \/ PostFee(t) \/ MarkFee(t) \/ EnrichFee(t)
  \/ FirmTransfer(t) \/ FirmEvidence(t)
  \/ ClearFund(t) \/ AssertSettled(t) \/ MarkSuccess(t) \/ ClearPayout(t)

CompensationStep(t) ==
  \/ Compensate(t) \/ CompStatus(t) \/ VoidNet(t) \/ VoidFee(t) \/ CancelFund(t)

Step(t) ==
  GateStep(t) \/ PayoutPhaseStep(t) \/ FinalizeStep(t) \/ CompensationStep(t)

External ==
  \/ \E v \in Verdict : KytResult(v) \/ TravelRuleResult(v)
  \/ \E d \in Decision : Decide(d)
  \/ \E a \in PayoutAction : PayoutUpdate(a)
  \/ \E a \in AdminActions : AdminUpdate(a)
  \/ ReCloseout \/ ReCompensate

Fault == Crash \/ \E t \in Task : Throw(t)

Next == (\E t \in Task : Step(t)) \/ External \/ Fault

Spec == Init /\ [][Next]_vars

\* Node runs every handler it has started until it ends.
FairSpec == Spec /\ \A t \in Task : WF_vars(Step(t))

\* And an operator calls the repair endpoints as long as they are needed.
RepairSpec == FairSpec /\ SF_vars(ReCompensate) /\ SF_vars(ReCloseout)

-----------------------------------------------------------------------------
\* Every row, leg and suspended handler has a value its code can store.
TypeOK ==
  /\ asset \in {"CRYPTO", "FIAT"} /\ hasFee \in BOOLEAN
  /\ status \in WithdrawStatus
  /\ valuation \in {"NONE", "SMALL", "LARGE"}
  /\ preKyt \in {"NONE", "PENDING"} \union Verdict
  /\ travelRule \in {"NONE", "PENDING", "NOT_REQUIRED"} \union Verdict
  /\ linked \in BOOLEAN
  /\ approval \in {"NONE", "PENDING"} \union Decision
  /\ payout \in PayoutStatus \union {"NONE"}
  /\ feeFunds \in Seq({"CREATED", "CLEAR", "CANCELLED"})
  /\ transfer \in [Leg -> TransferState]
  /\ evidence \in [Leg -> EvidenceRow]
  /\ task \in [Task -> [at : At, with : Carried]]
  /\ faults \in 0..MaxFaults

\* The customer and the firm are charged only for money that has left: what
\* finalizeWithdrawal posts, whatever PayoutsService does in between.
ChargedOnlyIfPaid ==
  \A leg \in Leg : transfer[leg] = "posted" => payout \in Paid

\* The lock is given back (releaseLock) only when the rail is dead, or was never
\* started and the withdrawal is rejected for good.
ReleasedOnlyIfUnpaid ==
  \A leg \in Leg : transfer[leg] = "voided" =>
    payout \in Dead \/ (payout = "NONE" /\ status = "REJECTED")

\* SUCCESS, and RETURNED after it, mean that net, fee and firm fee are in the
\* ledger (assertWithdrawSettled looks at evidence, not at the ledger).
SettledInFull ==
  status \in {"SUCCESS", "RETURNED"} =>
    /\ transfer["NET"] = "posted"
    /\ hasFee => transfer["FEE"] = "posted" /\ transfer["FIRM"] = "posted"

\* The firm books its fee only after the customer has paid net and fee: a
\* finalizeWithdrawal that stops half way stops on the customer's side.
FirmFeeEarned ==
  transfer["FIRM"] = "posted" =>
    transfer["NET"] = "posted" /\ transfer["FEE"] = "posted"

\* The evidence in SQL never claims a charge the ledger does not have, so the
\* settlement guard, which reads evidence, is not deceived.
EvidenceNotAhead ==
  \A leg \in Leg :
    evidence[leg].type = "POSTED" \/ evidence[leg].code = "POST"
      => transfer[leg] = "posted"

\* No large withdrawal is paid without the approval of its case, however the
\* decision, the screening events and the two gate handlers interleave.
LargeIsApproved ==
  payout # "NONE" /\ valuation = "LARGE" => approval = "APPROVED"

\* When no handler is in flight and nothing has failed, ledger and evidence
\* tell the same charges (two stores, written in turn).
Quiet == Free = Task
BooksMatch ==
  Quiet /\ faults = 0 => \A leg \in Leg :
    transfer[leg] = "posted" <=> evidence[leg] = [code |-> "POST", type |-> "POSTED"]

Released == transfer["NET"] = "voided" /\ (hasFee => transfer["FEE"] = "voided")

\* When the rail dies, the withdrawal fails and the customer gets the whole lock
\* back (compensatePayout), if need be with the operator's repair endpoint.
DeadIsReleased == payout \in Dead ~> status = "FAILED" /\ Released

\* When the rail confirms, the withdrawal is settled (finalizeWithdrawal), if no
\* call fails on the way and the bank does not return the money.
PaidIsSettledUnlessFaulty ==
  payout = "CONFIRMED" ~> status = "SUCCESS" \/ payout = "RETURNED" \/ faults > 0

-----------------------------------------------------------------------------
(* The promise to the customer, and how this module keeps it.              *)

AbstractRail ==
  IF payout \in Paid THEN "paid"
  ELSE IF payout \in Dead THEN "dead"
  ELSE IF \E leg \in {"NET", "FEE"} : transfer[leg] = "voided" THEN "refused"
  ELSE "open"

AbstractLeg ==
  [leg \in {"NET", "FEE"} |->
    CASE transfer[leg] = "pending" -> "locked"
      [] transfer[leg] = "posted" -> "charged"
      [] transfer[leg] = "voided" -> "free"
      [] OTHER -> "absent"]

Promise == INSTANCE CustomerLock WITH rail <- AbstractRail, leg <- AbstractLeg

\* Seen from the customer's money, the saga does nothing but the steps of
\* CustomerLock: each leg is charged once after the money was paid out, or given
\* back once when it never will be.
KeepsPromise == Promise!Spec
=============================================================================
