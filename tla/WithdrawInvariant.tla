------------------------- MODULE WithdrawInvariant --------------------------
(***************************************************************************)
(* Why a withdrawal is safe: what is true of the rows and the ledger while *)
(* a handler is suspended at a given place.  Each part is inductive        *)
(* together with the parts before it (module WithdrawSafetyProofs).        *)
(***************************************************************************)
EXTENDS WithdrawSaga

InFlight(places) == \E t \in Task : task[t].at \in places
Alone(places) ==
  \A s, t \in Task : task[s].at \in places /\ task[t].at \in places => s = t

Opening == {"created", "valuate", "openCase"}
Deciding == {"decided", "grant", "decline"}
Finalizing ==
  {"finalize", "postNet", "markNet", "enrichNet", "postFee", "markFee",
   "enrichFee", "firmTransfer", "firmEvidence", "clearFund", "assertSettled",
   "markSuccess", "clearPayout"}
Releasing == {"voidNet", "voidFee", "cancelFund"}

\* The approval case is opened once and decided once: a decision to decline
\* cannot meet a withdrawal that was let through.
OneDecision ==
  /\ Alone(Opening) /\ Alone(Deciding)
  /\ InFlight(Opening) => approval = "NONE"
  /\ InFlight(Deciding) => approval \in Decision
  /\ \A t \in Task : task[t].at = "decline" =>
       status \in {"PENDING_APPROVAL", "CANCELLED", "REJECTED"}

\* No payout exists, or is about to, before the compliance phase.
NoEarlyPayout ==
  status \in {"CREATED", "PENDING_APPROVAL"} =>
    payout = "NONE" /\ ~InFlight({"createPayout"})

\* A handler that charges or compensates was started by the rail, and what
\* the rail said is still true.
RailHeard ==
  /\ InFlight(Finalizing) => payout \in Paid
  /\ \A t \in Task : task[t].at \in {"compensate", "compStatus"} =>
       \/ task[t].with = "FAIL" /\ payout \in Dead
       \/ task[t].with = "RETURN" /\ payout = "RETURNED"

Charged == transfer["NET"] = "posted" /\ (hasFee =>
             transfer["FEE"] = "posted" /\ transfer["FIRM"] = "posted")

\* What finalizeWithdrawal has achieved when it is suspended at a place.
ChargeProgress ==
  /\ InFlight({"markNet", "enrichNet", "postFee", "markFee", "enrichFee",
               "firmTransfer", "firmEvidence"}) => transfer["NET"] = "posted"
  /\ InFlight({"markFee", "enrichFee", "firmTransfer", "firmEvidence"})
       => transfer["FEE"] = "posted"
  /\ InFlight({"firmEvidence"}) => transfer["FIRM"] = "posted"
  /\ InFlight({"markSuccess", "clearPayout"}) => Charged

\* The firm's leg is never locked, and a fee leg exists only for a fee.
LegsExist ==
  /\ transfer["FIRM"] \in {"none", "posted"}
  /\ hasFee \/ transfer["FEE"] = "none"

\* The rail was never started and never will be.
NeverPaid ==
  payout = "NONE" /\ status = "REJECTED" /\ ~InFlight({"createPayout"})

\* A handler that gives the lock back has the right to, or finds it charged.
ReleaseJustified ==
  /\ InFlight(Releasing) => payout \in Dead \/ NeverPaid \/ status = "RETURNED"
  /\ \A leg \in Leg : transfer[leg] = "voided" => payout \in Dead \/ NeverPaid

\* The books stay safe at every await: nothing is charged before the rail has
\* paid, nothing is given back once it may still pay, and what each suspended
\* handler of WithdrawWorkflowService is about to do is still justified by what
\* it read before, whatever ran in between.
SafetyInv ==
  /\ TypeOK
  /\ OneDecision /\ NoEarlyPayout /\ RailHeard
  /\ ChargedOnlyIfPaid /\ EvidenceNotAhead /\ FirmFeeEarned
  /\ LegsExist /\ ChargeProgress /\ SettledInFull
  /\ ReleaseJustified

Recorded == [code |-> "POST", type |-> "POSTED"]

\* A handler is between the ledger's charge of a leg and its last evidence write.
Recording(leg, mark, enrich) ==
  \/ InFlight({mark})
  \/ InFlight({enrich}) /\ evidence[leg].type = "POSTED"

\* As long as nothing has failed, a charge the evidence does not tell yet is being
\* recorded by a handler that is still in flight (updateTransferType and
\* enrichForPost after postPendingTransfer).
ChargeRecorded ==
  faults = 0 =>
    /\ transfer["NET"] = "posted" =>
         evidence["NET"] = Recorded \/ Recording("NET", "markNet", "enrichNet")
    /\ transfer["FEE"] = "posted" =>
         evidence["FEE"] = Recorded \/ Recording("FEE", "markFee", "enrichFee")
    /\ transfer["FIRM"] = "posted" =>
         evidence["FIRM"] = Recorded \/ InFlight({"firmEvidence"})

BeforeGate == Opening \union {"check", "requireApproval"}
NoPayoutYet == payout = "NONE" /\ ~InFlight({"createPayout"})

\* When the admin endpoint is not used to CHECK, a large withdrawal passes the
\* gate of openApprovalGate and onLargeValueApprovalDecided only with its
\* approval: neither a late nor a declined decision reaches GATE_APPROVE.
GateKept ==
  /\ Alone(BeforeGate)
  /\ InFlight(Opening \union {"check"}) =>
       status \in {"CREATED", "CANCELLED"} /\ NoPayoutYet
  /\ InFlight({"check"}) => valuation = "SMALL"
  /\ \A t \in Task : task[t].at \in {"decided", "grant"} => approval = task[t].with
  /\ InFlight({"grant"}) => approval = "APPROVED"
  /\ valuation = "LARGE" =>
       \/ approval = "APPROVED"
       \/ /\ status \in {"CREATED", "PENDING_APPROVAL", "CANCELLED", "REJECTED"}
          /\ NoPayoutYet

\* The places of the one handler that has posted the net leg, in their order.
Charging == {"markNet", "enrichNet", "postFee", "markFee", "enrichFee", "firmTransfer",
             "firmEvidence", "clearFund", "assertSettled", "markSuccess"}
NetRecorded == Charging \ {"markNet", "enrichNet"}
FeeRecorded == NetRecorded \ {"postFee", "markFee", "enrichFee"}
FirmRecorded == FeeRecorded \ {"firmTransfer", "firmEvidence"}

\* Only one handler gets past the ledger's check of the net leg, and it finds
\* the other legs as it needs them, so assertWithdrawSettled will not stop it.
OneCharges ==
  /\ Alone(Charging) /\ transfer["NET"] # "none"
  /\ InFlight(Charging) => transfer["NET"] = "posted"
  /\ InFlight(NetRecorded) => evidence["NET"].code = "POST"
  /\ ~hasFee => ~InFlight({"postFee", "markFee", "enrichFee", "firmTransfer", "firmEvidence"})
  /\ hasFee =>
       /\ transfer["FEE"] # "none"
       /\ transfer["FEE"] = "posted" \/ transfer["FIRM"] = "posted" =>
            transfer["NET"] = "posted"
       /\ InFlight({"markNet", "enrichNet", "postFee"}) => transfer["FEE"] # "posted"
       /\ InFlight(Charging \ (FirmRecorded \union {"firmEvidence"})) => transfer["FIRM"] = "none"
       /\ InFlight(FeeRecorded) => evidence["FEE"].code = "POST"
       /\ InFlight(FirmRecorded) => evidence["FIRM"].code = "POST"

\* A withdrawal with a payout waits for the rail, or says what the rail has said.
RowFollowsRail ==
  /\ payout # "NONE" \/ InFlight({"createPayout"}) =>
       status \in {"PAYOUT_PENDING", "SUCCESS", "FAILED", "RETURNED"}
  /\ status = "FAILED" => payout \in Dead
  /\ status = "RETURNED" => payout = "RETURNED"

\* As long as nothing has failed: what the rail has decided is done, or the
\* handler that will do it is in flight.
Underway ==
  faults = 0 =>
    /\ payout \in {"CONFIRMED", "CLEARED"} /\ status = "PAYOUT_PENDING" =>
         \/ transfer["NET"] = "pending" /\ InFlight({"finalize", "postNet"})
         \/ InFlight(Charging)
    /\ payout \in Dead =>
         /\ status = "FAILED" \/ InFlight({"compensate", "compStatus"})
         /\ transfer["NET"] = "voided" \/ InFlight({"compensate", "compStatus", "voidNet"})
         /\ hasFee => \/ transfer["FEE"] = "voided"
                      \/ InFlight({"compensate", "compStatus", "voidNet", "voidFee"})

OutcomeReached == OneCharges /\ RowFollowsRail /\ Underway

\* No answer of the rail is dropped, whichever handlers cross: when none is in
\* flight and nothing has failed, a confirmed payout has its withdrawal settled,
\* a dead one has it failed and the whole lock given back.
RailIsAnswered ==
  Quiet /\ faults = 0 =>
    /\ payout \in {"CONFIRMED", "CLEARED"} => status = "SUCCESS"
    /\ payout \in Dead => status = "FAILED" /\ Released
=============================================================================
