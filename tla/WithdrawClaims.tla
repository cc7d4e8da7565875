--------------------------- MODULE WithdrawClaims ---------------------------
(***************************************************************************)
(* What the repository's documents and comments say of a withdrawal and    *)
(* its code does not do.                                                   *)
(***************************************************************************)
EXTENDS WithdrawSaga

\* "the withdrawal stays PAYOUT_PENDING for operator repair via
\* reCloseoutPayout": a confirmed payout is settled in the end, because the
\* operator can run finalizeWithdrawal again after a failure.
PaidIsSettled == payout = "CONFIRMED" ~> status = "SUCCESS" \/ payout = "RETURNED"

\* "the withdrawal materialises its two fund orders": the payout and one fee
\* InternalFund, however many handlers find the screening passed.
OneFeeFund == Len(feeFunds) <= 1

\* releaseLock is called at every terminal status that unlocks: a refused large
\* withdrawal, compliance and admin REJECT, failed payouts, CANCELLED.
TerminalUnlocks ==
  Quiet /\ faults = 0 /\ status \in {"REJECTED", "CANCELLED", "FAILED"} =>
    \A leg \in Leg : transfer[leg] # "pending"

\* "approved: into compliance; refused: void the TB pending and unlock": the
\* decision of the approvers always has its effect.
DecisionTakesEffect ==
  approval \in Decision ~> status \notin {"CREATED", "PENDING_APPROVAL"}
=============================================================================
