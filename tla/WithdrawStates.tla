--------------------------- MODULE WithdrawStates ---------------------------
(***************************************************************************)
(* The status machine of a withdrawal row, as WithdrawTransactionsService  *)
(* keeps it: which action leads from which status to which, and which of   *)
(* the resulting statuses the admin endpoint may not reach.                *)
(***************************************************************************)

WithdrawStatus ==
  {"CREATED", "PENDING_APPROVAL", "PENDING_COMPLIANCE", "UNDER_REVIEW",
   "APPROVED", "PAYOUT_PENDING", "SUCCESS", "FAILED", "REJECTED",
   "CANCELLED", "RETURNED", "HELD"}

WithdrawAction ==
  {"REQUIRE_APPROVAL", "GATE_APPROVE", "CHECK", "FLAG", "APPROVE", "REJECT",
   "SUCCESS", "FAIL", "RETURN", "CANCEL"}

\* <<current status, action, next status>>; a pair that is not listed is refused.
WithdrawTransitions ==
  {<<"CREATED", "REQUIRE_APPROVAL", "PENDING_APPROVAL">>,
   <<"CREATED", "CHECK", "PENDING_COMPLIANCE">>,
   <<"CREATED", "CANCEL", "CANCELLED">>,
   <<"PENDING_APPROVAL", "GATE_APPROVE", "PENDING_COMPLIANCE">>,
   <<"PENDING_APPROVAL", "REJECT", "REJECTED">>,
   <<"PENDING_APPROVAL", "CANCEL", "CANCELLED">>,
   <<"PENDING_COMPLIANCE", "FLAG", "UNDER_REVIEW">>,
   <<"PENDING_COMPLIANCE", "REJECT", "REJECTED">>,
   <<"PENDING_COMPLIANCE", "APPROVE", "PAYOUT_PENDING">>,
   <<"PENDING_COMPLIANCE", "CANCEL", "CANCELLED">>,
   <<"UNDER_REVIEW", "APPROVE", "PAYOUT_PENDING">>,
   <<"UNDER_REVIEW", "REJECT", "REJECTED">>,
   <<"UNDER_REVIEW", "CANCEL", "CANCELLED">>,
   <<"APPROVED", "APPROVE", "PAYOUT_PENDING">>,
   <<"PAYOUT_PENDING", "FLAG", "UNDER_REVIEW">>,
   <<"PAYOUT_PENDING", "REJECT", "REJECTED">>,
   <<"PAYOUT_PENDING", "SUCCESS", "SUCCESS">>,
   <<"PAYOUT_PENDING", "FAIL", "FAILED">>,
   <<"PAYOUT_PENDING", "APPROVE", "PAYOUT_PENDING">>,
   <<"SUCCESS", "RETURN", "RETURNED">>,
   <<"SUCCESS", "SUCCESS", "SUCCESS">>,
   <<"FAILED", "FAIL", "FAILED">>}

\* The statuses an ADMIN_API status update is refused to reach.
WorkflowOnly == {"PAYOUT_PENDING", "SUCCESS", "FAILED", "RETURNED"}

\* The actions AdminUpdateWithdrawTransactionStatusDto lets through.
AdminWithdrawAction == {"CHECK", "FLAG", "REJECT", "CANCEL"}
=============================================================================
