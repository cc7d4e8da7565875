---------------------------- MODULE DepositStates ----------------------------
(***************************************************************************)
(* The status machines of a deposit and of the payin behind it, as         *)
(* DepositTransactionsService and PayinsService keep them.  Each is a set  *)
(* of <<current status, action, next status>>; what is not listed throws.  *)
(***************************************************************************)

DepositStatus ==
  {"PAYIN_PENDING", "COMPLIANCE_PENDING", "ACTION_PENDING", "FROZEN",
   "SUCCESS", "REJECTED", "FAILED", "EXPIRED", "CONFISCATED"}

DepositAction ==
  {"PAYIN_CONFIRMED", "APPROVE", "REJECT", "FREEZE", "ACTION_PENDING",
   "RESUME", "CONFISCATE", "EXPIRE", "FAIL"}

DepositTerminal == {"SUCCESS", "REJECTED", "FAILED", "EXPIRED", "CONFISCATED"}

DepositTransitions ==
  {<<"PAYIN_PENDING", "PAYIN_CONFIRMED", "COMPLIANCE_PENDING">>,
   <<"PAYIN_PENDING", "FAIL", "FAILED">>,
   <<"COMPLIANCE_PENDING", "APPROVE", "SUCCESS">>,
   <<"COMPLIANCE_PENDING", "REJECT", "REJECTED">>,
   <<"COMPLIANCE_PENDING", "FREEZE", "FROZEN">>,
   <<"COMPLIANCE_PENDING", "ACTION_PENDING", "ACTION_PENDING">>,
   <<"COMPLIANCE_PENDING", "FAIL", "FAILED">>,
   <<"ACTION_PENDING", "APPROVE", "SUCCESS">>,
   <<"ACTION_PENDING", "REJECT", "REJECTED">>,
   <<"ACTION_PENDING", "FREEZE", "FROZEN">>,
   <<"ACTION_PENDING", "RESUME", "COMPLIANCE_PENDING">>,
   <<"ACTION_PENDING", "EXPIRE", "EXPIRED">>,
   <<"FROZEN", "APPROVE", "SUCCESS">>,
   <<"FROZEN", "CONFISCATE", "CONFISCATED">>}

PayinStatus == {"DETECTED", "CONFIRMING", "CONFIRMED", "CLEARED", "FAILED"}

PayinAction == {"BLOCK", "CONFIRM", "FAIL", "REORG", "CLEAR"}

FiatPayinTransitions ==
  {<<"DETECTED", "CONFIRM", "CONFIRMED">>,
   <<"DETECTED", "FAIL", "FAILED">>,
   <<"CONFIRMED", "CLEAR", "CLEARED">>}

CryptoPayinTransitions ==
  {<<"DETECTED", "BLOCK", "CONFIRMING">>,
   <<"DETECTED", "FAIL", "FAILED">>,
   <<"CONFIRMING", "CONFIRM", "CONFIRMED">>,
   <<"CONFIRMING", "FAIL", "FAILED">>,
   <<"CONFIRMING", "REORG", "DETECTED">>,
   <<"CONFIRMED", "CLEAR", "CLEARED">>}

PayinTransitions(channel) ==
  IF channel = "CRYPTO" THEN CryptoPayinTransitions ELSE FiatPayinTransitions
=============================================================================
