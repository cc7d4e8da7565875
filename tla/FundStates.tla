------------------------------ MODULE FundStates ------------------------------
(***************************************************************************)
(* The status machine of an internal fund, the row that stands for one     *)
(* movement of money inside the house, as FundsFlowService keeps it: sets  *)
(* of <<current status, action, next status>>; what is not listed throws.  *)
(***************************************************************************)

FundStatus ==
  {"CREATED", "SIGNING", "BROADCASTED", "CONFIRMING", "CONFIRMED", "CLEAR",
   "FAILED", "TIMEOUT", "RETURNED", "NEEDS_REVIEW", "CANCELLED"}

FundAction ==
  {"SIGN", "BROADCAST", "SIGN_FAIL", "SEEN_IN_MEMPOOL", "DROP", "TIMEOUT",
   "CONFIRM", "FAIL", "CLEAR", "SUBMIT", "RETURN", "CANCEL", "REORG"}

CryptoFundTransitions ==
  {<<"CREATED", "SIGN", "SIGNING">>,
   <<"SIGNING", "BROADCAST", "BROADCASTED">>,
   <<"SIGNING", "SIGN_FAIL", "FAILED">>,
   <<"BROADCASTED", "SEEN_IN_MEMPOOL", "CONFIRMING">>,
   <<"BROADCASTED", "DROP", "FAILED">>,
   <<"BROADCASTED", "TIMEOUT", "TIMEOUT">>,
   <<"CONFIRMING", "CONFIRM", "CONFIRMED">>,
   <<"CONFIRMING", "REORG", "BROADCASTED">>,
   <<"CONFIRMING", "FAIL", "FAILED">>,
   <<"CONFIRMING", "TIMEOUT", "TIMEOUT">>,
   <<"CONFIRMED", "CLEAR", "CLEAR">>}
  \union {<<status, "CANCEL", "CANCELLED">> :
            status \in {"CREATED", "SIGNING", "BROADCASTED", "CONFIRMING"}}

FiatFundTransitions ==
  {<<"CREATED", "SUBMIT", "CONFIRMING">>,
   <<"CREATED", "CANCEL", "CANCELLED">>,
   <<"CONFIRMING", "CONFIRM", "CONFIRMED">>,
   <<"CONFIRMING", "FAIL", "FAILED">>,
   <<"CONFIRMING", "TIMEOUT", "TIMEOUT">>,
   <<"CONFIRMED", "CLEAR", "CLEAR">>,
   <<"CONFIRMED", "RETURN", "RETURNED">>,
   <<"CLEAR", "RETURN", "RETURNED">>}

FundTransitions(fiat) ==
  IF fiat THEN FiatFundTransitions ELSE CryptoFundTransitions
=============================================================================
