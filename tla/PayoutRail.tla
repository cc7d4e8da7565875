----------------------------- MODULE PayoutRail -----------------------------
(***************************************************************************)
(* The status machine of a payout, the instruction that moves the net      *)
(* amount out of the house: one table for the chain, one for the bank.     *)
(***************************************************************************)

PayoutStatus ==
  {"CREATED", "SIGNING", "BROADCASTED", "CONFIRMING", "CONFIRMED", "CLEARED",
   "FAILED", "TIMEOUT", "RETURNED"}

PayoutAction ==
  {"SIGN", "SIGN_FAIL", "BROADCAST", "SEEN_IN_MEMPOOL", "DROP", "SUBMIT",
   "CONFIRM", "FAIL", "TIMEOUT", "REORG", "CLEAR", "RETURN"}

CryptoTransitions ==
  {<<"CREATED", "SIGN", "SIGNING">>,
   <<"SIGNING", "BROADCAST", "BROADCASTED">>,
   <<"SIGNING", "SIGN_FAIL", "FAILED">>,
   <<"BROADCASTED", "SEEN_IN_MEMPOOL", "CONFIRMING">>,
   <<"BROADCASTED", "DROP", "FAILED">>,
   <<"BROADCASTED", "TIMEOUT", "TIMEOUT">>,
   <<"CONFIRMING", "CONFIRM", "CONFIRMED">>,
   <<"CONFIRMING", "TIMEOUT", "TIMEOUT">>,
   <<"CONFIRMING", "FAIL", "FAILED">>,
   <<"CONFIRMING", "REORG", "BROADCASTED">>,
   <<"CONFIRMED", "CLEAR", "CLEARED">>}

FiatTransitions ==
  {<<"CREATED", "SUBMIT", "CONFIRMING">>,
   <<"CONFIRMING", "CONFIRM", "CONFIRMED">>,
   <<"CONFIRMING", "FAIL", "FAILED">>,
   <<"CONFIRMING", "TIMEOUT", "TIMEOUT">>,
   <<"CONFIRMED", "CLEAR", "CLEARED">>,
   <<"CONFIRMED", "RETURN", "RETURNED">>,
   <<"CLEARED", "RETURN", "RETURNED">>}

RailTransitions(type) ==
  IF type = "CRYPTO" THEN CryptoTransitions ELSE FiatTransitions

\* The money has reached the beneficiary at some time.
Paid == {"CONFIRMED", "CLEARED", "RETURNED"}

\* The money never left, and never will.
Dead == {"FAILED", "TIMEOUT"}
=============================================================================
