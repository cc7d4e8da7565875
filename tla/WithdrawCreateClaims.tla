------------------------ MODULE WithdrawCreateClaims ------------------------
(***************************************************************************)
(* What a comment says of createWithdrawal and its code does not do.       *)
(***************************************************************************)
EXTENDS MCWithdrawCreate

\* "we must void any TB transfers that were already created": a request whose
\* compensation ended without a CRITICAL line has left nothing locked.
FailedHoldsNothing ==
  \A r \in Request : at[r] = "failed" =>
    \A leg \in Leg : lock[r][leg] # "pending"
=============================================================================
