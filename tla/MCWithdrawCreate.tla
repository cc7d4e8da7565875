-------------------------- MODULE MCWithdrawCreate --------------------------
(* Three requests of one customer: two with the same quote, one with a quote *)
(* of its own.  The balance would pay for the first quote twice; after the   *)
(* first it covers the net amount of the second one, but not its fee.        *)
EXTENDS WithdrawCreate, TLC

CONSTANTS r1, r2, r3, q1, q2

MCQuoteOf == r1 :> q1 @@ r2 :> q1 @@ r3 :> q2
MCNet == q1 :> 2 @@ q2 :> 3
MCFee == q1 :> 1 @@ q2 :> 2
=============================================================================
