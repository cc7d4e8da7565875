--------------------------- MODULE MCDepositSaga ---------------------------
(* One signal, on either channel, for which two payins could be created.     *)
EXTENDS DepositSaga, TLC

CONSTANTS s1, p1, p2

MCSignalOf == [p \in Payin |-> s1]
=============================================================================
