----------------------------- MODULE MCSwapSaga -----------------------------
(* Two requests that carry the same quote.                                   *)
EXTENDS SwapSaga, TLC

CONSTANTS r1, r2, q1

MCQuoteOf == [s \in Request |-> q1]
=============================================================================
