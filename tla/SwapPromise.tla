---------------------------- MODULE SwapPromise ----------------------------
(***************************************************************************)
(* What swaps promise about money, whatever transactions are rolled back   *)
(* between the ledger and the rows.  A quote is sold to one request.  The  *)
(* transfers of a leg are held, then charged or given back, in as many     *)
(* attempts as it takes: each is charged in one attempt only, and none is  *)
(* held before everything of the earlier legs is charged.  A swap is       *)
(* settled when all is charged and nothing is held, and then left alone.   *)
(***************************************************************************)
EXTENDS Naturals

CONSTANTS
  Request, QuoteOf,
  Leg,     \* the legs, numbered in the order of settlement
  Attempt

VARIABLES
  due,      \* the transfers each leg of a swap consists of
  ledger,   \* each attempt at each of them: none, pending, posted or voided
  sold,     \* the requests that got their quote
  settled

vars == <<due, ledger, sold, settled>>

Init ==
  /\ due \in [Request -> [Leg -> SUBSET (1..2)]]
  /\ ledger = [s \in Request |->
                [l \in Leg |-> [a \in Attempt |-> [k \in 1..2 |-> "none"]]]]
  /\ sold = {} /\ settled = {}

Charged(s, l, k) == \E a \in Attempt : ledger[s][l][a][k] = "posted"
PaidBefore(s, l) == \A m \in Leg : m < l => \A k \in due[s][m] : Charged(s, m, k)

Sell(s) ==
  /\ sold' = sold \union {s}
  /\ \A u \in sold : QuoteOf[u] # QuoteOf[s]
  /\ UNCHANGED <<due, ledger, settled>>

Move(s, l, a, k, from, to) ==
  /\ ledger[s][l][a][k] = from
  /\ ledger' = [ledger EXCEPT ![s][l][a][k] = to]
  /\ k \in due[s][l] /\ s \notin settled
  /\ UNCHANGED <<due, sold, settled>>

Hold(s, l, a, k) == Move(s, l, a, k, "none", "pending") /\ PaidBefore(s, l)
Charge(s, l, a, k) ==
  Move(s, l, a, k, "pending", "posted") /\ s \in sold /\ ~Charged(s, l, k)
GiveBack(s, l, a, k) == Move(s, l, a, k, "pending", "voided") /\ s \in sold

Settle(s) ==
  /\ s \in sold \ settled
  /\ \A l \in Leg : /\ \A k \in due[s][l] : Charged(s, l, k)
                    /\ \A a \in Attempt, k \in 1..2 : ledger[s][l][a][k] # "pending"
  /\ settled' = settled \union {s}
  /\ UNCHANGED <<due, ledger, sold>>

Next ==
  \E s \in Request :
    \/ \E l \in Leg, a \in Attempt, k \in 1..2 :
         Hold(s, l, a, k) \/ Charge(s, l, a, k) \/ GiveBack(s, l, a, k)
    \/ Sell(s) \/ Settle(s)

Spec == Init /\ [][Next]_vars
=============================================================================
