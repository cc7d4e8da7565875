---------------------------- MODULE CustomerLock ----------------------------
(***************************************************************************)
(* What a withdrawal promises about the customer's money, whatever         *)
(* handlers, events and failures there are.  The amount is locked in one   *)
(* or two legs, the net amount and the fee.  A leg is charged only when    *)
(* the money has been paid out, and given back only when it never will be; *)
(* either way it happens once.  So no leg is charged while the other is    *)
(* given back, and nobody is paid and refunded.                            *)
(***************************************************************************)
VARIABLES
  rail,  \* "open", "paid", "dead", or "refused" when no payout ever exists
  leg    \* the state of the customer's legs

vars == <<rail, leg>>

CustomerLeg == {"NET", "FEE"}

Init ==
  /\ rail = "open"
  /\ leg \in [CustomerLeg -> {"locked", "absent"}]
  /\ leg["NET"] = "locked"

Pay == rail = "open" /\ rail' = "paid" /\ UNCHANGED leg
Die == rail = "open" /\ rail' = "dead" /\ UNCHANGED leg

Charge(l) ==
  /\ rail = "paid"
  /\ leg[l] = "locked"
  /\ leg' = [leg EXCEPT ![l] = "charged"]
  /\ UNCHANGED rail

GiveBack(l) ==
  /\ rail \in {"open", "refused", "dead"}
  /\ leg[l] = "locked"
  /\ leg' = [leg EXCEPT ![l] = "free"]
  /\ rail' = IF rail = "open" THEN "refused" ELSE rail

Next == Pay \/ Die \/ \E l \in CustomerLeg : Charge(l) \/ GiveBack(l)

Spec == Init /\ [][Next]_vars
=============================================================================
