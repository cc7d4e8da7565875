--------------------------- MODULE DepositPromise ---------------------------
(***************************************************************************)
(* What deposits promise about money, whatever calls overlap, fail or die. *)
(* A transfer on the chain is put on the books as one payin at most.  What *)
(* a customer is credited is on the books before, unless the desk vouches  *)
(* for it, and was screened before, unless the desk approves it.  Neither  *)
(* transfer is ever taken back.  SUCCESS is told of what is credited, and  *)
(* stands unless an update crosses the approval.                           *)
(***************************************************************************)
CONSTANTS Payin, Signal, SignalOf

VARIABLES
  onChain,   \* the signals of transfers on a chain
  booked,    \* payins whose money is in the suspense account
  screened,  \* what has passed the screening it needs
  vouched,   \* what the desk has confirmed by hand
  approved,  \* what the desk has approved by hand
  credited,  \* what the customer has been credited
  told,      \* what says SUCCESS
  crossed    \* what an update has crossed the approval of

vars == <<onChain, booked, screened, vouched, approved, credited, told, crossed>>

Init ==
  /\ onChain \subseteq Signal
  /\ booked = {} /\ screened = {} /\ vouched = {} /\ approved = {}
  /\ credited = {} /\ told = {} /\ crossed = {}

Book(p) ==
  /\ SignalOf[p] \in onChain => \A q \in booked : SignalOf[q] = SignalOf[p] => q = p
  /\ booked' = booked \union {p}
  /\ UNCHANGED <<onChain, screened, vouched, approved, credited, told, crossed>>

Screen(p) ==
  /\ screened' = screened \union {p}
  /\ UNCHANGED <<onChain, booked, vouched, approved, credited, told, crossed>>

Vouch(p) ==
  /\ vouched' = vouched \union {p}
  /\ UNCHANGED <<onChain, booked, screened, approved, credited, told, crossed>>

Credit(p) ==
  /\ p \in booked \union vouched
  /\ (p \in screened /\ approved' = approved) \/ approved' = approved \union {p}
  /\ credited' = credited \union {p}
  /\ UNCHANGED <<onChain, booked, screened, vouched, told, crossed>>

Tell(p) ==
  /\ p \in credited
  /\ told' = told \union {p}
  /\ UNCHANGED <<onChain, booked, screened, vouched, approved, credited, crossed>>

\* The crossing update may be the desk's, and may undo what was told.
Cross(p) ==
  /\ crossed' = crossed \union {p}
  /\ told' \in {told, told \ {p}}
  /\ vouched' \in {vouched, vouched \union {p}}
  /\ UNCHANGED <<onChain, booked, screened, approved, credited>>

Next ==
  \E p \in Payin :
    Book(p) \/ Screen(p) \/ Vouch(p) \/ Credit(p) \/ Tell(p) \/ Cross(p)

Spec == Init /\ [][Next]_vars
=============================================================================
