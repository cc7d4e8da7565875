--------------------------- MODULE ChangeControl ---------------------------
(***************************************************************************)
(* What a governed configuration promises: a value changes only by         *)
(* applying a proposal that was granted, to the value that was proposed,   *)
(* and a proposal is applied at most once.                                 *)
(***************************************************************************)
CONSTANTS Case, Family, Value

VARIABLES
  value,     \* the configured value of each family that has one
  proposal,  \* for each case: the family and the value it is about
  granted,   \* the cases that were approved
  applied    \* the cases whose proposal was applied

vars == <<value, proposal, granted, applied>>

Init ==
  /\ value \in [DOMAIN value -> Value]
  /\ proposal \in [Case -> [family : Family, to : Value]]
  /\ granted = {} /\ applied = {}

Propose(c) ==
  /\ c \notin granted
  /\ \E f \in Family, v \in Value :
       proposal' = [proposal EXCEPT ![c] = [family |-> f, to |-> v]]
  /\ UNCHANGED <<value, granted, applied>>

Grant(c) ==
  /\ granted' = granted \union {c}
  /\ UNCHANGED <<value, proposal, applied>>

Apply(c) ==
  /\ c \in granted \ applied
  /\ applied' = applied \union {c}
  /\ value' = [f \in DOMAIN value |->
                IF f = proposal[c].family THEN proposal[c].to ELSE value[f]]
  /\ UNCHANGED <<proposal, granted>>

Next == \E c \in Case : Propose(c) \/ Grant(c) \/ Apply(c)
Spec == Init /\ [][Next]_vars
=============================================================================
