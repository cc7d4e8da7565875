--------------------------- MODULE MCConfigChange ---------------------------
(* Two changes of one thing, a fee change while the policy for fee changes   *)
(* is changed, or two creations.  Fee changes need two steps under the first *)
(* policy and one under the other.  One user holds both roles, one user is a *)
(* super admin without any.                                                  *)
EXTENDS ConfigInvariant, TLC

CONSTANTS c1, c2, maker, both, boss

MCRolesOf == maker :> {"A"} @@ both :> {"A", "B"} @@ boss :> {}
MCStepsOf == 0 :> <<{"A"}, {"B"}>> @@ 1 :> <<{"B"}>> @@ 2 :> <<{"A"}>>
MCFixedSteps == <<{"A"}>>
MCMakerOf == c1 :> maker @@ c2 :> boss
MCWanted == c1 :> 1 @@ c2 :> 2
MCAssignment ==
  {c1 :> f @@ c2 :> f : f \in {"fee", "limit", "role"}}
    \union {c1 :> "fee" @@ c2 :> "policy", c1 :> "level" @@ c2 :> "newRole"}
=============================================================================
