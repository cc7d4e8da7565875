----------------------------- MODULE RiskPolicy -----------------------------
(***************************************************************************)
(* applyPolicy with the rules of config/client-risk-assessment-policy.json: *)
(* the tier an AML answer leads to and the way the assessment is signed.   *)
(* MEDIUM is a tier no rule gives: an administrator's demo endpoint sets   *)
(* it, and it is left out.                                                 *)
(***************************************************************************)

Tier == {"LOW", "HIGH", "UNKNOWN"}
Label == {"PEP", "ADVERSE_MEDIA", "SANCTIONS"}
AmlResult == [answer : {"GREEN", "RED"}, labels : SUBSET Label]

Sanctioned(result) == result.answer = "RED" /\ "SANCTIONS" \in result.labels

\* The first rule that matches.  `stale`: a holding is EXPIRED or MISSING.
RuleTier(result, stale, previous) ==
  IF result.labels # {} THEN "HIGH"
  ELSE IF result.answer = "RED" THEN previous    \* KEEP_PREVIOUS
  ELSE IF stale THEN "UNKNOWN"
  ELSE "LOW"

\* Mutant: no rule keeps a HIGH customer from LOW.
ResultingTierUnfloored(result, stale, previous) == RuleTier(result, stale, previous)

\* downgradeForbidden keeps HIGH from LOW; UNKNOWN it lets through.
ResultingTier(result, stale, previous) ==
  LET tier == RuleTier(result, stale, previous)
  IN  IF previous = "HIGH" /\ tier = "LOW" THEN "HIGH" ELSE tier

\* The scenarios LOW_TO_HIGH and HIGH_TO_HIGH_UPGRADE go to the MLRO, the
\* others are signed by the system.  `before` holds the labels of the last
\* signed assessment; there may be none.
NeedsReview(result, tier, previous, before) ==
  /\ tier = "HIGH"
  /\ previous = "HIGH" => \A labels \in before : ~(result.labels \subseteq labels)
=============================================================================
