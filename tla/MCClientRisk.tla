---------------------------- MODULE MCClientRisk ----------------------------
\* ClientRisk on a small instance: the answers of Sumsub the policy tells apart.
EXTENDS RiskInvariant

Red(labels) == [answer |-> "RED", labels |-> labels]
MCReports == {[answer |-> "GREEN", labels |-> {}],
              Red({"PEP"}), Red({"SANCTIONS"})}
=============================================================================
