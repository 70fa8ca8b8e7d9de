----------------------------- MODULE MCRiskGuard -----------------------------
(* The risk guard on an account of 100 with a 10% daily and a 20% maximum  *)
(* drawdown: the floor is reached by two bad days, or by one gap.          *)
EXTENDS RiskGuard

MCPnls == {-8, -4, 4}
MCFloatings == {-12, 0, 4}
MCRisks == {2, 4}
MCRealBalances == {60}
=============================================================================
