-------------------------- MODULE MCStatsCollector --------------------------
(* Model-checking instance of StatsCollector and its HTTP handlers.         *)
EXTENDS StatsHandlers, TLC

CONSTANTS w1, w2

MCWorkers == {w1, w2}
MCFlowCounts == {1, 2}
=============================================================================
