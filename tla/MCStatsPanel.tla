---------------------------- MODULE MCStatsPanel ----------------------------
(* StatsPanel with two tabs, two queries and one trace. *)
EXTENDS StatsPanel
=============================================================================
