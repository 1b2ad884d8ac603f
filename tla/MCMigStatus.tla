------------------------------ MODULE MCMigStatus ------------------------------
(* MigStatus and FeedFreshness with one unit for the watchdog, the request and *)
(* the sensors' tick, and thresholds in the proportion of const.py.            *)
EXTENDS MigStatusProofs
=============================================================================
