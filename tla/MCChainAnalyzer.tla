-------------------------- MODULE MCChainAnalyzer --------------------------
(* Small instances of the chain analyzer for TLC. *)
EXTENDS ChainAnalyzer

CONSTANTS a, b

NoPruning == -1
=============================================================================
