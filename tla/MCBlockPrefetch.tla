--------------------------- MODULE MCBlockPrefetch ---------------------------
(***************************************************************************)
(* An instance of the prefetch pipeline for TLC.                           *)
(***************************************************************************)
EXTENDS BlockPrefetch

CONSTANTS a, b
==============================================================================
