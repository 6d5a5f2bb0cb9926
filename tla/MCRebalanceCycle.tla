-------------------------- MODULE MCRebalanceCycle -------------------------
(***************************************************************************)
(* Finite instances of RebalanceCycle for TLC.                             *)
(***************************************************************************)
EXTENDS RebalanceCycle

\* The plans of two cycles, with amounts up to MaxValue.
MCCalls == [run : 1..MaxRuns, phase : Phases, amount : 1..MaxValue]
=============================================================================
