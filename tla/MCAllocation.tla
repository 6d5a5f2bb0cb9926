---------------------------- MODULE MCAllocation -----------------------------
(***************************************************************************)
(* A finite instance of Allocation: four pools, one of them with ELYS,     *)
(* with the default parameters of config/Parameters.go.                    *)
(***************************************************************************)
EXTENDS Allocation, TLC

CONSTANTS e1, p1, p2, p3, none

\* All scores, from equal ones to one that outweighs the others.
DefaultInputs ==
  {[score |-> s, maxPools |-> 5, minAlloc |-> 8, maxAlloc |-> 35, elysMin |-> 10] :
     s \in [{e1, p1, p2, p3} -> {1, 3, 30}]}
=============================================================================
