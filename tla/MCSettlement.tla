---------------------------- MODULE MCSettlement ----------------------------
(***************************************************************************)
(* Finite instances of Settlement for TLC: two pools, one other token.     *)
(***************************************************************************)
EXTENDS Settlement

CONSTANTS p1, p2, atom, usdc

Tolerances == {0, 25, 50, 100}
Amounts == {0, 1, 4}

Offered(type, coins, amounts, gets, slippages) ==
  [type : {type}, coin : coins, amount : amounts, expects : gets,
   slippage : slippages, tolerance : Tolerances]

\* An exit in USDC alone, or in both tokens of the pool.
MCExits ==
  Offered("withdraw", {p1}, {2}, [{usdc} -> Amounts] \union [{usdc, atom} -> Amounts], {0, 60})

MCSwaps == Offered("swap", {atom}, {1, 4}, [{usdc} -> Amounts], {0})

MCJoins ==
  Offered("deposit", {usdc}, {1, 2}, [{p1} -> Amounts] \union [{p2} -> Amounts], {-1, 0})

MCOffers == MCExits \union MCSwaps \union MCJoins

Held(c) == {v \in [{usdc, atom, p1, p2} -> 0..2] : v[p2] = 0 /\ v[atom] = c /\ v[p1] = 2 * c}

\* Reckoned rightly, or one USDC too high because the phase before has brought less.
MCStarts ==
  {[held |-> h, reckoned |-> [h EXCEPT ![usdc] = @ + off]] :
     h \in Held(0) \union Held(1), off \in {0, 1}}
=============================================================================
