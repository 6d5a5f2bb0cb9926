----------------------------- MODULE MCPlanner ------------------------------
(***************************************************************************)
(* Finite instances of Planner: two listed pools and one that is not, with *)
(* positions of different worth, estimated rightly or not, and the total   *)
(* read before or after somebody else's change.                            *)
(***************************************************************************)
EXTENDS Planner, TLC

CONSTANTS p1, p2, p3, atom, weth

MCPools == {p1, p2, p3}
MCDenoms == {atom, weth}
MCTokenA == p1 :> atom @@ p2 :> weth @@ p3 :> atom
MCTvl == p1 :> 12 @@ p2 :> 20 @@ p3 :> 8
MCTotalShares == p1 :> 24 @@ p2 :> 40 @@ p3 :> 8

Holdings(p, worths) ==
  {<<>>} \union {p :> [shares |-> h[1], value |-> h[2]] : h \in worths}

MCPositions ==
  {a @@ b @@ c : a \in Holdings(p1, {<<5, 2>>, <<5, 4>>, <<8, 4>>}),
                 b \in Holdings(p2, {<<4, 2>>, <<12, 5>>}),
                 c \in Holdings(p3, {<<2, 2>>})}

MCTargets == {p1 :> 4, p2 :> 4, p1 :> 3 @@ p2 :> 1, p1 :> 2 @@ p2 :> 2}

Held(position) == SumFunction([p \in DOMAIN position |-> position[p].value])

Arguments(liquids, drifts, factors) ==
  {[position |-> pos, liquid |-> l, total |-> Held(pos) + l + drift, target |-> t,
    listed |-> {p1, p2}, usdcPriced |-> TRUE, swapFactor |-> f, depositFactor |-> 80] :
     pos \in MCPositions, l \in liquids, drift \in drifts, t \in MCTargets, f \in factors}

\* A USDC price that is missing or off, and stored parameters.
Refused ==
  {[i EXCEPT !.usdcPriced = FALSE] : i \in Arguments({0, 2}, {0}, {60})}
    \union Arguments({2}, {0}, {0})

MCInputs == Arguments({0, 2, 5}, {0, 2}, {60}) \union Refused

\* Positions and total read at one moment, prices as the pools have them.
ExactInputs ==
  {[position |-> p1 :> [shares |-> 8, value |-> 4] @@ p2 :> [shares |-> 12, value |-> 6],
    liquid |-> 2, total |-> 12, target |-> p1 :> 4, listed |-> {p1, p2},
    usdcPriced |-> TRUE, swapFactor |-> 90, depositFactor |-> 80]}
=============================================================================
