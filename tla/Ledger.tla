------------------------------- MODULE Ledger -------------------------------
(***************************************************************************)
(* What the strategy game promises about the teams' resources, whatever    *)
(* the order in which purchases and payouts run: a purchase takes the      *)
(* whole price of one item at once from a team that has it, and a payout   *)
(* adds one period's worth of one resource.  No update is lost, no price   *)
(* is paid in part and nothing goes below zero.                            *)
(***************************************************************************)
EXTENDS Naturals

CONSTANTS Teams, Resources, Goods, Cost, Yield, Stock0

VARIABLE stock

Init == stock = [t \in Teams |-> Stock0]

Buy(t, g) ==
  /\ \A r \in Resources : stock[t][r] >= Cost[g][r]
  /\ stock' = [stock EXCEPT ![t] = [r \in Resources |-> @[r] - Cost[g][r]]]

Earn(t, r) == stock' = [stock EXCEPT ![t][r] = @ + Yield[r]]

Next ==
  \E t \in Teams :
    \/ \E g \in Goods : Buy(t, g)
    \/ \E r \in Resources : Earn(t, r)

Spec == Init /\ [][Next]_stock
=============================================================================
