------------------------------ MODULE MCGates ------------------------------
(* A small instance of Gates for TLC: a poisoner that resembles two        *)
(* counterparties the wallet has paid, to the same degree.                 *)
EXTENDS Gates

Wallet   == <<9, 9, 9, 9, 9, 9, 9, 9, 9, 9>>
Shop     == <<1, 1, 1, 1, 0, 0, 2, 2, 2, 2>>
Friend   == <<1, 1, 1, 1, 3, 3, 2, 2, 2, 2>>
Poisoner == <<1, 1, 1, 1, 4, 4, 2, 2, 2, 2>>

Addresses == {Wallet, Shop, Friend, Poisoner}

Sol(id, from, to, amount, at) ==
  [id |-> id, standard |-> "native", asset |-> "SOL", from |-> from, to |-> to,
   ownerIsAccount |-> FALSE, amount |-> amount, at |-> at]
Token(id, from, to, amount, at) ==
  [Sol(id, from, to, amount, at) EXCEPT !.standard = "fungible", !.asset = "mint"]

\* the threshold of the token is known for two days only
Thresholds == {[asset |-> "SOL", from |-> 0, to |-> 99, amount |-> 10],
               [asset |-> "mint", from |-> 4, to |-> 6, amount |-> 10]}

\* days 1 to 4
History == {Sol(1, Wallet, Shop, 50, 1), Sol(2, Wallet, Friend, 50, 3),
            Token(3, Wallet, Shop, 50, 3), Sol(4, Poisoner, Wallet, 0, 2),
            Sol(5, Shop, Wallet, 50, 3), Sol(6, Wallet, Friend, 5, 4)}

\* days 5 to 7
Recents == {Sol(11, Poisoner, Wallet, 0, 5), Sol(12, Poisoner, Wallet, 5, 6),
            Token(13, Poisoner, Wallet, 5, 5), Token(14, Poisoner, Wallet, 5, 6),
            Sol(15, Wallet, Poisoner, 5, 6),
            [Token(16, Poisoner, Wallet, -1, 5) EXCEPT !.ownerIsAccount = TRUE]}
=============================================================================
