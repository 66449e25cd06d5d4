--------------------------- MODULE MCWalletSource ---------------------------
(* A small instance of WalletSource for TLC.                               *)
EXTENDS WalletSource

\* a scrape with more seeds than are looked at, and more of those than are fetched;
\* a file of two seeds, the first of which may lead to the second
Lists == [m \in Modes |-> IF m = "score" THEN {<<2, 1, 3, 5, 4>>} ELSE {<<4, 3>>}]

\* low and high scores, ties that the rest of the ranking decides or leaves
Summaries ==
  {[score |-> 0, rest |-> 0, dust |-> TRUE, fit |-> FALSE],
   [score |-> 1, rest |-> 0, dust |-> TRUE, fit |-> TRUE],
   [score |-> 1, rest |-> 1, dust |-> TRUE, fit |-> TRUE],
   [score |-> 2, rest |-> 0, dust |-> TRUE, fit |-> TRUE]}

(***************************************************************************)
(* States that differ only in what no later step and no property reads are *)
(* one state: which seeds led to a candidate once the order of those still *)
(* to fetch is known, how a window was cut short, and of the summaries of  *)
(* the wallets already rejected all but whether they were fit.             *)
(***************************************************************************)
Order == {ab \in todo \X todo : Earlier(ab[1], ab[2])}

Ended(p) == IF p \in Partial THEN "partial" ELSE p

Summary(a) ==
  IF a \in eligible \cup (queue \ handled) THEN stats[a]
  ELSE [NoStats EXCEPT !.fit = Last(a) = "whole" /\ stats[a].fit]

Read == <<mode, phase, todo, eligible, queue, handled, accepted, rejected, requests,
          IF phase = "seeds" THEN <<seeds, seedSet, discovered>> ELSE <<Candidates, Order>>,
          [a \in Address |-> <<Ended(page[a]), Ended(again[a]), Summary(a)>>]>>
=============================================================================
