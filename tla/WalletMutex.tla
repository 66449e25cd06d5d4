---------------------------- MODULE WalletMutex ----------------------------
(***************************************************************************)
(* What the wallet lock promises: of all calls of runWallet for one wallet *)
(* at most one is inside at a time, from the answer to its acquisition to  *)
(* the end of its release, and a call that has left never comes back.      *)
(***************************************************************************)
CONSTANT Call
VARIABLES inside, left

Init == inside = {} /\ left = {}

Enter(c) ==
  /\ inside = {}
  /\ c \notin left
  /\ inside' = {c}
  /\ UNCHANGED left

Leave(c) ==
  /\ c \in inside
  /\ inside' = {}
  /\ left' = left \cup {c}

\* a call refused, or dead before it was inside
GiveUp(c) ==
  /\ c \notin inside \cup left
  /\ left' = left \cup {c}
  /\ UNCHANGED inside

Next == \E c \in Call : Enter(c) \/ Leave(c) \/ GiveUp(c)

Spec == Init /\ [][Next]_<<inside, left>>
=============================================================================
