---------------------------- MODULE MCWalletLock ----------------------------
(* Small instances of WalletLock for TLC.                                  *)
EXTENDS WalletLock, TLC

CONSTANTS c1, c2, c3

Calls == Permutations(Call)

(***************************************************************************)
(* States that differ only in what no later step and no property reads are *)
(* one state: the context of a call that has none, the stamp of a          *)
(* statement that is not under way, the answer nobody waits for.           *)
(***************************************************************************)
Remembered(c) ==
  <<pc[c], delete[c],
    IF pc[c] \in {"acquiring"} \cup Bounded THEN due[c] ELSE 0,
    IF acquire[c] = "begun" THEN stamp[c] ELSE 0,
    IF pc[c] = "acquiring" \/ acquire[c] \in {"sent", "begun"} THEN acquire[c]
                                                           ELSE "settled">>

Read == <<now, lock, [c \in Call |-> Remembered(c)]>>
=============================================================================
