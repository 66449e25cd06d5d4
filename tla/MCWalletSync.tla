---------------------------- MODULE MCWalletSync ----------------------------
(* Small instances of WalletSync for TLC.                                  *)
EXTENDS WalletSync, TLC

CONSTANTS s1, s2, s3, w1, w2, a1, a2

\* a payment out in the baseline, then a transfer in during the scan
Paid     == [id |-> 1, src |-> w1, dst |-> a1, at |-> 1, accounts |-> {w1, a1}]
Received == [id |-> 2, src |-> a2, dst |-> w1, at |-> 3, accounts |-> {w1, a2}]
RerunTransfers == {Received}
HistoryTransfers == {Paid, Received}
RerunWindows   == {[baselineStart |-> 0, scanStart |-> 2, scanEnd |-> 4]}

\* a transfer between two scanned wallets
Between == [id |-> 3, src |-> w2, dst |-> w1, at |-> 3, accounts |-> {w1, w2}]
SharedTransfers == {Between}

\* the next window: what was scanned is baseline now
SlidingWindows == RerunWindows \cup
  {[baselineStart |-> 2, scanStart |-> 4, scanEnd |-> 6]}

Calls == Permutations({s1, s2, s3})

(***************************************************************************)
(* States that differ only in what no later step and no property reads are *)
(* one state: which way a context ended once the core sync is behind, the  *)
(* parts of the core result that were used, the locals of a call that is   *)
(* over.                                                                   *)
(***************************************************************************)
BeforeCore == {"idle", "enter", "ensure", "create", "dust", "core"}

Remembered(s) ==
  <<pc[s], wal[s], win[s], row[s], idx[s], err[s],
    IF pc[s] \in Ending THEN "unused"
      ELSE IF pc[s] \in BeforeCore \/ ctx[s] = "live" THEN ctx[s] ELSE "over",
    IF pc[s] = "transfers" THEN core[s].fetched ELSE {},
    core[s].obs, core[s].cands, core[s].baselineComplete,
    IF pc[s] \in BeforeCore \cup Ending \cup {"last_synced"} THEN NoProgress
      ELSE ProgressOf(core[s]),
    IF pc[s] \in {"release"} \cup Over THEN <<>> ELSE <<prog[s], end[s]>> >>

Read == <<wallets, transactions, links, counterparties, candidates, lastSynced,
          lock, faults, applied, [s \in Sync |-> Remembered(s)]>>
=============================================================================
