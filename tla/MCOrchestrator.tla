--------------------------- MODULE MCOrchestrator ---------------------------
(* Small instances of Orchestrator for TLC.                                *)
EXTENDS Orchestrator, TLC

CONSTANTS m1, f1, w1, w2

Wallets == Permutations(Wallet)

(***************************************************************************)
(* States that differ only in what no later step and no property reads are *)
(* one state: the settings once no manual run is to start, the context of  *)
(* a run that is over, the status reported with an error, and which way a  *)
(* wallet failed.                                                          *)
(***************************************************************************)
Running(r) == pc[r] \notin {"over", "dead"}

ReadOfWorker(r, w) ==
  <<step[r][w], outcome[r][w].err, outcome[r][w].reason,
    IF outcome[r][w].err = "nil" THEN outcome[r][w].status ELSE "any",
    IF sync[r][w] \in {"failed", "timed_out"} THEN "failed" ELSE sync[r][w]>>

ReadOfRun(r) ==
  <<pc[r], list[r], row[r], result[r], Refused(r),
    IF Running(r) THEN ctx[r] ELSE "any",
    IF pc[r] = "finalizing" THEN verdict[r] ELSE NoRow,
    [w \in Wallet |-> ReadOfWorker(r, w)]>>

Read == <<[r \in Run |-> ReadOfRun(r)], holder, struck,
          IF \E r \in Manual : pc[r] \in {"idle", "accepted"} THEN limit ELSE 0>>
=============================================================================
