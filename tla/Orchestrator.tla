---------------------------- MODULE Orchestrator ----------------------------
(***************************************************************************)
(* Orchestrator.Run (internal/pipeline/orchestrator.go) and the three      *)
(* places that start it: the manual run of the API (cmd/scanner/main.go    *)
(* and internal/api/server.go), which creates the row of ingestion_runs    *)
(* before Run and hands it over, and the run command and the daemon, which *)
(* leave that to Run.                                                      *)
(*                                                                         *)
(* One worker per wallet waits for the semaphore, takes the wallet lock,   *)
(* calls RunWallet and reports; Run waits for all of them, sums up, and    *)
(* makes the row final.  RunWallet is here what module WalletSync shows of *)
(* it: it makes a row of wallet_sync_runs, ends it with the status it      *)
(* reports, or fails somewhere on the way.  The lock is the mutex that     *)
(* module WalletLock implements.  The calls of WalletSync and the workers  *)
(* here keep the same promise, module CallContract.                        *)
(*                                                                         *)
(* Any statement of a worker may fail.  A fault of the statements on the   *)
(* run row, and a dead process, strike a run at most once.                 *)
(***************************************************************************)
EXTENDS Integers, FiniteSets

CONSTANTS
  Manual,          \* runs started by the API, all in the one server process
  File,            \* runs of the run command or the daemon, a process each
  Wallet,
  AskedFor,        \* the lists of wallets the API is asked to run
  Files,           \* the wallet files
  NoRun,           \* nobody holds the lock
  MaxConcurrent,   \* MAX_CONCURRENT_WALLETS
  MaxLimit,        \* bound on what MAX_WALLETS_PER_RUN is set to
  FetchCodes,      \* truncation codes of the fetch that some wallets meet
  MaxFaults        \* bound on the runs that are struck

Run == Manual \cup File

ASSUME RunAssumption == Manual \cap File = {} /\ NoRun \notin Run
ASSUME WalletAssumption ==
  /\ IsFiniteSet(Wallet)
  /\ AskedFor \cup Files \subseteq (SUBSET Wallet) \ {{}}
ASSUME LimitAssumption == MaxConcurrent \in Nat \ {0} /\ MaxLimit \in Nat \ {0}

VARIABLES
  limit,     \* the MAX_WALLETS_PER_RUN in force: the settings of the database
  pc,        \* where each run is
  max,       \* the MaxWalletsPerRun of its configuration
  list,      \* its wallets
  ctx,       \* its context: "live", "deadline" or "cancelled"
  row,       \* its row of ingestion_runs
  step,      \* where the worker of each wallet is
  outcome,   \* the outcome that worker sent
  sync,      \* the status of its row of wallet_sync_runs
  holder,    \* who holds the lock of each wallet
  verdict,   \* what the row will be made
  result,    \* what Run returned
  struck     \* the runs that met a fault, a dead process or a lost reply

control == <<pc, max, list, ctx>>
workers == <<step, outcome, sync, holder>>
ends == <<verdict, result, struck>>
vars == <<limit, control, row, workers, ends>>

NoRow == [status |-> "none", requested |-> 0, processed |-> 0, failed |-> 0,
          skipped |-> 0, capHits |-> 0]
NoOutcome == [err |-> "none", status |-> "none", reason |-> "none"]
NewRow == [NoRow EXCEPT !.status = "running"]

Init ==
  /\ limit \in 1..MaxLimit
  /\ pc = [r \in Run |-> "idle"]
  /\ max = [r \in Run |-> 0]
  /\ list = [r \in Run |-> {}]
  /\ ctx = [r \in Run |-> "live"]
  /\ row = [r \in Run |-> NoRow]
  /\ step = [r \in Run |-> [w \in Wallet |-> "none"]]
  /\ outcome = [r \in Run |-> [w \in Wallet |-> NoOutcome]]
  /\ sync = [r \in Run |-> [w \in Wallet |-> "none"]]
  /\ holder = [w \in Wallet |-> NoRun]
  /\ verdict = [r \in Run |-> NoRow]
  /\ result = [r \in Run |-> "none"]
  /\ struck = {}

Goto(r, where) == pc' = [pc EXCEPT ![r] = where]

\* a fault strikes r
Strike(r) ==
  /\ Cardinality(struck \cup {r}) <= MaxFaults
  /\ struck' = struck \cup {r}

-----------------------------------------------------------------------------
(* Starting a run.                                                         *)

\* handleSettingsWrite: a value that passes its validation is stored
SaveSettings ==
  /\ limit' \in 1..MaxLimit
  /\ UNCHANGED <<control, row, workers, ends>>

\* handleRunStart reads the settings and compares
RunStart(r) ==
  /\ pc[r] = "idle"
  /\ \E ws \in AskedFor :
       /\ Cardinality(ws) <= limit
       /\ list' = [list EXCEPT ![r] = ws]
  /\ Goto(r, "accepted")
  /\ UNCHANGED <<limit, max, ctx, row, workers, ends>>

\* the run starter reads the settings again and creates the row; of a statement that
\* fails only the reply may be lost
RunStarter(r) ==
  /\ pc[r] = "accepted"
  /\ max' = [max EXCEPT ![r] = limit]
  /\ \/ Goto(r, "started") /\ row' = [row EXCEPT ![r] = NewRow] /\ UNCHANGED struck
     \/ Goto(r, "over") /\ row' \in {row, [row EXCEPT ![r] = NewRow]} /\ Strike(r)
  /\ UNCHANGED <<limit, list, ctx, workers, verdict, result>>

\* Run with the row of the starter: a list longer than MaxWalletsPerRun is refused
Refused(r) == Cardinality(list[r]) > max[r]

RefuseList(r) ==
  /\ pc[r] = "started"
  /\ Refused(r)
  /\ Goto(r, "over")
  /\ result' = [result EXCEPT ![r] = "error"]
  /\ UNCHANGED <<limit, max, list, ctx, row, workers, verdict, struck>>

\* one goroutine per wallet
Spawn(r, ws) ==
  /\ step' = [step EXCEPT ![r] = [w \in Wallet |-> IF w \in ws THEN "waiting" ELSE "none"]]
  /\ Goto(r, "waiting")

AdmitList(r) ==
  /\ pc[r] = "started"
  /\ ~Refused(r)
  /\ Spawn(r, list[r])
  /\ UNCHANGED <<limit, max, list, ctx, row, outcome, sync, holder, ends>>

\* Run with a wallet file: at most MaxWalletsPerRun addresses are loaded, and only
\* then is a row created; the limit is the one of the process, not of the settings
LoadFile(r) ==
  /\ pc[r] = "idle"
  /\ \E file \in Files : \E ws \in (SUBSET file) \ {{}} :
       /\ Cardinality(ws) <= MaxLimit
       /\ ws = file \/ Cardinality(ws) = MaxLimit
       /\ list' = [list EXCEPT ![r] = ws]
       /\ \/ Spawn(r, ws) /\ row' = [row EXCEPT ![r] = NewRow] /\ UNCHANGED <<result, struck>>
          \/ /\ Goto(r, "over") /\ Strike(r)
             /\ row' \in {row, [row EXCEPT ![r] = NewRow]}
             /\ result' = [result EXCEPT ![r] = "error"]
             /\ UNCHANGED step
  /\ max' = [max EXCEPT ![r] = MaxLimit]
  /\ UNCHANGED <<limit, ctx, outcome, sync, holder, verdict>>

\* RUN_TIMEOUT_SECONDS; only the daemon's context is ever cancelled
ContextEnds(r) ==
  /\ pc[r] \notin {"idle", "accepted", "over", "dead"} /\ ctx[r] = "live"
  /\ \E why \in IF r \in File THEN {"deadline", "cancelled"} ELSE {"deadline"} :
       ctx' = [ctx EXCEPT ![r] = why]
  /\ UNCHANGED <<limit, pc, max, list, row, workers, ends>>

-----------------------------------------------------------------------------
(* The worker of a wallet.                                                 *)

Inside(r) == {w \in Wallet : step[r][w] \in {"entered", "locked", "running", "ended"}}

Move(r, w, where) == step' = [step EXCEPT ![r][w] = where]

\* an outcome goes to outcomeCh, and the deferred calls free the semaphore
Send(r, w, o) ==
  /\ Move(r, w, "sent")
  /\ outcome' = [outcome EXCEPT ![r][w] = o]

Error(err) == [NoOutcome EXCEPT !.err = err]

\* select { case sem <- struct{}{}: ... }
Enter(r, w) ==
  /\ step[r][w] = "waiting"
  /\ Cardinality(Inside(r)) < MaxConcurrent
  /\ Move(r, w, "entered")
  /\ UNCHANGED <<outcome, sync, holder>>

\* select { case <-runCtx.Done(): ... }
TurnAway(r, w) ==
  /\ step[r][w] = "waiting"
  /\ ctx[r] # "live"
  /\ Send(r, w, Error("other"))
  /\ UNCHANGED <<sync, holder>>

Acquire(r, w) ==
  /\ step[r][w] = "entered"
  /\ holder[w] = NoRun
  /\ holder' = [holder EXCEPT ![w] = r]
  /\ Move(r, w, "locked")
  /\ UNCHANGED <<outcome, sync>>

\* ErrWalletAlreadyLocked
Conflict(r, w) ==
  /\ step[r][w] = "entered"
  /\ holder[w] # NoRun
  /\ Send(r, w, Error("locked"))
  /\ UNCHANGED <<sync, holder>>

\* the statement fails, or takes effect and its answer comes too late
AcquireFails(r, w) ==
  /\ step[r][w] = "entered"
  /\ holder' \in {holder} \cup (IF holder[w] = NoRun THEN {[holder EXCEPT ![w] = r]} ELSE {})
  /\ Send(r, w, Error("other"))
  /\ UNCHANGED sync

\* RunWallet creates its row
RunWallet(r, w) ==
  /\ step[r][w] = "locked"
  /\ Move(r, w, "running")
  /\ sync' = [sync EXCEPT ![r][w] = "running"]
  /\ UNCHANGED <<outcome, holder>>

\* the worker is left with an outcome and its lock
End(r, w, o) ==
  /\ Move(r, w, "ended")
  /\ outcome' = [outcome EXCEPT ![r][w] = o]

\* the wallet context is over: runWallet returns an empty report
WalletTooLate(r, w) ==
  /\ step[r][w] = "locked"
  /\ End(r, w, Error("other"))
  /\ UNCHANGED <<sync, holder>>

\* EnsureWallet or CreateWalletSyncRun fails, perhaps after the row was made
RunWalletFails(r, w) ==
  /\ step[r][w] = "locked"
  /\ sync' \in {sync, [sync EXCEPT ![r][w] = "running"]}
  /\ End(r, w, [Error("other") EXCEPT !.status = "failed"])
  /\ UNCHANGED holder

\* what RunWallet returns: a truncated fetch makes the wallet partial
Reports ==
  [err : {"nil"}, status : {"succeeded"}, reason : {"none"}]
  \cup [err : {"nil", "other"}, status : {"partial"}, reason : {"none"} \cup FetchCodes]
  \cup [err : {"other"}, status : {"failed", "timed_out"}, reason : {"none"}]

\* slip: the error of the finalization is dropped
FinalizeWalletQuietly(r, w, o) ==
  /\ sync' \in {sync, [sync EXCEPT ![r][w] = o.status]}
  /\ End(r, w, o)

\* its deferred FinalizeWalletSyncRun succeeds, or fails and so does RunWallet
FinalizeWallet(r, w, o) ==
  \/ /\ sync' = [sync EXCEPT ![r][w] = o.status]
     /\ End(r, w, o)
  \/ /\ sync' \in {sync, [sync EXCEPT ![r][w] = o.status]}
     /\ End(r, w, [o EXCEPT !.err = "other"])

RunWalletEnds(r, w) ==
  /\ step[r][w] = "running"
  /\ \E o \in Reports : FinalizeWallet(r, w, o)
  /\ UNCHANGED holder

\* the deferred ReleaseWalletLock: a failure of its own is an error of the wallet
Release(r, w) ==
  /\ step[r][w] = "ended"
  /\ \/ Send(r, w, outcome[r][w])
        /\ holder' = [holder EXCEPT ![w] = IF holder[w] = r THEN NoRun ELSE holder[w]]
     \/ Send(r, w, [outcome[r][w] EXCEPT !.err = "other"])
        /\ holder' \in {holder, [holder EXCEPT ![w] = IF holder[w] = r THEN NoRun ELSE holder[w]]}
  /\ UNCHANGED sync

Worker(r, w) ==
  /\ pc[r] # "dead"
  /\ \/ Enter(r, w) \/ TurnAway(r, w) \/ Acquire(r, w) \/ Conflict(r, w)
     \/ AcquireFails(r, w) \/ RunWallet(r, w) \/ WalletTooLate(r, w)
     \/ RunWalletFails(r, w) \/ RunWalletEnds(r, w) \/ Release(r, w)
  /\ UNCHANGED <<limit, control, row, ends>>

\* the time to live of a lock whose worker is gone
LockExpires(w) ==
  /\ holder[w] # NoRun
  /\ pc[holder[w]] = "dead" \/ step[holder[w]][w] = "sent"
  /\ holder' = [holder EXCEPT ![w] = NoRun]
  /\ UNCHANGED <<limit, control, row, step, outcome, sync, ends>>

-----------------------------------------------------------------------------
(* Ending a run.                                                           *)

\* slip: wg.Add(1) inside the goroutines, so that Run waits for those begun
NoneBegun(r) == \A w \in list[r] : step[r][w] \in {"waiting", "sent"}

\* wg.Wait()
AllSent(r) == \A w \in list[r] : step[r][w] = "sent"

Done(r) == {w \in list[r] : outcome[r][w].err = "nil"}
Skipped(r) == {w \in list[r] : outcome[r][w].err = "locked"}

\* slip: a skipped wallet is counted with the failed ones as well
FailedOrSkipped(r) == list[r] \ Done(r)
Failed(r) == list[r] \ (Done(r) \cup Skipped(r))
Partial(r) == {w \in Done(r) : outcome[r][w].status = "partial"}

\* slip: a run whose wallets were all locked elsewhere has failed
StatusWithoutSkipped(r) ==
  IF Done(r) = {} THEN "failed"
  ELSE IF Done(r) = list[r] /\ Partial(r) = {} THEN "succeeded"
  ELSE "partially_succeeded"

\* deriveRunStatus
RunStatus(r) ==
  CASE ctx[r] = "deadline" -> "timed_out"
    [] ctx[r] = "cancelled" -> "cancelled"
    [] ctx[r] = "live" /\ Done(r) = list[r] ->
         IF Partial(r) = {} THEN "succeeded" ELSE "partially_succeeded"
    [] ctx[r] = "live" /\ Done(r) # list[r] ->
         IF Done(r) \cup Skipped(r) = {} THEN "failed" ELSE "partially_succeeded"

\* the codes Run looks for in the reason of a report (orchestrator.go:197)
CountedCodes == {"max_pages_cap", "max_tx_cap"}

CapHits(r) == {w \in list[r] : outcome[r][w].reason \in CountedCodes}

\* the outcomes, summed up under the context as it is now
Aggregate(r) ==
  /\ pc[r] = "waiting"
  /\ AllSent(r)
  /\ verdict' = [verdict EXCEPT ![r] =
       [status |-> RunStatus(r),
        requested |-> Cardinality(list[r]),
        processed |-> Cardinality(Done(r)),
        failed |-> Cardinality(Failed(r)),
        skipped |-> Cardinality(Skipped(r)),
        capHits |-> Cardinality(CapHits(r))]]
  /\ Goto(r, "finalizing")
  /\ UNCHANGED <<limit, max, list, ctx, row, workers, result, struck>>

\* slip: the finalization runs under the context of the run
FinalizeUnderRunContext(r) ==
  /\ pc[r] = "finalizing"
  /\ row' = IF ctx[r] = "live" THEN [row EXCEPT ![r] = verdict[r]] ELSE row
  /\ Goto(r, "returning")
  /\ UNCHANGED <<limit, max, list, ctx, workers, verdict, result, struck>>

\* FinalizeIngestionRun, under a context of its own
FinalizeIngestionRun(r) ==
  /\ pc[r] = "finalizing"
  /\ \/ /\ row' = [row EXCEPT ![r] = verdict[r]]
        /\ Goto(r, "returning")
        /\ UNCHANGED <<result, struck>>
     \/ /\ row' \in {row, [row EXCEPT ![r] = verdict[r]]}
        /\ Strike(r)
        /\ Goto(r, "over")
        /\ result' = [result EXCEPT ![r] = "error"]
  /\ UNCHANGED <<limit, max, list, ctx, workers, verdict>>

\* the errors of the wallets, or else the error of the context as it is by then
Clean(r) == Done(r) = list[r] /\ ctx[r] = "live"

Return(r) ==
  /\ pc[r] = "returning"
  /\ result' = [result EXCEPT ![r] = IF Clean(r) THEN "nil" ELSE "error"]
  /\ Goto(r, "over")
  /\ UNCHANGED <<limit, max, list, ctx, row, workers, verdict, struck>>

\* a process dies, or serve-api is told to stop and does not wait for its runs
Die(rs) ==
  /\ \E r \in rs : pc[r] \notin {"idle", "over", "dead"}
  /\ Cardinality(struck \cup rs) <= MaxFaults
  /\ struck' = struck \cup rs
  /\ pc' = [r \in Run |-> IF r \in rs /\ pc[r] \notin {"idle", "over"} THEN "dead" ELSE pc[r]]
  /\ UNCHANGED <<limit, max, list, ctx, row, workers, verdict, result>>

Begin(r) ==
  \/ r \in Manual /\ RunStart(r)
  \/ r \in File /\ LoadFile(r)
Advance(r) ==
  \/ RunStarter(r) \/ RefuseList(r) \/ AdmitList(r)
  \/ Aggregate(r) \/ FinalizeIngestionRun(r) \/ Return(r)

Next ==
  \/ SaveSettings
  \/ \E r \in Run : Begin(r) \/ Advance(r) \/ ContextEnds(r)
  \/ \E r \in Run, w \in Wallet : Worker(r, w)
  \/ \E w \in Wallet : LockExpires(w)
  \/ \E r \in File : Die({r})
  \/ Die(Manual)

Spec == Init /\ [][Next]_vars

\* the goroutines of a live process run on, and every wallet has a deadline
Fairness == /\ \A r \in Run : WF_vars(Advance(r))
            /\ \A r \in Run, w \in Wallet : WF_vars(Worker(r, w))

FairSpec == Spec /\ Fairness

-----------------------------------------------------------------------------
(* The properties.                                                         *)

WalletStatus == {"succeeded", "partial", "failed", "timed_out"}
Ended == {"succeeded", "partially_succeeded", "failed", "timed_out", "cancelled"}

Rows == [status : {"none", "running"} \cup Ended, requested : Nat, processed : Nat,
         failed : Nat, skipped : Nat, capHits : Nat]
Outcomes == [err : {"none", "nil", "locked", "other"},
             status : {"none"} \cup WalletStatus, reason : {"none"} \cup FetchCodes]

\* Each variable holds values of its kind.
TypeOK ==
  /\ limit \in 1..MaxLimit
  /\ pc \in [Run -> {"idle", "accepted", "started", "waiting", "finalizing",
                     "returning", "over", "dead"}]
  /\ max \in [Run -> 0..MaxLimit]
  /\ list \in [Run -> SUBSET Wallet]
  /\ ctx \in [Run -> {"live", "deadline", "cancelled"}]
  /\ row \in [Run -> Rows]
  /\ step \in [Run -> [Wallet -> {"none", "waiting", "entered", "locked", "running",
                                  "ended", "sent"}]]
  /\ outcome \in [Run -> [Wallet -> Outcomes]]
  /\ sync \in [Run -> [Wallet -> {"none", "running"} \cup WalletStatus]]
  /\ holder \in [Wallet -> Run \cup {NoRun}]
  /\ verdict \in [Run -> Rows]
  /\ result \in [Run -> {"none", "nil", "error"}]
  /\ struck \in SUBSET Run

\* A run whose row says "succeeded" has a row "succeeded" for every wallet asked of
\* it: no skipped, partial, lost or late wallet hides behind it (deriveRunStatus,
\* the deferred errors of runWallet and of RunWallet).
SuccessIsTotal ==
  \A r \in Run : row[r].status = "succeeded" =>
    list[r] # {} /\ \A w \in list[r] : sync[r][w] = "succeeded"

\* The wallets of a row that has ended add up to the wallets asked of the run, and
\* each one counted as processed has ended with a result of its own.
WalletsAddUp ==
  \A r \in Run : row[r].status \in Ended =>
    /\ row[r].requested = Cardinality(list[r])
    /\ row[r].requested = row[r].processed + row[r].failed + row[r].skipped
    /\ row[r].processed <= Cardinality({w \in list[r] : sync[r][w] \in {"succeeded", "partial"}})

\* A run that returns no error has said so in its row, and has processed every
\* wallet: Run reads its context once for the row and once more for its answer.
NoErrorNoLoss ==
  \A r \in Run : result[r] = "nil" =>
    /\ row[r].status \in {"succeeded", "partially_succeeded"}
    /\ \A w \in list[r] : sync[r][w] \in {"succeeded", "partial"}

Untouched(r) ==
  /\ row'[r] = row[r]
  /\ sync'[r] = sync[r]
  /\ \A w \in Wallet : holder'[w] = r => holder[w] = r

\* Once the row of a run has ended nothing is written on behalf of the run: neither
\* the row itself nor a row of its wallets, and none of them takes a lock.
NothingAfterTheEnd == [][\A r \in Run : row[r].status \in Ended => Untouched(r)]_vars

\* what became of a wallet: its row, if its worker reported no error
Settled(r, w) ==
  IF step[r][w] # "sent" THEN "none"
  ELSE IF outcome[r][w].err = "nil" THEN sync[r][w]
  ELSE IF outcome[r][w].err = "locked" THEN "skipped"
  ELSE "failed"

\* A run, step by step, keeps the promise of RunContract, whatever else happens: each
\* wallet is settled once while the row is running, and the row ends once, after all
\* of them, with the status they amount to (deriveRunStatus) or that of a context
\* that was over, although the status is derived in one step, written in another and
\* answered in a third.
Contract == INSTANCE RunContract
  WITH asked <- list, told <- [r \in Run |-> row[r].status],
       settled <- [r \in Run |-> [w \in Wallet |-> Settled(r, w)]], answer <- result
KeepsRunContract == Contract!Spec

\* where runWallet is with the lock, and what it returned
WalletPlace(r, w) ==
  IF holder[w] = r THEN "holds"
  ELSE IF step[r][w] \in {"none", "waiting", "entered"} THEN "outside" ELSE "left"
Answered(r, w) ==
  IF step[r][w] # "sent" THEN "none"
  ELSE IF outcome[r][w].err = "other" THEN "error" ELSE outcome[r][w].err

\* The worker of a wallet is a call that keeps the promise of CallContract: the same
\* promise module WalletSync keeps statement by statement, so a run builds on no
\* more than what runWallet and RunWallet do.
Calls == INSTANCE CallContract
  WITH CallId <- Run \X Wallet, wallet <- [c \in Run \X Wallet |-> c[2]],
       place <- [c \in Run \X Wallet |-> WalletPlace(c[1], c[2])],
       told <- [c \in Run \X Wallet |-> sync[c[1]][c[2]]],
       answer <- [c \in Run \X Wallet |-> Answered(c[1], c[2])]
WorkersKeepCallContract == Calls!Spec

\* the list the API accepted is longer than the limit the run was started with
Overtaken(r) == pc[r] = "over" /\ Refused(r)

\* "always finalize run" (phase6_execution_plan.md:12): a row that is running ends,
\* unless a statement on it was lost or failed, the process died, or the settings
\* were lowered between the two times a manual start reads them.
RunRowsEnd ==
  \A r \in Run : row[r].status = "running" ~>
    row[r].status \in Ended \/ r \in struck \/ Overtaken(r)
=============================================================================
