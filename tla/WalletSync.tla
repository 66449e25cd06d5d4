----------------------------- MODULE WalletSync -----------------------------
(***************************************************************************)
(* One wallet sync, from the wallet lock to its release, over the tables   *)
(* it writes: Orchestrator.runWallet (internal/pipeline/orchestrator.go)   *)
(* calling WalletExecutionRunner.RunWallet (wallet_runner.go), which calls *)
(* RunWalletCoreSync (core.go) and the statements of PostgresStore         *)
(* (internal/storage/postgres_repository.go).                              *)
(*                                                                         *)
(* Several syncs, of the same or of different wallets and from the same or *)
(* different processes, interleave statement by statement.  A statement    *)
(* commits alone (RunWallet opens no transaction around its loop), and its *)
(* reply may be lost after it took effect.  A wallet context may run out   *)
(* or be cancelled between any two statements, and a process may crash.    *)
(*                                                                         *)
(* Simplifications:                                                        *)
(*  - the two Helius fetches are one step that returns any result the      *)
(*    contract of FetchEnhancedWindow allows;                              *)
(*  - the gates of MaterializeCandidates are a choice of candidates that   *)
(*    respects what they need from the baseline;                           *)
(*  - the lock is the mutual exclusion it provides; its time to live is    *)
(*    one step that frees the lock of a call whose context is over;        *)
(*  - a counterparties row keeps its counts and its first and last time,   *)
(*    not the first and last per direction;                                *)
(*  - a reason string is the set of its tokens, and the counters of a      *)
(*    wallet_sync_runs row are one flag, TRUE once they were written.      *)
(***************************************************************************)
EXTENDS Integers, Sequences, FiniteSets

CONSTANTS
  Address,          \* owner addresses on the chain
  Wallet,           \* the addresses that are scanned
  NoOwner,          \* an endpoint the provider left empty
  Transfer,         \* normalized transfers, keyed by signature and fingerprint
  Window,           \* the windows a run may be given
  Sync,             \* calls of runWallet
  NoSync,           \* not a call: the lock is free
  MaxObservations,  \* bound on the observations of one window
  MaxFaults         \* bound on failed or lost statements and crashes

(***************************************************************************)
(* A transfer carries its owner endpoints, its block time, and the         *)
(* addresses under which the provider returns its transaction.             *)
(***************************************************************************)
ASSUME WalletAssumption == Wallet \subseteq Address /\ NoOwner \notin Address
ASSUME TransferAssumption ==
  \A t \in Transfer : /\ t.src \in Address \cup {NoOwner}
                      /\ t.dst \in Address \cup {NoOwner}
                      /\ t.at \in Nat
                      /\ t.accounts \subseteq Address
ASSUME WindowAssumption ==
  \A v \in Window : /\ v.baselineStart \in Nat
                    /\ v.scanStart \in Nat
                    /\ v.scanEnd \in Nat
ASSUME BoundAssumption ==
  /\ MaxObservations \in Nat
  /\ MaxFaults \in Nat
  /\ NoSync \notin Sync

VARIABLES
  \* the database
  wallets,          \* rows of wallets
  transactions,     \* rows of transactions
  links,            \* rows of wallet_transactions: <<wallet, transfer>>
  counterparties,   \* rows of counterparties, by <<wallet, address>>
  candidates,       \* rows of poisoning_candidates: <<sync, transfer>>
  row,              \* the wallet_sync_runs row of each sync
  lastSynced,       \* wallets.last_synced_at
  lock,             \* wallet_locks: the sync that holds the wallet
  \* the calls
  pc,               \* the statement each call executes next
  wal, win,         \* its wallet and its windows
  ctx,              \* its wallet context
  core,             \* its CoreSyncResult
  idx,              \* the observation its loop is at
  prog,             \* its WalletSyncProgress
  end,              \* its status and errorCode
  err,              \* it returns an error
  \* the environment
  faults,           \* failed or lost statements and crashes so far
  applied           \* history: the links whose event was counted

dbVars   == <<wallets, transactions, links, counterparties, candidates, row,
              lastSynced, lock>>
callVars == <<pc, wal, win, ctx, core, idx, prog, end, err>>
vars     == <<dbVars, callVars, faults, applied>>

-----------------------------------------------------------------------------
(* The data.                                                               *)

Event == Wallet \X Transfer

\* counterparties.MapWalletRelation: which side of the transfer the wallet is
Relation(w, t) ==
  IF NoOwner \in {t.src, t.dst} \/ t.src = t.dst THEN "none"
  ELSE CASE t.src = w -> "sender"
         [] t.dst = w -> "receiver"
         [] OTHER -> "none"

Counterparty(w, t) == IF t.src = w THEN t.dst ELSE t.src

NoCounterparty == [interactions |-> 0, inbound |-> 0, outbound |-> 0,
                   firstSeen |-> 0, lastSeen |-> 0]

Least(a, b) == IF a <= b THEN a ELSE b
Latter(a, b) == b                        \* slip: GREATEST left out
Greatest(a, b) == IF a >= b THEN a ELSE b

\* the row after the upsert of UpsertCounterpartyEvent
CountEvent(cp, relation, at) ==
  [interactions |-> cp.interactions + 1,
   inbound      |-> cp.inbound + (IF relation = "receiver" THEN 1 ELSE 0),
   outbound     |-> cp.outbound + (IF relation = "sender" THEN 1 ELSE 0),
   firstSeen    |-> IF cp.interactions = 0 THEN at ELSE Least(cp.firstSeen, at),
   lastSeen     |-> IF cp.interactions = 0 THEN at ELSE Greatest(cp.lastSeen, at)]

Terminal == {"succeeded", "partial", "failed", "timed_out"}

NoRow == [status |-> "none", incomplete |-> FALSE, reasons |-> {},
          truncation |-> {}, baselineComplete |-> FALSE, counters |-> FALSE,
          code |-> "none"]

NoResult == [fetched |-> {}, obs |-> <<>>, cands |-> {},
             baselineComplete |-> FALSE, incomplete |-> FALSE,
             reasons |-> {}, truncation |-> {}]

NoProgress == [incomplete |-> FALSE, reasons |-> {}, truncation |-> {},
               baselineComplete |-> FALSE]

Truncations == {"baseline_truncation", "scan_truncation"}

Reasons == Truncations \cup
  {"unknown_gate", "incomplete_window", "runner_timeout",
   "wallet_link_failed", "counterparty_failed", "candidate_failed",
   "progress_failed", "metadata_failed", "without_reason"}

Codes == {"none", "dust_failed", "core_failed", "transfer_failed",
          "link_failed", "counterparty_failed", "candidate_failed",
          "progress_failed", "last_synced_failed"}

\* the statements of a call, in the order the code runs them
Working == {"ensure", "create", "dust", "core", "transfers", "link",
            "counterparty", "candidates", "progress", "last_synced"}
Holding == {"enter"} \cup Working
Live == Holding \cup {"finalize", "release"}
Over == {"done", "skipped", "crashed"}
Ending == {"finalize", "release"} \cup Over
PCs == {"idle"} \cup Live \cup Over

-----------------------------------------------------------------------------
Init ==
  /\ wallets = {}
  /\ transactions = {}
  /\ links = {}
  /\ counterparties = [p \in Wallet \X Address |-> NoCounterparty]
  /\ candidates = {}
  /\ row = [s \in Sync |-> NoRow]
  /\ lastSynced = [w \in Wallet |-> 0]
  /\ lock = [w \in Wallet |-> NoSync]
  /\ pc = [s \in Sync |-> "idle"]
  /\ wal \in [Sync -> Wallet]
  /\ win \in [Sync -> Window]
  /\ ctx = [s \in Sync |-> "live"]
  /\ core = [s \in Sync |-> NoResult]
  /\ idx = [s \in Sync |-> 1]
  /\ prog = [s \in Sync |-> NoProgress]
  /\ end = [s \in Sync |-> [status |-> "failed", code |-> "none"]]
  /\ err = [s \in Sync |-> FALSE]
  /\ faults = 0
  /\ applied = {}

(***************************************************************************)
(* A statement answers "ok", fails without effect, or takes effect and     *)
(* loses its reply.  With a context that is over database/sql refuses to   *)
(* start it, which is no fault of the database.                            *)
(***************************************************************************)
Reply == {"ok", "failed", "lost"}

\* a deferred function adds its error to the one returned; slip: it drops it
Swallowed(s, r) == err[s]
Joined(s, r) == err[s] \/ r # "ok"

Fault(n) == faults + n <= MaxFaults /\ faults' = faults + n

Call(s, r) ==
  \/ ctx[s] = "live" /\ r = "ok" /\ Fault(0)
  \/ ctx[s] = "live" /\ r \in {"failed", "lost"} /\ Fault(1)
  \/ ctx[s] # "live" /\ r = "failed" /\ Fault(0)

\* a batch of no rows returns without a statement
Batch(s, rows, r) == IF rows = {} THEN r = "ok" /\ Fault(0) ELSE Call(s, r)

\* a statement of a deferred function, under a context of its own
TailCall(r) == Fault(IF r = "ok" THEN 0 ELSE 1)

Goto(s, where) == pc' = [pc EXCEPT ![s] = where]

\* slips: the progress is not marked incomplete; the finalization is not deferred
StopQuietly(s, status, code, reasons) ==
  /\ Goto(s, "finalize")
  /\ end' = [end EXCEPT ![s] = [status |-> status, code |-> code]]
  /\ err' = [err EXCEPT ![s] = TRUE]
  /\ UNCHANGED prog
StopUnfinalized(s, status, code, reasons) ==
  /\ Goto(s, "release")
  /\ err' = [err EXCEPT ![s] = TRUE]
  /\ UNCHANGED <<end, prog>>

\* RunWallet returns an error: the deferred finalization runs next
Stop(s, status, code, reasons) ==
  LET p == prog[s] IN
  /\ Goto(s, "finalize")
  /\ end' = [end EXCEPT ![s] = [status |-> status, code |-> code]]
  /\ err' = [err EXCEPT ![s] = TRUE]
  /\ prog' = [prog EXCEPT ![s] =
       [p EXCEPT !.incomplete = p.incomplete \/ reasons # {},
                 !.reasons = p.reasons \cup reasons]]

\* slips: candidates go before links; the progress update is skipped
CandidatesFirst(s, where) ==
  /\ Goto(s, IF where = "link" /\ pc[s] = "transfers" THEN "candidates" ELSE where)
  /\ UNCHANGED <<end, err, prog>>
ProceedPastProgress(s, where) ==
  /\ Goto(s, IF where = "progress" THEN "last_synced" ELSE where)
  /\ UNCHANGED <<end, err, prog>>

Proceed(s, where) == Goto(s, where) /\ UNCHANGED <<end, err, prog>>

\* runWallet or RunWallet returns an error before its finalization is set up
Leave(s, where) ==
  /\ Goto(s, where)
  /\ err' = [err EXCEPT ![s] = TRUE]
  /\ UNCHANGED <<end, prog>>

-----------------------------------------------------------------------------
(* runWallet: the lock, and the context checked once it is held.           *)

\* WHERE wallet_locks.acquired_until <= NOW(); slip: the condition left out
AnyLock(w) == TRUE
LockFree(w) == lock[w] = NoSync

AcquireWalletLock(s, r) ==
  LET free == LockFree(wal[s]) IN
  /\ pc[s] = "idle"
  /\ Call(s, r)
  /\ lock' = IF free /\ r # "failed" THEN [lock EXCEPT ![wal[s]] = s] ELSE lock
  /\ \/ r = "ok" /\ free /\ Proceed(s, "enter")
     \/ r = "ok" /\ ~free /\ Leave(s, "skipped")
     \/ r # "ok" /\ Leave(s, "done")
  /\ UNCHANGED <<wallets, transactions, links, counterparties, candidates, row,
                 lastSynced, wal, win, ctx, core, idx, applied>>

Enter(s) ==
  /\ pc[s] = "enter"
  /\ IF ctx[s] = "live" THEN Proceed(s, "ensure") ELSE Leave(s, "release")
  /\ UNCHANGED <<dbVars, wal, win, ctx, core, idx, faults, applied>>

\* the token in the DELETE names the holder: nobody else's lock is removed
ReleaseWalletLock(s, r) ==
  /\ pc[s] = "release"
  /\ TailCall(r)
  /\ lock' = IF r # "failed" /\ lock[wal[s]] = s
             THEN [lock EXCEPT ![wal[s]] = NoSync] ELSE lock
  /\ Goto(s, "done")
  /\ err' = [err EXCEPT ![s] = Joined(s, r)]
  /\ UNCHANGED <<wallets, transactions, links, counterparties, candidates, row,
                 lastSynced, wal, win, ctx, core, idx, prog, end, applied>>

-----------------------------------------------------------------------------
(* RunWallet up to the core sync.                                          *)

EnsureWallet(s, r) ==
  /\ pc[s] = "ensure"
  /\ Call(s, r)
  /\ wallets' = IF r # "failed" THEN wallets \cup {wal[s]} ELSE wallets
  /\ IF r = "ok" THEN Proceed(s, "create") ELSE Leave(s, "release")
  /\ UNCHANGED <<transactions, links, counterparties, candidates, row,
                 lastSynced, lock, wal, win, ctx, core, idx, applied>>

\* the finalization is deferred only after this statement has answered
CreateWalletSyncRun(s, r) ==
  /\ pc[s] = "create"
  /\ Call(s, r)
  /\ row' = IF r # "failed"
            THEN [row EXCEPT ![s] = [row[s] EXCEPT !.status = "running"]] ELSE row
  /\ IF r = "ok" THEN Proceed(s, "dust") ELSE Leave(s, "release")
  /\ UNCHANGED <<wallets, transactions, links, counterparties, candidates,
                 lastSynced, lock, wal, win, ctx, core, idx, applied>>

\* a read: a lost reply is a failure, and so is an invalid threshold row
BuildDustClassifier(s, r) ==
  /\ pc[s] = "dust"
  /\ r # "lost"
  /\ Call(s, r)
  /\ IF r = "ok" THEN Proceed(s, "core")
                 ELSE Stop(s, "failed", "dust_failed", {})
  /\ UNCHANGED <<dbVars, wal, win, ctx, core, idx, applied>>

\* what the provider holds for the wallet in [lo, hi)
Fetchable(w, lo, hi) ==
  {t \in Transfer : w \in t.accounts /\ lo <= t.at /\ t.at < hi}

\* a fetch that is not partial returns the whole window
FetchResults(w, lo, hi) ==
  {f \in [got : SUBSET Fetchable(w, lo, hi), partial : BOOLEAN] :
     f.partial \/ f.got = Fetchable(w, lo, hi)}

\* the same observation may come back on two pages
Observations(w, got) ==
  LET O == {t \in got : Relation(w, t) # "none"} IN
  {q \in UNION {[1..n -> O] : n \in 0..MaxObservations} :
     {q[i] : i \in DOMAIN q} = O}

\* gateNewCounterparty and the lookalike gate are unknown on a partial baseline
MaterializeCandidates(w, scan, baselineComplete) ==
  IF baselineComplete THEN SUBSET {t \in scan : Relation(w, t) = "receiver"}
                      ELSE {{}}

\* the CoreSyncResult of a baseline fetch b and a scan fetch f
SyncResult(b, f, obs, cands, unknownGate) ==
  LET truncation == (IF b.partial THEN {"baseline_truncation"} ELSE {})
                    \cup (IF f.partial THEN {"scan_truncation"} ELSE {})
  IN [fetched |-> b.got \cup f.got,
      obs |-> obs,
      cands |-> cands,
      baselineComplete |-> ~b.partial,
      incomplete |-> unknownGate \/ truncation # {},
      reasons |-> truncation \cup (IF unknownGate THEN {"unknown_gate"} ELSE {}),
      truncation |-> truncation]

RunWalletCoreSync(s) ==
  /\ pc[s] = "core"
  /\ ctx[s] = "live"
  /\ \E b \in FetchResults(wal[s], win[s].baselineStart, win[s].scanStart),
        f \in FetchResults(wal[s], win[s].scanStart, win[s].scanEnd),
        unknownGate \in BOOLEAN :
     \E bq \in Observations(wal[s], b.got), fq \in Observations(wal[s], f.got),
        cs \in MaterializeCandidates(wal[s], f.got, ~b.partial) :
       core' = [core EXCEPT ![s] = SyncResult(b, f, bq \o fq, cs, unknownGate)]
  /\ Proceed(s, "transfers")
  /\ UNCHANGED <<dbVars, wal, win, ctx, idx, faults, applied>>

\* slip: the fetch does not watch its context
CoreSyncHangs(s) ==
  /\ pc[s] = "core"
  /\ ctx[s] = "live"
  /\ Stop(s, "failed", "core_failed", {})
  /\ UNCHANGED <<dbVars, wal, win, ctx, core, idx, faults, applied>>

\* the provider may answer a deadline of its own while the context is live
CoreSyncFails(s) ==
  /\ pc[s] = "core"
  /\ \/ ctx[s] # "canceled" /\ Stop(s, "timed_out", "core_failed", {"runner_timeout"})
     \/ ctx[s] # "deadline" /\ Stop(s, "failed", "core_failed", {})
  /\ UNCHANGED <<dbVars, wal, win, ctx, core, idx, faults, applied>>

-----------------------------------------------------------------------------
(* RunWallet after the core sync: what it persists, in its order.          *)

\* one database transaction: all of the transfers or none
UpsertNormalizedTransfers(s, r) ==
  /\ pc[s] = "transfers"
  /\ Batch(s, core[s].fetched, r)
  /\ transactions' = IF r # "failed" THEN transactions \cup core[s].fetched
                                     ELSE transactions
  /\ IF r = "ok" THEN Proceed(s, "link")
                 ELSE Stop(s, "failed", "transfer_failed", {})
  /\ UNCHANGED <<wallets, links, counterparties, candidates, row, lastSynced,
                 lock, wal, win, ctx, core, idx, applied>>

Current(s) == core[s].obs[idx[s]]
CurrentEvent(s) == <<wal[s], Current(s)>>
AtObservation(s) == idx[s] \in 1..Len(core[s].obs)

\* ON CONFLICT DO NOTHING tells a new link from an old one; slip: it is not asked
AlwaysFresh(s) == TRUE
Fresh(s) == CurrentEvent(s) \notin links

LinkWalletTransfer(s, r) ==
  LET backed == Current(s) \in transactions
      fresh  == Fresh(s)
  IN
  /\ pc[s] = "link"
  /\ AtObservation(s)
  /\ Call(s, r)
  /\ links' = IF r # "failed" /\ backed THEN links \cup {CurrentEvent(s)}
                                        ELSE links
  /\ \/ r = "ok" /\ backed /\ fresh /\ Proceed(s, "counterparty") /\ UNCHANGED idx
     \/ /\ r = "ok" /\ backed /\ ~fresh
        /\ Proceed(s, "link")
        /\ idx' = [idx EXCEPT ![s] = @ + 1]
     \/ /\ r # "ok" \/ ~backed
        /\ Stop(s, "partial", "link_failed", {"wallet_link_failed"})
        /\ UNCHANGED idx
  /\ UNCHANGED <<wallets, transactions, counterparties, candidates, row,
                 lastSynced, lock, wal, win, ctx, core, applied>>

UpsertCounterpartyEvent(s, r) ==
  LET key == <<wal[s], Counterparty(wal[s], Current(s))>> IN
  /\ pc[s] = "counterparty"
  /\ Call(s, r)
  /\ IF r # "failed"
     THEN /\ counterparties' = [counterparties EXCEPT ![key] =
               CountEvent(@, Relation(wal[s], Current(s)), Current(s).at)]
          /\ applied' = applied \cup {CurrentEvent(s)}
     ELSE UNCHANGED <<counterparties, applied>>
  /\ IF r = "ok"
     THEN Proceed(s, "link") /\ idx' = [idx EXCEPT ![s] = @ + 1]
     ELSE /\ Stop(s, "partial", "counterparty_failed", {"counterparty_failed"})
          /\ UNCHANGED idx
  /\ UNCHANGED <<wallets, transactions, links, candidates, row, lastSynced,
                 lock, wal, win, ctx, core>>

LoopEnds(s) ==
  /\ pc[s] = "link"
  /\ ~AtObservation(s)
  /\ Proceed(s, "candidates")
  /\ UNCHANGED <<dbVars, wal, win, ctx, core, idx, faults, applied>>

\* one database transaction
InsertPoisoningCandidates(s, r) ==
  /\ pc[s] = "candidates"
  /\ Batch(s, core[s].cands, r)
  /\ candidates' = IF r # "failed" THEN candidates \cup ({s} \X core[s].cands)
                                   ELSE candidates
  /\ IF r = "ok"
     THEN Proceed(s, "progress")
     ELSE Stop(s, "partial", "candidate_failed", {"candidate_failed"})
  /\ UNCHANGED <<wallets, transactions, links, counterparties, row, lastSynced,
                 lock, wal, win, ctx, core, idx, applied>>

\* the WalletSyncProgress RunWallet builds from the core result
ProgressOf(c) ==
  LET incomplete == c.incomplete \/ c.truncation # {}
      reasons == c.reasons \cup c.truncation
  IN [incomplete |-> incomplete,
      reasons |-> IF incomplete /\ reasons = {} THEN {"incomplete_window"}
                                                ELSE reasons,
      truncation |-> c.truncation,
      baselineComplete |-> c.baselineComplete]

UpdateWalletSyncProgress(s, r) ==
  LET p == ProgressOf(core[s]) IN
  /\ pc[s] = "progress"
  /\ Call(s, r)
  /\ row' = IF r = "failed" THEN row
            ELSE [row EXCEPT ![s] = [row[s] EXCEPT
                    !.incomplete = p.incomplete,
                    !.reasons = IF p.incomplete THEN p.reasons ELSE {},
                    !.truncation = p.truncation,
                    !.baselineComplete = p.baselineComplete,
                    !.counters = TRUE]]
  /\ IF r = "ok"
     THEN /\ Goto(s, "last_synced")
          /\ prog' = [prog EXCEPT ![s] = p]
          /\ UNCHANGED <<end, err>>
     ELSE /\ Goto(s, "finalize")
          /\ prog' = [prog EXCEPT ![s] = [p EXCEPT
                        !.incomplete = TRUE,
                        !.reasons = p.reasons \cup {"progress_failed"}]]
          /\ end' = [end EXCEPT ![s] = [status |-> "partial", code |-> "progress_failed"]]
          /\ err' = [err EXCEPT ![s] = TRUE]
  /\ UNCHANGED <<wallets, transactions, links, counterparties, candidates,
                 lastSynced, lock, wal, win, ctx, core, idx, applied>>

\* slip: the status forgets the incomplete window
AlwaysSucceeded(s) == "succeeded"
FinalStatus(s) == IF prog[s].incomplete THEN "partial" ELSE "succeeded"

UpdateWalletLastSyncedAt(s, r) ==
  /\ pc[s] = "last_synced"
  /\ Call(s, r)
  /\ lastSynced' = IF r = "failed" THEN lastSynced
                   ELSE [lastSynced EXCEPT ![wal[s]] = Greatest(@, win[s].scanEnd)]
  /\ IF r = "ok"
     THEN /\ Goto(s, "finalize")
          /\ end' = [end EXCEPT ![s] = [end[s] EXCEPT !.status = FinalStatus(s)]]
          /\ UNCHANGED <<prog, err>>
     ELSE Stop(s, "partial", "last_synced_failed", {"metadata_failed"})
  /\ UNCHANGED <<wallets, transactions, links, counterparties, candidates, row,
                 lock, wal, win, ctx, core, idx, applied>>

\* the deferred function of RunWallet, under a context that is not cancelled
FinalizeWalletSyncRun(s, r) ==
  LET p == prog[s]
      reasons == IF p.incomplete /\ p.reasons = {} THEN {"without_reason"}
                                                   ELSE p.reasons
  IN
  /\ pc[s] = "finalize"
  /\ TailCall(r)
  /\ row' = IF r = "failed" THEN row
            ELSE [row EXCEPT ![s] = [row[s] EXCEPT
                    !.status = end[s].status,
                    !.code = end[s].code,
                    !.incomplete = p.incomplete,
                    !.reasons = IF p.incomplete THEN reasons ELSE {}]]
  /\ Goto(s, "release")
  /\ err' = [err EXCEPT ![s] = Joined(s, r)]
  /\ UNCHANGED <<wallets, transactions, links, counterparties, candidates,
                 lastSynced, lock, wal, win, ctx, core, idx, prog, end, applied>>

-----------------------------------------------------------------------------
(* The environment.                                                        *)

\* the wallet or the run timeout fires, or the caller cancels the run
ContextEnds(s, cause) ==
  /\ pc[s] \in {"idle"} \cup Holding
  /\ ctx[s] = "live"
  /\ ctx' = [ctx EXCEPT ![s] = cause]
  /\ UNCHANGED <<dbVars, pc, wal, win, core, idx, prog, end, err, faults, applied>>

\* the process dies: nothing deferred runs, what was committed stays
Crash(s) ==
  /\ pc[s] \in Live
  /\ Fault(1)
  /\ Goto(s, "crashed")
  /\ UNCHANGED <<dbVars, wal, win, ctx, core, idx, prog, end, err, applied>>

\* slip: a lock that was not released is never taken over
NoTakeover(w) == FALSE /\ UNCHANGED vars

\* acquired_until passes; WalletLock shows that by then the holder's context is
\* over, though what it deferred may still be under way
LockExpires(w) ==
  /\ lock[w] # NoSync
  /\ pc[lock[w]] \in Ending
  /\ lock' = [lock EXCEPT ![w] = NoSync]
  /\ UNCHANGED <<wallets, transactions, links, counterparties, candidates, row,
                 lastSynced, callVars, faults, applied>>

\* the statements of a call, each with its reply
Statement(s, r) ==
  \/ AcquireWalletLock(s, r)
  \/ EnsureWallet(s, r)
  \/ CreateWalletSyncRun(s, r)
  \/ BuildDustClassifier(s, r)
  \/ UpsertNormalizedTransfers(s, r)
  \/ LinkWalletTransfer(s, r)
  \/ UpsertCounterpartyEvent(s, r)
  \/ InsertPoisoningCandidates(s, r)
  \/ UpdateWalletSyncProgress(s, r)
  \/ UpdateWalletLastSyncedAt(s, r)
  \/ FinalizeWalletSyncRun(s, r)
  \/ ReleaseWalletLock(s, r)

Step(s) ==
  \/ \E r \in Reply : Statement(s, r)
  \/ Enter(s)
  \/ RunWalletCoreSync(s)
  \/ CoreSyncFails(s)
  \/ LoopEnds(s)

Next ==
  \/ \E s \in Sync : Step(s)
  \/ \E s \in Sync : Crash(s)
  \/ \E s \in Sync, cause \in {"deadline", "canceled"} : ContextEnds(s, cause)
  \/ \E w \in Wallet : LockExpires(w)

Spec == Init /\ [][Next]_vars

(***************************************************************************)
(* A call that was started goes on: the wallet timeout bounds every        *)
(* statement of it and the tail contexts bound the deferred ones, and      *)
(* database time passes, so a lock left behind runs out.                   *)
(***************************************************************************)
Progress(s) == pc[s] # "idle" /\ Step(s)

FairSpec ==
  /\ Spec
  /\ \A s \in Sync : WF_vars(Progress(s))
  /\ \A w \in Wallet : WF_vars(LockExpires(w))
-----------------------------------------------------------------------------
(* The properties.                                                         *)

CounterpartyRow == [interactions : Nat, inbound : Nat, outbound : Nat,
                    firstSeen : Nat, lastSeen : Nat]

SyncRow == [status : {"none", "running"} \cup Terminal, incomplete : BOOLEAN,
            reasons : SUBSET Reasons, truncation : SUBSET Truncations,
            baselineComplete : BOOLEAN, counters : BOOLEAN, code : Codes]

Result == [fetched : SUBSET Transfer, obs : Seq(Transfer),
           cands : SUBSET Transfer, baselineComplete : BOOLEAN,
           incomplete : BOOLEAN, reasons : SUBSET Reasons,
           truncation : SUBSET Truncations]

Outcome == [status : Terminal, code : Codes]

SyncProgress == [incomplete : BOOLEAN, reasons : SUBSET Reasons,
                 truncation : SUBSET Truncations, baselineComplete : BOOLEAN]

\* Each variable holds values of its kind: the columns, statuses and codes the
\* Go code writes, and a position of RunWallet's loop within its observations.
TypeOK ==
  /\ wallets \subseteq Wallet
  /\ transactions \subseteq Transfer
  /\ links \subseteq Event
  /\ counterparties \in [Wallet \X Address -> CounterpartyRow]
  /\ candidates \subseteq Sync \X Transfer
  /\ row \in [Sync -> SyncRow]
  /\ lastSynced \in [Wallet -> Nat]
  /\ lock \in [Wallet -> Sync \cup {NoSync}]
  /\ pc \in [Sync -> PCs]
  /\ wal \in [Sync -> Wallet]
  /\ win \in [Sync -> Window]
  /\ ctx \in [Sync -> {"live", "deadline", "canceled"}]
  /\ core \in [Sync -> Result]
  /\ idx \in [Sync -> Nat \ {0}]
  /\ prog \in [Sync -> SyncProgress]
  /\ end \in [Sync -> Outcome]
  /\ err \in [Sync -> BOOLEAN]
  /\ faults \in 0..MaxFaults
  /\ applied \subseteq Event

\* the links whose event is not in the counters of counterparties
Uncounted == links \ applied

\* the loop of s is at, or ended at, the observation of e
StoppedAt(s, e) == AtObservation(s) /\ CurrentEvent(s) = e

EventsOf(w, a) == {e \in applied : e[1] = w /\ Counterparty(w, e[2]) = a}

\* the row cp sums up the events es
Tallied(cp, es) ==
  /\ cp.interactions = Cardinality(es)
  /\ cp.inbound = Cardinality({e \in es : Relation(e[1], e[2]) = "receiver"})
  /\ cp.inbound + cp.outbound = cp.interactions
  /\ \A e \in es : cp.firstSeen <= e[2].at /\ e[2].at <= cp.lastSeen

\* No event is ever counted twice, however many reruns see it again and whatever
\* reply is lost: a counterparties row is exactly the sum, the first and the last
\* of distinct linked events (LinkWalletTransfer decides, UpsertCounterpartyEvent
\* counts).
CountedOnce ==
  /\ applied \subseteq links
  /\ \A w \in Wallet, a \in Address : Tallied(counterparties[<<w, a>>], EventsOf(w, a))

\* An event that was linked and not counted is lost by a call that stopped right
\* there, at most one per call, and the row of that call never says succeeded:
\* once final it is incomplete with the reason of the failed statement.
LossIsVisible ==
  \A e \in Uncounted : \E s \in Sync :
    /\ StoppedAt(s, e)
    /\ \/ pc[s] = "counterparty"
       \/ /\ pc[s] \in Ending
          /\ row[s].status \in Terminal =>
               /\ row[s].status = "partial"
               /\ row[s].incomplete
               /\ row[s].reasons \cap {"wallet_link_failed", "counterparty_failed"} # {}

\* A call that reports success has had all of its observations counted, except
\* those another call has already stopped at: the wallet lock keeps a rerun from
\* passing over an event whose counting is still under way.
SuccessUpToLoss ==
  \A s \in Sync : row[s].status = "succeeded" =>
    \A i \in DOMAIN core[s].obs :
      LET e == <<wal[s], core[s].obs[i]>> IN
        \/ e \in applied
        \/ \E z \in Sync : pc[z] \in Ending /\ StoppedAt(z, e)

\* A candidate can be explained from stored rows: its transfer and its link were
\* persisted before it, the transfer entered the wallet in the scan window, and
\* the baseline it was judged against was complete.
CandidateTraceable ==
  \A c \in candidates :
    LET s == c[1] t == c[2] IN
      /\ t \in transactions
      /\ <<wal[s], t>> \in links
      /\ Relation(wal[s], t) = "receiver"
      /\ win[s].scanStart <= t.at /\ t.at < win[s].scanEnd
      /\ core[s].baselineComplete

\* A row that says succeeded stands for a whole sync: nothing truncated or
\* unknown, every observation linked, every candidate stored, the counters
\* written and last_synced_at moved; partial and timed_out rows are incomplete
\* and say why.
StatusTellsTheTruth ==
  \A s \in Sync :
    /\ row[s].status = "succeeded" =>
         /\ ~row[s].incomplete /\ row[s].truncation = {} /\ row[s].code = "none"
         /\ row[s].baselineComplete /\ row[s].counters
         /\ \A i \in DOMAIN core[s].obs : <<wal[s], core[s].obs[i]>> \in links
         /\ {s} \X core[s].cands \subseteq candidates
         /\ lastSynced[wal[s]] >= win[s].scanEnd
    /\ row[s].status \in {"partial", "timed_out"} => row[s].incomplete
    /\ row[s].incomplete <=> row[s].reasons # {}

\* last_synced_at comes from a call whose progress is already stored.
LastSyncedIsBacked ==
  \A w \in Wallet : lastSynced[w] > 0 =>
    \E s \in Sync : /\ wal[s] = w /\ win[s].scanEnd = lastSynced[w]
                    /\ row[s].counters

\* A sync of an older window, or a late one, never moves last_synced_at back.
LastSyncedNeverBack ==
  [][\A w \in Wallet : lastSynced'[w] >= lastSynced[w]]_vars

\* What the orchestrator counts as processed is in the database: a call that
\* returns no error has a final row with its counters and has given up the lock.
ReportedIsPersisted ==
  \A s \in Sync : pc[s] = "done" /\ ~err[s] =>
    /\ row[s].status \in {"succeeded", "partial"}
    /\ row[s].counters
    /\ lock[wal[s]] # s

\* Whatever timeout, cancellation or upstream error ends a call, its row is final
\* when the wallet lock is released, as long as no statement failed for another
\* reason and no reply was lost.
EndedRowsAreFinal ==
  faults = 0 => \A s \in Sync :
    pc[s] \in {"release", "done"} => row[s].status \in {"none"} \cup Terminal

\* The lock admits one call per wallet to the statements of RunWallet, however
\* late the deferred ones of an earlier call are.
OneCallPerWallet ==
  \A s, z \in Sync :
    pc[s] \in Holding /\ pc[z] \in Holding /\ wal[s] = wal[z] => s = z

Place(s) ==
  IF lock[wal[s]] = s THEN "holds" ELSE IF pc[s] = "idle" THEN "outside" ELSE "left"

Answered(s) ==
  CASE pc[s] = "skipped" -> "locked"
    [] pc[s] = "done" -> IF err[s] THEN "error" ELSE "nil"
    [] OTHER -> "none"

\* Statement by statement, and however the calls interleave, fail, lose replies or
\* crash, each of them keeps the promise of CallContract on which the orchestrator
\* builds: a row opened under the lock and ended once, one answer, and no error only
\* with a result that is persisted and a lock that is given up.
Contract == INSTANCE CallContract
  WITH CallId <- Sync, wallet <- wal, place <- [s \in Sync |-> Place(s)],
       told <- [s \in Sync |-> row[s].status],
       answer <- [s \in Sync |-> Answered(s)]
KeepsCallContract == Contract!Spec

\* A call that was started ends, whatever fails on its way.
EveryCallEnds == \A s \in Sync : pc[s] \in Live ~> pc[s] \in Over

\* No failure, lost reply or crash leaves a wallet locked for good.
LockIsFreed == \A w \in Wallet : lock[w] # NoSync ~> lock[w] = NoSync

-----------------------------------------------------------------------------
(* What the documents say and the code does not do.                        *)

\* "Partial persistence + rerun converges to stable counters/statuses"
\* (docs/phase6_execution_plan.md:126): a rerun that succeeds has every event it
\* saw counted.
RerunConverges ==
  \A s \in Sync : row[s].status = "succeeded" =>
    \A i \in DOMAIN core[s].obs : <<wal[s], core[s].obs[i]>> \in applied
=============================================================================
