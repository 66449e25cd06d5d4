# PoisonTrace: a TLA+ model and its proofs

PoisonTrace scans Solana wallets for address-poisoning transfers. A run takes a
list of wallets and a window, fetches each wallet's history from Helius in pages,
normalizes it, judges every inbound dust transfer against the wallet's baseline,
and persists transfers, counterparties, candidates and a status row per wallet in
PostgreSQL. The modules here model the part of that system in which things go
wrong between steps: the persistence loop of a wallet sync, the lock that guards
it, the paging fetch that feeds it, the gates that decide what is a
candidate, the run that fans wallets out to workers and sums up what became of
them, the exports that read the tables meanwhile, the search for wallets worth a scan,
and the daemon that repeats all of it under a budget.

## 1. Inventory

| component | code | state | operations | talks to |
|---|---|---|---|---|
| wallet execution runner | `internal/pipeline/wallet_runner.go`, `core.go` | locals of `RunWallet`: progress, status, error code, loop position | `RunWallet`, `RunWalletCoreSync`, deferred finalization | store, fetch, gates |
| canonical store | `internal/storage/postgres_repository.go` | tables `wallets`, `transactions`, `wallet_transactions`, `counterparties`, `poisoning_candidates`, `wallet_sync_runs`, `ingestion_runs` | one statement or transaction per method | everything |
| wallet lock | `AcquireWalletLock`, `ReleaseWalletLock`, `pipeline/orchestrator.go`, `runtime_timing.go` | `wallet_locks` row: token, `acquired_until` | acquire or take over, release | orchestrators of any process |
| window fetch | `pipeline/fetch.go`, `helius/client.go` | cursor, page count, attempt, result | page, retry, back off | Helius |
| orchestrator | `pipeline/orchestrator.go`, `validation.go` | semaphore, outcomes, totals, `ingestion_runs` row | `Run`, `runWallet`, aggregation, run status | runner, lock, store |
| candidate gates | `pipeline/candidate_materialize.go`, `detection.go` | legitimate baseline, inbound statistics | gates with three values, thresholds, injection count | runner |
| normalization | `internal/transactions` | none | instructions to transfers, fingerprint | runner |
| counterparty mapping | `internal/counterparties` | counterparty in memory | relation of wallet and transfer, event application | runner, store |
| run control API | `internal/api/server.go`, `cmd/scanner/main.go`, `storage/phase6_repository.go` | run starter, settings row, preset run rows | start, list, settings | orchestrator, store |
| export jobs | `internal/api/server.go`, `internal/exports` | job rows, files | create, run in a goroutine, download | store, file system |
| scanner daemon | `cmd/scanner/daemon.go` | advisory lock of a session, credit budget in memory, request limiter | cycles, reservation, sleeps, signals | wallet sourcing, orchestrator |
| wallet sourcing | `internal/walletsource` | candidates, summaries, queue of deeper samples, two lists | discovery, sampling, deeper samples, selection | window fetch, RPC |
| read API, fixtures, configuration, web application | | none of their own | queries, replay, parsing, presentation | store |

How they interact: the daemon, the API's run starter and the command line each
call `Orchestrator.Run`, in one or several processes. `Run` fans wallets out under
a semaphore and a run timeout; each worker calls `runWallet` under a wallet
timeout, which takes the wallet lock in the database, calls `RunWallet` and
releases the lock in a deferred function. `RunWallet` executes single statements
against the store, without a transaction around them, and finalizes its row in
another deferred function. So the shared state is the database, and every
statement is a point where another process, a timeout or a crash may come in
between.

What is hard, and the properties that make each component correct:

- **runner and store** (atomicity of link and count, partial failure, crash,
  rerun): no event counted twice; lost events visible; a status row tells the
  truth; candidates explainable from stored rows; rows final when the lock is
  free; `last_synced_at` monotone and backed.
- **wallet lock** (timeouts of the holder against the time to live, late
  statements): a working call holds an unexpired lock; the lock is a mutex.
- **window fetch** (early stop, retries, growth of the history): complete unless
  it says partial; no gap, no duplicate; bounded requests; ends.
- **orchestrator** (aggregation while the context ends, workers that never begin,
  a row made by one party and ended by another): the run row agrees with the rows of
  its wallets and with what `Run` returned; nothing is written after it has ended; it
  ends.
- **gates** (three-valued logic, map order, counts over transfers not judged yet): an
  unknown gate blocks and is reported; a candidate rests on nothing that may turn out
  otherwise; a match does not depend on the order of a map.
- **export jobs** (five reads without a transaction while runs write, files shared by
  exports, goroutines lost at restart, rows that a later answer moves): what an export shows
  of an ended run is whole, candidates come with exactly one explanation as long as the
  provider reports their transfers alike, equal exports leave equal files, job rows
  say no more than was done.
- **wallet sourcing** (a loop of many early exits, samples cut short, a second pass that
  depends on the first): each candidate on exactly one list for a reason that is true,
  nobody accepted on part of a sample, the best first, bounded requests.
- **daemon** (a lock that ends with its session, midnight within a cycle, signals in any
  sleep): at most one daemon at work while sessions last, the budget of a day kept, work
  resumed after exhaustion, an end after every signal.
- **run control** (check and use apart): one run per preset row.

Every hazard has an entry with its line in `PROJECT.json`.

## 2. Modules

| module | models |
|---|---|
| `WalletSync` | any number of calls of `runWallet`, for any wallets, statement by statement over the tables |
| `WalletLock` | the `wallet_locks` row of one wallet with clock, token, time to live and statements in flight |
| `WalletMutex` | abstract: what the wallet lock promises |
| `CallContract` | abstract: what a call of `runWallet` promises to its run and to the other calls for its wallet |
| `WindowContract` | abstract: what a window fetch promises to the sync of a wallet |
| `RunContract` | abstract: what a run promises to those who read its row |
| `FetchWindow` | `FetchEnhancedWindow` with `fetchPageWithRetry` against a paging provider |
| `Orchestrator` | any number of runs, `Orchestrator.Run` from its three callers to its return, over the tables `ingestion_runs`, `wallet_sync_runs` and the wallet locks |
| `ExportJobs` | any number of exports, by job, handler or command, over the tables that runs write meanwhile, and their files |
| `WalletSource` | `Source`, from its seeds to its two lists |
| `Daemon` | any number of daemon processes over the advisory lock of the database and the days |
| `Gates` | what a core sync does with its two windows: normalization, dust, `MaterializeCandidates` |
| `MCWalletSync`, `MCWalletLock`, `MCFetchWindow`, `MCOrchestrator`, `MCGates`, `MCExportJobs`, `MCWalletSource`, `MCDaemon` | the small instances, symmetries and views TLC checks |
| `WalletSync_proofs`, `WalletLock_proofs`, `FetchWindow_proofs`, `Orchestrator_proofs`, `Gates_proofs`, `ExportJobs_proofs`, `WalletSource_proofs`, `Daemon_proofs` | theorems |

They fit together through contracts. `WalletSync` takes the two fetches of a
core sync as one step that returns any result of `FetchResults`: partial, or the
whole window. `WindowContract` says that as a specification: the first answer settles what
there is to bring, which then comes newest first and without a gap, and a result is
called complete only with all of it there; the paging loop of `FetchWindow` implements
it (`ImplementsContract`). `WalletSync` frees the lock of a call whose context is over in one
step (`LockExpires`, enabled only when the holder is at its deferred statements or
gone). `WalletLock!LockCoversCall` shows why: up to the `DELETE` of its release a
call that works holds a lock that has not run out. `WalletSync` asks less of the
lock than that, since it lets the lock go as soon as the deferred statements begin.
`Orchestrator` sees of `RunWallet` that it makes a row, ends it with the status it
reports, or returns an error with the row in some other state. That it takes no more for
granted than the statements give is what `CallContract` is for: the calls of
`WalletSync` implement it statement by statement (`KeepsCallContract`), and so do the
coarser workers of `Orchestrator` (`WorkersKeepCallContract`). What the run makes of its
workers is `RunContract`, which `Orchestrator` implements (`KeepsRunContract`). And `WalletSync`
takes the candidates of a core sync as a choice among those the baseline allows; `Gates`
is where they come from. `ExportJobs` rests on one of these modules: a run that has
ended writes nothing more (`Orchestrator!NothingAfterTheEnd`). `Daemon` lets each phase of a cycle send any number of requests up to a bound: that of the sourcing is
`WalletSource!RequestsWithin`, whose fetches cost what `FetchWindow!RequestsBounded` says,
and the run fetches two windows of each accepted wallet, each within the same bound.

### WalletSync and the code

A call `s` is one execution of `runWallet`. `pc[s]` names the statement it
executes next: `idle`, then `enter` (the select after the acquisition), `ensure`,
`create`, `dust`, `core`, `transfers`, the loop `link`/`counterparty`,
`candidates`, `progress`, `last_synced`, the deferred `finalize` and `release`,
and `done`, `skipped` (`ErrWalletAlreadyLocked`) or `crashed`. `prog[s]` is the
`WalletSyncProgress`, `end[s]` the status and error code that the deferred
finalization writes, `err[s]` whether an error is returned. The tables are sets of
keys: `links` the rows of `wallet_transactions`, `counterparties` a row per wallet
and address, `row[s]` the `wallet_sync_runs` row. Each statement answers `ok`, has
`failed` without effect, or is `lost`: it took effect and the caller sees an error.
A statement under a context that is over fails without costing a fault. `Stop` is
an error return of `RunWallet` after its finalization was deferred, `Leave` one
before.

`applied` is a history variable: the links whose event was counted.

For `CallContract` a call is `outside` the lock before it has asked for it, `holds` it
while the row of `wallet_locks` names the call, and has `left` it after; what is told is the
status in its row; its answer is `locked`, `nil` or `error`, or `none` while it runs or
when it crashed.

Left out: wording of error messages, numeric counters of the status row (one flag
stands for "written"), the first and last time per direction, the parsing of
provider records. A dead process' last statement takes effect before the crash
step or never; `WalletLock` is where statements outlive their callers.

### WalletLock and the code

The acquisition is sent, begins (its `NOW()` is stamped) and commits in separate
steps and is answered, or not, in another. `due[c]` is the end of the context a
call runs under: the wallet context is made before the acquisition is sent, so the
stamp is never earlier than its start. `Lag` bounds how long a call goes on after
its context is over; `Slack` is the one second that `walletLockTTLTailSeconds` adds
to the timeouts of finalization and release. The assumption `3 * Lag < Slack` says
that the wallet context, the finalization and the release together overrun by less
than that second; the comment of `runtime_timing.go:5` needs it. Clocks are
compared only by durations, so a constant skew between the processes and the
database is covered; clocks that run at different speeds are not.

### FetchWindow and the code

The provider's history is a chain of block times, newest last; pages are read
backwards from a cursor. A page holds any number of transactions up to the page
limit and is empty only at the end of the history; the history may grow at its
newest end between two requests. Failures are the two classes of `IsRetryable`.
Block times never decrease along the chain. `Filtered` is the loop over a page, as the
function that gives the result after each of its turns. For `WindowContract` the first
page settles the window as it was then (`Wanted`), and the codes of a truncated fetch are
one verdict, `partial`.

### Orchestrator and the code

A run `r` is `Manual` (the API: `handleRunStart` accepts the list,
the run starter of `serveAPICmd` reads the settings a second time, creates the row
and starts `Run` in a goroutine) or `File` (the run command and the daemon: `Run`
loads the wallet file and creates the row itself). All manual runs live in one
process and die with it, which is also what a shutdown of `serve-api` does; a file run
has a process of its own. `pc[r]` goes through `idle`, `accepted`, `started`,
`waiting` (at `wg.Wait`), `finalizing`, `returning`, `over`, or ends at `dead`.
`step[r][w]` is the goroutine of a wallet: `waiting` for the semaphore, `entered`,
`locked`, `running` (inside `RunWallet`), `ended` (before the deferred release), and
`sent`. `verdict[r]` holds the status and totals between the loop over the outcomes
and `FinalizeIngestionRun`. `Run` reads the error of its context at line 220 for the
row and at line 235 for its answer; these are different steps here.

Abstracted: the context of a wallet (any statement of a worker may fail at any
time, which includes its deadline), the numeric totals other than the wallet
counts and the cap hits, the notes. Only the limit `MAX_WALLETS_PER_RUN` is kept of
the settings, because it is the one that is compared twice.

For `RunContract` a wallet is settled when its worker has sent its outcome: with the status
of its row, as skipped, or as failed (`Settled`). For `CallContract` a worker is a call
of a run for a wallet, which holds the lock while `holder[w]` is that run.

### Gates and the code

A transfer is a record of what the provider says: standard, asset, endpoints, whether
an endpoint is a token account whose owner is not known, amount and day. `baseline`,
`scan` and `partial` are the two windows that the core sync fetched and never change.
`Take` is the next turn of the loop over the scan's observations, `Compare` one turn of
the loop over the map of legitimate counterparties, in any order, `Decide` the gates of
the observation with their materialization, `Finish` the end of `RunWalletCoreSync`.
Everything the Go code keeps in maps built before the loop (`Seen`, `Legit`, `LegitAt`,
`InboundOf`) is an operator over the windows.

Addresses are sequences, because prefixes and suffixes decide; `Precedes` is the order of
Go strings. An amount below zero stands for text that is no number, of which
`sanitizeRawAmount` makes "0" for a token. Days stand for timestamps: the code
compares durations with whole days. Transfers are distinct: the fingerprint is not
modelled, and observations of one transfer count as the code counts them.

`Poisons` is the reference definition, written from the transfers alone after section 7
of `docs/architecture.md`, without gates, maps or an order: `Injections`, `Paid`,
`BestLike`, `Follows`. Its parameter `dust` says which transfers are dust, so it can be
asked for each way in which unknown dust may turn out.

### ExportJobs and the code

An export `e` is one call of `ExportDataset`, made by `runExportJob`, by
`handleExportGenerate` or by `exportDatasetCmd` (`caller[e]`). A job starts with its row
(`CreateExportJob`, which may take effect and lose its reply) and updates it twice
with `UpdateExportJobStatus`; either update may fail and nobody notices. `pc[e]` goes
through `posted`, `reading`, `writing`, `ending` or `failing`, to `done` or `failed`, or
`gone` when its process stops. `next[e]` is the query or the file it is at and `got[e]`
the rows of the five queries so far. `ListForExport` runs one query and sorts its answer
by the order of the sort functions; rows that the order does not tell apart may come
in any order. A file is opened (`OpenFile` truncates it) and written (`WriteFile`) in two
steps, because `os.WriteFile` is at least two system calls; between them another
export may write the file, and then a longer text leaves its tail (`Torn`).
`handleExportJobs` and `handleExportGenerate` write into `run_<id>`, which all exports of a
run share; a command has a directory of its own, and is not pointed at one of the
server's.

The seven actions on the tables (`BeginRun` to `EndRun`) are the statements of a run that
the queries can see. Of a row its keys are kept, with whether its run or sync has
ended. A transfer has two of them: its place, which stands for signature and
`transfer_index`, and its fingerprint. `seen` is what a sync was answered, any member of
`Reported`. `StoreTransfers` is the upsert, which keeps the first of several transfers
with one fingerprint (`Deduped`) and moves a row whose fingerprint it knows to the place it
is given now; `LinkTransfer` links by fingerprint; `StoreCandidates` names places. The join of
`CandidateExplanations` goes from the place of a candidate to the rows of `transactions` that are
linked to its wallet, so a candidate may have no explanation, one, or several. `Steady` says
of a transfer that every answer so far showed it at one place with one fingerprint.
A statement does not outlive its caller here, as it may in `WalletLock`:
one that commits after its run row has ended would be missed by an export before it.
Checks of requests, listing and downloading change nothing and are left out, and so
is the deadline of a handler, which is a failed query (`ReadFails`).

### WalletSource and the code

`phase` goes through `seeds`, `candidates`, `deep_dive`, `write_accepted`,
`write_rejected`, to `done` or `failed`. `LookAtSeed` is a turn of the loop over the
seeds, which in mode `neighbors` fetches the seed's window; the set of seeds is filled
in that loop, so a later seed may be discovered through an earlier one, as in the code.
`SortCandidates` sorts and cuts at `MaxCandidates`; the order is the operator `Earlier`.
`FetchCandidate` is a turn of the loop over the candidates with its fetch and the
branches behind it (`Judge`). `SkipBeyondTopN`, `SkipTargetReached` and `DeepDive` are
the three outcomes of a turn of the deep dive, `Select` the ranking and cut, `Write` each
of the two files. A summary of a sample is a record of `Stats`: its score, the rest of
what the ranking compares, whether there is dust enough for a deeper sample, whether
`statsRejectReason` passes it. Which combinations occur is left open (a summary that
passes has dust). `page` and `again` say how the first fetch of a wallet and its retry ended:
a reason is checked against the later of the two (`TrueReason`), a deep dive status
against the retry (`TrueDive`). The reasons of `statsRejectReason` are one reason, `unfit`. Addresses
are numbers in the order of their text.

### Daemon and the code

`pc[p]` goes from `down` through `lock`, `reserve`, the phases `scrape`, `source` and
`scan`, `refused` (the budget does not fit, and the clock is not yet read for the sleep), and
the sleeps `exhausted` (to the next UTC day) and `pause` (the interval), to
`unlock` (the deferred release), `close` (`db.Close`) and `down` again. `Reserve` and
`SleepUntilNextUTCDay` read the clock in two steps, as the code does (`daemon.go:449`,
`:512`), and midnight may come between them. Days are told apart by `Midnight` alone, so they
need no number and no bound: `current` says whether the day of `dailyCreditBudget` is this
one, `nights` how many midnights a sleep has still to see, `today` what was spent since the
last. `used` is the other field of the budget; `left` counts the requests a phase may still send,
each one a step (`Send`), so midnight, a signal or a crash falls between any two. The
options are constants, with `SourceCalls` for the sum of the two products of sourcing,
and `Estimate` is `estimateDaemonCycleCredits` as it stands.

`holder` is the process whose session has the advisory lock. It ends with the session
(`SessionEnds`): at the end of a process, by a broken connection, or because the pool of
`database/sql` closes the connection as idle. `Unlock` is sent on any connection of the
pool and frees the lock only when it is the one that has it; `Close` frees it in any case.
`severed` are the processes that lost their session while they worked. A signal only
sets `asked`: requests and sleeps see it, the top of the loop does not.

Abstracted: time other than days; the rate of the request limiters, which spaces requests
and sends none; the ends of a cycle by an error, by its own timeout or for want of
wallets, which are one alternative of `EndPhase`; the files of a cycle.

## 3. Runs

| run | instance | shows |
|---|---|---|
| `rerun` | two calls, one wallet, one transfer, up to two observations of it, two faults | counters, rows and results stay consistent whatever fails or interleaves |
| `shared` | two calls, two wallets that share a transfer, two successive windows | candidates are traceable; `last_synced_at` is backed and monotone; each call keeps `CallContract` |
| `ends` | one call with a history, two faults, fair | every call ends, every lock comes free |
| `converges` | as `rerun`, one fault | **violated**: a rerun that succeeds may miss an event (below) |
| `lock` | three calls, one wallet, eight time units | the lock covers its call and is a mutex |
| `runs` | a manual run and a file run that share a wallet, one worker at a time, one struck run | runs keep `RunContract`, so the run row agrees with the wallets' rows and with the answer of `Run`; nothing follows the end of a row |
| `runs_end` | a manual run of up to two wallets, fair | a running row ends, but for the exceptions the property names; workers keep `CallContract` |
| `gates` | every baseline and scan out of six transfers each, either fetch partial or not | candidates are certain, complete windows have exactly those of the definition, matches do not depend on map order |
| `exports` | a job beside a handler, or before or after a command; two runs in turn, one wallet, two places, two fingerprints; one fault | what is shown of an ended run is whole, steady candidates have exactly one explanation, equal exports leave equal files, exports of a run are reproducible, job rows tell the truth |
| `fetch` | chains of up to seven transactions before, in and after the window | the fetch is complete unless partial, keeps `WindowContract` and so leaves no gap, is bounded, and ends |
| `source` | five wallets; a scrape of five seeds cut to four and then to three candidates, and a file of two seeds whose owners are looked for; a target of one, two deeper samples | each candidate is decided once, reasons and statuses are true of the samples, nobody is accepted on part of a sample, the best first, requests bounded |
| `daemon` | two processes, one with `--once`, three starts in all, one fault, any number of midnights, fair | the budget of a day, one daemon at work, work resumed after exhaustion, an end after every signal |

Bounds. Two calls suffice for what `rerun` asks: a property is broken by one call
and a rerun or a rival, and three calls for one wallet act pairwise through the
same rows. Two faults let a statement fail or lose its reply and the deferred
finalization or release fail as well, or the process die after it. One transfer
seen twice is the smallest window with a duplicate across pages; `shared` has the
transfer under two wallets and windows in both orders, which makes late and early
syncs meet. In `lock` the time to live is seven units, so a lock may run out, be
taken over, and an old acquisition or release arrive afterwards; a third call
makes the rival of a rival. In `fetch` seven transactions, pages of one to three,
three pages and four transactions reach every cap, and each retry count. In `runs` the
two wallets of the manual run compete for a semaphore of one, so one of them waits
when the context ends; the file run has the shared wallet, so either run meets the
other's lock; limits of one and two let the settings move across the length of a
list (`AskedFor` has a list of each length). `CallContract` is asked of the small instances: `shared` has rivals for a
lock and contexts that end, but no lost reply and no crash, and `runs_end` has failing statements
and a death, but no rival; `CallKeepsContract` and `WorkersKeepContract` prove it of all
of them together. `MaxFaults` bounds the runs that are
struck on their own row or die; statements of workers fail freely. In `gates` the
poisoner is like two counterparties to the same degree, so the tie-break decides; the
payments to them lie at, within and beyond the recency limit of three days; one asset's
threshold covers two days only, so dust is known, unknown, and known to be none; two
injections are needed and up to five inbound transfers are there. The thresholds of
likeness are the least that validation lets pass. In `exports` one of the eight
artifacts is followed, a CSV file of the explanations, and the manifest: a file is
written the same way whichever it is, and two files suffice for a mixture. The answers
of the provider are one transfer (`One`), another fingerprint at its place (`Changed`), its
fingerprint at another place (`Moved`), the same at both places (`Twice`), and two transfers
(`Two`): each way in which a row can move, be replaced or be dropped, and two rows for the
sorts to order. A window export selects both runs, so ties occur. `Bounded` is a state
constraint: run 2 begins when run 1 has ended, no run writes while two exports are at
work, none is of run 2 alone, a command runs without a job beside it (it neither reads nor
writes what the job writes), a handler with one; beside a command run 1 is answered `One` or
`Twice` and run 2 `One`, `Changed` or `Moved`, with a job run 1 is answered `One` or `Two` and
run 2 `One` or `Moved`, and after a fault there is run 1 with `One`. Candidates without an
explanation and with two, and two equal exports of a run before and after the next one has
written, are all reached. In `source` there are two scores and a tie that the rest of the ranking decides, and one
that only the address does; three candidates for one place, two of whom may be fetched
again, make every status occur. In `daemon` the budget is 7 and a cycle is charged 5, so
a second cycle of a day does not fit and a cycle may straddle a midnight; a phase sends
one or two requests, which is enough for midnight and signals to
come between them. An interval lies within a day or spans a midnight. One fault is a crash
or the loss of a session, in either process; three starts let a process come back, beside the
other, to a lock its own former session still holds.
`VIEW`s
identify states that differ only in locals nobody reads again; `SYMMETRY` is over
calls and only in runs of safety properties. `CHECK_DEADLOCK FALSE` because a call
that is over does nothing more.

Fairness. `WalletSync!FairSpec` makes every started call go on: each statement runs
under the wallet context or a tail context, whose timeouts end it, and a lock runs
out because database time passes. Nothing forces a call to start, a context to end
or a fault to stop. `FetchWindow!FairSpec` makes a fetch go on, since the HTTP client has a
timeout and delays are finite; arrivals are not fair. `Orchestrator!FairSpec` makes
the goroutines of a live process run on: every worker's statements are under the
wallet context or a tail timeout, and the main goroutine waits for nothing else. A
dead process takes no step, so its row is one of the exceptions of `RunRowsEnd`.
`Daemon!FairSpec` lets days pass, a live process go on (requests and sleeps end by
themselves or by their contexts) and the server notice a client that is gone; nothing
forces a signal, a start or a fault.

The type invariants of the modules, and `OneCallPerWallet` of `WalletSync`, are proved and not
among the invariants of the runs. `NoGaps` of `FetchWindow` is a part of `WindowContract`, and
`SuccessIsTotal` and `NoErrorNoLoss` of `Orchestrator` follow from `RunContract` (a row ends with
the sum of what is settled, and nothing settled changes), so the runs check the contracts
and the three are proved as theorems of their own.

Every property has a mutant in `PROJECT.json`: a slip beside the definition it
replaces (comments say "slip"), which the property catches.

## 4. Where the documents and the code differ

1. `docs/phase6_execution_plan.md:126` expects that "partial persistence + rerun
   converges to stable counters". `RunWallet` links a transfer and counts its event
   in two statements (`wallet_runner.go:175-210`), and a rerun skips events whose
   link it finds. When the count fails, or the reply of the link is lost, the event
   is never counted, and the rerun succeeds (run `converges`). `LossIsVisible` and
   `SuccessUpToLoss` say what does hold: at most one event per call is lost, where
   that call stopped, its row says so, and a success misses nothing else.

More, seen while modelling and visible in the modules, without a run of their own:

- `Run` counts a wallet in `wallet_cap_hit_count` when its truncation reason contains
  `max_pages_cap` or `max_tx_cap` (`orchestrator.go:197`; `orchestrator_test.go:395` uses
  such a reason). The fetch reports `max_tx_pages_per_wallet_reached` and
  `max_tx_per_wallet_reached` (`fetch.go:50`, `:55`, `:93`), so with the real runner that
  counter stays zero. In `Orchestrator` it is `CapHits`, a count of `CountedCodes` that no
  outcome has.
- `docs/phase6_closeout.md:45` reports "Manifest SHA256 enforcement and determinism
  tests", and `dataset_test.go:100` compares the manifest of one export with its files.
  Exports of one run share `out/run_<id>` without excluding each other (`server.go:745`
  starts a goroutine per request), and each writes its files in place
  (`dataset.go:156`). Two of them that read the run at different times both succeed and
  leave files of one with the hashes of the other. `ExportJobs` has these behaviours:
  a job reads while the run goes on, a handler reads after it, and their files are
  written in either order. `OverlapIsHarmless` says what does hold: exports that read the
  same rows do no harm to each other.
- `docs/free_plan_daemon.md:31`: "only one daemon instance runs per database". The
  advisory lock is taken through the pool (`daemon.go:374`), which neither pins the
  session nor notices its end, so that holds as long as the session does: `OneDaemon`.
- `docs/free_plan_daemon.md:34`: "Sleeps until the next UTC day if the daily credit budget
  is exhausted". The budget of a day is checked with one reading of the clock (`daemon.go:449`)
  and the sleep computed from another (`:512`). When midnight falls between them, the daemon
  sleeps through the whole day that has just begun, whose budget is free. In `Daemon` that is
  a `Midnight` at `refused`; `Resumes` says that work goes on after it, not on which day.
- `docs/architecture.md:384`: "Every candidate must be explainable from persisted data", and
  `:388`: "Unexplainable candidates are invalid outputs". Explanations join candidates with
  transactions on signature and `transfer_index` (`export_repository.go:411`), but
  `transactions` is unique by signature and fingerprint, its upsert rewrites the index
  (`postgres_repository.go:303-304`), and of several transfers with one fingerprint only the first is
  stored (`wallet_runner.go:387`). So an answer that has one fingerprint in two places leaves
  the candidate at the second without an explanation, a later answer that moves a transfer takes
  that of its candidate away, and one that gives a place another fingerprint adds a second
  row there, so the candidate is explained twice. `ExportJobs` has all three; `CandidatesExplained` says
  what holds, which is exactly one explanation of each candidate whose transfer every answer
  showed alike (`Steady`).
- "maximum estimated Helius credits used by the daemon per UTC day" (`daemon.go:137`)
  is kept per process: a restart on the same day, or one `--once` after another, opens a
  new budget, and a cycle that starts just before midnight is charged to the day before.
  `DayWithinBudget` says what one process spends.
- `docs/free_plan_daemon.md:44` gives `--deep-dive-top-n 5` as a default of the daemon; it is 7
  (`daemon.go:163`).
- `page.RetryExhausted` and `reFetched.RetryExhausted` in `Source` (`source.go:259`, `:311`) are
  never reached: a fetch with exhausted retries is partial as well (`fetch.go:67-72`), so its
  reason is `activity_cap_reached`.
- `docs/phase6_execution_plan.md:12` wants lock conflicts and cancellations to
  "always finalize run + wallet status". The run row ends (`RunRowsEnd`), but a
  wallet that meets a lock (`Conflict`), or is turned away before it enters
  (`TurnAway`), never had a row of `wallet_sync_runs`: it is only counted.
- A manual run whose row was created is left `running` when the settings were
  lowered in between (`RefuseList`), or when `serve-api` is stopped
  (`main.go:575-581`); `RunRowsEnd` names both as exceptions. Likewise the row of an
  export job stays `queued` or `running` when the server stops.
- `docs/phase_transition_decisions.md:28-30` wants a baseline that stops by
  cancellation or failure to be recorded as an incomplete window.
  `RunWallet` records `failed` with `incomplete_window = false` when the core
  sync returns an error other than a deadline (`wallet_runner.go:146`).
- `docs/limitations.md:49`: "missing thresholds produce `is_dust = UNKNOWN`, which blocks
  candidates and sets `incomplete_window = true`". That holds for the scan. A payment of
  unknown dust in the baseline is left out of the legitimate counterparties
  (`candidate_materialize.go:155`), the lookalike gate fails instead of being unknown,
  and the window is not marked.
- `docs/phase4_execution_plan.md:12` wants exports that are byte-reproducible for the
  same filter and database. An export of one run is (`RunExportsReproducible`), apart from
  values of shared transfers that later runs overwrite, and from the explanations when the
  transfer of one of its candidates is not steady. A range of times may
  select two runs with the same wallet and transfer; neither `ORDER BY` nor `sort.Slice`
  tells their candidates apart, so their order is the database's choice.
- Recency is asked of the best match only (`evaluateLookalikeAndRecency`): a wallet that
  paid two counterparties alike has no candidate when the better match is too old,
  though the other is not. `Poisons` follows the code here, since the document does not
  say.

The deadline of a run may fire between the two reads of its context. The row then
says `succeeded` and `Run` returns an error; `NoErrorNoLoss` is the direction
that holds.

## 5. Proofs

All theorems hold for every value of the constants that satisfies the assumptions
of the modules.

- `TypeCorrect`: `TypeOK` of `WalletSync`. It is inductive together with
  `AtPending`: a counterparty statement is due only while the loop is at an
  observation, without which the row it would index need not exist.
- `OneCall`: `OneCallPerWallet`, from the invariant `LockHeld` (a call between its
  acquisition and its deferred statements is named by the lock of its wallet).
  `LockStep` splits every step into taking, giving up or keeping the lock.
- `CountsAreExact`: `CountedOnce`. The invariant adds to it `Pending`: the event of a
  due counterparty statement is linked and not counted. It is preserved when
  another call counts because `LockHeld` makes that call one of another wallet;
  and when a link is fresh because nothing is counted that is not linked.
  `TallyOneMore` is the arithmetic of one more event; `Related` says that
  observations have a side for the wallet, so every event counts as inbound or
  outbound.
- `NeverBack`: `LastSyncedNeverBack`, a step property, from the types.
- `EndsFinal`, `ReportsAreBacked`, `StatusIsTrue`, `LastSyncedBacked`, `SuccessCounts`:
  `EndedRowsAreFinal`, `ReportedIsPersisted`, `StatusTellsTheTruth`, `LastSyncedIsBacked`,
  `SuccessUpToLoss`. Two lemmas stand for all statements of a call: `StepEffect` says what a step
  may do to the call that takes it, `StepGrows` that the tables only gain rows and that
  other calls keep theirs. `CallInv` is about one call: what its row, its progress and
  the result of the core owe each other at each place (`RowFollows`, `Stored`, `GivenUp`,
  `Finished`, `LoopFollows`, `ResultSound`), and that the loop has linked what it passed
  (`PassedLinked`, which needs `Pending`).
- `CandidatesExplained` and `LossesShow`: `CandidateTraceable`, `LossIsVisible`. `CandidatesFrom`
  names the call that a candidate came from. `LossMarked` says of each event that is
  linked and not counted that a call stands at it or stopped at it, with the failure
  in its row; that a later call passes no such event (`PassedAccounted`) rests on the lock.
- `CallKeepsContract`: `KeepsCallContract`, the refinement of `CallContract` by the statements
  of a call. `ContractInv` is needed beside `CallInv`: `Owners` (a lock row names a call made
  for its wallet) and `Opened` (between its opening and its ending a row is running).
  `Inside` says that between the first statement of a call and the last none touches the
  lock or answers, so `InsideMaps` is left with the status in the row; `Mine` that other
  calls see nothing of a step. `Owners` makes the expiry of a lock the loss of it by the
  one call it names.
- `CoversCall` and `LockIsMutex`: the invariant `IInv` of `WalletLock` says for each
  phase how much of the lock's time to live is left at least: the whole tail at the
  end of the wallet context, the release and the slack less one lag at the end of
  the finalization, the slack less two lags at the end of the release. A takeover
  needs a lock that has run out, so it never meets a call inside.
- `Bounded`: `RequestsBounded` of `FetchWindow`, from an invariant that bounds the
  requests by the pages answered and the attempts at the current one.
- `Typed`, `Complete`, `Gapless` of `FetchWindow`: `TypeOK`, `CompleteUnlessPartial`, `NoGaps`. The
  invariant `IInv` has besides the types that the chain is `Sorted`, that there is room
  whenever a request is due, and `Below`: what is collected is the window from the newest
  place the first answer saw down to where the call stands. For a step, `Page`
  must hold of a page of any size what `Turn` says of one transaction. The provers have no
  induction to offer for that; instead a page that went wrong would have a least
  turn that did (`Least`, from the library's facts on well-founded orders), and `Turn`
  contradicts it. `Loop` shows in the same way that the function which defines `Filtered`
  exists at all. `ArriveInv` covers what reaches the chain between two requests.
- `FetchKeepsContract`: `ImplementsContract`, the refinement of `WindowContract`. `Below` makes
  every page an extension towards older transactions (`ReceiveMaps`), and arrivals are
  newer than the window that the first answer settled, so the contract does not see them.

- `TypeCorrect`, `SuccessTotal`, `AddUp`, `NoErrorMeansDone` of `Orchestrator`:
  `TypeOK`, `SuccessIsTotal`, `WalletsAddUp`, `NoErrorNoLoss`, for any number of runs that
  contend for any wallets. The inductive invariant `IInv` has four parts per run.
  `WorkerInv`: an outcome without error has left the wallet's row as it says.
  `Workers`: how far the run is bounds how far its workers are, and all are `Quiet` once
  it is past `wg.Wait`; without that a late worker could change a row already summed
  up. `Sums`: verdict and ended row are the counts of the outcomes; the three sets of
  outcomes are disjoint, which the library's cardinality facts turn into the sum.
  `Current`: a context that is live now was live when the status was derived.
- `EndIsLast`: the step property `NothingAfterTheEnd`, from `Quiet` in `IInv`: no
  worker of a run that has ended has a step left to take.
- `RunKeepsContract`: `KeepsRunContract`, the refinement of `RunContract`. `Place` ties row, answer
  and verdict of a run to where `Run` stands, and `StatusIsSum` says that the status it
  derived is what its settled wallets amount to, or that of a context that was
  over; `NextMaps` has one case per step, and `Quiet` again excludes a late outcome.
- `WorkersKeepContract`: `WorkersKeepCallContract`, the refinement of `CallContract` by the
  coarser workers here. `LockInv` says where the lock, the row and the outcome of a wallet
  are when its worker is somewhere; `WorkerLockInv` that a step keeps this for its own
  worker, `OtherCalls` that it disturbs no other.

- `TypeCorrect`, `MatchCorrect` and `CandidatesAreCertain` of `Gates`: `TypeOK`,
  `MatchIsBest`, `EmittedIsCertain`, for all windows, addresses, thresholds and parameters.
  `PrefixSpec` shows that the likeness is what the loops compute, `BeatsIsOrder` that
  the comparison is a strict total order; it rests on `PrecedesTransitive` and
  `PrecedesTotal`, the order of strings. So `BestSoFar`, that the match is best among
  those compared, survives every comparison in any order. `AllEmittable` keeps for
  each candidate what its gates said of the windows, and `EmittablePoisons` derives the
  reference definition from that for every way in which unknown dust may turn out
  and every transfer a truncated scan left out: injections only become more
  (`FS_Subset`), and the payments stay the same (`PaidIsPayments`).
- `CompleteExactly` of `Gates`: `CompleteIsExact`, the other direction. `ExactInv`: every
  transfer already decided has its row if it is emittable, and every row is of such
  a transfer; `DecideExact` says that a decision finds the only match it can have.
  `PoisonsEmittable` is the converse of `EmittablePoisons` where nothing is unknown.

- `TypeCorrect`, `EndedRunsAreWhole`, `CandidatesAreExplained`, `JobRowsAreTrue` of
  `ExportJobs`: `TypeOK`, `EndedMeansWhole`, `CandidatesExplained`, `JobsTellTheTruth`, for any
  number of runs, answers, exports and faults. `IInv` adds to the properties what a later query
  relies on. `TablesInv`: each row of `transactions` is as some sync was shown it, each
  fingerprint that was shown has a row, and a candidate's transfer was shown to its sync and
  is linked (`Stored`). For a steady transfer these leave one row, at its place; `DedupedKeeps`
  says that the upsert loses no fingerprint, by the least of the places that have it, and
  `SteadyBefore` that what is steady now was so when the join was read. `Seen`: a run shown as ended
  has ended, so its rows stay (`WritesSpare`), and a candidate once read is still
  there. `Progress` ties the place of a call to its query. Every step is a statement
  of a run, a query, or one that keeps what was read (`Keeps`). The order of the queries
  carries the argument: `runs` first makes `ended` mean whole, `candidates` before
  `explanations` and `summaries` makes growth harmless. `JobInv` is an invariant of its own.
- `OverlapsAreHarmless` of `ExportJobs`: `OverlapIsHarmless`. `FileInv` says of a directory whose
  calls agree so far that each file is empty or has what they write, and that a call finds
  a file behind it empty only while another one has it open. `Goes` sums up the steps
  that touch no file, so three are left: the last query, the truncation and the write.
- `ExportsReproducible` of `ExportJobs`: `RunExportsReproducible`. What two exports show of an
  ended run are the same sets (`Whole`); `Ordered` keeps that each is a sorted sequence, and
  `ArrangedOnce` that a finite set has one where there are no ties. The latter needs no
  induction: the place of a member is the number of members that are less (`PlaceIsRank`).
  `ExplainsOneRun` gives the explanations when all candidates are steady; that each is the
  only one of its candidate leaves their order without ties (`ExplanationsStrict`).

- `TypeCorrect`, `EachDecidedOnce`, `WholeSamples`, `BestAreChosen`, `DiveStatusTold` and
  `RequestsBounded` of `WalletSource`: its properties, for all seeds, candidates, options and
  outcomes of fetches. `IInv` has four parts beside the types. `OnOneList`: the candidates are
  split into those still to fetch, the eligible, the queue and the rejected, and
  rejected rows are one per wallet. `Samples`: the two pages and the summary of a wallet are what
  its list says, and each rejected row is true of them (`TrueRow`). `Target`: deeper samples stop at the target, so `Select` turns away
  no wallet that the dive accepted. `Spent`: the requests, counted by the fetches behind.
  `FirstKSize` and `FirstKFull` are about "the first k of a finite set in a strict order": it
  has at most k members, and k of them when anything is left out.

- `TypeCorrect`, `LockedAtWork` and `BudgetKept` of `Daemon`: `OneDaemon` is inductive with
  the types. `DayWithinBudget` needs `Within`: what a process has spent since midnight together with
  what its cycle may still spend (`Due`) is at most what it has charged to the current day
  (`UsedToday`), and one estimate more when its cycle was under way at midnight.
  `EstimateParts` splits the estimate into the three phases, `DueBound` shows that `Due` never
  exceeds it, and a request moves its cost from `Due` to what is spent (`SendWithin`).

Every safety property, step property and refinement that a passing run checks is proved. Only
model-checked is liveness, since the proof system does not handle fairness and
`ENABLED`: `EveryCallEnds` and `LockIsFreed` of `WalletSync`, `FetchEnds` of `FetchWindow`,
`RunRowsEnd` of `Orchestrator`, `Resumes` and `Stops` of `Daemon`. The contracts have no fairness
either: they say what a call, a fetch and a run may do, not that they come to an end.

## 6. Not modelled

- The two identities of a transfer outside the exports: `ExportJobs` has both, the place and the
  fingerprint, while `WalletSync` and `Gates` take a transfer as one thing. So what equal
  fingerprints do to the injection counts of `Gates` is left out; links and counters go by
  fingerprint alone, so for `WalletSync` a transfer is its fingerprint.
- Row locks of two `UpsertNormalizedTransfers` over shared transfers: `WalletSync` has the
  statement as one step, which may fail.
- A provider that breaks its contract, with a page that repeats its cursor or an empty
  body: `FetchWindow` has one that keeps it.
- The rate of the request limiters, the scoring of wallets (`summarizeWallet`, `sourceScore`)
  and of scraped blocks: arithmetic over provider data and wall-clock time.
- Settings other than `MAX_WALLETS_PER_RUN`, the failure taxonomy of the run control API:
  values read once, and read-only queries.
- The read API, the web application, configuration parsing and the fixtures: no
  state of their own.
