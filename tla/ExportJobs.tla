----------------------------- MODULE ExportJobs -----------------------------
(***************************************************************************)
(* Dataset exports: ExportDataset (internal/exports/dataset.go) over the   *)
(* five queries of internal/storage/export_repository.go, and its three    *)
(* callers: the export jobs of the API, which go on in a goroutine, its    *)
(* generate handler (both internal/api/server.go), and the export-dataset  *)
(* command (cmd/scanner/main.go).  Runs write the tables meanwhile.        *)
(*                                                                         *)
(* Every query is a statement of its own: there is no transaction around   *)
(* the five.  Every file is truncated first and written then, straight     *)
(* into the directory of the run, which all exports of the run share.      *)
(*                                                                         *)
(* Simplifications:                                                        *)
(*  - of a row its keys are kept, and whether its run or sync has ended;   *)
(*    the values of a transfer, which later runs overwrite, are left out;  *)
(*  - a transfer is known by its place, its signature and transfer_index,  *)
(*    and by its fingerprint, the signature included.  Candidates name     *)
(*    places, rows of transactions and links are unique by fingerprints,   *)
(*    and what the provider answers may put one fingerprint in two places, *)
(*    in another one the next time, or two in one place over time;         *)
(*  - a wallet is its rank in the order of addresses, a place its rank in  *)
(*    the order of block time, signature and index, and a run its rank in  *)
(*    the order of start, of id and of scan window;                        *)
(*  - a filter is the set of runs it selects, those to come included;      *)
(*  - a line of a file stands for the row it is made from, a hash for what *)
(*    is hashed;                                                           *)
(*  - files are written one after another in the same way, so an instance  *)
(*    may follow a few of them (Written);                                  *)
(*  - a run that has ended writes nothing more                             *)
(*    (Orchestrator!NothingAfterTheEnd).                                   *)
(***************************************************************************)
EXTENDS Integers, Sequences, FiniteSets

CONSTANTS
  Run,              \* ids of ingestion_runs
  Wallet,           \* scanned wallets
  Transfer,         \* transfers, by place
  Fingerprint,      \* fingerprints of transfers
  Reported,         \* what the provider may answer: <<place, fingerprint>>
  Window,           \* the sets of runs a range of started_at may select
  Export,           \* calls of ExportDataset
  May,              \* May[e]: the callers e may have
  Written,          \* the artifacts that are followed, by number
  MaxFaults         \* bound on failed statements and writes, and on stops

ASSUME ExportAssumption ==
  /\ Run \subseteq Nat /\ IsFiniteSet(Run)
  /\ Wallet \subseteq Nat /\ IsFiniteSet(Wallet)
  /\ Transfer \subseteq Nat /\ IsFiniteSet(Transfer)
  /\ Reported \subseteq SUBSET (Transfer \X Fingerprint)
  /\ \A A \in Reported : \A p, q \in A : p[1] = q[1] => p = q
  /\ Window \subseteq SUBSET Run
  /\ May \in [Export -> SUBSET {"job", "generate", "command"}]
  /\ Written \subseteq 1..8
  /\ MaxFaults \in Nat

VARIABLES
  \* the tables
  runs,             \* ingestion_runs: the status of each row
  syncs,            \* wallet_sync_runs, by run and wallet: how far each is
  seen,             \* by run and wallet: the transfers its sync was answered
  transactions,     \* transactions: <<transfer_index, fingerprint>>
  links,            \* wallet_transactions: <<wallet, fingerprint>>
  candidates,       \* poisoning_candidates: <<run, wallet, transfer>>
  jobs,             \* export_jobs: the status of the row of each export
  \* the exports
  pc,               \* where each call is
  caller,           \* who made it
  filter,           \* the runs it selects
  got,              \* the rows each query returned
  next,             \* the query or the file it is at
  open,             \* that file is open and truncated
  \* the file system
  files,            \* by directory and name: the lines
  faults

tables  == <<runs, syncs, seen, transactions, links, candidates>>
exports == <<jobs, pc, caller, filter, got, next, open, files>>
vars    == <<tables, exports, faults>>

-----------------------------------------------------------------------------
(* The queries.                                                            *)

Lines(s) == {s[i] : i \in DOMAIN s}

(***************************************************************************)
(* What ORDER BY and sort.Slice leave of a set of rows: any sequence of    *)
(* them in which no row comes before one that is less.                     *)
(***************************************************************************)
Sorted(S, Less(_, _)) ==
  {s \in [1..Cardinality(S) -> S] :
     /\ Lines(s) = S
     /\ \A i, j \in DOMAIN s : i < j => ~Less(s[j], s[i])}

ByRun(a, b) == a[1] < b[1]
ByWallet(a, b) == a[2] < b[2] \/ (a[2] = b[2] /\ a[1] < b[1])
ByTransfer(a, b) == a[2] < b[2] \/ (a[2] = b[2] /\ a[3] < b[3])

IngestionRuns(f) == {<<r, runs[r]>> : r \in {q \in f : runs[q] # "none"}}

Shown(stage) == IF stage = "ended" THEN "ended" ELSE "running"

SyncsOf(f) == {k \in f \X Wallet : syncs[k] # "none"}

WalletSyncRuns(f) == {<<k[1], k[2], Shown(syncs[k])>> : k \in SyncsOf(f)}

EveryCandidate(f) == candidates          \* slip: the WHERE is forgotten
CandidatesOf(f) == {c \in candidates : c[1] \in f}

\* the candidate an explanation is of
Key(x) == <<x[1], x[2], x[3]>>

(***************************************************************************)
(* The join: of a candidate the rows of transactions at its place that are *)
(* linked to its wallet, none, one or several.                             *)
(***************************************************************************)
CandidateExplanations(f) ==
  {x \in Run \X Wallet \X Transfer \X Fingerprint :
     /\ Key(x) \in CandidatesOf(f)
     /\ <<x[3], x[4]>> \in transactions /\ <<x[2], x[4]>> \in links}

WalletSummaries(f) ==
  {<<k[1], k[2], Cardinality({c \in candidates : <<c[1], c[2]>> = k}),
     Shown(syncs[k])>> : k \in SyncsOf(f)}

Table == {"runs", "syncs", "candidates", "explanations", "summaries"}

RunsLast == <<"syncs", "candidates", "explanations", "summaries", "runs">>
ExplanationsFirst == <<"runs", "syncs", "explanations", "candidates", "summaries">>
Query == <<"runs", "syncs", "candidates", "explanations", "summaries">>

Rows(table, f) ==
  CASE table = "runs"         -> IngestionRuns(f)
    [] table = "syncs"        -> WalletSyncRuns(f)
    [] table = "candidates"   -> CandidatesOf(f)
    [] table = "explanations" -> CandidateExplanations(f)
    [] OTHER                  -> WalletSummaries(f)

Answers(table, f) ==
  CASE table = "runs" -> Sorted(Rows(table, f), ByRun)
    [] table \in {"candidates", "explanations"} -> Sorted(Rows(table, f), ByTransfer)
    [] OTHER -> Sorted(Rows(table, f), ByWallet)

-----------------------------------------------------------------------------
(* The files.                                                              *)

(***************************************************************************)
(* The artifacts in the order they are written.  A JSONL file has the rows *)
(* of one query, a CSV file a header before them.  The health artifacts    *)
(* classify each row on its own.                                           *)
(***************************************************************************)
HealthArtifacts ==
  <<[name |-> "operational_health_runs.jsonl",       of |-> "runs",         csv |-> FALSE],
    [name |-> "operational_health_wallet_sync.csv",  of |-> "syncs",        csv |-> TRUE]>>

Artifacts ==
  <<[name |-> "ingestion_runs.jsonl",                of |-> "runs",         csv |-> FALSE],
    [name |-> "wallet_sync_runs.jsonl",              of |-> "syncs",        csv |-> FALSE],
    [name |-> "poisoning_candidates.jsonl",          of |-> "candidates",   csv |-> FALSE],
    [name |-> "candidate_explanations.jsonl",        of |-> "explanations", csv |-> FALSE],
    [name |-> "candidate_explanations.csv",          of |-> "explanations", csv |-> TRUE],
    [name |-> "wallet_inspection_summary.csv",       of |-> "summaries",    csv |-> TRUE]>>
  \o HealthArtifacts

Manifest == Len(Artifacts) + 1

\* the files in the order they are written
File == Written \cup {Manifest}

NextFile(i) == CHOOSE j \in File : i < j /\ \A k \in File : i < k => j <= k

\* the bytes of an artifact
Text(e, a) == (IF Artifacts[a].csv THEN << <<"header">> >> ELSE <<>>)
                \o got[e][Artifacts[a].of]

\* the bytes of a file; in the manifest the filter, the times of the runs and
\* the hash of every other file
Payload(e, i) ==
  IF i = Manifest
  THEN <<filter[e], got[e].runs, [a \in Written |-> Text(e, a)]>>
  ELSE Text(e, i)

Torn == << <<"torn">> >>

Appended(new, old) == {old \o new}       \* slip: opened with O_APPEND

(***************************************************************************)
(* os.WriteFile writes from the beginning of the file it has truncated.    *)
(* When another export wrote that file in between, the tail of a longer    *)
(* text stays.                                                             *)
(***************************************************************************)
Overwritten(new, old) == IF old \in {<<>>, new} THEN {new} ELSE {new, Torn}

Directory(e) == IF caller[e] = "command" THEN <<"out", e>>
                ELSE <<"run", CHOOSE r \in filter[e] : TRUE>>

Directories == ({"out"} \X Export) \cup ({"run"} \X Run)

NoRows == [table \in Table |-> <<>>]

Server == {"job", "generate"}
Live == {"posted", "reading", "writing", "ending", "failing"}
Over == {"done", "failed", "gone"}

Init ==
  /\ runs = [r \in Run |-> "none"]
  /\ syncs = [k \in Run \X Wallet |-> "none"]
  /\ seen = [k \in Run \X Wallet |-> {}]
  /\ transactions = {} /\ links = {}
  /\ candidates = {}
  /\ jobs = [e \in Export |-> "none"]
  /\ pc = [e \in Export |-> "idle"]
  /\ caller = [e \in Export |-> "none"]
  /\ filter = [e \in Export |-> {}]
  /\ got = [e \in Export |-> NoRows]
  /\ next = [e \in Export |-> 1]
  /\ open = [e \in Export |-> FALSE]
  /\ files = [d \in Directories |-> [i \in File |-> <<>>]]
  /\ faults = 0

Fault(n) == faults + n <= MaxFaults /\ faults' = faults + n

-----------------------------------------------------------------------------
(* What a run writes.                                                      *)

BeginRun(r) ==
  /\ runs[r] = "none"
  /\ runs' = [runs EXCEPT ![r] = "running"]
  /\ UNCHANGED <<syncs, seen, transactions, links, candidates, exports, faults>>

BeginSync(r, w) ==
  /\ runs[r] = "running" /\ syncs[<<r, w>>] = "none"
  /\ syncs' = [syncs EXCEPT ![<<r, w>>] = "begun"]
  /\ UNCHANGED <<runs, seen, transactions, links, candidates, exports, faults>>

\* of transfers with one fingerprint the first
Deduped(A) == {p \in A : \A q \in A : q[2] = p[2] => p[1] <= q[1]}

\* one transaction, which moves the rows whose fingerprints are known
StoreTransfers(r, w) ==
  /\ runs[r] = "running" /\ syncs[<<r, w>>] = "begun"
  /\ \E A \in Reported :
       /\ seen' = [seen EXCEPT ![<<r, w>>] = A]
       /\ transactions' = {p \in transactions : \A q \in A : q[2] # p[2]} \cup Deduped(A)
  /\ syncs' = [syncs EXCEPT ![<<r, w>>] = "stored"]
  /\ UNCHANGED <<runs, links, candidates, exports, faults>>

Inserted(r, w) == \E c \in candidates : <<c[1], c[2]>> = <<r, w>>

\* one statement for each observation, before the candidates
LinkTransfer(r, w) ==
  /\ runs[r] = "running" /\ syncs[<<r, w>>] = "stored" /\ ~Inserted(r, w)
  /\ \E p \in seen[<<r, w>>] :
       <<w, p[2]>> \notin links /\ links' = links \cup {<<w, p[2]>>}
  /\ UNCHANGED <<runs, syncs, seen, transactions, candidates, exports, faults>>

\* one transaction, at most once per sync, of observations, which are linked
StoreCandidates(r, w) ==
  /\ runs[r] = "running" /\ syncs[<<r, w>>] = "stored" /\ ~Inserted(r, w)
  /\ \E S \in (SUBSET {p \in seen[<<r, w>>] : <<w, p[2]>> \in links}) \ {{}} :
       candidates' = candidates \cup {<<r, w, p[1]>> : p \in S}
  /\ UNCHANGED <<runs, syncs, seen, transactions, links, exports, faults>>

\* with or without candidates, or after a failure
EndSync(r, w) ==
  /\ runs[r] = "running" /\ syncs[<<r, w>>] \in {"begun", "stored"}
  /\ syncs' = [syncs EXCEPT ![<<r, w>>] = "ended"]
  /\ UNCHANGED <<runs, seen, transactions, links, candidates, exports, faults>>

EndRun(r) ==
  /\ runs[r] = "running"
  /\ runs' = [runs EXCEPT ![r] = "ended"]
  /\ UNCHANGED <<syncs, seen, transactions, links, candidates, exports, faults>>

-----------------------------------------------------------------------------
(* The callers.                                                            *)

Call(e, who, f) ==
  /\ pc[e] = "idle" /\ who \in May[e]
  /\ caller' = [caller EXCEPT ![e] = who]
  /\ filter' = [filter EXCEPT ![e] = f]
  /\ UNCHANGED <<tables, got, next, open, files>>

(***************************************************************************)
(* POST /api/exports/jobs: the row refers to a run that exists.  When the  *)
(* reply is lost the row is there and no goroutine is started.             *)
(***************************************************************************)
CreateExportJob(e, r) ==
  /\ runs[r] # "none"
  /\ Call(e, "job", {r})
  /\ jobs' = [jobs EXCEPT ![e] = "queued"]
  /\ \/ pc' = [pc EXCEPT ![e] = "posted"] /\ Fault(0)
     \/ pc' = [pc EXCEPT ![e] = "gone"] /\ Fault(1)

\* UpdateExportJobStatus, whose error is ignored
Update(e, status) ==
  \/ jobs' = [jobs EXCEPT ![e] = status] /\ Fault(0)
  \/ UNCHANGED jobs /\ Fault(1)

BeginJob(e) ==
  /\ pc[e] = "posted"
  /\ Update(e, "running")
  /\ pc' = [pc EXCEPT ![e] = "reading"]
  /\ UNCHANGED <<tables, caller, filter, got, next, open, files>>

Generate(e, r) ==
  /\ Call(e, "generate", {r})
  /\ pc' = [pc EXCEPT ![e] = "reading"]
  /\ UNCHANGED <<jobs, faults>>

ExportCommand(e, f) ==
  /\ Call(e, "command", f)
  /\ pc' = [pc EXCEPT ![e] = "reading"]
  /\ UNCHANGED <<jobs, faults>>

AlwaysSucceeded(e) == "succeeded"        \* slip: the error is not looked at
Result(e) == IF pc[e] = "ending" THEN "succeeded" ELSE "failed"

EndJob(e) ==
  /\ pc[e] \in {"ending", "failing"}
  /\ Update(e, Result(e))
  /\ pc' = [pc EXCEPT ![e] = IF pc[e] = "ending" THEN "done" ELSE "failed"]
  /\ UNCHANGED <<tables, caller, filter, got, next, open, files>>

\* a job still has to update its row
Return(e, ok) ==
  pc' = [pc EXCEPT ![e] = IF caller[e] = "job"
                          THEN IF ok THEN "ending" ELSE "failing"
                          ELSE IF ok THEN "done" ELSE "failed"]

-----------------------------------------------------------------------------
(* ExportDataset.                                                          *)

ListForExport(e) ==
  /\ pc[e] = "reading"
  /\ \E rows \in Answers(Query[next[e]], filter[e]) :
       got' = [got EXCEPT ![e][Query[next[e]]] = rows]
  /\ IF next[e] = Len(Query)
     THEN /\ pc' = [pc EXCEPT ![e] = "writing"]
          /\ next' = [next EXCEPT ![e] = NextFile(0)]
     ELSE next' = [next EXCEPT ![e] = @ + 1] /\ UNCHANGED pc
  /\ UNCHANGED <<tables, jobs, caller, filter, open, files, faults>>

\* a failed query, or a context that ran out: nothing is written
ReadFails(e) ==
  /\ pc[e] = "reading"
  /\ Fault(1)
  /\ Return(e, FALSE)
  /\ UNCHANGED <<tables, jobs, caller, filter, got, next, open, files>>

OpenFile(e) ==
  /\ pc[e] = "writing" /\ ~open[e]
  /\ open' = [open EXCEPT ![e] = TRUE]
  /\ files' = [files EXCEPT ![Directory(e)][next[e]] = <<>>]
  /\ UNCHANGED <<tables, jobs, pc, caller, filter, got, next, faults>>

WriteFile(e) ==
  /\ pc[e] = "writing" /\ open[e]
  /\ open' = [open EXCEPT ![e] = FALSE]
  /\ \E lines \in Overwritten(Payload(e, next[e]), files[Directory(e)][next[e]]) :
       files' = [files EXCEPT ![Directory(e)][next[e]] = lines]
  /\ IF next[e] = Manifest
     THEN Return(e, TRUE) /\ UNCHANGED next
     ELSE next' = [next EXCEPT ![e] = NextFile(@)] /\ UNCHANGED pc
  /\ UNCHANGED <<tables, jobs, caller, filter, got, faults>>

\* MkdirAll or the opening fails, or the write: the file keeps its text, is
\* left as it was opened, or has part of the text
WriteFails(e) ==
  /\ pc[e] = "writing"
  /\ Fault(1)
  /\ Return(e, FALSE)
  /\ open' = [open EXCEPT ![e] = FALSE]
  /\ \/ UNCHANGED files
     \/ open[e] /\ files' = [files EXCEPT ![Directory(e)][next[e]] = Torn]
  /\ UNCHANGED <<tables, jobs, caller, filter, got, next>>

-----------------------------------------------------------------------------
(* Stops.  The server takes its handlers and goroutines with it, and no    *)
(* restart takes a job up again.                                           *)

Stop(E) ==
  /\ Fault(1)
  /\ pc' = [e \in Export |-> IF e \in E THEN "gone" ELSE pc[e]]
  /\ open' = [e \in Export |-> e \notin E /\ open[e]]
  /\ UNCHANGED <<tables, jobs, caller, filter, got, next, files>>

ServerStops ==
  LET E == {e \in Export : pc[e] \in Live /\ caller[e] \in Server}
  IN  E # {} /\ Stop(E)

CommandStops(e) == pc[e] \in Live /\ caller[e] = "command" /\ Stop({e})

Writes(r) ==
  \/ BeginRun(r) \/ EndRun(r)
  \/ \E w \in Wallet :
       \/ BeginSync(r, w) \/ StoreTransfers(r, w) \/ LinkTransfer(r, w)
       \/ StoreCandidates(r, w) \/ EndSync(r, w)

Begins(e) ==
  \/ \E r \in Run : CreateExportJob(e, r) \/ Generate(e, r)
  \/ \E f \in Window \cup {{r} : r \in Run} : ExportCommand(e, f)

Step(e) ==
  \/ BeginJob(e) \/ EndJob(e)
  \/ ListForExport(e) \/ ReadFails(e)
  \/ OpenFile(e) \/ WriteFile(e) \/ WriteFails(e)

Next ==
  \/ \E r \in Run : Writes(r)
  \/ \E e \in Export : Begins(e) \/ Step(e) \/ CommandStops(e)
  \/ ServerStops

Spec == Init /\ [][Next]_vars

-----------------------------------------------------------------------------
(* What must hold.                                                         *)

RowOf ==
  [runs |-> Run \X {"running", "ended"},
   syncs |-> Run \X Wallet \X {"running", "ended"},
   candidates |-> Run \X Wallet \X Transfer,
   explanations |-> Run \X Wallet \X Transfer \X Fingerprint,
   summaries |-> Run \X Wallet \X Nat \X {"running", "ended"}]

\* Types of the tables, of the export jobs and of what ExportDataset holds.
TypeOK ==
  /\ runs \in [Run -> {"none", "running", "ended"}]
  /\ syncs \in [Run \X Wallet -> {"none", "begun", "stored", "ended"}]
  /\ seen \in [Run \X Wallet -> SUBSET (Transfer \X Fingerprint)]
  /\ transactions \subseteq Transfer \X Fingerprint
  /\ links \subseteq Wallet \X Fingerprint
  /\ candidates \subseteq Run \X Wallet \X Transfer
  /\ jobs \in [Export -> {"none", "queued", "running", "succeeded", "failed"}]
  /\ pc \in [Export -> {"idle"} \cup Live \cup Over]
  /\ caller \in [Export -> {"none", "command"} \cup Server]
  /\ filter \in [Export -> SUBSET Run]
  /\ DOMAIN got = Export
  /\ \A e \in Export : /\ DOMAIN got[e] = Table
                        /\ \A table \in Table : Lines(got[e][table]) \subseteq RowOf[table]
  /\ next \in [Export -> 1..Manifest]
  /\ open \in [Export -> BOOLEAN]
  /\ DOMAIN files = Directories
  /\ faults \in 0..MaxFaults

\* how many queries of e have been answered
Answered(e) == IF pc[e] = "reading" THEN next[e] - 1
               ELSE IF pc[e] \in {"writing", "ending", "done"} THEN Len(Query) ELSE 0

HasRead(e, table) == \E i \in 1..Answered(e) : Query[i] = table

Of(r, rows) == {x \in rows : x[1] = r}

(***************************************************************************)
(* A transfer that every answer so far showed at one place with one        *)
(* fingerprint.                                                            *)
(***************************************************************************)
Sightings == UNION {seen[k] : k \in Run \X Wallet}

Steady(t) == \E f \in Fingerprint : \A p \in Sightings : p[1] = t <=> p[2] = f

(***************************************************************************)
(* An export that shows a run as ended shows all of that run: every row of *)
(* it that will ever be in the tables, though each table was read at its   *)
(* own time and other runs go on.  ExportDataset, the order of its queries *)
(* and their filter.                                                       *)
(***************************************************************************)
EndedMeansWhole ==
  \A e \in Export, r \in Run :
    <<r, "ended">> \in Lines(got[e].runs) =>
      \A table \in {"syncs", "candidates", "summaries"} :
        HasRead(e, table) => Of(r, Lines(got[e][table])) = Of(r, Rows(table, filter[e]))

(***************************************************************************)
(* An exported candidate has exactly one explanation when its transfer is  *)
(* steady: an unsteady one may have lost its row to another place, or find *)
(* a second row at its own.  And none is missing from the count of its     *)
(* wallet, also while the run goes on.  ExportDataset,                     *)
(* ListCandidateExplanationsForExport and the upsert of                    *)
(* UpsertNormalizedTransfers, which moves rows under the join.             *)
(***************************************************************************)
CandidatesExplained ==
  \A e \in Export :
    /\ HasRead(e, "explanations") =>
         \A c \in Lines(got[e].candidates) :
           Steady(c[3]) =>
             \E x \in Lines(got[e].explanations) :
               {y \in Lines(got[e].explanations) : Key(y) = c} = {x}
    /\ HasRead(e, "summaries") =>
         \A c \in Lines(got[e].candidates) :
           \E s \in Lines(got[e].summaries) :
             /\ <<s[1], s[2]>> = <<c[1], c[2]>>
             /\ s[3] >= Cardinality({d \in Lines(got[e].candidates) :
                                       <<d[1], d[2]>> = <<c[1], c[2]>>})

CallsFor(d) == {e \in Export : pc[e] \in Over \cup Live /\ Directory(e) = d}

Shows(e) == [i \in File |-> Payload(e, i)]

(***************************************************************************)
(* Exports into one directory that have read the same rows leave it as one *)
(* of them alone would, however their writes interleave.  os.WriteFile in  *)
(* ExportDataset; handleExportJobs and handleExportGenerate share run_<id>. *)
(***************************************************************************)
OverlapIsHarmless ==
  \A d \in Directories :
    LET W == CallsFor(d)
    IN  (/\ \A e \in W : pc[e] \in {"ending", "done"}
         /\ \A e, f \in W : Shows(e) = Shows(f))
        => \A e \in W : files[d] = Shows(e)

\* the export has read all, and shows every run it was asked for as ended
ShowsEnded(e) ==
  /\ Answered(e) = Len(Query)
  /\ Lines(got[e].runs) = filter[e] \X {"ended"}

SameRows(e, f) ==
  /\ \A table \in Table \ {"explanations"} : got[e][table] = got[f][table]
  /\ (\A c \in Lines(got[e].candidates) : Steady(c[3]))
       => got[e].explanations = got[f].explanations

(***************************************************************************)
(* Two exports of one run that show it as ended show the same rows in the  *)
(* same order; the explanations when all its candidates are steady.        *)
(* docs/phase4_execution_plan.md:12 of ExportDataset; ORDER BY and the     *)
(* sort functions, which leave no tie within a run.                        *)
(***************************************************************************)
RunExportsReproducible ==
  \A e, f \in Export :
    ShowsEnded(e) /\ ShowsEnded(f) /\ filter[e] = filter[f] /\ Cardinality(filter[e]) = 1
    => SameRows(e, f)

(***************************************************************************)
(* The row of a job says succeeded only when the manifest of its export is *)
(* written, failed only when it is not, and without a failed statement or  *)
(* a stop no job ends with its row open.  runExportJob, which ignores the  *)
(* errors of UpdateExportJobStatus.                                        *)
(***************************************************************************)
JobsTellTheTruth ==
  \A e \in Export :
    /\ jobs[e] = "succeeded" => pc[e] = "done" /\ next[e] = Manifest /\ ~open[e]
    /\ jobs[e] = "failed" => pc[e] = "failed"
    /\ (jobs[e] \in {"queued", "running"} /\ pc[e] \in Over) => faults > 0
=============================================================================
