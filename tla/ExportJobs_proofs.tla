-------------------------- MODULE ExportJobs_proofs --------------------------
(***************************************************************************)
(* Theorems about ExportJobs, for every finite set of runs, wallets and    *)
(* transfers, any number of exports of any callers, and any number of      *)
(* faults.                                                                 *)
(***************************************************************************)
EXTENDS ExportJobs, FiniteSetTheorems, WellFoundedInduction, TLAPS

-----------------------------------------------------------------------------
(* The queries.                                                            *)

LEMMA AnswersAreRows ==
  ASSUME NEW table \in Table, NEW f, NEW rows \in Answers(table, f)
  PROVE  Lines(rows) = Rows(table, f)
  <1>1. CASE table = "runs"
    BY <1>1 DEF Answers, Sorted
  <1>2. CASE table \in {"candidates", "explanations"}
    BY <1>2 DEF Answers, Sorted
  <1>3. CASE table \in {"syncs", "summaries"}
    BY <1>3 DEF Answers, Sorted
  <1>4. QED  BY <1>1, <1>2, <1>3 DEF Table

LEMMA QueriesAreTables ==
  ASSUME NEW i \in 1..Len(Query)
  PROVE  Query[i] \in Table
  BY DEF Query, Table

LEMMA CandidatesAreFinite ==
  ASSUME NEW C \in SUBSET (Run \X Wallet \X Transfer)
  PROVE  IsFiniteSet(C) /\ Cardinality(C) \in Nat
  <1> DEFINE P == (Run \X Wallet) \X Transfer
             T == Run \X Wallet \X Transfer
             f == [x \in P |-> <<x[1][1], x[1][2], x[2]>>]
  <1>1. IsFiniteSet(P)
    BY ExportAssumption, FS_Product
  <1>2. f \in Surjection(P, T)
    <2>1. f \in [P -> T]
      OBVIOUS
    <2>2. ASSUME NEW y \in T  PROVE \E x \in P : f[x] = y
      <3>1. <<<<y[1], y[2]>>, y[3]>> \in P
        OBVIOUS
      <3>2. f[<<<<y[1], y[2]>>, y[3]>>] = y
        BY <3>1
      <3>3. QED  BY <3>1, <3>2
    <2>3. QED  BY <2>1, <2>2 DEF Surjection
  <1>3. IsFiniteSet(T)
    <2> HIDE DEF P, T, f
    <2>1. QED  BY <1>1, <1>2, FS_Surjection
  <1>4. QED  BY <1>3, FS_Subset, FS_CardinalityType

LEMMA WhichRows ==
  ASSUME NEW f
  PROVE  /\ Rows("runs", f) = IngestionRuns(f)
         /\ Rows("syncs", f) = WalletSyncRuns(f)
         /\ Rows("candidates", f) = CandidatesOf(f)
         /\ Rows("explanations", f) = CandidateExplanations(f)
         /\ Rows("summaries", f) = WalletSummaries(f)
  BY DEF Rows

LEMMA RowType ==
  ASSUME TypeOK, NEW table \in Table, NEW f \in SUBSET Run
  PROVE  Rows(table, f) \subseteq RowOf[table]
  <1>1. CASE table = "runs"
    BY <1>1, WhichRows DEF RowOf, IngestionRuns, TypeOK
  <1>2. CASE table = "syncs"
    BY <1>2, WhichRows DEF RowOf, WalletSyncRuns, SyncsOf, Shown, TypeOK
  <1>3. CASE table = "candidates"
    BY <1>3, WhichRows DEF RowOf, CandidatesOf, TypeOK
  <1>4. CASE table = "explanations"
    BY <1>4, WhichRows DEF RowOf, CandidateExplanations
  <1>5. CASE table = "summaries"
    <2>1. ASSUME NEW k
          PROVE  Cardinality({c \in candidates : <<c[1], c[2]>> = k}) \in Nat
      BY CandidatesAreFinite DEF TypeOK
    <2>2. Rows(table, f) = WalletSummaries(f)
      BY <1>5, WhichRows
    <2>3. ASSUME NEW k \in SyncsOf(f)
          PROVE  k \in Run \X Wallet /\ Shown(syncs[k]) \in {"running", "ended"}
      BY DEF SyncsOf, Shown
    <2>4. ASSUME NEW k \in SyncsOf(f)
          PROVE  <<k[1], k[2], Cardinality({c \in candidates : <<c[1], c[2]>> = k}),
                   Shown(syncs[k])>> \in RowOf["summaries"]
      BY <2>1, <2>3 DEF RowOf
    <2>5. QED  BY <1>5, <2>2, <2>4 DEF WalletSummaries
  <1>6. QED  BY <1>1, <1>2, <1>3, <1>4, <1>5 DEF Table

LEMMA NextFileType ==
  ASSUME NEW i \in 0..Manifest, i < Manifest
  PROVE  NextFile(i) \in 1..Manifest
  <1>1. File \subseteq 1..9 /\ 9 \in File /\ Manifest = 9
    BY ExportAssumption DEF File, Manifest, Artifacts, HealthArtifacts
  <1>2. \E j \in File : i < j /\ \A k \in File : i < k => j <= k
    BY <1>1
  <1>3. NextFile(i) \in File
    BY <1>2 DEF NextFile
  <1>4. QED  BY <1>1, <1>3

-----------------------------------------------------------------------------
(* Types.                                                                  *)

LEMMA InitType == Init => TypeOK
  <1>1. ASSUME NEW table \in Table  PROVE Lines(NoRows[table]) \subseteq RowOf[table]
    BY DEF Lines, NoRows
  <1>2. DOMAIN NoRows = Table
    BY DEF NoRows
  <1>3. Manifest = 9
    BY DEF Manifest, Artifacts, HealthArtifacts
  <1>4. QED  BY <1>1, <1>2, <1>3, ExportAssumption DEF Init, TypeOK, Directories

LEMMA FaultType ==
  ASSUME faults \in 0..MaxFaults, NEW n \in {0, 1}, Fault(n)
  PROVE  faults' \in 0..MaxFaults
  BY ExportAssumption DEF Fault

LEMMA WritesType ==
  ASSUME TypeOK, NEW r \in Run, Writes(r)
  PROVE  TypeOK'
  <1>1. UNCHANGED <<exports, faults>>
    BY DEF Writes, BeginRun, EndRun, BeginSync, StoreTransfers, LinkTransfer, StoreCandidates,
           EndSync
  <1>2. /\ runs' \in [Run -> {"none", "running", "ended"}]
        /\ syncs' \in [Run \X Wallet -> {"none", "begun", "stored", "ended"}]
        /\ seen' \in [Run \X Wallet -> SUBSET (Transfer \X Fingerprint)]
        /\ transactions' \subseteq Transfer \X Fingerprint
        /\ links' \subseteq Wallet \X Fingerprint
        /\ candidates' \subseteq Run \X Wallet \X Transfer
    <2>1. CASE BeginRun(r) \/ EndRun(r)
      BY <2>1 DEF BeginRun, EndRun, TypeOK
    <2>2. CASE \E w \in Wallet : BeginSync(r, w) \/ EndSync(r, w)
      BY <2>2 DEF BeginSync, EndSync, TypeOK
    <2>3. CASE \E w \in Wallet : StoreTransfers(r, w)
      <3>1. PICK w \in Wallet : StoreTransfers(r, w)
        BY <2>3
      <3>2. PICK A \in Reported :
              /\ seen' = [seen EXCEPT ![<<r, w>>] = A]
              /\ transactions' = {p \in transactions : \A q \in A : q[2] # p[2]} \cup Deduped(A)
        BY <3>1 DEF StoreTransfers
      <3>3. A \subseteq Transfer \X Fingerprint /\ Deduped(A) \subseteq A
        BY ExportAssumption DEF Deduped
      <3>4. /\ syncs' = [syncs EXCEPT ![<<r, w>>] = "stored"]
            /\ UNCHANGED <<runs, links, candidates>>
        BY <3>1 DEF StoreTransfers
      <3>5. QED  BY <3>2, <3>3, <3>4 DEF TypeOK
    <2>4. CASE \E w \in Wallet : LinkTransfer(r, w)
      BY <2>4 DEF LinkTransfer, TypeOK
    <2>5. CASE \E w \in Wallet : StoreCandidates(r, w)
      <3>1. PICK w \in Wallet : StoreCandidates(r, w)
        BY <2>5
      <3>2. PICK S \in SUBSET seen[<<r, w>>] : candidates' = candidates \cup {<<r, w, p[1]>> : p \in S}
        BY <3>1 DEF StoreCandidates
      <3>3. {<<r, w, p[1]>> : p \in S} \subseteq Run \X Wallet \X Transfer
        <4>1. \A p \in S : p[1] \in Transfer
          BY DEF TypeOK
        <4>2. QED  BY <4>1
      <3>4. UNCHANGED <<runs, syncs, seen, transactions, links>>
        BY <3>1 DEF StoreCandidates
      <3>5. QED  BY <3>2, <3>3, <3>4 DEF TypeOK
    <2>6. QED  BY <2>1, <2>2, <2>3, <2>4, <2>5 DEF Writes
  <1>3. QED  BY <1>1, <1>2 DEF TypeOK, exports

LEMMA CallType ==
  ASSUME TypeOK, NEW e \in Export, NEW who \in Server \cup {"command"}, NEW f \in SUBSET Run,
         Call(e, who, f),
         pc' \in [Export -> {"idle"} \cup Live \cup Over],
         jobs' \in [Export -> {"none", "queued", "running", "succeeded", "failed"}],
         faults' \in 0..MaxFaults
  PROVE  TypeOK'
  BY DEF TypeOK, Call, tables

LEMMA BeginsType ==
  ASSUME TypeOK, NEW e \in Export, Begins(e)
  PROVE  TypeOK'
  <1>1. CASE \E r \in Run : CreateExportJob(e, r)
    <2>1. PICK r \in Run : CreateExportJob(e, r)
      BY <1>1
    <2>2. faults' \in 0..MaxFaults
      BY <2>1, FaultType DEF CreateExportJob, TypeOK
    <2>3. pc' \in [Export -> {"idle"} \cup Live \cup Over]
      BY <2>1 DEF CreateExportJob, TypeOK, Live, Over
    <2>4. jobs' \in [Export -> {"none", "queued", "running", "succeeded", "failed"}]
      BY <2>1 DEF CreateExportJob, TypeOK
    <2>5. Call(e, "job", {r})
      BY <2>1 DEF CreateExportJob
    <2>6. QED  BY <2>2, <2>3, <2>4, <2>5, CallType DEF Server
  <1>2. ASSUME NEW who \in {"generate", "command"}, NEW f \in SUBSET Run, Call(e, who, f),
               pc' = [pc EXCEPT ![e] = "reading"], UNCHANGED <<jobs, faults>>
        PROVE  TypeOK'
    <2>1. pc' \in [Export -> {"idle"} \cup Live \cup Over]
      BY <1>2 DEF TypeOK, Live
    <2>2. QED  BY <1>2, <2>1, CallType DEF TypeOK, Server
  <1>3. CASE \E r \in Run : Generate(e, r)
    BY <1>2, <1>3 DEF Generate
  <1>4. CASE \E f \in Window \cup {{r} : r \in Run} : ExportCommand(e, f)
    <2>1. ASSUME NEW f \in Window \cup {{r} : r \in Run}  PROVE f \in SUBSET Run
      <3>1. CASE f \in Window
        BY <3>1, ExportAssumption
      <3>2. CASE \E r \in Run : f = {r}
        BY <3>2
      <3>3. QED  BY <3>1, <3>2
    <2>2. PICK f \in SUBSET Run : ExportCommand(e, f)
      BY <1>4, <2>1
    <2>3. QED  BY <1>2, <2>2 DEF ExportCommand
  <1>5. QED  BY <1>1, <1>3, <1>4 DEF Begins

\* what the steps of an export leave alone
LEMMA ReturnType ==
  ASSUME TypeOK, NEW e \in Export, NEW ok \in BOOLEAN, Return(e, ok)
  PROVE  pc' \in [Export -> {"idle"} \cup Live \cup Over]
  BY DEF TypeOK, Return, Live, Over

LEMMA UpdateType ==
  ASSUME TypeOK, NEW e \in Export,
         NEW status \in {"running", "succeeded", "failed"}, Update(e, status)
  PROVE  /\ jobs' \in [Export -> {"none", "queued", "running", "succeeded", "failed"}]
         /\ faults' \in 0..MaxFaults
  <1>1. jobs' \in [Export -> {"none", "queued", "running", "succeeded", "failed"}]
    BY DEF TypeOK, Update
  <1>2. faults' \in 0..MaxFaults
    BY FaultType DEF TypeOK, Update
  <1>3. QED  BY <1>1, <1>2

LEMMA ListType ==
  ASSUME TypeOK, NEW e \in Export, next[e] \in 1..Len(Query), ListForExport(e)
  PROVE  TypeOK'
  <1> DEFINE t == Query[next[e]]
  <1>1. t \in Table
    BY QueriesAreTables
  <1>2. PICK rows \in Answers(t, filter[e]) : got' = [got EXCEPT ![e][t] = rows]
    BY DEF ListForExport
  <1>3. Lines(rows) \subseteq RowOf[t]
    <2>1. filter[e] \in SUBSET Run
      BY DEF TypeOK
    <2> HIDE DEF t
    <2>2. Lines(rows) = Rows(t, filter[e])
      BY <1>1, <1>2, AnswersAreRows
    <2>3. QED  BY <1>1, <2>1, <2>2, RowType
  <1>4. /\ DOMAIN got' = Export
        /\ \A f \in Export : /\ DOMAIN got'[f] = Table
                              /\ \A table \in Table : Lines(got'[f][table]) \subseteq RowOf[table]
    <2> HIDE DEF t
    <2>1. QED  BY <1>1, <1>2, <1>3 DEF TypeOK
  <1>5. pc' \in [Export -> {"idle"} \cup Live \cup Over] /\ next' \in [Export -> 1..Manifest]
    <2>1. NextFile(0) \in 1..Manifest /\ Manifest = 9 /\ Len(Query) = 5
      BY NextFileType DEF Manifest, Artifacts, HealthArtifacts, Query
    <2>2. pc' \in {pc, [pc EXCEPT ![e] = "writing"]}
      BY DEF ListForExport
    <2>3. next' \in {[next EXCEPT ![e] = NextFile(0)], [next EXCEPT ![e] = next[e] + 1]}
      BY DEF ListForExport
    <2>4. next[e] + 1 \in 1..Manifest
      BY <2>1
    <2>5. pc' \in [Export -> {"idle"} \cup Live \cup Over]
      BY <2>2 DEF TypeOK, Live
    <2>6. next' \in [Export -> 1..Manifest]
      BY <2>1, <2>3, <2>4 DEF TypeOK
    <2>7. QED  BY <2>5, <2>6
  <1>6. UNCHANGED <<tables, jobs, caller, filter, open, files, faults>>
    BY DEF ListForExport
  <1>7. QED  BY <1>4, <1>5, <1>6 DEF TypeOK, tables

LEMMA StepType ==
  ASSUME TypeOK, NEW e \in Export, Step(e),
         pc[e] = "reading" => next[e] \in 1..Len(Query)
  PROVE  TypeOK'
  <1>1. CASE BeginJob(e)
    <2>1. pc' \in [Export -> {"idle"} \cup Live \cup Over]
      BY <1>1 DEF BeginJob, TypeOK, Live
    <2>2. QED  BY <1>1, <2>1, UpdateType DEF BeginJob, TypeOK, tables
  <1>2. CASE EndJob(e)
    <2>1. pc' \in [Export -> {"idle"} \cup Live \cup Over]
      BY <1>2 DEF EndJob, TypeOK, Over
    <2>2. Result(e) \in {"running", "succeeded", "failed"}
      BY DEF Result
    <2>3. QED  BY <1>2, <2>1, <2>2, UpdateType DEF EndJob, TypeOK, tables
  <1>3. CASE ReadFails(e)
    BY <1>3, ReturnType, FaultType DEF ReadFails, TypeOK, tables
  <1>4. CASE OpenFile(e)
    BY <1>4 DEF OpenFile, TypeOK, tables
  <1>5. CASE WriteFile(e)
    <2>1. CASE next[e] = Manifest
      BY <1>5, <2>1, ReturnType DEF WriteFile, TypeOK, tables
    <2>2. CASE next[e] # Manifest
      <3>1. NextFile(next[e]) \in 1..Manifest
        BY <2>2, NextFileType DEF TypeOK, Manifest, Artifacts, HealthArtifacts
      <3>2. QED  BY <1>5, <2>2, <3>1 DEF WriteFile, TypeOK, tables
    <2>3. QED  BY <2>1, <2>2
  <1>6. CASE WriteFails(e)
    BY <1>6, ReturnType, FaultType DEF WriteFails, TypeOK, tables
  <1>7. CASE ListForExport(e)
    BY <1>7, ListType DEF ListForExport
  <1>8. QED  BY <1>1, <1>2, <1>3, <1>4, <1>5, <1>6, <1>7 DEF Step

LEMMA StopType ==
  ASSUME TypeOK, NEW E, Stop(E)
  PROVE  TypeOK'
  <1>1. faults' \in 0..MaxFaults
    BY FaultType DEF Stop, TypeOK
  <1>2. pc' \in [Export -> {"idle"} \cup Live \cup Over] /\ open' \in [Export -> BOOLEAN]
    BY DEF Stop, TypeOK, Over
  <1>3. QED  BY <1>1, <1>2 DEF Stop, TypeOK, tables

-----------------------------------------------------------------------------
(* The invariant.                                                          *)

\* a call that has not begun is at its first query, one that reads at one
Progress(e) ==
  /\ pc[e] \in {"idle", "posted"} => next[e] = 1
  /\ pc[e] = "reading" => next[e] \in 1..Len(Query)

\* a candidate is of a sync that is there, and of a transfer it was shown and
\* has linked
Stored(c) ==
  /\ syncs[<<c[1], c[2]>>] # "none"
  /\ \E f \in Fingerprint : <<c[3], f>> \in seen[<<c[1], c[2]>>] /\ <<c[2], f>> \in links

\* each row of transactions is as some sync was shown it, and each fingerprint
\* that a sync was shown has a row
TablesInv ==
  /\ \A k \in Run \X Wallet : syncs[k] \in {"none", "begun"} => seen[k] = {}
  /\ transactions \subseteq Sightings
  /\ \A p \in Sightings : \E q \in transactions : q[2] = p[2]
  /\ \A c \in candidates : Stored(c)

\* what an export has seen is still so, or was shown to a sync
Seen(e) ==
  /\ \A r \in Run : <<r, "ended">> \in Lines(got[e].runs) => runs[r] = "ended"
  /\ HasRead(e, "candidates") => Lines(got[e].candidates) \subseteq CandidatesOf(filter[e])
  /\ HasRead(e, "explanations") =>
       \A x \in Lines(got[e].explanations) :
         Key(x) \in CandidatesOf(filter[e]) /\ <<x[3], x[4]>> \in Sightings

\* EndedMeansWhole of one export and one run
Whole(e, r) ==
  <<r, "ended">> \in Lines(got[e].runs) =>
    /\ HasRead(e, "syncs") =>
         Of(r, Lines(got[e].syncs)) = Of(r, WalletSyncRuns(filter[e]))
    /\ HasRead(e, "candidates") =>
         Of(r, Lines(got[e].candidates)) = Of(r, CandidatesOf(filter[e]))
    /\ HasRead(e, "summaries") =>
         Of(r, Lines(got[e].summaries)) = Of(r, WalletSummaries(filter[e]))

\* CandidatesExplained of one export
Explained(e) ==
  /\ HasRead(e, "explanations") =>
       \A c \in Lines(got[e].candidates) :
         Steady(c[3]) =>
           \E x \in Lines(got[e].explanations) :
             {y \in Lines(got[e].explanations) : Key(y) = c} = {x}
  /\ HasRead(e, "summaries") =>
       \A c \in Lines(got[e].candidates) :
         \E s \in Lines(got[e].summaries) :
           /\ <<s[1], s[2]>> = <<c[1], c[2]>>
           /\ s[3] >= Cardinality({d \in Lines(got[e].candidates) :
                                     <<d[1], d[2]>> = <<c[1], c[2]>>})

ShowsTrue(e) == Seen(e) /\ Explained(e) /\ \A r \in Run : Whole(e, r)

IInv ==
  /\ TypeOK
  /\ TablesInv
  /\ \A e \in Export : Progress(e) /\ ShowsTrue(e)

-----------------------------------------------------------------------------
(* How far an export has read.                                             *)

LEMMA ReadBy ==
  ASSUME NEW n \in 0..5
  PROVE  /\ (\E i \in 1..n : Query[i] = "syncs") <=> n >= 2
         /\ (\E i \in 1..n : Query[i] = "candidates") <=> n >= 3
         /\ (\E i \in 1..n : Query[i] = "explanations") <=> n >= 4
         /\ (\E i \in 1..n : Query[i] = "summaries") <=> n >= 5
  BY DEF Query

LEMMA WhatIsRead ==
  ASSUME NEW e \in Export, Progress(e)
  PROVE  /\ Answered(e) \in 0..5
         /\ HasRead(e, "syncs") <=> Answered(e) >= 2
         /\ HasRead(e, "candidates") <=> Answered(e) >= 3
         /\ HasRead(e, "explanations") <=> Answered(e) >= 4
         /\ HasRead(e, "summaries") <=> Answered(e) >= 5
  <1>1. Len(Query) = 5
    BY DEF Query
  <1>2. Answered(e) \in 0..5
    BY <1>1 DEF Answered, Progress
  <1>3. QED  BY <1>2, ReadBy DEF HasRead

\* a step of e that reads nothing
Keeps(e) ==
  /\ got'[e] = got[e]
  /\ Answered(e)' \in {0, Answered(e)}
  /\ Answered(e)' # 0 => filter'[e] = filter[e]

LEMMA KeepsShows ==
  ASSUME NEW e \in Export, UNCHANGED tables, Keeps(e), ShowsTrue(e)
  PROVE  ShowsTrue(e)'
  <1>1. ASSUME NEW t \in Table, HasRead(e, t)'
        PROVE  HasRead(e, t) /\ filter'[e] = filter[e]
    BY <1>1 DEF Keeps, HasRead
  <1>2. Seen(e)'
    BY <1>1 DEF ShowsTrue, Seen, Keeps, tables, CandidatesOf, Sightings, Table
  <1>3. \A t : Steady(t)' <=> Steady(t)
    BY DEF Steady, Sightings, tables
  <1>4. Explained(e)'
    BY <1>1, <1>3 DEF ShowsTrue, Explained, Keeps, Table
  <1>5. ASSUME NEW r \in Run  PROVE Whole(e, r)'
    BY <1>1 DEF ShowsTrue, Whole, Keeps, tables, CandidatesOf, WalletSyncRuns,
                WalletSummaries, SyncsOf, Table
  <1>6. QED  BY <1>2, <1>4, <1>5 DEF ShowsTrue

-----------------------------------------------------------------------------
(* Runs write beside the exports.                                          *)

\* what a statement of run r leaves as it was
LEMMA WritesSpare ==
  ASSUME TypeOK, NEW r \in Run, Writes(r)
  PROVE  /\ UNCHANGED exports
         /\ runs[r] # "ended"
         /\ \A q \in Run : q # r => runs'[q] = runs[q]
         /\ \A k \in Run \X Wallet : k[1] # r => syncs'[k] = syncs[k]
         /\ candidates \subseteq candidates'
         /\ \A c \in candidates' : c \in candidates \/ c[1] = r
  <1>1. CASE BeginRun(r) \/ EndRun(r)
    BY <1>1 DEF BeginRun, EndRun, TypeOK
  <1>2. CASE \E w \in Wallet : BeginSync(r, w) \/ StoreTransfers(r, w) \/ EndSync(r, w)
    <2>1. PICK w \in Wallet : BeginSync(r, w) \/ StoreTransfers(r, w) \/ EndSync(r, w)
      BY <1>2
    <2>2. \E stage : syncs' = [syncs EXCEPT ![<<r, w>>] = stage]
      BY <2>1 DEF BeginSync, StoreTransfers, EndSync
    <2>3. runs[r] = "running" /\ UNCHANGED <<runs, candidates, exports>>
      BY <2>1 DEF BeginSync, StoreTransfers, EndSync
    <2>4. QED  BY <2>2, <2>3 DEF TypeOK
  <1>3. CASE \E w \in Wallet : LinkTransfer(r, w)
    BY <1>3 DEF LinkTransfer
  <1>4. CASE \E w \in Wallet : StoreCandidates(r, w)
    <2>1. PICK w \in Wallet : StoreCandidates(r, w)
      BY <1>4
    <2>2. PICK S : candidates' = candidates \cup {<<r, w, p[1]>> : p \in S}
      BY <2>1 DEF StoreCandidates
    <2>3. runs[r] = "running" /\ UNCHANGED <<runs, syncs, exports>>
      BY <2>1 DEF StoreCandidates
    <2>4. QED  BY <2>2, <2>3
  <1>5. QED  BY <1>1, <1>2, <1>3, <1>4 DEF Writes

\* a set of natural numbers that is not empty has a least member
LEMMA LeastOf ==
  ASSUME NEW S \in SUBSET Nat, S # {}
  PROVE  \E n \in S : \A m \in S : n <= m
  <1>1. PICK n \in S : \A m \in S : <<m, n>> \notin OpToRel(<, Nat)
    BY NatLessThanWellFounded, WFMin, Zenon
  <1>2. \A m \in S : ~(m < n)
    BY <1>1, Zenon DEF OpToRel
  <1>3. QED  BY <1>2

\* dedupeTransfers leaves one of each fingerprint
LEMMA DedupedKeeps ==
  ASSUME NEW A \in SUBSET (Transfer \X Fingerprint), NEW p \in A
  PROVE  \E q \in Deduped(A) : q[2] = p[2]
  <1> DEFINE S == {t \in Transfer : <<t, p[2]>> \in A}
  <1>1. S \in SUBSET Nat /\ p[1] \in S
    <2>1. p = <<p[1], p[2]>> /\ p[1] \in Transfer
      OBVIOUS
    <2>2. QED  BY <2>1, ExportAssumption
  <1>2. PICK n \in S : \A m \in S : n <= m
    <2> HIDE DEF S
    <2>1. QED  BY <1>1, LeastOf
  <1>3. ASSUME NEW q \in A, q[2] = p[2]  PROVE n <= q[1]
    <2>1. q = <<q[1], p[2]>> /\ q[1] \in Transfer
      BY <1>3
    <2>2. QED  BY <1>2, <2>1
  <1>4. <<n, p[2]>> \in Deduped(A)
    BY <1>2, <1>3 DEF Deduped
  <1>5. QED  BY <1>4

\* what syncs were shown and what is linked stays, and TablesInv with it
LEMMA WritesTables ==
  ASSUME TypeOK, TablesInv, NEW r \in Run, Writes(r)
  PROVE  TablesInv' /\ Sightings \subseteq Sightings'
  <1>1. CASE BeginRun(r) \/ EndRun(r)
    BY <1>1 DEF BeginRun, EndRun, TablesInv, Sightings, Stored
  <1>2. CASE \E w \in Wallet : BeginSync(r, w) \/ EndSync(r, w)
    <2>1. PICK w \in Wallet : BeginSync(r, w) \/ EndSync(r, w)
      BY <1>2
    <2>2. /\ UNCHANGED <<seen, transactions, links, candidates>>
          /\ \E stage \in {"begun", "ended"} : syncs' = [syncs EXCEPT ![<<r, w>>] = stage]
          /\ syncs[<<r, w>>] # "none" \/ syncs' = [syncs EXCEPT ![<<r, w>>] = "begun"]
          /\ syncs[<<r, w>>] = "none" \/ syncs' = [syncs EXCEPT ![<<r, w>>] = "ended"]
      BY <2>1 DEF BeginSync, EndSync
    <2>3. Sightings' = Sightings
      BY <2>2 DEF Sightings
    <2>4. \A k \in Run \X Wallet : /\ syncs[k] # "none" => syncs'[k] # "none"
                                   /\ syncs'[k] \in {"none", "begun"} => syncs[k] \in {"none", "begun"}
      BY <2>2 DEF TypeOK
    <2>5. \A c \in candidates : <<c[1], c[2]>> \in Run \X Wallet
      BY DEF TypeOK
    <2>6. QED  BY <2>2, <2>3, <2>4, <2>5 DEF TablesInv, Stored
  <1>3. CASE \E w \in Wallet : StoreTransfers(r, w)
    <2>1. PICK w \in Wallet : StoreTransfers(r, w)
      BY <1>3
    <2> DEFINE k0 == <<r, w>>
    <2>2. PICK A \in Reported :
            /\ seen' = [seen EXCEPT ![k0] = A]
            /\ transactions' = {p \in transactions : \A q \in A : q[2] # p[2]} \cup Deduped(A)
      BY <2>1 DEF StoreTransfers
    <2>3. /\ syncs[k0] = "begun" /\ syncs' = [syncs EXCEPT ![k0] = "stored"]
          /\ k0 \in Run \X Wallet /\ UNCHANGED <<links, candidates>>
      BY <2>1 DEF StoreTransfers
    <2>4. A \in SUBSET (Transfer \X Fingerprint) /\ Deduped(A) \subseteq A
      BY ExportAssumption DEF Deduped
    <2>5. seen[k0] = {}
      BY <2>3 DEF TablesInv
    <2> HIDE DEF k0
    <2>6. \A k \in Run \X Wallet : /\ seen[k] \subseteq seen'[k]
                                   /\ k # k0 => seen'[k] = seen[k] /\ syncs'[k] = syncs[k]
                                   /\ syncs[k] # "none" => syncs'[k] # "none"
      BY <2>2, <2>3, <2>5 DEF TypeOK
    <2>7. seen'[k0] = A /\ syncs'[k0] = "stored"
      BY <2>2, <2>3 DEF TypeOK
    <2>8. Sightings' = Sightings \cup A
      BY <2>3, <2>5, <2>6, <2>7 DEF Sightings
    <2>9. transactions' \subseteq Sightings'
      BY <2>2, <2>4, <2>8 DEF TablesInv
    <2>10. ASSUME NEW p \in Sightings'  PROVE \E q \in transactions' : q[2] = p[2]
      <3>1. CASE \E a \in A : a[2] = p[2]
        <4>1. PICK q \in Deduped(A) : q[2] = p[2]
          BY <2>4, <3>1, DedupedKeeps
        <4>2. QED  BY <2>2, <4>1
      <3>2. CASE \A a \in A : a[2] # p[2]
        <4>1. p \in Sightings
          BY <2>8, <3>2
        <4>2. PICK q \in transactions : q[2] = p[2]
          BY <4>1 DEF TablesInv
        <4>3. QED  BY <2>2, <3>2, <4>2
      <3>3. QED  BY <3>1, <3>2
    <2>11. ASSUME NEW c \in candidates'  PROVE Stored(c)'
      <3>1. c \in candidates /\ <<c[1], c[2]>> \in Run \X Wallet
        BY <2>3 DEF TypeOK
      <3>2. QED  BY <2>3, <2>6, <3>1 DEF TablesInv, Stored
    <2>12. \A k \in Run \X Wallet : syncs'[k] \in {"none", "begun"} => seen'[k] = {}
      BY <2>6, <2>7 DEF TablesInv
    <2>13. QED  BY <2>8, <2>9, <2>10, <2>11, <2>12 DEF TablesInv
  <1>4. CASE \E w \in Wallet : LinkTransfer(r, w)
    <2>1. UNCHANGED <<syncs, seen, transactions, candidates>> /\ links \subseteq links'
      BY <1>4 DEF LinkTransfer
    <2>2. Sightings' = Sightings
      BY <2>1 DEF Sightings
    <2>3. QED  BY <2>1, <2>2 DEF TablesInv, Stored
  <1>5. CASE \E w \in Wallet : StoreCandidates(r, w)
    <2>1. PICK w \in Wallet : StoreCandidates(r, w)
      BY <1>5
    <2>2. PICK S \in SUBSET {p \in seen[<<r, w>>] : <<w, p[2]>> \in links} :
            candidates' = candidates \cup {<<r, w, p[1]>> : p \in S}
      BY <2>1 DEF StoreCandidates
    <2>3. UNCHANGED <<syncs, seen, transactions, links>> /\ syncs[<<r, w>>] = "stored"
      BY <2>1 DEF StoreCandidates
    <2>4. Sightings' = Sightings
      BY <2>3 DEF Sightings
    <2>5. ASSUME NEW p \in S  PROVE Stored(<<r, w, p[1]>>)'
      <3>1. p \in seen[<<r, w>>] /\ <<w, p[2]>> \in links
        BY <2>2
      <3>2. p = <<p[1], p[2]>> /\ p[2] \in Fingerprint
        BY <3>1 DEF TypeOK
      <3>3. QED  BY <2>3, <3>1, <3>2 DEF Stored
    <2>6. \A c \in candidates : Stored(c)'
      BY <2>3 DEF TablesInv, Stored
    <2>7. \A c \in candidates' : Stored(c)'
      BY <2>2, <2>5, <2>6
    <2>8. QED  BY <2>3, <2>4, <2>7 DEF TablesInv
  <1>6. QED  BY <1>1, <1>2, <1>3, <1>4, <1>5 DEF Writes

\* a transfer that is steady was so before
LEMMA SteadyBefore ==
  ASSUME Sightings \subseteq Sightings', NEW t, Steady(t)'
  PROVE  Steady(t)
  BY DEF Steady

LEMMA WritesShows ==
  ASSUME TypeOK, TablesInv, NEW r \in Run, Writes(r), NEW e \in Export, ShowsTrue(e)
  PROVE  ShowsTrue(e)'
  <1>1. UNCHANGED <<got, filter>> /\ \A t \in Table : HasRead(e, t)' <=> HasRead(e, t)
    <2>1. UNCHANGED <<got, filter, pc, next>>
      BY WritesSpare DEF exports
    <2>2. QED  BY <2>1 DEF HasRead, Answered
  <1>2. \A q \in Run : runs[q] = "ended" => q # r /\ runs'[q] = "ended"
    BY WritesSpare
  <1>3. Seen(e)'
    <2>1. Sightings \subseteq Sightings' /\ candidates \subseteq candidates'
      BY WritesTables, WritesSpare
    <2>2. QED  BY <1>1, <1>2, <2>1 DEF ShowsTrue, Seen, CandidatesOf, Table
  <1>4. Explained(e)'
    <2>1. \A t : Steady(t)' => Steady(t)
      BY WritesTables, SteadyBefore
    <2>2. QED  BY <1>1, <2>1 DEF ShowsTrue, Explained, Table
  <1>5. ASSUME NEW q \in Run  PROVE Whole(e, q)'
    <2>1. SUFFICES ASSUME <<q, "ended">> \in Lines(got[e].runs)  PROVE Whole(e, q)'
      BY <1>1 DEF Whole
    <2>2. q # r
      BY <1>2, <2>1 DEF ShowsTrue, Seen
    <2>3. filter[e] \in SUBSET Run
      BY DEF TypeOK
    <2>4. \A k \in Run \X Wallet : k[1] = q => syncs'[k] = syncs[k]
      BY <2>2, WritesSpare
    <2>5. \A c : c[1] = q => (c \in candidates' <=> c \in candidates)
      BY <2>2, WritesSpare
    <2>6. Of(q, WalletSyncRuns(filter[e]))' = Of(q, WalletSyncRuns(filter[e]))
      BY <1>1, <2>3, <2>4 DEF Of, WalletSyncRuns, SyncsOf, Shown
    <2>7. Of(q, CandidatesOf(filter[e]))' = Of(q, CandidatesOf(filter[e]))
      BY <1>1, <2>5 DEF Of, CandidatesOf
    <2>8. Of(q, WalletSummaries(filter[e]))' = Of(q, WalletSummaries(filter[e]))
      <3>1. ASSUME NEW k \in Run \X Wallet, k[1] = q
            PROVE  {c \in candidates' : <<c[1], c[2]>> = k} = {c \in candidates : <<c[1], c[2]>> = k}
        BY <2>5, <3>1
      <3> DEFINE Row(k) == <<k[1], k[2], Cardinality({c \in candidates : <<c[1], c[2]>> = k}),
                             Shown(syncs[k])>>
      <3>2. ASSUME NEW k \in Run \X Wallet, k[1] = q  PROVE Row(k)' = Row(k)
        BY <3>1, <3>2, <2>4 DEF Shown
      <3>3. \A k \in Run \X Wallet : k[1] = q => (k \in SyncsOf(filter[e])' <=> k \in SyncsOf(filter[e]))
        BY <1>1, <2>4 DEF SyncsOf
      <3>4. SyncsOf(filter[e]) \subseteq Run \X Wallet /\ SyncsOf(filter[e])' \subseteq Run \X Wallet
        BY <1>1, <2>3 DEF SyncsOf
      <3>5. /\ WalletSummaries(filter[e]) = {Row(k) : k \in SyncsOf(filter[e])}
            /\ WalletSummaries(filter[e])' = {Row(k)' : k \in SyncsOf(filter[e])'}
        BY DEF WalletSummaries
      <3>6. \A k : Row(k)[1] = k[1] /\ Row(k)'[1] = k[1]
        OBVIOUS
      <3> HIDE DEF Row
      <3>7. QED  BY <3>2, <3>3, <3>4, <3>5, <3>6 DEF Of
    <2>9. QED  BY <1>1, <2>1, <2>6, <2>7, <2>8 DEF ShowsTrue, Whole, Table
  <1>6. QED  BY <1>3, <1>4, <1>5 DEF ShowsTrue

-----------------------------------------------------------------------------
(* An export reads.                                                        *)

\* a candidate whose transfer is steady has one explanation while it is in the
\* tables, and every candidate is counted for its wallet
LEMMA ExplainedNow ==
  ASSUME TypeOK, TablesInv, NEW f \in SUBSET Run
  PROVE  /\ \A c \in CandidatesOf(f) :
              Steady(c[3]) => \E x \in CandidateExplanations(f) :
                                {y \in CandidateExplanations(f) : Key(y) = c} = {x}
         /\ \A x \in CandidateExplanations(f) :
              Key(x) \in CandidatesOf(f) /\ <<x[3], x[4]>> \in Sightings
         /\ \A C \in SUBSET CandidatesOf(f) : \A c \in C :
              \E s \in WalletSummaries(f) :
                /\ <<s[1], s[2]>> = <<c[1], c[2]>>
                /\ s[3] >= Cardinality({d \in C : <<d[1], d[2]>> = <<c[1], c[2]>>})
  <1>1. ASSUME NEW c \in CandidatesOf(f), Steady(c[3])
        PROVE  \E x \in CandidateExplanations(f) :
                 {y \in CandidateExplanations(f) : Key(y) = c} = {x}
    <2>1. c \in Run \X Wallet \X Transfer /\ Stored(c)
      BY DEF CandidatesOf, TablesInv, TypeOK
    <2>2. c[1] \in Run /\ c[2] \in Wallet /\ c[3] \in Transfer /\ c = <<c[1], c[2], c[3]>>
      BY <2>1
    <2>3. PICK g \in Fingerprint : \A p \in Sightings : p[1] = c[3] <=> p[2] = g
      BY <1>1 DEF Steady
    <2>4. PICK h \in Fingerprint :
            <<c[3], h>> \in seen[<<c[1], c[2]>>] /\ <<c[2], h>> \in links
      BY <2>1 DEF Stored
    <2>5. <<c[3], h>> \in Sightings
      BY <2>2, <2>4 DEF Sightings
    <2>6. h = g
      BY <2>3, <2>5
    <2>7. PICK q \in transactions : q[2] = h
      BY <2>5 DEF TablesInv
    <2>8. q[1] = c[3] /\ q = <<c[3], g>>
      BY <2>3, <2>6, <2>7 DEF TablesInv, TypeOK
    <2> DEFINE x == <<c[1], c[2], c[3], g>>
    <2>9. x \in CandidateExplanations(f) /\ Key(x) = c
      BY <2>2, <2>4, <2>6, <2>8 DEF CandidateExplanations, Key
    <2>10. ASSUME NEW y \in CandidateExplanations(f), Key(y) = c  PROVE y = x
      <3>1. y = <<c[1], c[2], c[3], y[4]>> /\ <<c[3], y[4]>> \in transactions
        BY <2>2, <2>10 DEF CandidateExplanations, Key
      <3>2. y[4] = g
        BY <2>3, <3>1 DEF TablesInv
      <3>3. QED  BY <3>1, <3>2
    <2> HIDE DEF x
    <2>11. QED  BY <2>9, <2>10
  <1>2. ASSUME NEW x \in CandidateExplanations(f)
        PROVE  Key(x) \in CandidatesOf(f) /\ <<x[3], x[4]>> \in Sightings
    BY DEF CandidateExplanations, TablesInv
  <1>3. ASSUME NEW C \in SUBSET CandidatesOf(f), NEW c \in C
        PROVE  \E s \in WalletSummaries(f) :
                 /\ <<s[1], s[2]>> = <<c[1], c[2]>>
                 /\ s[3] >= Cardinality({d \in C : <<d[1], d[2]>> = <<c[1], c[2]>>})
    <2> DEFINE k == <<c[1], c[2]>>
               All == {d \in candidates : <<d[1], d[2]>> = k}
               Some == {d \in C : <<d[1], d[2]>> = k}
    <2>1. c \in candidates /\ c[1] \in f
      BY DEF CandidatesOf
    <2>2. k \in SyncsOf(f)
      BY <2>1 DEF SyncsOf, TablesInv, Stored, TypeOK
    <2>3. <<k[1], k[2], Cardinality(All), Shown(syncs[k])>> \in WalletSummaries(f)
      BY <2>2 DEF WalletSummaries
    <2>4. Some \subseteq All
      BY DEF CandidatesOf
    <2>5. All \in SUBSET (Run \X Wallet \X Transfer)
      BY DEF TypeOK
    <2>6. Some \in SUBSET (Run \X Wallet \X Transfer)
      BY <2>4, <2>5
    <2>7. Cardinality(All) \in Nat /\ Cardinality(Some) \in Nat
      BY <2>5, <2>6, CandidatesAreFinite
    <2>8. Cardinality(Some) <= Cardinality(All)
      <3> HIDE DEF Some, All
      <3>1. QED  BY <2>4, <2>5, CandidatesAreFinite, FS_Subset
    <2>9. QED  BY <2>3, <2>7, <2>8
  <1>4. QED  BY <1>1, <1>2, <1>3

LEMMA ListProgress ==
  ASSUME TypeOK, NEW e \in Export, Progress(e), ListForExport(e)
  PROVE  /\ Progress(e)'
         /\ Answered(e) = next[e] - 1 /\ Answered(e)' = next[e]
  <1>1. next[e] \in 1..5 /\ Len(Query) = 5 /\ pc[e] = "reading"
    BY DEF ListForExport, Progress, Query
  <1>2. CASE next[e] = 5
    <2>1. pc'[e] = "writing"
      BY <1>1, <1>2 DEF ListForExport, TypeOK
    <2>2. QED  BY <1>1, <1>2, <2>1 DEF Progress, Answered
  <1>3. CASE next[e] # 5
    <2>1. pc'[e] = "reading" /\ next'[e] = next[e] + 1
      BY <1>1, <1>3 DEF ListForExport, TypeOK
    <2>2. QED  BY <1>1, <1>3, <2>1 DEF Progress, Answered
  <1>4. QED  BY <1>2, <1>3

LEMMA ListShows ==
  ASSUME TypeOK, TablesInv, NEW e \in Export, Progress(e), ShowsTrue(e), ListForExport(e)
  PROVE  ShowsTrue(e)'
  <1> DEFINE t == Query[next[e]]
             f == filter[e]
  <1>1. f \in SUBSET Run /\ UNCHANGED tables /\ filter'[e] = f
    BY DEF TypeOK, ListForExport
  <1>2. next[e] \in 1..5 /\ Answered(e) = next[e] - 1 /\ Answered(e)' = next[e]
    BY ListProgress DEF ListForExport, Progress, Query
  <1>3. /\ HasRead(e, "syncs") <=> next[e] > 2
        /\ HasRead(e, "candidates") <=> next[e] > 3
        /\ HasRead(e, "explanations") <=> next[e] > 4
        /\ ~HasRead(e, "summaries")
    BY <1>2, WhatIsRead
  <1>4. /\ HasRead(e, "syncs")' <=> next[e] >= 2
        /\ HasRead(e, "candidates")' <=> next[e] >= 3
        /\ HasRead(e, "explanations")' <=> next[e] >= 4
        /\ HasRead(e, "summaries")' <=> next[e] >= 5
    BY <1>2, ReadBy DEF HasRead
  <1>5. t \in Table
    BY <1>2 DEF Query, Table
  <1>6. PICK rows \in Answers(t, f) : got' = [got EXCEPT ![e][t] = rows]
    BY DEF ListForExport
  <1>7. Lines(rows) = Rows(t, f)
    <2> HIDE DEF t, f
    <2>1. QED  BY <1>5, <1>6, AnswersAreRows
  <1>8. Lines(got'[e][t]) = Rows(t, f) /\ \A u \in Table \ {t} : got'[e][u] = got[e][u]
    <2> HIDE DEF t, f
    <2>1. QED  BY <1>5, <1>6, <1>7 DEF TypeOK
  <1>9. /\ IngestionRuns(f)' = IngestionRuns(f) /\ WalletSyncRuns(f)' = WalletSyncRuns(f)
        /\ CandidatesOf(f)' = CandidatesOf(f) /\ WalletSummaries(f)' = WalletSummaries(f)
        /\ Sightings' = Sightings /\ \A u : Steady(u)' <=> Steady(u)
    BY <1>1 DEF tables, IngestionRuns, WalletSyncRuns, CandidatesOf, WalletSummaries, SyncsOf,
                Sightings, Steady
  <1>10. Seen(e)'
    <2>1. CASE next[e] = 1
      <3>1. Lines(got'[e].runs) = IngestionRuns(f)
        BY <1>8, <2>1, WhichRows DEF Query
      <3>2. QED  BY <1>1, <1>4, <2>1, <3>1 DEF Seen, IngestionRuns, tables
    <2>2. CASE next[e] = 3
      <3>1. Lines(got'[e].candidates) = CandidatesOf(f) /\ got'[e].runs = got[e].runs
        BY <1>8, <2>2, WhichRows DEF Query, Table
      <3>2. QED  BY <1>1, <1>4, <1>9, <2>2, <3>1 DEF Seen, ShowsTrue, tables
    <2>3. CASE next[e] = 4
      <3>1. /\ Lines(got'[e].explanations) = CandidateExplanations(f)
            /\ got'[e].runs = got[e].runs /\ got'[e].candidates = got[e].candidates
        BY <1>8, <2>3, WhichRows DEF Query, Table
      <3>2. \A x \in CandidateExplanations(f) :
              Key(x) \in CandidatesOf(f) /\ <<x[3], x[4]>> \in Sightings
        BY <1>1, ExplainedNow
      <3>3. QED  BY <1>1, <1>3, <1>4, <1>9, <2>3, <3>1, <3>2 DEF Seen, ShowsTrue, tables
    <2>4. CASE next[e] \in {2, 5}
      <3>1. /\ got'[e].runs = got[e].runs /\ got'[e].candidates = got[e].candidates
            /\ got'[e].explanations = got[e].explanations
        BY <1>8, <2>4 DEF Query, Table
      <3>2. QED  BY <1>1, <1>3, <1>4, <1>9, <2>4, <3>1 DEF Seen, ShowsTrue, tables
    <2>5. QED  BY <1>2, <2>1, <2>2, <2>3, <2>4
  <1>11. Explained(e)'
    <2>1. CASE next[e] \in 1..3
      BY <1>4, <2>1 DEF Explained
    <2>2. CASE next[e] = 4
      <3>1. /\ Lines(got'[e].explanations) = CandidateExplanations(f)
            /\ got'[e].candidates = got[e].candidates
        BY <1>8, <2>2, WhichRows DEF Query, Table
      <3>2. Lines(got[e].candidates) \subseteq CandidatesOf(f)
        BY <1>3, <2>2 DEF Seen, ShowsTrue
      <3>3. \A c \in CandidatesOf(f) :
              Steady(c[3]) => \E x \in CandidateExplanations(f) :
                                {y \in CandidateExplanations(f) : Key(y) = c} = {x}
        BY <1>1, ExplainedNow
      <3>4. QED  BY <1>4, <1>9, <2>2, <3>1, <3>2, <3>3 DEF Explained
    <2>3. CASE next[e] = 5
      <3>1. /\ Lines(got'[e].summaries) = WalletSummaries(f)
            /\ got'[e].candidates = got[e].candidates
            /\ got'[e].explanations = got[e].explanations
        BY <1>8, <2>3, WhichRows DEF Query, Table
      <3>2. Lines(got[e].candidates) \in SUBSET CandidatesOf(f)
        BY <1>3, <2>3 DEF Seen, ShowsTrue
      <3>3. \A c \in Lines(got[e].candidates) :
              \E s \in WalletSummaries(f) :
                /\ <<s[1], s[2]>> = <<c[1], c[2]>>
                /\ s[3] >= Cardinality({d \in Lines(got[e].candidates) :
                                          <<d[1], d[2]>> = <<c[1], c[2]>>})
        BY <1>1, <3>2, ExplainedNow
      <3>4. \A c \in Lines(got[e].candidates) :
              Steady(c[3]) => \E x \in Lines(got[e].explanations) :
                                {y \in Lines(got[e].explanations) : Key(y) = c} = {x}
        BY <1>3, <2>3 DEF Explained, ShowsTrue
      <3>5. QED  BY <1>9, <3>1, <3>3, <3>4 DEF Explained
    <2>4. QED  BY <1>2, <2>1, <2>2, <2>3
  <1>12. ASSUME NEW r \in Run  PROVE Whole(e, r)'
    <2>1. CASE next[e] = 1
      BY <1>4, <2>1 DEF Whole
    <2>2. CASE next[e] # 1
      <3>1. got'[e].runs = got[e].runs
        BY <1>2, <1>8, <2>2 DEF Query, Table
      <3>2. SUFFICES ASSUME <<r, "ended">> \in Lines(got[e].runs)  PROVE Whole(e, r)'
        BY <3>1 DEF Whole
      <3>3. HasRead(e, "syncs")' => Of(r, Lines(got'[e].syncs)) = Of(r, WalletSyncRuns(f))
        <4>1. CASE next[e] = 2
          BY <1>8, <4>1, WhichRows DEF Query
        <4>2. CASE next[e] # 2
          <5>1. got'[e].syncs = got[e].syncs
            BY <1>2, <1>8, <4>2 DEF Query, Table
          <5>2. QED  BY <1>2, <1>3, <1>4, <3>2, <4>2, <5>1 DEF ShowsTrue, Whole
        <4>3. QED  BY <4>1, <4>2
      <3>4. HasRead(e, "candidates")' => Of(r, Lines(got'[e].candidates)) = Of(r, CandidatesOf(f))
        <4>1. CASE next[e] = 3
          BY <1>8, <4>1, WhichRows DEF Query
        <4>2. CASE next[e] # 3
          <5>1. got'[e].candidates = got[e].candidates
            BY <1>2, <1>8, <4>2 DEF Query, Table
          <5>2. QED  BY <1>2, <1>3, <1>4, <3>2, <4>2, <5>1 DEF ShowsTrue, Whole
        <4>3. QED  BY <4>1, <4>2
      <3>5. HasRead(e, "summaries")' => Of(r, Lines(got'[e].summaries)) = Of(r, WalletSummaries(f))
        <4>1. CASE next[e] = 5
          BY <1>8, <4>1, WhichRows DEF Query
        <4>2. CASE next[e] # 5
          BY <1>2, <1>4, <4>2
        <4>3. QED  BY <4>1, <4>2
      <3>6. QED  BY <1>1, <1>9, <3>3, <3>4, <3>5 DEF Whole, Of
    <2>3. QED  BY <2>1, <2>2
  <1>13. QED  BY <1>10, <1>11, <1>12 DEF ShowsTrue

-----------------------------------------------------------------------------
(* The other steps of an export read nothing.                              *)

LEMMA StepKeeps ==
  ASSUME TypeOK, NEW e \in Export, Progress(e), Step(e), ~ListForExport(e)
  PROVE  Progress(e)' /\ UNCHANGED tables /\ Keeps(e)
  <1>1. UNCHANGED <<tables, got, filter>>
    BY DEF Step, BeginJob, EndJob, ReadFails, OpenFile, WriteFile, WriteFails
  <1>2. CASE BeginJob(e)
    BY <1>2 DEF BeginJob, TypeOK, Progress, Answered, Keeps, Query
  <1>3. CASE EndJob(e)
    BY <1>3 DEF EndJob, TypeOK, Progress, Answered, Keeps, Query
  <1>4. CASE ReadFails(e)
    BY <1>4 DEF ReadFails, Return, TypeOK, Progress, Answered, Keeps, Query
  <1>5. CASE OpenFile(e)
    BY <1>5 DEF OpenFile, TypeOK, Progress, Answered, Keeps, Query
  <1>6. CASE WriteFile(e)
    BY <1>6 DEF WriteFile, Return, TypeOK, Progress, Answered, Keeps, Query
  <1>7. CASE WriteFails(e)
    BY <1>7 DEF WriteFails, Return, TypeOK, Progress, Answered, Keeps, Query
  <1>8. QED  BY <1>1, <1>2, <1>3, <1>4, <1>5, <1>6, <1>7 DEF Step

LEMMA BeginsKeeps ==
  ASSUME TypeOK, NEW e \in Export, Progress(e), Begins(e)
  PROVE  Progress(e)' /\ UNCHANGED tables /\ Keeps(e)
  <1>1. pc[e] = "idle" /\ pc'[e] \in {"posted", "reading", "gone"} /\ UNCHANGED <<tables, got, next>>
    BY DEF Begins, CreateExportJob, Generate, ExportCommand, Call, TypeOK
  <1>2. next[e] = 1 /\ next'[e] = 1
    BY <1>1 DEF Progress
  <1>3. Answered(e)' = 0
    BY <1>1, <1>2 DEF Answered
  <1>4. QED  BY <1>1, <1>2, <1>3 DEF Progress, Keeps, Query

LEMMA StopKeeps ==
  ASSUME TypeOK, NEW E, Stop(E), NEW e \in Export, Progress(e)
  PROVE  Progress(e)' /\ UNCHANGED tables /\ Keeps(e)
  <1>1. pc'[e] \in {"gone", pc[e]} /\ UNCHANGED <<tables, got, next, filter>>
    BY DEF Stop
  <1>2. QED  BY <1>1 DEF Progress, Keeps, Answered

\* a step of one export is none of another
LEMMA OthersKeep ==
  ASSUME TypeOK, NEW e \in Export, Begins(e) \/ Step(e), NEW f \in Export \ {e}, Progress(f)
  PROVE  Progress(f)' /\ Keeps(f)
  <1>1. got'[f] = got[f] /\ filter'[f] = filter[f] /\ next'[f] = next[f] /\ pc'[f] = pc[f]
    <2>1. CASE Begins(e)
      BY <2>1 DEF Begins, CreateExportJob, Generate, ExportCommand, Call, TypeOK
    <2>2. CASE ListForExport(e)
      BY <2>2 DEF ListForExport, TypeOK
    <2>3. CASE BeginJob(e) \/ EndJob(e) \/ OpenFile(e)
      BY <2>3 DEF BeginJob, EndJob, OpenFile, TypeOK
    <2>4. CASE ReadFails(e) \/ WriteFile(e) \/ WriteFails(e)
      BY <2>4 DEF ReadFails, WriteFile, WriteFails, Return, TypeOK
    <2>5. QED  BY <2>1, <2>2, <2>3, <2>4 DEF Step
  <1>2. QED  BY <1>1 DEF Progress, Keeps, Answered

-----------------------------------------------------------------------------
(* The theorems.                                                           *)

LEMMA InitInv == Init => IInv
  <1> SUFFICES ASSUME Init  PROVE IInv
    OBVIOUS
  <1>1. ASSUME NEW e \in Export  PROVE Progress(e) /\ ShowsTrue(e)
    <2>1. pc[e] = "idle" /\ next[e] = 1 /\ got[e] = NoRows
      BY DEF Init
    <2>2. Progress(e) /\ Answered(e) = 0
      BY <2>1 DEF Progress, Answered
    <2>3. ~HasRead(e, "syncs") /\ ~HasRead(e, "candidates")
          /\ ~HasRead(e, "explanations") /\ ~HasRead(e, "summaries")
      BY <2>2, WhatIsRead
    <2>4. Lines(got[e].runs) = {}
      BY <2>1 DEF Lines, NoRows, Table
    <2>5. QED  BY <2>2, <2>3, <2>4 DEF ShowsTrue, Seen, Explained, Whole
  <1>2. TablesInv
    BY DEF Init, TablesInv, Sightings
  <1>3. QED  BY <1>1, <1>2, InitType DEF IInv

\* nothing but Writes and ListForExport needs more than that an export keeps
\* what it has read
LEMMA KeepInv ==
  ASSUME IInv, TypeOK', UNCHANGED tables,
         \A e \in Export : Progress(e)' /\ (Keeps(e) \/ ShowsTrue(e)')
  PROVE  IInv'
  <1>1. TablesInv'
    BY DEF IInv, TablesInv, Sightings, Stored, tables
  <1>2. \A e \in Export : ShowsTrue(e)'
    BY KeepsShows DEF IInv
  <1>3. QED  BY <1>1, <1>2 DEF IInv

LEMMA NextInv ==
  ASSUME IInv, [Next]_vars
  PROVE  IInv'
  <1>1. TypeOK /\ TablesInv /\ \A e \in Export : Progress(e) /\ ShowsTrue(e)
    BY DEF IInv
  <1>2. CASE \E r \in Run : Writes(r)
    <2>1. PICK r \in Run : Writes(r)
      BY <1>2
    <2>2. TypeOK' /\ TablesInv'
      BY <2>1, <1>1, WritesType, WritesTables
    <2>3. \A e \in Export : ShowsTrue(e)'
      BY <2>1, <1>1, WritesShows
    <2>4. \A e \in Export : Progress(e)'
      BY <2>1, <1>1, WritesSpare DEF Progress, exports
    <2>5. QED  BY <2>2, <2>3, <2>4 DEF IInv
  <1>3. CASE \E e \in Export : Begins(e)
    <2>1. PICK e \in Export : Begins(e)
      BY <1>3
    <2>2. TypeOK' /\ UNCHANGED tables /\ Progress(e)' /\ Keeps(e)
      BY <2>1, <1>1, BeginsType, BeginsKeeps
    <2>3. \A f \in Export \ {e} : Progress(f)' /\ Keeps(f)
      BY <2>1, <1>1, OthersKeep
    <2>4. QED  BY <2>2, <2>3, KeepInv
  <1>4. CASE \E e \in Export : Step(e)
    <2>1. PICK e \in Export : Step(e)
      BY <1>4
    <2>2. TypeOK'
      BY <2>1, <1>1, StepType DEF Progress
    <2>3. \A f \in Export \ {e} : Progress(f)' /\ Keeps(f)
      BY <2>1, <1>1, OthersKeep
    <2>4. UNCHANGED tables /\ Progress(e)' /\ (Keeps(e) \/ ShowsTrue(e)')
      <3>1. CASE ListForExport(e)
        <4>1. UNCHANGED tables
          BY <3>1 DEF ListForExport
        <4>2. QED  BY <1>1, <3>1, <4>1, ListProgress, ListShows DEF IInv
      <3>2. CASE ~ListForExport(e)
        BY <1>1, <2>1, <3>2, StepKeeps
      <3>3. QED  BY <3>1, <3>2
    <2>5. QED  BY <2>2, <2>3, <2>4, KeepInv
  <1>5. CASE ServerStops \/ \E e \in Export : CommandStops(e)
    <2>1. PICK E : Stop(E)
      BY <1>5 DEF ServerStops, CommandStops
    <2>2. TypeOK'
      BY <2>1, <1>1, StopType
    <2>3. UNCHANGED tables
      BY <2>1 DEF Stop
    <2>4. \A e \in Export : Progress(e)' /\ Keeps(e)
      BY <2>1, <1>1, StopKeeps
    <2>5. QED  BY <2>2, <2>3, <2>4, KeepInv
  <1>6. CASE UNCHANGED vars
    <2>1. UNCHANGED <<tables, exports, faults>>
      BY <1>6 DEF vars
    <2>2. TypeOK'
      BY <2>1, <1>1 DEF TypeOK, tables, exports
    <2>3. \A e \in Export : Progress(e)' /\ Keeps(e)
      BY <2>1, <1>1 DEF exports, Progress, Keeps, Answered
    <2>4. QED  BY <2>1, <2>2, <2>3, KeepInv
  <1>7. QED  BY <1>2, <1>3, <1>4, <1>5, <1>6 DEF Next

THEOREM Invariant == Spec => []IInv
  BY InitInv, NextInv, PTL DEF Spec

(***************************************************************************)
(* Type correctness of ExportDataset, its callers and the tables it reads. *)
(***************************************************************************)
THEOREM TypeCorrect == Spec => []TypeOK
  <1>1. IInv => TypeOK
    BY DEF IInv
  <1>2. QED  BY <1>1, Invariant, PTL

(***************************************************************************)
(* Whatever runs write between the queries of ExportDataset and however    *)
(* many exports there are: an export that shows a run as ended shows all   *)
(* rows of that run.                                                       *)
(***************************************************************************)
THEOREM EndedRunsAreWhole == Spec => []EndedMeansWhole
  <1>1. ASSUME IInv  PROVE EndedMeansWhole
    <2>1. SUFFICES ASSUME NEW e \in Export, NEW r \in Run, <<r, "ended">> \in Lines(got[e].runs)
          PROVE \A table \in {"syncs", "candidates", "summaries"} :
                  HasRead(e, table) =>
                    Of(r, Lines(got[e][table])) = Of(r, Rows(table, filter[e]))
      BY DEF EndedMeansWhole
    <2>2. Whole(e, r)
      BY <1>1 DEF IInv, ShowsTrue
    <2>3. QED  BY <2>1, <2>2, WhichRows DEF Whole
  <1>2. QED  BY <1>1, Invariant, PTL

(***************************************************************************)
(* Of the candidates ExportDataset returns, each whose transfer kept its   *)
(* place and its fingerprint in every answer has exactly one explanation,  *)
(* and each is counted for its wallet, though three queries at three times *)
(* read them while runs go on and move rows of transactions.               *)
(***************************************************************************)
THEOREM CandidatesAreExplained == Spec => []CandidatesExplained
  <1>1. IInv => CandidatesExplained
    BY DEF IInv, ShowsTrue, Explained, CandidatesExplained
  <1>2. QED  BY <1>1, Invariant, PTL

-----------------------------------------------------------------------------
(* Job rows.                                                               *)

\* what JobsTellTheTruth says of one export, and where its call must be for it
JobInv(e) ==
  /\ jobs[e] = "succeeded" => pc[e] = "done" /\ next[e] = Manifest /\ ~open[e]
  /\ jobs[e] = "failed" => pc[e] = "failed"
  /\ (jobs[e] \in {"queued", "running"} /\ pc[e] \in Over) => faults > 0
  /\ pc[e] = "idle" \/ caller[e] # "job" => jobs[e] = "none"
  /\ pc[e] \in {"posted", "ending", "failing"} => caller[e] = "job"
  /\ pc[e] = "ending" => next[e] = Manifest
  /\ pc[e] # "writing" => ~open[e]

LEMMA InitJob == Init => \A e \in Export : JobInv(e)
  BY DEF Init, JobInv

LEMMA JobElsewhere ==
  ASSUME TypeOK, TypeOK', NEW e \in Export, JobInv(e),
         jobs'[e] = jobs[e], pc'[e] = pc[e], caller'[e] = caller[e],
         next'[e] = next[e], open'[e] = open[e], faults' >= faults
  PROVE  JobInv(e)'
  BY DEF JobInv, TypeOK

LEMMA BeginsJob ==
  ASSUME TypeOK, TypeOK', NEW e \in Export, JobInv(e), Begins(e)
  PROVE  JobInv(e)'
  <1>1. CASE \E r \in Run : CreateExportJob(e, r)
    BY <1>1 DEF CreateExportJob, Call, Fault, JobInv, TypeOK, Over
  <1>2. CASE \E r \in Run : Generate(e, r)
    BY <1>2 DEF Generate, Call, JobInv, TypeOK
  <1>3. CASE \E f \in Window \cup {{r} : r \in Run} : ExportCommand(e, f)
    BY <1>3 DEF ExportCommand, Call, JobInv, TypeOK
  <1>4. QED  BY <1>1, <1>2, <1>3 DEF Begins

LEMMA StepJob ==
  ASSUME TypeOK, TypeOK', NEW e \in Export, JobInv(e), Step(e)
  PROVE  JobInv(e)'
  <1>1. CASE BeginJob(e)
    BY <1>1 DEF BeginJob, Update, Fault, JobInv, TypeOK, Over
  <1>2. CASE EndJob(e)
    BY <1>2 DEF EndJob, Update, Result, Fault, JobInv, TypeOK, Over
  <1>3. CASE ListForExport(e)
    BY <1>3 DEF ListForExport, JobInv, TypeOK, Over
  <1>4. CASE ReadFails(e)
    BY <1>4 DEF ReadFails, Return, Fault, JobInv, TypeOK, Over
  <1>5. CASE OpenFile(e)
    BY <1>5 DEF OpenFile, JobInv, TypeOK, Over
  <1>6. CASE WriteFile(e)
    BY <1>6 DEF WriteFile, Return, JobInv, TypeOK, Over
  <1>7. CASE WriteFails(e)
    BY <1>7 DEF WriteFails, Return, Fault, JobInv, TypeOK, Over
  <1>8. QED  BY <1>1, <1>2, <1>3, <1>4, <1>5, <1>6, <1>7 DEF Step

LEMMA StopJob ==
  ASSUME TypeOK, TypeOK', NEW e \in Export, JobInv(e),
         NEW E, \A f \in E : pc[f] \in Live, Stop(E)
  PROVE  JobInv(e)'
  <1>1. /\ pc'[e] = (IF e \in E THEN "gone" ELSE pc[e])
        /\ open'[e] => open[e] /\ e \notin E
        /\ UNCHANGED <<jobs, caller, next>> /\ faults' > 0
    <2>1. faults \in Nat
      BY ExportAssumption DEF TypeOK
    <2>2. faults' > 0
      BY <2>1 DEF Stop, Fault
    <2>3. UNCHANGED <<jobs, caller, next>> /\ pc'[e] = (IF e \in E THEN "gone" ELSE pc[e])
      BY DEF Stop
    <2>4. open' = [f \in Export |-> f \notin E /\ open[f]]
      BY DEF Stop
    <2>5. open'[e] => open[e] /\ e \notin E
      BY <2>4, Zenon
    <2>6. QED  BY <2>2, <2>3, <2>5
  <1>2. CASE e \in E
    <2>1. pc[e] \in Live /\ open'[e] = FALSE
      BY <1>1, <1>2 DEF TypeOK
    <2>2. QED  BY <1>1, <1>2, <2>1 DEF JobInv, Live
  <1>3. CASE e \notin E
    BY <1>1, <1>3 DEF JobInv
  <1>4. QED  BY <1>2, <1>3

LEMMA NextJob ==
  ASSUME TypeOK, TypeOK', \A e \in Export : JobInv(e), [Next]_vars
  PROVE  \A e \in Export : JobInv(e)'
  <1>0. faults \in Nat
    BY ExportAssumption DEF TypeOK
  <1>1. CASE (\E r \in Run : Writes(r)) \/ UNCHANGED vars
    <2>1. UNCHANGED <<exports, faults>>
      BY <1>1 DEF Writes, BeginRun, EndRun, BeginSync, StoreTransfers, LinkTransfer,
                  StoreCandidates, EndSync, vars
    <2>2. QED  BY <1>0, <2>1, JobElsewhere DEF exports
  <1>2. CASE \E e \in Export : Begins(e) \/ Step(e)
    <2>1. PICK e \in Export : Begins(e) \/ Step(e)
      BY <1>2
    <2>2. ASSUME NEW f \in Export \ {e}  PROVE JobInv(f)'
      <3>1. /\ jobs'[f] = jobs[f] /\ pc'[f] = pc[f] /\ caller'[f] = caller[f]
            /\ next'[f] = next[f] /\ open'[f] = open[f] /\ faults' >= faults
        <4>1. CASE Begins(e)
          BY <4>1, <1>0 DEF Begins, CreateExportJob, Generate, ExportCommand, Call, Fault, TypeOK
        <4>2. CASE BeginJob(e) \/ EndJob(e)
          BY <4>2, <1>0 DEF BeginJob, EndJob, Update, Fault, TypeOK
        <4>3. CASE ListForExport(e) \/ OpenFile(e)
          BY <4>3, <1>0 DEF ListForExport, OpenFile, TypeOK
        <4>4. CASE ReadFails(e) \/ WriteFile(e) \/ WriteFails(e)
          BY <4>4, <1>0 DEF ReadFails, WriteFile, WriteFails, Return, Fault, TypeOK
        <4>5. QED  BY <2>1, <4>1, <4>2, <4>3, <4>4 DEF Step
      <3>2. QED  BY <3>1, JobElsewhere
    <2>3. JobInv(e)'
      BY <2>1, BeginsJob, StepJob
    <2>4. QED  BY <2>2, <2>3
  <1>3. CASE ServerStops \/ \E e \in Export : CommandStops(e)
    <2>1. PICK E : Stop(E) /\ \A f \in E : pc[f] \in Live
      <3>1. CASE ServerStops
        BY <3>1 DEF ServerStops
      <3>2. CASE \E e \in Export : CommandStops(e)
        BY <3>2 DEF CommandStops
      <3>3. QED  BY <1>3, <3>1, <3>2
    <2>2. QED  BY <2>1, StopJob
  <1>4. QED  BY <1>1, <1>2, <1>3 DEF Next

(***************************************************************************)
(* The row of an export job never says more than its goroutine has done,   *)
(* and stays open only after a fault.  runExportJob, whose updates may     *)
(* each fail unnoticed.                                                    *)
(***************************************************************************)
THEOREM JobRowsAreTrue == Spec => []JobsTellTheTruth
  <1>1. Init => \A e \in Export : JobInv(e)
    BY InitJob
  <1>2. TypeOK /\ TypeOK' /\ (\A e \in Export : JobInv(e)) /\ [Next]_vars
          => (\A e \in Export : JobInv(e))'
    BY NextJob
  <1>3. (\A e \in Export : JobInv(e)) => JobsTellTheTruth
    BY DEF JobInv, JobsTellTheTruth
  <1>4. QED  BY <1>1, <1>2, <1>3, TypeCorrect, PTL DEF Spec

-----------------------------------------------------------------------------
(* Overlapping exports.                                                    *)

Bad == {"failing", "failed", "gone"}

\* a call that has read all and may have written
Writer(e) == pc[e] \in {"writing", "ending", "done"}

Opened(e, i) == pc[e] = "writing" /\ open[e] /\ next[e] = i

\* file i is behind the call
Past(e, i) == pc[e] \in {"ending", "done"} \/ (pc[e] = "writing" /\ i < next[e])

\* the calls of a directory go well so far, and those that write, write the same
Agree(d) ==
  /\ \A e \in CallsFor(d) : pc[e] \notin Bad
  /\ \A e, f \in CallsFor(d) : Writer(e) /\ Writer(f) =>
       \A i \in File : Payload(e, i) = Payload(f, i)

\* a file is empty or has what they write, and a call that has put it behind
\* finds it empty only while another one has it open
Unharmed(d) ==
  \A i \in File :
    /\ (\A e \in CallsFor(d) : ~Writer(e)) => files[d][i] = <<>>
    /\ \A e \in CallsFor(d) : Writer(e) =>
         /\ files[d][i] \in {<<>>, Payload(e, i)}
         /\ Past(e, i) => \/ files[d][i] = Payload(e, i)
                          \/ \E f \in CallsFor(d) : Opened(f, i)

FileInv ==
  /\ \A d \in Directories : files[d] = [i \in File |-> files[d][i]]
  /\ \A e \in Export : pc[e] = "writing" => next[e] \in File
  /\ \A d \in Directories : Agree(d) => Unharmed(d)

LEMMA NextFileNext ==
  ASSUME NEW i \in 0..Manifest, i < Manifest
  PROVE  /\ NextFile(i) \in File
         /\ \A k \in File : i < k => NextFile(i) <= k
  <1>1. File \subseteq 1..9 /\ 9 \in File /\ Manifest = 9
    BY ExportAssumption DEF File, Manifest, Artifacts, HealthArtifacts
  <1>2. \E j \in File : i < j /\ \A k \in File : i < k => j <= k
    BY <1>1
  <1>3. QED  BY <1>2 DEF NextFile

\* what is known of a call stays when its variables do
Fixed(e) == caller'[e] = caller[e] /\ filter'[e] = filter[e] /\ got'[e] = got[e]

SameCall(e) ==
  Fixed(e) /\ pc'[e] = pc[e] /\ next'[e] = next[e] /\ open'[e] = open[e]

LEMMA FixedCall ==
  ASSUME NEW e, Fixed(e)
  PROVE  Directory(e)' = Directory(e) /\ \A i : Payload(e, i)' = Payload(e, i)
  <1>1. Directory(e)' = Directory(e)
    BY DEF Fixed, Directory
  <1>2. \A i : Text(e, i)' = Text(e, i)
    BY DEF Fixed, Text
  <1>3. QED  BY <1>1, <1>2 DEF Fixed, Payload

LEMMA StepSame ==
  ASSUME TypeOK, NEW e \in Export, Begins(e) \/ Step(e), NEW f \in Export \ {e}
  PROVE  SameCall(f)
  <1>1. CASE Begins(e)
    BY <1>1 DEF Begins, CreateExportJob, Generate, ExportCommand, Call, TypeOK, SameCall, Fixed
  <1>2. CASE ListForExport(e)
    BY <1>2 DEF ListForExport, TypeOK, SameCall, Fixed
  <1>3. CASE BeginJob(e) \/ EndJob(e) \/ OpenFile(e)
    BY <1>3 DEF BeginJob, EndJob, OpenFile, TypeOK, SameCall, Fixed
  <1>4. CASE ReadFails(e) \/ WriteFile(e) \/ WriteFails(e)
    BY <1>4 DEF ReadFails, WriteFile, WriteFails, Return, TypeOK, SameCall, Fixed
  <1>5. QED  BY <1>1, <1>2, <1>3, <1>4 DEF Step

\* a call goes on without touching files, or fails
Goes(e) ==
  /\ Fixed(e)
  /\ pc[e] \in Bad => pc'[e] \in Bad
  /\ \/ pc'[e] \in Bad
     \/ ~Writer(e) /\ ~Writer(e)' /\ pc[e] # "idle" /\ pc'[e] # "idle"
     \/ Writer(e) /\ Writer(e)' /\ \A i \in File : /\ Past(e, i)' <=> Past(e, i)
                                                   /\ Opened(e, i)' <=> Opened(e, i)

LEMMA SameGoes ==
  ASSUME NEW e, SameCall(e), pc[e] # "idle"
  PROVE  Goes(e)
  BY DEF SameCall, Goes, Writer, Past, Opened

LEMMA KeepFiles ==
  ASSUME NEW d, TypeOK, TypeOK', files'[d] = files[d], Agree(d) => Unharmed(d),
         \A e \in CallsFor(d) : Goes(e),
         \A e \in Export \ CallsFor(d) : e \notin CallsFor(d)' \/ ~Writer(e)' ,
         Agree(d)'
  PROVE  Unharmed(d)'
  <1> DEFINE W == CallsFor(d)
  <1>1. \A e \in W : Goes(e) /\ pc'[e] \notin Bad /\ pc[e] \notin Bad /\ e \in CallsFor(d)'
    <2>1. ASSUME NEW e \in W  PROVE e \in CallsFor(d)'
      <3>1. Goes(e) /\ Directory(e)' = d /\ e \in Export
        BY <2>1, FixedCall DEF CallsFor, Goes
      <3>2. pc'[e] \in Over \cup Live
        BY <3>1 DEF Goes, Bad, Over, Live, Writer, TypeOK
      <3>3. QED  BY <3>1, <3>2 DEF CallsFor
    <2>2. QED  BY <2>1 DEF Agree, Goes
  <1>2. \A e \in W : /\ Writer(e)' <=> Writer(e)
                     /\ \A i : Payload(e, i)' = Payload(e, i)
                     /\ Writer(e) => \A i \in File : /\ Past(e, i)' <=> Past(e, i)
                                                     /\ Opened(e, i)' <=> Opened(e, i)
    BY <1>1, FixedCall DEF Goes
  <1>3. Agree(d)
    <2>1. \A e \in W : pc[e] \notin Bad
      BY <1>1
    <2>2. ASSUME NEW e \in W, NEW f \in W, Writer(e), Writer(f), NEW i \in File
          PROVE  Payload(e, i) = Payload(f, i)
      <3>1. Writer(e)' /\ Writer(f)' /\ e \in CallsFor(d)' /\ f \in CallsFor(d)'
        BY <1>1, <1>2, <2>2
      <3>2. Payload(e, i)' = Payload(f, i)'
        BY <3>1 DEF Agree
      <3>3. QED  BY <1>2, <3>2
    <2>3. QED  BY <2>1, <2>2 DEF Agree
  <1>4. \A e \in CallsFor(d)' : Writer(e)' => e \in W
    BY DEF CallsFor
  <1>5. Unharmed(d)
    BY <1>3
  <1>6. SUFFICES ASSUME NEW i \in File
                 PROVE /\ (\A e \in CallsFor(d)' : ~Writer(e)') => files'[d][i] = <<>>
                       /\ \A e \in CallsFor(d)' : Writer(e)' =>
                            /\ files'[d][i] \in {<<>>, Payload(e, i)'}
                            /\ Past(e, i)' => \/ files'[d][i] = Payload(e, i)'
                                              \/ \E f \in CallsFor(d)' : Opened(f, i)'
    <2>1. File' = File
      BY DEF File, Manifest
    <2>2. QED  BY <2>1 DEF Unharmed
  <1>7. (\A e \in CallsFor(d)' : ~Writer(e)') => files'[d][i] = <<>>
    BY <1>1, <1>2, <1>5 DEF Unharmed
  <1>8. ASSUME NEW e \in CallsFor(d)', Writer(e)'
        PROVE  /\ files'[d][i] \in {<<>>, Payload(e, i)'}
               /\ Past(e, i)' => \/ files'[d][i] = Payload(e, i)'
                                 \/ \E f \in CallsFor(d)' : Opened(f, i)'
    <2>1. e \in W /\ Writer(e) /\ Payload(e, i)' = Payload(e, i) /\ (Past(e, i)' <=> Past(e, i))
      BY <1>2, <1>4, <1>8
    <2>2. /\ files[d][i] \in {<<>>, Payload(e, i)}
          /\ Past(e, i) => \/ files[d][i] = Payload(e, i)
                           \/ \E f \in W : Opened(f, i)
      BY <1>5, <2>1 DEF Unharmed
    <2>3. \A f \in W : Opened(f, i) => f \in CallsFor(d)' /\ Opened(f, i)'
      BY <1>1, <1>2 DEF Opened, Writer
    <2>4. QED  BY <2>1, <2>2, <2>3
  <1>9. QED  BY <1>7, <1>8

\* a step of e leaves what is known of a directory of others
LEMMA ElsewhereKept ==
  ASSUME TypeOK, TypeOK', NEW e \in Export, Step(e), NEW d, files'[d] = files[d],
         e \notin CallsFor(d), pc[e] # "idle", Fixed(e),
         Agree(d) => Unharmed(d), Agree(d)'
  PROVE  Unharmed(d)'
  <1>1. \A f \in Export \ {e} : SameCall(f)
    BY StepSame
  <1>2. \A f \in CallsFor(d) : f # e /\ pc[f] # "idle"
    BY DEF CallsFor, Over, Live
  <1>3. \A f \in CallsFor(d) : Goes(f)
    BY <1>1, <1>2, SameGoes DEF CallsFor
  <1>4. ASSUME NEW f \in Export \ CallsFor(d)  PROVE f \notin CallsFor(d)'
    <2>1. CASE f = e
      <3>1. Directory(e)' = Directory(e)
        BY FixedCall
      <3>2. pc[e] \in Over \cup Live
        BY DEF TypeOK
      <3>3. QED  BY <2>1, <3>1, <3>2 DEF CallsFor
    <2>2. CASE f # e
      <3>1. SameCall(f)
        BY <1>1, <2>2
      <3>2. Directory(f)' = Directory(f) /\ pc'[f] = pc[f]
        BY <3>1, FixedCall DEF SameCall
      <3>3. QED  BY <1>4, <3>2 DEF CallsFor
    <2>3. QED  BY <2>1, <2>2
  <1>5. QED  BY <1>3, <1>4, KeepFiles

\* the calls of the directory of e after a step of e
LEMMA CallsKept ==
  ASSUME TypeOK, TypeOK', NEW e \in Export, Step(e), pc[e] # "idle", Fixed(e),
         pc'[e] # "idle"
  PROVE  /\ CallsFor(Directory(e))' = CallsFor(Directory(e)) /\ e \in CallsFor(Directory(e))
         /\ \A f \in CallsFor(Directory(e)) \ {e} :
              /\ pc'[f] = pc[f]
              /\ Writer(f)' <=> Writer(f)
              /\ \A i : /\ Past(f, i)' <=> Past(f, i)
                        /\ Opened(f, i)' <=> Opened(f, i)
         /\ \A f \in CallsFor(Directory(e)) : \A i : Payload(f, i)' = Payload(f, i)
  <1>1. \A f \in Export : f # e => SameCall(f)
    BY StepSame
  <1>2. \A f \in Export : Fixed(f)
    BY <1>1 DEF SameCall
  <1>3. \A f \in Export : Directory(f)' = Directory(f) /\ \A i : Payload(f, i)' = Payload(f, i)
    BY <1>2, FixedCall
  <1>4. pc[e] \in Over \cup Live /\ pc'[e] \in Over \cup Live
    BY DEF TypeOK
  <1>5. \A f \in Export : f # e => pc'[f] = pc[f]
    BY <1>1 DEF SameCall
  <1>6. \A f \in Export : f \in CallsFor(Directory(e))' <=> f \in CallsFor(Directory(e))
    BY <1>3, <1>4, <1>5 DEF CallsFor
  <1>7. e \in CallsFor(Directory(e))
    BY <1>4 DEF CallsFor
  <1>8. CallsFor(Directory(e))' \subseteq Export /\ CallsFor(Directory(e)) \subseteq Export
    BY DEF CallsFor
  <1>9. \A f \in Export \ {e} :
          /\ Writer(f)' <=> Writer(f)
          /\ \A i : /\ Past(f, i)' <=> Past(f, i)
                    /\ Opened(f, i)' <=> Opened(f, i)
    BY <1>1 DEF SameCall, Writer, Past, Opened
  <1>10. QED  BY <1>3, <1>5, <1>6, <1>7, <1>8, <1>9

\* the last query of e: it may find others writing, or finds the files empty
LEMMA ListKeepsFiles ==
  ASSUME IInv, TypeOK', FileInv, NEW e \in Export, ListForExport(e),
         NEW d \in Directories, Agree(d)'
  PROVE  Unharmed(d)'
  <1>1. TypeOK /\ (Agree(d) => Unharmed(d)) /\ Step(e)
    BY DEF IInv, FileInv, Step
  <1>2. /\ pc[e] = "reading" /\ pc'[e] \in {"reading", "writing"}
        /\ UNCHANGED <<caller, filter, open, files>>
    BY <1>1 DEF ListForExport, TypeOK
  <1>3. \A f \in Export \ {e} : SameCall(f)
    BY <1>1, StepSame
  <1>4. \A f \in Export : Directory(f)' = Directory(f)
    BY <1>2 DEF Directory
  <1>5. CallsFor(d)' = CallsFor(d)
    BY <1>2, <1>3, <1>4 DEF CallsFor, SameCall, Over, Live
  <1>6. \A f \in Export \ {e} :
          /\ pc'[f] = pc[f] /\ (Writer(f)' <=> Writer(f))
          /\ \A i : /\ Payload(f, i)' = Payload(f, i)
                    /\ Past(f, i)' <=> Past(f, i)
                    /\ Opened(f, i)' <=> Opened(f, i)
    BY <1>3, FixedCall DEF SameCall, Writer, Past, Opened
  <1>7. ~Writer(e) /\ \A i : ~Opened(e, i)
    BY <1>2 DEF Writer, Opened
  <1>8. Agree(d)
    <2>1. \A f \in CallsFor(d) : pc[f] \notin Bad
      BY <1>2, <1>5, <1>6 DEF Agree, Bad, CallsFor
    <2>2. ASSUME NEW f \in CallsFor(d), NEW g \in CallsFor(d), Writer(f), Writer(g),
                 NEW i \in File
          PROVE  Payload(f, i) = Payload(g, i)
      <3>1. f \in Export \ {e} /\ g \in Export \ {e}
        BY <1>7, <2>2 DEF CallsFor
      <3>2. Writer(f)' /\ Writer(g)' /\ f \in CallsFor(d)' /\ g \in CallsFor(d)'
        BY <1>5, <1>6, <2>2, <3>1
      <3>3. Payload(f, i)' = Payload(g, i)'
        BY <3>2 DEF Agree
      <3>4. QED  BY <1>6, <3>1, <3>3
    <2>3. QED  BY <2>1, <2>2 DEF Agree
  <1>9. Unharmed(d)
    BY <1>1, <1>8
  <1>10. \A i \in File : ~Past(e, i)'
    <2>1. CASE pc'[e] = "reading"
      BY <2>1 DEF Past
    <2>2. CASE pc'[e] = "writing"
      <3>1. next'[e] = NextFile(0)
        BY <1>1, <1>2, <2>2 DEF ListForExport, TypeOK
      <3>2. \A k \in File : k \in Nat /\ 0 < k
        BY ExportAssumption DEF File, Manifest, Artifacts, HealthArtifacts
      <3>3. Manifest = 9 /\ NextFile(0) \in 1..9
        BY NextFileType DEF Manifest, Artifacts, HealthArtifacts
      <3>4. \A k \in File : NextFile(0) <= k
        BY <3>2, <3>3, NextFileNext
      <3>5. QED  BY <2>2, <3>1, <3>2, <3>3, <3>4 DEF Past
    <2>3. QED  BY <1>2, <2>1, <2>2
  <1>11. SUFFICES ASSUME NEW i \in File
                  PROVE /\ (\A f \in CallsFor(d) : ~Writer(f)') => files[d][i] = <<>>
                        /\ \A f \in CallsFor(d) : Writer(f)' =>
                             /\ files[d][i] \in {<<>>, Payload(f, i)'}
                             /\ Past(f, i)' => \/ files[d][i] = Payload(f, i)'
                                               \/ \E g \in CallsFor(d) : Opened(g, i)'
    <2>1. File' = File
      BY DEF File, Manifest
    <2>2. QED  BY <1>2, <1>5, <2>1 DEF Unharmed
  <1>12. (\A f \in CallsFor(d) : ~Writer(f)') => files[d][i] = <<>>
    BY <1>6, <1>7, <1>9 DEF Unharmed, CallsFor
  <1>13. ASSUME NEW f \in CallsFor(d), Writer(f)'
         PROVE /\ files[d][i] \in {<<>>, Payload(f, i)'}
               /\ Past(f, i)' => \/ files[d][i] = Payload(f, i)'
                                 \/ \E g \in CallsFor(d) : Opened(g, i)'
    <2>1. CASE f # e
      <3>1. f \in Export \ {e}
        BY <2>1 DEF CallsFor
      <3>2. Writer(f) /\ Payload(f, i)' = Payload(f, i) /\ (Past(f, i)' <=> Past(f, i))
        BY <1>6, <1>13, <3>1
      <3>3. /\ files[d][i] \in {<<>>, Payload(f, i)}
            /\ Past(f, i) => \/ files[d][i] = Payload(f, i)
                             \/ \E g \in CallsFor(d) : Opened(g, i)
        BY <1>9, <3>2 DEF Unharmed
      <3>4. \A g \in CallsFor(d) : Opened(g, i) => Opened(g, i)'
        BY <1>6, <1>7 DEF CallsFor
      <3>5. QED  BY <3>2, <3>3, <3>4
    <2>2. CASE f = e
      <3>1. ~Past(f, i)'
        BY <1>10, <2>2
      <3>2. files[d][i] \in {<<>>, Payload(f, i)'}
        <4>1. CASE \A g \in CallsFor(d) : ~Writer(g)
          BY <1>9, <4>1 DEF Unharmed
        <4>2. CASE \E g \in CallsFor(d) : Writer(g)
          <5>1. PICK g \in CallsFor(d) : Writer(g)
            BY <4>2
          <5>2. g \in Export \ {e}
            BY <1>7, <5>1 DEF CallsFor
          <5>3. Writer(g)' /\ Payload(g, i)' = Payload(g, i)
            BY <1>6, <5>1, <5>2
          <5>4. Payload(f, i)' = Payload(g, i)'
            BY <1>5, <1>13, <5>1, <5>3 DEF Agree, File, Manifest
          <5>5. files[d][i] \in {<<>>, Payload(g, i)}
            BY <1>9, <5>1 DEF Unharmed
          <5>6. QED  BY <5>3, <5>4, <5>5
        <4>3. QED  BY <4>1, <4>2
      <3>3. QED  BY <3>1, <3>2
    <2>3. QED  BY <2>1, <2>2
  <1>14. QED  BY <1>12, <1>13

\* os.WriteFile truncates: the file is open by e from now on
LEMMA OpenKeepsFiles ==
  ASSUME IInv, TypeOK', FileInv, NEW e \in Export, OpenFile(e),
         Directory(e) \in Directories, Agree(Directory(e))'
  PROVE  Unharmed(Directory(e))'
  <1> DEFINE d == Directory(e)
             W == CallsFor(d)
  <1>1. TypeOK /\ (Agree(d) => Unharmed(d)) /\ Step(e) /\ DOMAIN files = Directories
        /\ files[d] = [i \in File |-> files[d][i]]
    BY DEF IInv, FileInv, Step, TypeOK
  <1>2. /\ pc[e] = "writing" /\ UNCHANGED <<pc, caller, filter, got, next>>
        /\ open' = [open EXCEPT ![e] = TRUE]
        /\ files' = [files EXCEPT ![d][next[e]] = <<>>]
    BY DEF OpenFile
  <1>3. /\ d' = d /\ W' = W /\ e \in W
        /\ \A f \in W : /\ Writer(f)' <=> Writer(f)
                        /\ \A i : /\ Payload(f, i)' = Payload(f, i)
                                  /\ Past(f, i)' <=> Past(f, i)
                                  /\ Opened(f, i) => Opened(f, i)'
    <2>1. Fixed(e) /\ pc'[e] # "idle"
      BY <1>2 DEF Fixed
    <2>2. d' = d /\ \A i : Opened(e, i) => Opened(e, i)'
      BY <1>1, <1>2, <2>1, FixedCall DEF Opened, TypeOK
    <2>3. (Writer(e)' <=> Writer(e)) /\ \A i : Past(e, i)' <=> Past(e, i)
      BY <1>2 DEF Writer, Past
    <2>4. W' = W
      <3>1. \A f \in Export : Directory(f)' = Directory(f)
        BY <1>2 DEF Directory
      <3>2. QED  BY <1>2, <2>2, <3>1 DEF CallsFor
    <2>5. QED  BY <1>1, <1>2, <2>1, <2>2, <2>3, <2>4, CallsKept
  <1>4. Agree(d)
    BY <1>2, <1>3 DEF Agree, File, Manifest
  <1>6. Unharmed(d) /\ Writer(e)
    BY <1>1, <1>2, <1>4 DEF Writer
  <1>7. \A i \in File : files'[d][i] = IF i = next[e] THEN <<>> ELSE files[d][i]
    BY <1>1, <1>2
  <1>8. SUFFICES ASSUME NEW i \in File, NEW f \in W, Writer(f)'
                 PROVE  /\ files'[d][i] \in {<<>>, Payload(f, i)'}
                        /\ Past(f, i)' => \/ files'[d][i] = Payload(f, i)'
                                          \/ \E g \in W : Opened(g, i)'
    BY <1>3, <1>6 DEF Unharmed, File, Manifest
  <1>9. /\ files[d][i] \in {<<>>, Payload(f, i)}
        /\ Past(f, i) => \/ files[d][i] = Payload(f, i)
                         \/ \E g \in W : Opened(g, i)
    BY <1>3, <1>6, <1>8 DEF Unharmed
  <1>10. Payload(f, i)' = Payload(f, i) /\ (Past(f, i)' <=> Past(f, i))
         /\ \A g \in W : Opened(g, i) => Opened(g, i)'
    BY <1>3
  <1>11. CASE i = next[e]
    <2>1. files'[d][i] = <<>> /\ Opened(e, i)'
      BY <1>1, <1>2, <1>7, <1>11 DEF Opened, TypeOK
    <2>2. QED  BY <1>3, <2>1
  <1>12. CASE i # next[e]
    <2>1. files'[d][i] = files[d][i]
      BY <1>7, <1>12
    <2>2. QED  BY <1>9, <1>10, <2>1
  <1>13. QED  BY <1>11, <1>12

\* os.WriteFile writes: what the file has is nothing, or the same
LEMMA WriteKeepsFiles ==
  ASSUME IInv, TypeOK', FileInv, NEW e \in Export, WriteFile(e),
         Directory(e) \in Directories, Agree(Directory(e))'
  PROVE  Unharmed(Directory(e))'
  <1> DEFINE d == Directory(e)
             W == CallsFor(d)
             n == next[e]
  <1>1. TypeOK /\ (Agree(d) => Unharmed(d)) /\ Step(e) /\ DOMAIN files = Directories
        /\ files[d] = [i \in File |-> files[d][i]]
    BY DEF IInv, FileInv, Step, TypeOK
  <1>2. /\ pc[e] = "writing" /\ Fixed(e) /\ n \in File
        /\ \E lines \in Overwritten(Payload(e, n), files[d][n]) :
             files' = [files EXCEPT ![d][n] = lines]
    BY DEF WriteFile, Fixed, FileInv
  <1>3. /\ pc'[e] \in {"writing", "ending", "done"}
        /\ pc'[e] = "writing" => n # Manifest /\ next'[e] = NextFile(n)
    BY <1>1, <1>2 DEF WriteFile, Return, TypeOK
  <1>4. d' = d /\ W' = W /\ e \in W
    BY <1>1, <1>2, <1>3, FixedCall, CallsKept
  <1>5. Writer(e) /\ Writer(e)'
    BY <1>2, <1>3 DEF Writer
  <1>6. \A f \in W : f # e =>
          /\ pc'[f] = pc[f] /\ (Writer(f)' <=> Writer(f))
          /\ \A i : /\ Past(f, i)' <=> Past(f, i)
                    /\ Opened(f, i)' <=> Opened(f, i)
    BY <1>1, <1>2, <1>3, CallsKept
  <1>7. \A f \in W : \A i : Payload(f, i)' = Payload(f, i)
    BY <1>1, <1>2, <1>3, CallsKept
  <1>8. \A i \in File : Past(e, i)' => i = n \/ Past(e, i)
    <2>1. \A k \in File : k \in 1..9
      BY ExportAssumption DEF File, Manifest, Artifacts, HealthArtifacts
    <2>2. Manifest = 9
      BY DEF Manifest, Artifacts, HealthArtifacts
    <2>3. ASSUME NEW i \in File, ~(i <= n)  PROVE ~Past(e, i)'
      <3>1. i \in 1..9 /\ n \in 1..9 /\ n < i /\ n # 9 /\ n < Manifest /\ n \in 0..Manifest
        BY <1>2, <2>1, <2>2, <2>3
      <3>2. NextFile(n) <= i /\ NextFile(n) \in 1..9
        BY <2>2, <3>1, NextFileNext, NextFileType
      <3>3. pc'[e] = "writing"
        BY <1>1, <1>2, <2>2, <3>1 DEF WriteFile, TypeOK
      <3>4. QED  BY <1>3, <3>1, <3>2, <3>3 DEF Past
    <2>4. ASSUME NEW i \in File, i <= n  PROVE i = n \/ Past(e, i)
      BY <1>2, <2>1, <2>4 DEF Past
    <2>5. QED  BY <2>3, <2>4
  <1>9. Agree(d)
    <2>1. \A f \in W : pc[f] \notin Bad
      BY <1>2, <1>4, <1>6 DEF Agree, Bad
    <2>2. \A f \in W : Writer(f) => Writer(f)'
      BY <1>5, <1>6
    <2>3. QED  BY <1>4, <1>7, <2>1, <2>2 DEF Agree, File, Manifest
  <1>10. Unharmed(d)
    BY <1>1, <1>9
  <1>11. files'[d][n] = Payload(e, n) /\ \A i \in File : i # n => files'[d][i] = files[d][i]
    <2>1. files[d][n] \in {<<>>, Payload(e, n)}
      BY <1>2, <1>4, <1>5, <1>10 DEF Unharmed
    <2>2. files' = [files EXCEPT ![d][n] = Payload(e, n)]
      BY <1>2, <2>1 DEF Overwritten
    <2>3. QED  BY <1>1, <1>2, <2>2
  <1>12. SUFFICES ASSUME NEW i \in File, NEW f \in W, Writer(f)'
                  PROVE  /\ files'[d][i] \in {<<>>, Payload(f, i)'}
                         /\ Past(f, i)' => \/ files'[d][i] = Payload(f, i)'
                                           \/ \E g \in W : Opened(g, i)'
    BY <1>4, <1>5 DEF Unharmed, File, Manifest
  <1>13. CASE i = n
    <2>1. Payload(f, i)' = Payload(e, i)'
      BY <1>4, <1>5, <1>12 DEF Agree, File, Manifest
    <2>2. QED  BY <1>4, <1>7, <1>11, <1>13, <2>1
  <1>14. CASE i # n
    <2>1. Writer(f) /\ (Past(f, i)' => Past(f, i)) /\ Payload(f, i)' = Payload(f, i)
      BY <1>5, <1>6, <1>7, <1>8, <1>12, <1>14
    <2>2. /\ files[d][i] \in {<<>>, Payload(f, i)}
          /\ Past(f, i) => \/ files[d][i] = Payload(f, i)
                           \/ \E g \in W : Opened(g, i)
      BY <1>10, <2>1 DEF Unharmed
    <2>3. ASSUME NEW g \in W, Opened(g, i)  PROVE Opened(g, i)'
      BY <1>6, <1>14, <2>3 DEF Opened
    <2>4. QED  BY <1>11, <1>14, <2>1, <2>2, <2>3
  <1>15. QED  BY <1>13, <1>14

LEMMA InitFiles == Init => FileInv
  <1> SUFFICES ASSUME Init  PROVE FileInv
    OBVIOUS
  <1>1. \A d \in Directories : files[d] = [i \in File |-> <<>>]
    BY DEF Init
  <1>2. \A e \in Export : pc[e] = "idle"
    BY DEF Init
  <1>3. \A d : CallsFor(d) = {}
    BY <1>2 DEF CallsFor, Over, Live
  <1>4. \A d \in Directories : Unharmed(d)
    BY <1>1, <1>3 DEF Unharmed
  <1>5. QED  BY <1>1, <1>2, <1>4 DEF FileInv

\* the shape of the directories, and where the calls write
LEMMA ShapeStep ==
  ASSUME IInv, TypeOK', FileInv, [Next]_vars
  PROVE  /\ \A d \in Directories : files'[d] = [i \in File |-> files'[d][i]]
         /\ \A e \in Export : pc'[e] = "writing" => next'[e] \in File
  <1>1. TypeOK /\ (\A d \in Directories : files[d] = [i \in File |-> files[d][i]])
        /\ (\A e \in Export : pc[e] = "writing" => next[e] \in File)
    BY DEF IInv, FileInv
  <1>2. CASE \E e \in Export : Begins(e) \/ Step(e)
    <2>1. PICK e \in Export : Begins(e) \/ Step(e)
      BY <1>2
    <2>2. \A f \in Export \ {e} : pc'[f] = pc[f] /\ next'[f] = next[f]
      BY <1>1, <2>1, StepSame DEF SameCall
    <2>3. \/ UNCHANGED files
          \/ \E text : files' = [files EXCEPT ![Directory(e)][next[e]] = text]
      BY <2>1 DEF Begins, CreateExportJob, Generate, ExportCommand, Call, Step, BeginJob,
                  EndJob, ListForExport, ReadFails, OpenFile, WriteFile, WriteFails
    <2>4. \A d \in Directories : files'[d] = [i \in File |-> files'[d][i]]
      <3>1. CASE UNCHANGED files
        BY <1>1, <3>1
      <3>2. ASSUME NEW text, files' = [files EXCEPT ![Directory(e)][next[e]] = text],
                   NEW d \in Directories
            PROVE  files'[d] = [i \in File |-> files'[d][i]]
        <4>1. DOMAIN files = Directories /\ files[d] = [i \in File |-> files[d][i]]
          BY <1>1 DEF TypeOK
        <4>2. files'[d] = IF d = Directory(e) THEN [files[d] EXCEPT ![next[e]] = text] ELSE files[d]
          BY <3>2, <4>1
        <4>3. CASE d = Directory(e)
          BY <4>1, <4>2, <4>3
        <4>4. CASE d # Directory(e)
          BY <4>1, <4>2, <4>4
        <4>5. QED  BY <4>3, <4>4
      <3>3. QED  BY <2>3, <3>1, <3>2
    <2>5. ASSUME pc'[e] = "writing"  PROVE next'[e] \in File
      <3>1. CASE ListForExport(e)
        <4>1. pc[e] = "reading" /\ next'[e] = NextFile(0)
          BY <1>1, <2>5, <3>1 DEF ListForExport, TypeOK
        <4>2. Manifest = 9
          BY DEF Manifest, Artifacts, HealthArtifacts
        <4>3. QED  BY <4>1, <4>2, NextFileNext
      <3>2. CASE WriteFile(e)
        <4>1. pc[e] = "writing" /\ next[e] # Manifest /\ next'[e] = NextFile(next[e])
          BY <1>1, <2>5, <3>2 DEF WriteFile, Return, TypeOK
        <4>2. next[e] \in 1..9 /\ Manifest = 9
          BY <1>1 DEF TypeOK, Manifest, Artifacts, HealthArtifacts
        <4>3. QED  BY <4>1, <4>2, NextFileNext
      <3>3. CASE OpenFile(e)
        BY <1>1, <2>5, <3>3 DEF OpenFile
      <3>4. CASE Begins(e) \/ BeginJob(e)
        BY <1>1, <2>5, <3>4
        DEF Begins, CreateExportJob, Generate, ExportCommand, BeginJob, TypeOK
      <3>5. CASE EndJob(e) \/ ReadFails(e) \/ WriteFails(e)
        BY <1>1, <2>5, <3>5 DEF EndJob, ReadFails, WriteFails, Return, TypeOK
      <3>6. QED  BY <2>1, <3>1, <3>2, <3>3, <3>4, <3>5 DEF Step
    <2>6. QED  BY <1>1, <2>2, <2>4, <2>5
  <1>3. CASE ServerStops \/ \E e \in Export : CommandStops(e)
    <2>1. PICK E : Stop(E)
      BY <1>3 DEF ServerStops, CommandStops
    <2>2. QED  BY <1>1, <2>1 DEF Stop
  <1>4. CASE (\E r \in Run : Writes(r)) \/ UNCHANGED vars
    <2>1. UNCHANGED <<files, pc, next>>
      BY <1>1, <1>4, WritesSpare DEF vars, exports
    <2>2. QED  BY <1>1, <2>1
  <1>5. QED  BY <1>2, <1>3, <1>4 DEF Next

\* a step of e within its own directory
LEMMA OwnFiles ==
  ASSUME IInv, TypeOK', FileInv, NEW e \in Export, Step(e), ~ListForExport(e),
         Directory(e) \in Directories, Agree(Directory(e))'
  PROVE  Unharmed(Directory(e))'
  <1> DEFINE d == Directory(e)
  <1>1. TypeOK /\ (Agree(d) => Unharmed(d))
    BY DEF IInv, FileInv
  <1>2. pc[e] # "idle" /\ pc'[e] # "idle" /\ Fixed(e)
    BY <1>1
    DEF Step, BeginJob, EndJob, ReadFails, OpenFile, WriteFile, WriteFails, Return,
        Fixed, TypeOK
  <1>3. /\ CallsFor(d)' = CallsFor(d) /\ e \in CallsFor(d)
        /\ \A f \in CallsFor(d) \ {e} : SameCall(f) /\ pc[f] # "idle"
    BY <1>1, <1>2, CallsKept, StepSame DEF CallsFor, Over, Live
  <1>4. d' = d
    BY <1>2, FixedCall
  <1>5. CASE pc'[e] \in Bad
    BY <1>3, <1>4, <1>5 DEF Agree
  <1>6. CASE OpenFile(e)
    BY <1>6, OpenKeepsFiles
  <1>7. CASE WriteFile(e)
    BY <1>7, WriteKeepsFiles
  <1>8. CASE pc'[e] \notin Bad /\ (BeginJob(e) \/ EndJob(e))
    <2>1. UNCHANGED files /\ Goes(e)
      <3>1. CASE BeginJob(e)
        BY <1>1, <1>2, <3>1 DEF BeginJob, Goes, Writer, Bad, TypeOK
      <3>2. CASE EndJob(e)
        <4>1. pc[e] \in {"ending", "failing"}
              /\ pc'[e] = (IF pc[e] = "ending" THEN "done" ELSE "failed") /\ UNCHANGED files
          BY <1>1, <3>2 DEF EndJob, TypeOK
        <4>2. QED  BY <1>2, <1>8, <4>1 DEF Goes, Writer, Past, Opened, Bad
      <3>3. QED  BY <1>8, <3>1, <3>2
    <2>2. \A f \in CallsFor(d) : Goes(f)
      BY <1>3, <2>1, SameGoes
    <2>3. Unharmed(d)'
      <3>1. \A f \in Export \ CallsFor(d) : f \notin CallsFor(d)'
        BY <1>3
      <3>2. files'[d] = files[d] /\ Agree(d)'
        BY <1>4, <2>1
      <3>3. ASSUME NEW c, c = d PROVE Unharmed(c)'
        <4>1. /\ files'[c] = files[c] /\ (Agree(c) => Unharmed(c)) /\ Agree(c)'
              /\ \A f \in CallsFor(c) : Goes(f)
              /\ \A f \in Export \ CallsFor(c) : f \notin CallsFor(c)'
          BY <1>1, <1>3, <1>4, <2>1, <2>2, <3>1, <3>2, <3>3 DEF CallsFor, Agree
        <4>2. QED  BY <1>1, <4>1, KeepFiles
      <3>4. QED  BY <1>4, <3>3
    <2>4. QED  BY <2>3
  <1>9. CASE ReadFails(e) \/ WriteFails(e)
    <2>1. pc'[e] \in Bad
      BY <1>1, <1>9 DEF ReadFails, WriteFails, Return, TypeOK, Bad
    <2>2. QED  BY <1>5, <2>1
  <1>10. QED  BY <1>5, <1>6, <1>7, <1>8, <1>9 DEF Step

\* a new call of a directory writes nothing yet
LEMMA BeginsKeepsFiles ==
  ASSUME IInv, TypeOK', FileInv, NEW e \in Export, Begins(e),
         NEW d \in Directories, Agree(d)'
  PROVE  Unharmed(d)'
  <1>1. TypeOK /\ (Agree(d) => Unharmed(d))
    BY DEF IInv, FileInv
  <1>2. pc[e] = "idle" /\ pc'[e] \in {"posted", "reading", "gone"} /\ UNCHANGED files
    BY <1>1 DEF Begins, CreateExportJob, Generate, ExportCommand, Call, TypeOK
  <1>3. \A f \in CallsFor(d) : f \in Export \ {e} /\ pc[f] # "idle"
    BY <1>2 DEF CallsFor, Over, Live
  <1>4. \A f \in CallsFor(d) : Goes(f)
    BY <1>1, <1>3, StepSame, SameGoes
  <1>5. ASSUME NEW f \in Export \ CallsFor(d)  PROVE f \notin CallsFor(d)' \/ ~Writer(f)'
    <2>1. CASE f = e
      BY <1>2, <2>1 DEF Writer
    <2>2. CASE f # e
      <3>1. SameCall(f)
        BY <1>1, <2>2, StepSame
      <3>2. Directory(f)' = Directory(f) /\ pc'[f] = pc[f]
        BY <3>1, FixedCall DEF SameCall
      <3>3. QED  BY <1>5, <3>2 DEF CallsFor
    <2>3. QED  BY <2>1, <2>2
  <1>6. QED  BY <1>1, <1>2, <1>4, <1>5, KeepFiles

\* a stop and the statements of runs touch no file
LEMMA OutsideKeepsFiles ==
  ASSUME TypeOK, TypeOK', FileInv, NEW d \in Directories, Agree(d)',
         UNCHANGED <<caller, filter, got, next, files>>,
         \/ UNCHANGED <<pc, open>>
         \/ \E E : Stop(E)
  PROVE  Unharmed(d)'
  <1>1. \A e \in Export : Fixed(e) /\ pc'[e] \in {"gone", pc[e]}
                          /\ (pc'[e] # "gone" => open'[e] = open[e])
    <2>1. ASSUME NEW e \in Export, NEW E, Stop(E), pc'[e] # "gone"
          PROVE  open'[e] = open[e]
      <3>1. e \notin E /\ open[e] \in BOOLEAN
        BY <2>1 DEF Stop, TypeOK
      <3>2. open'[e] = (e \notin E /\ open[e])
        BY <2>1 DEF Stop
      <3>3. QED  BY <3>1, <3>2
    <2>2. \A e \in Export : Fixed(e) /\ pc'[e] \in {"gone", pc[e]}
      BY DEF Fixed, Stop
    <2>3. QED  BY <2>1, <2>2
  <1>2. \A e \in Export : Directory(e)' = Directory(e)
    BY <1>1, FixedCall
  <1>3. ASSUME NEW e \in CallsFor(d)  PROVE Goes(e)
    <2>1. e \in Export /\ pc[e] # "idle" /\ next'[e] = next[e]
      BY DEF CallsFor, Over, Live
    <2>2. CASE pc'[e] = "gone"
      BY <1>1, <2>1, <2>2 DEF Goes, Bad
    <2>3. CASE pc'[e] # "gone"
      BY <1>1, <2>1, <2>3, SameGoes DEF SameCall
    <2>4. QED  BY <2>2, <2>3
  <1>4. \A e \in Export : ~Writer(e) => ~Writer(e)'
    BY <1>1 DEF Writer
  <1>5. \A e \in Export \ CallsFor(d) : e \notin CallsFor(d)' \/ ~Writer(e)'
    BY <1>1, <1>2 DEF CallsFor, Writer, Over, Live
  <1>6. Agree(d) => Unharmed(d)
    BY DEF FileInv
  <1>7. QED  BY <1>3, <1>5, <1>6, KeepFiles

LEMMA FilesStep ==
  ASSUME IInv, IInv', FileInv, [Next]_vars
  PROVE  FileInv'
  <1>1. TypeOK /\ TypeOK' /\ \A d \in Directories : Agree(d) => Unharmed(d)
    BY DEF IInv, FileInv
  <1>2. ASSUME NEW d \in Directories, Agree(d)'  PROVE Unharmed(d)'
    <2>1. ASSUME NEW e \in Export, Begins(e)  PROVE Unharmed(d)'
      BY <1>1, <1>2, <2>1, BeginsKeepsFiles
    <2>2. ASSUME NEW e \in Export, Step(e)  PROVE Unharmed(d)'
      <3>1. CASE ListForExport(e)
        BY <1>1, <1>2, <3>1, ListKeepsFiles
      <3>2. CASE ~ListForExport(e)
        <4>1. /\ pc[e] # "idle" /\ Fixed(e)
              /\ \/ UNCHANGED files
                 \/ \E text : files' = [files EXCEPT ![Directory(e)][next[e]] = text]
          BY <2>2, <3>2
          DEF Step, BeginJob, EndJob, ReadFails, OpenFile, WriteFile, WriteFails, Fixed
        <4>2. Directory(e)' = Directory(e)
          BY <4>1, FixedCall
        <4>3. CASE d = Directory(e)
          <5>1. Agree(Directory(e))'
            BY <1>2, <4>2, <4>3 DEF Agree, CallsFor
          <5>2. Unharmed(Directory(e))'
            BY <1>1, <2>2, <3>2, <4>3, <5>1, OwnFiles
          <5>3. QED  BY <4>2, <4>3, <5>2 DEF Unharmed, CallsFor
        <4>4. CASE d # Directory(e)
          <5>1. files'[d] = files[d]
            BY <1>1, <4>1, <4>4 DEF TypeOK
          <5>2. e \notin CallsFor(d)
            BY <4>4 DEF CallsFor
          <5>3. QED  BY <1>1, <1>2, <2>2, <4>1, <5>1, <5>2, ElsewhereKept
        <4>5. QED  BY <4>3, <4>4
      <3>3. QED  BY <3>1, <3>2
    <2>3. CASE ServerStops \/ \E e \in Export : CommandStops(e)
      <3>1. PICK E : Stop(E)
        BY <2>3 DEF ServerStops, CommandStops
      <3>2. UNCHANGED <<caller, filter, got, next, files>>
        BY <3>1 DEF Stop
      <3>3. QED  BY <1>1, <1>2, <3>1, <3>2, OutsideKeepsFiles
    <2>4. CASE (\E r \in Run : Writes(r)) \/ UNCHANGED vars
      <3>1. UNCHANGED <<caller, filter, got, next, files, pc, open>>
        BY <1>1, <2>4, WritesSpare DEF vars, exports
      <3>2. QED  BY <1>1, <1>2, <3>1, OutsideKeepsFiles
    <2>5. QED  BY <2>1, <2>2, <2>3, <2>4 DEF Next
  <1>3. QED  BY <1>1, <1>2, ShapeStep DEF FileInv, Directories

(***************************************************************************)
(* Calls of ExportDataset that share the directory of a run and have read  *)
(* the same rows leave it as one of them alone would, whatever the order   *)
(* in which each truncates and writes each file.                           *)
(***************************************************************************)
THEOREM OverlapsAreHarmless == Spec => []OverlapIsHarmless
  <1>1. ASSUME FileInv, NEW d \in Directories,
               \A e \in CallsFor(d) : pc[e] \in {"ending", "done"},
               \A e, f \in CallsFor(d) : Shows(e) = Shows(f),
               NEW e \in CallsFor(d)
        PROVE  files[d] = Shows(e)
    <2>1. \A f \in CallsFor(d), g \in CallsFor(d), i \in File : Payload(f, i) = Payload(g, i)
      <3>1. ASSUME NEW f \in CallsFor(d), NEW g \in CallsFor(d), NEW i \in File
            PROVE  Payload(f, i) = Payload(g, i)
        <4>1. Shows(f)[i] = Payload(f, i) /\ Shows(g)[i] = Payload(g, i)
          BY DEF Shows
        <4>2. QED  BY <1>1, <4>1
      <3>2. QED  BY <3>1
    <2>2. Agree(d)
      BY <1>1, <2>1 DEF Agree, Bad
    <2>3. \A i \in File : files[d][i] = Payload(e, i)
      BY <1>1, <2>2 DEF FileInv, Unharmed, Writer, Past, Opened
    <2>4. files[d] = [i \in File |-> files[d][i]]
      BY <1>1 DEF FileInv
    <2>5. QED  BY <2>3, <2>4 DEF Shows
  <1>2. FileInv => OverlapIsHarmless
    BY <1>1 DEF OverlapIsHarmless
  <1>3. QED  BY <1>2, InitFiles, FilesStep, Invariant, PTL DEF Spec

-----------------------------------------------------------------------------
(* The order of the rows.                                                  *)

\* R orders S without ties
StrictOn(S, R) ==
  /\ \A x \in S : <<x, x>> \notin R
  /\ \A x, y, z \in S : <<x, y>> \in R /\ <<y, z>> \in R => <<x, z>> \in R
  /\ \A x, y \in S : x = y \/ <<x, y>> \in R \/ <<y, x>> \in R

\* s has the members of S, each once, and none before one that is less
Arranged(s, S, R) ==
  /\ s \in [1..Cardinality(S) -> S] /\ Lines(s) = S
  /\ \A i, j \in 1..Cardinality(S) : i < j => <<s[j], s[i]>> \notin R

Below(x, S, R) == {y \in S : <<y, x>> \in R}

\* where a member is says how many are less
LEMMA PlaceIsRank ==
  ASSUME NEW S, IsFiniteSet(S), NEW R, StrictOn(S, R), NEW s, Arranged(s, S, R),
         NEW i \in 1..Cardinality(S)
  PROVE  IsFiniteSet(Below(s[i], S, R)) /\ Cardinality(Below(s[i], S, R)) = i - 1
  <1> DEFINE n == Cardinality(S)
             front == [j \in 1..(i - 1) |-> s[j]]
  <1>1. n \in Nat /\ s \in [1..n -> S] /\ \A x \in S : \E j \in 1..n : s[j] = x
    BY FS_CardinalityType DEF Arranged, Lines
  <1>2. \A j, k \in 1..n : s[j] = s[k] => j = k
    <2>1. IsFiniteSet(1..n) /\ Cardinality(1..n) = n
      BY <1>1, FS_Interval
    <2>2. s \in Surjection(1..n, S)
      BY <1>1 DEF Surjection
    <2>3. s \in Injection(1..n, S)
      BY <2>1, <2>2, FS_SurjSameCardinalityImpliesInj
    <2>4. QED  BY <1>1, <2>3 DEF Injection, IsInjective
  <1>3. \A j \in 1..n : <<s[j], s[i]>> \in R <=> j < i
    <2>1. ASSUME NEW j \in 1..n, j < i  PROVE <<s[j], s[i]>> \in R
      <3>1. s[j] # s[i] /\ s[j] \in S /\ s[i] \in S
        BY <1>1, <1>2, <2>1
      <3>2. <<s[i], s[j]>> \notin R
        BY <2>1 DEF Arranged
      <3>3. QED  BY <3>1, <3>2 DEF StrictOn
    <2>2. <<s[i], s[i]>> \notin R
      BY <1>1 DEF StrictOn
    <2>3. ASSUME NEW j \in 1..n, i < j  PROVE <<s[j], s[i]>> \notin R
      BY <2>3 DEF Arranged
    <2>4. ASSUME NEW j \in 1..n  PROVE j < i \/ j = i \/ i < j
      BY <1>1
    <2>5. ASSUME NEW j \in 1..n, <<s[j], s[i]>> \in R  PROVE j < i
      BY <2>2, <2>3, <2>4, <2>5
    <2>6. QED  BY <2>1, <2>5
  <1>4. front \in Bijection(1..(i - 1), Below(s[i], S, R))
    <2>1. \A j \in 1..(i - 1) : j \in 1..n /\ j < i
      BY <1>1
    <2>2. \A j \in 1..n : j < i => j \in 1..(i - 1)
      BY <1>1
    <2>3. front \in [1..(i - 1) -> Below(s[i], S, R)]
      BY <1>1, <1>3, <2>1 DEF Below
    <2>4. \A j, k \in 1..(i - 1) : front[j] = front[k] => j = k
      BY <1>2, <2>1
    <2>5. ASSUME NEW y \in Below(s[i], S, R)  PROVE \E j \in 1..(i - 1) : front[j] = y
      BY <1>1, <1>3, <2>2 DEF Below
    <2>6. QED  BY <2>3, <2>4, <2>5 DEF Bijection, Injection, Surjection, IsInjective
  <1>5. IsFiniteSet(1..(i - 1)) /\ Cardinality(1..(i - 1)) = i - 1
    <2>1. i - 1 \in Int /\ 1 \in Int /\ (1 > i - 1 <=> i = 1)
      BY <1>1
    <2>2. Cardinality(1..(i - 1)) = IF 1 > i - 1 THEN 0 ELSE (i - 1) - 1 + 1
      BY <2>1, FS_Interval
    <2>3. IsFiniteSet(1..(i - 1))
      BY <2>1, FS_Interval
    <2>4. QED  BY <1>1, <2>1, <2>2, <2>3
  <1>6. QED  BY <1>4, <1>5, FS_Bijection DEF ExistsBijection

\* a finite set has one arrangement
LEMMA ArrangedOnce ==
  ASSUME NEW S, IsFiniteSet(S), NEW R, StrictOn(S, R),
         NEW s, Arranged(s, S, R), NEW t, Arranged(t, S, R)
  PROVE  s = t
  <1> DEFINE n == Cardinality(S)
  <1>1. n \in Nat /\ s \in [1..n -> S] /\ t \in [1..n -> S]
    BY FS_CardinalityType DEF Arranged
  <1>2. ASSUME NEW x \in S, NEW y \in S, <<x, y>> \in R,
               IsFiniteSet(Below(x, S, R)), IsFiniteSet(Below(y, S, R)),
               Cardinality(Below(x, S, R)) = Cardinality(Below(y, S, R))
        PROVE  FALSE
    <2>1. Below(x, S, R) \cup {x} \subseteq Below(y, S, R) /\ x \notin Below(x, S, R)
      BY <1>2 DEF Below, StrictOn
    <2>2. Cardinality(Below(x, S, R) \cup {x}) = Cardinality(Below(x, S, R)) + 1
      BY <1>2, <2>1, FS_AddElement
    <2>3. Cardinality(Below(x, S, R) \cup {x}) <= Cardinality(Below(y, S, R))
      BY <1>2, <2>1, FS_Subset
    <2>4. Cardinality(Below(x, S, R)) \in Nat
      BY <1>2, FS_CardinalityType
    <2>5. QED  BY <1>2, <2>2, <2>3, <2>4
  <1>3. ASSUME NEW i \in 1..n  PROVE s[i] = t[i]
    <2>1. /\ IsFiniteSet(Below(s[i], S, R)) /\ IsFiniteSet(Below(t[i], S, R))
          /\ Cardinality(Below(s[i], S, R)) = Cardinality(Below(t[i], S, R))
      <3>1. Cardinality(Below(s[i], S, R)) = i - 1 /\ IsFiniteSet(Below(s[i], S, R))
        BY PlaceIsRank
      <3>2. Cardinality(Below(t[i], S, R)) = i - 1 /\ IsFiniteSet(Below(t[i], S, R))
        BY PlaceIsRank
      <3>3. QED  BY <3>1, <3>2
    <2>2. s[i] \in S /\ t[i] \in S
      BY <1>1
    <2>3. <<s[i], t[i]>> \notin R
      BY <1>2, <2>1, <2>2
    <2>4. <<t[i], s[i]>> \notin R
      BY <1>2, <2>1, <2>2
    <2>5. QED  BY <2>2, <2>3, <2>4 DEF StrictOn
  <1>4. QED  BY <1>1, <1>3

\* the order of the rows of a query
Less(table, a, b) ==
  CASE table = "runs" -> ByRun(a, b)
    [] table \in {"candidates", "explanations"} -> ByTransfer(a, b)
    [] OTHER -> ByWallet(a, b)

Earlier(table, S) == {p \in S \X S : Less(table, p[1], p[2])}

InOrder(s, S, table) == Arranged(s, S, Earlier(table, S))

\* what an export has read is of the runs it was asked for, and in order
Ordered(e) ==
  \A table \in Table : HasRead(e, table) =>
    /\ \A x \in Lines(got[e][table]) : x[1] \in filter[e]
    /\ InOrder(got[e][table], Lines(got[e][table]), table)

LEMMA AnswersInOrder ==
  ASSUME NEW table \in Table, NEW f, NEW rows \in Answers(table, f)
  PROVE  InOrder(rows, Rows(table, f), table)
  <1> DEFINE S == Rows(table, f)
  <1>1. SUFFICES /\ rows \in [1..Cardinality(S) -> S] /\ Lines(rows) = S
                 /\ \A i, j \in DOMAIN rows : i < j => ~Less(table, rows[j], rows[i])
    BY DEF InOrder, Arranged, Earlier
  <1>2. CASE table = "runs"
    BY <1>2 DEF Answers, Sorted, Less
  <1>3. CASE table \in {"candidates", "explanations"}
    BY <1>3 DEF Answers, Sorted, Less
  <1>4. CASE table \in {"syncs", "summaries"}
    BY <1>4 DEF Answers, Sorted, Less
  <1>5. QED  BY <1>2, <1>3, <1>4 DEF Table

LEMMA RowsOfRuns ==
  ASSUME TypeOK, NEW f \in SUBSET Run, NEW table \in Table, NEW x \in Rows(table, f)
  PROVE  x[1] \in f
  <1>1. CASE table = "runs"
    BY <1>1, WhichRows DEF IngestionRuns
  <1>2. CASE table = "syncs"
    BY <1>2, WhichRows DEF WalletSyncRuns, SyncsOf
  <1>3. CASE table = "candidates"
    BY <1>3, WhichRows DEF CandidatesOf
  <1>4. CASE table = "explanations"
    BY <1>4, WhichRows DEF CandidateExplanations, CandidatesOf, Key
  <1>5. CASE table = "summaries"
    <2> DEFINE Count(k) == Cardinality({c \in candidates : <<c[1], c[2]>> = k})
    <2>1. x \in {<<k[1], k[2], Count(k), Shown(syncs[k])>> : k \in SyncsOf(f)}
      BY <1>5, WhichRows DEF WalletSummaries
    <2> HIDE DEF Count
    <2>2. QED  BY <2>1 DEF SyncsOf
  <1>6. QED  BY <1>1, <1>2, <1>3, <1>4, <1>5 DEF Table

LEMMA KeepsOrder ==
  ASSUME NEW e \in Export, Keeps(e), Ordered(e)
  PROVE  Ordered(e)'
  <1>1. ASSUME NEW t \in Table, HasRead(e, t)'
        PROVE  HasRead(e, t) /\ filter'[e] = filter[e]
    BY <1>1 DEF Keeps, HasRead
  <1>2. got'[e] = got[e]
    BY DEF Keeps
  <1>3. QED  BY <1>1, <1>2 DEF Ordered

LEMMA ListOrders ==
  ASSUME TypeOK, NEW e \in Export, Progress(e), Ordered(e), ListForExport(e)
  PROVE  Ordered(e)'
  <1> DEFINE q == Query[next[e]]
             f == filter[e]
  <1>1. f \in SUBSET Run /\ filter'[e] = f /\ next[e] \in 1..5 /\ q \in Table
    <2>1. next[e] \in 1..5
      BY DEF ListForExport, Progress, Query
    <2>2. q \in Table
      BY <2>1 DEF Query, Table
    <2>3. QED  BY <2>1, <2>2 DEF TypeOK, ListForExport
  <1>2. Answered(e) = next[e] - 1 /\ Answered(e)' = next[e]
    BY ListProgress
  <1>3. PICK rows \in Answers(q, f) : got' = [got EXCEPT ![e][q] = rows]
    BY DEF ListForExport
  <1>4. got'[e][q] = rows /\ \A t \in Table \ {q} : got'[e][t] = got[e][t]
    BY <1>1, <1>3 DEF TypeOK
  <1>5. Lines(rows) = Rows(q, f) /\ InOrder(rows, Rows(q, f), q)
    <2> HIDE DEF q, f
    <2>1. QED  BY <1>1, <1>3, AnswersAreRows, AnswersInOrder
  <1>6. ASSUME NEW t \in Table \ {q}, HasRead(e, t)'  PROVE HasRead(e, t)
    BY <1>1, <1>2, <1>6 DEF HasRead
  <1>7. \A x \in Lines(rows) : x[1] \in f
    <2> HIDE DEF q, f
    <2>1. QED  BY <1>1, <1>5, RowsOfRuns
  <1>8. ASSUME NEW t \in Table, HasRead(e, t)'
        PROVE  \A x \in Lines(got'[e][t]) : x[1] \in filter'[e]
    <2> HIDE DEF q
    <2>1. CASE t = q
      BY <1>1, <1>4, <1>7, <2>1
    <2>2. CASE t # q
      BY <1>1, <1>4, <1>6, <1>8, <2>2 DEF Ordered
    <2>3. QED  BY <2>1, <2>2
  <1>9. ASSUME NEW t \in Table, HasRead(e, t)'
        PROVE  InOrder(got'[e][t], Lines(got'[e][t]), t)
    <2> HIDE DEF q
    <2>1. CASE t = q
      BY <1>4, <1>5, <2>1
    <2>2. CASE t # q
      BY <1>4, <1>6, <1>9, <2>2 DEF Ordered
    <2>3. QED  BY <2>1, <2>2
  <1>10. QED  BY <1>8, <1>9 DEF Ordered

OrderInv == \A e \in Export : Ordered(e)

LEMMA InitOrder == Init => OrderInv
  <1> SUFFICES ASSUME Init, NEW e \in Export  PROVE Ordered(e)
    BY DEF OrderInv
  <1>1. Answered(e) = 0
    BY DEF Init, Answered
  <1>2. \A t : ~HasRead(e, t)
    BY <1>1 DEF HasRead
  <1>3. QED  BY <1>2 DEF Ordered

LEMMA OrderStep ==
  ASSUME IInv, OrderInv, [Next]_vars
  PROVE  OrderInv'
  <1>1. TypeOK /\ \A e \in Export : Progress(e)
    BY DEF IInv
  <1>2. SUFFICES ASSUME NEW e \in Export, ~ListForExport(e)  PROVE Keeps(e)
    BY <1>1, KeepsOrder, ListOrders DEF OrderInv
  <1>3. ASSUME NEW f \in Export, Begins(f) \/ Step(f)  PROVE Keeps(e)
    BY <1>1, <1>2, <1>3, BeginsKeeps, StepKeeps, OthersKeep
  <1>4. CASE ServerStops \/ \E f \in Export : CommandStops(f)
    <2>1. PICK E : Stop(E)
      BY <1>4 DEF ServerStops, CommandStops
    <2>2. QED  BY <1>1, <2>1, StopKeeps
  <1>5. CASE (\E r \in Run : Writes(r)) \/ UNCHANGED vars
    <2>1. UNCHANGED exports
      BY <1>1, <1>5, WritesSpare DEF vars
    <2>2. QED  BY <2>1 DEF exports, Keeps, Answered
  <1>6. QED  BY <1>3, <1>4, <1>5 DEF Next

\* the rows of one run are finitely many and have no ties
LEMMA RowsOfWallets ==
  ASSUME NEW S, NEW r \in Nat, NEW table \in {"syncs", "summaries"},
         \A x \in S : x[1] = r /\ x[2] \in Nat,
         \A x, y \in S : x[2] = y[2] => x = y
  PROVE  StrictOn(S, Earlier(table, S))
  <1>1. \A x, y \in S : <<x, y>> \in Earlier(table, S) <=> x[2] < y[2]
    BY DEF Earlier, Less, ByWallet
  <1>2. QED  BY <1>1 DEF StrictOn

LEMMA SyncsStrict ==
  ASSUME TypeOK, NEW r \in Run
  PROVE  LET S == Rows("syncs", {r})
         IN  IsFiniteSet(S) /\ StrictOn(S, Earlier("syncs", S))
  <1> DEFINE K == SyncsOf({r})
             row(k) == <<k[1], k[2], Shown(syncs[k])>>
             S == Rows("syncs", {r})
  <1>1. S = {row(k) : k \in K}
    BY WhichRows DEF WalletSyncRuns
  <1>2. \A k \in K : k[1] = r /\ k[2] \in Wallet /\ k = <<r, k[2]>>
    BY DEF SyncsOf
  <1>3. IsFiniteSet(K)
    <2>1. IsFiniteSet(Run \X Wallet)
      BY ExportAssumption, FS_Product
    <2>2. K \in SUBSET (Run \X Wallet)
      BY DEF SyncsOf
    <2>3. QED  BY <2>1, <2>2, FS_Subset
  <1>4. IsFiniteSet(S)
    <2>1. [k \in K |-> row(k)] \in Surjection(K, S)
      BY <1>1 DEF Surjection
    <2>2. QED  BY <1>3, <2>1, FS_Surjection
  <1>5. \A x \in S : x[1] = r /\ x[2] \in Nat
    <2>1. \A k \in K : row(k)[1] = r /\ row(k)[2] \in Nat
      BY <1>2, ExportAssumption
    <2> HIDE DEF row, K
    <2>2. QED  BY <1>1, <2>1
  <1>6. \A x, y \in S : x[2] = y[2] => x = y
    <2>1. \A k \in K : row(k) = row(<<r, row(k)[2]>>)
      BY <1>2
    <2> HIDE DEF row, K
    <2>2. QED  BY <1>1, <2>1
  <1>7. QED
    <2> HIDE DEF S
    <2>1. StrictOn(S, Earlier("syncs", S))
      BY <1>5, <1>6, RowsOfWallets, ExportAssumption
    <2>2. QED  BY <1>4, <2>1 DEF S

LEMMA SummariesStrict ==
  ASSUME TypeOK, NEW r \in Run
  PROVE  LET S == Rows("summaries", {r})
         IN  IsFiniteSet(S) /\ StrictOn(S, Earlier("summaries", S))
  <1> DEFINE K == SyncsOf({r})
             Count(k) == Cardinality({c \in candidates : <<c[1], c[2]>> = k})
             row(k) == <<k[1], k[2], Count(k), Shown(syncs[k])>>
             S == Rows("summaries", {r})
  <1>1. S = {row(k) : k \in K}
    BY WhichRows DEF WalletSummaries
  <1>2. \A k \in K : k[1] = r /\ k[2] \in Wallet /\ k = <<r, k[2]>>
    BY DEF SyncsOf
  <1>3. IsFiniteSet(K)
    <2>1. IsFiniteSet(Run \X Wallet)
      BY ExportAssumption, FS_Product
    <2>2. K \in SUBSET (Run \X Wallet)
      BY DEF SyncsOf
    <2>3. QED  BY <2>1, <2>2, FS_Subset
  <1> HIDE DEF Count
  <1>4. IsFiniteSet(S)
    <2>1. [k \in K |-> row(k)] \in Surjection(K, S)
      BY <1>1 DEF Surjection
    <2>2. QED  BY <1>3, <2>1, FS_Surjection
  <1>5. \A x \in S : x[1] = r /\ x[2] \in Nat
    <2>1. \A k \in K : row(k)[1] = r /\ row(k)[2] \in Nat
      BY <1>2, ExportAssumption
    <2> HIDE DEF row, K
    <2>2. QED  BY <1>1, <2>1
  <1>6. \A x, y \in S : x[2] = y[2] => x = y
    <2>1. \A k \in K : row(k) = row(<<r, row(k)[2]>>)
      BY <1>2
    <2> HIDE DEF row, K
    <2>2. QED  BY <1>1, <2>1
  <1>7. QED
    <2> HIDE DEF S
    <2>1. StrictOn(S, Earlier("summaries", S))
      BY <1>5, <1>6, RowsOfWallets, ExportAssumption
    <2>2. QED  BY <1>4, <2>1 DEF S

LEMMA CandidatesStrict ==
  ASSUME TypeOK, NEW r \in Run
  PROVE  LET S == CandidatesOf({r})
         IN  IsFiniteSet(S) /\ StrictOn(S, Earlier("candidates", S))
  <1> DEFINE S == CandidatesOf({r})
  <1>1. S \in SUBSET (Run \X Wallet \X Transfer)
    BY DEF CandidatesOf, TypeOK
  <1>2. IsFiniteSet(S)
    BY <1>1, CandidatesAreFinite
  <1>3. \A x \in S : x[2] \in Nat /\ x[3] \in Nat /\ x = <<r, x[2], x[3]>>
    <2>1. \A x \in S : x \in Run \X Wallet \X Transfer /\ x[1] = r
      BY <1>1 DEF CandidatesOf
    <2>2. \A x \in Run \X Wallet \X Transfer :
            x[2] \in Nat /\ x[3] \in Nat /\ x = <<x[1], x[2], x[3]>>
      <3>1. Wallet \subseteq Nat /\ Transfer \subseteq Nat
        BY ExportAssumption
      <3>2. \A x \in Run \X Wallet \X Transfer :
              x[2] \in Wallet /\ x[3] \in Transfer /\ x = <<x[1], x[2], x[3]>>
        OBVIOUS
      <3>3. QED  BY <3>1, <3>2
    <2> HIDE DEF S
    <2>3. QED  BY <2>1, <2>2
  <1>4. \A x, y \in S : <<x, y>> \in Earlier("candidates", S) <=>
                          x[2] < y[2] \/ (x[2] = y[2] /\ x[3] < y[3])
    BY DEF Earlier, Less, ByTransfer
  <1>5. StrictOn(S, Earlier("candidates", S))
    <2> HIDE DEF S
    <2>1. \A x \in S : <<x, x>> \notin Earlier("candidates", S)
      BY <1>3, <1>4
    <2>2. \A x, y, z \in S :
            <<x, y>> \in Earlier("candidates", S) /\ <<y, z>> \in Earlier("candidates", S)
            => <<x, z>> \in Earlier("candidates", S)
      BY <1>3, <1>4
    <2>3. ASSUME NEW x \in S, NEW y \in S
          PROVE  \/ x = y \/ <<x, y>> \in Earlier("candidates", S)
                 \/ <<y, x>> \in Earlier("candidates", S)
      <3>1. x[2] \in Nat /\ x[3] \in Nat /\ y[2] \in Nat /\ y[3] \in Nat
        BY <1>3
      <3>2. CASE x[2] = y[2] /\ x[3] = y[3]
        BY <1>3, <3>2
      <3>3. CASE ~(x[2] = y[2] /\ x[3] = y[3])
        BY <1>4, <3>1, <3>3
      <3>4. QED  BY <3>2, <3>3
    <2>4. QED  BY <2>1, <2>2, <2>3 DEF StrictOn
  <1>6. QED  BY <1>2, <1>5

\* explanations of one run of which no two are of one candidate
LEMMA ExplanationsStrict ==
  ASSUME NEW r \in Run, NEW S \in SUBSET (Run \X Wallet \X Transfer \X Fingerprint),
         \A x \in S : x[1] = r, \A x, y \in S : Key(x) = Key(y) => x = y
  PROVE  IsFiniteSet(S) /\ StrictOn(S, Earlier("explanations", S))
  <1> DEFINE C == {Key(x) : x \in S}
             key == [x \in S |-> Key(x)]
  <1>1. C \in SUBSET (Run \X Wallet \X Transfer)
    BY DEF Key
  <1>2. IsFiniteSet(C)
    BY <1>1, CandidatesAreFinite
  <1>3. IsFiniteSet(S)
    <2>1. key \in Injection(S, C)
      BY DEF Injection, IsInjective
    <2> HIDE DEF key, C
    <2>2. QED  BY <1>2, <2>1, FS_Injection
  <1>4. \A x \in S : x[2] \in Nat /\ x[3] \in Nat
    BY ExportAssumption
  <1>5. \A x, y \in S : x[2] = y[2] /\ x[3] = y[3] => x = y
    BY DEF Key
  <1>6. \A x, y \in S : <<x, y>> \in Earlier("explanations", S) <=>
                          x[2] < y[2] \/ (x[2] = y[2] /\ x[3] < y[3])
    BY DEF Earlier, Less, ByTransfer
  <1>7. StrictOn(S, Earlier("explanations", S))
    <2>1. \A x \in S : <<x, x>> \notin Earlier("explanations", S)
      BY <1>4, <1>6
    <2>2. \A x, y, z \in S :
            <<x, y>> \in Earlier("explanations", S) /\ <<y, z>> \in Earlier("explanations", S)
            => <<x, z>> \in Earlier("explanations", S)
      BY <1>4, <1>6
    <2>3. ASSUME NEW x \in S, NEW y \in S
          PROVE  \/ x = y \/ <<x, y>> \in Earlier("explanations", S)
                 \/ <<y, x>> \in Earlier("explanations", S)
      <3>1. x[2] \in Nat /\ x[3] \in Nat /\ y[2] \in Nat /\ y[3] \in Nat
        BY <1>4
      <3>2. CASE x[2] = y[2] /\ x[3] = y[3]
        BY <1>5, <3>2
      <3>3. CASE ~(x[2] = y[2] /\ x[3] = y[3])
        BY <1>6, <3>1, <3>3
      <3>4. QED  BY <3>2, <3>3
    <2>4. QED  BY <2>1, <2>2, <2>3 DEF StrictOn
  <1>8. QED  BY <1>3, <1>7

\* what an export shows of a single run that it shows as ended
LEMMA ShowsOneRun ==
  ASSUME IInv, NEW e \in Export, Ordered(e), ShowsEnded(e), NEW r \in Run, filter[e] = {r}
  PROVE  /\ got[e].runs \in [1..1 -> {<<r, "ended">>}]
         /\ \A t \in {"syncs", "candidates", "summaries"} :
              InOrder(got[e][t], Rows(t, {r}), t)
  <1>1. TypeOK /\ Progress(e) /\ Whole(e, r) /\ Len(Query) = 5
    BY DEF IInv, ShowsTrue, Query
  <1>2. \A t \in Table : HasRead(e, t)
    <2>1. Answered(e) = 5
      BY <1>1 DEF ShowsEnded
    <2>2. \A t \in Table : \E i \in 1..5 : Query[i] = t
      <3>1. Query[1] = "runs" /\ Query[2] = "syncs" /\ Query[3] = "candidates"
            /\ Query[4] = "explanations" /\ Query[5] = "summaries"
        BY DEF Query
      <3>2. QED  BY <3>1 DEF Table
    <2>3. QED  BY <2>1, <2>2 DEF HasRead
  <1>3. Lines(got[e].runs) = {<<r, "ended">>}
    BY DEF ShowsEnded
  <1>4. \A t \in Table : Of(r, Lines(got[e][t])) = Lines(got[e][t])
    BY <1>2 DEF Ordered, Of
  <1>5. got[e].runs \in [1..1 -> {<<r, "ended">>}]
    <2>1. Cardinality({<<r, "ended">>}) = 1
      BY FS_Singleton
    <2>2. InOrder(got[e].runs, Lines(got[e].runs), "runs")
      BY <1>2 DEF Ordered, Table
    <2>3. QED  BY <1>3, <2>1, <2>2 DEF InOrder, Arranged
  <1>6. /\ Lines(got[e].syncs) = Of(r, WalletSyncRuns({r}))
        /\ Lines(got[e].candidates) = Of(r, CandidatesOf({r}))
        /\ Lines(got[e].summaries) = Of(r, WalletSummaries({r}))
    BY <1>1, <1>2, <1>3, <1>4 DEF Whole, Table
  <1>7. \A t \in Table : Of(r, Rows(t, {r})) = Rows(t, {r})
    BY <1>1, RowsOfRuns DEF Of
  <1>8. /\ Of(r, WalletSyncRuns({r})) = Rows("syncs", {r})
        /\ Of(r, CandidatesOf({r})) = Rows("candidates", {r})
        /\ Of(r, WalletSummaries({r})) = Rows("summaries", {r})
    BY <1>7, WhichRows DEF Table
  <1>9. \A t \in {"syncs", "candidates", "summaries"} : Lines(got[e][t]) = Rows(t, {r})
    BY <1>6, <1>8
  <1>10. \A t \in {"syncs", "candidates", "summaries"} :
           InOrder(got[e][t], Rows(t, {r}), t)
    BY <1>2, <1>9 DEF Ordered, Table
  <1>11. QED  BY <1>5, <1>10

\* and of its explanations, when its candidates are steady: they are those of its
\* candidates, each with the fingerprint of its transfer
LEMMA ExplainsOneRun ==
  ASSUME IInv, NEW e \in Export, Ordered(e), ShowsEnded(e), NEW r \in Run, filter[e] = {r},
         \A c \in CandidatesOf({r}) : Steady(c[3])
  PROVE  LET S == Lines(got[e].explanations)
         IN  /\ \A x : x \in S <=> /\ x \in Run \X Wallet \X Transfer \X Fingerprint
                                   /\ Key(x) \in CandidatesOf({r})
                                   /\ <<x[3], x[4]>> \in Sightings
             /\ IsFiniteSet(S) /\ StrictOn(S, Earlier("explanations", S))
             /\ InOrder(got[e].explanations, S, "explanations")
  <1> DEFINE S == Lines(got[e].explanations)
             C == CandidatesOf({r})
  <1>1. TypeOK /\ Progress(e) /\ ShowsTrue(e) /\ Whole(e, r) /\ Len(Query) = 5
    BY DEF IInv, ShowsTrue, Query
  <1>2. HasRead(e, "candidates") /\ HasRead(e, "explanations")
    BY <1>1, WhatIsRead DEF ShowsEnded
  <1>3. Lines(got[e].candidates) = C
    <2>1. InOrder(got[e].candidates, Rows("candidates", {r}), "candidates")
      BY ShowsOneRun
    <2>2. QED  BY <2>1, WhichRows DEF InOrder, Arranged
  <1>4. S \subseteq Run \X Wallet \X Transfer \X Fingerprint
    BY <1>1 DEF TypeOK, RowOf, Table
  <1>5. \A x \in S : Key(x) \in C /\ <<x[3], x[4]>> \in Sightings
    BY <1>1, <1>2 DEF ShowsTrue, Seen
  <1>6. \A c \in C : \E x \in S : {y \in S : Key(y) = c} = {x}
    <2>1. \A c \in Lines(got[e].candidates) :
            Steady(c[3]) => \E x \in S : {y \in S : Key(y) = c} = {x}
      BY <1>1, <1>2, Zenon DEF ShowsTrue, Explained
    <2> HIDE DEF S, C
    <2>2. \A c \in C : Steady(c[3])
      BY DEF C
    <2>3. QED  BY <1>3, <2>1, <2>2, Zenon
  <1>7. \A x, y \in S : Key(x) = Key(y) => x = y
    <2> HIDE DEF S, C
    <2>1. ASSUME NEW x \in S, NEW y \in S, Key(x) = Key(y)  PROVE x = y
      <3>1. PICK z \in S : {v \in S : Key(v) = Key(x)} = {z}
        BY <1>5, <1>6
      <3>2. x \in {v \in S : Key(v) = Key(x)} /\ y \in {v \in S : Key(v) = Key(x)}
        BY <2>1
      <3>3. QED  BY <3>1, <3>2
    <2>2. QED  BY <2>1
  <1>8. ASSUME NEW x \in Run \X Wallet \X Transfer \X Fingerprint, Key(x) \in C,
               <<x[3], x[4]>> \in Sightings
        PROVE  x \in S
    <2>1. PICK z \in S : {v \in S : Key(v) = Key(x)} = {z}
      BY <1>6, <1>8
    <2>2. Key(z) = Key(x) /\ <<z[3], z[4]>> \in Sightings
      <3> HIDE DEF S, C
      <3>1. z \in {v \in S : Key(v) = Key(x)}
        BY <2>1
      <3>2. QED  BY <1>5, <3>1
    <2>3. z[1] = x[1] /\ z[2] = x[2] /\ z[3] = x[3]
      BY <2>2 DEF Key
    <2>4. PICK g \in Fingerprint : \A p \in Sightings : p[1] = x[3] <=> p[2] = g
      <3>1. Steady(Key(x)[3])
        BY <1>8
      <3>2. QED  BY <3>1 DEF Steady, Key
    <2>5. x[4] = g
      <3>1. <<x[3], x[4]>>[1] = x[3] /\ <<x[3], x[4]>>[2] = x[4]
        OBVIOUS
      <3>2. QED  BY <1>8, <2>4, <3>1
    <2>6. z[4] = g
      <3>1. <<z[3], z[4]>>[1] = x[3] /\ <<z[3], z[4]>>[2] = z[4]
        BY <2>3
      <3>2. QED  BY <2>2, <2>4, <3>1
    <2>7. z = x
      <3>1. z \in Run \X Wallet \X Transfer \X Fingerprint
        BY <1>4
      <3> HIDE DEF S, C
      <3>2. QED  BY <2>3, <2>5, <2>6, <3>1
    <2>8. QED  BY <2>7
  <1>9. IsFiniteSet(S) /\ StrictOn(S, Earlier("explanations", S))
    <2>1. \A x \in S : x[1] = r
      BY <1>5 DEF CandidatesOf, Key
    <2> HIDE DEF S
    <2>2. QED  BY <1>4, <1>7, <2>1, ExplanationsStrict
  <1>10. InOrder(got[e].explanations, S, "explanations")
    BY <1>2 DEF Ordered, Table
  <1>11. QED  BY <1>4, <1>5, <1>8, <1>9, <1>10

(***************************************************************************)
(* Two exports of one run that show it as ended show the same rows in the  *)
(* same order: what they show of it is all there will be, and ORDER BY     *)
(* with the sort functions of ExportDataset leave it one order.  They show *)
(* the same explanations when the transfers of its candidates are steady.  *)
(***************************************************************************)
THEOREM ExportsReproducible == Spec => []RunExportsReproducible
  <1>1. ASSUME IInv, OrderInv, NEW e \in Export, NEW f \in Export,
               ShowsEnded(e), ShowsEnded(f), filter[e] = filter[f], Cardinality(filter[e]) = 1
        PROVE  SameRows(e, f)
    <2>1. PICK r \in Run : filter[e] = {r}
      <3>1. filter[e] \in SUBSET Run
        BY <1>1 DEF IInv, TypeOK
      <3>2. IsFiniteSet(filter[e])
        BY <3>1, ExportAssumption, FS_Subset
      <3>3. QED  BY <1>1, <3>1, <3>2, FS_Singleton
    <2>2. TypeOK /\ filter[f] = {r} /\ \A c \in Export : Ordered(c)
      BY <1>1, <2>1 DEF IInv, OrderInv
    <2>3. got[e].runs = got[f].runs
      BY <1>1, <2>1, <2>2, ShowsOneRun
    <2>4. got[e].syncs = got[f].syncs
      BY <1>1, <2>1, <2>2, ShowsOneRun, SyncsStrict, ArrangedOnce DEF InOrder
    <2>5. got[e].candidates = got[f].candidates
      <3>1. Rows("candidates", {r}) = CandidatesOf({r})
        BY WhichRows
      <3>2. QED
        BY <1>1, <2>1, <2>2, <3>1, ShowsOneRun, CandidatesStrict, ArrangedOnce DEF InOrder
    <2>6. ASSUME \A c \in Lines(got[e].candidates) : Steady(c[3])
          PROVE  got[e].explanations = got[f].explanations
      <3> DEFINE S == Lines(got[e].explanations)
                 T == Lines(got[f].explanations)
      <3>1. Lines(got[e].candidates) = CandidatesOf({r})
        <4>1. InOrder(got[e].candidates, Rows("candidates", {r}), "candidates")
          BY <1>1, <2>1, <2>2, ShowsOneRun
        <4>2. QED  BY <4>1, WhichRows DEF InOrder, Arranged
      <3>2. \A c \in CandidatesOf({r}) : Steady(c[3])
        BY <2>6, <3>1
      <3>3. /\ \A x : x \in S <=> /\ x \in Run \X Wallet \X Transfer \X Fingerprint
                                  /\ Key(x) \in CandidatesOf({r})
                                  /\ <<x[3], x[4]>> \in Sightings
            /\ IsFiniteSet(S) /\ StrictOn(S, Earlier("explanations", S))
            /\ InOrder(got[e].explanations, S, "explanations")
        BY <1>1, <2>1, <2>2, <3>2, ExplainsOneRun
      <3>4. /\ \A x : x \in T <=> /\ x \in Run \X Wallet \X Transfer \X Fingerprint
                                  /\ Key(x) \in CandidatesOf({r})
                                  /\ <<x[3], x[4]>> \in Sightings
            /\ InOrder(got[f].explanations, T, "explanations")
        BY <1>1, <2>1, <2>2, <3>2, ExplainsOneRun
      <3> HIDE DEF S, T
      <3>5. S = T
        BY <3>3, <3>4
      <3>6. QED  BY <3>3, <3>4, <3>5, ArrangedOnce DEF InOrder
    <2>7. got[e].summaries = got[f].summaries
      BY <1>1, <2>1, <2>2, ShowsOneRun, SummariesStrict, ArrangedOnce DEF InOrder
    <2>8. QED  BY <2>3, <2>4, <2>5, <2>6, <2>7 DEF SameRows, Table
  <1>2. IInv /\ OrderInv => RunExportsReproducible
    BY <1>1 DEF RunExportsReproducible
  <1>3. QED  BY <1>2, InitOrder, OrderStep, Invariant, PTL DEF Spec
=============================================================================
