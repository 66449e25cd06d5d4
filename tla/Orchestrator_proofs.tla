------------------------- MODULE Orchestrator_proofs -------------------------
(***************************************************************************)
(* Theorems about Orchestrator, for every set of runs and of wallets, all  *)
(* limits and any number of faults.                                        *)
(***************************************************************************)
EXTENDS Orchestrator, FiniteSetTheorems, TLAPS

-----------------------------------------------------------------------------
(* The invariant.                                                          *)

\* a worker that has no error to report left its row as it says
WorkerInv(r, w) ==
  outcome[r][w].err = "nil" =>
    /\ step[r][w] \in {"ended", "sent"}
    /\ outcome[r][w].status \in {"succeeded", "partial"}
    /\ sync[r][w] = outcome[r][w].status

\* no worker of r is under way, nor will be
Quiet(r) == \A w \in Wallet : step[r][w] \in {"none", "sent"}

\* v sums up the outcomes of r
Sums(r, v) ==
  /\ v.status \in Ended
  /\ v.status = "succeeded" => Done(r) = list[r] /\ Partial(r) = {}
  /\ v.requested = Cardinality(list[r])
  /\ v.processed = Cardinality(Done(r))
  /\ v.failed = Cardinality(Failed(r))
  /\ v.skipped = Cardinality(Skipped(r))

Good == {"succeeded", "partially_succeeded"}

\* a context that is live now was live when v was derived
Current(r, v) == Clean(r) => v.status \in Good

\* how far r has come is how far its workers have
Workers(r) ==
  /\ \A w \in Wallet \ list[r] : step[r][w] = "none"
  /\ pc[r] \in {"idle", "accepted", "started"} => \A w \in Wallet : step[r][w] = "none"
  /\ pc[r] # "idle" => list[r] # {}
  /\ pc[r] \in {"finalizing", "returning", "over"} => Quiet(r)
  /\ row[r].status \in Ended => Quiet(r)

\* what r has derived, written and returned
Summary(r) ==
  /\ pc[r] = "finalizing" => Sums(r, verdict[r]) /\ Current(r, verdict[r])
  /\ pc[r] = "returning" => row[r].status \in Ended /\ Current(r, row[r])
  /\ row[r].status \in Ended => pc[r] \in {"returning", "over", "dead"} /\ Sums(r, row[r])
  /\ result[r] = "nil" => /\ pc[r] = "over"
                          /\ Done(r) = list[r]
                          /\ row[r].status \in Good

RunInv(r) == Workers(r) /\ Summary(r) /\ \A w \in Wallet : WorkerInv(r, w)

IInv == TypeOK /\ \A r \in Run : RunInv(r)

-----------------------------------------------------------------------------
(* Types.                                                                  *)

LEMMA ListsAreFinite ==
  ASSUME NEW ws \in SUBSET Wallet
  PROVE  IsFiniteSet(ws) /\ Cardinality(ws) \in Nat
  BY WalletAssumption, FS_Subset, FS_CardinalityType

LEMMA InitType == Init => TypeOK
  <1>1. NoRow \in Rows /\ NoOutcome \in Outcomes
    BY DEF NoRow, NoOutcome, Rows, Outcomes
  <1>2. 0 \in 0..MaxLimit
    BY LimitAssumption
  <1>3. QED  BY <1>1, <1>2 DEF Init, TypeOK

\* a run goes to one of two places
LEMMA GotoType ==
  ASSUME TypeOK, NEW r \in Run,
         NEW here \in {"started", "returning"},
         Goto(r, here) \/ Goto(r, "over")
  PROVE  pc' \in [Run -> {"idle", "accepted", "started", "waiting", "finalizing",
                          "returning", "over", "dead"}]
  <1>1. pc \in [Run -> {"idle", "accepted", "started", "waiting", "finalizing",
                        "returning", "over", "dead"}]
    BY DEF TypeOK
  <1>2. CASE Goto(r, here)
    BY <1>1, <1>2 DEF Goto
  <1>3. CASE Goto(r, "over")
    BY <1>1, <1>3 DEF Goto
  <1>4. QED  BY <1>2, <1>3

LEMMA StrikeType ==
  ASSUME struck \in SUBSET Run, NEW r \in Run, Strike(r)
  PROVE  struck' \in SUBSET Run
  BY DEF Strike

LEMMA SumsAreCounts ==
  ASSUME TypeOK, NEW r \in Run
  PROVE  /\ Cardinality(list[r]) \in Nat /\ Cardinality(Done(r)) \in Nat
         /\ Cardinality(Failed(r)) \in Nat /\ Cardinality(Skipped(r)) \in Nat
         /\ Cardinality(CapHits(r)) \in Nat
  <1>1. list[r] \in SUBSET Wallet
    BY DEF TypeOK
  <1>2. {Done(r), Failed(r), Skipped(r), CapHits(r)} \subseteq SUBSET Wallet
    BY <1>1 DEF Done, Failed, Skipped, CapHits
  <1>3. QED  BY <1>1, <1>2, ListsAreFinite

LEMMA StatusHasEnded ==
  ASSUME TypeOK, NEW r \in Run
  PROVE  RunStatus(r) \in Ended
  <1>1. ctx[r] \in {"live", "deadline", "cancelled"}
    BY DEF TypeOK
  <1>2. CASE ctx[r] # "live"
    BY <1>1, <1>2 DEF RunStatus, Ended
  <1>3. CASE ctx[r] = "live" /\ Done(r) = list[r]
    BY <1>3 DEF RunStatus, Ended
  <1>4. CASE ctx[r] = "live" /\ Done(r) # list[r]
    BY <1>4 DEF RunStatus, Ended
  <1>5. QED  BY <1>2, <1>3, <1>4

LEMMA BeginType ==
  ASSUME TypeOK, NEW r \in Run, Begin(r)
  PROVE  TypeOK'
  <1>0. MaxLimit \in 0..MaxLimit
    BY LimitAssumption
  <1>1. CASE RunStart(r)
    BY <1>1, WalletAssumption
    DEF TypeOK, RunStart, Goto, control, workers, ends
  <1>2. CASE LoadFile(r)
    <2>1. PICK ws \in SUBSET Wallet : list' = [list EXCEPT ![r] = ws]
                /\ \/ Spawn(r, ws) /\ row' = [row EXCEPT ![r] = NewRow] /\ UNCHANGED <<result, struck>>
                   \/ /\ Goto(r, "over") /\ Strike(r)
                      /\ row' \in {row, [row EXCEPT ![r] = NewRow]}
                      /\ result' = [result EXCEPT ![r] = "error"]
                      /\ UNCHANGED step
      BY <1>2, WalletAssumption DEF LoadFile
    <2>3. NewRow \in Rows
      BY DEF NewRow, NoRow, Rows
    <2>4. max' = [max EXCEPT ![r] = MaxLimit] /\ UNCHANGED <<limit, ctx, outcome, sync, holder, verdict>>
      BY <1>2 DEF LoadFile
    <2>5. CASE Spawn(r, ws) /\ row' = [row EXCEPT ![r] = NewRow] /\ UNCHANGED <<result, struck>>
      BY <1>0, <2>1, <2>3, <2>4, <2>5 DEF TypeOK, Spawn, Goto
    <2>6. CASE /\ Goto(r, "over") /\ Strike(r)
               /\ row' \in {row, [row EXCEPT ![r] = NewRow]}
               /\ result' = [result EXCEPT ![r] = "error"]
               /\ UNCHANGED step
      <3>1. struck' \in SUBSET Run
        BY <2>6, StrikeType DEF TypeOK
      <3>2. list' \in [Run -> SUBSET Wallet] /\ max' \in [Run -> 0..MaxLimit]
        BY <1>0, <2>1, <2>4 DEF TypeOK
      <3>3. row' \in [Run -> Rows]
        <4>1. row \in [Run -> Rows] /\ [row EXCEPT ![r] = NewRow] \in [Run -> Rows]
          BY <2>3 DEF TypeOK
        <4>2. QED  BY <2>6, <4>1
      <3>4. result' \in [Run -> {"none", "nil", "error"}]
        BY <2>6 DEF TypeOK
      <3>5. pc' \in [Run -> {"idle", "accepted", "started", "waiting", "finalizing",
                             "returning", "over", "dead"}]
        BY <2>6 DEF TypeOK, Goto
      <3>6. UNCHANGED <<limit, ctx, outcome, sync, holder, verdict, step>>
        BY <2>4, <2>6
      <3>7. QED  BY <3>1, <3>2, <3>3, <3>4, <3>5, <3>6 DEF TypeOK
    <2>7. QED  BY <2>1, <2>5, <2>6
  <1>3. QED  BY <1>1, <1>2 DEF Begin

LEMMA AdvanceType ==
  ASSUME TypeOK, NEW r \in Run, Advance(r)
  PROVE  TypeOK'
  <1>0. NewRow \in Rows
    BY DEF NewRow, NoRow, Rows
  <1>1. CASE RunStarter(r)
    <2>1. limit \in 0..MaxLimit
      BY DEF TypeOK
    <2>2. row' \in [Run -> Rows]
      <3>1. row \in [Run -> Rows] /\ [row EXCEPT ![r] = NewRow] \in [Run -> Rows]
        BY <1>0 DEF TypeOK
      <3>2. row' \in {row, [row EXCEPT ![r] = NewRow]}
        BY <1>1 DEF RunStarter
      <3>3. QED  BY <3>1, <3>2
    <2>3. struck' \in SUBSET Run
      <3>1. struck \in SUBSET Run  BY DEF TypeOK
      <3>2. UNCHANGED struck \/ Strike(r)
        BY <1>1 DEF RunStarter
      <3>3. QED  BY <3>1, <3>2, StrikeType
    <2>4. pc' \in [Run -> {"idle", "accepted", "started", "waiting", "finalizing",
                           "returning", "over", "dead"}]
      <3>1. Goto(r, "started") \/ Goto(r, "over")
        BY <1>1 DEF RunStarter
      <3>2. QED  BY <3>1, GotoType
    <2>5. max' \in [Run -> 0..MaxLimit]
      BY <1>1 DEF TypeOK, RunStarter
    <2>6. UNCHANGED <<limit, list, ctx, step, outcome, sync, holder, verdict, result>>
      BY <1>1 DEF RunStarter, workers
    <2>7. QED  BY <2>2, <2>3, <2>4, <2>5, <2>6 DEF TypeOK
  <1>2. CASE RefuseList(r)
    BY <1>2 DEF TypeOK, RefuseList, Goto, workers
  <1>3. CASE AdmitList(r)
    BY <1>3 DEF TypeOK, AdmitList, Spawn, Goto, ends
  <1>4. CASE Aggregate(r)
    <2>1. verdict' \in [Run -> Rows]
      BY <1>4, SumsAreCounts, StatusHasEnded DEF TypeOK, Aggregate, Rows
    <2>2. QED  BY <1>4, <2>1 DEF TypeOK, Aggregate, Goto, workers
  <1>5. CASE FinalizeIngestionRun(r)
    <2>1. row' \in [Run -> Rows]
      <3>1. verdict[r] \in Rows /\ row \in [Run -> Rows]
        BY DEF TypeOK
      <3>2. row' = row \/ row' = [row EXCEPT ![r] = verdict[r]]
        BY <1>5 DEF FinalizeIngestionRun
      <3>3. QED  BY <3>1, <3>2
    <2>5. result' \in [Run -> {"none", "nil", "error"}]
      BY <1>5 DEF TypeOK, FinalizeIngestionRun
    <2>2. struck' \in SUBSET Run
      BY <1>5, StrikeType DEF TypeOK, FinalizeIngestionRun
    <2>3. pc' \in [Run -> {"idle", "accepted", "started", "waiting", "finalizing",
                           "returning", "over", "dead"}]
      <3>1. Goto(r, "returning") \/ Goto(r, "over")
        BY <1>5 DEF FinalizeIngestionRun
      <3>2. QED  BY <3>1, GotoType
    <2>6. UNCHANGED <<limit, max, list, ctx, step, outcome, sync, holder, verdict>>
      BY <1>5 DEF FinalizeIngestionRun, workers
    <2>4. QED  BY <2>1, <2>2, <2>3, <2>5, <2>6 DEF TypeOK
  <1>6. CASE Return(r)
    BY <1>6 DEF TypeOK, Return, Goto, workers
  <1>7. QED  BY <1>1, <1>2, <1>3, <1>4, <1>5, <1>6 DEF Advance

Steps == {"none", "waiting", "entered", "locked", "running", "ended", "sent"}
SyncStatus == {"none", "running"} \cup WalletStatus

LEMMA ErrorType ==
  ASSUME NEW err \in {"locked", "other"}
  PROVE  /\ Error(err) \in Outcomes /\ Error(err).err # "nil"
         /\ [Error(err) EXCEPT !.status = "failed"] \in Outcomes
         /\ [Error(err) EXCEPT !.status = "failed"].err # "nil"
  BY DEF Error, NoOutcome, Outcomes, WalletStatus

LEMMA ReportsType ==
  ASSUME NEW o \in Reports
  PROVE  /\ o \in Outcomes
         /\ [o EXCEPT !.err = "other"] \in Outcomes
         /\ [o EXCEPT !.err = "other"].err # "nil"
         /\ o.status \in WalletStatus
         /\ o.err = "nil" => o.status \in {"succeeded", "partial"}
  BY DEF Reports, Outcomes, WalletStatus

LEMMA FailedOutcome ==
  ASSUME NEW o \in Outcomes
  PROVE  /\ [o EXCEPT !.err = "other"] \in Outcomes
         /\ [o EXCEPT !.err = "other"].err # "nil"
  BY DEF Outcomes

\* an outcome o and a row status y that a worker may leave in state where
Truthful(where, o, y) ==
  o.err = "nil" => /\ where \in {"ended", "sent"}
                   /\ o.status \in {"succeeded", "partial"}
                   /\ y = o.status

\* what the step of a worker changes
Changes(r, w, where, o, y) ==
  /\ step' = [step EXCEPT ![r][w] = where]
  /\ outcome' = [outcome EXCEPT ![r][w] = o]
  /\ sync' = [sync EXCEPT ![r][w] = y]

LEMMA Own ==
  ASSUME TypeOK, NEW r \in Run, NEW w \in Wallet
  PROVE  /\ step[r][w] \in Steps
         /\ outcome[r][w] \in Outcomes
         /\ sync[r][w] \in SyncStatus
         /\ outcome = [outcome EXCEPT ![r][w] = outcome[r][w]]
         /\ sync = [sync EXCEPT ![r][w] = sync[r][w]]
  BY DEF TypeOK, Steps, SyncStatus

LEMMA WorkerChanges ==
  ASSUME TypeOK, NEW r \in Run, NEW w \in Wallet, WorkerInv(r, w), Worker(r, w)
  PROVE  /\ step[r][w] \notin {"none", "sent"}
         /\ \E where \in Steps \ {"none"}, o \in Outcomes, y \in SyncStatus :
              Changes(r, w, where, o, y) /\ Truthful(where, o, y)
  <1> DEFINE Left(where, o, y) == /\ where \in Steps \ {"none"}
                                  /\ o \in Outcomes
                                  /\ y \in SyncStatus
                                  /\ Changes(r, w, where, o, y)
                                  /\ Truthful(where, o, y)
  <1>1. CASE Enter(r, w)
    <2>1. Left("entered", outcome[r][w], sync[r][w])
      BY <1>1, Own DEF Changes, Truthful, Steps, Enter, Move, WorkerInv
    <2>2. QED  BY <1>1, <2>1 DEF Enter
  <1>2. CASE TurnAway(r, w)
    <2>1. Left("sent", Error("other"), sync[r][w])
      BY <1>2, Own, ErrorType DEF Changes, Truthful, Steps, TurnAway, Send, Move
    <2>2. QED  BY <1>2, <2>1 DEF TurnAway
  <1>3. CASE Acquire(r, w)
    <2>1. Left("locked", outcome[r][w], sync[r][w])
      BY <1>3, Own DEF Changes, Truthful, Steps, Acquire, Move, WorkerInv
    <2>2. QED  BY <1>3, <2>1 DEF Acquire
  <1>4. CASE Conflict(r, w)
    <2>1. Left("sent", Error("locked"), sync[r][w])
      BY <1>4, Own, ErrorType DEF Changes, Truthful, Steps, Conflict, Send, Move
    <2>2. QED  BY <1>4, <2>1 DEF Conflict
  <1>5. CASE AcquireFails(r, w)
    <2>1. Left("sent", Error("other"), sync[r][w])
      BY <1>5, Own, ErrorType DEF Changes, Truthful, Steps, AcquireFails, Send, Move
    <2>2. QED  BY <1>5, <2>1 DEF AcquireFails
  <1>6. CASE RunWallet(r, w)
    <2>1. Left("running", outcome[r][w], "running")
      BY <1>6, Own DEF Changes, Truthful, Steps, SyncStatus, RunWallet, Move, WorkerInv
    <2>2. QED  BY <1>6, <2>1 DEF RunWallet
  <1>7. CASE WalletTooLate(r, w)
    <2>1. Left("ended", Error("other"), sync[r][w])
      BY <1>7, Own, ErrorType DEF Changes, Truthful, Steps, WalletTooLate, End, Move
    <2>2. QED  BY <1>7, <2>1 DEF WalletTooLate
  <1>8. CASE RunWalletFails(r, w)
    <2>1. PICK y \in {sync[r][w], "running"} : sync' = [sync EXCEPT ![r][w] = y]
      BY <1>8, Own DEF RunWalletFails
    <2>2. Left("ended", [Error("other") EXCEPT !.status = "failed"], y)
      BY <1>8, <2>1, Own, ErrorType
      DEF Changes, Truthful, Steps, SyncStatus, RunWalletFails, End, Move
    <2>3. QED  BY <1>8, <2>2 DEF RunWalletFails
  <1>9. CASE RunWalletEnds(r, w)
    <2>1. PICK o \in Reports : FinalizeWallet(r, w, o)
      BY <1>9 DEF RunWalletEnds
    <2>2. CASE sync' = [sync EXCEPT ![r][w] = o.status] /\ End(r, w, o)
      <3>1. Left("ended", o, o.status)
        BY <2>2, ReportsType DEF Changes, Truthful, Steps, SyncStatus, End, Move
      <3>2. QED  BY <1>9, <3>1 DEF RunWalletEnds
    <2>3. CASE /\ sync' \in {sync, [sync EXCEPT ![r][w] = o.status]}
               /\ End(r, w, [o EXCEPT !.err = "other"])
      <3>1. PICK y \in {sync[r][w], o.status} : sync' = [sync EXCEPT ![r][w] = y]
        BY <2>3, Own
      <3>2. Left("ended", [o EXCEPT !.err = "other"], y)
        BY <2>3, <3>1, Own, ReportsType DEF Changes, Truthful, Steps, SyncStatus, End, Move
      <3>3. QED  BY <1>9, <3>2 DEF RunWalletEnds
    <2>4. QED  BY <2>1, <2>2, <2>3 DEF FinalizeWallet
  <1>10. CASE Release(r, w)
    <2>1. PICK o \in {outcome[r][w], [outcome[r][w] EXCEPT !.err = "other"]} : Send(r, w, o)
      BY <1>10 DEF Release
    <2>2. Left("sent", o, sync[r][w])
      <3>1. o \in Outcomes /\ (o.err = "nil" => o = outcome[r][w])
        BY <2>1, Own, FailedOutcome
      <3>2. QED  BY <1>10, <2>1, <3>1, Own
                 DEF Changes, Truthful, Steps, Release, Send, Move, WorkerInv
    <2>3. QED  BY <1>10, <2>2 DEF Release
  <1>11. QED
    BY <1>1, <1>2, <1>3, <1>4, <1>5, <1>6, <1>7, <1>8, <1>9, <1>10 DEF Worker

LEMMA WorkerHolds ==
  ASSUME TypeOK, NEW r \in Run, NEW w \in Wallet, Worker(r, w)
  PROVE  /\ holder' \in [Wallet -> Run \cup {NoRun}]
         /\ \A v \in Wallet, q \in Run : holder'[v] = q => holder[v] = q \/ (q = r /\ v = w)
  <1>1. PICK who \in {holder[w], r, NoRun} : holder' = [holder EXCEPT ![w] = who]
    BY DEF TypeOK, Worker, Enter, TurnAway, Acquire, Conflict, AcquireFails, RunWallet,
           WalletTooLate, RunWalletFails, RunWalletEnds, Release
  <1>2. who # NoRun => who \in {holder[w], r}
    BY <1>1
  <1>3. NoRun \notin Run
    BY RunAssumption
  <1>4. QED  BY <1>1, <1>2, <1>3 DEF TypeOK

LEMMA WorkerType ==
  ASSUME TypeOK, NEW r \in Run, NEW w \in Wallet, WorkerInv(r, w), Worker(r, w)
  PROVE  TypeOK'
  <1>1. PICK where \in Steps, o \in Outcomes, y \in SyncStatus : Changes(r, w, where, o, y)
    BY WorkerChanges
  <1>2. step' \in [Run -> [Wallet -> Steps]]
    BY <1>1 DEF TypeOK, Changes, Steps
  <1>3. outcome' \in [Run -> [Wallet -> Outcomes]]
    BY <1>1 DEF TypeOK, Changes
  <1>4. sync' \in [Run -> [Wallet -> SyncStatus]]
    BY <1>1 DEF TypeOK, Changes, SyncStatus
  <1>5. UNCHANGED <<limit, pc, max, list, ctx, row, verdict, result, struck>>
    BY DEF Worker, control, ends
  <1>6. QED  BY <1>2, <1>3, <1>4, <1>5, WorkerHolds DEF TypeOK, Steps, SyncStatus

LEMMA DieType ==
  ASSUME TypeOK, NEW rs \in SUBSET Run, Die(rs)
  PROVE  TypeOK'
  <1>1. struck' \in SUBSET Run /\ UNCHANGED <<limit, max, list, ctx, row, workers, verdict, result>>
    BY DEF Die, TypeOK
  <1>2. pc' = [r \in Run |-> IF r \in rs /\ pc[r] \notin {"idle", "over"} THEN "dead" ELSE pc[r]]
    BY DEF Die
  <1>3. QED  BY <1>1, <1>2 DEF TypeOK, workers

LEMMA OtherType ==
  ASSUME TypeOK
  PROVE  /\ SaveSettings => TypeOK'
         /\ \A r \in Run : ContextEnds(r) => TypeOK'
         /\ \A w \in Wallet : LockExpires(w) => TypeOK'
         /\ UNCHANGED vars => TypeOK'
  <1>1. SaveSettings => TypeOK'
    BY DEF TypeOK, SaveSettings, control, workers, ends
  <1>2. ASSUME NEW r \in Run, ContextEnds(r) PROVE TypeOK'
    BY <1>2 DEF TypeOK, ContextEnds, workers, ends
  <1>3. ASSUME NEW w \in Wallet, LockExpires(w) PROVE TypeOK'
    BY <1>3 DEF TypeOK, LockExpires, control, ends
  <1>4. UNCHANGED vars => TypeOK'
    BY DEF TypeOK, vars, control, workers, ends
  <1>5. QED  BY <1>1, <1>2, <1>3, <1>4

-----------------------------------------------------------------------------
(* The invariant is inductive.                                             *)

\* what nothing changes keeps its invariant
LEMMA Frame ==
  ASSUME NEW r \in Run, RunInv(r),
         pc'[r] = pc[r], list'[r] = list[r], ctx'[r] = ctx[r], row'[r] = row[r],
         step'[r] = step[r], outcome'[r] = outcome[r], sync'[r] = sync[r],
         verdict'[r] = verdict[r], result'[r] = result[r]
  PROVE  RunInv(r)'
  <1>1. Done(r)' = Done(r)
    BY DEF Done
  <1>2. Skipped(r)' = Skipped(r)
    BY DEF Skipped
  <1>3. Failed(r)' = Failed(r) /\ Partial(r)' = Partial(r)
    BY <1>1, <1>2 DEF Failed, Partial
  <1>4. Clean(r)' = Clean(r) /\ Quiet(r)' = Quiet(r)
    BY <1>1 DEF Clean, Quiet
  <1>5. Workers(r)'
    BY <1>4 DEF RunInv, Workers
  <1>7. Summary(r)'
    BY <1>1, <1>2, <1>3, <1>4 DEF RunInv, Summary, Sums, Current
  <1>8. (\A w \in Wallet : WorkerInv(r, w))'
    BY DEF RunInv, WorkerInv
  <1>9. QED  BY <1>5, <1>7, <1>8 DEF RunInv

LEMMA NewRowRuns == NewRow.status = "running" /\ "running" \notin Ended
  BY DEF NewRow, NoRow, Ended

LEMMA InitInv == Init => IInv
  <1>1. SUFFICES ASSUME Init PROVE \A r \in Run : RunInv(r)
    BY InitType DEF IInv
  <1>2. ASSUME NEW r \in Run PROVE RunInv(r)
    <2>1. /\ pc[r] = "idle" /\ row[r].status = "none" /\ result[r] = "none"
          /\ \A w \in Wallet : step[r][w] = "none" /\ outcome[r][w].err = "none"
      BY <1>1 DEF Init, NoRow, NoOutcome
    <2>2. QED  BY <2>1 DEF RunInv, Workers, Summary, WorkerInv, Ended, Quiet
  <1>3. QED  BY <1>2

\* before its workers a run has nothing to sum up
LEMMA Early ==
  ASSUME NEW r \in Run, RunInv(r), pc[r] \in {"idle", "accepted", "started"}
  PROVE  /\ row[r].status \notin Ended /\ result[r] # "nil"
         /\ \A w \in Wallet : step[r][w] = "none" /\ outcome[r][w].err # "nil"
  BY DEF RunInv, Workers, Summary, WorkerInv

LEMMA BeginInv ==
  ASSUME IInv, NEW r \in Run, Begin(r), NEW q \in Run
  PROVE  RunInv(q)'
  <1>0. TypeOK /\ RunInv(q) /\ RunInv(r)
    BY DEF IInv
  <1>1. CASE q # r
    BY <1>0, <1>1, Frame
    DEF TypeOK, Begin, RunStart, LoadFile, Spawn, Goto, control, workers, ends
  <1>2. CASE q = r /\ RunStart(r)
    <2>1. /\ pc'[r] = "accepted" /\ list'[r] # {}
          /\ row' = row /\ result' = result /\ step' = step /\ outcome' = outcome
      BY <1>0, <1>2, WalletAssumption DEF TypeOK, RunStart, Goto, workers, ends
    <2>2. pc[r] = "idle"
      BY <1>2 DEF RunStart
    <2>3. QED
      BY <1>0, <1>2, <2>1, <2>2, Early DEF RunInv, Workers, Summary, WorkerInv, Quiet
  <1>3. CASE q = r /\ LoadFile(r)
    <2>0. pc[r] = "idle"
      BY <1>3 DEF LoadFile
    <2>1. PICK ws \in SUBSET Wallet :
            /\ ws # {} /\ list' = [list EXCEPT ![r] = ws]
            /\ \/ Spawn(r, ws) /\ row' = [row EXCEPT ![r] = NewRow] /\ UNCHANGED <<result, struck>>
               \/ /\ Goto(r, "over")
                  /\ row' \in {row, [row EXCEPT ![r] = NewRow]}
                  /\ result' = [result EXCEPT ![r] = "error"]
                  /\ UNCHANGED step
      BY <1>3, WalletAssumption DEF LoadFile
    <2>2. list'[r] = ws /\ outcome' = outcome
      BY <1>0, <1>3, <2>1 DEF TypeOK, LoadFile
    <2>3. row'[r].status \notin Ended /\ result'[r] # "nil"
      BY <1>0, <2>0, <2>1, Early, NewRowRuns DEF TypeOK
    <2>4. CASE Spawn(r, ws)
      <3>1. /\ pc'[r] = "waiting"
            /\ step'[r] = [w \in Wallet |-> IF w \in ws THEN "waiting" ELSE "none"]
        BY <1>0, <2>4 DEF TypeOK, Spawn, Goto
      <3>2. QED
        BY <1>0, <1>3, <2>0, <2>1, <2>2, <2>3, <3>1, Early
        DEF RunInv, Workers, Summary, WorkerInv
    <2>5. CASE Goto(r, "over") /\ UNCHANGED step
      <3>1. pc'[r] = "over"
        BY <1>0, <2>5 DEF TypeOK, Goto
      <3>2. QED
        BY <1>0, <1>3, <2>0, <2>1, <2>2, <2>3, <2>5, <3>1, Early
        DEF RunInv, Workers, Summary, WorkerInv, Quiet
    <2>6. QED  BY <2>1, <2>4, <2>5
  <1>4. QED  BY <1>1, <1>2, <1>3 DEF Begin

LEMMA StartInv ==
  ASSUME IInv, NEW r \in Run, RunStarter(r) \/ RefuseList(r) \/ AdmitList(r), NEW q \in Run
  PROVE  RunInv(q)'
  <1>0. TypeOK /\ RunInv(q) /\ RunInv(r)
    BY DEF IInv
  <1>1. CASE q # r
    BY <1>0, <1>1, Frame
    DEF TypeOK, RunStarter, RefuseList, AdmitList, Spawn, Goto, workers, ends
  <1>2. CASE q = r
    <2>1. pc[r] \in {"accepted", "started"} /\ list' = list /\ outcome' = outcome
      BY DEF RunStarter, RefuseList, AdmitList, workers
    <2>2. row'[r].status \notin Ended /\ result'[r] # "nil"
      BY <1>0, <2>1, Early, NewRowRuns
      DEF TypeOK, RunStarter, RefuseList, AdmitList, ends
    <2>3. \/ pc'[r] \in {"started", "over"} /\ step' = step
          \/ /\ pc'[r] = "waiting"
             /\ step'[r] = [w \in Wallet |-> IF w \in list[r] THEN "waiting" ELSE "none"]
      BY <1>0 DEF TypeOK, RunStarter, RefuseList, AdmitList, Spawn, Goto, workers
    <2>4. list[r] # {} /\ \A w \in Wallet : step[r][w] = "none" /\ outcome[r][w].err # "nil"
      BY <1>0, <2>1, Early DEF RunInv, Workers
    <2>5. Workers(r)'
      BY <2>1, <2>2, <2>3, <2>4 DEF Workers, Quiet
    <2>6. Summary(r)' /\ \A w \in Wallet : WorkerInv(r, w)'
      BY <2>1, <2>2, <2>3, <2>4 DEF Summary, WorkerInv
    <2>7. QED  BY <1>2, <2>5, <2>6 DEF RunInv
  <1>3. QED  BY <1>1, <1>2

LEMMA SumsUp ==
  ASSUME TypeOK, NEW r \in Run, Aggregate(r)
  PROVE  Sums(r, verdict'[r]) /\ Current(r, verdict'[r])
  <1>1. verdict'[r] =
          [status |-> RunStatus(r),
           requested |-> Cardinality(list[r]),
           processed |-> Cardinality(Done(r)),
           failed |-> Cardinality(Failed(r)),
           skipped |-> Cardinality(Skipped(r)),
           capHits |-> Cardinality(CapHits(r))]
    BY DEF TypeOK, Aggregate
  <1>2. RunStatus(r) = "succeeded" => Done(r) = list[r] /\ Partial(r) = {}
    <2>1. ctx[r] \in {"live", "deadline", "cancelled"}
      BY DEF TypeOK
    <2>2. CASE ctx[r] # "live"
      BY <2>1, <2>2 DEF RunStatus
    <2>3. CASE ctx[r] = "live" /\ Done(r) = list[r]
      BY <2>3 DEF RunStatus
    <2>4. CASE ctx[r] = "live" /\ Done(r) # list[r]
      BY <2>4 DEF RunStatus
    <2>5. QED  BY <2>2, <2>3, <2>4
  <1>3. Clean(r) => RunStatus(r) \in Good
    BY DEF Clean, RunStatus, Good
  <1>4. QED  BY <1>1, <1>2, <1>3, StatusHasEnded DEF Sums, Current

LEMMA AggregateInv ==
  ASSUME IInv, NEW r \in Run, Aggregate(r), NEW q \in Run
  PROVE  RunInv(q)'
  <1>0. TypeOK /\ RunInv(q) /\ RunInv(r)
    BY DEF IInv
  <1>1. CASE q # r
    BY <1>0, <1>1, Frame DEF TypeOK, Aggregate, Goto, workers
  <1>2. CASE q = r
    <2>1. /\ pc[r] = "waiting" /\ pc'[r] = "finalizing"
          /\ UNCHANGED <<list, ctx, row, step, outcome, sync, result>>
      BY <1>0 DEF TypeOK, Aggregate, Goto, workers
    <2>2. Quiet(r)'
      BY <1>0, <2>1 DEF RunInv, Workers, Quiet, Aggregate, AllSent
    <2>3. Done(r)' = Done(r) /\ Skipped(r)' = Skipped(r)
      BY <2>1 DEF Done, Skipped
    <2>4. Failed(r)' = Failed(r) /\ Partial(r)' = Partial(r) /\ Clean(r)' = Clean(r)
      BY <2>1, <2>3 DEF Failed, Partial, Clean
    <2>5. Sums(r, verdict[r])' /\ Current(r, verdict[r])'
      BY <1>0, <2>1, <2>3, <2>4, SumsUp DEF Sums, Current
    <2>6. row[r].status \notin Ended /\ result[r] # "nil"
      BY <1>0, <2>1 DEF RunInv, Summary
    <2>7. Summary(r)'
      BY <2>1, <2>5, <2>6 DEF Summary
    <2>8. Workers(r)'
      BY <1>0, <2>1, <2>2 DEF RunInv, Workers
    <2>9. \A w \in Wallet : WorkerInv(r, w)'
      BY <1>0, <2>1 DEF RunInv, WorkerInv
    <2>10. QED  BY <1>2, <2>7, <2>8, <2>9 DEF RunInv
  <1>3. QED  BY <1>1, <1>2

LEMMA EndInv ==
  ASSUME IInv, NEW r \in Run, FinalizeIngestionRun(r) \/ Return(r), NEW q \in Run
  PROVE  RunInv(q)'
  <1>0. TypeOK /\ RunInv(q) /\ RunInv(r)
    BY DEF IInv
  <1>1. CASE q # r
    <2>1. \A s : pc' = [pc EXCEPT ![r] = s] => pc'[q] = pc[q]
      BY <1>0, <1>1 DEF TypeOK
    <2>2. /\ pc'[q] = pc[q] /\ row'[q] = row[q] /\ result'[q] = result[q]
          /\ UNCHANGED <<list, ctx, step, outcome, sync, verdict>>
      BY <1>0, <1>1, <2>1 DEF TypeOK, FinalizeIngestionRun, Return, Goto, workers
    <2>3. QED  BY <1>0, <2>2, Frame
  <1>2. CASE q = r
    <2>0. /\ pc[r] \in {"finalizing", "returning"}
          /\ UNCHANGED <<list, ctx, step, outcome, sync, verdict>>
      BY DEF FinalizeIngestionRun, Return, workers
    <2>1. Done(r)' = Done(r) /\ Skipped(r)' = Skipped(r)
      BY <2>0 DEF Done, Skipped
    <2>2. Failed(r)' = Failed(r) /\ Partial(r)' = Partial(r) /\ Clean(r)' = Clean(r)
      BY <2>0, <2>1 DEF Failed, Partial, Clean
    <2>3. Quiet(r) /\ Quiet(r)' /\ list[r] # {}
      BY <1>0, <2>0 DEF RunInv, Workers, Quiet
    <2>4. \A w \in Wallet : WorkerInv(r, w)'
      BY <1>0, <2>0 DEF RunInv, WorkerInv
    <2>5. CASE FinalizeIngestionRun(r)
      <3>1. /\ pc[r] = "finalizing" /\ result[r] # "nil" /\ row[r].status \notin Ended
            /\ Sums(r, verdict[r]) /\ Current(r, verdict[r])
        BY <1>0, <2>5 DEF RunInv, Summary, FinalizeIngestionRun
      <3>2. /\ \/ pc'[r] = "returning" /\ row'[r] = verdict[r]
               \/ pc'[r] = "over" /\ row'[r] \in {row[r], verdict[r]}
            /\ result'[r] # "nil"
        BY <1>0, <2>5, <3>1 DEF TypeOK, FinalizeIngestionRun, Goto
      <3>3. /\ Sums(r, verdict[r])' /\ Current(r, verdict[r])'
            /\ verdict' = verdict
        BY <2>0, <2>1, <2>2, <3>1 DEF Sums, Current
      <3>4. Summary(r)'
        BY <3>1, <3>2, <3>3 DEF Summary, Sums, Current
      <3>5. Workers(r)'
        BY <1>0, <2>0, <2>3, <3>2 DEF RunInv, Workers
      <3>6. QED  BY <1>2, <2>4, <3>4, <3>5 DEF RunInv
    <2>6. CASE Return(r)
      <3>1. /\ pc[r] = "returning" /\ row[r].status \in Ended
            /\ Sums(r, row[r]) /\ Current(r, row[r])
        BY <1>0, <2>6 DEF RunInv, Summary, Return
      <3>2. /\ pc'[r] = "over" /\ row' = row
            /\ result'[r] = IF Clean(r) THEN "nil" ELSE "error"
        BY <1>0, <2>6 DEF TypeOK, Return, Goto
      <3>3. Sums(r, row[r])'
        BY <2>0, <2>1, <2>2, <3>1, <3>2 DEF Sums
      <3>4. Summary(r)'
        BY <2>0, <2>1, <3>1, <3>2, <3>3 DEF Summary, Current, Clean
      <3>5. Workers(r)'
        BY <1>0, <2>0, <2>3, <3>2 DEF RunInv, Workers
      <3>6. QED  BY <1>2, <2>4, <3>4, <3>5 DEF RunInv
    <2>7. QED  BY <2>5, <2>6
  <1>3. QED  BY <1>1, <1>2

LEMMA WorkerStepInv ==
  ASSUME IInv, NEW r \in Run, NEW v \in Wallet, Worker(r, v), NEW q \in Run
  PROVE  RunInv(q)'
  <1>0. TypeOK /\ RunInv(q) /\ RunInv(r) /\ WorkerInv(r, v)
    BY DEF IInv, RunInv
  <1>1. UNCHANGED <<pc, list, ctx, row, verdict, result>>
    BY DEF Worker, control, ends
  <1>2. /\ step[r][v] \notin {"none", "sent"}
        /\ \E where \in Steps \ {"none"}, o \in Outcomes, y \in SyncStatus :
             Changes(r, v, where, o, y) /\ Truthful(where, o, y)
    BY <1>0, WorkerChanges
  <1>3. PICK where \in Steps \ {"none"}, o \in Outcomes, y \in SyncStatus :
               Changes(r, v, where, o, y) /\ Truthful(where, o, y)
    BY <1>2
  <1>4. CASE q # r
    <2>1. step'[q] = step[q] /\ outcome'[q] = outcome[q] /\ sync'[q] = sync[q]
      BY <1>0, <1>3, <1>4 DEF TypeOK, Changes
    <2>2. QED  BY <1>0, <1>1, <2>1, Frame
  <1>5. CASE q = r
    <2>1. ~Quiet(r) /\ v \in list[r]
      BY <1>0, <1>2 DEF Quiet, RunInv, Workers
    <2>2. /\ pc[r] \notin {"idle", "accepted", "started", "finalizing", "returning", "over"}
          /\ row[r].status \notin Ended /\ result[r] # "nil"
      BY <1>0, <1>2, <2>1 DEF RunInv, Workers, Summary
    <2>3. \A w \in Wallet \ {v} : /\ step'[r][w] = step[r][w]
                                  /\ outcome'[r][w] = outcome[r][w]
                                  /\ sync'[r][w] = sync[r][w]
      BY <1>0, <1>3 DEF TypeOK, Changes
    <2>4. step'[r][v] = where /\ outcome'[r][v] = o /\ sync'[r][v] = y
      BY <1>0, <1>3 DEF TypeOK, Changes
    <2>5. Workers(r)'
      BY <1>0, <1>1, <2>1, <2>2, <2>3 DEF RunInv, Workers
    <2>6. Summary(r)'
      BY <1>1, <2>2 DEF Summary
    <2>7. ASSUME NEW w \in Wallet PROVE WorkerInv(r, w)'
      <3>1. CASE w = v
        BY <1>3, <2>4, <3>1 DEF WorkerInv, Truthful
      <3>2. CASE w # v
        BY <1>0, <2>3, <3>2 DEF RunInv, WorkerInv
      <3>3. QED  BY <3>1, <3>2
    <2>8. QED  BY <1>5, <2>5, <2>6, <2>7 DEF RunInv
  <1>6. QED  BY <1>4, <1>5

LEMMA DieInv ==
  ASSUME IInv, NEW rs \in SUBSET Run, Die(rs), NEW q \in Run
  PROVE  RunInv(q)'
  <1>0. TypeOK /\ RunInv(q)
    BY DEF IInv
  <1>1. UNCHANGED <<list, ctx, row, step, outcome, sync, verdict, result>>
    BY DEF Die, workers
  <1>2. pc'[q] = IF q \in rs /\ pc[q] \notin {"idle", "over"} THEN "dead" ELSE pc[q]
    BY DEF Die
  <1>3. CASE pc'[q] = pc[q]
    BY <1>0, <1>1, <1>3, Frame
  <1>4. CASE pc'[q] = "dead" /\ pc[q] \notin {"idle", "over"}
    <2>1. result[q] # "nil"
      BY <1>0, <1>4 DEF RunInv, Summary
    <2>2. Done(q)' = Done(q) /\ Skipped(q)' = Skipped(q)
      BY <1>1 DEF Done, Skipped
    <2>3. Failed(q)' = Failed(q) /\ Partial(q)' = Partial(q)
      BY <1>1, <2>2 DEF Failed, Partial
    <2>4. Summary(q)'
      BY <1>0, <1>1, <1>4, <2>1, <2>2, <2>3 DEF RunInv, Summary, Sums
    <2>5. Workers(q)'
      BY <1>0, <1>1, <1>4 DEF RunInv, Workers, Quiet
    <2>6. (\A w \in Wallet : WorkerInv(q, w))'
      BY <1>0, <1>1 DEF RunInv, WorkerInv
    <2>7. QED  BY <2>4, <2>5, <2>6 DEF RunInv
  <1>5. QED  BY <1>2, <1>3, <1>4

\* a context that ends takes nothing back
LEMMA ContextInv ==
  ASSUME IInv, NEW r \in Run, ContextEnds(r), NEW q \in Run
  PROVE  RunInv(q)'
  <1>0. TypeOK /\ RunInv(q)
    BY DEF IInv
  <1>1. UNCHANGED <<pc, list, row, step, outcome, sync, verdict, result>>
    BY DEF ContextEnds, workers, ends
  <1>2. ctx'[q] = "live" => ctx[q] = "live"
    BY <1>0 DEF TypeOK, ContextEnds
  <1>3. Done(q)' = Done(q) /\ Skipped(q)' = Skipped(q)
    BY <1>1 DEF Done, Skipped
  <1>4. Failed(q)' = Failed(q) /\ Partial(q)' = Partial(q) /\ (Clean(q)' => Clean(q))
    BY <1>1, <1>2, <1>3 DEF Failed, Partial, Clean
  <1>5. Summary(q)'
    BY <1>0, <1>1, <1>3, <1>4 DEF RunInv, Summary, Sums, Current
  <1>6. Workers(q)'
    BY <1>0, <1>1 DEF RunInv, Workers, Quiet
  <1>7. (\A w \in Wallet : WorkerInv(q, w))'
    BY <1>0, <1>1 DEF RunInv, WorkerInv
  <1>8. QED  BY <1>5, <1>6, <1>7 DEF RunInv

LEMMA OtherInv ==
  ASSUME IInv, SaveSettings \/ (\E w \in Wallet : LockExpires(w)) \/ UNCHANGED vars,
         NEW q \in Run
  PROVE  RunInv(q)'
  <1>1. UNCHANGED <<pc, list, ctx, row, step, outcome, sync, verdict, result>>
    BY DEF SaveSettings, LockExpires, vars, control, workers, ends
  <1>2. QED  BY <1>1, Frame DEF IInv

LEMMA NextInv == IInv /\ [Next]_vars => IInv'
  <1>1. SUFFICES ASSUME IInv, [Next]_vars PROVE TypeOK' /\ \A q \in Run : RunInv(q)'
    BY DEF IInv
  <1>2. TypeOK
    BY <1>1 DEF IInv
  <1>3. CASE SaveSettings \/ (\E w \in Wallet : LockExpires(w)) \/ UNCHANGED vars
    BY <1>1, <1>2, <1>3, OtherType, OtherInv
  <1>4. ASSUME NEW r \in Run, Begin(r) PROVE TypeOK' /\ \A q \in Run : RunInv(q)'
    BY <1>1, <1>2, <1>4, BeginType, BeginInv
  <1>5. ASSUME NEW r \in Run, Advance(r) PROVE TypeOK' /\ \A q \in Run : RunInv(q)'
    <2>1. TypeOK'
      BY <1>2, <1>5, AdvanceType
    <2>2. CASE RunStarter(r) \/ RefuseList(r) \/ AdmitList(r)
      BY <1>1, <2>1, <2>2, StartInv
    <2>3. CASE Aggregate(r)
      BY <1>1, <2>1, <2>3, AggregateInv
    <2>4. CASE FinalizeIngestionRun(r) \/ Return(r)
      BY <1>1, <2>1, <2>4, EndInv
    <2>5. QED  BY <1>5, <2>2, <2>3, <2>4 DEF Advance
  <1>6. ASSUME NEW r \in Run, ContextEnds(r) PROVE TypeOK' /\ \A q \in Run : RunInv(q)'
    BY <1>1, <1>2, <1>6, OtherType, ContextInv
  <1>7. ASSUME NEW r \in Run, NEW w \in Wallet, Worker(r, w)
        PROVE  TypeOK' /\ \A q \in Run : RunInv(q)'
    <2>1. WorkerInv(r, w)
      BY <1>1 DEF IInv, RunInv
    <2>2. QED  BY <1>1, <1>2, <1>7, <2>1, WorkerType, WorkerStepInv
  <1>8. ASSUME NEW rs \in SUBSET Run, Die(rs) PROVE TypeOK' /\ \A q \in Run : RunInv(q)'
    BY <1>1, <1>2, <1>8, DieType, DieInv
  <1>9. Manual \in SUBSET Run /\ \A r \in File : {r} \in SUBSET Run
    BY DEF Run
  <1>10. QED
    BY <1>1, <1>3, <1>4, <1>5, <1>6, <1>7, <1>8, <1>9 DEF Next

THEOREM Invariant == Spec => []IInv
  BY InitInv, NextInv, PTL DEF Spec

-----------------------------------------------------------------------------
(* The theorems.                                                           *)

\* Every variable of the orchestrator holds values of its kind, with any number of
\* runs, wallets and faults.
THEOREM TypeCorrect == Spec => []TypeOK
  BY Invariant, PTL DEF IInv

\* deriveRunStatus says "succeeded" only when every wallet of the run has a row of
\* wallet_sync_runs that says so.
THEOREM SuccessTotal == Spec => []SuccessIsTotal
  <1>1. ASSUME IInv, NEW r \in Run, row[r].status = "succeeded"
        PROVE  list[r] # {} /\ \A w \in list[r] : sync[r][w] = "succeeded"
    <2>1. TypeOK /\ RunInv(r)
      BY <1>1 DEF IInv
    <2>2. /\ pc[r] \in {"returning", "over", "dead"}
          /\ Done(r) = list[r] /\ Partial(r) = {}
      BY <1>1, <2>1 DEF RunInv, Summary, Sums, Ended
    <2>3. list[r] # {}
      BY <2>1, <2>2 DEF RunInv, Workers
    <2>4. ASSUME NEW w \in list[r] PROVE sync[r][w] = "succeeded"
      <3>1. outcome[r][w].err = "nil" /\ outcome[r][w].status # "partial"
        BY <2>2 DEF Done, Partial
      <3>2. w \in Wallet
        BY <2>1 DEF TypeOK
      <3>3. QED  BY <2>1, <3>1, <3>2 DEF RunInv, WorkerInv
    <2>5. QED  BY <2>3, <2>4
  <1>2. IInv => SuccessIsTotal
    BY <1>1 DEF SuccessIsTotal
  <1>3. QED  BY Invariant, <1>2, PTL

\* The counters of a row that has ended add up to the wallets asked for, and no
\* wallet counts as processed without a result of its own.
THEOREM AddUp == Spec => []WalletsAddUp
  <1>1. ASSUME IInv, NEW r \in Run, row[r].status \in Ended
        PROVE  /\ row[r].requested = Cardinality(list[r])
               /\ row[r].requested = row[r].processed + row[r].failed + row[r].skipped
               /\ row[r].processed <=
                    Cardinality({w \in list[r] : sync[r][w] \in {"succeeded", "partial"}})
    <2> DEFINE Synced == {w \in list[r] : sync[r][w] \in {"succeeded", "partial"}}
    <2>1. TypeOK /\ RunInv(r) /\ Sums(r, row[r])
      BY <1>1 DEF IInv, RunInv, Summary
    <2>2. list[r] \in SUBSET Wallet /\ Synced \in SUBSET Wallet
      BY <2>1 DEF TypeOK
    <2>3. /\ IsFiniteSet(list[r]) /\ IsFiniteSet(Synced)
          /\ IsFiniteSet(Done(r)) /\ IsFiniteSet(Skipped(r)) /\ IsFiniteSet(Done(r) \cup Skipped(r))
      BY <2>2, ListsAreFinite DEF Done, Skipped
    <2>4. Done(r) \subseteq Synced
      BY <2>1, <2>2 DEF RunInv, WorkerInv, Done
    <2>5. Cardinality(Done(r)) <= Cardinality(Synced)
      BY <2>3, <2>4, FS_Subset
    <2>6. /\ Done(r) \cap Skipped(r) = {}
          /\ list[r] \cap (Done(r) \cup Skipped(r)) = Done(r) \cup Skipped(r)
      BY DEF Done, Skipped
    <2>7. Cardinality(Done(r) \cup Skipped(r)) = Cardinality(Done(r)) + Cardinality(Skipped(r)) - 0
      BY <2>3, <2>6, FS_Union, FS_EmptySet
    <2>8. Cardinality(Failed(r)) = Cardinality(list[r]) - Cardinality(Done(r) \cup Skipped(r))
      BY <2>3, <2>6, FS_Difference DEF Failed
    <2>9. QED  BY <2>1, <2>5, <2>7, <2>8, SumsAreCounts DEF Sums
  <1>2. IInv => WalletsAddUp
    BY <1>1 DEF WalletsAddUp
  <1>3. QED  BY Invariant, <1>2, PTL

\* A run that returns no error has processed every wallet and said so in its row,
\* although it reads its context twice.
THEOREM NoErrorMeansDone == Spec => []NoErrorNoLoss
  <1>1. ASSUME IInv, NEW r \in Run, result[r] = "nil"
        PROVE  /\ row[r].status \in {"succeeded", "partially_succeeded"}
               /\ \A w \in list[r] : sync[r][w] \in {"succeeded", "partial"}
    <2>1. TypeOK /\ RunInv(r) /\ Done(r) = list[r] /\ row[r].status \in Good
      BY <1>1 DEF IInv, RunInv, Summary
    <2>2. \A w \in list[r] : w \in Wallet /\ outcome[r][w].err = "nil"
      BY <2>1 DEF TypeOK, Done
    <2>3. QED  BY <2>1, <2>2 DEF RunInv, WorkerInv, Good
  <1>2. IInv => NoErrorNoLoss
    BY <1>1 DEF NoErrorNoLoss
  <1>3. QED  BY Invariant, <1>2, PTL

\* Once a run row has ended, no step writes it, or a row of its wallets, or takes a
\* wallet lock for the run.
THEOREM EndIsLast == Spec => NothingAfterTheEnd
  <1>1. ASSUME IInv, Next, NEW q \in Run, row[q].status \in Ended
        PROVE  Untouched(q)
    <2>1. /\ TypeOK /\ RunInv(q) /\ Quiet(q)
          /\ pc[q] \in {"returning", "over", "dead"}
      BY <1>1 DEF IInv, RunInv, Workers, Summary
    <2>2. CASE SaveSettings
      BY <2>2 DEF SaveSettings, workers, Untouched
    <2>3. ASSUME NEW r \in Run, Begin(r) \/ Advance(r) \/ ContextEnds(r)
          PROVE  Untouched(q)
      <3>1. UNCHANGED <<sync, holder>>
        BY <2>3 DEF Begin, RunStart, LoadFile, Advance, RunStarter, RefuseList, AdmitList,
                    Aggregate, FinalizeIngestionRun, Return, ContextEnds, workers
      <3>2. CASE r = q
        BY <2>1, <2>3, <3>1, <3>2
        DEF Begin, RunStart, LoadFile, Advance, RunStarter, RefuseList, AdmitList,
            Aggregate, FinalizeIngestionRun, Return, ContextEnds, Untouched
      <3>3. CASE r # q
        <4>1. row'[q] = row[q]
          BY <2>1, <2>3, <3>3
          DEF TypeOK, Begin, RunStart, LoadFile, Advance, RunStarter, RefuseList, AdmitList,
              Aggregate, FinalizeIngestionRun, Return, ContextEnds
        <4>2. QED  BY <3>1, <4>1 DEF Untouched
      <3>4. QED  BY <3>2, <3>3
    <2>4. ASSUME NEW r \in Run, NEW v \in Wallet, Worker(r, v)
          PROVE  Untouched(q)
      <3>1. WorkerInv(r, v)
        BY <1>1 DEF IInv, RunInv
      <3>2. step[r][v] \notin {"none", "sent"}
        BY <2>1, <2>4, <3>1, WorkerChanges
      <3>3. r # q
        BY <2>1, <3>2 DEF Quiet
      <3>4. sync'[q] = sync[q] /\ row' = row
        BY <2>1, <2>4, <3>1, <3>3, WorkerChanges DEF TypeOK, Changes, Worker
      <3>5. QED  BY <2>1, <2>4, <3>3, <3>4, WorkerHolds DEF Untouched
    <2>5. ASSUME NEW w \in Wallet, LockExpires(w)
          PROVE  Untouched(q)
      <3>1. NoRun # q
        BY RunAssumption
      <3>2. QED  BY <2>1, <2>5, <3>1 DEF TypeOK, LockExpires, Untouched
    <2>6. ASSUME NEW rs, Die(rs) PROVE Untouched(q)
      BY <2>6 DEF Die, workers, Untouched
    <2>7. QED  BY <1>1, <2>2, <2>3, <2>4, <2>5, <2>6 DEF Next
  <1>2. IInv /\ [Next]_vars => [\A r \in Run : row[r].status \in Ended => Untouched(r)]_vars
    BY <1>1
  <1>3. QED  BY Invariant, <1>2, PTL DEF Spec, NothingAfterTheEnd

-----------------------------------------------------------------------------
(* A run implements RunContract.                                           *)

told == [r \in Run |-> row[r].status]
settled == [r \in Run |-> [w \in Wallet |-> Settled(r, w)]]
mapped == <<list, told, settled, result>>

\* Sum of the contract, of the outcomes
Amount(r) ==
  IF \A w \in list[r] : Settled(r, w) = "succeeded" THEN "succeeded"
  ELSE IF \A w \in list[r] : Settled(r, w) = "failed" THEN "failed"
  ELSE "partially_succeeded"

Final(r) == {Amount(r), "timed_out", "cancelled"}

\* where the row and the answer of r are when r is somewhere
Place(r) ==
  /\ pc[r] = "idle" => list[r] = {}
  /\ pc[r] \in {"idle", "accepted"} => row[r].status = "none"
  /\ pc[r] \in {"started", "waiting", "finalizing"} => row[r].status = "running"
  /\ pc[r] \notin {"over", "dead"} => result[r] = "none"
  /\ pc[r] = "finalizing" => AllSent(r) /\ verdict[r].status \in Final(r)

Places == \A r \in Run : Place(r)

LEMMA AmountIsSum ==
  ASSUME TypeOK, NEW r \in Run
  PROVE  Contract!Sum(r) = Amount(r)
  <1>1. \A w \in list[r] : w \in Wallet
    BY DEF TypeOK
  <1>2. QED  BY <1>1 DEF Contract!Sum, Amount

LEMMA Sent ==
  ASSUME TypeOK, NEW r \in Run, RunInv(r), AllSent(r)
  PROVE  /\ Done(r) = list[r] /\ Partial(r) = {}
              <=> \A w \in list[r] : Settled(r, w) = "succeeded"
         /\ Done(r) \cup Skipped(r) = {} <=> \A w \in list[r] : Settled(r, w) = "failed"
  <1>1. ASSUME NEW w \in list[r]
        PROVE  /\ Settled(r, w) = "succeeded" <=> w \in Done(r) \ Partial(r)
               /\ Settled(r, w) = "failed" <=> w \notin Done(r) \cup Skipped(r)
    <2>1. step[r][w] = "sent" /\ w \in Wallet /\ WorkerInv(r, w)
      BY DEF AllSent, TypeOK, RunInv
    <2>2. CASE outcome[r][w].err = "nil"
      BY <2>1, <2>2 DEF Settled, WorkerInv, Done, Skipped, Partial
    <2>3. CASE outcome[r][w].err # "nil"
      BY <2>1, <2>3 DEF Settled, Done, Skipped, Partial
    <2>4. QED  BY <2>2, <2>3
  <1>2. Done(r) \subseteq list[r] /\ Skipped(r) \subseteq list[r] /\ Partial(r) \subseteq list[r]
    BY DEF Done, Skipped, Partial
  <1>3. QED  BY <1>1, <1>2

\* deriveRunStatus says what the wallets amount to, unless the context is over
LEMMA StatusIsSum ==
  ASSUME TypeOK, NEW r \in Run, RunInv(r), AllSent(r)
  PROVE  RunStatus(r) \in Final(r)
  <1>1. ctx[r] \in {"live", "deadline", "cancelled"}
    BY DEF TypeOK
  <1>2. CASE ctx[r] # "live"
    BY <1>1, <1>2 DEF RunStatus, Final
  <1>3. CASE ctx[r] = "live"
    <2>1. RunStatus(r) = IF Done(r) = list[r] /\ Partial(r) = {} THEN "succeeded"
                         ELSE IF Done(r) \cup Skipped(r) = {} THEN "failed"
                         ELSE "partially_succeeded"
      <3>1. CASE Done(r) = list[r]
        <4>1. Partial(r) # {} => Done(r) # {}
          BY DEF Partial
        <4>2. QED  BY <1>3, <3>1, <4>1 DEF RunStatus
      <3>2. CASE Done(r) # list[r]
        BY <1>3, <3>2 DEF RunStatus
      <3>3. QED  BY <3>1, <3>2
    <2>2. QED  BY <2>1, Sent DEF Final, Amount
  <1>4. QED  BY <1>2, <1>3

LEMMA PlaceFrame ==
  ASSUME NEW r \in Run, Place(r), TypeOK, TypeOK',
         pc'[r] = pc[r], list'[r] = list[r], row'[r] = row[r],
         step'[r] = step[r], outcome'[r] = outcome[r], sync'[r] = sync[r],
         verdict'[r] = verdict[r], result'[r] = result[r]
  PROVE  Place(r)'
  <1>1. \A w \in Wallet : Settled(r, w)' = Settled(r, w)
    BY DEF Settled
  <1>2. AllSent(r)' = AllSent(r)
    BY DEF AllSent
  <1>3. Amount(r)' = Amount(r)
    BY <1>1 DEF Amount, TypeOK
  <1>4. QED  BY <1>2, <1>3 DEF Place, Final

LEMMA InitPlace == Init => Places
  BY DEF Init, Places, Place, NoRow

LEMMA BeginPlace ==
  ASSUME IInv, IInv', Places, NEW r \in Run, Begin(r), NEW q \in Run
  PROVE  Place(q)'
  <1>1. TypeOK /\ TypeOK' /\ Place(q) /\ Place(r) /\ NewRow.status = "running"
    BY NewRowRuns DEF IInv, Places
  <1>2. CASE q # r
    <2>1. /\ pc'[q] = pc[q] /\ list'[q] = list[q] /\ row'[q] = row[q] /\ step'[q] = step[q]
          /\ verdict' = verdict /\ result'[q] = result[q] /\ UNCHANGED <<outcome, sync>>
      BY <1>1, <1>2
      DEF TypeOK, Begin, RunStart, LoadFile, Spawn, Goto, workers, ends
    <2>2. QED  BY <1>1, <2>1, PlaceFrame
  <1>3. CASE q = r
    <2>1. CASE RunStart(r)
      BY <1>1, <1>3, <2>1 DEF TypeOK, RunStart, Goto, Place, ends
    <2>2. CASE LoadFile(r)
      BY <1>1, <1>3, <2>2 DEF TypeOK, LoadFile, Spawn, Goto, Place
    <2>3. QED  BY <2>1, <2>2 DEF Begin
  <1>4. QED  BY <1>2, <1>3

LEMMA AdvancePlace ==
  ASSUME IInv, IInv', Places, NEW r \in Run, Advance(r), NEW q \in Run
  PROVE  Place(q)'
  <1>1. TypeOK /\ TypeOK' /\ Place(q) /\ Place(r) /\ NewRow.status = "running" /\ RunInv(r)
    BY NewRowRuns DEF IInv, Places
  <1>2. CASE q # r
    <2>1. /\ pc'[q] = pc[q] /\ list' = list /\ row'[q] = row[q] /\ step'[q] = step[q]
          /\ verdict'[q] = verdict[q] /\ result'[q] = result[q] /\ UNCHANGED <<outcome, sync>>
      <3>1. CASE RunStarter(r) \/ RefuseList(r) \/ AdmitList(r)
        BY <1>1, <1>2, <3>1
        DEF TypeOK, RunStarter, RefuseList, AdmitList, Spawn, Goto, workers, ends
      <3>2. CASE Aggregate(r)
        BY <1>1, <1>2, <3>2 DEF TypeOK, Aggregate, Goto, workers
      <3>3. CASE FinalizeIngestionRun(r) \/ Return(r)
        BY <1>1, <1>2, <3>3 DEF TypeOK, FinalizeIngestionRun, Return, Goto, workers
      <3>4. QED  BY <3>1, <3>2, <3>3 DEF Advance
    <2>2. QED  BY <1>1, <2>1, PlaceFrame
  <1>3. CASE q = r
    <2>1. CASE RunStarter(r) \/ RefuseList(r) \/ AdmitList(r)
      BY <1>1, <1>3, <2>1
      DEF TypeOK, RunStarter, RefuseList, AdmitList, Spawn, Goto, Place, ends
    <2>2. CASE Aggregate(r)
      <3>1. /\ pc[r] = "waiting" /\ AllSent(r) /\ pc'[r] = "finalizing"
            /\ verdict'[r].status = RunStatus(r)
            /\ UNCHANGED <<list, row, step, outcome, sync, result>>
        BY <1>1, <2>2 DEF TypeOK, Aggregate, Goto, workers
      <3>2. Final(r)' = Final(r) /\ AllSent(r)' = AllSent(r)
        BY <3>1 DEF Final, Amount, Settled, AllSent
      <3>3. QED  BY <1>1, <1>3, <3>1, <3>2, StatusIsSum DEF Place
    <2>3. CASE FinalizeIngestionRun(r) \/ Return(r)
      <3>1. /\ pc'[r] \in {"returning", "over"}
            /\ pc'[r] = "returning" => result' = result /\ pc[r] = "finalizing"
        BY <1>1, <2>3 DEF TypeOK, FinalizeIngestionRun, Return, Goto
      <3>2. QED  BY <1>1, <1>3, <3>1 DEF Place
    <2>4. QED  BY <2>1, <2>2, <2>3 DEF Advance
  <1>4. QED  BY <1>2, <1>3

LEMMA WorkerPlace ==
  ASSUME IInv, IInv', NEW q \in Run, Place(q), NEW r \in Run, NEW w \in Wallet, Worker(r, w)
  PROVE  Place(q)'
  <1>1. TypeOK /\ TypeOK' /\ RunInv(r) /\ WorkerInv(r, w)
    BY DEF IInv, RunInv
  <1>2. UNCHANGED <<pc, list, row, verdict, result>>
    BY DEF Worker, control, ends
  <1>3. step[r][w] \notin {"none", "sent"}
        /\ \E where \in Steps \ {"none"}, o \in Outcomes, y \in SyncStatus : Changes(r, w, where, o, y)
    BY <1>1, WorkerChanges
  <1>4. CASE q = r
    <2>1. pc[r] # "finalizing"
      BY <1>1, <1>3 DEF RunInv, Workers, Quiet
    <2>2. QED  BY <1>2, <1>4, <2>1 DEF Place
  <1>5. CASE q # r
    <2>1. step'[q] = step[q] /\ outcome'[q] = outcome[q] /\ sync'[q] = sync[q]
      BY <1>1, <1>3, <1>5 DEF TypeOK, Changes
    <2>2. QED  BY <1>1, <1>2, <2>1, PlaceFrame
  <1>6. QED  BY <1>4, <1>5

LEMMA DiePlace ==
  ASSUME TypeOK, TypeOK', NEW rs, Die(rs), NEW q \in Run, Place(q)
  PROVE  Place(q)'
  <1>1. UNCHANGED <<list, row, step, outcome, sync, verdict, result>>
    BY DEF Die, workers
  <1>2. pc'[q] = pc[q] \/ pc'[q] = "dead"
    BY DEF Die
  <1>3. CASE pc'[q] = pc[q]
    BY <1>1, <1>3, PlaceFrame
  <1>4. CASE pc'[q] = "dead"
    BY <1>4 DEF Place
  <1>5. QED  BY <1>2, <1>3, <1>4

LEMMA NextPlace ==
  ASSUME IInv, IInv', Places, [Next]_vars
  PROVE  Places'
  <1>1. TypeOK /\ TypeOK'
    BY DEF IInv
  <1>2. CASE SaveSettings \/ (\E w \in Wallet : LockExpires(w)) \/ (\E r \in Run : ContextEnds(r))
             \/ UNCHANGED vars
    <2>1. UNCHANGED <<pc, list, row, step, outcome, sync, verdict, result>>
      BY <1>2 DEF SaveSettings, LockExpires, ContextEnds, vars, control, workers, ends
    <2>2. QED  BY <1>1, <2>1, PlaceFrame DEF Places
  <1>3. QED
    BY <1>1, <1>2, BeginPlace, AdvancePlace, WorkerPlace, DiePlace DEF Next, Places

LEMMA SameSettled ==
  ASSUME \A r \in Run, w \in Wallet : Settled(r, w)' = Settled(r, w)
  PROVE  settled' = settled
  BY DEF settled

\* a row that is written tells the contract its status
LEMMA RowTold ==
  ASSUME TypeOK, NEW r \in Run, NEW v, row' = [row EXCEPT ![r] = v]
  PROVE  told' = [told EXCEPT ![r] = v.status]
  BY DEF TypeOK, told

LEMMA Failing ==
  ASSUME NEW r \in Run, result[r] = "none", result' = [result EXCEPT ![r] = "error"]
  PROVE  Contract!Fail(r)
  BY DEF Contract!Fail

\* before its workers, and as they are spawned, no wallet of r is settled
LEMMA Spawned ==
  ASSUME TypeOK, NEW r \in Run, RunInv(r), pc[r] \in {"idle", "started"},
         outcome' = outcome, sync' = sync,
         step' = step \/ \E ws : Spawn(r, ws)
  PROVE  settled' = settled
  <1>1. \A w \in Wallet : step[r][w] = "none"
    BY Early
  <1>2. \A w \in Wallet : step'[r][w] # "sent"
    BY <1>1 DEF TypeOK, Spawn
  <1>3. \A q \in Run : q # r => step'[q] = step[q]
    BY DEF TypeOK, Spawn
  <1>4. \A q \in Run, w \in Wallet : Settled(q, w)' = Settled(q, w)
    BY <1>1, <1>2, <1>3 DEF Settled
  <1>5. QED  BY <1>4, SameSettled

LEMMA BeginMaps ==
  ASSUME IInv, NEW r \in Run, Place(r), Begin(r)
  PROVE  Contract!Ask(r)
  <1>1. /\ TypeOK /\ RunInv(r) /\ pc[r] = "idle" /\ list[r] = {} /\ row[r].status = "none"
        /\ result[r] = "none" /\ told[r] = "none"
    BY DEF IInv, Begin, RunStart, LoadFile, Place, told
  <1>2. \E ws \in (SUBSET Wallet) \ {{}} : list' = [list EXCEPT ![r] = ws]
    <2>1. \A ws \in AskedFor \cup Files : ws \in (SUBSET Wallet) \ {{}}
      BY WalletAssumption
    <2>2. CASE RunStart(r)
      BY <2>1, <2>2 DEF RunStart
    <2>3. CASE LoadFile(r)
      <3>1. PICK file \in Files : \E ws \in (SUBSET file) \ {{}} : list' = [list EXCEPT ![r] = ws]
        BY <2>3 DEF LoadFile
      <3>2. QED  BY <2>1, <3>1
    <2>4. QED  BY <2>2, <2>3 DEF Begin
  <1>3. settled' = settled
    <2>1. outcome' = outcome /\ sync' = sync /\ (step' = step \/ \E ws : Spawn(r, ws))
      BY DEF Begin, RunStart, LoadFile, workers
    <2>2. QED  BY <1>1, <2>1, Spawned
  <1>4. told' = told \/ told' = [told EXCEPT ![r] = "running"]
    <2>1. row' = row \/ row' = [row EXCEPT ![r] = NewRow]
      BY DEF Begin, RunStart, LoadFile
    <2>2. row' = row => told' = told
      BY DEF told
    <2>3. row' = [row EXCEPT ![r] = NewRow] => told' = [told EXCEPT ![r] = NewRow.status]
      BY <1>1, RowTold
    <2>4. QED  BY <2>1, <2>2, <2>3, NewRowRuns
  <1>5. result' = result \/ Contract!Fail(r)
    <2>1. result' = result \/ result' = [result EXCEPT ![r] = "error"]
      BY DEF Begin, RunStart, LoadFile, ends
    <2>2. QED  BY <1>1, <2>1, Failing
  <1>6. QED
    BY <1>1, <1>2, <1>3, <1>4, <1>5 DEF Contract!Ask, Contract!Tell, Contract!MayFail, told, settled

LEMMA AdvanceMaps ==
  ASSUME IInv, NEW r \in Run, Place(r), Advance(r)
  PROVE  Contract!Next \/ UNCHANGED mapped
  <1>1. /\ TypeOK /\ RunInv(r) /\ list' = list /\ (pc[r] # "idle" => list[r] # {})
        /\ told[r] = row[r].status
    BY DEF IInv, Advance, RunStarter, RefuseList, AdmitList, Aggregate, FinalizeIngestionRun,
           Return, RunInv, Workers, told
  <1>2. UNCHANGED <<step, outcome, sync>> => settled' = settled
    BY DEF settled, Settled
  <1>3. row' = row => told' = told
    BY DEF told
  <1>4. CASE RunStarter(r)
    <2>1. /\ pc[r] = "accepted" /\ row[r].status = "none" /\ UNCHANGED <<workers, result>>
          /\ row' = row \/ row' = [row EXCEPT ![r] = NewRow]
      BY <1>4 DEF RunStarter, Place
    <2>2. CASE row' = row
      BY <1>1, <1>2, <1>3, <2>1, <2>2 DEF mapped, workers
    <2>3. CASE row' = [row EXCEPT ![r] = NewRow]
      <3>1. told' = [told EXCEPT ![r] = NewRow.status] /\ settled' = settled
        BY <1>1, <1>2, <2>1, <2>3, RowTold DEF workers
      <3>2. Contract!Open(r)
        BY <1>1, <2>1, <3>1, NewRowRuns DEF Contract!Open, Contract!Tell, told, settled
      <3>3. QED  BY <3>2 DEF Contract!Next
    <2>4. QED  BY <2>1, <2>2, <2>3
  <1>5. CASE RefuseList(r)
    <2>1. Contract!Fail(r)
      BY <1>5, Failing DEF RefuseList, Place
    <2>2. told' = told /\ settled' = settled
      BY <1>2, <1>3, <1>5 DEF RefuseList, workers
    <2>3. Contract!Refuse(r)
      BY <1>1, <2>1, <2>2 DEF Contract!Refuse, told, settled
    <2>4. QED  BY <2>3 DEF Contract!Next
  <1>6. CASE AdmitList(r)
    <2>1. settled' = settled
      BY <1>1, <1>6, Spawned DEF AdmitList
    <2>2. told' = told /\ result' = result
      BY <1>3, <1>6 DEF AdmitList, ends
    <2>3. QED  BY <1>1, <2>1, <2>2 DEF mapped
  <1>7. CASE Aggregate(r)
    BY <1>1, <1>2, <1>3, <1>7 DEF Aggregate, workers, mapped
  <1>8. CASE FinalizeIngestionRun(r)
    <2>1. /\ pc[r] = "finalizing" /\ row[r].status = "running" /\ result[r] = "none"
          /\ AllSent(r) /\ verdict[r].status \in Final(r)
      BY <1>8 DEF FinalizeIngestionRun, Place
    <2>2. /\ settled' = settled
          /\ \/ row' = [row EXCEPT ![r] = verdict[r]] /\ result' = result
             \/ /\ row' = row \/ row' = [row EXCEPT ![r] = verdict[r]]
                /\ result' = [result EXCEPT ![r] = "error"]
      BY <1>2, <1>8 DEF FinalizeIngestionRun, workers
    <2>3. result' = result \/ Contract!Fail(r)
      BY <2>1, <2>2, Failing
    <2>4. CASE row' = row /\ Contract!Fail(r)
      <3>1. Contract!Refuse(r)
        BY <1>1, <1>3, <2>2, <2>4 DEF Contract!Refuse, told, settled
      <3>2. QED  BY <3>1 DEF Contract!Next
    <2>5. CASE row' = [row EXCEPT ![r] = verdict[r]]
      <3>1. told' = [told EXCEPT ![r] = verdict[r].status]
        BY <1>1, <2>5, RowTold
      <3>2. ASSUME NEW w \in list[r] PROVE settled[r][w] # "none"
        <4>1. w \in Wallet /\ step[r][w] = "sent" /\ WorkerInv(r, w)
          BY <1>1, <2>1, <3>2 DEF AllSent, TypeOK, RunInv
        <4>2. Settled(r, w) # "none"
          BY <4>1 DEF Settled, WorkerInv
        <4>3. QED  BY <4>1, <4>2 DEF settled
      <3>3. verdict[r].status \in {Contract!Sum(r), "timed_out", "cancelled"}
        BY <1>1, <2>1, AmountIsSum DEF Final
      <3>4. Contract!Conclude(r)
        BY <1>1, <2>1, <2>2, <2>3, <3>1, <3>2, <3>3
        DEF Contract!Conclude, Contract!Tell, Contract!MayFail, told, settled
      <3>5. QED  BY <3>4 DEF Contract!Next
    <2>6. QED  BY <2>1, <2>2, <2>4, <2>5, Failing
  <1>9. CASE Return(r)
    <2>1. /\ pc[r] = "returning" /\ result[r] = "none" /\ told' = told /\ settled' = settled
          /\ row[r].status \in Ended /\ Current(r, row[r])
          /\ result' = [result EXCEPT ![r] = IF Clean(r) THEN "nil" ELSE "error"]
      BY <1>1, <1>2, <1>3, <1>9 DEF Return, Place, workers, RunInv, Summary
    <2>2. CASE Clean(r)
      <3>1. told[r] \in {"succeeded", "partially_succeeded"}
        BY <1>1, <2>1, <2>2 DEF Current, Good
      <3>2. ASSUME NEW w \in list[r] PROVE settled[r][w] \in {"succeeded", "partial"}
        <4>1. w \in Wallet /\ outcome[r][w].err = "nil" /\ WorkerInv(r, w)
          BY <1>1, <2>2, <3>2 DEF Clean, Done, TypeOK, RunInv
        <4>2. step[r][w] = "sent"
          BY <1>1, <2>1, <4>1 DEF RunInv, Workers, Quiet, WorkerInv
        <4>3. QED  BY <4>1, <4>2 DEF settled, Settled, WorkerInv
      <3>3. Contract!Succeed(r)
        BY <1>1, <2>1, <2>2, <3>1, <3>2 DEF Contract!Succeed, told, settled
      <3>4. QED  BY <3>3 DEF Contract!Next
    <2>3. CASE ~Clean(r)
      <3>1. Contract!Fail(r)
        BY <2>1, <2>3, Failing
      <3>2. Contract!Refuse(r)
        BY <1>1, <2>1, <3>1 DEF Contract!Refuse, told, settled
      <3>3. QED  BY <3>2 DEF Contract!Next
    <2>4. QED  BY <2>2, <2>3
  <1>10. QED  BY <1>4, <1>5, <1>6, <1>7, <1>8, <1>9 DEF Advance

LEMMA WorkerMaps ==
  ASSUME IInv, NEW r \in Run, Place(r), NEW w \in Wallet, Worker(r, w)
  PROVE  Contract!Next \/ UNCHANGED mapped
  <1>1. TypeOK /\ RunInv(r) /\ WorkerInv(r, w)
    BY DEF IInv, RunInv
  <1>2. UNCHANGED <<pc, list, row, result>> /\ told' = told
    BY DEF Worker, control, ends, told
  <1>3. step[r][w] \notin {"none", "sent"}
    BY <1>1, WorkerChanges
  <1>4. PICK where \in Steps \ {"none"}, o \in Outcomes, y \in SyncStatus :
          Changes(r, w, where, o, y) /\ Truthful(where, o, y)
    BY <1>1, WorkerChanges
  <1>5. pc[r] = "waiting" /\ told[r] = "running" /\ w \in list[r]
    <2>1. pc[r] \notin {"idle", "accepted", "started", "finalizing", "returning", "over", "dead"}
          /\ w \in list[r]
      BY <1>1, <1>3 DEF RunInv, Workers, Quiet, Worker
    <2>2. pc[r] = "waiting"
      BY <1>1, <2>1 DEF TypeOK
    <2>3. QED  BY <2>1, <2>2 DEF Place, told
  <1>6. \A q \in Run, v \in Wallet : q # r \/ v # w => Settled(q, v)' = Settled(q, v)
    BY <1>1, <1>4 DEF TypeOK, Changes, Settled
  <1>7. step'[r][w] = where /\ outcome'[r][w] = o /\ sync'[r][w] = y
    BY <1>1, <1>4 DEF TypeOK, Changes
  <1>8. Settled(r, w) = "none"
    BY <1>3 DEF Settled
  <1>9. CASE where # "sent"
    <2>1. Settled(r, w)' = Settled(r, w)
      BY <1>7, <1>8, <1>9 DEF Settled
    <2>2. QED  BY <1>2, <1>6, <2>1, SameSettled DEF mapped
  <1>10. CASE where = "sent"
    <2>. DEFINE what == IF o.err = "nil" THEN y ELSE IF o.err = "locked" THEN "skipped" ELSE "failed"
    <2>1. Settled(r, w)' = what
      BY <1>7, <1>10 DEF Settled
    <2>2. what \in {"succeeded", "partial", "skipped", "failed"}
      BY <1>4 DEF Truthful
    <2>. HIDE DEF what
    <2>3. settled' = [settled EXCEPT ![r][w] = what]
      BY <1>6, <2>1 DEF settled
    <2>4. Contract!Settle(r, w)
      BY <1>2, <1>5, <1>8, <2>2, <2>3 DEF Contract!Settle, told, settled
    <2>5. QED  BY <2>4 DEF Contract!Next
  <1>11. QED  BY <1>9, <1>10

LEMMA NextMaps ==
  ASSUME IInv, Places, [Next]_vars
  PROVE  [Contract!Next]_mapped
  <1>1. CASE SaveSettings \/ (\E w \in Wallet : LockExpires(w)) \/ (\E r \in Run : ContextEnds(r))
             \/ (\E rs : Die(rs)) \/ UNCHANGED vars
    <2>1. UNCHANGED <<list, row, step, outcome, sync, result>>
      BY <1>1 DEF SaveSettings, LockExpires, ContextEnds, Die, vars, control, workers, ends
    <2>2. QED  BY <2>1 DEF mapped, told, settled, Settled
  <1>2. ASSUME NEW r \in Run, Begin(r) PROVE Contract!Next
    BY <1>2, BeginMaps DEF Contract!Next, Places
  <1>3. QED
    BY <1>1, <1>2, AdvanceMaps, WorkerMaps DEF Next, Places

\* A run of the orchestrator is a behaviour of RunContract: each wallet is settled
\* once, and the row ends once, with what they amount to (KeepsRunContract).
THEOREM RunKeepsContract == Spec => KeepsRunContract
  <1>1. Init => Contract!Init
    <2>1. Init => \A r \in Run, w \in Wallet : Settled(r, w) = "none"
      BY DEF Init, Settled
    <2>2. Init => \A r \in Run : row[r].status = "none"
      BY DEF Init, NoRow
    <2>3. QED  BY <2>1, <2>2 DEF Init, Contract!Init
  <1>2. Spec => []Places
    <2>1. IInv /\ IInv' /\ Places /\ [Next]_vars => Places'
      BY NextPlace
    <2>2. QED  BY <2>1, InitPlace, Invariant, PTL DEF Spec
  <1>3. IInv /\ Places /\ [Next]_vars => [Contract!Next]_mapped
    BY NextMaps
  <1>4. QED
    BY <1>1, <1>2, <1>3, Invariant, PTL
    DEF Spec, KeepsRunContract, Contract!Spec, Contract!promise, mapped, told, settled

-----------------------------------------------------------------------------
(* The worker of a wallet implements CallContract.                         *)

CallId == Run \X Wallet
callPlace == [c \in CallId |-> WalletPlace(c[1], c[2])]
callTold == [c \in CallId |-> sync[c[1]][c[2]]]
callAnswer == [c \in CallId |-> Answered(c[1], c[2])]
callMapped == <<[c \in CallId |-> c[2]], callPlace, callTold, callAnswer>>

\* where the lock, the row and the outcome of a wallet are when its worker is
\* somewhere
LockInv(r, w) ==
  /\ holder[w] = r => step[r][w] \notin {"none", "waiting", "entered"}
  /\ pc[r] # "dead" /\ step[r][w] \in {"locked", "running", "ended"} => holder[w] = r
  /\ step[r][w] \in {"none", "waiting", "entered", "locked"} => sync[r][w] = "none"
  /\ step[r][w] = "running" => sync[r][w] = "running"
  /\ step[r][w] = "ended" => outcome[r][w].err \in {"nil", "other"}

LockInvs == \A r \in Run, w \in Wallet : LockInv(r, w)

\* a worker takes a free lock, gives up its own, or leaves it alone
LEMMA WorkerLock ==
  ASSUME TypeOK, NEW r \in Run, NEW w \in Wallet, Worker(r, w)
  PROVE  \/ holder' = holder
         \/ holder[w] = NoRun /\ holder' = [holder EXCEPT ![w] = r]
         \/ holder[w] = r /\ holder' = [holder EXCEPT ![w] = NoRun]
  BY DEF TypeOK, Worker, Enter, TurnAway, Acquire, Conflict, AcquireFails, RunWallet,
         WalletTooLate, RunWalletFails, RunWalletEnds, Release

\* the other calls do not see it
LEMMA OtherCalls ==
  ASSUME IInv, NEW r \in Run, NEW w \in Wallet, Worker(r, w),
         NEW q \in Run, NEW v \in Wallet, q # r \/ v # w
  PROVE  /\ step'[q][v] = step[q][v] /\ outcome'[q][v] = outcome[q][v]
         /\ sync'[q][v] = sync[q][v] /\ (holder'[v] = q <=> holder[v] = q)
         /\ pc' = pc
  <1>1. TypeOK /\ WorkerInv(r, w) /\ NoRun \notin Run
    BY RunAssumption DEF IInv, RunInv
  <1>2. PICK where \in Steps, o \in Outcomes, y \in SyncStatus : Changes(r, w, where, o, y)
    BY <1>1, WorkerChanges
  <1>3. step'[q][v] = step[q][v] /\ outcome'[q][v] = outcome[q][v] /\ sync'[q][v] = sync[q][v]
    BY <1>1, <1>2 DEF TypeOK, Changes
  <1>4. holder'[v] = q <=> holder[v] = q
    BY <1>1, WorkerLock DEF TypeOK
  <1>5. QED  BY <1>3, <1>4 DEF Worker, control

LEMMA MyCall ==
  ASSUME IInv, NEW r \in Run, NEW w \in Wallet, Worker(r, w)
  PROVE  /\ callPlace' = [callPlace EXCEPT ![<<r, w>>] = WalletPlace(r, w)']
         /\ callTold' = [callTold EXCEPT ![<<r, w>>] = sync'[r][w]]
         /\ callAnswer' = [callAnswer EXCEPT ![<<r, w>>] = Answered(r, w)']
  <1>1. ASSUME NEW c \in CallId, c # <<r, w>>
        PROVE  /\ WalletPlace(c[1], c[2])' = WalletPlace(c[1], c[2])
               /\ sync'[c[1]][c[2]] = sync[c[1]][c[2]]
               /\ Answered(c[1], c[2])' = Answered(c[1], c[2])
    <2>1. c[1] \in Run /\ c[2] \in Wallet /\ (c[1] # r \/ c[2] # w)
      BY <1>1 DEF CallId
    <2>2. QED  BY <2>1, OtherCalls DEF WalletPlace, Answered
  <1>2. /\ <<r, w>> \in CallId /\ <<r, w>>[1] = r /\ <<r, w>>[2] = w
    BY DEF CallId
  <1>3. callPlace' = [callPlace EXCEPT ![<<r, w>>] = WalletPlace(r, w)']
    BY <1>1, <1>2 DEF callPlace, WalletPlace
  <1>4. callTold' = [callTold EXCEPT ![<<r, w>>] = sync'[r][w]]
    BY <1>1, <1>2 DEF callTold
  <1>5. callAnswer' = [callAnswer EXCEPT ![<<r, w>>] = Answered(r, w)']
    <2>1. \A c \in CallId : Answered(c[1], c[2])' =
            IF c = <<r, w>> THEN Answered(r, w)' ELSE Answered(c[1], c[2])
      BY <1>1, <1>2 DEF Answered
    <2>2. QED  BY <2>1 DEF callAnswer
  <1>6. QED  BY <1>3, <1>4, <1>5

\* what a worker that is at work sees of its call
LEMMA MyPlace ==
  ASSUME NEW r \in Run, NEW w \in Wallet
  PROVE  /\ callPlace[<<r, w>>] = WalletPlace(r, w)
         /\ callTold[<<r, w>>] = sync[r][w]
         /\ callAnswer[<<r, w>>] = Answered(r, w)
  BY DEF callPlace, callTold, callAnswer, CallId

LEMMA TakenIs ==
  ASSUME TypeOK, NEW r \in Run, NEW w \in Wallet
  PROVE  Calls!Taken(<<r, w>>) <=> holder[w] # NoRun
  <1>1. NoRun \notin Run
    BY RunAssumption
  <1>2. ASSUME Calls!Taken(<<r, w>>) PROVE holder[w] # NoRun
    <2>1. PICK d \in Run \X Wallet : d[2] = w /\ WalletPlace(d[1], d[2]) = "holds"
      BY <1>2 DEF Calls!Taken
    <2>2. holder[w] = d[1]
      BY <2>1 DEF WalletPlace
    <2>3. QED  BY <1>1, <2>1, <2>2
  <1>3. ASSUME holder[w] # NoRun PROVE Calls!Taken(<<r, w>>)
    <2>1. holder[w] \in Run
      BY <1>3 DEF TypeOK
    <2>2. WalletPlace(holder[w], w) = "holds"
      BY DEF WalletPlace
    <2>3. <<holder[w], w>> \in Run \X Wallet
      BY <2>1
    <2>4. QED  BY <2>2, <2>3 DEF Calls!Taken
  <1>4. QED  BY <1>2, <1>3

LEMMA WorkerLockInv ==
  ASSUME IInv, NEW r \in Run, NEW w \in Wallet, LockInv(r, w), Worker(r, w)
  PROVE  LockInv(r, w)'
  <1>1. TypeOK /\ NoRun # r /\ pc' = pc /\ pc[r] # "dead"
    BY RunAssumption DEF IInv, Worker, control
  <1>2. outcome[r][w] \in Outcomes
    BY <1>1 DEF TypeOK
  <1>. USE <1>1 DEF LockInv, TypeOK, Move, Send, End
  <1>3. CASE Enter(r, w)  BY <1>3 DEF Enter
  <1>4. CASE TurnAway(r, w)  BY <1>4 DEF TurnAway
  <1>5. CASE Acquire(r, w)  BY <1>5 DEF Acquire
  <1>6. CASE Conflict(r, w)  BY <1>6 DEF Conflict
  <1>7. CASE AcquireFails(r, w)  BY <1>7 DEF AcquireFails
  <1>8. CASE RunWallet(r, w)  BY <1>8 DEF RunWallet
  <1>9. CASE WalletTooLate(r, w)
    BY <1>9, ErrorType DEF WalletTooLate, Error, NoOutcome
  <1>10. CASE RunWalletFails(r, w)
    BY <1>10 DEF RunWalletFails, Error, NoOutcome
  <1>11. CASE RunWalletEnds(r, w)
    <2>1. PICK o \in Reports : FinalizeWallet(r, w, o)
      BY <1>11 DEF RunWalletEnds
    <2>2. o.err \in {"nil", "other"} /\ [o EXCEPT !.err = "other"].err = "other"
      BY DEF Reports
    <2>3. step'[r][w] = "ended" /\ outcome'[r][w].err \in {"nil", "other"}
      <3>1. End(r, w, o) \/ End(r, w, [o EXCEPT !.err = "other"])
        BY <2>1 DEF FinalizeWallet
      <3>2. ASSUME NEW x, End(r, w, x) PROVE step'[r][w] = "ended" /\ outcome'[r][w] = x
        BY <3>2
      <3>3. QED  BY <2>2, <3>1, <3>2
    <2>4. QED  BY <1>11, <2>3 DEF RunWalletEnds
  <1>12. CASE Release(r, w)  BY <1>12 DEF Release
  <1>13. QED
    BY <1>3, <1>4, <1>5, <1>6, <1>7, <1>8, <1>9, <1>10, <1>11, <1>12 DEF Worker

\* outside its workers a run spawns them, or leaves the calls alone
LEMMA RunAndCalls ==
  ASSUME IInv, NEW r \in Run, Begin(r) \/ Advance(r) \/ ContextEnds(r)
  PROVE  /\ UNCHANGED <<outcome, sync, holder>>
         /\ \A q \in Run : pc[q] = "dead" => pc'[q] = "dead"
         /\ \/ step' = step
            \/ /\ \A w \in Wallet : step[r][w] = "none" /\ step'[r][w] \in {"none", "waiting"}
               /\ \A q \in Run : q # r => step'[q] = step[q]
  <1>1. TypeOK /\ RunInv(r)
    BY DEF IInv
  <1>2. UNCHANGED <<outcome, sync, holder>>
    BY DEF Begin, RunStart, LoadFile, Advance, RunStarter, RefuseList, AdmitList, Aggregate,
           FinalizeIngestionRun, Return, ContextEnds, workers
  <1>3. \A q \in Run : pc[q] = "dead" => pc'[q] = "dead"
    BY <1>1
    DEF TypeOK, Begin, RunStart, LoadFile, Spawn, Advance, RunStarter, RefuseList, AdmitList,
        Aggregate, FinalizeIngestionRun, Return, ContextEnds, Goto
  <1>4. step' = step \/ (pc[r] \in {"idle", "started"} /\ \E ws : Spawn(r, ws))
    BY DEF Begin, RunStart, LoadFile, Advance, RunStarter, RefuseList, AdmitList, Aggregate,
           FinalizeIngestionRun, Return, ContextEnds, workers
  <1>5. ASSUME pc[r] \in {"idle", "started"}, NEW ws, Spawn(r, ws)
        PROVE  /\ \A w \in Wallet : step[r][w] = "none" /\ step'[r][w] \in {"none", "waiting"}
               /\ \A q \in Run : q # r => step'[q] = step[q]
    BY <1>1, <1>5, Early DEF TypeOK, Spawn
  <1>6. QED  BY <1>2, <1>3, <1>4, <1>5

LEMMA NextLockInv ==
  ASSUME IInv, LockInvs, [Next]_vars
  PROVE  LockInvs'
  <1>1. SUFFICES ASSUME NEW q \in Run, NEW v \in Wallet PROVE LockInv(q, v)'
    BY DEF LockInvs
  <1>2. LockInv(q, v) /\ TypeOK /\ NoRun # q
    BY RunAssumption DEF LockInvs, IInv
  <1>3. ASSUME NEW r \in Run, Begin(r) \/ Advance(r) \/ ContextEnds(r) PROVE LockInv(q, v)'
    <2>1. /\ outcome' = outcome /\ sync' = sync /\ holder' = holder
          /\ pc[q] = "dead" => pc'[q] = "dead"
          /\ \/ step'[q][v] = step[q][v]
             \/ step[q][v] = "none" /\ step'[q][v] \in {"none", "waiting"}
      BY <1>3, RunAndCalls
    <2>2. QED  BY <1>2, <2>1 DEF LockInv
  <1>4. ASSUME NEW r \in Run, NEW w \in Wallet, Worker(r, w) PROVE LockInv(q, v)'
    <2>1. CASE q = r /\ v = w  BY <1>2, <1>4, <2>1, WorkerLockInv
    <2>2. CASE q # r \/ v # w  BY <1>2, <1>4, <2>2, OtherCalls DEF LockInv
    <2>3. QED  BY <2>1, <2>2
  <1>5. ASSUME NEW w \in Wallet, LockExpires(w) PROVE LockInv(q, v)'
    BY <1>2, <1>5 DEF LockExpires, control, LockInv, TypeOK
  <1>6. ASSUME NEW rs, Die(rs) PROVE LockInv(q, v)'
    <2>1. UNCHANGED <<step, outcome, sync, holder>> /\ (pc'[q] = pc[q] \/ pc'[q] = "dead")
      BY <1>6 DEF Die, workers
    <2>2. QED  BY <1>2, <2>1 DEF LockInv
  <1>7. CASE SaveSettings \/ UNCHANGED vars
    BY <1>2, <1>7 DEF SaveSettings, vars, control, workers, LockInv
  <1>8. QED  BY <1>3, <1>4, <1>5, <1>6, <1>7 DEF Next

\* a worker that speaks for its call in the contract
LEMMA Speaks ==
  ASSUME NEW r \in Run, NEW w \in Wallet, step[r][w] # "sent", Calls!Speak(<<r, w>>)
  PROVE  Calls!Next
  <1>1. callAnswer[<<r, w>>] = "none"
    BY MyPlace DEF Answered
  <1>2. QED  BY <1>1 DEF Calls!Next, callAnswer, CallId

\* before the row
LEMMA EarlyWorkerMaps ==
  ASSUME IInv, NEW r \in Run, NEW w \in Wallet, LockInv(r, w), Worker(r, w),
         \/ Enter(r, w) \/ TurnAway(r, w) \/ Acquire(r, w) \/ Conflict(r, w)
         \/ AcquireFails(r, w)
  PROVE  Calls!Next \/ UNCHANGED callMapped
  <1>. DEFINE c == <<r, w>>
  <1>1. TypeOK /\ NoRun # r /\ step[r][w] \in {"waiting", "entered"}
    BY RunAssumption DEF IInv, Enter, TurnAway, Acquire, Conflict, AcquireFails
  <1>2. /\ callPlace[c] = "outside" /\ holder[w] # r /\ callAnswer[c] = "none"
        /\ UNCHANGED sync /\ callTold' = callTold
    BY <1>1, MyPlace
    DEF LockInv, WalletPlace, Answered, Enter, TurnAway, Acquire, Conflict, AcquireFails,
        callTold
  <1>3. /\ callPlace' = [callPlace EXCEPT ![c] = WalletPlace(r, w)']
        /\ callAnswer' = [callAnswer EXCEPT ![c] = Answered(r, w)']
    BY MyCall
  <1>4. CASE Enter(r, w)
    <2>1. step'[r][w] = "entered" /\ holder' = holder
      BY <1>1, <1>4 DEF Enter, Move, TypeOK
    <2>2. WalletPlace(r, w)' = callPlace[c] /\ Answered(r, w)' = callAnswer[c]
      BY <1>2, <2>1 DEF WalletPlace, Answered
    <2>3. callPlace' = callPlace /\ callAnswer' = callAnswer
      BY <1>3, <2>2 DEF callPlace, callAnswer
    <2>4. QED  BY <1>2, <2>3 DEF callMapped
  <1>5. CASE Acquire(r, w)
    <2>1. step'[r][w] = "locked" /\ holder'[w] = r /\ holder[w] = NoRun
      BY <1>1, <1>5 DEF Acquire, Move, TypeOK
    <2>2. WalletPlace(r, w)' = "holds" /\ Answered(r, w)' = callAnswer[c]
      BY <1>2, <2>1 DEF WalletPlace, Answered
    <2>3. callAnswer' = callAnswer
      BY <1>3, <2>2 DEF callAnswer
    <2>4. Calls!Take(c)
      BY <1>1, <1>2, <1>3, <2>1, <2>2, <2>3, TakenIs
      DEF Calls!Take, Calls!Put, callPlace, callTold, callAnswer, CallId
    <2>5. QED  BY <1>1, <2>4, Speaks DEF Calls!Speak
  <1>6. CASE Conflict(r, w)
    <2>1. /\ step'[r][w] = "sent" /\ outcome'[r][w].err = "locked"
          /\ holder' = holder /\ holder[w] # NoRun
      BY <1>1, <1>6 DEF Conflict, Send, Move, Error, NoOutcome, TypeOK
    <2>2. WalletPlace(r, w)' = "left" /\ Answered(r, w)' = "locked"
      BY <1>2, <2>1 DEF WalletPlace, Answered
    <2>3. Calls!BeRefused(c)
      BY <1>1, <1>2, <1>3, <2>1, <2>2, TakenIs
      DEF Calls!BeRefused, Calls!Put, Calls!Answer, callPlace, callTold, callAnswer, CallId
    <2>4. QED  BY <1>1, <2>3, Speaks DEF Calls!Speak
  <1>7. CASE TurnAway(r, w) \/ AcquireFails(r, w)
    <2>1. /\ step'[r][w] = "sent" /\ outcome'[r][w].err = "other"
          /\ holder' = holder \/ (holder[w] = NoRun /\ holder'[w] = r)
      BY <1>1, <1>7 DEF TurnAway, AcquireFails, Send, Move, Error, NoOutcome, TypeOK
    <2>2. Answered(r, w)' = "error"
      BY <2>1 DEF Answered
    <2>3. CASE holder' = holder
      <3>1. WalletPlace(r, w)' = "left"
        BY <1>2, <2>1, <2>3 DEF WalletPlace
      <3>2. Calls!Fail(c)
        BY <1>2, <1>3, <2>2, <3>1
        DEF Calls!Fail, Calls!Put, Calls!Answer, callPlace, callTold, callAnswer, CallId
      <3>3. QED  BY <1>1, <3>2, Speaks DEF Calls!Speak
    <2>4. CASE holder[w] = NoRun /\ holder'[w] = r
      <3>1. WalletPlace(r, w)' = "holds"
        BY <2>4 DEF WalletPlace
      <3>2. Calls!Take(c)
        BY <1>1, <1>2, <1>3, <2>2, <2>4, <3>1, TakenIs
        DEF Calls!Take, Calls!Put, Calls!Answer, callPlace, callTold, callAnswer, CallId
      <3>3. QED  BY <1>1, <3>2, Speaks DEF Calls!Speak
    <2>5. QED  BY <2>1, <2>3, <2>4
  <1>8. QED  BY <1>4, <1>5, <1>6, <1>7

\* under the lock
LEMMA HoldingWorkerMaps ==
  ASSUME IInv, NEW r \in Run, NEW w \in Wallet, LockInv(r, w), Worker(r, w),
         \/ RunWallet(r, w) \/ WalletTooLate(r, w) \/ RunWalletFails(r, w)
         \/ RunWalletEnds(r, w)
  PROVE  Calls!Next \/ UNCHANGED callMapped
  <1>. DEFINE c == <<r, w>>
  <1>1. TypeOK /\ step[r][w] \in {"locked", "running"} /\ holder[w] = r
    BY DEF IInv, LockInv, Worker, RunWallet, WalletTooLate, RunWalletFails, RunWalletEnds
  <1>2. holder' = holder /\ step'[r][w] \in {"running", "ended"}
    BY <1>1
    DEF RunWallet, WalletTooLate, RunWalletFails, RunWalletEnds, FinalizeWallet, End, Move,
        TypeOK
  <1>3. callPlace' = callPlace /\ callPlace[c] = "holds"
    <2>1. callPlace[c] = "holds" /\ WalletPlace(r, w)' = callPlace[c]
      BY <1>1, <1>2, MyPlace DEF WalletPlace
    <2>2. callPlace' = [callPlace EXCEPT ![c] = callPlace[c]]
      BY <2>1, MyCall
    <2>3. QED  BY <2>1, <2>2 DEF callPlace
  <1>4. callAnswer' = callAnswer
    <2>1. Answered(r, w)' = callAnswer[c]
      BY <1>1, <1>2, MyPlace DEF Answered
    <2>2. callAnswer' = [callAnswer EXCEPT ![c] = callAnswer[c]]
      BY <2>1, MyCall
    <2>3. QED  BY <2>2 DEF callAnswer
  <1>5. callTold' = [callTold EXCEPT ![c] = sync'[r][w]] /\ callTold[c] = sync[r][w]
    BY MyCall, MyPlace
  <1>6. sync'[r][w] = sync[r][w] => callTold' = callTold
    BY <1>5 DEF callTold
  <1>7. CASE sync'[r][w] = sync[r][w]
    BY <1>3, <1>4, <1>6, <1>7 DEF callMapped
  <1>8. CASE sync'[r][w] # sync[r][w] /\ step[r][w] = "locked"
    <2>1. sync'[r][w] = "running" /\ sync[r][w] = "none"
      BY <1>1, <1>8
      DEF LockInv, RunWallet, WalletTooLate, RunWalletFails, RunWalletEnds, TypeOK
    <2>2. Calls!Open(c)
      BY <1>3, <1>4, <1>5, <2>1
      DEF Calls!Open, Calls!Tell, callPlace, callTold, callAnswer, CallId
    <2>3. QED  BY <1>8, <2>2, Speaks DEF Calls!Speak
  <1>9. CASE sync'[r][w] # sync[r][w] /\ step[r][w] = "running"
    <2>1. PICK o \in Reports : FinalizeWallet(r, w, o)
      BY <1>9 DEF RunWallet, WalletTooLate, RunWalletFails, RunWalletEnds
    <2>2. sync'[r][w] \in WalletStatus /\ sync[r][w] = "running"
      BY <1>1, <1>9, <2>1, ReportsType DEF LockInv, FinalizeWallet, TypeOK
    <2>3. Calls!Close(c)
      BY <1>3, <1>4, <1>5, <2>2
      DEF Calls!Close, Calls!Tell, WalletStatus, callPlace, callTold, callAnswer, CallId
    <2>4. QED  BY <1>9, <2>3, Speaks DEF Calls!Speak
  <1>10. QED  BY <1>1, <1>7, <1>8, <1>9

LEMMA ReleaseMaps ==
  ASSUME IInv, NEW r \in Run, NEW w \in Wallet, LockInv(r, w), Worker(r, w), Release(r, w)
  PROVE  Calls!Next
  <1>. DEFINE c == <<r, w>>
  <1>1. /\ TypeOK /\ step[r][w] = "ended" /\ holder[w] = r /\ NoRun # r
        /\ outcome[r][w] \in Outcomes /\ outcome[r][w].err \in {"nil", "other"}
        /\ WorkerInv(r, w)
    BY RunAssumption DEF IInv, RunInv, LockInv, Worker, Release, TypeOK
  <1>2. callPlace[c] = "holds" /\ callTold[c] = sync[r][w] /\ callTold' = callTold
    BY <1>1, MyPlace DEF WalletPlace, Release, callTold
  <1>3. /\ callPlace' = [callPlace EXCEPT ![c] = WalletPlace(r, w)']
        /\ callAnswer' = [callAnswer EXCEPT ![c] = Answered(r, w)']
    BY MyCall
  <1>4. step'[r][w] = "sent" /\ (WalletPlace(r, w)' = "holds" \/ WalletPlace(r, w)' = "left")
    BY <1>1 DEF Release, Send, Move, TypeOK, WalletPlace
  <1>5. CASE outcome'[r][w].err = "nil"
    <2>1. holder'[w] # r /\ outcome[r][w].err = "nil"
      BY <1>1, <1>5 DEF Release, Send, TypeOK, Outcomes
    <2>2. WalletPlace(r, w)' = "left" /\ Answered(r, w)' = "nil"
      BY <1>4, <1>5, <2>1 DEF WalletPlace, Answered
    <2>3. sync[r][w] \in {"succeeded", "partial"}
      BY <1>1, <2>1 DEF WorkerInv
    <2>4. Calls!Succeed(c)
      BY <1>2, <1>3, <2>2, <2>3
      DEF Calls!Succeed, Calls!Put, Calls!Answer, callPlace, callTold, callAnswer, CallId
    <2>5. QED  BY <1>1, <2>4, Speaks DEF Calls!Speak
  <1>6. CASE outcome'[r][w].err # "nil"
    <2>1. outcome'[r][w].err = "other"
      BY <1>1, <1>6 DEF Release, Send, TypeOK, Outcomes
    <2>2. Answered(r, w)' = "error"
      BY <1>4, <2>1 DEF Answered
    <2>3. WalletPlace(r, w)' = "holds" => callPlace' = callPlace
      BY <1>2, <1>3 DEF callPlace
    <2>4. Calls!Fail(c)
      BY <1>2, <1>3, <1>4, <2>2, <2>3
      DEF Calls!Fail, Calls!Put, Calls!Answer, callPlace, callTold, callAnswer, CallId
    <2>5. QED  BY <1>1, <2>4, Speaks DEF Calls!Speak
  <1>7. QED  BY <1>5, <1>6

LEMMA ExpiryMaps ==
  ASSUME IInv, LockInvs, NEW w \in Wallet, LockExpires(w)
  PROVE  Calls!Next
  <1>. DEFINE c == <<holder[w], w>>
  <1>1. /\ TypeOK /\ holder[w] \in Run /\ NoRun \notin Run
        /\ holder' = [holder EXCEPT ![w] = NoRun] /\ UNCHANGED <<step, outcome, sync>>
    BY RunAssumption DEF IInv, TypeOK, LockExpires
  <1>2. step[holder[w]][w] \notin {"none", "waiting", "entered"}
    BY <1>1 DEF LockInvs, LockInv
  <1>3. callTold' = callTold /\ callAnswer' = callAnswer
    BY <1>1 DEF callTold, callAnswer, Answered
  <1>4. callPlace[c] = "holds"
    BY <1>1, MyPlace DEF WalletPlace
  <1>5. \A d \in CallId : WalletPlace(d[1], d[2])' =
                            IF d = c THEN "left" ELSE WalletPlace(d[1], d[2])
    <2>1. ASSUME NEW q \in Run, NEW v \in Wallet
          PROVE  WalletPlace(q, v)' =
                   IF q = holder[w] /\ v = w THEN "left" ELSE WalletPlace(q, v)
      BY <1>1, <1>2 DEF WalletPlace, TypeOK
    <2>2. QED  BY <2>1 DEF CallId
  <1>6. callPlace' = [callPlace EXCEPT ![c] = "left"]
    BY <1>5 DEF callPlace
  <1>7. Calls!Drop(c)
    BY <1>3, <1>4, <1>6 DEF Calls!Drop, Calls!Put, callPlace, callTold, callAnswer, CallId
  <1>8. c \in CallId
    BY <1>1 DEF CallId
  <1>9. QED  BY <1>7, <1>8 DEF Calls!Next, CallId

\* Every worker of every run keeps the promise of CallContract
\* (WorkersKeepCallContract), the one each call of WalletSync keeps, for any number of
\* runs and wallets.
THEOREM WorkersKeepContract == Spec => WorkersKeepCallContract
  <1>1. Init => Calls!Init
    <2>1. Init => \A c \in CallId : /\ WalletPlace(c[1], c[2]) = "outside"
                                    /\ Answered(c[1], c[2]) = "none"
                                    /\ sync[c[1]][c[2]] = "none"
      BY RunAssumption DEF Init, CallId, WalletPlace, Answered
    <2>2. QED  BY <2>1 DEF Calls!Init, CallId
  <1>2. Spec => []LockInvs
    <2>1. Init => LockInvs
      BY RunAssumption DEF Init, LockInvs, LockInv
    <2>2. IInv /\ LockInvs /\ [Next]_vars => LockInvs'
      BY NextLockInv
    <2>3. QED  BY <2>1, <2>2, Invariant, PTL DEF Spec
  <1>3. ASSUME IInv, LockInvs, [Next]_vars
        PROVE  [Calls!Next]_callMapped
    <2>1. ASSUME NEW r \in Run, Begin(r) \/ Advance(r) \/ ContextEnds(r)
          PROVE  UNCHANGED callMapped
      <3>1. ASSUME NEW q \in Run, NEW v \in Wallet
            PROVE  /\ WalletPlace(q, v)' = WalletPlace(q, v)
                   /\ Answered(q, v)' = Answered(q, v)
        <4>1. LockInv(q, v)
          BY <1>3 DEF LockInvs
        <4>2. QED  BY <1>3, <2>1, <4>1, RunAndCalls DEF WalletPlace, Answered, LockInv
      <3>2. sync' = sync
        BY <1>3, <2>1, RunAndCalls
      <3>3. QED
        BY <3>1, <3>2 DEF callMapped, callPlace, callTold, callAnswer, CallId
    <2>2. ASSUME NEW r \in Run, NEW w \in Wallet, Worker(r, w)
          PROVE  Calls!Next \/ UNCHANGED callMapped
      <3>1. LockInv(r, w)
        BY <1>3 DEF LockInvs
      <3>2. QED
        BY <1>3, <2>2, <3>1, EarlyWorkerMaps, HoldingWorkerMaps, ReleaseMaps DEF Worker
    <2>3. ASSUME NEW w \in Wallet, LockExpires(w) PROVE Calls!Next
      BY <1>3, <2>3, ExpiryMaps
    <2>4. CASE SaveSettings \/ (\E rs : Die(rs)) \/ UNCHANGED vars
      <3>1. UNCHANGED <<step, outcome, sync, holder>>
        BY <2>4 DEF SaveSettings, Die, vars, workers
      <3>2. QED
        BY <3>1
        DEF callMapped, callPlace, WalletPlace, callTold, callAnswer, Answered, CallId
    <2>5. QED  BY <1>3, <2>1, <2>2, <2>3, <2>4 DEF Next
  <1>4. QED
    BY <1>1, <1>2, <1>3, Invariant, PTL
    DEF Spec, WorkersKeepCallContract, Calls!Spec, Calls!promise, callMapped, callPlace,
        callTold, callAnswer, CallId
=============================================================================
