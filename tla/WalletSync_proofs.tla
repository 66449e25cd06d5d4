------------------------- MODULE WalletSync_proofs -------------------------
(* Theorems about WalletSync, for every value of its constants.            *)
EXTENDS WalletSync, SequenceTheorems, FiniteSetTheorems, TLAPS

-----------------------------------------------------------------------------
(* Types.                                                                  *)

LEMMA FaultType ==
  ASSUME TypeOK, NEW n \in Nat, Fault(n)
  PROVE  faults' \in 0..MaxFaults
  BY BoundAssumption DEF TypeOK, Fault

LEMMA CallType ==
  ASSUME TypeOK, NEW s, NEW r, NEW rows,
         Call(s, r) \/ Batch(s, rows, r) \/ TailCall(r)
  PROVE  faults' \in 0..MaxFaults
  BY FaultType DEF Call, Batch, TailCall

LEMMA ProceedType ==
  ASSUME TypeOK, NEW s \in Sync, NEW where \in PCs, Proceed(s, where)
  PROVE  /\ pc' \in [Sync -> PCs]
         /\ prog' \in [Sync -> SyncProgress]
         /\ end' \in [Sync -> Outcome]
         /\ err' \in [Sync -> BOOLEAN]
  BY DEF TypeOK, Proceed, Goto

LEMMA LeaveType ==
  ASSUME TypeOK, NEW s \in Sync, NEW where \in PCs, Leave(s, where)
  PROVE  /\ pc' \in [Sync -> PCs]
         /\ prog' \in [Sync -> SyncProgress]
         /\ end' \in [Sync -> Outcome]
         /\ err' \in [Sync -> BOOLEAN]
  BY DEF TypeOK, Leave, Goto

LEMMA StopType ==
  ASSUME TypeOK, NEW s \in Sync, NEW status \in Terminal, NEW code \in Codes,
         NEW reasons \in SUBSET Reasons, Stop(s, status, code, reasons)
  PROVE  /\ pc' \in [Sync -> PCs]
         /\ prog' \in [Sync -> SyncProgress]
         /\ end' \in [Sync -> Outcome]
         /\ err' \in [Sync -> BOOLEAN]
  <1>1. pc' \in [Sync -> PCs]
    BY DEF TypeOK, Stop, Goto, PCs, Live
  <1>2. prog' \in [Sync -> SyncProgress]
    <2>1. prog[s] \in SyncProgress  BY DEF TypeOK
    <2>2. [prog[s] EXCEPT !.incomplete = @ \/ reasons # {},
                          !.reasons = @ \cup reasons] \in SyncProgress
      BY <2>1 DEF SyncProgress
    <2>3. QED  BY <2>2 DEF TypeOK, Stop
  <1>3. end' \in [Sync -> Outcome]
    BY DEF TypeOK, Stop, Outcome
  <1>4. err' \in [Sync -> BOOLEAN]
    BY DEF TypeOK, Stop
  <1>5. QED  BY <1>1, <1>2, <1>3, <1>4

LEMMA InitType == Init => TypeOK
  <1>1. SUFFICES ASSUME Init PROVE TypeOK  OBVIOUS
  <1>2. counterparties \in [Wallet \X Address -> CounterpartyRow]
    BY <1>1 DEF Init, CounterpartyRow, NoCounterparty
  <1>3. row \in [Sync -> SyncRow]
    BY <1>1 DEF Init, SyncRow, NoRow, Codes
  <1>4. core \in [Sync -> Result]
    <2>1. NoResult \in Result  BY EmptySeq DEF Result, NoResult
    <2>2. QED  BY <1>1, <2>1 DEF Init
  <1>5. prog \in [Sync -> SyncProgress]
    BY <1>1 DEF Init, SyncProgress, NoProgress
  <1>6. end \in [Sync -> Outcome]
    BY <1>1 DEF Init, Outcome, Terminal, Codes
  <1>7. /\ lock \in [Wallet -> Sync \cup {NoSync}]
        /\ faults \in 0..MaxFaults
        /\ pc \in [Sync -> PCs]
    BY <1>1, BoundAssumption DEF Init, PCs
  <1>8. QED  BY <1>1, <1>2, <1>3, <1>4, <1>5, <1>6, <1>7 DEF Init, TypeOK

LEMMA ObservationsType ==
  ASSUME NEW w, NEW got \in SUBSET Transfer, NEW q \in Observations(w, got)
  PROVE  q \in Seq(Transfer)
  <1>. DEFINE O == {t \in got : Relation(w, t) # "none"}
  <1>1. PICK n \in 0..MaxObservations : q \in [1..n -> O]
    BY DEF Observations
  <1>2. n \in Nat
    BY BoundAssumption
  <1>3. q \in [1..n -> Transfer]
    BY <1>1
  <1>4. QED  BY <1>2, <1>3

LEMMA FetchType ==
  ASSUME NEW w, NEW lo, NEW hi, NEW f \in FetchResults(w, lo, hi)
  PROVE  /\ f.got \in SUBSET Transfer
         /\ f.partial \in BOOLEAN
         /\ \A t \in f.got : lo <= t.at /\ t.at < hi
         /\ f.partial \/ f.got = Fetchable(w, lo, hi)
  BY DEF FetchResults, Fetchable

LEMMA ResultType ==
  ASSUME NEW b, NEW f, NEW obs \in Seq(Transfer), NEW cands \in SUBSET Transfer,
         NEW unknownGate \in BOOLEAN,
         b.got \in SUBSET Transfer, b.partial \in BOOLEAN,
         f.got \in SUBSET Transfer, f.partial \in BOOLEAN
  PROVE  SyncResult(b, f, obs, cands, unknownGate) \in Result
  <1>. DEFINE truncation == (IF b.partial THEN {"baseline_truncation"} ELSE {})
                            \cup (IF f.partial THEN {"scan_truncation"} ELSE {})
              reasons == truncation \cup
                         (IF unknownGate THEN {"unknown_gate"} ELSE {})
  <1>1. truncation \in SUBSET Truncations
    BY DEF Truncations
  <1>2. reasons \in SUBSET Reasons
    BY <1>1 DEF Reasons
  <1>3. SyncResult(b, f, obs, cands, unknownGate) =
          [fetched |-> b.got \cup f.got, obs |-> obs, cands |-> cands,
           baselineComplete |-> ~b.partial,
           incomplete |-> unknownGate \/ truncation # {},
           reasons |-> reasons, truncation |-> truncation]
    BY DEF SyncResult
  <1>4. QED
    <2>. HIDE DEF truncation, reasons
    <2>. QED  BY <1>1, <1>2, <1>3 DEF Result

\* what RunWalletCoreSync leaves in the result of its call
LEMMA CoreResult ==
  ASSUME TypeOK, NEW s \in Sync, RunWalletCoreSync(s)
  PROVE  \E b \in FetchResults(wal[s], win[s].baselineStart, win[s].scanStart),
            f \in FetchResults(wal[s], win[s].scanStart, win[s].scanEnd),
            unknownGate \in BOOLEAN :
         \E bq \in Observations(wal[s], b.got), fq \in Observations(wal[s], f.got),
            cs \in MaterializeCandidates(wal[s], f.got, ~b.partial) :
           /\ SyncResult(b, f, bq \o fq, cs, unknownGate) \in Result
           /\ core' = [core EXCEPT ![s] =
                          SyncResult(b, f, bq \o fq, cs, unknownGate)]
  <1>1. PICK b \in FetchResults(wal[s], win[s].baselineStart, win[s].scanStart),
             f \in FetchResults(wal[s], win[s].scanStart, win[s].scanEnd),
             unknownGate \in BOOLEAN :
        \E bq \in Observations(wal[s], b.got), fq \in Observations(wal[s], f.got),
           cs \in MaterializeCandidates(wal[s], f.got, ~b.partial) :
          core' = [core EXCEPT ![s] = SyncResult(b, f, bq \o fq, cs, unknownGate)]
    BY DEF RunWalletCoreSync
  <1>2. PICK bq \in Observations(wal[s], b.got), fq \in Observations(wal[s], f.got),
             cs \in MaterializeCandidates(wal[s], f.got, ~b.partial) :
          core' = [core EXCEPT ![s] = SyncResult(b, f, bq \o fq, cs, unknownGate)]
    BY <1>1
  <1>3. /\ b.got \in SUBSET Transfer /\ b.partial \in BOOLEAN
        /\ f.got \in SUBSET Transfer /\ f.partial \in BOOLEAN
    BY FetchType
  <1>4. bq \o fq \in Seq(Transfer)
    BY <1>3, ObservationsType, ConcatProperties
  <1>5. cs \in SUBSET Transfer
    BY <1>3 DEF MaterializeCandidates
  <1>6. SyncResult(b, f, bq \o fq, cs, unknownGate) \in Result
    BY <1>3, <1>4, <1>5, ResultType
  <1>7. QED  BY <1>2, <1>6

LEMMA CurrentType ==
  ASSUME TypeOK, NEW s \in Sync, AtObservation(s)
  PROVE  /\ Current(s) \in Transfer
         /\ CurrentEvent(s) \in Event
         /\ \E i \in DOMAIN core[s].obs : Current(s) = core[s].obs[i]
  <1>1. core[s].obs \in Seq(Transfer) /\ wal[s] \in Wallet
    BY DEF TypeOK, Result
  <1>2. QED
    BY <1>1, ElementOfSeq, LenProperties
    DEF AtObservation, Current, CurrentEvent, Event

\* the four variables that Proceed, Leave and Stop assign
ControlType ==
  /\ pc \in [Sync -> PCs]
  /\ prog \in [Sync -> SyncProgress]
  /\ end \in [Sync -> Outcome]
  /\ err \in [Sync -> BOOLEAN]

LEMMA RowStatusType ==
  ASSUME NEW x \in SyncRow
  PROVE  [x EXCEPT !.status = "running"] \in SyncRow
  BY DEF SyncRow

LEMMA EndType ==
  [status |-> "partial", code |-> "progress_failed"]
    \in Outcome
  BY DEF Outcome, Terminal, Codes

LEMMA CountEventType ==
  ASSUME NEW cp \in CounterpartyRow, NEW relation, NEW at \in Nat
  PROVE  CountEvent(cp, relation, at) \in CounterpartyRow
  BY DEF CounterpartyRow, CountEvent, Least, Greatest

LEMMA ProgressOfType ==
  ASSUME NEW c \in Result
  PROVE  ProgressOf(c) \in SyncProgress
  BY DEF Result, ProgressOf, SyncProgress, Reasons, Truncations

\* the statement of UpsertCounterpartyEvent is at an observation of its loop
AtPending == \A s \in Sync : pc[s] = "counterparty" => AtObservation(s)

LEMMA StatementType ==
  ASSUME TypeOK, AtPending, NEW s \in Sync, NEW r \in Reply, Statement(s, r)
  PROVE  TypeOK'
  <1>. USE DEF PCs, Live, Holding, Working, Over, Terminal, ControlType
  <1>1. CASE AcquireWalletLock(s, r)
    <2>1. ControlType'
      BY <1>1, ProceedType, LeaveType DEF AcquireWalletLock
    <2>2. faults' \in 0..MaxFaults
      BY <1>1, CallType DEF AcquireWalletLock
    <2>3. lock' \in [Wallet -> Sync \cup {NoSync}]
      BY <1>1 DEF AcquireWalletLock, TypeOK
    <2>4. QED  BY <1>1, <2>1, <2>2, <2>3 DEF AcquireWalletLock, TypeOK
  <1>2. CASE EnsureWallet(s, r)
    <2>1. ControlType'
      BY <1>2, ProceedType, LeaveType DEF EnsureWallet
    <2>2. faults' \in 0..MaxFaults
      BY <1>2, CallType DEF EnsureWallet
    <2>3. wallets' \subseteq Wallet
      BY <1>2 DEF EnsureWallet, TypeOK
    <2>4. QED  BY <1>2, <2>1, <2>2, <2>3 DEF EnsureWallet, TypeOK
  <1>3. CASE CreateWalletSyncRun(s, r)
    <2>1. ControlType'
      BY <1>3, ProceedType, LeaveType DEF CreateWalletSyncRun
    <2>2. faults' \in 0..MaxFaults
      BY <1>3, CallType DEF CreateWalletSyncRun
    <2>3. row' \in [Sync -> SyncRow]
      <3>1. [row[s] EXCEPT !.status = "running"] \in SyncRow
        BY RowStatusType DEF TypeOK
      <3>2. QED  BY <1>3, <3>1 DEF CreateWalletSyncRun, TypeOK
    <2>4. QED  BY <1>3, <2>1, <2>2, <2>3 DEF CreateWalletSyncRun, TypeOK
  <1>4. CASE BuildDustClassifier(s, r)
    <2>1. ControlType'
      BY <1>4, ProceedType, StopType DEF BuildDustClassifier, Codes
    <2>2. faults' \in 0..MaxFaults
      BY <1>4, CallType DEF BuildDustClassifier
    <2>3. QED  BY <1>4, <2>1, <2>2 DEF BuildDustClassifier, TypeOK, dbVars
  <1>5. CASE UpsertNormalizedTransfers(s, r)
    <2>1. ControlType'
      BY <1>5, ProceedType, StopType DEF UpsertNormalizedTransfers, Codes
    <2>2. faults' \in 0..MaxFaults
      BY <1>5, CallType DEF UpsertNormalizedTransfers
    <2>3. transactions' \subseteq Transfer
      BY <1>5 DEF UpsertNormalizedTransfers, TypeOK, Result
    <2>4. QED  BY <1>5, <2>1, <2>2, <2>3 DEF UpsertNormalizedTransfers, TypeOK
  <1>6. CASE LinkWalletTransfer(s, r)
    <2>1. ControlType'
      BY <1>6, ProceedType, StopType DEF LinkWalletTransfer, Codes, Reasons
    <2>2. faults' \in 0..MaxFaults
      BY <1>6, CallType DEF LinkWalletTransfer
    <2>3. links' \subseteq Event
      BY <1>6, CurrentType DEF LinkWalletTransfer, TypeOK
    <2>4. idx' \in [Sync -> Nat \ {0}]
      BY <1>6 DEF LinkWalletTransfer, TypeOK
    <2>5. QED  BY <1>6, <2>1, <2>2, <2>3, <2>4 DEF LinkWalletTransfer, TypeOK
  <1>7. CASE UpsertCounterpartyEvent(s, r)
    <2>. DEFINE key == <<wal[s], Counterparty(wal[s], Current(s))>>
    <2>0. Current(s) \in Transfer /\ CurrentEvent(s) \in Event
      BY <1>7, CurrentType DEF UpsertCounterpartyEvent, AtPending
    <2>1. ControlType'
      BY <1>7, ProceedType, StopType DEF UpsertCounterpartyEvent, Codes, Reasons
    <2>2. faults' \in 0..MaxFaults
      BY <1>7, CallType DEF UpsertCounterpartyEvent
    <2>3. idx' \in [Sync -> Nat \ {0}]
      BY <1>7 DEF UpsertCounterpartyEvent, TypeOK
    <2>4. applied' \subseteq Event
      BY <1>7, <2>0 DEF UpsertCounterpartyEvent, TypeOK
    <2>5. counterparties' \in [Wallet \X Address -> CounterpartyRow]
      <3>1. ASSUME key \in Wallet \X Address
            PROVE  CountEvent(counterparties[key], Relation(wal[s], Current(s)),
                              Current(s).at) \in CounterpartyRow
        <4>1. counterparties[key] \in CounterpartyRow
          BY <3>1 DEF TypeOK
        <4>2. Current(s).at \in Nat
          BY <2>0, TransferAssumption
        <4>3. QED
          BY <4>1, <4>2, CountEventType
      <3>2. QED  BY <1>7, <3>1 DEF UpsertCounterpartyEvent, TypeOK
    <2>6. QED
      BY <1>7, <2>1, <2>2, <2>3, <2>4, <2>5 DEF UpsertCounterpartyEvent, TypeOK
  <1>8. CASE InsertPoisoningCandidates(s, r)
    <2>1. ControlType'
      BY <1>8, ProceedType, StopType DEF InsertPoisoningCandidates, Codes, Reasons
    <2>2. faults' \in 0..MaxFaults
      BY <1>8, CallType DEF InsertPoisoningCandidates
    <2>3. candidates' \subseteq Sync \X Transfer
      BY <1>8 DEF InsertPoisoningCandidates, TypeOK, Result
    <2>4. QED  BY <1>8, <2>1, <2>2, <2>3 DEF InsertPoisoningCandidates, TypeOK
  <1>9. CASE UpdateWalletSyncProgress(s, r)
    <2>. DEFINE p == ProgressOf(core[s])
    <2>0. p \in SyncProgress
      BY ProgressOfType DEF TypeOK
    <2>1. pc' \in [Sync -> PCs]
      BY <1>9 DEF UpdateWalletSyncProgress, Goto, TypeOK
    <2>2. prog' \in [Sync -> SyncProgress]
      <3>1. [p EXCEPT !.incomplete = TRUE,
                      !.reasons = p.reasons \cup {"progress_failed"}] \in SyncProgress
        BY <2>0 DEF SyncProgress, Reasons
      <3>2. QED  BY <1>9, <2>0, <3>1 DEF UpdateWalletSyncProgress, TypeOK
    <2>3. /\ end' \in [Sync -> Outcome]
          /\ err' \in [Sync -> BOOLEAN]
      <3>1. end \in [Sync -> Outcome] /\ err \in [Sync -> BOOLEAN]
        BY DEF TypeOK
      <3>2. \/ UNCHANGED <<end, err>>
            \/ /\ end' = [end EXCEPT ![s] = [status |-> "partial", code |-> "progress_failed"]]
               /\ err' = [err EXCEPT ![s] = TRUE]
        BY <1>9 DEF UpdateWalletSyncProgress
      <3>3. CASE UNCHANGED <<end, err>>
        BY <3>1, <3>3
      <3>4. CASE /\ end' = [end EXCEPT ![s] = [status |-> "partial", code |-> "progress_failed"]]
                 /\ err' = [err EXCEPT ![s] = TRUE]
        BY <3>1, <3>4, EndType
      <3>5. QED  BY <3>2, <3>3, <3>4
    <2>4. faults' \in 0..MaxFaults
      BY <1>9, CallType DEF UpdateWalletSyncProgress
    <2>5. row' \in [Sync -> SyncRow]
      <3>1. [row[s] EXCEPT !.incomplete = p.incomplete,
                           !.reasons = IF p.incomplete THEN p.reasons ELSE {},
                           !.truncation = p.truncation,
                           !.baselineComplete = p.baselineComplete,
                           !.counters = TRUE] \in SyncRow
        <4>1. row[s] \in SyncRow  BY DEF TypeOK
        <4>2. QED  BY <2>0, <4>1 DEF SyncProgress, SyncRow
      <3>2. QED  BY <1>9, <3>1 DEF UpdateWalletSyncProgress, TypeOK
    <2>6. QED
      BY <1>9, <2>1, <2>2, <2>3, <2>4, <2>5 DEF UpdateWalletSyncProgress, TypeOK
  <1>10. CASE UpdateWalletLastSyncedAt(s, r)
    <2>1. ControlType'
      <3>1. CASE r = "ok"
        <4>1. pc' \in [Sync -> PCs] /\ UNCHANGED <<prog, err>>
          BY <1>10, <3>1 DEF UpdateWalletLastSyncedAt, Goto, TypeOK
        <4>2. end' \in [Sync -> Outcome]
          <5>1. [end[s] EXCEPT !.status = FinalStatus(s)] \in Outcome
            BY DEF TypeOK, FinalStatus, Outcome
          <5>2. QED  BY <1>10, <3>1, <5>1 DEF UpdateWalletLastSyncedAt, TypeOK
        <4>3. QED  BY <4>1, <4>2 DEF TypeOK
      <3>2. CASE r # "ok"
        BY <1>10, <3>2, StopType DEF UpdateWalletLastSyncedAt, Codes, Reasons
      <3>3. QED  BY <3>1, <3>2
    <2>2. faults' \in 0..MaxFaults
      BY <1>10, CallType DEF UpdateWalletLastSyncedAt
    <2>3. lastSynced' \in [Wallet -> Nat]
      BY <1>10, WindowAssumption DEF UpdateWalletLastSyncedAt, TypeOK, Greatest
    <2>4. QED  BY <1>10, <2>1, <2>2, <2>3 DEF UpdateWalletLastSyncedAt, TypeOK
  <1>11. CASE FinalizeWalletSyncRun(s, r)
    <2>. DEFINE p == prog[s]
                reasons == IF p.incomplete /\ p.reasons = {} THEN {"without_reason"}
                                                             ELSE p.reasons
    <2>1. /\ pc' \in [Sync -> PCs]
          /\ err' \in [Sync -> BOOLEAN]
      BY <1>11 DEF FinalizeWalletSyncRun, Goto, Joined, TypeOK
    <2>2. faults' \in 0..MaxFaults
      BY <1>11, CallType DEF FinalizeWalletSyncRun
    <2>3. row' \in [Sync -> SyncRow]
      <3>1. p \in SyncProgress /\ end[s] \in Outcome
        BY DEF TypeOK
      <3>2. [row[s] EXCEPT !.status = end[s].status, !.code = end[s].code,
                           !.incomplete = p.incomplete,
                           !.reasons = IF p.incomplete THEN reasons ELSE {}]
              \in SyncRow
        <4>1. row[s] \in SyncRow  BY DEF TypeOK
        <4>2. reasons \in SUBSET Reasons  BY <3>1 DEF SyncProgress, Reasons
        <4>3. QED  BY <3>1, <4>1, <4>2 DEF SyncProgress, SyncRow, Outcome
      <3>3. QED  BY <1>11, <3>2 DEF FinalizeWalletSyncRun, TypeOK
    <2>4. QED  BY <1>11, <2>1, <2>2, <2>3 DEF FinalizeWalletSyncRun, TypeOK
  <1>12. CASE ReleaseWalletLock(s, r)
    <2>1. /\ pc' \in [Sync -> PCs]
          /\ err' \in [Sync -> BOOLEAN]
          /\ lock' \in [Wallet -> Sync \cup {NoSync}]
      BY <1>12 DEF ReleaseWalletLock, Goto, Joined, TypeOK
    <2>2. faults' \in 0..MaxFaults
      BY <1>12, CallType DEF ReleaseWalletLock
    <2>3. QED  BY <1>12, <2>1, <2>2 DEF ReleaseWalletLock, TypeOK
  <1>13. QED
    BY <1>1, <1>2, <1>3, <1>4, <1>5, <1>6, <1>7, <1>8, <1>9, <1>10, <1>11, <1>12
    DEF Statement

LEMMA StepType ==
  ASSUME TypeOK, AtPending, NEW s \in Sync, Step(s)
  PROVE  TypeOK'
  <1>. USE DEF PCs, Live, Holding, Working, Terminal, ControlType
  <1>1. ASSUME NEW r \in Reply, Statement(s, r) PROVE TypeOK'
    BY <1>1, StatementType
  <1>2. CASE Enter(s)
    <2>1. ControlType'
      BY <1>2, ProceedType, LeaveType DEF Enter
    <2>2. QED  BY <1>2, <2>1 DEF Enter, TypeOK, dbVars
  <1>3. CASE RunWalletCoreSync(s)
    <2>1. ControlType'
      BY <1>3, ProceedType DEF RunWalletCoreSync
    <2>2. core' \in [Sync -> Result]
      BY <1>3, CoreResult DEF TypeOK
    <2>3. QED  BY <1>3, <2>1, <2>2 DEF RunWalletCoreSync, TypeOK, dbVars
  <1>4. CASE CoreSyncFails(s)
    <2>1. ControlType'
      BY <1>4, StopType DEF CoreSyncFails, Codes, Reasons
    <2>2. QED  BY <1>4, <2>1 DEF CoreSyncFails, TypeOK, dbVars
  <1>5. CASE LoopEnds(s)
    <2>1. ControlType'
      BY <1>5, ProceedType DEF LoopEnds
    <2>2. QED  BY <1>5, <2>1 DEF LoopEnds, TypeOK, dbVars
  <1>6. QED
    BY <1>1, <1>2, <1>3, <1>4, <1>5 DEF Step

LEMMA NextType ==
  ASSUME TypeOK, AtPending, [Next]_vars
  PROVE  TypeOK'
  <1>1. ASSUME NEW s \in Sync, Step(s) PROVE TypeOK'
    BY <1>1, StepType
  <1>2. ASSUME NEW s \in Sync, Crash(s) PROVE TypeOK'
    <2>1. pc' \in [Sync -> PCs]
      BY <1>2 DEF Crash, Goto, TypeOK, PCs, Over
    <2>2. faults' \in 0..MaxFaults
      BY <1>2, FaultType DEF Crash
    <2>3. QED  BY <1>2, <2>1, <2>2 DEF Crash, TypeOK, dbVars
  <1>3. ASSUME NEW s \in Sync, NEW cause \in {"deadline", "canceled"},
               ContextEnds(s, cause)
        PROVE  TypeOK'
    BY <1>3 DEF ContextEnds, TypeOK, dbVars
  <1>4. ASSUME NEW w \in Wallet, LockExpires(w) PROVE TypeOK'
    BY <1>4 DEF LockExpires, TypeOK, callVars
  <1>5. CASE UNCHANGED vars
    BY <1>5 DEF vars, dbVars, callVars, TypeOK
  <1>6. QED
    BY <1>1, <1>2, <1>3, <1>4, <1>5 DEF Next

-----------------------------------------------------------------------------
(* What a step of one call leaves alone in the others.                     *)

\* a step leaves the locals and the row of call z as they are
Alone(z) ==
  /\ pc'[z] = pc[z] /\ core'[z] = core[z] /\ idx'[z] = idx[z]
  /\ row'[z] = row[z] /\ prog'[z] = prog[z] /\ end'[z] = end[z] /\ err'[z] = err[z]

LEMMA StatementFrame ==
  ASSUME TypeOK, NEW s \in Sync, NEW r \in Reply, Statement(s, r)
  PROVE  UNCHANGED <<wal, win, ctx, core>> /\ \A z \in Sync \ {s} : Alone(z)
  <1>. USE DEF TypeOK, Alone, Proceed, Leave, Stop, Goto
  <1>1. CASE AcquireWalletLock(s, r)  BY <1>1 DEF AcquireWalletLock
  <1>2. CASE EnsureWallet(s, r)  BY <1>2 DEF EnsureWallet
  <1>3. CASE CreateWalletSyncRun(s, r)  BY <1>3 DEF CreateWalletSyncRun
  <1>4. CASE BuildDustClassifier(s, r)  BY <1>4 DEF BuildDustClassifier, dbVars
  <1>5. CASE UpsertNormalizedTransfers(s, r)  BY <1>5 DEF UpsertNormalizedTransfers
  <1>6. CASE LinkWalletTransfer(s, r)  BY <1>6 DEF LinkWalletTransfer
  <1>7. CASE UpsertCounterpartyEvent(s, r)  BY <1>7 DEF UpsertCounterpartyEvent
  <1>8. CASE InsertPoisoningCandidates(s, r)  BY <1>8 DEF InsertPoisoningCandidates
  <1>9. CASE UpdateWalletSyncProgress(s, r)  BY <1>9 DEF UpdateWalletSyncProgress
  <1>10. CASE UpdateWalletLastSyncedAt(s, r)  BY <1>10 DEF UpdateWalletLastSyncedAt
  <1>11. CASE FinalizeWalletSyncRun(s, r)  BY <1>11 DEF FinalizeWalletSyncRun
  <1>12. CASE ReleaseWalletLock(s, r)  BY <1>12 DEF ReleaseWalletLock
  <1>13. QED
    BY <1>1, <1>2, <1>3, <1>4, <1>5, <1>6, <1>7, <1>8, <1>9, <1>10, <1>11, <1>12
    DEF Statement

LEMMA StepFrame ==
  ASSUME TypeOK, NEW s \in Sync, Step(s) \/ Crash(s)
  PROVE  UNCHANGED <<wal, win, ctx>> /\ \A z \in Sync \ {s} : Alone(z)
  <1>. USE DEF TypeOK, Alone, Proceed, Leave, Stop, Goto, dbVars
  <1>1. ASSUME NEW r \in Reply, Statement(s, r)
        PROVE  UNCHANGED <<wal, win, ctx>> /\ \A z \in Sync \ {s} : Alone(z)
    BY <1>1, StatementFrame
  <1>2. CASE Enter(s)  BY <1>2 DEF Enter
  <1>3. CASE RunWalletCoreSync(s)
    <2>1. PICK c : core' = [core EXCEPT ![s] = c]
      BY <1>3, CoreResult
    <2>2. QED  BY <1>3, <2>1 DEF RunWalletCoreSync
  <1>4. CASE CoreSyncFails(s)  BY <1>4 DEF CoreSyncFails
  <1>5. CASE LoopEnds(s)  BY <1>5 DEF LoopEnds
  <1>6. CASE Crash(s)  BY <1>6 DEF Crash
  <1>7. QED
    BY <1>1, <1>2, <1>3, <1>4, <1>5, <1>6 DEF Step

-----------------------------------------------------------------------------
(* Every variable keeps its type.                                          *)

\* a counterparty statement is due only after a link that was fresh
LEMMA OnlyLinkPends ==
  ASSUME TypeOK, NEW s \in Sync, Step(s) \/ Crash(s), pc'[s] = "counterparty"
  PROVE  /\ LinkWalletTransfer(s, "ok")
         /\ Current(s) \in transactions
         /\ Fresh(s)
         /\ UNCHANGED <<core, idx>>
  <1>. USE DEF TypeOK, Proceed, Leave, Stop, Goto
  <1>1. ASSUME NEW r \in Reply, Statement(s, r)
        PROVE  LinkWalletTransfer(s, r)
    <2>1. CASE AcquireWalletLock(s, r)  BY <2>1 DEF AcquireWalletLock
    <2>2. CASE EnsureWallet(s, r)  BY <2>2 DEF EnsureWallet
    <2>3. CASE CreateWalletSyncRun(s, r)  BY <2>3 DEF CreateWalletSyncRun
    <2>4. CASE BuildDustClassifier(s, r)  BY <2>4 DEF BuildDustClassifier
    <2>5. CASE UpsertNormalizedTransfers(s, r)  BY <2>5 DEF UpsertNormalizedTransfers
    <2>6. CASE UpsertCounterpartyEvent(s, r)  BY <2>6 DEF UpsertCounterpartyEvent
    <2>7. CASE InsertPoisoningCandidates(s, r)  BY <2>7 DEF InsertPoisoningCandidates
    <2>8. CASE UpdateWalletSyncProgress(s, r)  BY <2>8 DEF UpdateWalletSyncProgress
    <2>9. CASE UpdateWalletLastSyncedAt(s, r)  BY <2>9 DEF UpdateWalletLastSyncedAt
    <2>10. CASE FinalizeWalletSyncRun(s, r)  BY <2>10 DEF FinalizeWalletSyncRun
    <2>11. CASE ReleaseWalletLock(s, r)  BY <2>11 DEF ReleaseWalletLock
    <2>12. QED
      BY <1>1, <2>1, <2>2, <2>3, <2>4, <2>5, <2>6, <2>7, <2>8, <2>9, <2>10, <2>11
      DEF Statement
  <1>2. PICK r \in Reply : LinkWalletTransfer(s, r)
    BY <1>1 DEF Step, Enter, RunWalletCoreSync, CoreSyncFails, LoopEnds, Crash
  <1>3. QED  BY <1>2 DEF LinkWalletTransfer

LEMMA PendingStep ==
  ASSUME TypeOK, AtPending, [Next]_vars
  PROVE  AtPending'
  <1>. USE DEF AtPending
  <1>1. ASSUME NEW s \in Sync, Step(s) \/ Crash(s) PROVE AtPending'
    <2>1. ASSUME NEW z \in Sync \ {s}, pc'[z] = "counterparty"
          PROVE  AtObservation(z)'
      BY <1>1, <2>1, StepFrame DEF Alone, AtObservation
    <2>2. ASSUME pc'[s] = "counterparty" PROVE AtObservation(s)'
      BY <1>1, <2>2, OnlyLinkPends DEF LinkWalletTransfer, AtObservation
    <2>3. QED  BY <2>1, <2>2
  <1>2. ASSUME UNCHANGED <<pc, core, idx>> PROVE AtPending'
    BY <1>2 DEF AtObservation
  <1>3. QED
    BY <1>1, <1>2
    DEF Next, ContextEnds, LockExpires, vars, callVars

\* Every variable of a wallet sync holds values of its kind, whatever is
\* interleaved, fails or crashes (the types of TypeOK).
THEOREM TypeCorrect == Spec => []TypeOK
  <1>1. Init => TypeOK /\ AtPending
    BY InitType DEF Init, AtPending
  <1>2. TypeOK /\ AtPending /\ [Next]_vars => (TypeOK /\ AtPending)'
    BY NextType, PendingStep
  <1>3. QED  BY <1>1, <1>2, PTL DEF Spec

-----------------------------------------------------------------------------
(* The lock.                                                               *)

LockHeld == \A s \in Sync : pc[s] \in Holding => lock[wal[s]] = s

\* a call takes a free lock, gives up its own, or leaves all locks alone
Takes(s) == LockFree(wal[s]) /\ lock' = [lock EXCEPT ![wal[s]] = s]
Gives(s) == /\ lock[wal[s]] = s
            /\ lock' = [lock EXCEPT ![wal[s]] = NoSync]
            /\ pc'[s] = "done"
Keeps(s) == UNCHANGED lock /\ (pc'[s] \in Holding => pc[s] \in Holding)

LEMMA LockStep ==
  ASSUME TypeOK, NEW s \in Sync, Step(s) \/ Crash(s)
  PROVE  Takes(s) \/ Gives(s) \/ Keeps(s)
  <1>. USE DEF TypeOK, Proceed, Leave, Stop, Goto, Holding, Working
  <1>1. ASSUME NEW r \in Reply, Statement(s, r)
        PROVE  Takes(s) \/ Gives(s) \/ Keeps(s)
    <2>1. CASE AcquireWalletLock(s, r)
      BY <2>1 DEF AcquireWalletLock, Takes, Keeps
    <2>2. CASE EnsureWallet(s, r)  BY <2>2 DEF EnsureWallet, Keeps
    <2>3. CASE CreateWalletSyncRun(s, r)  BY <2>3 DEF CreateWalletSyncRun, Keeps
    <2>4. CASE BuildDustClassifier(s, r)  BY <2>4 DEF BuildDustClassifier, Keeps, dbVars
    <2>5. CASE UpsertNormalizedTransfers(s, r)
      BY <2>5 DEF UpsertNormalizedTransfers, Keeps
    <2>6. CASE LinkWalletTransfer(s, r)  BY <2>6 DEF LinkWalletTransfer, Keeps
    <2>7. CASE UpsertCounterpartyEvent(s, r)
      BY <2>7 DEF UpsertCounterpartyEvent, Keeps
    <2>8. CASE InsertPoisoningCandidates(s, r)
      BY <2>8 DEF InsertPoisoningCandidates, Keeps
    <2>9. CASE UpdateWalletSyncProgress(s, r)
      BY <2>9 DEF UpdateWalletSyncProgress, Keeps
    <2>10. CASE UpdateWalletLastSyncedAt(s, r)
      BY <2>10 DEF UpdateWalletLastSyncedAt, Keeps
    <2>11. CASE FinalizeWalletSyncRun(s, r)
      BY <2>11 DEF FinalizeWalletSyncRun, Keeps
    <2>12. CASE ReleaseWalletLock(s, r)
      BY <2>12 DEF ReleaseWalletLock, Gives, Keeps
    <2>13. QED
      BY <1>1, <2>1, <2>2, <2>3, <2>4, <2>5, <2>6, <2>7, <2>8, <2>9, <2>10, <2>11,
         <2>12
      DEF Statement
  <1>2. CASE Enter(s)  BY <1>2 DEF Enter, Keeps, dbVars
  <1>3. CASE RunWalletCoreSync(s)  BY <1>3 DEF RunWalletCoreSync, Keeps, dbVars
  <1>4. CASE CoreSyncFails(s)  BY <1>4 DEF CoreSyncFails, Keeps, dbVars
  <1>5. CASE LoopEnds(s)  BY <1>5 DEF LoopEnds, Keeps, dbVars
  <1>6. CASE Crash(s)  BY <1>6 DEF Crash, Keeps, dbVars
  <1>7. QED
    BY <1>1, <1>2, <1>3, <1>4, <1>5, <1>6 DEF Step

LEMMA LockHeldStep ==
  ASSUME TypeOK, LockHeld, [Next]_vars
  PROVE  LockHeld'
  <1>1. ASSUME NEW s \in Sync, Step(s) \/ Crash(s) PROVE LockHeld'
    <2>1. UNCHANGED wal /\ \A z \in Sync \ {s} : pc'[z] = pc[z]
      BY <1>1, StepFrame DEF Alone
    <2>2. \A z \in Sync : z # NoSync /\ wal[z] \in Wallet
      BY BoundAssumption DEF TypeOK
    <2>3. CASE Takes(s)
      BY <2>1, <2>2, <2>3 DEF LockHeld, Takes, LockFree, TypeOK
    <2>4. CASE Gives(s)
      BY <2>1, <2>2, <2>4 DEF LockHeld, Gives, TypeOK, Holding, Working
    <2>5. CASE Keeps(s)
      BY <2>1, <2>5 DEF LockHeld, Keeps
    <2>6. QED  BY <1>1, <2>3, <2>4, <2>5, LockStep
  <1>2. ASSUME NEW w \in Wallet, LockExpires(w) PROVE LockHeld'
    BY <1>2
    DEF LockHeld, LockExpires, callVars, TypeOK, Ending, Over, Holding, Working
  <1>3. ASSUME UNCHANGED <<pc, wal, lock>> PROVE LockHeld'
    BY <1>3 DEF LockHeld
  <1>4. QED
    BY <1>1, <1>2, <1>3 DEF Next, ContextEnds, vars, dbVars, callVars

\* At most one call per wallet is at a statement of RunWallet under its wallet
\* context (OneCallPerWallet): the row of wallet_locks names it.
THEOREM OneCall == Spec => []OneCallPerWallet
  <1>1. Init => LockHeld
    BY DEF Init, LockHeld, Holding, Working
  <1>2. TypeOK /\ LockHeld /\ [Next]_vars => LockHeld'
    BY LockHeldStep
  <1>3. LockHeld => OneCallPerWallet
    BY DEF LockHeld, OneCallPerWallet
  <1>4. QED  BY <1>1, <1>2, <1>3, TypeCorrect, PTL DEF Spec

-----------------------------------------------------------------------------
(* The counters.                                                           *)

LEMMA RelationType ==
  ASSUME NEW w, NEW t \in Transfer, Relation(w, t) # "none"
  PROVE  /\ Relation(w, t) \in {"sender", "receiver"}
         /\ Counterparty(w, t) \in Address
  <1>1. /\ t.src \in Address \cup {NoOwner}
        /\ t.dst \in Address \cup {NoOwner}
    BY TransferAssumption
  <1>2. ~(NoOwner \in {t.src, t.dst} \/ t.src = t.dst)
    BY DEF Relation
  <1>3. t.src \in Address /\ t.dst \in Address
    BY <1>1, <1>2
  <1>4. CASE t.src = w
    BY <1>2, <1>3, <1>4 DEF Relation, Counterparty
  <1>5. CASE t.src # w
    BY <1>2, <1>3, <1>5 DEF Relation, Counterparty
  <1>6. QED  BY <1>4, <1>5

\* one more event in a row and in what it sums up
LEMMA TallyOneMore ==
  ASSUME NEW cp \in CounterpartyRow, NEW es, IsFiniteSet(es), Tallied(cp, es),
         NEW e, e \notin es, e[2].at \in Nat, \A x \in es : x[2].at \in Nat,
         Relation(e[1], e[2]) \in {"sender", "receiver"}
  PROVE  Tallied(CountEvent(cp, Relation(e[1], e[2]), e[2].at), es \cup {e})
  <1>. DEFINE next == CountEvent(cp, Relation(e[1], e[2]), e[2].at)
              In(S) == {x \in S : Relation(x[1], x[2]) = "receiver"}
  <1>1. /\ cp.interactions \in Nat /\ cp.inbound \in Nat /\ cp.outbound \in Nat
        /\ cp.firstSeen \in Nat /\ cp.lastSeen \in Nat
    BY DEF CounterpartyRow
  <1>2. next.interactions = Cardinality(es \cup {e})
    <2>1. next.interactions = cp.interactions + 1
      BY DEF CountEvent
    <2>2. Cardinality(es \cup {e}) = Cardinality(es) + 1
      BY FS_AddElement
    <2>3. cp.interactions = Cardinality(es)
      BY DEF Tallied
    <2>4. QED  BY <2>1, <2>2, <2>3
  <1>3. next.inbound = Cardinality(In(es \cup {e}))
    <2>1. IsFiniteSet(In(es)) /\ e \notin In(es)
      BY FS_Subset
    <2>2. CASE Relation(e[1], e[2]) = "receiver"
      <3>1. In(es \cup {e}) = In(es) \cup {e}
        BY <2>2
      <3>2. Cardinality(In(es) \cup {e}) = Cardinality(In(es)) + 1
        BY <2>1, FS_AddElement
      <3>3. QED  BY <1>1, <2>2, <3>1, <3>2 DEF CountEvent, Tallied
    <2>3. CASE Relation(e[1], e[2]) = "sender"
      <3>1. In(es \cup {e}) = In(es)
        BY <2>3
      <3>2. next.inbound = cp.inbound
        BY <1>1, <2>3 DEF CountEvent
      <3>3. cp.inbound = Cardinality(In(es))
        BY DEF Tallied
      <3>4. QED  BY <3>1, <3>2, <3>3
    <2>4. QED  BY <2>2, <2>3
  <1>4. next.inbound + next.outbound = next.interactions
    BY <1>1 DEF CountEvent, Tallied
  <1>5. ASSUME NEW x \in es \cup {e}
        PROVE  next.firstSeen <= x[2].at /\ x[2].at <= next.lastSeen
    <2>1. x[2].at \in Nat
      OBVIOUS
    <2>2. CASE cp.interactions = 0
      <3>1. es = {}
        BY <2>2, FS_EmptySet DEF Tallied
      <3>2. QED  BY <2>1, <2>2, <3>1 DEF CountEvent
    <2>3. CASE cp.interactions # 0
      <3>1. CASE x = e
        BY <1>1, <2>1, <2>3, <3>1 DEF CountEvent, Least, Greatest
      <3>2. CASE x \in es
        BY <1>1, <2>1, <2>3, <3>2 DEF CountEvent, Least, Greatest, Tallied
      <3>3. QED  BY <3>1, <3>2
    <2>4. QED  BY <2>2, <2>3
  <1>6. QED  BY <1>2, <1>3, <1>4, <1>5 DEF Tallied

\* normalizeWindow keeps only transfers the wallet has a side in
Related == \A s \in Sync : \A i \in DOMAIN core[s].obs :
             Relation(wal[s], core[s].obs[i]) # "none"

\* a counterparty statement is due for an event that is linked and not counted
Pending == \A s \in Sync : pc[s] = "counterparty" =>
             CurrentEvent(s) \in links \ applied

CountInv ==
  /\ applied \subseteq links
  /\ IsFiniteSet(applied)
  /\ Pending
  /\ \A w \in Wallet, a \in Address : Tallied(counterparties[<<w, a>>], EventsOf(w, a))

LEMMA ObservationsRelated ==
  ASSUME NEW w, NEW got \in SUBSET Transfer,
         NEW q \in Observations(w, got), NEW i \in DOMAIN q
  PROVE  Relation(w, q[i]) # "none"
  BY DEF Observations

LEMMA RelatedStep ==
  ASSUME TypeOK, Related, [Next]_vars
  PROVE  Related'
  <1>1. ASSUME NEW s \in Sync, RunWalletCoreSync(s) PROVE Related'
    <2>1. PICK b \in FetchResults(wal[s], win[s].baselineStart, win[s].scanStart),
               f \in FetchResults(wal[s], win[s].scanStart, win[s].scanEnd),
               unknownGate \in BOOLEAN :
          \E bq \in Observations(wal[s], b.got), fq \in Observations(wal[s], f.got),
             cs \in MaterializeCandidates(wal[s], f.got, ~b.partial) :
            core' = [core EXCEPT ![s] = SyncResult(b, f, bq \o fq, cs, unknownGate)]
      BY <1>1, CoreResult
    <2>2. PICK bq \in Observations(wal[s], b.got), fq \in Observations(wal[s], f.got),
               cs \in MaterializeCandidates(wal[s], f.got, ~b.partial) :
            core' = [core EXCEPT ![s] = SyncResult(b, f, bq \o fq, cs, unknownGate)]
      BY <2>1
    <2>3. b.got \in SUBSET Transfer /\ f.got \in SUBSET Transfer
      BY FetchType
    <2>4. bq \in Seq(Transfer) /\ fq \in Seq(Transfer)
      BY <2>3, ObservationsType
    <2>5. ASSUME NEW i \in DOMAIN (bq \o fq)
          PROVE  Relation(wal[s], (bq \o fq)[i]) # "none"
      <3>1. CASE i \in DOMAIN bq
        <4>1. (bq \o fq)[i] = bq[i]
          BY <2>4, <3>1, LenProperties, ConcatProperties
        <4>2. QED  BY <2>3, <3>1, <4>1, ObservationsRelated
      <3>2. CASE i \notin DOMAIN bq
        <4>1. i - Len(bq) \in DOMAIN fq /\ (bq \o fq)[i] = fq[i - Len(bq)]
          BY <2>4, <2>5, <3>2, LenProperties, ConcatProperties
        <4>2. QED  BY <2>3, <4>1, ObservationsRelated
      <3>3. QED  BY <3>1, <3>2
    <2>6. core'[s].obs = bq \o fq
      BY <2>2 DEF SyncResult, TypeOK
    <2>7. wal' = wal
      BY <1>1 DEF RunWalletCoreSync
    <2>8. \A t \in Sync \ {s} : core'[t] = core[t]
      BY <2>2 DEF TypeOK
    <2>9. ASSUME NEW t \in Sync, NEW i \in DOMAIN core'[t].obs
          PROVE  Relation(wal'[t], core'[t].obs[i]) # "none"
      <3>1. CASE t = s
        BY <2>5, <2>6, <2>7, <2>9, <3>1
      <3>2. CASE t # s
        BY <2>7, <2>8, <2>9, <3>2 DEF Related
      <3>3. QED  BY <3>1, <3>2
    <2>10. QED  BY <2>9 DEF Related
  <1>2. ASSUME NEW s \in Sync, NEW r \in Reply, Statement(s, r) PROVE Related'
    BY <1>2, StatementFrame DEF Related
  <1>3. ASSUME UNCHANGED <<core, wal>> PROVE Related'
    BY <1>3 DEF Related
  <1>4. QED
    BY <1>1, <1>2, <1>3
    DEF Next, Step, Enter, CoreSyncFails, LoopEnds, Crash, ContextEnds, LockExpires,
        vars, callVars

\* a step counts the event its call stands at, or counts nothing
Counts(s) ==
  LET e == CurrentEvent(s)
      key == <<wal[s], Counterparty(wal[s], Current(s))>>
  IN
  /\ pc[s] = "counterparty" /\ pc'[s] # "counterparty"
  /\ applied' = applied \cup {e}
  /\ counterparties' = [counterparties EXCEPT ![key] =
       CountEvent(counterparties[key], Relation(wal[s], Current(s)), Current(s).at)]

LEMMA CountStep ==
  ASSUME TypeOK, NEW s \in Sync, Step(s) \/ Crash(s)
  PROVE  /\ links \subseteq links'
         /\ UNCHANGED <<applied, counterparties>> \/ Counts(s)
  <1>. USE DEF TypeOK, Proceed, Leave, Stop, Goto, dbVars
  <1>1. ASSUME NEW r \in Reply, Statement(s, r)
        PROVE  /\ links \subseteq links'
               /\ UNCHANGED <<applied, counterparties>> \/ Counts(s)
    <2>1. CASE UpsertCounterpartyEvent(s, r)
      BY <2>1 DEF UpsertCounterpartyEvent, Counts
    <2>2. CASE LinkWalletTransfer(s, r)  BY <2>2 DEF LinkWalletTransfer
    <2>3. QED
      BY <1>1, <2>1, <2>2
      DEF Statement, AcquireWalletLock, EnsureWallet, CreateWalletSyncRun,
          BuildDustClassifier, UpsertNormalizedTransfers, InsertPoisoningCandidates,
          UpdateWalletSyncProgress, UpdateWalletLastSyncedAt, FinalizeWalletSyncRun,
          ReleaseWalletLock
  <1>2. QED
    BY <1>1 DEF Step, Enter, RunWalletCoreSync, CoreSyncFails, LoopEnds, Crash

LEMMA PendingCounts ==
  ASSUME TypeOK, LockHeld, applied \subseteq links, Pending, NEW s \in Sync,
         Step(s) \/ Crash(s)
  PROVE  Pending'
  <1>1. ASSUME NEW z \in Sync \ {s}, pc'[z] = "counterparty"
        PROVE  CurrentEvent(z)' \in links' \ applied'
    <2>1. pc[z] = "counterparty" /\ CurrentEvent(z)' = CurrentEvent(z)
      BY <1>1, StepFrame DEF Alone, CurrentEvent, Current
    <2>2. CurrentEvent(z) \in links \ applied
      BY <2>1 DEF Pending
    <2>3. Counts(s) => wal[s] # wal[z]
      BY <2>1 DEF Counts, LockHeld, Holding, Working
    <2>4. QED
      BY <2>1, <2>2, <2>3, CountStep DEF Counts, CurrentEvent
  <1>2. ASSUME pc'[s] = "counterparty"
        PROVE  CurrentEvent(s)' \in links' \ applied'
    <2>1. LinkWalletTransfer(s, "ok") /\ Current(s) \in transactions /\ Fresh(s)
          /\ UNCHANGED <<core, idx>>
      BY <1>2, OnlyLinkPends
    <2>2. UNCHANGED <<wal, applied>> /\ links' = links \cup {CurrentEvent(s)}
      BY <2>1 DEF LinkWalletTransfer
    <2>3. CurrentEvent(s)' = CurrentEvent(s)
      BY <2>1, <2>2 DEF CurrentEvent, Current
    <2>4. QED  BY <2>1, <2>2, <2>3 DEF Fresh
  <1>3. QED  BY <1>1, <1>2 DEF Pending

\* the counters follow when an event is counted that was pending
LEMMA TalliedCounts ==
  ASSUME TypeOK, Related, AtPending, CountInv, NEW s \in Sync, Counts(s),
         NEW w \in Wallet, NEW a \in Address
  PROVE  Tallied(counterparties[<<w, a>>], EventsOf(w, a))'
  <1>. DEFINE t == Current(s)
              e == CurrentEvent(s)
              key == <<wal[s], Counterparty(wal[s], t)>>
  <1>1. e = <<wal[s], t>> /\ e \notin applied
    BY DEF Counts, CountInv, Pending, CurrentEvent
  <1>2. t \in Transfer /\ t.at \in Nat /\ Relation(wal[s], t) # "none"
    BY CurrentType, TransferAssumption DEF Counts, AtPending, Related
  <1>3. /\ Relation(wal[s], t) \in {"sender", "receiver"}
        /\ key \in Wallet \X Address
    BY <1>2, RelationType DEF TypeOK
  <1>4. \A x \in applied : x[2].at \in Nat
    BY TransferAssumption DEF TypeOK, Event
  <1>5. /\ IsFiniteSet(EventsOf(w, a))
        /\ Tallied(counterparties[<<w, a>>], EventsOf(w, a))
        /\ counterparties[<<w, a>>] \in CounterpartyRow
    <2>1. EventsOf(w, a) \subseteq applied /\ IsFiniteSet(applied)
      BY DEF EventsOf, CountInv
    <2>2. IsFiniteSet(EventsOf(w, a))
      BY <2>1, FS_Subset
    <2>3. Tallied(counterparties[<<w, a>>], EventsOf(w, a))
      BY DEF CountInv
    <2>4. counterparties[<<w, a>>] \in CounterpartyRow
      BY DEF TypeOK
    <2>5. QED  BY <2>2, <2>3, <2>4
  <1>6. CASE key = <<w, a>>
    <2>1. EventsOf(w, a)' = EventsOf(w, a) \cup {e}
      BY <1>1, <1>6 DEF EventsOf, Counts
    <2>2. counterparties'[<<w, a>>] =
            CountEvent(counterparties[<<w, a>>], Relation(e[1], e[2]), e[2].at)
      BY <1>1, <1>3, <1>6 DEF Counts, TypeOK
    <2>3. /\ e \notin EventsOf(w, a)
          /\ e[2].at \in Nat
          /\ \A x \in EventsOf(w, a) : x[2].at \in Nat
          /\ Relation(e[1], e[2]) \in {"sender", "receiver"}
      BY <1>1, <1>2, <1>3, <1>4 DEF EventsOf
    <2>4. Tallied(CountEvent(counterparties[<<w, a>>], Relation(e[1], e[2]), e[2].at),
                  EventsOf(w, a) \cup {e})
      BY <1>5, <2>3, TallyOneMore
    <2>5. QED  BY <2>1, <2>2, <2>4 DEF Tallied
  <1>7. CASE key # <<w, a>>
    <2>1. EventsOf(w, a)' = EventsOf(w, a)
      BY <1>1, <1>7 DEF EventsOf, Counts
    <2>2. counterparties'[<<w, a>>] = counterparties[<<w, a>>]
      BY <1>7 DEF Counts, TypeOK
    <2>3. QED  BY <1>5, <2>1, <2>2 DEF Tallied
  <1>8. QED  BY <1>6, <1>7

LEMMA CountInvStep ==
  ASSUME TypeOK, LockHeld, Related, AtPending, CountInv, [Next]_vars
  PROVE  CountInv'
  <1>1. ASSUME NEW s \in Sync, Step(s) \/ Crash(s) PROVE CountInv'
    <2>1. Pending'
      BY <1>1, PendingCounts DEF CountInv
    <2>2. CASE Counts(s)
      <3>1. IsFiniteSet(applied') /\ applied' \subseteq links'
        BY <1>1, <2>2, CountStep, FS_AddElement DEF CountInv, Pending, Counts
      <3>2. \A w \in Wallet, a \in Address :
              Tallied(counterparties[<<w, a>>], EventsOf(w, a))'
        BY <2>2, TalliedCounts
      <3>3. QED  BY <2>1, <3>1, <3>2 DEF CountInv
    <2>3. CASE UNCHANGED <<applied, counterparties>>
      <3>1. \A w \in Wallet, a \in Address :
              Tallied(counterparties[<<w, a>>], EventsOf(w, a))'
        BY <2>3 DEF CountInv, EventsOf, Tallied
      <3>2. QED  BY <1>1, <2>1, <2>3, <3>1, CountStep DEF CountInv
    <2>4. QED  BY <1>1, <2>2, <2>3, CountStep
  <1>2. ASSUME UNCHANGED <<applied, links, counterparties, wal, core, idx>>,
               UNCHANGED pc
        PROVE  CountInv'
    BY <1>2 DEF CountInv, Pending, CurrentEvent, Current, EventsOf, Tallied
  <1>3. QED
    BY <1>1, <1>2 DEF Next, ContextEnds, LockExpires, vars, dbVars, callVars

LEMMA CountInvInit == Init => LockHeld /\ Related /\ AtPending /\ CountInv
  <1>1. SUFFICES ASSUME Init PROVE LockHeld /\ Related /\ AtPending /\ CountInv
    OBVIOUS
  <1>2. LockHeld /\ Related /\ AtPending /\ Pending
    BY <1>1
    DEF Init, LockHeld, Related, AtPending, Pending, NoResult, Holding, Working
  <1>3. ASSUME NEW w \in Wallet, NEW a \in Address
        PROVE  Tallied(counterparties[<<w, a>>], EventsOf(w, a))
    <2>1. EventsOf(w, a) = {} /\ counterparties[<<w, a>>] = NoCounterparty
      BY <1>1 DEF Init, EventsOf
    <2>2. QED  BY <2>1, FS_EmptySet DEF Tallied, NoCounterparty
  <1>4. QED  BY <1>1, <1>2, <1>3, FS_EmptySet DEF Init, CountInv

\* No event is counted twice and every counterparties row sums up exactly the
\* events counted into it (CountedOnce), however many calls rerun the wallet and
\* whatever reply is lost.
THEOREM CountsAreExact == Spec => []CountedOnce
  <1>1. TypeOK /\ AtPending /\ LockHeld /\ Related /\ CountInv /\ [Next]_vars
          => (AtPending /\ LockHeld /\ Related /\ CountInv)'
    BY PendingStep, LockHeldStep, RelatedStep, CountInvStep
  <1>2. CountInv => CountedOnce
    BY DEF CountInv, CountedOnce
  <1>3. QED  BY <1>1, <1>2, CountInvInit, TypeCorrect, PTL DEF Spec

-----------------------------------------------------------------------------
(* What a step does to its own call, variable by variable.                 *)

Goes(s, where) ==
  pc'[s] = where /\ prog'[s] = prog[s] /\ end'[s] = end[s] /\ err'[s] = err[s]

Leaves(s, where) ==
  pc'[s] = where /\ prog'[s] = prog[s] /\ end'[s] = end[s] /\ err'[s]

Stops(s, status, code, reasons) ==
  /\ pc'[s] = "finalize"
  /\ end'[s] = [status |-> status, code |-> code]
  /\ err'[s]
  /\ prog'[s].incomplete <=> prog[s].incomplete \/ reasons # {}
  /\ prog'[s].reasons = prog[s].reasons \cup reasons

LEMMA ProceedGoes ==
  ASSUME TypeOK, NEW s \in Sync, NEW where, Proceed(s, where)
  PROVE  Goes(s, where)
  BY DEF TypeOK, Proceed, Goto, Goes

LEMMA LeaveLeaves ==
  ASSUME TypeOK, NEW s \in Sync, NEW where, Leave(s, where)
  PROVE  Leaves(s, where)
  BY DEF TypeOK, Leave, Goto, Leaves

LEMMA StopStops ==
  ASSUME TypeOK, NEW s \in Sync, NEW status, NEW code, NEW reasons,
         Stop(s, status, code, reasons)
  PROVE  Stops(s, status, code, reasons)
  <1>1. prog[s] \in SyncProgress
    BY DEF TypeOK
  <1>2. pc'[s] = "finalize" /\ end'[s] = [status |-> status, code |-> code] /\ err'[s]
    BY DEF TypeOK, Stop, Goto
  <1>3. prog'[s] = [prog[s] EXCEPT !.incomplete = prog[s].incomplete \/ reasons # {},
                                   !.reasons = prog[s].reasons \cup reasons]
    BY DEF TypeOK, Stop
  <1>4. QED  BY <1>1, <1>2, <1>3 DEF Stops, SyncProgress

\* the row, the core result and the position of a step that leaves them alone
Same(s) == row'[s] = row[s] /\ core'[s] = core[s] /\ idx'[s] = idx[s]

\* up to EnsureWallet
Begins(s) ==
  /\ pc[s] \in {"idle", "enter", "ensure"}
  /\ Same(s)
  /\ \/ \E next \in {"enter", "ensure", "create"} : Goes(s, next)
     \/ \E next \in {"skipped", "done", "release"} : Leaves(s, next)

Creates(s) ==
  /\ pc[s] = "create"
  /\ core'[s] = core[s] /\ idx'[s] = idx[s]
  /\ \/ row'[s] = [row[s] EXCEPT !.status = "running"] /\ Goes(s, "dust")
     \/ /\ row'[s] = row[s] \/ (row'[s] = [row[s] EXCEPT !.status = "running"]
                                /\ faults' # 0)
        /\ Leaves(s, "release")

\* what RunWalletCoreSync may leave in the core result
Sound(s, c) ==
  /\ c.truncation = {} => c.baselineComplete
  /\ \A t \in c.cands :
       /\ Relation(wal[s], t) = "receiver"
       /\ win[s].scanStart <= t.at /\ t.at < win[s].scanEnd
       /\ c.baselineComplete
       /\ \E i \in DOMAIN c.obs : c.obs[i] = t

\* a statement before UpdateWalletSyncProgress that succeeds
Works(s) ==
  \/ pc[s] = "dust" /\ Goes(s, "core") /\ Same(s)
  \/ /\ pc[s] = "core" /\ Goes(s, "transfers") /\ Sound(s, core'[s])
     /\ row'[s] = row[s] /\ idx'[s] = idx[s]
  \/ pc[s] = "transfers" /\ Goes(s, "link") /\ Same(s)
  \/ /\ pc[s] = "link" /\ Goes(s, "counterparty") /\ Same(s)
     /\ CurrentEvent(s) \in links'
  \/ /\ pc[s] = "link" /\ Goes(s, "link")
     /\ row'[s] = row[s] /\ core'[s] = core[s] /\ idx'[s] = idx[s] + 1
     /\ CurrentEvent(s) \in links
  \/ /\ pc[s] = "counterparty" /\ Goes(s, "link")
     /\ row'[s] = row[s] /\ core'[s] = core[s] /\ idx'[s] = idx[s] + 1
     /\ CurrentEvent(s) \in applied'
  \/ pc[s] = "link" /\ ~AtObservation(s) /\ Goes(s, "candidates") /\ Same(s)
  \/ /\ pc[s] = "candidates" /\ Goes(s, "progress") /\ Same(s)
     /\ {s} \X core[s].cands \subseteq candidates'

\* the reasons of a loss
LossReasons == {"wallet_link_failed", "counterparty_failed"}

\* one that fails
Fails(s) ==
  /\ pc[s] \in {"dust", "core", "transfers", "link", "counterparty", "candidates"}
  /\ Same(s)
  /\ \E status \in Terminal, code \in Codes, reasons \in SUBSET Reasons :
       /\ Stops(s, status, code, reasons)
       /\ status # "succeeded"
       /\ status \in {"partial", "timed_out"} => reasons # {}
       /\ pc[s] \in {"link", "counterparty"} =>
            status = "partial" /\ reasons \cap LossReasons # {}

Progresses(s) ==
  LET p == ProgressOf(core[s]) IN
  /\ pc[s] = "progress"
  /\ core'[s] = core[s] /\ idx'[s] = idx[s]
  /\ \/ row'[s] = row[s]
     \/ row'[s] = [row[s] EXCEPT
          !.incomplete = p.incomplete,
          !.reasons = IF p.incomplete THEN p.reasons ELSE {},
          !.truncation = p.truncation,
          !.baselineComplete = p.baselineComplete,
          !.counters = TRUE]
  /\ \/ /\ pc'[s] = "last_synced" /\ prog'[s] = p
        /\ row'[s].counters /\ row'[s].truncation = p.truncation
        /\ row'[s].baselineComplete = p.baselineComplete
        /\ end'[s] = end[s] /\ err'[s] = err[s]
     \/ /\ pc'[s] = "finalize" /\ prog'[s].incomplete
        /\ end'[s] = [status |-> "partial", code |-> "progress_failed"]
        /\ err'[s]

Syncs(s) ==
  /\ pc[s] = "last_synced"
  /\ Same(s)
  /\ \/ /\ pc'[s] = "finalize" /\ prog'[s] = prog[s] /\ err'[s] = err[s]
        /\ end'[s].status = FinalStatus(s) /\ end'[s].code = end[s].code
        /\ lastSynced'[wal[s]] >= win[s].scanEnd
     \/ Stops(s, "partial", "last_synced_failed", {"metadata_failed"})

Finalizes(s) ==
  /\ pc[s] = "finalize" /\ pc'[s] = "release"
  /\ core'[s] = core[s] /\ idx'[s] = idx[s]
  /\ prog'[s] = prog[s] /\ end'[s] = end[s]
  /\ err'[s] \/ err'[s] = err[s]
  /\ \/ row'[s] = row[s] /\ err'[s] /\ faults' # 0
     \/ /\ row'[s].status = end[s].status /\ row'[s].code = end[s].code
        /\ row'[s].incomplete = prog[s].incomplete
        /\ prog[s].reasons \subseteq row'[s].reasons \/ ~prog[s].incomplete
        /\ row'[s].reasons # {} <=> prog[s].incomplete
        /\ row'[s].truncation = row[s].truncation
        /\ row'[s].baselineComplete = row[s].baselineComplete
        /\ row'[s].counters = row[s].counters

Releases(s) ==
  /\ pc[s] = "release" /\ pc'[s] = "done"
  /\ Same(s) /\ prog'[s] = prog[s] /\ end'[s] = end[s]
  /\ err'[s] \/ (err'[s] = err[s] /\ lock'[wal[s]] # s)

Crashes(s) ==
  pc[s] \in Live /\ Goes(s, "crashed") /\ Same(s)

Effect(s) ==
  \/ Begins(s) \/ Creates(s) \/ Works(s) \/ Fails(s) \/ Progresses(s)
  \/ Syncs(s) \/ Finalizes(s) \/ Releases(s) \/ Crashes(s)

\* what a step adds to the tables it keeps
Grows ==
  /\ links \subseteq links' /\ applied \subseteq applied'
  /\ transactions \subseteq transactions' /\ candidates \subseteq candidates'
  /\ \A w \in Wallet : lastSynced'[w] >= lastSynced[w]
  /\ faults' = 0 => faults = 0
  /\ UNCHANGED <<wal, win>>

LEMMA StatementEffect ==
  ASSUME TypeOK, AtPending, NEW s \in Sync, NEW r \in Reply, Statement(s, r)
  PROVE  Effect(s)
  <1>. USE DEF TypeOK, Effect, Same
  <1>1. CASE AcquireWalletLock(s, r)
    BY <1>1, ProceedGoes, LeaveLeaves DEF AcquireWalletLock, Begins
  <1>2. CASE EnsureWallet(s, r)
    BY <1>2, ProceedGoes, LeaveLeaves DEF EnsureWallet, Begins
  <1>3. CASE CreateWalletSyncRun(s, r)
    <2>1. r = "lost" => faults' # 0
      BY <1>3, BoundAssumption DEF CreateWalletSyncRun, Call, Fault
    <2>2. QED
      BY <1>3, <2>1, ProceedGoes, LeaveLeaves DEF CreateWalletSyncRun, Creates, Reply
  <1>4. CASE BuildDustClassifier(s, r)
    BY <1>4, ProceedGoes, StopStops
    DEF BuildDustClassifier, dbVars, Works, Fails, Terminal, Codes
  <1>5. CASE UpsertNormalizedTransfers(s, r)
    BY <1>5, ProceedGoes, StopStops
    DEF UpsertNormalizedTransfers, Works, Fails, Terminal, Codes
  <1>6. CASE LinkWalletTransfer(s, r)
    <2>1. CASE Stop(s, "partial", "link_failed", {"wallet_link_failed"})
               /\ UNCHANGED idx
      <3>1. Stops(s, "partial", "link_failed", {"wallet_link_failed"})
        BY <2>1, StopStops
      <3>2. pc[s] = "link" /\ Same(s)
        BY <1>6, <2>1 DEF LinkWalletTransfer
      <3>3. "partial" \in Terminal /\ "link_failed" \in Codes
            /\ {"wallet_link_failed"} \in SUBSET Reasons
            /\ {"wallet_link_failed"} \cap LossReasons # {}
        BY DEF Terminal, Codes, Reasons, LossReasons
      <3>4. QED  BY <3>1, <3>2, <3>3 DEF Fails
    <2>2. CASE /\ r = "ok" /\ Current(s) \in transactions /\ Fresh(s)
               /\ Proceed(s, "counterparty") /\ UNCHANGED idx
      BY <1>6, <2>2, ProceedGoes DEF LinkWalletTransfer, Works
    <2>3. CASE /\ r = "ok" /\ Current(s) \in transactions /\ ~Fresh(s)
               /\ Proceed(s, "link") /\ idx' = [idx EXCEPT ![s] = @ + 1]
      BY <1>6, <2>3, ProceedGoes DEF LinkWalletTransfer, Works, Fresh
    <2>4. QED  BY <1>6, <2>1, <2>2, <2>3 DEF LinkWalletTransfer
  <1>7. CASE UpsertCounterpartyEvent(s, r)
    <2>1. CASE r = "ok"
      BY <1>7, <2>1, ProceedGoes DEF UpsertCounterpartyEvent, Works
    <2>2. CASE r # "ok"
      <3>1. Stops(s, "partial", "counterparty_failed", {"counterparty_failed"})
        BY <1>7, <2>2, StopStops DEF UpsertCounterpartyEvent
      <3>2. pc[s] = "counterparty" /\ Same(s)
        BY <1>7, <2>2 DEF UpsertCounterpartyEvent
      <3>3. "partial" \in Terminal /\ "counterparty_failed" \in Codes
            /\ {"counterparty_failed"} \in SUBSET Reasons
            /\ {"counterparty_failed"} \cap LossReasons # {}
        BY DEF Terminal, Codes, Reasons, LossReasons
      <3>4. QED  BY <3>1, <3>2, <3>3 DEF Fails
    <2>3. QED  BY <2>1, <2>2
  <1>8. CASE InsertPoisoningCandidates(s, r)
    <2>1. pc[s] = "candidates" /\ Same(s)
      BY <1>8 DEF InsertPoisoningCandidates
    <2>2. CASE r = "ok"
      BY <1>8, <2>1, <2>2, ProceedGoes DEF InsertPoisoningCandidates, Works
    <2>3. CASE r # "ok"
      <3>1. Stops(s, "partial", "candidate_failed", {"candidate_failed"})
        BY <1>8, <2>3, StopStops DEF InsertPoisoningCandidates
      <3>2. "partial" \in Terminal /\ "candidate_failed" \in Codes
            /\ {"candidate_failed"} \in SUBSET Reasons
        BY DEF Terminal, Codes, Reasons
      <3>3. QED  BY <2>1, <3>1, <3>2 DEF Fails
    <2>4. QED  BY <2>2, <2>3
  <1>9. CASE UpdateWalletSyncProgress(s, r)
    <2>. DEFINE p == ProgressOf(core[s])
                next == [row[s] EXCEPT
                          !.incomplete = p.incomplete,
                          !.reasons = IF p.incomplete THEN p.reasons ELSE {},
                          !.truncation = p.truncation,
                          !.baselineComplete = p.baselineComplete,
                          !.counters = TRUE]
    <2>0. p \in SyncProgress /\ row[s] \in SyncRow
      BY ProgressOfType
    <2>1. /\ pc[s] = "progress" /\ core'[s] = core[s] /\ idx'[s] = idx[s]
          /\ row'[s] = IF r = "failed" THEN row[s] ELSE next
      BY <1>9 DEF UpdateWalletSyncProgress
    <2>2. /\ next.counters /\ next.truncation = p.truncation
          /\ next.baselineComplete = p.baselineComplete
      BY <2>0 DEF SyncRow
    <2>3. CASE r = "ok"
      <3>1. /\ pc'[s] = "last_synced" /\ prog'[s] = p
            /\ end'[s] = end[s] /\ err'[s] = err[s]
        BY <1>9, <2>3 DEF UpdateWalletSyncProgress, Goto
      <3>2. QED  BY <2>1, <2>2, <2>3, <3>1 DEF Progresses
    <2>4. CASE r # "ok"
      <3>1. /\ pc'[s] = "finalize"
            /\ prog'[s] = [p EXCEPT !.incomplete = TRUE,
                                    !.reasons = p.reasons \cup {"progress_failed"}]
            /\ end'[s] = [status |-> "partial", code |-> "progress_failed"]
            /\ err'[s]
        BY <1>9, <2>4 DEF UpdateWalletSyncProgress, Goto
      <3>2. prog'[s].incomplete
        BY <2>0, <3>1 DEF SyncProgress
      <3>3. QED  BY <2>1, <3>1, <3>2 DEF Progresses
    <2>5. QED  BY <2>3, <2>4
  <1>10. CASE UpdateWalletLastSyncedAt(s, r)
    <2>1. pc[s] = "last_synced" /\ Same(s)
      BY <1>10 DEF UpdateWalletLastSyncedAt
    <2>2. CASE r = "ok"
      <3>1. pc'[s] = "finalize" /\ prog'[s] = prog[s] /\ err'[s] = err[s]
        BY <1>10, <2>2 DEF UpdateWalletLastSyncedAt, Goto
      <3>2. end'[s] = [end[s] EXCEPT !.status = FinalStatus(s)] /\ end[s] \in Outcome
        BY <1>10, <2>2 DEF UpdateWalletLastSyncedAt
      <3>3. end'[s].status = FinalStatus(s) /\ end'[s].code = end[s].code
        BY <3>2 DEF Outcome
      <3>4. lastSynced'[wal[s]] >= win[s].scanEnd
        <4>1. /\ lastSynced'[wal[s]] = Greatest(lastSynced[wal[s]], win[s].scanEnd)
              /\ lastSynced[wal[s]] \in Nat
          BY <1>10, <2>2 DEF UpdateWalletLastSyncedAt
        <4>2. win[s].scanEnd \in Nat
          BY WindowAssumption
        <4>3. QED  BY <4>1, <4>2 DEF Greatest
      <3>5. QED  BY <2>1, <3>1, <3>3, <3>4 DEF Syncs
    <2>3. CASE r # "ok"
      BY <1>10, <2>1, <2>3, StopStops DEF UpdateWalletLastSyncedAt, Syncs
    <2>4. QED  BY <2>2, <2>3
  <1>11. CASE FinalizeWalletSyncRun(s, r)
    <2>. DEFINE p == prog[s]
                reasons == IF p.incomplete /\ p.reasons = {} THEN {"without_reason"}
                                                             ELSE p.reasons
                next == [row[s] EXCEPT !.status = end[s].status,
                                       !.code = end[s].code,
                                       !.incomplete = p.incomplete,
                                       !.reasons = IF p.incomplete THEN reasons ELSE {}]
    <2>1. /\ pc[s] = "finalize" /\ pc'[s] = "release"
          /\ core'[s] = core[s] /\ idx'[s] = idx[s]
          /\ prog'[s] = prog[s] /\ end'[s] = end[s]
          /\ err'[s] = Joined(s, r)
          /\ row'[s] = IF r = "failed" THEN row[s] ELSE next
      BY <1>11 DEF FinalizeWalletSyncRun, Goto
    <2>2. err'[s] \/ err'[s] = err[s]
      BY <2>1 DEF Joined
    <2>3. CASE r = "failed"
      <3>1. faults' # 0
        BY <1>11, <2>3 DEF FinalizeWalletSyncRun, TailCall, Fault
      <3>2. QED  BY <2>1, <2>2, <2>3, <3>1 DEF Finalizes, Joined
    <2>4. CASE r # "failed"
      <3>1. row[s] \in SyncRow /\ p \in SyncProgress
        OBVIOUS
      <3>2. /\ next.status = end[s].status /\ next.code = end[s].code
            /\ next.incomplete = p.incomplete
            /\ next.reasons = IF p.incomplete THEN reasons ELSE {}
            /\ next.truncation = row[s].truncation
            /\ next.baselineComplete = row[s].baselineComplete
            /\ next.counters = row[s].counters
        BY <3>1 DEF SyncRow
      <3>3. /\ p.reasons \subseteq next.reasons \/ ~p.incomplete
            /\ next.reasons # {} <=> p.incomplete
        <4>. HIDE DEF next
        <4>. QED  BY <3>2
      <3>4. row'[s] = next
        BY <2>1, <2>4
      <3>5. QED
        <4>. HIDE DEF next
        <4>. QED  BY <2>1, <2>2, <3>2, <3>3, <3>4 DEF Finalizes
    <2>5. QED  BY <2>3, <2>4
  <1>12. CASE ReleaseWalletLock(s, r)
    <2>1. r # "failed" => lock'[wal[s]] # s
      BY <1>12, BoundAssumption DEF ReleaseWalletLock
    <2>2. QED  BY <1>12, <2>1 DEF ReleaseWalletLock, Goto, Joined, Releases
  <1>13. QED
    BY <1>1, <1>2, <1>3, <1>4, <1>5, <1>6, <1>7, <1>8, <1>9, <1>10, <1>11, <1>12
    DEF Statement

LEMMA CoreSound ==
  ASSUME TypeOK, NEW s \in Sync, RunWalletCoreSync(s)
  PROVE  Sound(s, core'[s])
  <1>1. PICK b \in FetchResults(wal[s], win[s].baselineStart, win[s].scanStart),
             f \in FetchResults(wal[s], win[s].scanStart, win[s].scanEnd),
             unknownGate \in BOOLEAN :
        \E bq \in Observations(wal[s], b.got), fq \in Observations(wal[s], f.got),
           cs \in MaterializeCandidates(wal[s], f.got, ~b.partial) :
          core' = [core EXCEPT ![s] = SyncResult(b, f, bq \o fq, cs, unknownGate)]
    BY CoreResult
  <1>2. PICK bq \in Observations(wal[s], b.got), fq \in Observations(wal[s], f.got),
             cs \in MaterializeCandidates(wal[s], f.got, ~b.partial) :
          core' = [core EXCEPT ![s] = SyncResult(b, f, bq \o fq, cs, unknownGate)]
    BY <1>1
  <1>3. /\ core'[s].obs = bq \o fq
        /\ core'[s].cands = cs
        /\ core'[s].baselineComplete = ~b.partial
        /\ b.partial => "baseline_truncation" \in core'[s].truncation
    BY <1>2 DEF SyncResult, TypeOK
  <1>4. /\ b.got \in SUBSET Transfer /\ b.partial \in BOOLEAN
        /\ f.got \in SUBSET Transfer
        /\ \A t \in f.got : win[s].scanStart <= t.at /\ t.at < win[s].scanEnd
    BY FetchType
  <1>5. bq \in Seq(Transfer) /\ fq \in Seq(Transfer)
    BY <1>4, ObservationsType
  <1>6. core'[s].truncation = {} => core'[s].baselineComplete
    BY <1>3, <1>4
  <1>7. ASSUME NEW t \in cs
        PROVE  /\ Relation(wal[s], t) = "receiver"
               /\ win[s].scanStart <= t.at /\ t.at < win[s].scanEnd
               /\ ~b.partial
               /\ \E i \in DOMAIN (bq \o fq) : (bq \o fq)[i] = t
    <2>1. ~b.partial /\ t \in f.got /\ Relation(wal[s], t) = "receiver"
      BY <1>7 DEF MaterializeCandidates
    <2>2. \E i \in DOMAIN fq : fq[i] = t
      <3>1. t \in {x \in f.got : Relation(wal[s], x) # "none"}
        BY <2>1
      <3>2. {fq[i] : i \in DOMAIN fq} = {x \in f.got : Relation(wal[s], x) # "none"}
        BY DEF Observations
      <3>3. QED  BY <3>1, <3>2
    <2>3. PICK i \in DOMAIN fq : fq[i] = t
      BY <2>2
    <2>4. Len(bq) + i \in DOMAIN (bq \o fq) /\ (bq \o fq)[Len(bq) + i] = t
      BY <1>5, <2>3, LenProperties, ConcatProperties
    <2>5. QED  BY <1>4, <2>1, <2>4
  <1>8. QED  BY <1>3, <1>6, <1>7 DEF Sound

LEMMA StepEffect ==
  ASSUME TypeOK, AtPending, NEW s \in Sync, Step(s) \/ Crash(s)
  PROVE  Effect(s)
  <1>. USE DEF TypeOK, Same
  <1>1. ASSUME NEW r \in Reply, Statement(s, r) PROVE Effect(s)
    BY <1>1, StatementEffect
  <1>2. CASE Enter(s)
    BY <1>2, ProceedGoes, LeaveLeaves DEF Enter, dbVars, Begins, Effect
  <1>3. CASE RunWalletCoreSync(s)
    BY <1>3, ProceedGoes, CoreSound DEF RunWalletCoreSync, dbVars, Works, Effect
  <1>4. CASE CoreSyncFails(s)
    <2>1. pc[s] = "core" /\ Same(s)
      BY <1>4 DEF CoreSyncFails, dbVars
    <2>2. \/ Stops(s, "timed_out", "core_failed", {"runner_timeout"})
          \/ Stops(s, "failed", "core_failed", {})
      BY <1>4, StopStops DEF CoreSyncFails
    <2>3. /\ {"timed_out", "failed"} \subseteq Terminal /\ "core_failed" \in Codes
          /\ {"runner_timeout"} \in SUBSET Reasons
      BY DEF Terminal, Codes, Reasons
    <2>4. Fails(s)
      <3>1. CASE Stops(s, "timed_out", "core_failed", {"runner_timeout"})
        BY <2>1, <2>3, <3>1 DEF Fails
      <3>2. CASE Stops(s, "failed", "core_failed", {})
        BY <2>1, <2>3, <3>2 DEF Fails
      <3>3. QED  BY <2>2, <3>1, <3>2
    <2>5. QED  BY <2>4 DEF Effect
  <1>5. CASE LoopEnds(s)
    BY <1>5, ProceedGoes DEF LoopEnds, dbVars, Works, Effect
  <1>6. CASE Crash(s)
    BY <1>6 DEF Crash, Goto, dbVars, Crashes, Goes, Effect
  <1>7. QED
    BY <1>1, <1>2, <1>3, <1>4, <1>5, <1>6 DEF Step

LEMMA StepGrows ==
  ASSUME TypeOK, [Next]_vars
  PROVE  Grows
  <1>. USE DEF TypeOK
  <1>1. wal' = wal /\ win' = win
    BY StepFrame DEF Next, ContextEnds, LockExpires, vars, callVars
  <1>2. \A w \in Wallet : lastSynced'[w] >= lastSynced[w]
    <2>1. ASSUME NEW s \in Sync, NEW r \in Reply, UpdateWalletLastSyncedAt(s, r)
          PROVE  \A w \in Wallet : lastSynced'[w] >= lastSynced[w]
      BY <2>1, WindowAssumption DEF UpdateWalletLastSyncedAt, Greatest
    <2>2. CASE UNCHANGED lastSynced
      BY <2>2
    <2>3. ASSUME NEW s \in Sync, NEW r \in Reply, Statement(s, r)
          PROVE  UNCHANGED lastSynced \/ UpdateWalletLastSyncedAt(s, r)
      BY <2>3
      DEF Statement, AcquireWalletLock, EnsureWallet, CreateWalletSyncRun,
          BuildDustClassifier, UpsertNormalizedTransfers, LinkWalletTransfer,
          UpsertCounterpartyEvent, InsertPoisoningCandidates,
          UpdateWalletSyncProgress, FinalizeWalletSyncRun, ReleaseWalletLock, dbVars
    <2>4. QED
      BY <2>1, <2>2, <2>3
      DEF Next, Step, Enter, RunWalletCoreSync, CoreSyncFails, LoopEnds, Crash,
          ContextEnds, LockExpires, vars, dbVars
  <1>3. /\ links \subseteq links' /\ applied \subseteq applied'
        /\ transactions \subseteq transactions' /\ candidates \subseteq candidates'
    <2>1. ASSUME NEW s \in Sync, NEW r \in Reply, Statement(s, r)
          PROVE  /\ links \subseteq links' /\ applied \subseteq applied'
                 /\ transactions \subseteq transactions'
                 /\ candidates \subseteq candidates'
      BY <2>1
      DEF Statement, AcquireWalletLock, EnsureWallet, CreateWalletSyncRun,
          BuildDustClassifier, UpsertNormalizedTransfers, LinkWalletTransfer,
          UpsertCounterpartyEvent, InsertPoisoningCandidates,
          UpdateWalletSyncProgress, UpdateWalletLastSyncedAt, FinalizeWalletSyncRun,
          ReleaseWalletLock, dbVars
    <2>2. QED
      BY <2>1
      DEF Next, Step, Enter, RunWalletCoreSync, CoreSyncFails, LoopEnds, Crash,
          ContextEnds, LockExpires, vars, dbVars
  <1>4. faults' = 0 => faults = 0
    <2>1. \A n \in Nat : Fault(n) => (faults' = 0 => faults = 0)
      BY BoundAssumption DEF Fault
    <2>2. \A s, r, rows : Call(s, r) \/ Batch(s, rows, r) \/ TailCall(r)
            => (faults' = 0 => faults = 0)
      BY <2>1 DEF Call, Batch, TailCall
    <2>3. ASSUME NEW s \in Sync, NEW r \in Reply, Statement(s, r)
          PROVE  faults' = 0 => faults = 0
      BY <2>2, <2>3
      DEF Statement, AcquireWalletLock, EnsureWallet, CreateWalletSyncRun,
          BuildDustClassifier, UpsertNormalizedTransfers, LinkWalletTransfer,
          UpsertCounterpartyEvent, InsertPoisoningCandidates,
          UpdateWalletSyncProgress, UpdateWalletLastSyncedAt, FinalizeWalletSyncRun,
          ReleaseWalletLock
    <2>4. QED
      BY <2>1, <2>3
      DEF Next, Step, Enter, RunWalletCoreSync, CoreSyncFails, LoopEnds, Crash,
          ContextEnds, LockExpires, vars
  <1>5. QED  BY <1>1, <1>2, <1>3, <1>4 DEF Grows

\* how a step looks from any one call: it is its own, or it leaves it alone
LEMMA NextAround ==
  ASSUME TypeOK, AtPending, [Next]_vars, NEW z \in Sync
  PROVE  Effect(z) \/ Alone(z)
  <1>1. ASSUME NEW s \in Sync, Step(s) \/ Crash(s)
        PROVE  Effect(z) \/ Alone(z)
    BY <1>1, StepEffect, StepFrame
  <1>2. QED
    BY <1>1 DEF Next, ContextEnds, LockExpires, vars, dbVars, callVars, Alone

-----------------------------------------------------------------------------
(* Statuses.                                                               *)

\* the row of a call against where the call is
RowFollows(s) ==
  /\ pc[s] \in {"idle", "enter", "ensure", "create"} => row[s] = NoRow
  /\ row[s].status \in Terminal => pc[s] \in {"release", "done", "crashed"}
  /\ row[s].incomplete <=> row[s].reasons # {}
  /\ row[s].status \in {"partial", "timed_out"} => row[s].incomplete
  /\ pc[s] = "finalize" /\ end[s].status \in {"partial", "timed_out"}
       => prog[s].incomplete

LEMMA RowFollowsStep ==
  ASSUME TypeOK, NEW s \in Sync, Effect(s) \/ Alone(s), RowFollows(s)
  PROVE  RowFollows(s)'
  <1>. USE DEF RowFollows, Goes, Leaves, Stops, Same, Terminal
  <1>0. /\ row[s] \in SyncRow /\ prog[s] \in SyncProgress /\ pc[s] \in PCs
        /\ core[s] \in Result
    BY DEF TypeOK
  <1>1. CASE Alone(s)  BY <1>1 DEF Alone
  <1>2. CASE Begins(s)  BY <1>2 DEF Begins
  <1>3. CASE Creates(s)  BY <1>3 DEF Creates, NoRow
  <1>4. CASE Works(s)  BY <1>4 DEF Works
  <1>5. CASE Fails(s)  BY <1>5 DEF Fails
  <1>6. CASE Progresses(s)
    <2>1. /\ ProgressOf(core[s]).incomplete \in BOOLEAN
          /\ ProgressOf(core[s]).incomplete => ProgressOf(core[s]).reasons # {}
      BY <1>0 DEF ProgressOf, Result
    <2>2. QED  BY <1>0, <1>6, <2>1 DEF Progresses, SyncRow
  <1>7. CASE Syncs(s)  BY <1>7 DEF Syncs, FinalStatus
  <1>8. CASE Finalizes(s)  BY <1>8 DEF Finalizes
  <1>9. CASE Releases(s)  BY <1>9 DEF Releases
  <1>10. CASE Crashes(s)  BY <1>10 DEF Crashes, Live, Holding, Working
  <1>11. QED
    BY <1>1, <1>2, <1>3, <1>4, <1>5, <1>6, <1>7, <1>8, <1>9, <1>10 DEF Effect

\* what a call without an error has stored
Stored(s) ==
  /\ pc[s] = "last_synced" => row[s].counters
  /\ pc[s] = "finalize" /\ ~err[s] =>
       end[s].status \in {"succeeded", "partial"} /\ row[s].counters
  /\ pc[s] \in {"release", "done"} /\ ~err[s] =>
       row[s].status \in {"succeeded", "partial"} /\ row[s].counters

LEMMA StoredStep ==
  ASSUME TypeOK, NEW s \in Sync, Effect(s) \/ Alone(s), Stored(s)
  PROVE  Stored(s)'
  <1>. USE DEF Stored, Goes, Leaves, Stops, Same, Terminal
  <1>0. row[s] \in SyncRow /\ end[s] \in Outcome
    BY DEF TypeOK
  <1>1. CASE Alone(s)  BY <1>1 DEF Alone
  <1>2. CASE Begins(s)  BY <1>2 DEF Begins
  <1>3. CASE Creates(s)  BY <1>3 DEF Creates
  <1>4. CASE Works(s)  BY <1>4 DEF Works
  <1>5. CASE Fails(s)  BY <1>5 DEF Fails
  <1>6. CASE Progresses(s)  BY <1>6 DEF Progresses
  <1>7. CASE Syncs(s)  BY <1>7 DEF Syncs, FinalStatus
  <1>8. CASE Finalizes(s)  BY <1>8 DEF Finalizes
  <1>9. CASE Releases(s)  BY <1>9 DEF Releases
  <1>10. CASE Crashes(s)  BY <1>10 DEF Crashes
  <1>11. QED
    BY <1>1, <1>2, <1>3, <1>4, <1>5, <1>6, <1>7, <1>8, <1>9, <1>10 DEF Effect

GivenUp(s) == pc[s] = "done" /\ ~err[s] => lock[wal[s]] # s

LEMMA GivenUpStep ==
  ASSUME TypeOK, AtPending, [Next]_vars, NEW s \in Sync, GivenUp(s)
  PROVE  GivenUp(s)'
  <1>1. wal' = wal /\ (Effect(s) \/ Alone(s))
    BY StepGrows, NextAround DEF Grows
  <1>2. ASSUME pc'[s] = "done", ~err'[s], pc[s] # "done"
        PROVE  lock'[wal[s]] # s
    BY <1>1, <1>2
    DEF Effect, Alone, Begins, Creates, Works, Fails, Progresses, Syncs, Finalizes,
        Releases, Crashes, Goes, Leaves, Stops
  <1>3. ASSUME pc'[s] = "done", ~err'[s], pc[s] = "done"
        PROVE  lock'[wal[s]] # s
    <2>1. ~Effect(s)
      BY <1>3
      DEF Effect, Begins, Creates, Works, Fails, Progresses, Syncs, Finalizes,
          Releases, Crashes, Live, Holding, Working
    <2>2. lock[wal[s]] # s
      BY <1>1, <1>3, <2>1 DEF Alone, GivenUp
    <2>3. ASSUME NEW z \in Sync, Step(z) \/ Crash(z)
          PROVE  lock'[wal[s]] # s
      <3>1. z # s
        BY <2>1, <2>3, StepEffect
      <3>2. QED
        BY <2>2, <2>3, <3>1, LockStep, BoundAssumption DEF Takes, Gives, Keeps, TypeOK
    <2>4. ASSUME NEW w \in Wallet, LockExpires(w)
          PROVE  lock'[wal[s]] # s
      BY <2>2, <2>4, BoundAssumption DEF LockExpires, TypeOK
    <2>5. ASSUME UNCHANGED lock PROVE lock'[wal[s]] # s
      BY <2>2, <2>5
    <2>6. QED
      BY <2>3, <2>4, <2>5 DEF Next, ContextEnds, vars, dbVars
  <1>4. QED  BY <1>1, <1>2, <1>3 DEF GivenUp

Finished(s) ==
  faults = 0 /\ pc[s] \in {"release", "done"} => row[s].status \in {"none"} \cup Terminal

LEMMA FinishedStep ==
  ASSUME TypeOK, Grows, NEW s \in Sync, Effect(s) \/ Alone(s), RowFollows(s),
         Finished(s)
  PROVE  Finished(s)'
  <1>. USE DEF Finished, Goes, Leaves, Stops, Same, Terminal, Grows
  <1>0. row[s] \in SyncRow /\ end[s] \in Outcome
    BY DEF TypeOK
  <1>1. CASE Alone(s)  BY <1>1 DEF Alone
  <1>2. CASE Begins(s)  BY <1>2 DEF Begins, RowFollows, NoRow
  <1>3. CASE Creates(s)  BY <1>3 DEF Creates, RowFollows, NoRow
  <1>4. CASE Works(s)  BY <1>4 DEF Works
  <1>5. CASE Fails(s)  BY <1>5 DEF Fails
  <1>6. CASE Progresses(s)  BY <1>6 DEF Progresses
  <1>7. CASE Syncs(s)  BY <1>7 DEF Syncs
  <1>8. CASE Finalizes(s)  BY <1>0, <1>8 DEF Finalizes, Outcome
  <1>9. CASE Releases(s)  BY <1>9 DEF Releases
  <1>10. CASE Crashes(s)  BY <1>10 DEF Crashes
  <1>11. QED
    BY <1>1, <1>2, <1>3, <1>4, <1>5, <1>6, <1>7, <1>8, <1>9, <1>10 DEF Effect

Succeeds(s) ==
  \/ row[s].status = "succeeded"
  \/ pc[s] = "finalize" /\ end[s].status = "succeeded"

\* where the loop of a call has got to
LoopFollows(s) ==
  /\ pc[s] \in {"idle", "enter", "ensure", "create", "dust", "core", "transfers"}
       => idx[s] = 1
  /\ pc[s] \in {"candidates", "progress", "last_synced"} \/ Succeeds(s)
       => ~AtObservation(s)

LEMMA LoopFollowsStep ==
  ASSUME TypeOK, NEW s \in Sync, Effect(s) \/ Alone(s), RowFollows(s),
         LoopFollows(s)
  PROVE  LoopFollows(s)'
  <1>. USE DEF LoopFollows, Succeeds, AtObservation, Goes, Leaves, Stops, Same
  <1>0. row[s] \in SyncRow
    BY DEF TypeOK
  <1>1. CASE Alone(s)  BY <1>1 DEF Alone
  <1>2. CASE Begins(s)  BY <1>2 DEF Begins, RowFollows, NoRow
  <1>3. CASE Creates(s)  BY <1>0, <1>3 DEF Creates, SyncRow, RowFollows, NoRow
  <1>4. CASE Works(s)  BY <1>4 DEF Works, RowFollows, Terminal
  <1>5. CASE Fails(s)  BY <1>5 DEF Fails, RowFollows, Terminal
  <1>6. CASE Progresses(s)  BY <1>6 DEF Progresses
  <1>7. CASE Syncs(s)  BY <1>7 DEF Syncs
  <1>8. CASE Finalizes(s)  BY <1>8 DEF Finalizes
  <1>9. CASE Releases(s)  BY <1>9 DEF Releases
  <1>10. CASE Crashes(s)  BY <1>10 DEF Crashes
  <1>11. QED
    BY <1>1, <1>2, <1>3, <1>4, <1>5, <1>6, <1>7, <1>8, <1>9, <1>10 DEF Effect

ResultSound(s) ==
  /\ pc[s] \in {"transfers", "link", "counterparty", "candidates", "progress",
                "last_synced"}
       => (core[s].truncation = {} => core[s].baselineComplete)
  /\ \A t \in core[s].cands :
       /\ Relation(wal[s], t) = "receiver"
       /\ win[s].scanStart <= t.at /\ t.at < win[s].scanEnd
       /\ core[s].baselineComplete
       /\ \E i \in DOMAIN core[s].obs : core[s].obs[i] = t

LEMMA ResultSoundStep ==
  ASSUME TypeOK, Grows, NEW s \in Sync, Effect(s) \/ Alone(s), ResultSound(s)
  PROVE  ResultSound(s)'
  <1>. USE DEF ResultSound, Goes, Leaves, Stops, Same, Grows
  <1>1. CASE Alone(s)  BY <1>1 DEF Alone
  <1>2. CASE Begins(s)  BY <1>2 DEF Begins
  <1>3. CASE Creates(s)  BY <1>3 DEF Creates
  <1>4. CASE Works(s)  BY <1>4 DEF Works, Sound
  <1>5. CASE Fails(s)  BY <1>5 DEF Fails
  <1>6. CASE Progresses(s)  BY <1>6 DEF Progresses
  <1>7. CASE Syncs(s)  BY <1>7 DEF Syncs
  <1>8. CASE Finalizes(s)  BY <1>8 DEF Finalizes
  <1>9. CASE Releases(s)  BY <1>9 DEF Releases
  <1>10. CASE Crashes(s)  BY <1>10 DEF Crashes
  <1>11. QED
    BY <1>1, <1>2, <1>3, <1>4, <1>5, <1>6, <1>7, <1>8, <1>9, <1>10 DEF Effect

\* what a call that is to succeed has stored
SuccessStored(s) ==
  /\ pc[s] \in {"idle"} \cup Holding => end[s] = [status |-> "failed", code |-> "none"]
  /\ pc[s] = "last_synced" =>
       /\ prog[s] = ProgressOf(core[s])
       /\ row[s].counters
       /\ row[s].truncation = core[s].truncation
       /\ row[s].baselineComplete = core[s].baselineComplete
  /\ pc[s] = "finalize" /\ end[s].status = "succeeded" =>
       ~prog[s].incomplete /\ end[s].code = "none"
  /\ row[s].status = "succeeded" => ~row[s].incomplete /\ row[s].code = "none"
  /\ Succeeds(s) =>
       row[s].truncation = {} /\ row[s].baselineComplete /\ row[s].counters

LEMMA SuccessStoredStep ==
  ASSUME TypeOK, NEW s \in Sync, Effect(s) \/ Alone(s), RowFollows(s), ResultSound(s),
         SuccessStored(s)
  PROVE  SuccessStored(s)'
  <1>. USE DEF SuccessStored, Succeeds, Goes, Leaves, Stops, Same, Holding, Working
  <1>0. /\ row[s] \in SyncRow /\ prog[s] \in SyncProgress /\ end[s] \in Outcome
        /\ core[s] \in Result
    BY DEF TypeOK
  <1>1. CASE Alone(s)  BY <1>0, <1>1 DEF Alone
  <1>2. CASE Begins(s)  BY <1>0, <1>2 DEF Begins, RowFollows, NoRow
  <1>3. CASE Creates(s)  BY <1>0, <1>3 DEF Creates, RowFollows, NoRow, SyncRow
  <1>4. CASE Works(s)  BY <1>0, <1>4 DEF Works, RowFollows, Terminal
  <1>5. CASE Fails(s)  BY <1>0, <1>5 DEF Fails, RowFollows, Terminal
  <1>6. CASE Progresses(s)
    <2>1. row'[s].status # "succeeded"
      BY <1>0, <1>6 DEF Progresses, RowFollows, Terminal, SyncRow
    <2>2. /\ ProgressOf(core[s]).truncation = core[s].truncation
          /\ ProgressOf(core[s]).baselineComplete = core[s].baselineComplete
      BY DEF ProgressOf
    <2>3. QED  BY <1>6, <2>1, <2>2 DEF Progresses
  <1>7. CASE Syncs(s)
    <2>1. row'[s].status # "succeeded" /\ row'[s] = row[s]
      BY <1>7 DEF Syncs, RowFollows, Terminal
    <2>2. ~ProgressOf(core[s]).incomplete => core[s].truncation = {}
      BY DEF ProgressOf
    <2>3. QED  BY <1>7, <2>1, <2>2 DEF Syncs, FinalStatus, ResultSound
  <1>8. CASE Finalizes(s)  BY <1>0, <1>8 DEF Finalizes
  <1>9. CASE Releases(s)  BY <1>0, <1>9 DEF Releases
  <1>10. CASE Crashes(s)  BY <1>0, <1>10 DEF Crashes
  <1>11. QED
    BY <1>1, <1>2, <1>3, <1>4, <1>5, <1>6, <1>7, <1>8, <1>9, <1>10 DEF Effect

CandidatesStored(s) ==
  pc[s] \in {"progress", "last_synced"} \/ Succeeds(s)
    => {s} \X core[s].cands \subseteq candidates

LEMMA CandidatesStoredStep ==
  ASSUME TypeOK, Grows, NEW s \in Sync, Effect(s) \/ Alone(s), RowFollows(s),
         CandidatesStored(s)
  PROVE  CandidatesStored(s)'
  <1>. USE DEF CandidatesStored, Succeeds, Goes, Leaves, Stops, Same, Grows
  <1>0. row[s] \in SyncRow
    BY DEF TypeOK
  <1>1. CASE Alone(s)  BY <1>0, <1>1 DEF Alone
  <1>2. CASE Begins(s)  BY <1>0, <1>2 DEF Begins, RowFollows, NoRow
  <1>3. CASE Creates(s)  BY <1>0, <1>3 DEF Creates, RowFollows, NoRow, SyncRow
  <1>4. CASE Works(s)  BY <1>0, <1>4 DEF Works, RowFollows, Terminal
  <1>5. CASE Fails(s)  BY <1>0, <1>5 DEF Fails, RowFollows, Terminal
  <1>6. CASE Progresses(s)  BY <1>0, <1>6 DEF Progresses, RowFollows, Terminal
  <1>7. CASE Syncs(s)  BY <1>0, <1>7 DEF Syncs
  <1>8. CASE Finalizes(s)  BY <1>0, <1>8 DEF Finalizes
  <1>9. CASE Releases(s)  BY <1>0, <1>9 DEF Releases
  <1>10. CASE Crashes(s)  BY <1>0, <1>10 DEF Crashes
  <1>11. QED
    BY <1>1, <1>2, <1>3, <1>4, <1>5, <1>6, <1>7, <1>8, <1>9, <1>10 DEF Effect

SyncedUpTo(s) == Succeeds(s) => lastSynced[wal[s]] >= win[s].scanEnd

LEMMA SyncedUpToStep ==
  ASSUME TypeOK, TypeOK', Grows, NEW s \in Sync, Effect(s) \/ Alone(s), RowFollows(s),
         SyncedUpTo(s)
  PROVE  SyncedUpTo(s)'
  <1>. USE DEF SyncedUpTo, Succeeds, Goes, Leaves, Stops, Same
  <1>0. /\ row[s] \in SyncRow /\ wal' = wal /\ win' = win
        /\ Succeeds(s)' /\ Succeeds(s) => lastSynced'[wal[s]] >= win[s].scanEnd
    <2>1. /\ lastSynced[wal[s]] \in Nat /\ lastSynced'[wal[s]] \in Nat
          /\ lastSynced'[wal[s]] >= lastSynced[wal[s]]
          /\ win[s].scanEnd \in Nat
      BY WindowAssumption DEF TypeOK, Grows
    <2>2. QED  BY <2>1 DEF TypeOK, Grows
  <1>1. CASE Alone(s)  BY <1>0, <1>1 DEF Alone
  <1>2. CASE Begins(s)  BY <1>0, <1>2 DEF Begins, RowFollows, NoRow
  <1>3. CASE Creates(s)  BY <1>0, <1>3 DEF Creates, RowFollows, NoRow, SyncRow
  <1>4. CASE Works(s)  BY <1>0, <1>4 DEF Works, RowFollows, Terminal
  <1>5. CASE Fails(s)  BY <1>0, <1>5 DEF Fails, RowFollows, Terminal
  <1>6. CASE Progresses(s)
    <2>1. row'[s].status # "succeeded"
      BY <1>0, <1>6 DEF Progresses, RowFollows, Terminal, SyncRow
    <2>2. QED  BY <1>6, <2>1 DEF Progresses
  <1>7. CASE Syncs(s)  BY <1>0, <1>7 DEF Syncs, RowFollows, Terminal
  <1>8. CASE Finalizes(s)  BY <1>0, <1>8 DEF Finalizes
  <1>9. CASE Releases(s)  BY <1>0, <1>9 DEF Releases
  <1>10. CASE Crashes(s)  BY <1>0, <1>10 DEF Crashes
  <1>11. QED
    BY <1>1, <1>2, <1>3, <1>4, <1>5, <1>6, <1>7, <1>8, <1>9, <1>10 DEF Effect

\* what the loop has passed is linked
PassedLinked(s) ==
  \A i \in DOMAIN core[s].obs : i < idx[s] => <<wal[s], core[s].obs[i]>> \in links

\* what the loop passes is linked: an event is passed when its link was found, or
\* once it is counted, which a fresh link precedes
LEMMA PassedLinkedStep ==
  ASSUME TypeOK, TypeOK', Grows, Pending, NEW s \in Sync, Effect(s) \/ Alone(s),
         LoopFollows(s), PassedLinked(s)
  PROVE  PassedLinked(s)'
  <1>. USE DEF PassedLinked, Goes, Leaves, Stops, Same, Grows
  <1>0. core[s].obs \in Seq(Transfer) /\ idx[s] \in Nat
    BY DEF TypeOK, Result
  <1>1. CASE Alone(s)  BY <1>1 DEF Alone
  <1>2. CASE Begins(s)  BY <1>2 DEF Begins
  <1>3. CASE Creates(s)  BY <1>3 DEF Creates
  <1>4. CASE Works(s)
    <2>1. CASE core'[s] = core[s] /\ idx'[s] = idx[s]
      BY <2>1
    <2>2. CASE core'[s] = core[s] /\ idx'[s] = idx[s] + 1 /\ CurrentEvent(s) \in links
      <3>1. \A i \in DOMAIN core[s].obs : i < idx[s] + 1 => i < idx[s] \/ i = idx[s]
        BY <1>0
      <3>2. QED  BY <2>2, <3>1 DEF CurrentEvent, Current
    <2>3. CASE pc[s] = "core" /\ idx'[s] = idx[s] /\ core'[s].obs \in Seq(Transfer)
      BY <2>3 DEF LoopFollows
    <2>4. pc[s] = "counterparty" => CurrentEvent(s) \in links
      BY DEF Pending
    <2>5. core'[s].obs \in Seq(Transfer)
      BY DEF TypeOK, Result
    <2>6. QED  BY <1>4, <2>1, <2>2, <2>3, <2>4, <2>5 DEF Works
  <1>5. CASE Fails(s)  BY <1>5 DEF Fails
  <1>6. CASE Progresses(s)  BY <1>6 DEF Progresses
  <1>7. CASE Syncs(s)  BY <1>7 DEF Syncs
  <1>8. CASE Finalizes(s)  BY <1>8 DEF Finalizes
  <1>9. CASE Releases(s)  BY <1>9 DEF Releases
  <1>10. CASE Crashes(s)  BY <1>10 DEF Crashes
  <1>11. QED
    BY <1>1, <1>2, <1>3, <1>4, <1>5, <1>6, <1>7, <1>8, <1>9, <1>10 DEF Effect

\* every call's row, result, loop and tables fit together
CallSound(s) ==
  /\ RowFollows(s) /\ Stored(s) /\ GivenUp(s) /\ Finished(s) /\ LoopFollows(s)
  /\ ResultSound(s) /\ SuccessStored(s) /\ CandidatesStored(s) /\ SyncedUpTo(s)
  /\ PassedLinked(s)

CallsSound == \A s \in Sync : CallSound(s)

LEMMA CallsSoundInit == Init => CallsSound
  <1>1. SUFFICES ASSUME Init, NEW s \in Sync PROVE CallSound(s)
    BY DEF CallsSound
  <1>2. /\ pc[s] = "idle" /\ row[s] = NoRow /\ core[s] = NoResult /\ idx[s] = 1
        /\ end[s] = [status |-> "failed", code |-> "none"]
    BY <1>1 DEF Init
  <1>3. RowFollows(s) /\ Stored(s) /\ GivenUp(s) /\ Finished(s)
    BY <1>2 DEF RowFollows, Stored, GivenUp, Finished, NoRow, Terminal
  <1>4. LoopFollows(s) /\ SuccessStored(s) /\ CandidatesStored(s) /\ SyncedUpTo(s)
    BY <1>2
    DEF LoopFollows, SuccessStored, CandidatesStored, SyncedUpTo, Succeeds, NoRow
  <1>5. ResultSound(s) /\ PassedLinked(s)
    BY <1>2 DEF ResultSound, PassedLinked, NoResult
  <1>6. QED  BY <1>3, <1>4, <1>5 DEF CallSound

LEMMA CallsSoundStep ==
  ASSUME TypeOK, AtPending, Pending, CallsSound, [Next]_vars
  PROVE  CallsSound'
  <1>1. SUFFICES ASSUME NEW s \in Sync, CallSound(s) PROVE CallSound(s)'
    BY DEF CallsSound
  <1>2. /\ TypeOK' /\ Grows
        /\ Effect(s) \/ Alone(s)
    BY NextType, StepGrows, NextAround
  <1>3. RowFollows(s)' /\ Stored(s)' /\ GivenUp(s)' /\ Finished(s)' /\ LoopFollows(s)'
    BY <1>1, <1>2, RowFollowsStep, StoredStep, GivenUpStep, FinishedStep,
       LoopFollowsStep DEF CallSound
  <1>4. /\ ResultSound(s)' /\ SuccessStored(s)' /\ CandidatesStored(s)'
        /\ SyncedUpTo(s)' /\ PassedLinked(s)'
    BY <1>1, <1>2, ResultSoundStep, SuccessStoredStep, CandidatesStoredStep,
       SyncedUpToStep, PassedLinkedStep DEF CallSound
  <1>5. QED  BY <1>3, <1>4 DEF CallSound

\* what the theorems below rest on
CallInv == AtPending /\ LockHeld /\ Related /\ CountInv /\ CallsSound

LEMMA CallInvariant == Spec => []CallInv
  <1>1. Init => CallInv
    BY CountInvInit, CallsSoundInit DEF CallInv
  <1>2. TypeOK /\ CallInv /\ [Next]_vars => CallInv'
    BY PendingStep, LockHeldStep, RelatedStep, CountInvStep, CallsSoundStep
    DEF CallInv, CountInv
  <1>3. QED  BY <1>1, <1>2, TypeCorrect, PTL DEF Spec

\* Whatever timeout, cancellation or upstream error ends a call, its row is final
\* once the finalization is behind it (EndedRowsAreFinal), as long as the database
\* itself answered.
THEOREM EndsFinal == Spec => []EndedRowsAreFinal
  <1>1. CallInv => EndedRowsAreFinal
    BY DEF CallInv, CallsSound, CallSound, Finished, EndedRowsAreFinal
  <1>2. QED  BY <1>1, CallInvariant, PTL

\* A call that returns no error has a final row with its counters and does not hold
\* the lock of its wallet (ReportedIsPersisted).
THEOREM ReportsAreBacked == Spec => []ReportedIsPersisted
  <1>1. CallInv => ReportedIsPersisted
    BY DEF CallInv, CallsSound, CallSound, Stored, GivenUp, ReportedIsPersisted
  <1>2. QED  BY <1>1, CallInvariant, PTL

\* A row says succeeded only of a sync with nothing truncated, every observation
\* linked, every candidate stored, the counters written and last_synced_at moved;
\* partial and timed_out rows say why (StatusTellsTheTruth).
THEOREM StatusIsTrue == Spec => []StatusTellsTheTruth
  <1>1. ASSUME TypeOK, CallInv, NEW s \in Sync, row[s].status = "succeeded"
        PROVE  /\ ~row[s].incomplete /\ row[s].truncation = {} /\ row[s].code = "none"
               /\ row[s].baselineComplete /\ row[s].counters
               /\ \A i \in DOMAIN core[s].obs : <<wal[s], core[s].obs[i]>> \in links
               /\ {s} \X core[s].cands \subseteq candidates
               /\ lastSynced[wal[s]] >= win[s].scanEnd
    <2>1. CallSound(s)
      BY <1>1 DEF CallInv, CallsSound
    <2>2. \A i \in DOMAIN core[s].obs : <<wal[s], core[s].obs[i]>> \in links
      <3>1. core[s].obs \in Seq(Transfer) /\ idx[s] \in Nat \ {0}
        BY <1>1 DEF TypeOK, Result
      <3>2. ~AtObservation(s)
        BY <1>1, <2>1 DEF CallSound, LoopFollows, Succeeds
      <3>3. \A i \in DOMAIN core[s].obs : i < idx[s]
        BY <3>1, <3>2, LenProperties DEF AtObservation
      <3>4. QED  BY <2>1, <3>3 DEF CallSound, PassedLinked
    <2>3. QED
      BY <1>1, <2>1, <2>2
      DEF CallSound, SuccessStored, CandidatesStored, SyncedUpTo, Succeeds
  <1>2. ASSUME TypeOK, CallInv, NEW s \in Sync
        PROVE  /\ row[s].status \in {"partial", "timed_out"} => row[s].incomplete
               /\ row[s].incomplete <=> row[s].reasons # {}
    BY <1>2 DEF CallInv, CallsSound, CallSound, RowFollows
  <1>3. TypeOK /\ CallInv => StatusTellsTheTruth
    BY <1>1, <1>2 DEF StatusTellsTheTruth
  <1>4. QED  BY <1>3, TypeCorrect, CallInvariant, PTL

-----------------------------------------------------------------------------
(* wallets.last_synced_at.                                                 *)

\* A sync that ends late, or of an older window, never moves last_synced_at of its
\* wallet back (LastSyncedNeverBack).
THEOREM NeverBack == Spec => LastSyncedNeverBack
  <1>. DEFINE Forward == \A w \in Wallet : lastSynced'[w] >= lastSynced[w]
  <1>1. TypeOK /\ [Next]_vars => [Forward]_vars
    BY StepGrows DEF Grows
  <1>2. QED  BY <1>1, TypeCorrect, PTL DEF Spec, LastSyncedNeverBack

\* last_synced_at of every wallet is the scan end of a call whose counters are
\* stored (LastSyncedIsBacked).
THEOREM LastSyncedBacked == Spec => []LastSyncedIsBacked
  <1>. DEFINE Backs(s, w) == /\ wal[s] = w /\ win[s].scanEnd = lastSynced[w]
                             /\ row[s].counters
  <1>1. Init => LastSyncedIsBacked
    BY DEF Init, LastSyncedIsBacked
  <1>2. ASSUME TypeOK, CallInv, LastSyncedIsBacked, [Next]_vars
        PROVE  LastSyncedIsBacked'
    <2>1. wal' = wal /\ win' = win
      BY <1>2, StepGrows DEF Grows
    <2>2. ASSUME NEW s \in Sync, row[s].counters PROVE row'[s].counters
      <3>1. Effect(s) \/ Alone(s)
        BY <1>2, NextAround DEF CallInv
      <3>2. row[s] \in SyncRow
        BY <1>2 DEF TypeOK
      <3>3. QED
        BY <2>2, <3>1, <3>2
        DEF Effect, Alone, Same, SyncRow, Begins, Creates, Works, Fails, Progresses,
            Syncs, Finalizes, Releases, Crashes
    <2>3. CASE UNCHANGED lastSynced
      BY <1>2, <2>1, <2>2, <2>3 DEF LastSyncedIsBacked
    <2>4. ASSUME NEW z \in Sync, NEW r \in Reply, UpdateWalletLastSyncedAt(z, r)
          PROVE  LastSyncedIsBacked'
      <3>1. row[z].counters
        BY <1>2, <2>4
        DEF CallInv, CallsSound, CallSound, Stored, UpdateWalletLastSyncedAt
      <3>2. ASSUME NEW w \in Wallet, lastSynced'[w] # lastSynced[w]
            PROVE  w = wal[z] /\ lastSynced'[w] = win[z].scanEnd
        BY <1>2, <2>4, <3>2 DEF UpdateWalletLastSyncedAt, Greatest, TypeOK
      <3>3. QED  BY <1>2, <2>1, <2>2, <3>1, <3>2 DEF LastSyncedIsBacked
    <2>5. ASSUME NEW s \in Sync, NEW r \in Reply, Statement(s, r)
          PROVE  UNCHANGED lastSynced \/ UpdateWalletLastSyncedAt(s, r)
      BY <2>5
      DEF Statement, AcquireWalletLock, EnsureWallet, CreateWalletSyncRun,
          BuildDustClassifier, UpsertNormalizedTransfers, LinkWalletTransfer,
          UpsertCounterpartyEvent, InsertPoisoningCandidates,
          UpdateWalletSyncProgress, FinalizeWalletSyncRun, ReleaseWalletLock, dbVars
    <2>6. QED
      BY <1>2, <2>3, <2>4, <2>5
      DEF Next, Step, Enter, RunWalletCoreSync, CoreSyncFails, LoopEnds, Crash,
          ContextEnds, LockExpires, vars, dbVars
  <1>3. QED  BY <1>1, <1>2, TypeCorrect, CallInvariant, PTL DEF Spec

-----------------------------------------------------------------------------
(* Candidates.                                                             *)

LinksBacked == \A e \in links : e[2] \in transactions

LEMMA LinksBackedStep ==
  ASSUME TypeOK, LinksBacked, [Next]_vars
  PROVE  LinksBacked'
  <1>1. transactions \subseteq transactions'
    BY StepGrows DEF Grows
  <1>2. CASE UNCHANGED links
    BY <1>1, <1>2 DEF LinksBacked
  <1>3. ASSUME NEW s \in Sync, NEW r \in Reply, LinkWalletTransfer(s, r)
        PROVE  LinksBacked'
    BY <1>1, <1>3 DEF LinkWalletTransfer, LinksBacked, CurrentEvent
  <1>4. ASSUME NEW s \in Sync, NEW r \in Reply, Statement(s, r)
        PROVE  UNCHANGED links \/ LinkWalletTransfer(s, r)
    BY <1>4
    DEF Statement, AcquireWalletLock, EnsureWallet, CreateWalletSyncRun,
        BuildDustClassifier, UpsertNormalizedTransfers, UpsertCounterpartyEvent,
        InsertPoisoningCandidates, UpdateWalletSyncProgress,
        UpdateWalletLastSyncedAt, FinalizeWalletSyncRun, ReleaseWalletLock, dbVars
  <1>5. QED
    BY <1>2, <1>3, <1>4
    DEF Next, Step, Enter, RunWalletCoreSync, CoreSyncFails, LoopEnds, Crash,
        ContextEnds, LockExpires, vars, dbVars

CandidatesFrom == \A c \in candidates :
  /\ c[2] \in core[c[1]].cands
  /\ pc[c[1]] \in {"progress", "last_synced"} \cup Ending
  /\ <<wal[c[1]], c[2]>> \in links

LEMMA CandidatesFromStep ==
  ASSUME TypeOK, CallInv, CandidatesFrom, [Next]_vars
  PROVE  CandidatesFrom'
  <1>1. Grows
    BY StepGrows
  <1>2. ASSUME NEW c \in candidates
        PROVE  /\ c[2] \in core'[c[1]].cands
               /\ pc'[c[1]] \in {"progress", "last_synced"} \cup Ending
               /\ <<wal'[c[1]], c[2]>> \in links'
    <2>1. c[1] \in Sync
      BY DEF TypeOK
    <2>2. Effect(c[1]) \/ Alone(c[1])
      BY <2>1, NextAround DEF CallInv
    <2>3. /\ c[2] \in core[c[1]].cands
          /\ pc[c[1]] \in {"progress", "last_synced"} \cup Ending
          /\ <<wal[c[1]], c[2]>> \in links
      BY DEF CandidatesFrom
    <2>4. /\ core'[c[1]] = core[c[1]]
          /\ pc'[c[1]] \in {"progress", "last_synced"} \cup Ending
      BY <2>2, <2>3
      DEF Effect, Alone, Same, Begins, Creates, Works, Fails, Progresses, Syncs,
          Finalizes, Releases, Crashes, Goes, Stops, Ending, Over
    <2>5. QED  BY <1>1, <2>3, <2>4 DEF Grows
  <1>3. CASE UNCHANGED candidates
    BY <1>2, <1>3 DEF CandidatesFrom
  <1>4. ASSUME NEW s \in Sync, NEW r \in Reply, InsertPoisoningCandidates(s, r)
        PROVE  CandidatesFrom'
    <2>1. /\ pc[s] = "candidates" /\ core' = core /\ wal' = wal /\ links' = links
          /\ pc'[s] \in {"progress", "finalize"}
          /\ candidates' \subseteq candidates \cup ({s} \X core[s].cands)
      BY <1>4 DEF InsertPoisoningCandidates, Proceed, Stop, Goto, TypeOK
    <2>2. ASSUME NEW t \in core[s].cands
          PROVE  <<wal[s], t>> \in links
      <3>1. core[s].obs \in Seq(Transfer) /\ idx[s] \in Nat \ {0} /\ CallSound(s)
        BY DEF TypeOK, Result, CallInv, CallsSound
      <3>2. PICK i \in DOMAIN core[s].obs : core[s].obs[i] = t
        BY <3>1 DEF CallSound, ResultSound
      <3>3. i < idx[s]
        BY <2>1, <3>1, LenProperties DEF CallSound, LoopFollows, AtObservation
      <3>4. QED  BY <3>1, <3>2, <3>3 DEF CallSound, PassedLinked
    <2>3. ASSUME NEW c \in {s} \X core[s].cands
          PROVE  /\ c[2] \in core'[c[1]].cands
                 /\ pc'[c[1]] \in {"progress", "last_synced"} \cup Ending
                 /\ <<wal'[c[1]], c[2]>> \in links'
      BY <2>1, <2>2 DEF Ending
    <2>4. QED  BY <1>2, <2>1, <2>3 DEF CandidatesFrom
  <1>5. ASSUME NEW s \in Sync, NEW r \in Reply, Statement(s, r)
        PROVE  UNCHANGED candidates \/ InsertPoisoningCandidates(s, r)
    BY <1>5
    DEF Statement, AcquireWalletLock, EnsureWallet, CreateWalletSyncRun,
        BuildDustClassifier, UpsertNormalizedTransfers, LinkWalletTransfer,
        UpsertCounterpartyEvent, UpdateWalletSyncProgress,
        UpdateWalletLastSyncedAt, FinalizeWalletSyncRun, ReleaseWalletLock, dbVars
  <1>6. QED
    BY <1>3, <1>4, <1>5
    DEF Next, Step, Enter, RunWalletCoreSync, CoreSyncFails, LoopEnds, Crash,
        ContextEnds, LockExpires, vars, dbVars

\* Every candidate can be explained from stored rows: its transfer and its link are
\* stored, it came in during the scan window, against a complete baseline
\* (CandidateTraceable).
THEOREM CandidatesExplained == Spec => []CandidateTraceable
  <1>1. Init => LinksBacked /\ CandidatesFrom
    BY DEF Init, LinksBacked, CandidatesFrom
  <1>2. /\ TypeOK /\ LinksBacked /\ [Next]_vars => LinksBacked'
        /\ TypeOK /\ CallInv /\ CandidatesFrom /\ [Next]_vars => CandidatesFrom'
    BY LinksBackedStep, CandidatesFromStep
  <1>3. ASSUME TypeOK, CallInv, LinksBacked, CandidatesFrom, NEW c \in candidates
        PROVE  /\ c[2] \in transactions
               /\ <<wal[c[1]], c[2]>> \in links
               /\ Relation(wal[c[1]], c[2]) = "receiver"
               /\ win[c[1]].scanStart <= c[2].at /\ c[2].at < win[c[1]].scanEnd
               /\ core[c[1]].baselineComplete
    <2>1. c[1] \in Sync
      BY <1>3 DEF TypeOK
    <2>2. c[2] \in core[c[1]].cands /\ <<wal[c[1]], c[2]>> \in links
      BY <1>3 DEF CandidatesFrom
    <2>3. ResultSound(c[1])
      BY <1>3, <2>1 DEF CallInv, CallsSound, CallSound
    <2>4. c[2] \in transactions
      BY <1>3, <2>2 DEF LinksBacked
    <2>5. QED  BY <2>2, <2>3, <2>4 DEF ResultSound
  <1>4. TypeOK /\ CallInv /\ LinksBacked /\ CandidatesFrom => CandidateTraceable
    BY <1>3 DEF CandidateTraceable
  <1>5. QED  BY <1>1, <1>2, <1>4, TypeCorrect, CallInvariant, PTL DEF Spec

-----------------------------------------------------------------------------
(* Losses.                                                                 *)

Marked(s) ==
  /\ row[s].status \in Terminal =>
       /\ row[s].status = "partial"
       /\ row[s].incomplete
       /\ row[s].reasons \cap LossReasons # {}
  /\ pc[s] = "finalize" =>
       /\ end[s].status = "partial"
       /\ prog[s].incomplete
       /\ prog[s].reasons \cap LossReasons # {}

LEMMA MarkedStep ==
  ASSUME TypeOK, NEW s \in Sync, Effect(s) \/ Alone(s), RowFollows(s),
         \/ pc[s] \in Ending /\ Marked(s)
         \/ pc[s] \in {"link", "counterparty"} /\ pc'[s] \in Ending
  PROVE  pc'[s] \in Ending /\ Marked(s)'
  <1>. USE DEF Marked, Goes, Leaves, Stops, Same, Ending, Over
  <1>1. CASE Alone(s)  BY <1>1 DEF Alone
  <1>2. CASE Fails(s)
    <2>1. pc[s] \in {"link", "counterparty"}
      BY <1>2 DEF Fails
    <2>2. pc'[s] = "finalize" /\ end'[s].status = "partial"
          /\ prog'[s].incomplete /\ prog'[s].reasons \cap LossReasons # {}
      BY <1>2, <2>1 DEF Fails
    <2>3. row'[s].status \notin Terminal
      BY <1>2, <2>1 DEF Fails, RowFollows
    <2>4. QED  BY <2>2, <2>3
  <1>3. CASE Finalizes(s)
    <2>1. /\ pc[s] = "finalize" /\ pc'[s] = "release"
          /\ end[s].status = "partial" /\ prog[s].incomplete
          /\ prog[s].reasons \cap LossReasons # {}
      BY <1>3 DEF Finalizes
    <2>2. CASE row'[s] = row[s]
      BY <1>3, <2>1, <2>2 DEF Finalizes
    <2>3. CASE row'[s] # row[s]
      BY <1>3, <2>1, <2>3 DEF Finalizes
    <2>4. QED  BY <2>2, <2>3
  <1>4. CASE Releases(s)  BY <1>4 DEF Releases
  <1>5. CASE Crashes(s)  BY <1>5 DEF Crashes, RowFollows
  <1>6. QED
    BY <1>1, <1>2, <1>3, <1>4, <1>5
    DEF Effect, Begins, Creates, Works, Progresses, Syncs

LEMMA EndingStays ==
  ASSUME TypeOK, NEW s \in Sync, Effect(s) \/ Alone(s), wal' = wal, NEW e,
         StoppedAt(s, e), pc[s] \in Ending
  PROVE  pc'[s] \in Ending /\ StoppedAt(s, e)'
  <1>1. core'[s] = core[s] /\ idx'[s] = idx[s] /\ pc'[s] \in Ending
    BY DEF Effect, Alone, Same, Begins, Creates, Works, Fails, Progresses, Syncs,
           Finalizes, Releases, Crashes, Goes, Ending, Over
  <1>2. QED
    BY <1>1 DEF StoppedAt, AtObservation, CurrentEvent, Current

\* a call at a counterparty statement stays there, counts the event or stops at it
LEMMA CounterpartyMoves ==
  ASSUME TypeOK, NEW s \in Sync, Effect(s) \/ Alone(s), wal' = wal, NEW e,
         StoppedAt(s, e), pc[s] = "counterparty", e \notin applied'
  PROVE  StoppedAt(s, e)' /\ (pc'[s] = "counterparty" \/ pc'[s] \in Ending)
  <1>1. CurrentEvent(s) = e
    BY DEF StoppedAt
  <1>2. /\ core'[s] = core[s] /\ idx'[s] = idx[s]
        /\ pc'[s] = "counterparty" \/ pc'[s] \in Ending
    BY <1>1
    DEF Effect, Alone, Same, Begins, Creates, Works, Fails, Progresses, Syncs,
        Finalizes, Releases, Crashes, Goes, Stops, Ending, Over
  <1>3. QED
    BY <1>1, <1>2 DEF StoppedAt, AtObservation, CurrentEvent, Current

\* the link of a new event leaves its call at the event, counting it or stopped
LEMMA LinkMoves ==
  ASSUME TypeOK, NEW s \in Sync, NEW r \in Reply, LinkWalletTransfer(s, r), NEW e,
         e \in links' \ links
  PROVE  StoppedAt(s, e)' /\ (pc'[s] = "counterparty" \/ pc'[s] = "finalize")
  <1>1. e = CurrentEvent(s) /\ Fresh(s) /\ AtObservation(s) /\ Current(s) \in transactions
    BY DEF LinkWalletTransfer, Fresh
  <1>2. UNCHANGED <<core, wal, idx>> /\ (pc'[s] = "counterparty" \/ pc'[s] = "finalize")
    BY <1>1 DEF LinkWalletTransfer, Proceed, Stop, Goto, TypeOK
  <1>3. QED
    BY <1>1, <1>2 DEF StoppedAt, AtObservation, CurrentEvent, Current

LossMarked == \A e \in Uncounted : \E s \in Sync :
  /\ StoppedAt(s, e)
  /\ pc[s] = "counterparty" \/ (pc[s] \in Ending /\ Marked(s))

LEMMA LossMarkedStep ==
  ASSUME TypeOK, CallInv, LossMarked, [Next]_vars
  PROVE  LossMarked'
  <1>. DEFINE Witness(s, e) == /\ StoppedAt(s, e)
                               /\ \/ pc[s] = "counterparty"
                                  \/ pc[s] \in Ending /\ Marked(s)
  <1>1. Grows /\ \A s \in Sync : (Effect(s) \/ Alone(s)) /\ RowFollows(s)
    BY StepGrows, NextAround DEF CallInv, CallsSound, CallSound
  <1>2. ASSUME NEW e \in links' \ applied', e \in links
        PROVE  \E s \in Sync : Witness(s, e)'
    <2>1. e \in Uncounted
      BY <1>1, <1>2 DEF Uncounted, Grows
    <2>2. PICK s \in Sync : Witness(s, e)
      BY <2>1 DEF LossMarked
    <2>3. CASE pc[s] = "counterparty"
      <3>1. StoppedAt(s, e)' /\ (pc'[s] = "counterparty" \/ pc'[s] \in Ending)
        BY <1>1, <1>2, <2>2, <2>3, CounterpartyMoves DEF Grows
      <3>2. pc'[s] \in Ending => Marked(s)'
        BY <1>1, <2>3, MarkedStep
      <3>3. QED  BY <3>1, <3>2
    <2>4. CASE pc[s] \in Ending /\ Marked(s)
      <3>1. pc'[s] \in Ending /\ StoppedAt(s, e)'
        BY <1>1, <2>2, <2>4, EndingStays DEF Grows
      <3>2. Marked(s)'
        BY <1>1, <2>4, MarkedStep
      <3>3. QED  BY <3>1, <3>2
    <2>5. QED  BY <2>2, <2>3, <2>4
  <1>3. ASSUME NEW e \in links', e \notin links
        PROVE  \E s \in Sync : Witness(s, e)'
    <2>1. PICK s \in Sync, r \in Reply : LinkWalletTransfer(s, r)
      <3>1. ASSUME NEW s \in Sync, NEW r \in Reply, Statement(s, r)
            PROVE  UNCHANGED links \/ LinkWalletTransfer(s, r)
        BY <3>1
        DEF Statement, AcquireWalletLock, EnsureWallet, CreateWalletSyncRun,
            BuildDustClassifier, UpsertNormalizedTransfers, UpsertCounterpartyEvent,
            InsertPoisoningCandidates, UpdateWalletSyncProgress,
            UpdateWalletLastSyncedAt, FinalizeWalletSyncRun, ReleaseWalletLock,
            dbVars
      <3>2. QED
        BY <1>3, <3>1
        DEF Next, Step, Enter, RunWalletCoreSync, CoreSyncFails, LoopEnds, Crash,
            ContextEnds, LockExpires, vars, dbVars
    <2>2. StoppedAt(s, e)' /\ (pc'[s] = "counterparty" \/ pc'[s] = "finalize")
      BY <1>3, <2>1, LinkMoves
    <2>3. pc'[s] = "finalize" => pc'[s] \in Ending /\ Marked(s)'
      BY <1>1, <2>1, MarkedStep DEF LinkWalletTransfer, Ending
    <2>4. QED  BY <2>2, <2>3
  <1>4. QED  BY <1>2, <1>3 DEF LossMarked, Uncounted

\* An event that was linked and not counted belongs to a call that is about to count
\* it or stopped right there, and whose row, once final, is partial and names the
\* failed statement (LossIsVisible).
THEOREM LossesShow == Spec => []LossIsVisible
  <1>1. Init => LossMarked
    BY DEF Init, LossMarked, Uncounted
  <1>2. TypeOK /\ CallInv /\ LossMarked /\ [Next]_vars => LossMarked'
    BY LossMarkedStep
  <1>3. LossMarked => LossIsVisible
    BY DEF LossMarked, LossIsVisible, Marked, LossReasons
  <1>4. QED  BY <1>1, <1>2, <1>3, TypeCorrect, CallInvariant, PTL DEF Spec

Accounted(e) == e \in applied \/ \E z \in Sync : pc[z] \in Ending /\ StoppedAt(z, e)

LEMMA AccountedStays ==
  ASSUME TypeOK, AtPending, [Next]_vars, NEW e, Accounted(e)
  PROVE  Accounted(e)'
  <1>1. Grows /\ \A z \in Sync : Effect(z) \/ Alone(z)
    BY StepGrows, NextAround
  <1>2. CASE e \in applied
    BY <1>1, <1>2 DEF Grows, Accounted
  <1>3. ASSUME NEW z \in Sync, pc[z] \in Ending, StoppedAt(z, e)
        PROVE  Accounted(e)'
    BY <1>1, <1>3, EndingStays DEF Grows, Accounted
  <1>4. QED  BY <1>2, <1>3 DEF Accounted

\* the loop of s has passed the observation of e
PassedBy(s, e) ==
  \E i \in DOMAIN core[s].obs : i < idx[s] /\ e = <<wal[s], core[s].obs[i]>>

PassedAccounted == \A s \in Sync, e \in Event : PassedBy(s, e) => Accounted(e)

\* an event the loop passes in a step is counted by it, or was found linked
LEMMA Passes ==
  ASSUME TypeOK, TypeOK', NEW s \in Sync, Effect(s) \/ Alone(s), LoopFollows(s),
         wal' = wal, NEW e, PassedBy(s, e)', ~PassedBy(s, e)
  PROVE  /\ e = CurrentEvent(s)
         /\ \/ pc[s] = "link" /\ e \in links
            \/ e \in applied'
  <1>1. core[s].obs \in Seq(Transfer) /\ idx[s] \in Nat /\ core'[s].obs \in Seq(Transfer)
    BY DEF TypeOK, Result
  <1>2. PICK i \in DOMAIN core'[s].obs : i < idx'[s] /\ e = <<wal[s], core'[s].obs[i]>>
    BY DEF PassedBy
  <1>3. ~(core'[s] = core[s] /\ idx'[s] = idx[s])
    BY <1>2 DEF PassedBy
  <1>4. ~(pc[s] = "core" /\ idx'[s] = idx[s])
    BY <1>1, <1>2 DEF LoopFollows
  <1>5. /\ core'[s] = core[s] /\ idx'[s] = idx[s] + 1
        /\ (pc[s] = "link" /\ CurrentEvent(s) \in links) \/ CurrentEvent(s) \in applied'
    <2>1. Effect(s)
      BY <1>3 DEF Alone
    <2>2. Works(s)
      BY <1>3, <2>1
      DEF Effect, Same, Begins, Creates, Fails, Progresses, Syncs, Finalizes,
          Releases, Crashes
    <2>3. QED  BY <1>3, <1>4, <2>2 DEF Works, Same
  <1>6. i = idx[s]
    <2>1. i \in DOMAIN core[s].obs /\ i < idx[s] + 1 /\ i \in Nat
      BY <1>1, <1>2, <1>5
    <2>2. ~(i < idx[s])
      BY <1>2, <1>5, <2>1 DEF PassedBy
    <2>3. QED  BY <1>1, <2>1, <2>2
  <1>7. e = CurrentEvent(s)
    BY <1>2, <1>5, <1>6 DEF CurrentEvent, Current
  <1>8. QED  BY <1>5, <1>7

LEMMA PassedAccountedStep ==
  ASSUME TypeOK, CallInv, LossMarked, PassedAccounted, [Next]_vars
  PROVE  PassedAccounted'
  <1>1. /\ AtPending /\ TypeOK' /\ wal' = wal
        /\ \A s \in Sync : (Effect(s) \/ Alone(s)) /\ LoopFollows(s)
    BY NextType, StepGrows, NextAround DEF Grows, CallInv, CallsSound, CallSound
  <1>2. ASSUME NEW s \in Sync, NEW e \in Event, PassedBy(s, e)'
        PROVE  Accounted(e)'
    <2>1. CASE PassedBy(s, e)
      BY <1>1, <2>1, AccountedStays DEF PassedAccounted
    <2>2. CASE ~PassedBy(s, e)
      <3>1. /\ e = CurrentEvent(s)
            /\ (pc[s] = "link" /\ e \in links) \/ e \in applied'
        BY <1>1, <1>2, <2>2, Passes
      <3>2. CASE e \in applied'
        BY <3>2 DEF Accounted
      <3>3. CASE pc[s] = "link" /\ e \in links /\ e \notin applied
        <4>1. PICK z \in Sync : StoppedAt(z, e)
                                /\ (pc[z] = "counterparty" \/ pc[z] \in Ending)
          BY <3>3 DEF LossMarked, Uncounted
        <4>2. pc[z] # "counterparty"
          <5>1. wal[z] = wal[s]
            BY <3>1, <4>1 DEF StoppedAt, CurrentEvent
          <5>2. QED
            BY <3>3, <5>1 DEF CallInv, LockHeld, Holding, Working
        <4>3. Accounted(e)
          BY <4>1, <4>2 DEF Accounted
        <4>4. QED  BY <1>1, <4>3, AccountedStays
      <3>4. CASE e \in applied
        BY <1>1, <3>4, AccountedStays DEF Accounted
      <3>5. QED  BY <3>1, <3>2, <3>3, <3>4
    <2>3. QED  BY <2>1, <2>2
  <1>3. QED  BY <1>2 DEF PassedAccounted

\* A call that reports success has had all of its observations counted, but those
\* another call stopped at (SuccessUpToLoss): the lock keeps it from passing over an
\* event another call is still counting.
THEOREM SuccessCounts == Spec => []SuccessUpToLoss
  <1>1. Init => LossMarked /\ PassedAccounted
    BY DEF Init, LossMarked, Uncounted, PassedAccounted, PassedBy, NoResult
  <1>2. /\ TypeOK /\ CallInv /\ LossMarked /\ [Next]_vars => LossMarked'
        /\ TypeOK /\ CallInv /\ LossMarked /\ PassedAccounted /\ [Next]_vars
             => PassedAccounted'
    BY LossMarkedStep, PassedAccountedStep
  <1>3. ASSUME TypeOK, CallInv, PassedAccounted, NEW s \in Sync,
               row[s].status = "succeeded", NEW i \in DOMAIN core[s].obs
        PROVE  Accounted(<<wal[s], core[s].obs[i]>>)
    <2>1. /\ core[s].obs \in Seq(Transfer) /\ idx[s] \in Nat \ {0}
          /\ wal[s] \in Wallet
      BY <1>3 DEF TypeOK, Result
    <2>2. ~AtObservation(s)
      BY <1>3 DEF CallInv, CallsSound, CallSound, LoopFollows, Succeeds
    <2>3. i < idx[s]
      BY <2>1, <2>2, LenProperties DEF AtObservation
    <2>4. <<wal[s], core[s].obs[i]>> \in Event
      BY <2>1, ElementOfSeq, LenProperties DEF Event
    <2>5. QED  BY <1>3, <2>3, <2>4 DEF PassedAccounted, PassedBy
  <1>4. TypeOK /\ CallInv /\ PassedAccounted => SuccessUpToLoss
    BY <1>3 DEF SuccessUpToLoss, Accounted
  <1>5. QED  BY <1>1, <1>2, <1>4, TypeCorrect, CallInvariant, PTL DEF Spec

-----------------------------------------------------------------------------
(* A call implements CallContract.                                         *)

place == [s \in Sync |-> Place(s)]
told == [s \in Sync |-> row[s].status]
answer == [s \in Sync |-> Answered(s)]
mapped == <<wal, place, told, answer>>

\* a lock row names a call for that wallet, one that was made
Owners == \A w \in Wallet : lock[w] # NoSync => wal[lock[w]] = w /\ pc[lock[w]] # "idle"

\* between the two statements that write its status a row is running
Opened(s) ==
  pc[s] \in {"dust", "core", "transfers", "link", "counterparty", "candidates",
             "progress", "last_synced", "finalize"} => row[s].status = "running"

ContractInv == Owners /\ \A s \in Sync : Opened(s)

\* only the first statement of a call and its last one touch the lock, and only they
\* end with an answer
LEMMA Inside ==
  ASSUME TypeOK, NEW s \in Sync, Step(s) \/ Crash(s)
  PROVE  \/ \E r \in Reply : AcquireWalletLock(s, r)
         \/ \E r \in Reply : ReleaseWalletLock(s, r)
         \/ /\ UNCHANGED lock
            /\ pc[s] \in Live
            /\ pc'[s] \notin {"idle", "done", "skipped"}
  <1>. DEFINE Within == /\ UNCHANGED lock
                        /\ pc[s] \in Live
                        /\ pc'[s] \notin {"idle", "done", "skipped"}
  <1>. USE DEF TypeOK, Proceed, Leave, Stop, Goto, Live, Holding, Working
  <1>1. ASSUME NEW r \in Reply, Statement(s, r)
        PROVE  AcquireWalletLock(s, r) \/ ReleaseWalletLock(s, r) \/ Within
    <2>2. CASE EnsureWallet(s, r)  BY <2>2 DEF EnsureWallet
    <2>3. CASE CreateWalletSyncRun(s, r)  BY <2>3 DEF CreateWalletSyncRun
    <2>4. CASE BuildDustClassifier(s, r)  BY <2>4 DEF BuildDustClassifier, dbVars
    <2>5. CASE UpsertNormalizedTransfers(s, r)  BY <2>5 DEF UpsertNormalizedTransfers
    <2>6. CASE LinkWalletTransfer(s, r)  BY <2>6 DEF LinkWalletTransfer
    <2>7. CASE UpsertCounterpartyEvent(s, r)  BY <2>7 DEF UpsertCounterpartyEvent
    <2>8. CASE InsertPoisoningCandidates(s, r)  BY <2>8 DEF InsertPoisoningCandidates
    <2>9. CASE UpdateWalletSyncProgress(s, r)  BY <2>9 DEF UpdateWalletSyncProgress
    <2>10. CASE UpdateWalletLastSyncedAt(s, r)  BY <2>10 DEF UpdateWalletLastSyncedAt
    <2>11. CASE FinalizeWalletSyncRun(s, r)  BY <2>11 DEF FinalizeWalletSyncRun
    <2>12. QED
      BY <1>1, <2>2, <2>3, <2>4, <2>5, <2>6, <2>7, <2>8, <2>9, <2>10, <2>11
      DEF Statement
  <1>2. CASE Enter(s)  BY <1>2 DEF Enter, dbVars
  <1>3. CASE RunWalletCoreSync(s)  BY <1>3 DEF RunWalletCoreSync, dbVars
  <1>4. CASE CoreSyncFails(s)  BY <1>4 DEF CoreSyncFails, dbVars
  <1>5. CASE LoopEnds(s)  BY <1>5 DEF LoopEnds, dbVars
  <1>6. CASE Crash(s)  BY <1>6 DEF Crash, dbVars
  <1>7. QED  BY <1>1, <1>2, <1>3, <1>4, <1>5, <1>6 DEF Step

LEMMA OwnersStep ==
  ASSUME TypeOK, Owners, [Next]_vars
  PROVE  Owners'
  <1>0. NoSync \notin Sync
    BY BoundAssumption
  <1>1. ASSUME NEW s \in Sync, Step(s) \/ Crash(s) PROVE Owners'
    <2>1. UNCHANGED wal /\ \A z \in Sync \ {s} : pc'[z] = pc[z]
      BY <1>1, StepFrame DEF Alone
    <2>2. pc'[s] # "idle"
      BY <1>1, Inside
      DEF TypeOK, AcquireWalletLock, ReleaseWalletLock, Proceed, Leave, Goto
    <2>3. \A w \in Wallet : lock'[w] \in {lock[w], s, NoSync} /\ (w # wal[s] => lock'[w] = lock[w])
      BY <1>1, LockStep DEF TypeOK, Takes, Gives, Keeps
    <2>4. QED  BY <1>0, <2>1, <2>2, <2>3 DEF Owners, TypeOK
  <1>2. ASSUME NEW w \in Wallet, LockExpires(w) PROVE Owners'
    BY <1>2 DEF Owners, LockExpires, callVars, TypeOK
  <1>3. ASSUME NEW s \in Sync, NEW cause \in {"deadline", "canceled"}, ContextEnds(s, cause)
        PROVE  Owners'
    BY <1>3 DEF Owners, ContextEnds, dbVars
  <1>4. CASE UNCHANGED vars
    BY <1>4 DEF Owners, vars, dbVars, callVars
  <1>5. QED  BY <1>1, <1>2, <1>3, <1>4 DEF Next

LEMMA OpenedStep ==
  ASSUME TypeOK, NEW s \in Sync, Effect(s) \/ Alone(s), Opened(s)
  PROVE  Opened(s)'
  <1>. USE DEF Opened, Goes, Leaves, Stops, Same
  <1>0. row[s] \in SyncRow
    BY DEF TypeOK
  <1>1. CASE Alone(s)  BY <1>1 DEF Alone
  <1>2. CASE Begins(s)  BY <1>2 DEF Begins
  <1>3. CASE Creates(s)  BY <1>0, <1>3 DEF Creates, SyncRow
  <1>4. CASE Works(s)  BY <1>4 DEF Works
  <1>5. CASE Fails(s)  BY <1>5 DEF Fails
  <1>6. CASE Progresses(s)  BY <1>0, <1>6 DEF Progresses, SyncRow
  <1>7. CASE Syncs(s)  BY <1>7 DEF Syncs
  <1>8. CASE Finalizes(s)  BY <1>8 DEF Finalizes
  <1>9. CASE Releases(s)  BY <1>9 DEF Releases
  <1>10. CASE Crashes(s)  BY <1>10 DEF Crashes
  <1>11. QED
    BY <1>1, <1>2, <1>3, <1>4, <1>5, <1>6, <1>7, <1>8, <1>9, <1>10 DEF Effect

LEMMA ContractInvariant == Spec => []ContractInv
  <1>1. Init => ContractInv
    BY DEF Init, ContractInv, Owners, Opened
  <1>2. TypeOK /\ CallInv /\ ContractInv /\ [Next]_vars => ContractInv'
    BY OwnersStep, OpenedStep, NextAround DEF CallInv, ContractInv
  <1>3. QED  BY <1>1, <1>2, TypeCorrect, CallInvariant, PTL DEF Spec

\* a step of s is one of s in the contract
LEMMA Mine ==
  ASSUME TypeOK, NEW s \in Sync, Step(s) \/ Crash(s)
  PROVE  /\ wal' = wal
         /\ place' = [place EXCEPT ![s] = Place(s)']
         /\ told' = [told EXCEPT ![s] = row'[s].status]
         /\ answer' = [answer EXCEPT ![s] = Answered(s)']
  <1>1. UNCHANGED wal /\ \A z \in Sync \ {s} : Alone(z)
    BY StepFrame
  <1>2. ASSUME NEW z \in Sync \ {s}
        PROVE  lock'[wal[z]] = z <=> lock[wal[z]] = z
    <2>1. z # NoSync /\ wal[z] \in Wallet /\ wal[s] \in Wallet
      BY BoundAssumption DEF TypeOK
    <2>2. CASE Takes(s)  BY <2>1, <2>2 DEF Takes, LockFree, TypeOK
    <2>3. CASE Gives(s)  BY <2>1, <2>3 DEF Gives, TypeOK
    <2>4. CASE Keeps(s)  BY <2>4 DEF Keeps
    <2>5. QED  BY <2>2, <2>3, <2>4, LockStep
  <1>3. \A z \in Sync \ {s} : Place(z)' = Place(z)
    BY <1>1, <1>2 DEF Place, Alone
  <1>4. \A z \in Sync \ {s} : Answered(z)' = Answered(z) /\ row'[z].status = row[z].status
    BY <1>1 DEF Answered, Alone
  <1>5. QED  BY <1>1, <1>3, <1>4 DEF place, told, answer

LEMMA AcquireMaps ==
  ASSUME TypeOK, Owners, NEW s \in Sync, NEW r \in Reply, AcquireWalletLock(s, r)
  PROVE  Contract!Next
  <1>1. Step(s) /\ pc[s] = "idle" /\ wal[s] \in Wallet /\ NoSync \notin Sync
    BY BoundAssumption DEF Step, Statement, AcquireWalletLock, TypeOK
  <1>2. place[s] = "outside" /\ answer[s] = "none"
    BY <1>1 DEF Owners, place, Place, answer, Answered
  <1>3. row' = row /\ wal' = wal
    BY DEF AcquireWalletLock
  <1>4. told' = told
    BY <1>3 DEF told
  <1>5. CASE LockFree(wal[s])
    <2>1. ~Contract!Taken(s)
      BY <1>1, <1>5 DEF Contract!Taken, LockFree, place, Place, TypeOK
    <2>2. CASE r = "ok"
      <3>1. pc'[s] = "enter" /\ lock'[wal[s]] = s
        BY <1>1, <1>5, <2>2 DEF AcquireWalletLock, Proceed, Leave, Goto, TypeOK
      <3>2. Place(s)' = "holds" /\ Answered(s)' = "none"
        BY <1>3, <3>1 DEF Place, Answered
      <3>3. answer' = answer /\ place' = [place EXCEPT ![s] = "holds"]
        BY <1>1, <1>2, <3>2, Mine DEF answer
      <3>4. Contract!Take(s)
        BY <1>2, <1>4, <2>1, <3>3 DEF Contract!Take, Contract!Put, place, told, answer
      <3>5. QED  BY <1>2, <1>3, <3>4 DEF Contract!Next, Contract!Speak, answer
    <2>3. CASE r = "lost"
      <3>1. pc'[s] = "done" /\ err'[s] /\ lock'[wal[s]] = s
        BY <1>1, <1>5, <2>3 DEF AcquireWalletLock, Proceed, Leave, Goto, TypeOK
      <3>2. Place(s)' = "holds" /\ Answered(s)' = "error"
        BY <1>3, <3>1 DEF Place, Answered
      <3>3. /\ answer' = [answer EXCEPT ![s] = "error"]
            /\ place' = [place EXCEPT ![s] = "holds"]
        BY <1>1, <3>2, Mine
      <3>4. Contract!Take(s)
        BY <1>2, <1>4, <2>1, <3>3
        DEF Contract!Take, Contract!Put, Contract!Answer, place, told, answer
      <3>5. QED  BY <1>2, <1>3, <3>4 DEF Contract!Next, Contract!Speak, answer
    <2>4. CASE r = "failed"
      <3>1. pc'[s] = "done" /\ err'[s] /\ lock' = lock
        BY <1>1, <2>4 DEF AcquireWalletLock, Proceed, Leave, Goto, TypeOK
      <3>2. Place(s)' = "left" /\ Answered(s)' = "error"
        BY <1>1, <1>3, <1>5, <3>1 DEF Place, Answered, LockFree
      <3>3. Contract!Fail(s)
        BY <1>1, <1>2, <1>4, <3>2, Mine
        DEF Contract!Fail, Contract!Put, Contract!Answer, place, told, answer
      <3>4. QED  BY <1>2, <1>3, <3>3 DEF Contract!Next, Contract!Speak, answer
    <2>5. QED  BY <2>2, <2>3, <2>4 DEF Reply
  <1>6. CASE ~LockFree(wal[s])
    <2>1. lock' = lock /\ lock[wal[s]] # s /\ lock[wal[s]] \in Sync
      BY <1>1, <1>6 DEF AcquireWalletLock, LockFree, Owners, TypeOK
    <2>2. Contract!Taken(s)
      <3>1. wal[lock[wal[s]]] = wal[s]
        BY <1>1, <2>1 DEF Owners
      <3>2. place[lock[wal[s]]] = "holds"
        BY <2>1, <3>1 DEF place, Place
      <3>3. QED  BY <2>1, <3>1, <3>2 DEF Contract!Taken, place
    <2>3. Place(s)' = "left"
      BY <1>3, <2>1, <1>1 DEF Place, AcquireWalletLock, Proceed, Leave, Goto, TypeOK
    <2>4. CASE r = "ok"
      <3>1. pc'[s] = "skipped"
        BY <1>1, <1>6, <2>4 DEF AcquireWalletLock, Proceed, Leave, Goto, TypeOK
      <3>2. /\ answer' = [answer EXCEPT ![s] = "locked"]
            /\ place' = [place EXCEPT ![s] = "left"]
        <4>1. Answered(s)' = "locked"
          BY <3>1 DEF Answered
        <4>2. QED  BY <1>1, <2>3, <4>1, Mine
      <3>3. Contract!BeRefused(s)
        BY <1>2, <1>4, <2>2, <3>2
        DEF Contract!BeRefused, Contract!Put, Contract!Answer, place, told, answer
      <3>4. QED  BY <1>2, <1>3, <3>3 DEF Contract!Next, Contract!Speak, answer
    <2>5. CASE r # "ok"
      <3>1. pc'[s] = "done" /\ err'[s]
        BY <1>1, <2>5 DEF AcquireWalletLock, Proceed, Leave, Goto, TypeOK
      <3>2. /\ answer' = [answer EXCEPT ![s] = "error"]
            /\ place' = [place EXCEPT ![s] = "left"]
        <4>1. Answered(s)' = "error"
          BY <3>1 DEF Answered
        <4>2. QED  BY <1>1, <2>3, <4>1, Mine
      <3>3. Contract!Fail(s)
        BY <1>2, <1>4, <3>2
        DEF Contract!Fail, Contract!Put, Contract!Answer, place, told, answer
      <3>4. QED  BY <1>2, <1>3, <3>3 DEF Contract!Next, Contract!Speak, answer
    <2>6. QED  BY <2>4, <2>5
  <1>7. QED  BY <1>5, <1>6

LEMMA ReleaseMaps ==
  ASSUME TypeOK, CallInv, NEW s \in Sync, NEW r \in Reply, ReleaseWalletLock(s, r)
  PROVE  Contract!Next
  <1>1. Step(s) /\ pc[s] = "release" /\ pc'[s] = "done" /\ wal[s] \in Wallet
    BY DEF Step, Statement, ReleaseWalletLock, Goto, TypeOK
  <1>2. row' = row /\ wal' = wal /\ told' = told
    BY DEF ReleaseWalletLock, told
  <1>3. place[s] = Place(s) /\ answer[s] = "none" /\ Place(s) \in {"holds", "left"}
    BY <1>1 DEF place, Place, answer, Answered
  <1>4. Place(s)' = Place(s) \/ Place(s)' = "left"
    BY <1>1, <1>2 DEF ReleaseWalletLock, Place, TypeOK
  <1>5. CASE err'[s]
    <2>1. Answered(s)' = "error"
      BY <1>1, <1>5 DEF Answered
    <2>2. Place(s)' = Place(s) => place' = place
      BY <1>1, <1>3, Mine DEF place
    <2>3. Contract!Fail(s)
      BY <1>1, <1>2, <1>3, <1>4, <2>1, <2>2, Mine
      DEF Contract!Fail, Contract!Put, Contract!Answer, place, told, answer
    <2>4. QED  BY <1>2, <1>3, <2>3 DEF Contract!Next, Contract!Speak, answer
  <1>6. CASE ~err'[s]
    <2>1. Releases(s)
      <3>1. Effect(s)
        BY <1>1, StepEffect DEF CallInv
      <3>2. ~Crashes(s)
        BY <1>1 DEF Crashes, Goes
      <3>3. QED
        BY <1>1, <3>1, <3>2
        DEF Effect, Begins, Creates, Works, Fails, Progresses, Syncs, Finalizes
    <2>2. lock'[wal[s]] # s /\ ~err[s]
      BY <1>6, <2>1 DEF Releases
    <2>3. Place(s)' = "left" /\ Answered(s)' = "nil"
      BY <1>1, <1>2, <1>6, <2>2 DEF Place, Answered
    <2>4. told[s] \in {"succeeded", "partial"}
      BY <1>1, <2>2 DEF told, CallInv, CallsSound, CallSound, Stored
    <2>5. Contract!Succeed(s)
      BY <1>1, <1>2, <2>3, <2>4, Mine
      DEF Contract!Succeed, Contract!Put, Contract!Answer, place, told, answer
    <2>6. QED  BY <1>2, <1>3, <2>5 DEF Contract!Next, Contract!Speak, answer
  <1>7. QED  BY <1>5, <1>6

\* of the others only the two that write the status of the row are seen
LEMMA InsideMaps ==
  ASSUME TypeOK, CallInv, ContractInv, NEW s \in Sync, Step(s) \/ Crash(s),
         UNCHANGED lock, pc[s] \in Live, pc'[s] \notin {"idle", "done", "skipped"}
  PROVE  Contract!Next \/ UNCHANGED mapped
  <1>1. wal' = wal /\ Effect(s) /\ RowFollows(s) /\ Opened(s)
    BY StepFrame, StepEffect DEF CallInv, CallsSound, CallSound, ContractInv
  <1>2. Place(s)' = Place(s) /\ Answered(s)' = "none" /\ Answered(s) = "none"
    BY <1>1 DEF Place, Answered, Live, Holding, Working
  <1>3. place' = place /\ answer' = answer /\ answer[s] = "none"
    BY <1>2, Mine DEF place, answer
  <1>4. told' = [told EXCEPT ![s] = row'[s].status] /\ told[s] = row[s].status
    BY Mine DEF told
  <1>5. row[s] \in SyncRow /\ end[s] \in Outcome
    BY DEF TypeOK
  <1>6. \/ row'[s].status = row[s].status
        \/ pc[s] = "create" /\ row'[s].status = "running"
        \/ pc[s] = "finalize" /\ row'[s].status \in Terminal
    BY <1>1, <1>5
    DEF Effect, Begins, Creates, Works, Fails, Progresses, Syncs, Finalizes, Releases,
        Crashes, Same, SyncRow, Outcome
  <1>7. CASE row'[s].status = row[s].status
    <2>1. told' = told
      BY <1>4, <1>7 DEF told
    <2>2. QED  BY <1>1, <1>3, <2>1 DEF mapped
  <1>8. CASE pc[s] = "create" /\ row'[s].status = "running"
    <2>1. told[s] = "none"
      BY <1>1, <1>4, <1>8 DEF RowFollows, NoRow
    <2>2. place[s] = "holds"
      BY <1>8 DEF CallInv, LockHeld, Holding, Working, place, Place
    <2>3. Contract!Open(s)
      BY <1>3, <1>4, <1>8, <2>1, <2>2 DEF Contract!Open, Contract!Tell, place, told, answer
    <2>4. QED  BY <1>1, <1>3, <2>3 DEF Contract!Next, Contract!Speak, answer
  <1>9. CASE pc[s] = "finalize" /\ row'[s].status \in Terminal
    <2>1. told[s] = "running"
      BY <1>1, <1>4, <1>9 DEF Opened
    <2>2. Contract!Close(s)
      BY <1>3, <1>4, <1>9, <2>1
      DEF Contract!Close, Contract!Tell, Terminal, place, told, answer
    <2>3. QED  BY <1>1, <1>3, <2>2 DEF Contract!Next, Contract!Speak, answer
  <1>10. QED  BY <1>6, <1>7, <1>8, <1>9

LEMMA ExpiryMaps ==
  ASSUME TypeOK, Owners, NEW w \in Wallet, LockExpires(w)
  PROVE  Contract!Next
  <1>1. /\ lock[w] \in Sync /\ wal[lock[w]] = w /\ pc[lock[w]] # "idle"
        /\ lock' = [lock EXCEPT ![w] = NoSync] /\ NoSync \notin Sync
        /\ UNCHANGED <<wal, pc, row, err>>
    BY BoundAssumption DEF LockExpires, Owners, TypeOK, callVars
  <1>2. told' = told /\ answer' = answer
    BY <1>1 DEF told, answer, Answered
  <1>3. Place(lock[w]) = "holds" /\ (\A z \in Sync : Place(z)' = IF z = lock[w] THEN "left" ELSE Place(z))
    BY <1>1 DEF Place, TypeOK
  <1>4. place[lock[w]] = "holds" /\ place' = [place EXCEPT ![lock[w]] = "left"]
    BY <1>1, <1>3 DEF place
  <1>5. Contract!Drop(lock[w])
    BY <1>2, <1>4 DEF Contract!Drop, Contract!Put, place, told, answer
  <1>6. QED  BY <1>1, <1>5 DEF Contract!Next

\* Every call keeps the promise of CallContract (KeepsCallContract): the row it opens
\* under the lock and ends once, its one answer, and what an answer without an error
\* stands for, for any number of calls, faults and crashes.
THEOREM CallKeepsContract == Spec => KeepsCallContract
  <1>1. Init => Contract!Init
    <2>1. Init => \A s \in Sync : /\ Place(s) = "outside" /\ Answered(s) = "none"
                                  /\ row[s].status = "none"
      BY BoundAssumption DEF Init, Place, Answered, NoRow
    <2>2. QED  BY <2>1 DEF Contract!Init
  <1>2. ASSUME TypeOK, CallInv, ContractInv, [Next]_vars
        PROVE  [Contract!Next]_mapped
    <2>1. ASSUME NEW s \in Sync, Step(s) \/ Crash(s)
          PROVE  Contract!Next \/ UNCHANGED mapped
      BY <1>2, <2>1, Inside, AcquireMaps, ReleaseMaps, InsideMaps DEF ContractInv
    <2>2. ASSUME NEW w \in Wallet, LockExpires(w) PROVE Contract!Next
      BY <1>2, <2>2, ExpiryMaps DEF ContractInv
    <2>3. ASSUME NEW s \in Sync, NEW cause \in {"deadline", "canceled"},
                 ContextEnds(s, cause) \/ UNCHANGED vars
          PROVE  UNCHANGED mapped
      BY <2>3
      DEF ContextEnds, vars, dbVars, callVars, mapped, place, Place, told, answer, Answered
    <2>4. CASE UNCHANGED vars
      BY <2>4 DEF vars, dbVars, callVars, mapped, place, Place, told, answer, Answered
    <2>5. QED  BY <1>2, <2>1, <2>2, <2>3, <2>4 DEF Next
  <1>3. QED
    BY <1>1, <1>2, TypeCorrect, CallInvariant, ContractInvariant, PTL
    DEF Spec, KeepsCallContract, Contract!Spec, Contract!promise, mapped, place, told, answer
=============================================================================
