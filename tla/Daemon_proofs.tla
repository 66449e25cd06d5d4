--------------------------- MODULE Daemon_proofs ----------------------------
(***************************************************************************)
(* Theorems about Daemon, for any number of processes and all options that *)
(* validateDaemonOptions lets through.                                     *)
(***************************************************************************)
EXTENDS Daemon, TLAPS

LEMMA OptionTypes ==
  /\ Budget \in Nat /\ SourceCalls \in Nat /\ RunMaxTXPages \in Nat
  /\ TargetCount \in Nat /\ Attempts \in Nat \ {0} /\ Blocks \in Nat /\ Blocks <= MaxBlocks
  /\ MaxBlocks \in Nat /\ Estimate <= Budget
  /\ RPCCredits \in Nat /\ EnhancedCredits \in Nat /\ IntervalNights \subseteq Nat
  BY OptionsAssumption DEF ValidOptions, Attempts, Blocks

\* the parts of the estimate
SourceLimit == SourceCalls * Attempts
ScanLimit == TargetCount * RunMaxTXPages * 2 * Attempts

LEMMA Product ==
  ASSUME NEW a \in Nat, NEW b \in Nat
  PROVE  a * b \in Nat
  OBVIOUS

LEMMA LimitTypes ==
  /\ SourceLimit \in Nat /\ ScanLimit \in Nat
  /\ SourceLimit * EnhancedCredits \in Nat /\ ScanLimit * EnhancedCredits \in Nat
  /\ (1 + MaxBlocks) * RPCCredits \in Nat
  <1>1. SourceLimit \in Nat
    BY OptionTypes, Product DEF SourceLimit
  <1>2. ScanLimit \in Nat
    <2>1. TargetCount * RunMaxTXPages \in Nat
      BY OptionTypes, Product
    <2>2. TargetCount * RunMaxTXPages * 2 \in Nat
      BY <2>1, Product
    <2>3. QED  BY <2>2, OptionTypes, Product DEF ScanLimit
  <1>3. QED  BY <1>1, <1>2, OptionTypes, Product

LEMMA EstimateParts ==
  /\ Estimate = (1 + MaxBlocks) * RPCCredits
                + SourceLimit * EnhancedCredits + ScanLimit * EnhancedCredits
  /\ Estimate \in Nat
  <1> DEFINE s == SourceCalls
             t == TargetCount * RunMaxTXPages * 2
  <1>1. s \in Nat /\ t \in Nat
    <2>1. TargetCount * RunMaxTXPages \in Nat
      BY OptionTypes, Product
    <2>2. QED  BY <2>1, Product, OptionTypes
  <1>2. (s + t) * Attempts = s * Attempts + t * Attempts
    <2> HIDE DEF s, t
    <2>1. QED  BY <1>1, OptionTypes
  <1>3. SourceLimit = s * Attempts /\ ScanLimit = t * Attempts
    BY DEF SourceLimit, ScanLimit
  <1>4. (SourceLimit + ScanLimit) * EnhancedCredits
          = SourceLimit * EnhancedCredits + ScanLimit * EnhancedCredits
    BY LimitTypes, OptionTypes
  <1>5. Estimate = (1 + MaxBlocks) * RPCCredits + (s + t) * Attempts * EnhancedCredits
    BY DEF Estimate
  <1>6. Estimate = (1 + MaxBlocks) * RPCCredits
                   + (SourceLimit * EnhancedCredits + ScanLimit * EnhancedCredits)
    <2> HIDE DEF s, t
    <2>1. (s + t) * Attempts = SourceLimit + ScanLimit
      BY <1>2, <1>3
    <2>2. QED  BY <1>4, <1>5, <2>1
  <1> HIDE DEF s, t
  <1>7. QED  BY <1>6, LimitTypes

-----------------------------------------------------------------------------
(* Types.                                                                  *)

LEMMA GotoType ==
  ASSUME TypeOK, NEW p \in Process,
         NEW where \in Working \cup {"down", "lock", "unlock", "close"}, Goto(p, where)
  PROVE  /\ pc' \in [Process -> Working \cup {"down", "lock", "unlock", "close"}]
         /\ pc'[p] = where
         /\ \A q \in Process \ {p} : pc'[q] = pc[q]
  BY DEF TypeOK, Goto

LEMMA AfterType ==
  ASSUME TypeOK, NEW p \in Process, NEW ended \in BOOLEAN, After(p, ended)
  PROVE  /\ pc' \in [Process -> Working \cup {"down", "lock", "unlock", "close"}]
         /\ nights' \in [Process -> Nat]
         /\ pc'[p] \in {"unlock", "pause"}
         /\ \A q \in Process \ {p} : pc'[q] = pc[q]
  <1>1. CASE Goto(p, "unlock") /\ nights' = [nights EXCEPT ![p] = 0]
    BY <1>1, GotoType DEF TypeOK
  <1>2. CASE /\ Goto(p, "pause")
             /\ \E n \in IntervalNights : nights' = [nights EXCEPT ![p] = n]
    <2>1. nights' \in [Process -> Nat]
      BY <1>2, OptionTypes DEF TypeOK
    <2>2. "pause" \in Working
      BY DEF Working, Sleeping
    <2>3. QED  BY <1>2, <2>1, <2>2, GotoType
  <1>3. CASE ended \/ p \in Once \/ asked[p]
    BY <1>1, <1>3 DEF After
  <1>4. CASE ~(ended \/ p \in Once \/ asked[p])
    BY <1>2, <1>4 DEF After
  <1>5. QED  BY <1>3, <1>4

LEMMA DownType ==
  ASSUME TypeOK, NEW p \in Process, Down(p)
  PROVE  /\ pc' \in [Process -> Working \cup {"down", "lock", "unlock", "close"}]
         /\ asked' \in [Process -> BOOLEAN] /\ current' \in [Process -> BOOLEAN]
         /\ used' \in [Process -> Nat] /\ left' \in [Process -> Nat]
         /\ nights' \in [Process -> Nat] /\ today' \in [Process -> Nat]
         /\ crossed' \in [Process -> BOOLEAN] /\ severed' \in SUBSET Process
  <1>1. pc' \in [Process -> Working \cup {"down", "lock", "unlock", "close"}]
    <2>1. Goto(p, "down")
      BY DEF Down
    <2>2. QED  BY <2>1, GotoType
  <1>2. /\ asked' \in [Process -> BOOLEAN] /\ crossed' \in [Process -> BOOLEAN]
        /\ severed' \in SUBSET Process
    BY DEF TypeOK, Down
  <1>3. current' \in [Process -> BOOLEAN]
    BY DEF TypeOK, Down
  <1>4. /\ used' \in [Process -> Nat] /\ left' \in [Process -> Nat]
        /\ nights' \in [Process -> Nat] /\ today' \in [Process -> Nat]
    BY DEF TypeOK, Down
  <1>5. QED  BY <1>1, <1>2, <1>3, <1>4

LEMMA InitType == Init => TypeOK
  BY OptionTypes DEF Init, TypeOK

LEMMA StartType ==
  ASSUME TypeOK, NEW p \in Process, Start(p) \/ Signal(p)
  PROVE  TypeOK'
  <1>1. CASE Start(p)
    <2>1. pc' \in [Process -> Working \cup {"down", "lock", "unlock", "close"}]
      BY <1>1, GotoType DEF Start
    <2>2. starts' \in Nat
      BY <1>1 DEF Start, TypeOK
    <2>3. UNCHANGED <<asked, current, used, left, nights, today, crossed, holder, severed, faults>>
      BY <1>1 DEF Start, locking
    <2>4. QED  BY <2>1, <2>2, <2>3 DEF TypeOK
  <1>2. CASE Signal(p)
    BY <1>2 DEF Signal, TypeOK, locking
  <1>3. QED  BY <1>1, <1>2

LEMMA LockType ==
  ASSUME TypeOK, NEW p \in Process,
         AcquireLock(p) \/ Unlock(p) \/ Close(p) \/ Crash(p) \/ SessionEnds(p)
  PROVE  TypeOK'
  <1>1. CASE AcquireLock(p) /\ Down(p)
    BY <1>1, DownType DEF AcquireLock, TypeOK
  <1>2. CASE AcquireLock(p) /\ ~Down(p)
    <2>1. Goto(p, "reserve") /\ holder' = p /\ UNCHANGED <<work, severed, starts, faults>>
      BY <1>2 DEF AcquireLock
    <2>2. pc' \in [Process -> Working \cup {"down", "lock", "unlock", "close"}]
      BY <2>1, GotoType DEF Working
    <2>3. QED  BY <2>1, <2>2 DEF TypeOK, work
  <1>3. CASE Unlock(p)
    <2>1. pc' \in [Process -> Working \cup {"down", "lock", "unlock", "close"}]
      BY <1>3, GotoType DEF Unlock
    <2>2. holder' \in Process \cup {NoProcess}
      BY <1>3 DEF Unlock, Freed, TypeOK
    <2>3. QED  BY <1>3, <2>1, <2>2 DEF Unlock, TypeOK, work
  <1>4. CASE Close(p)
    <2>1. holder' \in Process \cup {NoProcess}
      BY <1>4 DEF Close, TypeOK
    <2>2. QED  BY <1>4, <2>1, DownType DEF Close, TypeOK
  <1>5. CASE Crash(p)
    BY <1>5, DownType DEF Crash, TypeOK
  <1>6. CASE SessionEnds(p)
    BY <1>6 DEF SessionEnds, TypeOK, work
  <1>7. QED  BY <1>1, <1>2, <1>3, <1>4, <1>5, <1>6

LEMMA UsedType ==
  ASSUME TypeOK, NEW p \in Process
  PROVE  UsedToday(p) \in Nat /\ UsedToday(p) + Estimate \in Nat
  BY EstimateParts DEF TypeOK, UsedToday

LEMMA ReserveType ==
  ASSUME TypeOK, NEW p \in Process, Reserve(p)
  PROVE  TypeOK'
  <1>1. UsedToday(p) \in Nat /\ UsedToday(p) + Estimate \in Nat
    BY UsedType
  <1>2. current' \in [Process -> BOOLEAN] /\ used' \in [Process -> Nat]
    BY <1>1 DEF Reserve, TypeOK
  <1>3. left' \in [Process -> Nat]
    BY OptionTypes DEF Reserve, TypeOK
  <1>4. pc' \in [Process -> Working \cup {"down", "lock", "unlock", "close"}]
    BY GotoType DEF Reserve, Working, Phases
  <1>5. QED  BY <1>2, <1>3, <1>4 DEF Reserve, TypeOK, locking

LEMMA AcceptedLimit ==
  ASSUME NEW accepted \in 1..TargetCount
  PROVE  /\ accepted * RunMaxTXPages * 2 * Attempts \in Nat
         /\ accepted * RunMaxTXPages * 2 * Attempts <= ScanLimit
  <1> DEFINE c == RunMaxTXPages * 2 * Attempts
  <1>1. c \in Nat
    <2>1. RunMaxTXPages * 2 \in Nat
      BY OptionTypes
    <2>2. QED  BY <2>1, OptionTypes, Product
  <1>2. \A k \in Nat : k * RunMaxTXPages * 2 * Attempts = k * c
    <2>1. SUFFICES ASSUME NEW k \in Nat PROVE k * RunMaxTXPages * 2 * Attempts = k * c
      OBVIOUS
    <2>2. k * RunMaxTXPages * 2 = k * (RunMaxTXPages * 2)
      BY OptionTypes
    <2>3. RunMaxTXPages * 2 \in Nat
      BY OptionTypes
    <2>4. k * (RunMaxTXPages * 2) * Attempts = k * (RunMaxTXPages * 2 * Attempts)
      BY <2>3, OptionTypes
    <2>5. QED  BY <2>2, <2>4
  <1>3. accepted \in Nat /\ TargetCount \in Nat /\ TargetCount - accepted \in Nat
    BY OptionTypes
  <1>4. TargetCount * c = accepted * c + (TargetCount - accepted) * c
    <2> HIDE DEF c
    <2>1. QED  BY <1>1, <1>3
  <1>5. accepted * c \in Nat /\ (TargetCount - accepted) * c \in Nat
    <2> HIDE DEF c
    <2>1. QED  BY <1>1, <1>3
  <1>6. ScanLimit = TargetCount * c
    BY <1>2, <1>3 DEF ScanLimit
  <1>7. accepted * RunMaxTXPages * 2 * Attempts = accepted * c
    BY <1>2, <1>3
  <1> HIDE DEF c
  <1>8. QED  BY <1>4, <1>5, <1>6, <1>7

LEMMA SendType ==
  ASSUME TypeOK, NEW p \in Process, Send(p)
  PROVE  TypeOK'
  <1>1. Cost(p) \in Nat
    BY OptionTypes DEF Cost
  <1>2. left' \in [Process -> Nat] /\ today' \in [Process -> Nat]
    BY <1>1 DEF Send, TypeOK
  <1>3. QED  BY <1>2 DEF Send, TypeOK, locking

\* the three ways a phase ends
LEMMA PhaseEnds ==
  ASSUME TypeOK, NEW p \in Process, EndPhase(p)
  PROVE  /\ pc[p] \in Phases
         /\ \/ pc[p] = "scrape" /\ NextPhase(p, "source", SourceLimit)
            \/ /\ pc[p] = "source"
               /\ \E n \in 0..ScanLimit : NextPhase(p, "scan", n)
            \/ After(p, FALSE) /\ left' = [left EXCEPT ![p] = 0]
         /\ UNCHANGED <<asked, current, used, today, crossed, locking, starts, faults>>
  <1>1. CASE pc[p] = "scrape" /\ NextPhase(p, "source", SourceCalls * Attempts)
    BY <1>1 DEF EndPhase, Phases, SourceLimit
  <1>2. CASE \E accepted \in 1..TargetCount :
               /\ pc[p] = "source"
               /\ NextPhase(p, "scan", accepted * RunMaxTXPages * 2 * Attempts)
    <2>1. PICK accepted \in 1..TargetCount :
               /\ pc[p] = "source"
               /\ NextPhase(p, "scan", accepted * RunMaxTXPages * 2 * Attempts)
      BY <1>2
    <2>2. accepted * RunMaxTXPages * 2 * Attempts \in 0..ScanLimit
      BY AcceptedLimit, LimitTypes
    <2>3. \E n \in 0..ScanLimit : NextPhase(p, "scan", n)
      BY <2>1, <2>2
    <2>4. QED  BY <2>1, <2>3 DEF EndPhase, Phases
  <1>3. CASE pc[p] \in Phases /\ After(p, FALSE) /\ left' = [left EXCEPT ![p] = 0]
    BY <1>3 DEF EndPhase
  <1>4. QED  BY <1>1, <1>2, <1>3 DEF EndPhase

LEMMA EndPhaseType ==
  ASSUME TypeOK, NEW p \in Process, EndPhase(p)
  PROVE  TypeOK'
  <1>1. /\ pc' \in [Process -> Working \cup {"down", "lock", "unlock", "close"}]
        /\ left' \in [Process -> Nat] /\ nights' \in [Process -> Nat]
    <2>1. CASE NextPhase(p, "source", SourceLimit)
      BY <2>1, GotoType, LimitTypes DEF NextPhase, TypeOK, Working, Phases
    <2>2. CASE \E n \in 0..ScanLimit : NextPhase(p, "scan", n)
      BY <2>2, GotoType, LimitTypes DEF NextPhase, TypeOK, Working, Phases
    <2>3. CASE After(p, FALSE) /\ left' = [left EXCEPT ![p] = 0]
      BY <2>3, AfterType DEF TypeOK
    <2>4. QED  BY <2>1, <2>2, <2>3, PhaseEnds
  <1>2. UNCHANGED <<asked, current, used, today, crossed, locking, starts, faults>>
    BY PhaseEnds
  <1>3. QED  BY <1>1, <1>2 DEF TypeOK, locking

LEMMA SleepType ==
  ASSUME TypeOK, NEW p \in Process, SleepUntilNextUTCDay(p) \/ Wake(p) \/ Interrupt(p)
  PROVE  TypeOK'
  <1>1. /\ pc' \in [Process -> Working \cup {"down", "lock", "unlock", "close"}]
        /\ nights' \in [Process -> Nat]
    <2>1. CASE After(p, FALSE) \/ After(p, TRUE)
      BY <2>1, AfterType
    <2>2. CASE Goto(p, "reserve") /\ UNCHANGED nights
      BY <2>2, GotoType DEF TypeOK, Working
    <2>3. CASE Goto(p, "exhausted") /\ nights' = [nights EXCEPT ![p] = 1]
      BY <2>3, GotoType DEF TypeOK, Working, Sleeping
    <2>4. QED  BY <2>1, <2>2, <2>3 DEF SleepUntilNextUTCDay, Wake, Interrupt
  <1>2. UNCHANGED <<asked, current, used, left, today, crossed, locking, starts, faults>>
    BY DEF SleepUntilNextUTCDay, Wake, Interrupt
  <1>3. QED  BY <1>1, <1>2 DEF TypeOK, locking

LEMMA NextType ==
  ASSUME TypeOK, [Next]_vars
  PROVE  TypeOK'
  <1>1. CASE \E p \in Process : Advance(p)
    BY <1>1, LockType, ReserveType, SendType, EndPhaseType, SleepType DEF Advance
  <1>2. CASE \E p \in Process : Start(p) \/ Signal(p)
    BY <1>2, StartType
  <1>3. CASE \E p \in Process : SessionEnds(p) \/ Crash(p)
    BY <1>3, LockType
  <1>4. CASE Midnight
    BY <1>4, OptionTypes DEF Midnight, TypeOK, locking
  <1>5. CASE UNCHANGED vars
    BY <1>5 DEF vars, TypeOK, work, locking
  <1>6. QED  BY <1>1, <1>2, <1>3, <1>4, <1>5 DEF Next

\* The variables of the daemons keep their types.
THEOREM TypeCorrect == Spec => []TypeOK
  <1>1. QED  BY InitType, NextType, PTL DEF Spec

-----------------------------------------------------------------------------
(* The lock.                                                               *)

LEMMA StagesApart ==
  /\ {"down", "lock", "unlock", "close"} \cap Working = {}
  /\ Phases \subseteq Working /\ Sleeping \subseteq Working
  /\ {"reserve", "refused"} \subseteq Working
  /\ Phases \cap (Sleeping \cup {"reserve", "refused", "down", "lock", "unlock", "close"}) = {}
  BY DEF Working, Phases, Sleeping

\* a process at work that was at work before keeps what it had
LEMMA StillHeld ==
  ASSUME TypeOK, OneDaemon, NEW p \in Process, pc[p] \in Working,
         \A q \in Process \ {p} : pc'[q] = pc[q],
         UNCHANGED <<holder, severed>>
  PROVE  OneDaemon'
  BY DEF OneDaemon

\* a process that is not at work afterwards needs nothing
LEMMA NotAtWork ==
  ASSUME TypeOK, OneDaemon, NEW p \in Process, pc'[p] \notin Working,
         \A q \in Process \ {p} : pc'[q] = pc[q],
         holder' = holder \/ (holder = p /\ holder' = NoProcess),
         severed' \in {severed, severed \ {p}}
  PROVE  OneDaemon'
  BY DEF OneDaemon

LEMMA DownPlace ==
  ASSUME TypeOK, NEW p \in Process, Down(p)
  PROVE  /\ pc'[p] = "down" /\ severed' = severed \ {p}
         /\ \A q \in Process \ {p} : pc'[q] = pc[q]
  <1>1. Goto(p, "down") /\ severed' = severed \ {p}
    BY DEF Down
  <1>2. QED  BY <1>1, GotoType

LEMMA LockAcquired ==
  ASSUME TypeOK, OneDaemon, NEW p \in Process, AcquireLock(p)
  PROVE  OneDaemon'
  <1>1. CASE Down(p) /\ UNCHANGED holder
    BY <1>1, DownPlace, NotAtWork, StagesApart
  <1>2. CASE holder = NoProcess /\ holder' = p /\ Goto(p, "reserve") /\ severed' = severed
    <2>1. \A q \in Process \ {p} : pc'[q] = pc[q]
      BY <1>2, GotoType, StagesApart
    <2>2. \A q \in Process : q # NoProcess
      BY OptionsAssumption
    <2>3. QED  BY <1>2, <2>1, <2>2 DEF OneDaemon
  <1>3. QED  BY <1>1, <1>2 DEF AcquireLock, work

LEMMA LockReleased ==
  ASSUME TypeOK, OneDaemon, NEW p \in Process, Unlock(p) \/ Close(p) \/ Crash(p)
  PROVE  OneDaemon'
  <1>1. CASE Unlock(p)
    <2>1. Goto(p, "close") /\ severed' = severed
      BY <1>1 DEF Unlock
    <2>2. holder' = holder \/ (holder = p /\ holder' = NoProcess)
      BY <1>1 DEF Unlock, Freed
    <2>3. pc'[p] = "close" /\ \A q \in Process \ {p} : pc'[q] = pc[q]
      BY <2>1, GotoType
    <2>4. QED  BY <2>1, <2>2, <2>3, NotAtWork, StagesApart
  <1>2. CASE Close(p)
    <2>1. Down(p) /\ (holder' = holder \/ (holder = p /\ holder' = NoProcess))
      BY <1>2 DEF Close
    <2>2. QED  BY <2>1, DownPlace, NotAtWork, StagesApart
  <1>3. CASE Crash(p)
    <2>1. Down(p) /\ holder' = holder
      BY <1>3 DEF Crash
    <2>2. QED  BY <2>1, DownPlace, NotAtWork, StagesApart
  <1>4. QED  BY <1>1, <1>2, <1>3

LEMMA LockLost ==
  ASSUME TypeOK, OneDaemon, NEW p \in Process, SessionEnds(p)
  PROVE  OneDaemon'
  <1>1. holder = p /\ pc' = pc
    BY DEF SessionEnds
  <1>2. CASE Left(p) /\ severed' = severed
    BY <1>1, <1>2, StagesApart DEF Left, OneDaemon
  <1>3. CASE severed' = severed \cup {p}
    BY <1>1, <1>3 DEF OneDaemon
  <1>4. QED  BY <1>2, <1>3 DEF SessionEnds

LEMMA CycleKeepsLock ==
  ASSUME TypeOK, OneDaemon, NEW p \in Process,
         \/ Reserve(p) \/ Send(p) \/ EndPhase(p)
         \/ SleepUntilNextUTCDay(p) \/ Wake(p) \/ Interrupt(p)
  PROVE  OneDaemon'
  <1>1. CASE Reserve(p)
    <2>1. pc[p] \in Working /\ UNCHANGED <<holder, severed>>
      BY <1>1, StagesApart DEF Reserve, locking
    <2>2. Goto(p, "scrape") \/ Goto(p, "refused")
      BY <1>1 DEF Reserve
    <2>3. {"scrape", "refused"} \subseteq Working
      BY DEF Working, Phases
    <2>4. QED  BY <2>1, <2>2, <2>3, GotoType, StillHeld
  <1>2. CASE Send(p)
    BY <1>2 DEF Send, locking, OneDaemon
  <1>3. CASE EndPhase(p)
    <2>1. pc[p] \in Working /\ UNCHANGED <<holder, severed>>
      BY <1>3, PhaseEnds, StagesApart DEF locking
    <2>2. {"source", "scan"} \subseteq Working
      BY DEF Working, Phases
    <2>3. \/ Goto(p, "source") \/ Goto(p, "scan") \/ After(p, FALSE)
      BY <1>3, PhaseEnds DEF NextPhase
    <2>4. \A q \in Process \ {p} : pc'[q] = pc[q]
      BY <2>2, <2>3, GotoType, AfterType
    <2>5. QED  BY <2>1, <2>4, StillHeld
  <1>4. CASE SleepUntilNextUTCDay(p) \/ Wake(p) \/ Interrupt(p)
    <2>1. UNCHANGED <<holder, severed>>
      BY <1>4 DEF SleepUntilNextUTCDay, Wake, Interrupt, locking
    <2>2. pc[p] \in Working
      BY <1>4 DEF SleepUntilNextUTCDay, Wake, Interrupt, Interrupted, Working, Sleeping
    <2>3. After(p, FALSE) \/ After(p, TRUE) \/ Goto(p, "reserve") \/ Goto(p, "exhausted")
      BY <1>4 DEF SleepUntilNextUTCDay, Wake, Interrupt
    <2>4. \A q \in Process \ {p} : pc'[q] = pc[q]
      BY <2>3, GotoType, AfterType DEF Working, Sleeping
    <2>5. QED  BY <2>1, <2>2, <2>4, StillHeld
  <1>5. QED  BY <1>1, <1>2, <1>3, <1>4

LEMMA NextLock ==
  ASSUME TypeOK, OneDaemon, [Next]_vars
  PROVE  OneDaemon'
  <1>1. CASE \E p \in Process : Advance(p)
    BY <1>1, LockAcquired, LockReleased, CycleKeepsLock DEF Advance
  <1>2. CASE \E p \in Process : Start(p)
    <2>1. PICK p \in Process : Start(p)
      BY <1>2
    <2>2. Goto(p, "lock") /\ UNCHANGED <<holder, severed>>
      BY <2>1 DEF Start, locking
    <2>3. pc'[p] = "lock" /\ \A q \in Process \ {p} : pc'[q] = pc[q]
      BY <2>2, GotoType
    <2>4. QED  BY <2>2, <2>3, NotAtWork, StagesApart
  <1>3. CASE \E p \in Process : Signal(p)
    BY <1>3 DEF Signal, locking, OneDaemon
  <1>4. CASE \E p \in Process : SessionEnds(p) \/ Crash(p)
    BY <1>4, LockLost, LockReleased
  <1>5. CASE Midnight
    BY <1>5 DEF Midnight, locking, OneDaemon
  <1>6. CASE UNCHANGED vars
    BY <1>6 DEF vars, locking, OneDaemon
  <1>7. QED  BY <1>1, <1>2, <1>3, <1>4, <1>5, <1>6 DEF Next

\* Whatever processes start, crash, lose their sessions or unlock late, a process at
\* work holds the advisory lock unless the session of its own lock was lost.
THEOREM LockedAtWork == Spec => []OneDaemon
  <1>1. Init => OneDaemon
    BY StagesApart DEF Init, OneDaemon
  <1>2. TypeOK /\ OneDaemon /\ [Next]_vars => TypeOK' /\ OneDaemon'
    BY NextType, NextLock
  <1>3. QED  BY <1>1, <1>2, InitType, PTL DEF Spec

-----------------------------------------------------------------------------
(* The budget: what a process has spent today, with all that its cycle may *)
(* still spend, is within what it has charged to today and, when its cycle *)
(* was charged to the day before, one estimate more.                       *)

LeftBound(p) ==
  /\ pc[p] = "scrape" => left[p] <= 1 + MaxBlocks
  /\ pc[p] = "source" => left[p] <= SourceLimit
  /\ pc[p] = "scan" => left[p] <= ScanLimit

\* what the cycle may still spend
Due(p) ==
  IF pc[p] = "scrape"
  THEN left[p] * RPCCredits + SourceLimit * EnhancedCredits + ScanLimit * EnhancedCredits
  ELSE IF pc[p] = "source"
  THEN left[p] * EnhancedCredits + ScanLimit * EnhancedCredits
  ELSE IF pc[p] = "scan" THEN left[p] * EnhancedCredits ELSE 0

Carried(p) == IF crossed[p] THEN Estimate ELSE 0

Within(p) ==
  /\ used[p] <= Budget
  /\ LeftBound(p)
  /\ today[p] + Due(p) <= UsedToday(p) + Carried(p)

AllWithin == \A p \in Process : Within(p)

LEMMA Monotone ==
  ASSUME NEW a \in Nat, NEW b \in Nat, NEW c \in Nat, a <= b
  PROVE  a * c <= b * c
  <1>1. b - a \in Nat /\ b = a + (b - a)
    OBVIOUS
  <1>2. (b - a) * c \in Nat
    BY <1>1
  <1>3. b * c = a * c + (b - a) * c
    BY <1>1
  <1>4. a * c \in Nat /\ b * c \in Nat
    OBVIOUS
  <1> QED  BY <1>2, <1>3, <1>4

LEMMA DueBound ==
  ASSUME TypeOK, NEW p \in Process, LeftBound(p)
  PROVE  Due(p) \in Nat /\ Due(p) <= Estimate
  <1> DEFINE b == (1 + MaxBlocks) * RPCCredits
             s == SourceLimit * EnhancedCredits
             t == ScanLimit * EnhancedCredits
             l == left[p]
  <1>1. l \in Nat /\ l * RPCCredits \in Nat /\ l * EnhancedCredits \in Nat
    BY OptionTypes DEF TypeOK
  <1>2. b \in Nat /\ s \in Nat /\ t \in Nat /\ Estimate = b + s + t
    BY LimitTypes, EstimateParts
  <1>3. pc[p] = "scrape" => l * RPCCredits <= b
    BY <1>1, Monotone, OptionTypes DEF LeftBound
  <1>4. pc[p] = "source" => l * EnhancedCredits <= s
    BY <1>1, Monotone, LimitTypes, OptionTypes DEF LeftBound
  <1>5. pc[p] = "scan" => l * EnhancedCredits <= t
    BY <1>1, Monotone, LimitTypes, OptionTypes DEF LeftBound
  <1>6. Due(p) = IF pc[p] = "scrape" THEN l * RPCCredits + s + t
                 ELSE IF pc[p] = "source" THEN l * EnhancedCredits + t
                 ELSE IF pc[p] = "scan" THEN l * EnhancedCredits ELSE 0
    BY DEF Due
  <1> DEFINE lr == l * RPCCredits
             le == l * EnhancedCredits
  <1>7. Due(p) = IF pc[p] = "scrape" THEN lr + s + t
                 ELSE IF pc[p] = "source" THEN le + t
                 ELSE IF pc[p] = "scan" THEN le ELSE 0
    BY <1>6
  <1>8. /\ lr \in Nat /\ le \in Nat
        /\ pc[p] = "scrape" => lr <= b
        /\ pc[p] = "source" => le <= s
        /\ pc[p] = "scan" => le <= t
    BY <1>1, <1>3, <1>4, <1>5
  <1> HIDE DEF b, s, t, l, lr, le
  <1>9. QED  BY <1>2, <1>7, <1>8

\* outside the phases nothing is due
LEMMA NothingDue ==
  ASSUME NEW p \in Process
  PROVE  /\ pc[p] \notin Phases => LeftBound(p) /\ Due(p) = 0
         /\ pc'[p] \notin Phases => LeftBound(p)' /\ Due(p)' = 0
  BY DEF Phases, LeftBound, Due

\* what the step of another process leaves alone
LEMMA Untouched ==
  ASSUME NEW q \in Process, Within(q),
         pc'[q] = pc[q], left'[q] = left[q], current'[q] = current[q], used'[q] = used[q],
         today'[q] = today[q], crossed'[q] = crossed[q]
  PROVE  Within(q)'
  BY DEF Within, LeftBound, Due, UsedToday, Carried

\* a process between two places outside the phases
LEMMA StaysOutside ==
  ASSUME TypeOK, NEW p \in Process, Within(p), pc'[p] \notin Phases,
         current'[p] = current[p], used'[p] = used[p],
         today'[p] = today[p], crossed'[p] = crossed[p]
  PROVE  Within(p)'
  <1>1. Due(p)' = 0 /\ LeftBound(p)'
    BY NothingDue
  <1>2. Due(p) \in Nat
    BY DueBound DEF Within
  <1>3. UsedToday(p)' = UsedToday(p) /\ Carried(p)' = Carried(p)
    BY DEF UsedToday, Carried
  <1>4. today[p] \in Nat /\ UsedToday(p) \in Nat /\ Carried(p) \in Nat
    BY UsedType, EstimateParts DEF TypeOK, Carried
  <1>5. QED  BY <1>1, <1>2, <1>3, <1>4 DEF Within

LEMMA DownWithin ==
  ASSUME TypeOK, AllWithin, NEW p \in Process, Down(p)
  PROVE  AllWithin'
  <1>1. SUFFICES ASSUME NEW q \in Process PROVE Within(q)'
    BY DEF AllWithin
  <1>2. CASE q = p
    <2>1. pc'[p] = "down" /\ pc'[p] \notin Phases
      BY DownPlace, StagesApart
    <2>2. current'[p] = FALSE /\ used'[p] = 0 /\ today'[p] = 0 /\ crossed'[p] = FALSE
      BY DEF Down, TypeOK
    <2>3. Due(p)' = 0 /\ LeftBound(p)'
      BY <2>1, NothingDue
    <2>4. UsedToday(p)' = 0 /\ Carried(p)' = 0
      BY <2>2 DEF UsedToday, Carried
    <2>5. 0 <= Budget
      BY OptionTypes
    <2>6. QED  BY <1>2, <2>2, <2>3, <2>4, <2>5 DEF Within
  <1>3. CASE q # p
    <2>1. pc'[q] = pc[q]
      BY <1>3, DownPlace
    <2>2. /\ left'[q] = left[q] /\ current'[q] = current[q] /\ used'[q] = used[q]
          /\ today'[q] = today[q] /\ crossed'[q] = crossed[q]
      BY <1>3 DEF Down, TypeOK
    <2>3. QED  BY <2>1, <2>2, Untouched DEF AllWithin
  <1>4. QED  BY <1>2, <1>3

LEMMA LockWithin ==
  ASSUME TypeOK, AllWithin, NEW p \in Process,
         AcquireLock(p) \/ Unlock(p) \/ Close(p) \/ Crash(p) \/ SessionEnds(p)
  PROVE  AllWithin'
  <1>1. CASE Down(p)
    BY <1>1, DownWithin
  <1>2. CASE \E where \in {"reserve", "close"} : Goto(p, where) /\ UNCHANGED work
    <2>1. PICK where \in {"reserve", "close"} : Goto(p, where) /\ UNCHANGED work
      BY <1>2
    <2>2. where \notin Phases /\ where \in Working \cup {"down", "lock", "unlock", "close"}
      BY StagesApart
    <2>3. pc'[p] = where /\ \A q \in Process \ {p} : pc'[q] = pc[q]
      BY <2>1, <2>2, GotoType
    <2>4. UNCHANGED <<current, used, left, today, crossed>>
      BY <2>1 DEF work
    <2>5. Within(p)'
      BY <2>2, <2>3, <2>4, StaysOutside DEF AllWithin
    <2>6. \A q \in Process \ {p} : Within(q)'
      BY <2>3, <2>4, Untouched DEF AllWithin
    <2>7. QED  BY <2>5, <2>6 DEF AllWithin
  <1>3. CASE SessionEnds(p)
    BY <1>3, Untouched DEF SessionEnds, work, AllWithin
  <1>4. \/ Down(p)
        \/ \E where \in {"reserve", "close"} : Goto(p, where) /\ UNCHANGED work
        \/ SessionEnds(p)
    BY DEF AcquireLock, Unlock, Close, Crash, work
  <1>5. QED  BY <1>1, <1>2, <1>3, <1>4

LEMMA StartWithin ==
  ASSUME TypeOK, AllWithin, NEW p \in Process, Start(p) \/ Signal(p)
  PROVE  AllWithin'
  <1>1. CASE Start(p)
    <2>1. Goto(p, "lock") /\ UNCHANGED <<current, used, left, today, crossed>>
      BY <1>1 DEF Start
    <2>2. pc'[p] = "lock" /\ \A q \in Process \ {p} : pc'[q] = pc[q]
      BY <2>1, GotoType
    <2>3. Within(p)'
      BY <2>1, <2>2, StaysOutside, StagesApart DEF AllWithin
    <2>4. \A q \in Process \ {p} : Within(q)'
      BY <2>1, <2>2, Untouched DEF AllWithin
    <2>5. QED  BY <2>3, <2>4 DEF AllWithin
  <1>2. CASE Signal(p)
    BY <1>2, Untouched DEF Signal, AllWithin
  <1>3. QED  BY <1>1, <1>2

LEMMA ReserveWithin ==
  ASSUME TypeOK, AllWithin, NEW p \in Process, Reserve(p)
  PROVE  AllWithin'
  <1>1. UNCHANGED <<today, crossed>> /\ current'[p] = TRUE
    BY DEF Reserve, TypeOK
  <1>2. /\ Within(p) /\ today[p] \in Nat
        /\ UsedToday(p) \in Nat /\ Estimate \in Nat /\ Carried(p) \in Nat
    BY UsedType, EstimateParts DEF AllWithin, TypeOK, Carried
  <1>3. Due(p) = 0
    BY NothingDue DEF Reserve, Phases
  <1>4. Carried(p)' = Carried(p)
    BY <1>1 DEF Carried
  <1>5. UsedToday(p)' = used'[p]
    BY <1>1 DEF UsedToday
  <1>6. UsedToday(p) <= Budget
    BY <1>2, OptionTypes DEF Within, UsedToday
  <1>7. ASSUME Fits(p), used' = [used EXCEPT ![p] = UsedToday(p) + Estimate],
               left' = [left EXCEPT ![p] = 1 + Blocks], Goto(p, "scrape")
        PROVE  Within(p)'
    <2>1. pc'[p] = "scrape"
      BY <1>7, GotoType DEF Working, Phases
    <2>2. used'[p] = UsedToday(p) + Estimate /\ left'[p] = 1 + Blocks
      BY <1>7 DEF TypeOK
    <2>3. LeftBound(p)'
      BY <2>1, <2>2, OptionTypes DEF LeftBound
    <2>4. Due(p)' \in Nat /\ Due(p)' <= Estimate
      <3>1. TypeOK'
        BY ReserveType
      <3>2. /\ left'[p] \in Nat
            /\ left'[p] * RPCCredits \in Nat /\ left'[p] * RPCCredits <= (1 + MaxBlocks) * RPCCredits
        BY <2>2, OptionTypes, Monotone
      <3>3. Due(p)' = left'[p] * RPCCredits + SourceLimit * EnhancedCredits
                      + ScanLimit * EnhancedCredits
        BY <2>1 DEF Due
      <3> DEFINE l == left'[p] * RPCCredits
                 b == (1 + MaxBlocks) * RPCCredits
                 s == SourceLimit * EnhancedCredits
                 t == ScanLimit * EnhancedCredits
      <3>4. /\ l \in Nat /\ l <= b /\ b \in Nat /\ s \in Nat /\ t \in Nat
            /\ Due(p)' = l + s + t /\ Estimate = b + s + t
        BY <3>2, <3>3, LimitTypes, EstimateParts
      <3> HIDE DEF l, b, s, t
      <3>5. QED  BY <3>4
    <2>5. UsedToday(p) + Estimate <= Budget
      BY <1>7 DEF Fits
    <2>6. today[p] <= UsedToday(p) + Carried(p)
      BY <1>2, <1>3 DEF Within
    <2>7. today'[p] + Due(p)' <= UsedToday(p)' + Carried(p)'
      BY <1>1, <1>2, <1>4, <1>5, <2>2, <2>4, <2>6
    <2>8. QED  BY <2>2, <2>3, <2>5, <2>7 DEF Within
  <1>8. ASSUME used' = [used EXCEPT ![p] = UsedToday(p)], Goto(p, "refused")
        PROVE  Within(p)'
    <2>1. pc'[p] = "refused" /\ pc'[p] \notin Phases
      BY <1>8, GotoType, StagesApart
    <2>2. used'[p] = UsedToday(p)
      BY <1>8 DEF TypeOK
    <2>3. Due(p)' = 0 /\ LeftBound(p)'
      BY <2>1, NothingDue
    <2>4. today[p] <= UsedToday(p) + Carried(p)
      BY <1>2, <1>3 DEF Within
    <2>5. today'[p] + Due(p)' <= UsedToday(p)' + Carried(p)'
      BY <1>1, <1>2, <1>4, <1>5, <2>2, <2>3, <2>4
    <2>6. QED  BY <1>6, <2>2, <2>3, <2>5 DEF Within
  <1>9. Within(p)'
    BY <1>7, <1>8 DEF Reserve
  <1>10. ASSUME NEW q \in Process, q # p PROVE Within(q)'
    <2>1. \/ Goto(p, "scrape") /\ left' = [left EXCEPT ![p] = 1 + Blocks]
          \/ Goto(p, "refused") /\ UNCHANGED left
      BY DEF Reserve
    <2>2. pc'[q] = pc[q] /\ left'[q] = left[q]
      BY <1>10, <2>1, GotoType DEF Working, Phases, Sleeping, TypeOK
    <2>3. current'[q] = current[q] /\ used'[q] = used[q]
      BY <1>10 DEF Reserve, TypeOK
    <2>4. QED  BY <1>1, <2>2, <2>3, Untouched DEF AllWithin
  <1>11. QED  BY <1>9, <1>10 DEF AllWithin

\* a request moves its cost from what is due to what is spent
LEMMA SendWithin ==
  ASSUME TypeOK, AllWithin, NEW p \in Process, Send(p)
  PROVE  AllWithin'
  <1>1. /\ pc' = pc /\ UNCHANGED <<current, used, crossed>>
        /\ pc[p] \in Phases /\ left[p] \in Nat \ {0}
    BY DEF Send, TypeOK
  <1>2. left'[p] = left[p] - 1 /\ today'[p] = today[p] + Cost(p)
    BY DEF Send, TypeOK
  <1>3. Cost(p) \in Nat /\ today[p] \in Nat
    BY OptionTypes DEF Cost, TypeOK
  <1>4. LeftBound(p)'
    <2>1. LeftBound(p)
      BY DEF AllWithin, Within
    <2>2. QED  BY <1>1, <1>2, <2>1, OptionTypes, LimitTypes DEF LeftBound
  <1>5. Due(p) = Due(p)' + Cost(p) /\ Due(p)' \in Nat
    <2> DEFINE l == left[p] - 1
               s == SourceLimit * EnhancedCredits
               t == ScanLimit * EnhancedCredits
    <2>1. l \in Nat /\ left[p] = l + 1
      BY <1>1
    <2>2. \A c \in Nat : (l + 1) * c = l * c + c /\ l * c \in Nat
      <3> HIDE DEF l
      <3> QED  BY <2>1
    <2>3. s \in Nat /\ t \in Nat
      BY LimitTypes
    <2>4. CASE pc[p] = "scrape"
      <3>1. Due(p) = (l + 1) * RPCCredits + s + t /\ Cost(p) = RPCCredits
        BY <2>1, <2>4 DEF Due, Cost
      <3>2. Due(p)' = l * RPCCredits + s + t
        BY <1>1, <1>2, <2>4 DEF Due
      <3> DEFINE lc == l * RPCCredits
      <3>3. (l + 1) * RPCCredits = lc + RPCCredits /\ lc \in Nat
        BY <2>2, OptionTypes
      <3>4. Due(p) = lc + RPCCredits + s + t /\ Due(p)' = lc + s + t
        BY <3>1, <3>2, <3>3
      <3> HIDE DEF l, s, t, lc
      <3>5. QED  BY <2>3, <3>1, <3>3, <3>4, OptionTypes
    <2>5. CASE pc[p] = "source"
      <3>1. Due(p) = (l + 1) * EnhancedCredits + t /\ Cost(p) = EnhancedCredits
        BY <2>1, <2>5 DEF Due, Cost
      <3>2. Due(p)' = l * EnhancedCredits + t
        BY <1>1, <1>2, <2>5 DEF Due
      <3> DEFINE lc == l * EnhancedCredits
      <3>3. (l + 1) * EnhancedCredits = lc + EnhancedCredits /\ lc \in Nat
        BY <2>2, OptionTypes
      <3>4. Due(p) = lc + EnhancedCredits + t /\ Due(p)' = lc + t
        BY <3>1, <3>2, <3>3
      <3> HIDE DEF l, s, t, lc
      <3>5. QED  BY <2>3, <3>1, <3>3, <3>4, OptionTypes
    <2>6. CASE pc[p] = "scan"
      <3>1. Due(p) = (l + 1) * EnhancedCredits /\ Cost(p) = EnhancedCredits
        BY <2>1, <2>6 DEF Due, Cost
      <3>2. Due(p)' = l * EnhancedCredits
        BY <1>1, <1>2, <2>6 DEF Due
      <3> HIDE DEF l
      <3>3. QED  BY <2>2, <3>1, <3>2, OptionTypes
    <2>7. QED  BY <1>1, <2>4, <2>5, <2>6 DEF Phases
  <1>6. Within(p)'
    <2>1. UsedToday(p)' = UsedToday(p) /\ Carried(p)' = Carried(p)
      BY <1>1 DEF UsedToday, Carried
    <2>2. UsedToday(p) \in Nat /\ Carried(p) \in Nat
      BY UsedType, EstimateParts DEF Carried
    <2>3. today[p] + Due(p) <= UsedToday(p) + Carried(p)
      BY DEF AllWithin, Within
    <2>4. today'[p] + Due(p)' <= UsedToday(p)' + Carried(p)'
      BY <1>2, <1>3, <1>5, <2>1, <2>2, <2>3
    <2>5. used'[p] <= Budget
      BY <1>1 DEF AllWithin, Within
    <2>6. QED  BY <1>4, <2>4, <2>5 DEF Within
  <1>7. ASSUME NEW q \in Process, q # p PROVE Within(q)'
    <2>1. left'[q] = left[q] /\ today'[q] = today[q]
      BY <1>7 DEF Send, TypeOK
    <2>2. QED  BY <1>1, <2>1, Untouched DEF AllWithin
  <1>8. QED  BY <1>6, <1>7 DEF AllWithin

\* the next phase has no more due than the phase before
LEMMA NextPhaseWithin ==
  ASSUME TypeOK, AllWithin, NEW p \in Process, NEW n \in Nat,
         UNCHANGED <<current, used, today, crossed>>,
         \/ pc[p] = "scrape" /\ NextPhase(p, "source", n) /\ n <= SourceLimit
         \/ pc[p] = "source" /\ NextPhase(p, "scan", n) /\ n <= ScanLimit
  PROVE  AllWithin'
  <1>1. {"source", "scan"} \subseteq Working
    BY DEF Working, Phases
  <1>2. left' = [left EXCEPT ![p] = n] /\ (Goto(p, "source") \/ Goto(p, "scan"))
    BY DEF NextPhase
  <1>3. left'[p] = n /\ \A q \in Process \ {p} : left'[q] = left[q] /\ pc'[q] = pc[q]
    BY <1>1, <1>2, GotoType DEF TypeOK
  <1>4. \A q \in Process \ {p} : Within(q)'
    BY <1>3, Untouched DEF AllWithin
  <1>5. LeftBound(p)' /\ Due(p)' \in Nat /\ Due(p) \in Nat /\ Due(p)' <= Due(p)
    <2>1. Due(p) \in Nat
      BY DueBound DEF AllWithin, Within
    <2> DEFINE c == n * EnhancedCredits
               s == SourceLimit * EnhancedCredits
               t == ScanLimit * EnhancedCredits
               l == left[p] * RPCCredits
               e == left[p] * EnhancedCredits
    <2>2. c \in Nat /\ s \in Nat /\ t \in Nat /\ l \in Nat /\ e \in Nat
      BY OptionTypes, LimitTypes DEF TypeOK
    <2>3. CASE pc[p] = "scrape" /\ NextPhase(p, "source", n) /\ n <= SourceLimit
      <3>1. pc'[p] = "source"
        BY <1>1, <2>3, GotoType DEF NextPhase
      <3>2. Due(p) = l + s + t /\ Due(p)' = c + t
        BY <1>3, <2>3, <3>1 DEF Due
      <3>3. c <= s
        BY <2>3, LimitTypes, OptionTypes, Monotone
      <3>4. LeftBound(p)'
        BY <1>3, <2>3, <3>1 DEF LeftBound
      <3> HIDE DEF c, s, t, l, e
      <3>5. QED  BY <2>1, <2>2, <3>2, <3>3, <3>4
    <2>4. CASE pc[p] = "source" /\ NextPhase(p, "scan", n) /\ n <= ScanLimit
      <3>1. pc'[p] = "scan"
        BY <1>1, <2>4, GotoType DEF NextPhase
      <3>2. Due(p) = e + t /\ Due(p)' = c
        BY <1>3, <2>4, <3>1 DEF Due
      <3>3. c <= t
        BY <2>4, LimitTypes, OptionTypes, Monotone
      <3>4. LeftBound(p)'
        BY <1>3, <2>4, <3>1 DEF LeftBound
      <3> HIDE DEF c, s, t, l, e
      <3>5. QED  BY <2>1, <2>2, <3>2, <3>3, <3>4
    <2>5. QED  BY <2>3, <2>4
  <1>6. UsedToday(p)' = UsedToday(p) /\ Carried(p)' = Carried(p)
    BY DEF UsedToday, Carried
  <1>7. today[p] \in Nat /\ UsedToday(p) \in Nat /\ Carried(p) \in Nat
    BY UsedType, EstimateParts DEF TypeOK, Carried
  <1>8. Within(p)
    BY DEF AllWithin
  <1>9. Within(p)'
    BY <1>5, <1>6, <1>7, <1>8 DEF Within
  <1>10. QED  BY <1>4, <1>9 DEF AllWithin

\* a process that leaves the cycle, or sleeps, or wakes
LEMMA OutsideWithin ==
  ASSUME TypeOK, AllWithin, NEW p \in Process,
         UNCHANGED <<current, used, today, crossed>>,
         \A q \in Process \ {p} : left'[q] = left[q],
         After(p, FALSE) \/ After(p, TRUE) \/ Goto(p, "reserve") \/ Goto(p, "exhausted")
  PROVE  AllWithin'
  <1>1. /\ pc'[p] \in {"unlock", "pause", "reserve", "exhausted"}
        /\ \A q \in Process \ {p} : pc'[q] = pc[q]
    BY AfterType, GotoType DEF Working, Sleeping
  <1>2. pc'[p] \notin Phases
    BY <1>1 DEF Phases
  <1>3. Within(p)'
    BY <1>2, StaysOutside DEF AllWithin
  <1>4. \A q \in Process \ {p} : Within(q)'
    BY <1>1, Untouched DEF AllWithin
  <1>5. QED  BY <1>3, <1>4 DEF AllWithin

LEMMA EndPhaseWithin ==
  ASSUME TypeOK, AllWithin, NEW p \in Process, EndPhase(p)
  PROVE  AllWithin'
  <1>1. UNCHANGED <<current, used, today, crossed>>
    BY PhaseEnds
  <1>2. CASE pc[p] = "scrape" /\ NextPhase(p, "source", SourceLimit)
    BY <1>1, <1>2, NextPhaseWithin, LimitTypes
  <1>3. CASE pc[p] = "source" /\ \E n \in 0..ScanLimit : NextPhase(p, "scan", n)
    BY <1>1, <1>3, NextPhaseWithin, LimitTypes
  <1>4. CASE After(p, FALSE) /\ left' = [left EXCEPT ![p] = 0]
    <2>1. \A q \in Process \ {p} : left'[q] = left[q]
      BY <1>4 DEF TypeOK
    <2>2. QED  BY <1>1, <1>4, <2>1, OutsideWithin
  <1>5. QED  BY <1>2, <1>3, <1>4, PhaseEnds

LEMMA SleepWithin ==
  ASSUME TypeOK, AllWithin, NEW p \in Process,
         SleepUntilNextUTCDay(p) \/ Wake(p) \/ Interrupt(p)
  PROVE  AllWithin'
  <1>1. UNCHANGED <<current, used, left, today, crossed>>
    BY DEF SleepUntilNextUTCDay, Wake, Interrupt
  <1>2. After(p, FALSE) \/ After(p, TRUE) \/ Goto(p, "reserve") \/ Goto(p, "exhausted")
    BY DEF SleepUntilNextUTCDay, Wake, Interrupt
  <1>3. QED  BY <1>1, <1>2, OutsideWithin

\* at midnight a cycle under way was charged in full to the day that ends
LEMMA MidnightWithin ==
  ASSUME TypeOK, AllWithin, Midnight
  PROVE  AllWithin'
  <1>1. SUFFICES ASSUME NEW p \in Process PROVE Within(p)'
    BY DEF AllWithin
  <1>2. /\ current'[p] = FALSE /\ today'[p] = 0 /\ crossed'[p] = (pc[p] \in Phases)
        /\ UNCHANGED <<pc, used, left>>
    BY DEF Midnight
  <1>3. Within(p)
    BY DEF AllWithin
  <1>4. Due(p) \in Nat /\ Due(p) <= Estimate /\ Estimate \in Nat
    BY <1>3, DueBound, EstimateParts DEF Within
  <1>5. Due(p)' = Due(p) /\ LeftBound(p)'
    BY <1>2, <1>3 DEF Due, LeftBound, Within
  <1>6. used'[p] <= Budget
    BY <1>2, <1>3 DEF Within
  <1>7. UsedToday(p)' = 0
    BY <1>2 DEF UsedToday
  <1>8. Due(p) <= Carried(p)' /\ Carried(p)' \in Nat
    <2>1. CASE pc[p] \in Phases
      BY <1>2, <1>4, <2>1 DEF Carried
    <2>2. CASE pc[p] \notin Phases
      BY <1>2, <1>4, <2>2, NothingDue DEF Carried
    <2>3. QED  BY <2>1, <2>2
  <1>9. today'[p] + Due(p)' <= UsedToday(p)' + Carried(p)'
    BY <1>2, <1>4, <1>5, <1>7, <1>8
  <1>10. QED  BY <1>2, <1>3, <1>5, <1>6, <1>9 DEF Within

LEMMA NextWithin ==
  ASSUME TypeOK, AllWithin, [Next]_vars
  PROVE  AllWithin'
  <1>1. CASE \E p \in Process : Advance(p)
    BY <1>1, LockWithin, ReserveWithin, SendWithin, EndPhaseWithin, SleepWithin DEF Advance
  <1>2. CASE \E p \in Process : Start(p) \/ Signal(p)
    BY <1>2, StartWithin
  <1>3. CASE \E p \in Process : SessionEnds(p) \/ Crash(p)
    BY <1>3, LockWithin
  <1>4. CASE Midnight
    BY <1>4, MidnightWithin
  <1>5. CASE UNCHANGED vars
    BY <1>5, Untouched DEF vars, work, AllWithin
  <1>6. QED  BY <1>1, <1>2, <1>3, <1>4, <1>5 DEF Next

LEMMA InitWithin == Init => AllWithin
  <1> SUFFICES ASSUME Init, NEW p \in Process PROVE Within(p)
    BY DEF AllWithin
  <1>1. pc[p] \notin Phases /\ used[p] = 0 /\ today[p] = 0
    BY DEF Init, Phases
  <1>2. Due(p) = 0 /\ LeftBound(p)
    BY <1>1, NothingDue
  <1>3. UsedToday(p) = 0 /\ Carried(p) = 0
    BY DEF Init, UsedToday, Carried
  <1>4. QED  BY <1>1, <1>2, <1>3, OptionTypes DEF Within

\* A process spends no more credits in a day than its budget, and one estimate more when
\* a cycle charged to the day before was under way at midnight: Reserve charges the whole
\* cycle before its first request.
THEOREM BudgetKept == Spec => []DayWithinBudget
  <1>1. TypeOK /\ AllWithin => DayWithinBudget
    <2> SUFFICES ASSUME TypeOK, AllWithin, NEW p \in Process
                 PROVE  today[p] <= Budget + (IF crossed[p] THEN Estimate ELSE 0)
      BY DEF DayWithinBudget
    <2>1. Within(p) /\ today[p] \in Nat /\ Due(p) \in Nat
      BY DueBound DEF AllWithin, Within, TypeOK
    <2>2. UsedToday(p) \in Nat /\ UsedToday(p) <= Budget /\ Budget \in Nat
      BY <2>1, UsedType, OptionTypes DEF Within, UsedToday
    <2>3. Carried(p) \in Nat
      BY EstimateParts DEF Carried
    <2>4. today[p] <= Budget + Carried(p)
      BY <2>1, <2>2, <2>3 DEF Within
    <2>5. QED  BY <2>4 DEF Carried
  <1>2. TypeOK /\ AllWithin /\ [Next]_vars => TypeOK' /\ AllWithin'
    BY NextType, NextWithin
  <1>3. QED  BY <1>1, <1>2, InitType, InitWithin, PTL DEF Spec
=============================================================================
