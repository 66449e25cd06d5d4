-------------------------- MODULE WalletLock_proofs --------------------------
(***************************************************************************)
(* Theorems about WalletLock, for every set of calls and all durations     *)
(* with 3 * Lag < Slack.                                                   *)
(***************************************************************************)
EXTENDS WalletLock, TLAPS

-----------------------------------------------------------------------------
(* The invariant: what each phase of a call knows about the lock.          *)

\* acquired_until is counted from a time that is not before the wallet context
Stamped(c) ==
  /\ stamp[c] <= now
  /\ pc[c] = "idle" => acquire[c] = "none"
  /\ pc[c] \in Bounded => acquire[c] = "granted"
  /\ pc[c] = "acquiring" /\ acquire[c] = "sent" => due[c] <= now + WalletSyncTimeout
  /\ pc[c] = "acquiring" /\ acquire[c] \in {"begun", "granted"} =>
       due[c] <= stamp[c] + WalletSyncTimeout

\* only a call that is releasing, or has been, deletes its row
Deletes(c) == delete[c] => pc[c] \in {"releasing", "abandoning", "over"}

\* the row of call c is what its acquisition wrote
Wrote(c) == lock.token = c => acquire[c] = "granted" /\ lock.until = stamp[c] + TTL

MayWork(c) == pc[c] = "acquiring" /\ acquire[c] = "granted" /\ now < due[c]

\* a call that may yet work, works, finalizes or releases has the row, and the rest
\* of its time to live covers what is still to come
Covered(c) ==
  /\ MayWork(c) => lock.token = c
  /\ pc[c] = "working" => /\ lock.token = c
                          /\ now <= due[c] + Lag
                          /\ due[c] + Tail <= lock.until
  /\ pc[c] = "finalizing" => /\ lock.token = c
                             /\ now <= due[c] + Lag
                             /\ due[c] + ReleaseTimeout + Slack <= lock.until + Lag
  /\ Unreleased(c) => /\ lock.token = c
                      /\ now <= due[c] + Lag
                      /\ due[c] + Slack <= lock.until + 2 * Lag

CallInv(c) == Stamped(c) /\ Deletes(c) /\ Wrote(c) /\ Covered(c)

IInv == TypeOK /\ \A c \in Call : CallInv(c)

LEMMA Durations ==
  /\ WalletSyncTimeout \in Nat /\ FinalizeTimeout \in Nat /\ ReleaseTimeout \in Nat
  /\ Slack \in Nat /\ Lag \in Nat /\ Tail \in Nat /\ TTL \in Nat
  /\ 3 * Lag < Slack
  BY DurationAssumption DEF Tail, TTL

LEMMA InitInv == Init => IInv
  <1>1. Init => TypeOK
    BY DEF Init, TypeOK, NoLock
  <1>2. ASSUME Init, NEW c \in Call PROVE CallInv(c)
    BY <1>2, NoCallAssumption
    DEF Init, NoLock, CallInv, Stamped, Deletes, Wrote, Covered, MayWork, Unreleased, Bounded
  <1>3. QED  BY <1>1, <1>2 DEF IInv

LEMMA NextType ==
  ASSUME TypeOK, [Next]_vars
  PROVE  TypeOK'
  <1>. USE Durations DEF TypeOK, Goto, Bounded
  <1>1. CASE Tick  BY <1>1 DEF Tick
  <1>2. ASSUME NEW c \in Call, Step(c) PROVE TypeOK'
    <2>1. CASE Start(c)  BY <2>1 DEF Start
    <2>2. CASE Work(c)  BY <2>2 DEF Work
    <2>3. CASE GiveUp(c)  BY <2>3 DEF GiveUp
    <2>4. CASE Finalize(c)  BY <2>4 DEF Finalize
    <2>5. CASE Release(c)  BY <2>5 DEF Release, DeferredRelease
    <2>6. CASE Abandon(c)  BY <2>6 DEF Abandon, DeferredRelease
    <2>7. CASE Return(c)  BY <2>7 DEF Return
    <2>8. CASE Crash(c)  BY <2>8 DEF Crash
    <2>9. CASE BeginAcquire(c)  BY <2>9 DEF BeginAcquire
    <2>10. CASE CommitAcquire(c)  BY <2>10 DEF CommitAcquire
    <2>11. CASE CommitDelete(c)  BY <2>11 DEF CommitDelete, NoLock
    <2>12. CASE LoseAcquire(c)  BY <2>12 DEF LoseAcquire
    <2>13. CASE LoseDelete(c)  BY <2>13 DEF LoseDelete
    <2>14. QED
      BY <1>2, <2>1, <2>2, <2>3, <2>4, <2>5, <2>6, <2>7, <2>8, <2>9, <2>10, <2>11,
         <2>12, <2>13
      DEF Step
  <1>3. CASE UNCHANGED vars  BY <1>3 DEF vars
  <1>4. QED  BY <1>1, <1>2, <1>3 DEF Next

\* a call that has the row covered has one that has not run out
LEMMA Unexpired ==
  ASSUME IInv, NEW c \in Call, c \in Inside \/ Unreleased(c) \/ MayWork(c)
  PROVE  HasLock(c)
  <1>. USE Durations
       DEF IInv, TypeOK, CallInv, Covered, Stamped, Wrote, Tail, TTL, HasLock
  <1>1. CASE c \in Inside
    BY <1>1 DEF Inside
  <1>2. CASE Unreleased(c)
    BY <1>2
  <1>3. CASE MayWork(c)
    BY <1>3 DEF MayWork
  <1>4. QED  BY <1>1, <1>2, <1>3

\* what the step of another call leaves alone
LEMMA OthersInv ==
  ASSUME IInv, NEW c \in Call, Step(c), NEW d \in Call \ {c}
  PROVE  CallInv(d)'
  <1>1. /\ pc'[d] = pc[d] /\ due'[d] = due[d] /\ acquire'[d] = acquire[d]
        /\ stamp'[d] = stamp[d] /\ delete'[d] = delete[d] /\ now' = now
    BY DEF IInv, TypeOK, Goto, Step, Start, Work, GiveUp, Finalize, Release,
           DeferredRelease, Abandon, Return, Crash, BeginAcquire, CommitAcquire,
           CommitDelete, LoseAcquire, LoseDelete
  <1>2. (Stamped(d) /\ Deletes(d))'
    BY <1>1 DEF IInv, CallInv, Stamped, Deletes
  <1>3. \/ lock' = lock
        \/ CommitAcquire(c) /\ Free(c) /\ lock'.token = c
        \/ CommitDelete(c) /\ OwnToken(c) /\ lock' = NoLock
    BY DEF Step, Start, Work, GiveUp, Finalize, Release, DeferredRelease, Abandon,
           Return, Crash, BeginAcquire, CommitAcquire, CommitDelete, LoseAcquire,
           LoseDelete
  <1>4. CASE lock' = lock
    BY <1>1, <1>2, <1>4 DEF IInv, CallInv, Wrote, Covered, MayWork, Unreleased
  <1>5. CASE lock' # lock
    <2>1. ~HasLock(d)
      BY <1>3, <1>5, NoCallAssumption
      DEF HasLock, IInv, TypeOK, CallInv, Stamped, Free, OwnToken
    <2>2. /\ d \notin Inside
          /\ ~Unreleased(d)
          /\ ~MayWork(d)
      BY <2>1, Unexpired
    <2>3. lock'.token # d
      BY <1>3, <1>5, NoCallAssumption DEF NoLock
    <2>4. QED
      BY <1>1, <1>2, <2>2, <2>3
      DEF CallInv, Wrote, Covered, MayWork, Unreleased, Inside
  <1>6. QED  BY <1>4, <1>5

\* what a step makes of its own call
LEMMA OwnInv ==
  ASSUME IInv, NEW c \in Call, Step(c)
  PROVE  CallInv(c)'
  <1>. USE Durations, NoCallAssumption
       DEF IInv, TypeOK, CallInv, Stamped, Deletes, Wrote, Covered, MayWork,
           Unreleased, Bounded, Goto
  <1>1. CASE Start(c)  BY <1>1 DEF Start
  <1>2. CASE Work(c)
    <2>1. /\ lock.token = c /\ now < due[c] /\ due[c] + Tail <= lock.until
      BY <1>2 DEF Work, TTL
    <2>2. QED  BY <1>2, <2>1 DEF Work
  <1>3. CASE GiveUp(c)  BY <1>3 DEF GiveUp
  <1>4. CASE Finalize(c)  BY <1>4 DEF Finalize, Tail
  <1>5. CASE Release(c)
    <2>1. CASE pc[c] = "working"
      BY <1>5, <2>1 DEF Release, DeferredRelease, Tail
    <2>2. CASE pc[c] = "finalizing"
      BY <1>5, <2>2 DEF Release, DeferredRelease
    <2>3. QED  BY <1>5, <2>1, <2>2 DEF Release
  <1>6. CASE Abandon(c)  BY <1>6 DEF Abandon, DeferredRelease
  <1>7. CASE Return(c)  BY <1>7 DEF Return
  <1>8. CASE Crash(c)  BY <1>8 DEF Crash
  <1>9. CASE BeginAcquire(c)  BY <1>9 DEF BeginAcquire
  <1>10. CASE CommitAcquire(c)
    <2>1. CASE Free(c)  BY <1>10, <2>1 DEF CommitAcquire
    <2>2. CASE ~Free(c)  BY <1>10, <2>2 DEF CommitAcquire
    <2>3. QED  BY <2>1, <2>2
  <1>11. CASE CommitDelete(c)
    <2>1. CASE OwnToken(c)  BY <1>11, <2>1 DEF CommitDelete, NoLock
    <2>2. CASE ~OwnToken(c)  BY <1>11, <2>2 DEF CommitDelete
    <2>3. QED  BY <2>1, <2>2
  <1>12. CASE LoseAcquire(c)  BY <1>12 DEF LoseAcquire
  <1>13. CASE LoseDelete(c)  BY <1>13 DEF LoseDelete
  <1>14. QED
    BY <1>1, <1>2, <1>3, <1>4, <1>5, <1>6, <1>7, <1>8, <1>9, <1>10, <1>11, <1>12,
       <1>13
    DEF Step

LEMMA NextInv ==
  ASSUME IInv, [Next]_vars
  PROVE  IInv'
  <1>1. TypeOK'
    BY NextType DEF IInv
  <1>2. ASSUME NEW c \in Call, Step(c), NEW d \in Call PROVE CallInv(d)'
    BY <1>2, OthersInv, OwnInv
  <1>3. ASSUME Tick, NEW d \in Call PROVE CallInv(d)'
    BY <1>3, Durations
    DEF Tick, Bounded, IInv, TypeOK, CallInv, Stamped, Deletes, Wrote, Covered,
        MayWork, Unreleased
  <1>4. ASSUME UNCHANGED vars, NEW d \in Call PROVE CallInv(d)'
    BY <1>4
    DEF vars, IInv, CallInv, Stamped, Deletes, Wrote, Covered, MayWork, Unreleased
  <1>5. QED  BY <1>1, <1>2, <1>3, <1>4 DEF IInv, Next

THEOREM Invariant == Spec => []IInv
  BY InitInv, NextInv, PTL DEF Spec

\* The clock, the row and the phases keep their types (TypeOK).
THEOREM LockTypes == Spec => []TypeOK
  <1>1. IInv => TypeOK  BY DEF IInv
  <1>2. QED  BY <1>1, Invariant, PTL

\* The time to live of the wallet lock outlasts the wallet timeout and both
\* deferred contexts of the call that took it (LockCoversCall).
THEOREM CoversCall == Spec => []LockCoversCall
  <1>1. IInv => LockCoversCall
    BY Unexpired DEF LockCoversCall
  <1>2. QED  BY <1>1, Invariant, PTL

-----------------------------------------------------------------------------
(* The refinement.                                                         *)

LEMMA OneInside ==
  ASSUME IInv, NEW c \in Inside, NEW d \in Inside
  PROVE  c = d
  BY Unexpired DEF Inside, HasLock

LEMMA StepRefines ==
  ASSUME IInv, NEW c \in Call, Step(c)
  PROVE  [Mutex!Next]_<<Inside, Left>>
  <1>. USE DEF IInv, TypeOK, Goto, Inside, Left
  <1>1. CASE Work(c)
    <2>1. Inside = {}
      <3>1. ASSUME NEW d \in Inside PROVE FALSE
        BY <1>1, <3>1, Unexpired DEF Work, HasLock, MayWork
      <3>2. QED  BY <3>1
    <2>2. c \notin Left /\ Inside' = {c} /\ Left' = Left
      BY <1>1, <2>1 DEF Work
    <2>3. Mutex!Enter(c)
      BY <2>1, <2>2 DEF Mutex!Enter
    <2>4. QED  BY <2>3 DEF Mutex!Next
  <1>2. ASSUME c \in Inside, pc' = [pc EXCEPT ![c] = pc'[c]],
               pc'[c] \in {"releasing", "over"}
        PROVE  Mutex!Next
    <2>1. Inside = {c}
      BY <1>2, OneInside
    <2>2. Inside' = {} /\ Left' = Left \cup {c}
      BY <1>2, <2>1
    <2>3. Mutex!Leave(c)
      BY <1>2, <2>2 DEF Mutex!Leave
    <2>4. QED  BY <2>3 DEF Mutex!Next
  <1>3. ASSUME pc[c] = "acquiring", pc' = [pc EXCEPT ![c] = pc'[c]],
               pc'[c] \in {"abandoning", "over"}
        PROVE  Mutex!Next
    <2>1. c \notin Inside \cup Left /\ Inside' = Inside /\ Left' = Left \cup {c}
      BY <1>3
    <2>2. Mutex!GiveUp(c)
      BY <2>1 DEF Mutex!GiveUp
    <2>3. QED  BY <2>2 DEF Mutex!Next
  <1>4. ASSUME pc' = [pc EXCEPT ![c] = pc'[c]],
               c \in Inside <=> pc'[c] \in {"working", "finalizing"},
               c \in Left <=> pc'[c] \in {"releasing", "abandoning", "over"}
        PROVE  UNCHANGED <<Inside, Left>>
    BY <1>4
  <1>5. CASE Release(c)
    BY <1>2, <1>5 DEF Release, DeferredRelease
  <1>6. CASE GiveUp(c) \/ Abandon(c)
    BY <1>3, <1>6 DEF GiveUp, Abandon, DeferredRelease
  <1>7. CASE Crash(c)
    <2>1. CASE c \in Inside
      BY <1>2, <1>7, <2>1 DEF Crash
    <2>2. CASE pc[c] = "acquiring"
      BY <1>3, <1>7, <2>2 DEF Crash
    <2>3. CASE pc[c] \in {"releasing", "abandoning"}
      BY <1>4, <1>7, <2>3 DEF Crash
    <2>4. QED  BY <1>7, <2>1, <2>2, <2>3 DEF Crash, Bounded
  <1>8. CASE Start(c) \/ Finalize(c) \/ Return(c)
    BY <1>4, <1>8 DEF Start, Finalize, Return
  <1>9. CASE UNCHANGED pc
    BY <1>9
  <1>10. QED
    BY <1>1, <1>5, <1>6, <1>7, <1>8, <1>9
    DEF Step, BeginAcquire, CommitAcquire, CommitDelete, LoseAcquire, LoseDelete

\* The wallet lock implements a mutex over the calls that work or finalize.
THEOREM LockIsMutex == Spec => ImplementsMutex
  <1>1. Init => Mutex!Init
    BY DEF Init, Mutex!Init, Inside, Left
  <1>2. IInv /\ [Next]_vars => [Mutex!Next]_<<Inside, Left>>
    <2>1. SUFFICES ASSUME IInv, [Next]_vars PROVE [Mutex!Next]_<<Inside, Left>>
      OBVIOUS
    <2>2. ASSUME UNCHANGED pc PROVE UNCHANGED <<Inside, Left>>
      BY <2>2 DEF Inside, Left
    <2>3. QED  BY <2>1, <2>2, StepRefines DEF Next, Tick, vars
  <1>3. QED  BY <1>1, <1>2, Invariant, PTL DEF Spec, ImplementsMutex, Mutex!Spec
=============================================================================
