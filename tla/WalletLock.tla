----------------------------- MODULE WalletLock -----------------------------
(***************************************************************************)
(* The wallet_locks row of one wallet and the calls of runWallet that      *)
(* compete for it (internal/pipeline/orchestrator.go; AcquireWalletLock    *)
(* and ReleaseWalletLock in internal/storage/postgres_repository.go; the   *)
(* durations of internal/pipeline/runtime_timing.go).                      *)
(*                                                                         *)
(* Time is discrete and the same for the callers and the database: only    *)
(* durations are compared, never the readings of two clocks.  A statement  *)
(* is sent, begins (its NOW() is stamped), takes effect and is answered in *)
(* separate steps; the caller may stop waiting, or die, before any of      *)
(* them, and the statement may take effect all the same.                   *)
(*                                                                         *)
(* What a call does between its acquisition and its release is one phase   *)
(* "working", bounded by the wallet context, and one phase "finalizing",   *)
(* bounded by the context of the deferred finalization.  Lag bounds how    *)
(* long a call goes on once its context is over.                           *)
(***************************************************************************)
EXTENDS Integers

CONSTANTS
  Call,                \* calls of runWallet, each with a token of its own
  NoCall,              \* no row
  WalletSyncTimeout,   \* the timeout of the wallet context
  FinalizeTimeout,     \* walletFinalizeTimeoutSeconds
  ReleaseTimeout,      \* walletLockReleaseTimeoutSecs
  Slack,               \* what walletLockTTLTailSeconds adds to these two
  Lag,                 \* from the end of a context to the return of a call
  MaxTime              \* bound on the clock

ASSUME DurationAssumption ==
  /\ {WalletSyncTimeout, FinalizeTimeout, ReleaseTimeout, Slack, Lag} \subseteq Nat
  /\ MaxTime \in Nat
  /\ 3 * Lag < Slack
ASSUME NoCallAssumption == NoCall \notin Call

VARIABLES
  now,       \* the time
  lock,      \* the row of wallet_locks: holder_token and acquired_until
  pc,        \* where each call is
  due,       \* when the context it runs under ends
  acquire,   \* the state of its INSERT ... ON CONFLICT
  stamp,     \* the NOW() of that statement
  delete     \* its DELETE is on its way to the database

vars == <<now, lock, pc, due, acquire, stamp, delete>>

NoLock == [token |-> NoCall, until |-> 0]

\* slip: the time to live covers the finalization and not the release
TailToFinalization == FinalizeTimeout
Tail == FinalizeTimeout + ReleaseTimeout + Slack
TTL == WalletSyncTimeout + Tail

Init ==
  /\ now = 0
  /\ lock = NoLock
  /\ pc = [c \in Call |-> "idle"]
  /\ due = [c \in Call |-> 0]
  /\ acquire = [c \in Call |-> "none"]
  /\ stamp = [c \in Call |-> 0]
  /\ delete = [c \in Call |-> FALSE]

Goto(c, where) == pc' = [pc EXCEPT ![c] = where]

-----------------------------------------------------------------------------
(* The calls.                                                              *)

\* the wallet context is set up before the statement is sent
Start(c) ==
  /\ pc[c] = "idle"
  /\ Goto(c, "acquiring")
  /\ due' = [due EXCEPT ![c] = now + WalletSyncTimeout]
  /\ acquire' = [acquire EXCEPT ![c] = "sent"]
  /\ UNCHANGED <<now, lock, stamp, delete>>

\* the lock is answered for: select { case <-ctx.Done(): ... default: ... }
Work(c) ==
  /\ pc[c] = "acquiring" /\ acquire[c] = "granted"
  /\ now < due[c]
  /\ Goto(c, "working")
  /\ UNCHANGED <<now, lock, due, acquire, stamp, delete>>

\* an answer that nothing was acquired, an error, or no answer in time: runWallet
\* returns, and does not release what it does not know it holds
GiveUp(c) ==
  /\ pc[c] = "acquiring"
  /\ Goto(c, "over")
  /\ UNCHANGED <<now, lock, due, acquire, stamp, delete>>

\* RunWallet comes to its deferred finalization
Finalize(c) ==
  /\ pc[c] = "working"
  /\ Goto(c, "finalizing")
  /\ due' = [due EXCEPT ![c] = now + FinalizeTimeout]
  /\ UNCHANGED <<now, lock, acquire, stamp, delete>>

\* the deferred ReleaseWalletLock, under a context of its own
DeferredRelease(c, where) ==
  /\ Goto(c, where)
  /\ due' = [due EXCEPT ![c] = now + ReleaseTimeout]
  /\ delete' = [delete EXCEPT ![c] = TRUE]
  /\ UNCHANGED <<now, lock, acquire, stamp>>

\* after RunWallet, which may have returned before it had a finalization
Release(c) ==
  /\ pc[c] \in {"working", "finalizing"}
  /\ DeferredRelease(c, "releasing")

\* the lock is answered for when the wallet context is over
Abandon(c) ==
  /\ pc[c] = "acquiring" /\ acquire[c] = "granted"
  /\ now >= due[c]
  /\ DeferredRelease(c, "abandoning")

\* the release is answered or given up
Return(c) ==
  /\ pc[c] \in {"releasing", "abandoning"}
  /\ Goto(c, "over")
  /\ UNCHANGED <<now, lock, due, acquire, stamp, delete>>

Crash(c) ==
  /\ pc[c] \notin {"idle", "over"}
  /\ Goto(c, "over")
  /\ UNCHANGED <<now, lock, due, acquire, stamp, delete>>

-----------------------------------------------------------------------------
(* The database.                                                           *)

BeginAcquire(c) ==
  /\ acquire[c] = "sent"
  /\ acquire' = [acquire EXCEPT ![c] = "begun"]
  /\ stamp' = [stamp EXCEPT ![c] = now]
  /\ UNCHANGED <<now, lock, pc, due, delete>>

\* no row, or wallet_locks.acquired_until <= NOW(); slip: the WHERE left out
FreeAnyway(c) == TRUE
Free(c) == lock.token = NoCall \/ lock.until <= stamp[c]

CommitAcquire(c) ==
  /\ acquire[c] = "begun"
  /\ lock' = IF Free(c) THEN [token |-> c, until |-> stamp[c] + TTL] ELSE lock
  /\ acquire' = [acquire EXCEPT ![c] = IF Free(c) THEN "granted" ELSE "refused"]
  /\ UNCHANGED <<now, pc, due, stamp, delete>>

\* the DELETE names the token: the lock of another call stays
OwnToken(c) == lock.token = c

CommitDelete(c) ==
  /\ delete[c]
  /\ lock' = IF OwnToken(c) THEN NoLock ELSE lock
  /\ delete' = [delete EXCEPT ![c] = FALSE]
  /\ UNCHANGED <<now, pc, due, acquire, stamp>>

\* a statement that was sent fails, or never arrives
LoseAcquire(c) ==
  /\ acquire[c] \in {"sent", "begun"}
  /\ acquire' = [acquire EXCEPT ![c] = "failed"]
  /\ UNCHANGED <<now, lock, pc, due, stamp, delete>>
LoseDelete(c) ==
  /\ delete[c]
  /\ delete' = [delete EXCEPT ![c] = FALSE]
  /\ UNCHANGED <<now, lock, pc, due, acquire, stamp>>

Bounded == {"working", "finalizing", "releasing", "abandoning"}

\* a call returns within Lag of the end of its context
Tick ==
  /\ now < MaxTime
  /\ \A c \in Call : pc[c] \in Bounded => now < due[c] + Lag
  /\ now' = now + 1
  /\ UNCHANGED <<lock, pc, due, acquire, stamp, delete>>

Step(c) ==
  \/ Start(c) \/ Work(c) \/ GiveUp(c) \/ Finalize(c) \/ Release(c)
  \/ Abandon(c) \/ Return(c) \/ Crash(c)
  \/ BeginAcquire(c) \/ CommitAcquire(c) \/ CommitDelete(c)
  \/ LoseAcquire(c) \/ LoseDelete(c)

Next == Tick \/ \E c \in Call : Step(c)

Spec == Init /\ [][Next]_vars

-----------------------------------------------------------------------------
(* The properties.                                                         *)

\* Each variable holds values of its kind.
TypeOK ==
  /\ now \in Nat
  /\ lock \in [token : Call \cup {NoCall}, until : Nat]
  /\ pc \in [Call -> {"idle", "acquiring", "over"} \cup Bounded]
  /\ due \in [Call -> Nat]
  /\ acquire \in [Call -> {"none", "sent", "begun", "granted", "refused", "failed"}]
  /\ stamp \in [Call -> Nat]
  /\ delete \in [Call -> BOOLEAN]

Inside == {c \in Call : pc[c] \in {"working", "finalizing"}}
Left == {c \in Call : pc[c] \in {"releasing", "abandoning", "over"}}

HasLock(c) == lock.token = c /\ now < lock.until

\* the DELETE of a call that worked has yet to reach the database
Unreleased(c) == pc[c] = "releasing" /\ delete[c]

\* "Keep the wallet lock alive past the wallet timeout while finalize/release tail
\* work completes" (runtime_timing.go:5): from the answer to its acquisition to its
\* DELETE a call that works holds a lock that has not run out, however late it was
\* answered and whatever statement of an earlier call is still under way.
LockCoversCall ==
  \A c \in Call : c \in Inside \/ Unreleased(c) => HasLock(c)

\* The lock with its tokens and its time to live is a mutex: it implements
\* WalletMutex, a call being inside while it works or finalizes.
Mutex == INSTANCE WalletMutex WITH inside <- Inside, left <- Left
ImplementsMutex == Mutex!Spec
=============================================================================
