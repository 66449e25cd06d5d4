------------------------------- MODULE Daemon -------------------------------
(***************************************************************************)
(* The scanner daemon (cmd/scanner/daemon.go): processes that take the     *)
(* advisory lock of the database and then repeat scrape, source and scan   *)
(* under a budget of provider credits per UTC day, until a signal.         *)
(*                                                                         *)
(* A phase of a cycle sends its requests one by one, any number up to its  *)
(* limit: ScrapeRecentWallets asks for a slot and some blocks, Source      *)
(* stays within RequestsWithin of module WalletSource, and the run of the  *)
(* orchestrator fetches two windows of each accepted wallet.  Midnight may *)
(* fall between any two requests, and between any two readings of the      *)
(* clock.  Days are told from each other by that alone: a variable says    *)
(* whether something is of this day, or how many midnights it is away.     *)
(*                                                                         *)
(* The lock belongs to a database session.  It ends with the session: when *)
(* the process ends, when the connection breaks, or when the pool of       *)
(* database/sql closes it as one idle connection too many, which the       *)
(* process does not notice.                                                *)
(***************************************************************************)
EXTENDS Integers, FiniteSets

CONSTANTS
  Process,           \* processes that run the command
  Once,              \* those with --once
  NoProcess,
  Budget,            \* dailyCreditBudget
  MaxBlocks, BlockLookback,
  SourceCalls,       \* maxCandidates * candidateMaxPages + deepDiveTopN * deepDiveMaxPages
  TargetCount,
  RunMaxTXPages,
  MaxHeliusRetries,
  RPCCredits,        \* standardRPCCredits
  EnhancedCredits,   \* enhancedTransactionCredits
  IntervalNights,    \* midnights that a cycleInterval may span
  MaxStarts,         \* bound on the starts of processes
  MaxFaults          \* bound on crashes and sessions lost

Attempts == MaxHeliusRetries + 1

\* estimateDaemonCycleCredits
Estimate ==
  (1 + MaxBlocks) * RPCCredits
  + (SourceCalls + TargetCount * RunMaxTXPages * 2) * Attempts * EnhancedCredits

\* a scrape looks at no more slots than its lookback has
Blocks == IF BlockLookback < MaxBlocks THEN BlockLookback ELSE MaxBlocks

\* what validateDaemonOptions lets through: the budget allows one cycle
ValidOptions ==
  /\ {Budget, SourceCalls, TargetCount, RunMaxTXPages} \subseteq Nat \ {0}
  /\ {MaxBlocks, BlockLookback} \subseteq Nat \ {0}
  /\ MaxHeliusRetries \in Nat
  /\ Estimate <= Budget

ASSUME OptionsAssumption ==
  /\ NoProcess \notin Process /\ Once \subseteq Process
  /\ ValidOptions
  /\ {RPCCredits, EnhancedCredits, MaxStarts, MaxFaults} \subseteq Nat
  /\ IntervalNights \subseteq Nat /\ IntervalNights # {}

VARIABLES
  pc,        \* where each process is
  asked,     \* its signal context is over
  current,   \* dailyCreditBudget.day is this UTC day; and
  used,      \* dailyCreditBudget.used, in the memory of the process
  left,      \* requests that its phase may still send
  nights,    \* midnights still to come in its sleep
  holder,    \* whose session holds the advisory lock
  severed,   \* history: the processes whose session was lost while they worked
  today,     \* history: credits that each spent this day
  crossed,   \* history: it was in a cycle when this day began
  starts,
  faults

work == <<asked, current, used, left, nights, today, crossed>>
locking == <<holder, severed>>
vars == <<pc, work, locking, starts, faults>>

Phases == {"scrape", "source", "scan"}
Sleeping == {"exhausted", "pause"}
Working == Phases \cup Sleeping \cup {"reserve", "refused"}

Init ==
  /\ pc = [p \in Process |-> "down"]
  /\ asked = [p \in Process |-> FALSE]
  /\ current = [p \in Process |-> FALSE]
  /\ used = [p \in Process |-> 0]
  /\ left = [p \in Process |-> 0]
  /\ nights = [p \in Process |-> 0]
  /\ holder = NoProcess
  /\ severed = {}
  /\ today = [p \in Process |-> 0]
  /\ crossed = [p \in Process |-> FALSE]
  /\ starts = 0
  /\ faults = 0

Goto(p, where) == pc' = [pc EXCEPT ![p] = where]

-----------------------------------------------------------------------------
(* Start and end of a process.                                             *)

\* the end of a process: its memory is gone, the budget with it
Down(p) ==
  /\ Goto(p, "down")
  /\ asked' = [asked EXCEPT ![p] = FALSE]
  /\ current' = [current EXCEPT ![p] = FALSE]
  /\ used' = [used EXCEPT ![p] = 0]
  /\ left' = [left EXCEPT ![p] = 0]
  /\ nights' = [nights EXCEPT ![p] = 0]
  /\ today' = [today EXCEPT ![p] = 0]
  /\ crossed' = [crossed EXCEPT ![p] = FALSE]
  /\ severed' = severed \ {p}

Start(p) ==
  /\ pc[p] = "down"
  /\ starts < MaxStarts
  /\ starts' = starts + 1
  /\ Goto(p, "lock")
  /\ UNCHANGED <<asked, current, used, left, nights, today, crossed, locking, faults>>

\* SIGINT or SIGTERM
Signal(p) ==
  /\ pc[p] # "down"
  /\ ~asked[p]
  /\ asked' = [asked EXCEPT ![p] = TRUE]
  /\ UNCHANGED <<pc, current, used, left, nights, today, crossed, locking, starts, faults>>

\* pg_try_advisory_lock, on a session of its own; false, or an error, ends the process
AcquireLock(p) ==
  /\ pc[p] = "lock"
  /\ \/ /\ holder = NoProcess
        /\ ~asked[p]
        /\ holder' = p
        /\ Goto(p, "reserve")
        /\ UNCHANGED <<work, severed>>
     \/ Down(p) /\ UNCHANGED holder
  /\ UNCHANGED <<starts, faults>>

\* slip: the lock is freed, whoever holds it
FreedOfAnyone(p) == {NoProcess}

\* pg_advisory_unlock, on any session of the pool: it frees a lock of that session and
\* no other
Freed(p) == {holder, IF holder = p THEN NoProcess ELSE holder}

Unlock(p) ==
  /\ pc[p] = "unlock"
  /\ holder' \in Freed(p)
  /\ Goto(p, "close")
  /\ UNCHANGED <<work, severed, starts, faults>>

\* db.Close, and the end of the process
Close(p) ==
  /\ pc[p] = "close"
  /\ holder' = IF holder = p THEN NoProcess ELSE holder
  /\ Down(p)
  /\ UNCHANGED <<starts, faults>>

\* slip: no signal ends the loop, and an interrupted sleep only begins again
AfterAnySleep(p, ended) ==
  IF p \in Once
  THEN Goto(p, "unlock") /\ nights' = [nights EXCEPT ![p] = 0]
  ELSE Goto(p, "pause") /\ \E n \in IntervalNights : nights' = [nights EXCEPT ![p] = n]

\* after a cycle, or a sleep
After(p, ended) ==
  IF ended \/ p \in Once \/ asked[p]
  THEN Goto(p, "unlock") /\ nights' = [nights EXCEPT ![p] = 0]
  ELSE Goto(p, "pause") /\ \E n \in IntervalNights : nights' = [nights EXCEPT ![p] = n]

-----------------------------------------------------------------------------
(* A cycle.                                                                *)

\* slip: what was used on an earlier day counts
UsedEver(p) == used[p]

UsedToday(p) == IF current[p] THEN used[p] ELSE 0

\* slip: a cycle starts while anything is left
AnythingLeft(p) == UsedToday(p) < Budget

Fits(p) == UsedToday(p) + Estimate <= Budget

\* the loop sets up the context of a cycle, and dailyCreditBudget.Reserve opens the day
\* and charges the estimate, or finds that it does not fit
Reserve(p) ==
  /\ pc[p] = "reserve"
  /\ current' = [current EXCEPT ![p] = TRUE]
  /\ \/ /\ Fits(p)
        /\ used' = [used EXCEPT ![p] = UsedToday(p) + Estimate]
        /\ left' = [left EXCEPT ![p] = 1 + Blocks]
        /\ Goto(p, "scrape")
     \/ /\ ~Fits(p)
        /\ used' = [used EXCEPT ![p] = UsedToday(p)]
        /\ Goto(p, "refused")
        /\ UNCHANGED left
  /\ UNCHANGED <<asked, nights, today, crossed, locking, starts, faults>>

Cost(p) == IF pc[p] = "scrape" THEN RPCCredits ELSE EnhancedCredits

\* A signal lets no request out.  That of the cycle, RunTimeoutSeconds * 2, may end it
\* anywhere as well: a phase need not send all it may.
Send(p) ==
  /\ pc[p] \in Phases
  /\ left[p] > 0
  /\ ~asked[p]
  /\ left' = [left EXCEPT ![p] = @ - 1]
  /\ today' = [today EXCEPT ![p] = @ + Cost(p)]
  /\ UNCHANGED <<pc, asked, current, used, nights, crossed, locking, starts, faults>>

\* to the next phase, or to the end of the cycle: an error, no wallet scraped, none
\* accepted, or all of it done
NextPhase(p, where, n) ==
  /\ Goto(p, where)
  /\ left' = [left EXCEPT ![p] = n]
  /\ UNCHANGED nights

EndPhase(p) ==
  /\ \/ pc[p] = "scrape" /\ NextPhase(p, "source", SourceCalls * Attempts)
     \/ \E accepted \in 1..TargetCount :
          pc[p] = "source" /\ NextPhase(p, "scan", accepted * RunMaxTXPages * 2 * Attempts)
     \/ pc[p] \in Phases /\ After(p, FALSE) /\ left' = [left EXCEPT ![p] = 0]
  /\ UNCHANGED <<asked, current, used, today, crossed, locking, starts, faults>>

-----------------------------------------------------------------------------
(* Sleep.                                                                  *)

\* sleepUntilNextUTCDay reads the clock again: the midnight it sleeps to is the one
\* after that, not the one after the day that Reserve found used up
SleepUntilNextUTCDay(p) ==
  /\ pc[p] = "refused"
  /\ Goto(p, "exhausted")
  /\ nights' = [nights EXCEPT ![p] = 1]
  /\ UNCHANGED <<asked, current, used, left, today, crossed, locking, starts, faults>>

\* the sleep to the next day is followed by that of the interval
Wake(p) ==
  /\ nights[p] = 0
  /\ \/ pc[p] = "exhausted" /\ After(p, FALSE)
     \/ pc[p] = "pause" /\ Goto(p, "reserve") /\ UNCHANGED nights
  /\ UNCHANGED <<asked, current, used, left, today, crossed, locking, starts, faults>>

Interrupted(p) == pc[p] \in Sleeping /\ asked[p]

Interrupt(p) ==
  /\ Interrupted(p)
  /\ After(p, TRUE)
  /\ UNCHANGED <<asked, current, used, left, today, crossed, locking, starts, faults>>

-----------------------------------------------------------------------------
(* Around the processes.                                                   *)

\* midnight, UTC
Midnight ==
  /\ current' = [p \in Process |-> FALSE]
  /\ nights' = [p \in Process |-> IF nights[p] = 0 THEN 0 ELSE nights[p] - 1]
  /\ today' = [p \in Process |-> 0]
  /\ crossed' = [p \in Process |-> pc[p] \in Phases]
  /\ UNCHANGED <<pc, asked, used, left, locking, starts, faults>>

\* a lock left behind by a process that is gone
Left(p) == pc[p] \in {"down", "lock"}

\* the server has seen the end of a session that held the lock
SessionEnds(p) ==
  /\ holder = p
  /\ \/ Left(p) /\ UNCHANGED <<faults, severed>>
     \/ /\ ~Left(p) /\ faults < MaxFaults
        /\ faults' = faults + 1
        /\ severed' = severed \cup {p}
  /\ holder' = NoProcess
  /\ UNCHANGED <<pc, work, starts>>

\* the server learns of it later
Crash(p) ==
  /\ pc[p] # "down"
  /\ faults < MaxFaults
  /\ faults' = faults + 1
  /\ Down(p)
  /\ UNCHANGED <<holder, starts>>

Advance(p) ==
  \/ AcquireLock(p) \/ Reserve(p) \/ Send(p) \/ EndPhase(p)
  \/ SleepUntilNextUTCDay(p) \/ Wake(p) \/ Interrupt(p) \/ Unlock(p) \/ Close(p)

Next ==
  \/ \E p \in Process :
       \/ Advance(p)
       \/ Start(p) \/ Signal(p)
       \/ SessionEnds(p) \/ Crash(p)
  \/ Midnight

Spec == Init /\ [][Next]_vars

\* days pass, a process that can go on does, and the server notices a dead client
Fairness ==
  /\ WF_vars(Midnight)
  /\ \A p \in Process : WF_vars(Advance(p)) /\ WF_vars(Left(p) /\ SessionEnds(p))

FairSpec == Spec /\ Fairness

-----------------------------------------------------------------------------
(* Properties.                                                             *)

TypeOK ==
  /\ pc \in [Process -> Working \cup {"down", "lock", "unlock", "close"}]
  /\ asked \in [Process -> BOOLEAN]
  /\ current \in [Process -> BOOLEAN] /\ used \in [Process -> Nat]
  /\ left \in [Process -> Nat] /\ nights \in [Process -> Nat]
  /\ holder \in Process \cup {NoProcess} /\ severed \in SUBSET Process
  /\ today \in [Process -> Nat] /\ crossed \in [Process -> BOOLEAN]
  /\ starts \in Nat /\ faults \in Nat

\* A process spends no more credits in a day than its budget, and no more than one
\* estimate above it when a cycle charged to the day before was under way at midnight:
\* Reserve charges a whole cycle to the day it starts on.
DayWithinBudget ==
  \A p \in Process : today[p] <= Budget + (IF crossed[p] THEN Estimate ELSE 0)

\* Of the processes at work, all but those that lost the session of their lock hold it:
\* two of them at once means that one did, whatever ends, crashes and restarts there
\* were, and though pg_advisory_unlock may be sent by a process that no longer holds it.
OneDaemon ==
  \A p \in Process : pc[p] \in Working => holder = p \/ p \in severed

\* A process that found its budget exhausted starts a cycle again, or ends: neither what
\* it used on an earlier day nor its two sleeps keep it from one.  It says nothing of the
\* day: a midnight between the check of the budget and the clock of the sleep makes the
\* process sleep through the whole day that follows, whose budget is free.
Resumes ==
  \A p \in Process :
    pc[p] \in {"refused", "exhausted"} ~> pc[p] \in {"scrape", "unlock", "down"}

\* A signal ends the process, wherever it finds it.
Stops ==
  \A p \in Process : asked[p] ~> pc[p] = "down"
=============================================================================
