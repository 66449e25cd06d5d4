---------------------------- MODULE RunContract ----------------------------
(***************************************************************************)
(* What a run promises to those who read its row of ingestion_runs.  It is *)
(* asked once for some wallets.  While its row is running each of them is  *)
(* settled once: with the row it got, skipped because it was locked, or    *)
(* failed.  The row ends once, when all are settled, and says what became  *)
(* of them, or that the time was over.  The answer comes once, and one     *)
(* without error means that every wallet has its row.                      *)
(***************************************************************************)
CONSTANTS Run, Wallet

VARIABLES
  asked,     \* the wallets of each run
  told,      \* the status in its row
  settled,   \* what became of each wallet
  answer     \* what the run returned

promise == <<asked, told, settled, answer>>

Init ==
  /\ asked = [r \in Run |-> {}]
  /\ told = [r \in Run |-> "none"]
  /\ settled = [r \in Run |-> [w \in Wallet |-> "none"]]
  /\ answer = [r \in Run |-> "none"]

Tell(r, status) == told' = [told EXCEPT ![r] = status]
Fail(r) == answer[r] = "none" /\ answer' = [answer EXCEPT ![r] = "error"]
MayFail(r) == UNCHANGED answer \/ Fail(r)

Ask(r) ==
  /\ asked[r] = {} /\ told[r] = "none"
  /\ \E ws \in (SUBSET Wallet) \ {{}} : asked' = [asked EXCEPT ![r] = ws]
  /\ UNCHANGED told \/ Tell(r, "running")
  /\ MayFail(r)
  /\ UNCHANGED settled

Open(r) ==
  /\ asked[r] # {} /\ told[r] = "none"
  /\ Tell(r, "running")
  /\ UNCHANGED <<asked, settled, answer>>

Settle(r, w) ==
  /\ told[r] = "running"
  /\ w \in asked[r] /\ settled[r][w] = "none"
  /\ \E o \in {"succeeded", "partial", "skipped", "failed"} :
       settled' = [settled EXCEPT ![r][w] = o]
  /\ UNCHANGED <<asked, told, answer>>

\* what the wallets of r amount to
Sum(r) ==
  IF \A w \in asked[r] : settled[r][w] = "succeeded" THEN "succeeded"
  ELSE IF \A w \in asked[r] : settled[r][w] = "failed" THEN "failed"
  ELSE "partially_succeeded"

Conclude(r) ==
  /\ told[r] = "running"
  /\ \A w \in asked[r] : settled[r][w] # "none"
  /\ \E status \in {Sum(r), "timed_out", "cancelled"} : Tell(r, status)
  /\ MayFail(r)
  /\ UNCHANGED <<asked, settled>>

Refuse(r) == Fail(r) /\ UNCHANGED <<asked, told, settled>>

Succeed(r) ==
  /\ told[r] \in {"succeeded", "partially_succeeded"}
  /\ \A w \in asked[r] : settled[r][w] \in {"succeeded", "partial"}
  /\ answer[r] = "none" /\ answer' = [answer EXCEPT ![r] = "nil"]
  /\ UNCHANGED <<asked, told, settled>>

Next ==
  \/ \E r \in Run : Ask(r) \/ Open(r) \/ Conclude(r) \/ Refuse(r) \/ Succeed(r)
  \/ \E r \in Run, w \in Wallet : Settle(r, w)

Spec == Init /\ [][Next]_promise
=============================================================================
