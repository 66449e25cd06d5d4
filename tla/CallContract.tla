---------------------------- MODULE CallContract ----------------------------
(***************************************************************************)
(* What a call of runWallet promises to the run that makes it, and to the  *)
(* other calls for its wallet.  It takes the lock of the wallet at most    *)
(* once, and only while no other call has it; it opens its row of          *)
(* wallet_sync_runs only under the lock, and ends it once.  It answers     *)
(* once, and touches nothing after that: "locked" when another call has    *)
(* the wallet, and no error only when its row says what was persisted and  *)
(* the lock is given up.  A call may lose its lock, or never answer.       *)
(***************************************************************************)
CONSTANT CallId    \* the calls

VARIABLES
  wallet,    \* the wallet of each call
  place,     \* outside the lock, holds it, or left it for good
  told,      \* the status in its row
  answer     \* what it returned

promise == <<wallet, place, told, answer>>

Init ==
  /\ place = [c \in CallId |-> "outside"]
  /\ told = [c \in CallId |-> "none"]
  /\ answer = [c \in CallId |-> "none"]

Taken(c) == \E d \in CallId : wallet[d] = wallet[c] /\ place[d] = "holds"

Put(c, where) == place' = [place EXCEPT ![c] = where]
Tell(c, status) == told' = [told EXCEPT ![c] = status]
Answer(c, a) == answer' = [answer EXCEPT ![c] = a]

Take(c) ==
  /\ place[c] = "outside" /\ ~Taken(c)
  /\ Put(c, "holds")
  /\ UNCHANGED answer \/ Answer(c, "error")
  /\ UNCHANGED told

BeRefused(c) ==
  /\ place[c] = "outside" /\ Taken(c)
  /\ Put(c, "left") /\ Answer(c, "locked")
  /\ UNCHANGED told

Open(c) ==
  /\ place[c] = "holds" /\ told[c] = "none"
  /\ Tell(c, "running")
  /\ UNCHANGED <<place, answer>>

Close(c) ==
  /\ told[c] = "running"
  /\ \E status \in {"succeeded", "partial", "failed", "timed_out"} : Tell(c, status)
  /\ UNCHANGED <<place, answer>>

Drop(c) == place[c] = "holds" /\ Put(c, "left") /\ UNCHANGED <<told, answer>>

Succeed(c) ==
  /\ told[c] \in {"succeeded", "partial"}
  /\ Answer(c, "nil") /\ Put(c, "left")
  /\ UNCHANGED told

Fail(c) ==
  /\ Answer(c, "error")
  /\ place[c] # "holds" => Put(c, "left")
  /\ place[c] = "holds" => UNCHANGED place \/ Put(c, "left")
  /\ UNCHANGED told

Speak(c) ==
  Take(c) \/ BeRefused(c) \/ Open(c) \/ Close(c) \/ Succeed(c) \/ Fail(c)

Next ==
  /\ UNCHANGED wallet
  /\ \E c \in CallId : Drop(c) \/ (answer[c] = "none" /\ Speak(c))

Spec == Init /\ [][Next]_promise
=============================================================================
