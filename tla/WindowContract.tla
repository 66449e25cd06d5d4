--------------------------- MODULE WindowContract ---------------------------
(***************************************************************************)
(* What a window fetch promises to the sync of a wallet.  The transactions *)
(* it is to bring are settled by the first answer and stay what they are,  *)
(* whatever arrives later; it brings them newest first and without a gap,  *)
(* and gives none back; it calls its result complete only with all of them *)
(* there, and a result once returned does not change.  A transaction is    *)
(* its place in the history, the newest the highest.                       *)
(***************************************************************************)
EXTENDS Naturals

VARIABLES
  known,     \* a first answer came
  wanted,    \* the transactions to bring
  taken,     \* those brought so far
  verdict    \* none, complete, partial or error

contract == <<known, wanted, taken, verdict>>

Init == ~known /\ wanted = {} /\ taken = {} /\ verdict = "none"

\* some of the places of a set, down to one of them
Newest(part, whole) ==
  /\ part \subseteq whole
  /\ \A i \in part, j \in whole : i < j => j \in part

Judge ==
  /\ verdict' \in {"none", "complete", "partial"}
  /\ verdict' = "complete" => taken' = wanted'

Learn ==
  /\ ~known /\ known'
  /\ wanted' \in SUBSET Nat
  /\ Newest(taken', wanted')
  /\ Judge

More ==
  /\ known
  /\ taken \subseteq taken' /\ Newest(taken', wanted)
  /\ Judge
  /\ UNCHANGED <<known, wanted>>

GiveUp ==
  /\ verdict' \in {"partial", "error"}
  /\ UNCHANGED <<known, wanted, taken>>

Next == verdict = "none" /\ (Learn \/ More \/ GiveUp)

Spec == Init /\ [][Next]_contract
=============================================================================
