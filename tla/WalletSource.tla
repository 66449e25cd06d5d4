---------------------------- MODULE WalletSource ----------------------------
(***************************************************************************)
(* One call of Source (internal/walletsource/source.go), by the daemon and *)
(* by the source-wallets command: out of the seed wallets that a scrape of *)
(* blocks or a file gave, it looks for wallets worth a scan.               *)
(*                                                                         *)
(* The candidates are the seeds themselves, or the owners that transfers   *)
(* with a seed name.  One fetch of each decides whether it is eligible,    *)
(* rejected, or capped and promising enough to be fetched again with       *)
(* larger caps (the deep dive).  The best of the eligible are accepted.    *)
(*                                                                         *)
(* A fetch is what module FetchWindow shows of it: an error, a window cut  *)
(* short by a cap or by exhausted retries, or a whole one, for a bounded   *)
(* number of requests.  What the sample says of the wallet                 *)
(* (summarizeWallet) is any of the summaries in Stats.                     *)
(***************************************************************************)
EXTENDS Integers, FiniteSets, Sequences

CONSTANTS
  Address,           \* the wallets, in the order of their text
  Modes,             \* of "score" (the seeds) and "neighbors" (their owners)
  SeedLists,         \* what the scrape gives to score, and the file for neighbors
  MaxSeedWallets, MaxCandidates, TargetCount, DeepDiveTopN, DeepDiveMinScore,
  AttackerMode,      \* SourceMode is attacker_outbound_dust
  SeedCalls, CandidateCalls, DeepDiveCalls,
                     \* requests of one fetch: pages times retries plus one
  Stats              \* summaries of a sample

ASSUME SourceAssumption ==
  /\ Address \subseteq Nat /\ IsFiniteSet(Address)
  /\ Modes \subseteq {"score", "neighbors"}
  /\ SeedLists \in [Modes -> SUBSET Seq(Address)]
  /\ MaxSeedWallets \in Nat \ {0} /\ MaxCandidates \in Nat \ {0}
  /\ TargetCount \in Nat \ {0} /\ DeepDiveTopN \in Nat
  /\ SeedCalls \in Nat /\ CandidateCalls \in Nat /\ DeepDiveCalls \in Nat
  /\ DeepDiveMinScore \in Nat
  /\ AttackerMode \in BOOLEAN
  /\ Stats \subseteq [score: Nat, rest: Nat, dust: BOOLEAN, fit: BOOLEAN]
  /\ \A s \in Stats : s.fit => s.dust

VARIABLES
  mode,
  phase,       \* where the call is
  seeds,       \* the seeds still to look at
  seedSet,     \* those it has looked at
  discovered,  \* the seeds that lead to each wallet
  todo,        \* the candidates still to fetch
  stats,       \* the last summary of each candidate
  page,        \* how its first fetch ended
  again,       \* and its second, the deep dive's
  eligible,
  queue,       \* deepDiveQueue
  handled,     \* the part of it that is behind
  accepted, rejected,
  requests     \* history: requests sent

looking == <<mode, seeds, seedSet, discovered>>
judging == <<stats, page, again, eligible, queue, handled, accepted, rejected>>
vars == <<phase, looking, todo, judging, requests>>

NoStats == [score |-> 0, rest |-> 0, dust |-> FALSE, fit |-> FALSE]
Pages == {"error", "max_tx_pages_per_wallet_reached", "max_tx_per_wallet_reached",
          "helius_retry_exhausted", "whole"}
Capped == {"max_tx_pages_per_wallet_reached", "max_tx_per_wallet_reached"}
Partial == Capped \cup {"helius_retry_exhausted"}

Least(m, n) == IF m <= n THEN m ELSE n

Init ==
  /\ mode \in Modes
  /\ phase = "seeds"
  /\ \E list \in SeedLists[mode] \ {<<>>} :
       seeds = SubSeq(list, 1, Least(Len(list), MaxSeedWallets))
  /\ seedSet = {}
  /\ discovered = [a \in Address |-> {}]
  /\ todo = {}
  /\ stats = [a \in Address |-> NoStats]
  /\ page = [a \in Address |-> "none"]
  /\ again = [a \in Address |-> "none"]
  /\ eligible = {}
  /\ queue = {}
  /\ handled = {}
  /\ accepted = {}
  /\ rejected = {}
  /\ requests = 0

-----------------------------------------------------------------------------
(* From the seeds to the candidates.                                       *)

\* a seed counts for the wallets it leads to, the seeds up to it left out; those to
\* come are not known yet
Discover(seed, found) ==
  discovered' = [a \in Address |->
                   IF a \in found THEN discovered[a] \cup {seed} ELSE discovered[a]]

LookAtSeed ==
  /\ phase = "seeds"
  /\ seeds # <<>>
  /\ LET seed == Head(seeds)
         behind == seedSet \cup {seed} IN
       \/ /\ mode = "score"
          /\ Discover(seed, {seed})
          /\ seeds' = Tail(seeds)
          /\ seedSet' = behind
          /\ UNCHANGED <<phase, requests>>
       \/ /\ mode = "neighbors"
          /\ \E owners \in SUBSET Address, n \in 0..SeedCalls :
               /\ Discover(seed, owners \ behind)
               /\ requests' = requests + n
          /\ seeds' = Tail(seeds)
          /\ seedSet' = behind
          /\ UNCHANGED phase
       \/ /\ mode = "neighbors"     \* one failed fetch and Source fails
          /\ \E n \in 0..SeedCalls : requests' = requests + n
          /\ phase' = "failed"
          /\ UNCHANGED <<seeds, seedSet, discovered>>
  /\ UNCHANGED <<mode, todo, judging>>

\* candidates in their order: more seeds first, then by address
Earlier(a, b) ==
  \/ Cardinality(discovered[a]) > Cardinality(discovered[b])
  \/ Cardinality(discovered[a]) = Cardinality(discovered[b]) /\ a < b

Discovered == {a \in Address : discovered[a] # {}}

SortCandidates ==
  /\ phase = "seeds"
  /\ seeds = <<>>
  /\ todo' = {a \in Discovered :
                Cardinality({b \in Discovered : Earlier(b, a)}) < MaxCandidates}
  /\ phase' = "candidates"
  /\ UNCHANGED <<looking, judging, requests>>

-----------------------------------------------------------------------------
(* The candidates, one fetch each.                                         *)

Row(a, reason, dive) == [address |-> a, reason |-> reason, dive |-> dive]

\* a fetch that ends as p, after n requests; the discovery adds to the score that the
\* sample gives
Fetch(a, p, s, n) ==
  /\ stats' = IF p = "error" THEN stats ELSE [stats EXCEPT ![a] = s]
  /\ requests' = requests + n

ShouldDeepDive(p, s) ==
  /\ DeepDiveTopN > 0
  /\ p \in Capped
  /\ s.dust
  /\ AttackerMode \/ s.score >= DeepDiveMinScore

\* what one sample says: a partial one is no sample to accept a wallet on.  Retries
\* that are exhausted make the window partial, so helius_retry_exhausted is never
\* the reason.
Verdict(p, s) ==
  IF p = "error" THEN "fetch_error"
  ELSE IF p \in Partial THEN "activity_cap_reached"
  ELSE IF ~s.fit THEN "unfit"
  ELSE "eligible"

FirstOf(S, a) == a \in S /\ \A b \in S \ {a} : Earlier(a, b)

\* slip: a capped candidate is queued and rejected as well
JudgeAndFallThrough(a, p, s) ==
  /\ eligible' = IF Verdict(p, s) = "eligible" THEN eligible \cup {a} ELSE eligible
  /\ queue' = IF ShouldDeepDive(p, s) THEN queue \cup {a} ELSE queue
  /\ rejected' = IF Verdict(p, s) = "eligible" THEN rejected
                 ELSE rejected \cup {Row(a, Verdict(p, s), "not_queued")}

Judge(a, p, s) ==
  \/ /\ p \in Partial /\ ShouldDeepDive(p, s)
     /\ queue' = queue \cup {a}
     /\ UNCHANGED <<eligible, rejected>>
  \/ /\ ~(p \in Partial /\ ShouldDeepDive(p, s))
     /\ Verdict(p, s) # "eligible"
     /\ rejected' = rejected \cup {Row(a, Verdict(p, s), "not_queued")}
     /\ UNCHANGED <<eligible, queue>>
  \/ /\ Verdict(p, s) = "eligible"
     /\ eligible' = eligible \cup {a}
     /\ UNCHANGED <<queue, rejected>>

FetchCandidate(a) ==
  /\ phase = "candidates"
  /\ FirstOf(todo, a)
  /\ todo' = todo \ {a}
  /\ \E p \in Pages, s \in Stats, n \in 0..CandidateCalls :
       /\ Fetch(a, p, s, n)
       /\ page' = [page EXCEPT ![a] = p]
       /\ Judge(a, p, s)
  /\ UNCHANGED <<phase, looking, again, handled, accepted>>

EndCandidates ==
  /\ phase = "candidates"
  /\ todo = {}
  /\ phase' = "deep_dive"
  /\ UNCHANGED <<looking, todo, judging, requests>>

-----------------------------------------------------------------------------
(* The deep dive, best score first.                                        *)

Deeper(a, b) ==
  \/ stats[a].score > stats[b].score
  \/ stats[a].score = stats[b].score /\ a < b

\* deepDiveQueue is sorted before the first retry changes any stats
NextDive(a) ==
  /\ phase = "deep_dive"
  /\ a \in queue \ handled
  /\ \A b \in (queue \ handled) \ {a} : Deeper(a, b)
  /\ handled' = handled \cup {a}
  /\ UNCHANGED <<phase, looking, todo, page, queue, accepted>>

SkipBeyondTopN(a) ==
  /\ NextDive(a)
  /\ Cardinality(handled) >= DeepDiveTopN
  /\ rejected' = rejected \cup {Row(a, "activity_cap_reached", "queued_top_n_skip")}
  /\ UNCHANGED <<stats, again, eligible, requests>>

\* slips: one retry too many; the target is not looked at
OneMore(a) == Cardinality(handled) <= DeepDiveTopN /\ Cardinality(eligible) < TargetCount
WhateverTheTarget(a) == Cardinality(handled) < DeepDiveTopN

MayDive(a) == Cardinality(handled) < DeepDiveTopN /\ Cardinality(eligible) < TargetCount

SkipTargetReached(a) ==
  /\ NextDive(a)
  /\ Cardinality(handled) < DeepDiveTopN
  /\ ~MayDive(a)
  /\ rejected' = rejected \cup {Row(a, "target_count_reached", "queued_top_n_skip")}
  /\ UNCHANGED <<stats, again, eligible, requests>>

\* slip: what came back partial is judged like the rest
DiveVerdictOnFit(p, s) ==
  IF p = "error" THEN "deep_dive_fetch_error" ELSE IF ~s.fit THEN "unfit" ELSE "eligible"

DiveVerdict(p, s) == IF p = "error" THEN "deep_dive_fetch_error" ELSE Verdict(p, s)

DiveStatus(p) == IF p \in Partial THEN "retried_cap_hit" ELSE "retried_other_reject"

DeepDive(a) ==
  /\ NextDive(a)
  /\ MayDive(a)
  /\ \E p \in Pages, s \in Stats, n \in 0..DeepDiveCalls :
       /\ Fetch(a, p, s, n)
       /\ again' = [again EXCEPT ![a] = p]
       /\ \/ /\ DiveVerdict(p, s) = "eligible"
             /\ eligible' = eligible \cup {a}
             /\ UNCHANGED rejected
          \/ /\ DiveVerdict(p, s) # "eligible"
             /\ rejected' = rejected \cup {Row(a, DiveVerdict(p, s), DiveStatus(p))}
             /\ UNCHANGED eligible

-----------------------------------------------------------------------------
(* The choice, and the two files.                                          *)

Better(a, b) ==
  \/ stats[a].score > stats[b].score
  \/ /\ stats[a].score = stats[b].score
     /\ \/ stats[a].rest > stats[b].rest
        \/ stats[a].rest = stats[b].rest /\ a < b

\* slip: the eligible are not sorted, their order is that of the fetches
ChosenInOrder == {a \in eligible : Cardinality({b \in eligible : Earlier(b, a)}) < TargetCount}

Chosen == {a \in eligible : Cardinality({b \in eligible : Better(b, a)}) < TargetCount}

Select ==
  /\ phase = "deep_dive"
  /\ handled = queue
  /\ accepted' = Chosen
  /\ rejected' = rejected \cup {Row(a, "target_count_reached", "not_queued") :
                                  a \in eligible \ Chosen}
  /\ phase' = "write_accepted"
  /\ UNCHANGED <<looking, todo, stats, page, again, eligible, queue, handled, requests>>

\* writeAccepted, then writeRejected; each may fail, and Source with it
Write ==
  /\ \/ phase = "write_accepted" /\ phase' \in {"write_rejected", "failed"}
     \/ phase = "write_rejected" /\ phase' \in {"done", "failed"}
  /\ UNCHANGED <<looking, todo, judging, requests>>

Next ==
  \/ LookAtSeed \/ SortCandidates
  \/ \E a \in Address :
       FetchCandidate(a) \/ SkipBeyondTopN(a) \/ SkipTargetReached(a) \/ DeepDive(a)
  \/ EndCandidates \/ Select \/ Write

Spec == Init /\ [][Next]_vars

-----------------------------------------------------------------------------
(* Properties.                                                             *)

Reasons == {"fetch_error", "activity_cap_reached", "unfit", "deep_dive_fetch_error",
            "target_count_reached"}
Dives == {"not_queued", "queued_top_n_skip", "retried_cap_hit", "retried_other_reject"}

TypeOK ==
  /\ mode \in {"score", "neighbors"}
  /\ phase \in {"seeds", "candidates", "deep_dive", "write_accepted", "write_rejected",
                "done", "failed"}
  /\ seeds \in Seq(Address) /\ seedSet \in SUBSET Address
  /\ discovered \in [Address -> SUBSET Address]
  /\ stats \in [Address -> Stats \cup {NoStats}]
  /\ page \in [Address -> Pages \cup {"none"}]
  /\ again \in [Address -> Pages \cup {"none"}]
  /\ todo \in SUBSET Address /\ eligible \in SUBSET Address
  /\ queue \in SUBSET Address /\ handled \in SUBSET Address
  /\ accepted \in SUBSET Address
  /\ rejected \in SUBSET [address: Address, reason: Reasons, dive: Dives]
  /\ requests \in Nat

Candidates == {a \in Discovered :
                 Cardinality({b \in Discovered : Earlier(b, a)}) < MaxCandidates}
RowsOf(a) == {r \in rejected : r.address = a}
Selected == phase \in {"write_accepted", "write_rejected", "done"}

\* how the fetch ended that decides on a wallet
Last(a) == IF again[a] = "none" THEN page[a] ELSE again[a]

\* what each reason claims of the wallet, the claim of BestFirst apart: a fetch that
\* failed, the last one cut short or whole and unfit, and of the wallets that the
\* target kept out either a whole and fit sample or a retry that was not made
TrueReason(r) ==
  /\ r.reason = "fetch_error" => page[r.address] = "error"
  /\ r.reason = "deep_dive_fetch_error" => again[r.address] = "error"
  /\ r.reason = "activity_cap_reached" => Last(r.address) \in Partial
  /\ r.reason = "unfit" => Last(r.address) = "whole" /\ ~stats[r.address].fit
  /\ r.reason = "target_count_reached" =>
       \/ Last(r.address) = "whole" /\ stats[r.address].fit
       \/ r.address \in queue /\ again[r.address] = "none"

\* Whatever fails on the way, every candidate ends on exactly one of the two lists,
\* with one row if it is rejected, and nobody else is on them: the branches of Source
\* that append and continue leave no wallet out and put none down twice.  The reason of
\* the row is true of the last sample of that wallet, not of an earlier one.
DecidedOnce ==
  Selected =>
    /\ \A a \in Address :
         /\ a \notin Candidates => a \notin accepted /\ RowsOf(a) = {}
         /\ a \in Candidates => \/ a \in accepted /\ RowsOf(a) = {}
                                \/ a \notin accepted /\ Cardinality(RowsOf(a)) = 1
    /\ \A r \in rejected : TrueReason(r)

\* No wallet is accepted on a sample that a cap or exhausted retries cut short, in
\* the first pass or in the deep dive: the last window fetched of it was whole, and
\* its summary passed statsRejectReason.
AcceptedAreWhole == \A a \in accepted : Last(a) = "whole" /\ stats[a].fit

\* The target is never exceeded, and target_count_reached is said only when it was
\* reached; an eligible wallet turned away ranks below every accepted one.
BestFirst ==
  Selected =>
    /\ Cardinality(accepted) <= TargetCount
    /\ \A r \in rejected : r.reason = "target_count_reached" =>
         /\ Cardinality(accepted) = TargetCount
         /\ r.dive = "not_queued" => \A b \in accepted : Better(b, r.address)

\* what each status claims of the wallet, and that no other says it
TrueDive(r) ==
  /\ r.dive = "not_queued" <=> r.address \notin queue
  /\ r.dive = "queued_top_n_skip" <=> r.address \in queue /\ again[r.address] = "none"
  /\ r.dive = "retried_cap_hit" <=> again[r.address] \in Partial
  /\ r.dive = "retried_other_reject" <=> again[r.address] \in {"error", "whole"}

\* The rejected list tells what was tried: not_queued for a wallet never queued,
\* queued_top_n_skip for one queued and not fetched again, retried_cap_hit for one
\* fetched again and cut short again, retried_other_reject for one fetched again in
\* vain, and each only then.  It rests on the target: a wallet that the deep dive finds
\* eligible is always accepted, because the dive stops at the target, so Select, which
\* writes not_queued, drops none of those.
DiveStatusIsTrue == \A r \in rejected : TrueDive(r)

\* The requests of a call stay below what estimateDaemonCycleCredits
\* (cmd/scanner/daemon.go) charges for the sourcing: one fetch per candidate and one
\* more for each of the first DeepDiveTopN, plus one per seed where neighbors are
\* looked for.
RequestsWithin ==
  requests <= (IF mode = "neighbors" THEN MaxSeedWallets * SeedCalls ELSE 0)
              + MaxCandidates * CandidateCalls + DeepDiveTopN * DeepDiveCalls
=============================================================================
