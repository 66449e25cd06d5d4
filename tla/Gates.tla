------------------------------- MODULE Gates -------------------------------
(***************************************************************************)
(* What RunWalletCoreSync (internal/pipeline/core.go) does with the two    *)
(* windows it fetched: normalization, dust, the relation to the wallet,    *)
(* and MaterializeCandidates with its gates of three values                *)
(* (candidate_materialize.go, detection.go).                               *)
(*                                                                         *)
(* A transfer is what the provider says of it.  Addresses are sequences of *)
(* symbols, because likeness is a matter of prefixes and suffixes.  An     *)
(* amount below zero stands for what is no number: the code treats both    *)
(* alike.  Times are days.  The observations of the scan are judged one    *)
(* after the other; the legitimate counterparties are a Go map, which is   *)
(* ranged over in any order.                                               *)
(*                                                                         *)
(* The parameters are those that validation.go lets pass, and thresholds   *)
(* those that buildDustClassifier accepts: it refuses windows of an asset  *)
(* that overlap.                                                           *)
(***************************************************************************)
EXTENDS Integers, Sequences, FiniteSets

CONSTANTS
  Address,           \* addresses
  Focal,             \* the wallet
  BaselinePool,      \* transfers that a baseline window may hold
  ScanPool,          \* transfers that a scan window may hold
  ScanStart,         \* where the baseline window ends and the scan window begins
  Threshold,         \* rows of asset_thresholds
  RecencyDays, PrefixMin, SuffixMin, SingleSideMin, MinInjectionCount

Nobody == <<>>       \* an endpoint the provider leaves out, and no match

Transfers ==
  [id : Nat, standard : {"native", "fungible", "other"}, asset : STRING,
   from : Address \cup {Nobody}, to : Address \cup {Nobody},
   ownerIsAccount : BOOLEAN, amount : Int, at : Nat]

ASSUME AddressAssumption == Address \subseteq Seq(Nat) \ {Nobody} /\ Focal \in Address
ASSUME PoolAssumption ==
  /\ BaselinePool \cup ScanPool \subseteq Transfers
  /\ IsFiniteSet(BaselinePool) /\ IsFiniteSet(ScanPool)
  /\ \A t, u \in ScanPool : t.id = u.id => t = u
  /\ ScanStart \in Nat
  /\ \A t \in BaselinePool : t.at < ScanStart
  /\ \A t \in ScanPool : ScanStart <= t.at
ASSUME ThresholdAssumption ==
  /\ Threshold \subseteq [asset : STRING, from : Nat, to : Nat, amount : Nat]
  /\ \A r, s \in Threshold : r # s /\ r.asset = s.asset => r.to <= s.from \/ s.to <= r.from
ASSUME ParameterAssumption ==
  /\ RecencyDays \in Nat \ {0} /\ MinInjectionCount \in Nat \ {0}
  /\ PrefixMin \in Nat /\ SuffixMin \in Nat /\ SingleSideMin \in Nat
  /\ PrefixMin >= 4 /\ SuffixMin >= 4 /\ SingleSideMin >= 6

VARIABLES
  baseline, scan,    \* the transfers of the two windows
  partial,           \* which fetch was partial
  pc,                \* "next", "compare" or "done"
  todo,              \* observations of the scan not judged yet
  current,           \* the observation that is judged
  left,              \* legitimate counterparties it was not compared with yet
  matched,           \* matchedLegit
  emitted,           \* res.Candidates
  unknown,           \* unknownGates
  incomplete         \* IncompleteWindow

windows == <<baseline, scan, partial>>
loop == <<pc, todo, current, left, matched>>
vars == <<windows, loop, emitted, unknown, incomplete>>

-----------------------------------------------------------------------------
(* Normalization.                                                          *)

\* an SPL amount that is no number becomes 0
AmountRaw(t) == IF t.standard # "native" /\ t.amount < 0 THEN 0 ELSE t.amount

Endpoints(t) == {t.from, t.to}

\* the later checks of an SPL transfer overrule the earlier ones
NormalizationStatus(t) ==
  CASE t.standard = "native" -> IF Nobody \in Endpoints(t) THEN "failed" ELSE "resolved"
    [] t.standard = "other" -> "unsupported_asset"
    [] t.standard = "fungible" ->
         IF Nobody \in Endpoints(t) \/ t.ownerIsAccount THEN "unresolved_owner"
         ELSE IF t.amount < 0 THEN "failed"
         ELSE "resolved"

PoisoningEligible(t) == NormalizationStatus(t) = "resolved" /\ t.from # t.to

\* the end of a threshold's window is not part of it
Active(r, t) == r.asset = t.asset /\ r.from <= t.at /\ t.at < r.to

DustStatus(t) ==
  CASE AmountRaw(t) < 0 -> "unknown"
    [] AmountRaw(t) = 0 -> "true"
    [] AmountRaw(t) > 0 ->
         IF \A r \in Threshold : ~Active(r, t) THEN "unknown"
         ELSE IF \E r \in Threshold : Active(r, t) /\ AmountRaw(t) <= r.amount THEN "true"
         ELSE "false"

\* MapWalletRelation
Observed(ts) ==
  {t \in ts : Nobody \notin Endpoints(t) /\ t.from # t.to /\ Focal \in Endpoints(t)}
Inbound(t) == t.from # Focal
Counterparty(t) == IF Inbound(t) THEN t.from ELSE t.to

-----------------------------------------------------------------------------
(* Likeness.                                                               *)

Shorter(a, b) == IF Len(a) < Len(b) THEN Len(a) ELSE Len(b)

\* the greatest number n up to the length of both for which they agree
CommonPrefix(a, b) ==
  CHOOSE n \in 0..Shorter(a, b) :
    /\ \A i \in 1..n : a[i] = b[i]
    /\ n < Shorter(a, b) => a[n + 1] # b[n + 1]
CommonSuffix(a, b) ==
  CHOOSE n \in 0..Shorter(a, b) :
    /\ \A i \in 1..n : a[Len(a) + 1 - i] = b[Len(b) + 1 - i]
    /\ n < Shorter(a, b) => a[Len(a) - n] # b[Len(b) - n]

Alike(a, b) ==
  \/ CommonPrefix(a, b) >= PrefixMin /\ CommonSuffix(a, b) >= SuffixMin
  \/ CommonPrefix(a, b) >= SingleSideMin
  \/ CommonSuffix(a, b) >= SingleSideMin

Score(a, b) == CommonPrefix(a, b) + CommonSuffix(a, b)

\* a < b as strings
Precedes(a, b) ==
  \E i \in 1..Len(b) :
    /\ \A j \in 1..(i - 1) : j <= Len(a) /\ a[j] = b[j]
    /\ i > Len(a) \/ a[i] < b[i]

\* a is a better match for x than b
Beats(x, a, b) ==
  \/ Score(x, a) > Score(x, b)
  \/ Score(x, a) = Score(x, b) /\ Precedes(a, b)

-----------------------------------------------------------------------------
(* The gates: "pass", "fail" or "unknown".                                 *)

BaselineComplete == ~partial.baseline

Seen == {Counterparty(t) : t \in Observed(baseline)}

\* the legitimate baseline is what went out and was no dust
Payments ==
  {t \in Observed(baseline) : ~Inbound(t) /\ PoisoningEligible(t) /\ DustStatus(t) = "false"}
Legit == {Counterparty(t) : t \in Payments}

\* the last payment in the baseline: the value of the map
LegitAt(a) ==
  CHOOSE d \in {t.at : t \in {p \in Payments : Counterparty(p) = a}} :
    \A p \in Payments : Counterparty(p) = a => p.at <= d

Bool(b) == IF b THEN "pass" ELSE "fail"

\* the gates of an observation itself; the supported assets are the resolved ones
BaseGates(t) == Inbound(t) /\ PoisoningEligible(t)

ZeroOrDust(t) ==
  CASE DustStatus(t) = "true" -> "pass"
    [] DustStatus(t) = "false" -> "fail"
    [] DustStatus(t) = "unknown" -> "unknown"

NewCounterparty(t) ==
  IF ~BaselineComplete THEN "unknown" ELSE Bool(Counterparty(t) \notin Seen)

\* the observations of a counterparty that may count as injections
InboundOf(a, verdict) ==
  {t \in Observed(scan) : Counterparty(t) = a /\ BaseGates(t) /\ ZeroOrDust(t) = verdict}
KnownQualifying(a) == Cardinality(InboundOf(a, "pass"))
UnknownPotential(a) == Cardinality(InboundOf(a, "unknown"))

\* slip: what may be dust counts as dust
MinInjectionMaybe(a) == Bool(KnownQualifying(a) + UnknownPotential(a) >= MinInjectionCount)

MinInjection(a) ==
  IF KnownQualifying(a) >= MinInjectionCount THEN "pass"
  ELSE IF KnownQualifying(a) + UnknownPotential(a) < MinInjectionCount THEN "fail"
  ELSE "unknown"

Lookalike == IF ~BaselineComplete THEN "unknown" ELSE Bool(matched # Nobody)

\* slip: a match is too old only on the day after the limit
RecentWithADay(t) == LET gap == t.at - LegitAt(matched) IN 0 < gap /\ gap <= RecencyDays + 1
Recent(t) == LET gap == t.at - LegitAt(matched) IN 0 < gap /\ gap <= RecencyDays

RecencyValid(t) ==
  IF ~BaselineComplete THEN "unknown" ELSE Bool(matched # Nobody /\ Recent(t))

AddressInequality(t) ==
  IF Lookalike = "unknown" THEN "unknown"
  ELSE Bool(Lookalike = "pass" /\ Counterparty(t) # matched)

Gates(t) ==
  [normalization_resolved |-> Bool(NormalizationStatus(t) = "resolved"),
   poisoning_eligible |-> Bool(PoisoningEligible(t)),
   asset_type_supported |-> Bool(t.standard # "other"),
   inbound |-> Bool(Inbound(t)),
   zero_or_dust |-> ZeroOrDust(t),
   is_new_counterparty |-> NewCounterparty(t),
   baseline_complete |-> Bool(BaselineComplete),
   lookalike_match |-> Lookalike,
   recency_valid |-> RecencyValid(t),
   address_inequality |-> AddressInequality(t),
   min_injection_count_met |-> MinInjection(Counterparty(t))]

\* EvaluateCandidate: any unknown gate blocks, and is reported
UnknownGates(t) == {g \in DOMAIN Gates(t) : Gates(t)[g] = "unknown"}
CanEmit(t) == \A g \in DOMAIN Gates(t) : Gates(t)[g] = "pass"

-----------------------------------------------------------------------------
(* The loops of MaterializeCandidates.                                     *)

NoTransfer == [id |-> 0]

Init ==
  /\ baseline \in SUBSET BaselinePool
  /\ scan \in SUBSET ScanPool
  /\ partial \in [baseline : BOOLEAN, scan : BOOLEAN]
  /\ pc = "next"
  /\ todo = Observed(scan)
  /\ current = NoTransfer
  /\ left = {}
  /\ matched = Nobody
  /\ emitted = {}
  /\ unknown = {}
  /\ incomplete = FALSE

\* with a partial baseline there is nothing to compare with
ToCompare == IF BaselineComplete THEN Legit ELSE {}

\* the next observation
Take(t) ==
  /\ pc = "next"
  /\ t \in todo /\ \A u \in todo : t.id <= u.id
  /\ todo' = todo \ {t}
  /\ current' = t
  /\ left' = ToCompare
  /\ matched' = Nobody
  /\ pc' = "compare"
  /\ UNCHANGED <<windows, emitted, unknown, incomplete>>

\* slip: the tie-break is left out, the first one wins
OutScores(x, a) == Alike(x, a) /\ (matched = Nobody \/ Score(x, a) > Score(x, matched))
Replaces(x, a) == Alike(x, a) /\ (matched = Nobody \/ Beats(x, a, matched))

Compare(a) ==
  /\ pc = "compare"
  /\ a \in left
  /\ left' = left \ {a}
  /\ matched' = IF Replaces(Counterparty(current), a) THEN a ELSE matched
  /\ UNCHANGED <<windows, pc, todo, current, emitted, unknown, incomplete>>

Candidate(t) ==
  [transfer |-> t.id, matched |-> matched,
   repeats |-> KnownQualifying(Counterparty(t))]

Decide ==
  /\ pc = "compare" /\ left = {}
  /\ unknown' = unknown \cup UnknownGates(current)
  /\ emitted' = IF CanEmit(current) THEN emitted \cup {Candidate(current)} ELSE emitted
  /\ incomplete' = (incomplete \/ UnknownGates(current) # {})
  /\ pc' = "next"
  /\ UNCHANGED <<windows, todo, current, left, matched>>

\* RunWalletCoreSync adds what the fetches left out
Finish ==
  /\ pc = "next" /\ todo = {}
  /\ incomplete' = (incomplete \/ partial.baseline \/ partial.scan)
  /\ pc' = "done"
  /\ UNCHANGED <<windows, todo, current, left, matched, emitted, unknown>>

Next == (\E t \in todo : Take(t)) \/ (\E a \in left : Compare(a)) \/ Decide \/ Finish

Spec == Init /\ [][Next]_vars

-----------------------------------------------------------------------------
(* What a candidate is, said of the transfers themselves (section 7 of     *)
(* docs/architecture.md), when nothing is unknown: small holds for the     *)
(* transfers that are dust.                                                *)

Injections(ts, dust) ==
  {t \in Observed(ts) : Inbound(t) /\ PoisoningEligible(t) /\ (AmountRaw(t) = 0 \/ t \in dust)}

Paid(dust) ==
  {t \in Observed(baseline) : ~Inbound(t) /\ PoisoningEligible(t) /\ AmountRaw(t) # 0 /\ t \notin dust}

LikePaid(x, dust) == {a \in {t.to : t \in Paid(dust)} : Alike(x, a)}
BestLike(x, dust) ==
  {a \in LikePaid(x, dust) : \A b \in LikePaid(x, dust) : b = a \/ Beats(x, a, b)}

\* the last payment to a was some days before t, and not too many
Follows(t, a, dust) ==
  /\ \A p \in Paid(dust) : p.to = a => p.at < t.at
  /\ \E p \in Paid(dust) : p.to = a /\ t.at - p.at <= RecencyDays

Poisons(t, a, ts, dust) ==
  /\ t \in Injections(ts, dust)
  /\ \A b \in Observed(baseline) : t.from \notin Endpoints(b)
  /\ a \in BestLike(t.from, dust) /\ Follows(t, a, dust)
  /\ Cardinality({u \in Injections(ts, dust) : u.from = t.from}) >= MinInjectionCount

\* the transfers that are dust if those of us are, of the ones nobody knows of
DustWith(us) == {t \in baseline \cup ScanPool : DustStatus(t) = "true"} \cup us
UnknownDust(ts) == {t \in Observed(ts) : DustStatus(t) = "unknown"}

\* a partial fetch may have left out any of these
Missing == IF partial.scan THEN ScanPool \ scan ELSE {}

-----------------------------------------------------------------------------
(* The properties.                                                         *)

\* Each variable holds values of its kind.
TypeOK ==
  /\ baseline \in SUBSET BaselinePool
  /\ scan \in SUBSET ScanPool
  /\ partial \in [baseline : BOOLEAN, scan : BOOLEAN]
  /\ pc \in {"next", "compare", "done"}
  /\ todo \in SUBSET Observed(scan)
  /\ current \in Observed(scan) \cup {NoTransfer}
  /\ left \in SUBSET Legit
  /\ matched \in Legit \cup {Nobody}
  /\ emitted \in SUBSET [transfer : Nat, matched : Address, repeats : Nat]
  /\ unknown \in SUBSET {"zero_or_dust", "is_new_counterparty", "lookalike_match",
                         "recency_valid", "address_inequality", "min_injection_count_met"}
  /\ incomplete \in BOOLEAN

\* Whatever order the map is ranged over in, the counterparty an observation is
\* matched with is the best of all that pass: none that passes is left out, and none
\* beats it (evaluateLookalikeAndRecency, "stable reruns").
MatchIsBest ==
  pc = "compare" /\ left = {} /\ BaselineComplete =>
    LET x == Counterparty(current)
        passing == {a \in Legit : Alike(x, a)}
    IN IF passing = {} THEN matched = Nobody
       ELSE matched \in passing /\ \A a \in passing : ~Beats(x, a, matched)

\* A candidate stays one whatever is found out later: which of the scan's transfers
\* of unknown dust are dust, and what a truncated scan left out (EvaluateCandidate
\* fails closed).  Payments of unknown dust count as dust, as in the code.
EmittedIsCertain ==
  pc = "done" => \A c \in emitted :
    \E t \in scan : t.id = c.transfer /\
      \A more \in SUBSET Missing : \A us \in SUBSET UnknownDust(scan \cup more) :
        Poisons(t, c.matched, scan \cup more, DustWith(us \cup UnknownDust(baseline)))

\* A window that is not incomplete has no other candidates than those of section 7,
\* with the repeats of each, where thresholds are known for all that was paid.
CompleteIsExact ==
  pc = "done" /\ ~incomplete /\ UnknownDust(baseline) = {} =>
    LET Poisoned == {p \in scan \X Address : Poisons(p[1], p[2], scan, DustWith({}))}
        Repeats(t) == Cardinality({u \in Injections(scan, DustWith({})) : u.from = t.from})
    IN emitted = {[transfer |-> p[1].id, matched |-> p[2], repeats |-> Repeats(p[1])] :
                  p \in Poisoned}
=============================================================================
