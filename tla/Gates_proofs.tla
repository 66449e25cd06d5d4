---------------------------- MODULE Gates_proofs ----------------------------
(***************************************************************************)
(* Theorems about Gates, for all addresses, transfers, thresholds and      *)
(* parameters.                                                             *)
(***************************************************************************)
EXTENDS Gates, FiniteSetTheorems, WellFoundedInduction, TLAPS

-----------------------------------------------------------------------------
(* Numbers and sequences.                                                  *)

LEMMA LeastOf ==
  ASSUME NEW S \in SUBSET Nat, S # {}
  PROVE  \E n \in S : \A m \in S : n <= m
  <1>1. \E n \in S : \A m \in S : ~(m < n)
    <2>1. PICK n \in S : \A m \in S : <<m, n>> \notin OpToRel(<, Nat)
      BY NatLessThanWellFounded, WFMin, Zenon
    <2>2. QED  BY <2>1, Zenon DEF OpToRel
  <1>2. QED  BY <1>1

LEMMA AddressType ==
  ASSUME NEW a \in Address
  PROVE  a \in Seq(Nat) /\ Len(a) \in Nat /\ \A i \in 1..Len(a) : a[i] \in Nat
  BY AddressAssumption

LEMMA ShorterType ==
  ASSUME NEW a \in Address, NEW b \in Address
  PROVE  /\ Shorter(a, b) \in Nat
         /\ Shorter(a, b) <= Len(a) /\ Shorter(a, b) <= Len(b)
         /\ Shorter(a, b) = Len(a) \/ Shorter(a, b) = Len(b)
  BY AddressType DEF Shorter

\* what commonPrefixLength returns
LEMMA PrefixSpec ==
  ASSUME NEW a \in Address, NEW b \in Address
  PROVE  LET n == CommonPrefix(a, b)
         IN /\ n \in 0..Shorter(a, b)
            /\ \A i \in 1..n : a[i] = b[i]
            /\ n < Shorter(a, b) => a[n + 1] # b[n + 1]
  <1> DEFINE S == {k \in 0..Shorter(a, b) : k = Shorter(a, b) \/ a[k + 1] # b[k + 1]}
  <1>1. Shorter(a, b) \in S /\ S \in SUBSET Nat
    BY ShorterType
  <1>2. PICK n \in S : \A m \in S : n <= m
    BY <1>1, LeastOf
  <1>3. \A i \in 1..n : a[i] = b[i]
    <2>1. SUFFICES ASSUME NEW i \in 1..n, a[i] # b[i] PROVE FALSE
      OBVIOUS
    <2>2. i - 1 \in S
      BY <2>1, <1>2, ShorterType
    <2>3. QED  BY <2>1, <2>2, <1>2, ShorterType
  <1>4. /\ n \in 0..Shorter(a, b)
        /\ \A i \in 1..n : a[i] = b[i]
        /\ n < Shorter(a, b) => a[n + 1] # b[n + 1]
    BY <1>2, <1>3, ShorterType
  <1>5. QED  BY <1>4, Zenon DEF CommonPrefix

LEMMA SuffixType ==
  ASSUME NEW a \in Address, NEW b \in Address
  PROVE  CommonSuffix(a, b) \in Nat
  <1> DEFINE S == {k \in 0..Shorter(a, b) : k = Shorter(a, b) \/ a[Len(a) - k] # b[Len(b) - k]}
  <1>1. Shorter(a, b) \in S /\ S \in SUBSET Nat
    BY ShorterType
  <1>2. PICK n \in S : \A m \in S : n <= m
    BY <1>1, LeastOf
  <1>3. \A i \in 1..n : a[Len(a) + 1 - i] = b[Len(b) + 1 - i]
    <2>1. SUFFICES ASSUME NEW i \in 1..n, a[Len(a) + 1 - i] # b[Len(b) + 1 - i] PROVE FALSE
      OBVIOUS
    <2>2. Len(a) - (i - 1) = Len(a) + 1 - i /\ Len(b) - (i - 1) = Len(b) + 1 - i
      BY AddressType, <1>2
    <2>3. i - 1 \in S
      BY <2>1, <2>2, <1>2, ShorterType
    <2>4. QED  BY <2>1, <2>3, <1>2, ShorterType
  <1>4. /\ n \in 0..Shorter(a, b)
        /\ \A i \in 1..n : a[Len(a) + 1 - i] = b[Len(b) + 1 - i]
        /\ n < Shorter(a, b) => a[Len(a) - n] # b[Len(b) - n]
    BY <1>2, <1>3, ShorterType
  <1>5. CommonSuffix(a, b) \in 0..Shorter(a, b)
    BY <1>4, Zenon DEF CommonSuffix
  <1>6. QED  BY <1>5, ShorterType

LEMMA ScoreType ==
  ASSUME NEW a \in Address, NEW b \in Address
  PROVE  Score(a, b) \in Nat
  BY PrefixSpec, SuffixType, ShorterType DEF Score

-----------------------------------------------------------------------------
(* The order of matches.                                                   *)

LEMMA PrecedesOnce ==
  ASSUME NEW a \in Address
  PROVE  ~Precedes(a, a)
  BY AddressType DEF Precedes

LEMMA PrecedesTransitive ==
  ASSUME NEW a \in Address, NEW b \in Address, NEW c \in Address,
         Precedes(a, b), Precedes(b, c)
  PROVE  Precedes(a, c)
  <1>1. PICK i \in 1..Len(b) : /\ \A j \in 1..(i - 1) : j <= Len(a) /\ a[j] = b[j]
                               /\ i > Len(a) \/ a[i] < b[i]
    BY DEF Precedes
  <1>2. PICK k \in 1..Len(c) : /\ \A j \in 1..(k - 1) : j <= Len(b) /\ b[j] = c[j]
                               /\ k > Len(b) \/ b[k] < c[k]
    BY DEF Precedes
  <1>3. CASE i < k
    <2>1. i \in 1..Len(c)
      BY <1>3, AddressType
    <2>2. \A j \in 1..(i - 1) : j <= Len(a) /\ a[j] = c[j]
      BY <1>1, <1>2, <1>3, AddressType
    <2>3. i > Len(a) \/ a[i] < c[i]
      BY <1>1, <1>2, <1>3, AddressType
    <2>4. QED  BY <2>1, <2>2, <2>3 DEF Precedes
  <1>4. CASE k <= i
    <2>1. \A j \in 1..(k - 1) : j <= Len(a) /\ a[j] = c[j]
      BY <1>1, <1>2, <1>4, AddressType
    <2>2. k > Len(a) \/ a[k] < c[k]
      <3>1. k <= Len(b) /\ b[k] < c[k]
        BY <1>1, <1>2, <1>4, AddressType
      <3>2. CASE k = i
        BY <3>1, <3>2, <1>1, AddressType
      <3>3. CASE k < i
        BY <3>1, <3>3, <1>1, AddressType
      <3>4. QED  BY <3>2, <3>3, <1>4, AddressType
    <2>3. QED  BY <2>1, <2>2 DEF Precedes
  <1>5. QED  BY <1>3, <1>4, AddressType

LEMMA PrecedesTotal ==
  ASSUME NEW a \in Address, NEW b \in Address, a # b
  PROVE  Precedes(a, b) \/ Precedes(b, a)
  <1> DEFINE n == CommonPrefix(a, b)
  <1>1. /\ n \in 0..Shorter(a, b)
        /\ \A i \in 1..n : a[i] = b[i]
        /\ n < Shorter(a, b) => a[n + 1] # b[n + 1]
    BY PrefixSpec
  <1>2. n \in Nat /\ n <= Len(a) /\ n <= Len(b) /\ Len(a) \in Nat /\ Len(b) \in Nat
    BY <1>1, ShorterType, AddressType
  <1> HIDE DEF n
  <1>3. CASE n = Len(a) /\ n = Len(b)
    <2>1. a = [i \in 1..Len(a) |-> a[i]] /\ b = [i \in 1..Len(b) |-> b[i]]
      BY AddressType
    <2>2. \A i \in 1..Len(a) : a[i] = b[i]
      BY <1>3, <1>1
    <2>3. QED  BY <2>1, <2>2, <1>3
  <1>4. CASE n = Len(a) /\ n < Len(b)
    <2>1. n + 1 \in 1..Len(b) /\ n + 1 > Len(a)
      BY <1>4, <1>2
    <2>2. \A j \in 1..((n + 1) - 1) : j <= Len(a) /\ a[j] = b[j]
      BY <1>1, <1>2
    <2>3. QED  BY <2>1, <2>2 DEF Precedes
  <1>5. CASE n < Len(a) /\ n = Len(b)
    <2>1. n + 1 \in 1..Len(a) /\ n + 1 > Len(b)
      BY <1>5, <1>2
    <2>2. \A j \in 1..((n + 1) - 1) : j <= Len(b) /\ b[j] = a[j]
      BY <1>1, <1>2
    <2>3. QED  BY <2>1, <2>2 DEF Precedes
  <1>6. CASE n < Len(a) /\ n < Len(b)
    <2>1. n < Shorter(a, b) /\ n + 1 \in 1..Len(a) /\ n + 1 \in 1..Len(b)
      BY <1>6, <1>2, ShorterType
    <2>2. a[n + 1] < b[n + 1] \/ b[n + 1] < a[n + 1]
      BY <2>1, <1>1, AddressType
    <2>3. \A j \in 1..((n + 1) - 1) : j <= Len(a) /\ j <= Len(b) /\ a[j] = b[j]
      BY <1>1, <1>2
    <2>4. QED  BY <2>1, <2>2, <2>3 DEF Precedes
  <1>7. QED  BY <1>2, <1>3, <1>4, <1>5, <1>6

LEMMA BeatsIsOrder ==
  ASSUME NEW x \in Address, NEW a \in Address, NEW b \in Address, NEW c \in Address
  PROVE  /\ ~Beats(x, a, a)
         /\ Beats(x, a, b) /\ Beats(x, b, c) => Beats(x, a, c)
         /\ a # b => Beats(x, a, b) \/ Beats(x, b, a)
  <1>1. Score(x, a) \in Nat /\ Score(x, b) \in Nat /\ Score(x, c) \in Nat
    BY ScoreType
  <1>2. /\ ~Precedes(a, a)
        /\ Precedes(a, b) /\ Precedes(b, c) => Precedes(a, c)
        /\ a # b => Precedes(a, b) \/ Precedes(b, a)
    BY PrecedesOnce, PrecedesTransitive, PrecedesTotal
  <1>3. QED  BY <1>1, <1>2 DEF Beats

-----------------------------------------------------------------------------
(* Types.                                                                  *)

LEMMA ObservedType ==
  ASSUME NEW ts \in SUBSET (BaselinePool \cup ScanPool), NEW t \in Observed(ts)
  PROVE  /\ t \in ts /\ t \in Transfers /\ t.id \in Nat /\ t.at \in Nat
         /\ t.from \in Address /\ t.to \in Address /\ Counterparty(t) \in Address
         /\ Inbound(t) => t.to = Focal /\ Counterparty(t) = t.from
         /\ ~Inbound(t) => t.from = Focal /\ Counterparty(t) = t.to
  <1>1. t \in ts /\ t \in Transfers
    BY PoolAssumption DEF Observed
  <1>2. t.id \in Nat /\ t.at \in Nat /\ t.from \in Address \cup {Nobody} /\ t.to \in Address \cup {Nobody}
    BY <1>1 DEF Transfers
  <1>3. t.from # Nobody /\ t.to # Nobody /\ (t.from = Focal \/ t.to = Focal)
    BY DEF Observed, Endpoints
  <1>4. QED  BY <1>1, <1>2, <1>3 DEF Counterparty, Inbound

LEMMA LegitType ==
  ASSUME baseline \in SUBSET BaselinePool
  PROVE  Legit \in SUBSET Address /\ Nobody \notin Legit
  BY ObservedType, AddressAssumption DEF Legit, Payments

LEMMA InboundOfFinite ==
  ASSUME scan \in SUBSET ScanPool, NEW a, NEW verdict
  PROVE  IsFiniteSet(InboundOf(a, verdict)) /\ Cardinality(InboundOf(a, verdict)) \in Nat
  <1>1. InboundOf(a, verdict) \in SUBSET ScanPool
    BY DEF InboundOf, Observed
  <1>2. QED  BY <1>1, PoolAssumption, FS_Subset, FS_CardinalityType

LEMMA UnknownNames ==
  ASSUME NEW t
  PROVE  UnknownGates(t) \subseteq
           {"zero_or_dust", "is_new_counterparty", "lookalike_match",
            "recency_valid", "address_inequality", "min_injection_count_met"}
  <1>1. \A b \in BOOLEAN : Bool(b) # "unknown"
    BY DEF Bool
  <1>2. /\ Gates(t)["normalization_resolved"] # "unknown"
        /\ Gates(t)["poisoning_eligible"] # "unknown"
        /\ Gates(t)["asset_type_supported"] # "unknown"
        /\ Gates(t)["inbound"] # "unknown"
        /\ Gates(t)["baseline_complete"] # "unknown"
    BY DEF Gates, Bool
  <1>3. DOMAIN Gates(t) =
          {"normalization_resolved", "poisoning_eligible", "asset_type_supported", "inbound",
           "zero_or_dust", "is_new_counterparty", "baseline_complete", "lookalike_match",
           "recency_valid", "address_inequality", "min_injection_count_met"}
    BY DEF Gates
  <1>4. QED  BY <1>2, <1>3 DEF UnknownGates

LEMMA EmittedGates ==
  ASSUME NEW t, CanEmit(t)
  PROVE  /\ BaselineComplete /\ BaseGates(t) /\ ZeroOrDust(t) = "pass"
         /\ Counterparty(t) \notin Seen
         /\ matched # Nobody /\ Recent(t) /\ MinInjection(Counterparty(t)) = "pass"
  <1>1. /\ Bool(PoisoningEligible(t)) = "pass" /\ Bool(Inbound(t)) = "pass"
        /\ Bool(BaselineComplete) = "pass" /\ ZeroOrDust(t) = "pass"
        /\ NewCounterparty(t) = "pass" /\ RecencyValid(t) = "pass"
        /\ MinInjection(Counterparty(t)) = "pass"
    BY DEF CanEmit, Gates
  <1>2. QED  BY <1>1 DEF Bool, BaseGates, NewCounterparty, RecencyValid

-----------------------------------------------------------------------------
(* The invariant: the match is the best of the counterparties it was       *)
(* compared with, and what makes a candidate certain is known of each      *)
(* that was emitted.  Nothing but the windows goes into the latter.        *)

Best(x, a, among) ==
  /\ a \in among /\ Alike(x, a)
  /\ \A b \in among : Alike(x, b) => ~Beats(x, b, a)

RecentAfter(t, a) == LET gap == t.at - LegitAt(a) IN 0 < gap /\ gap <= RecencyDays

Emittable(t, a) ==
  /\ BaselineComplete /\ BaseGates(t) /\ ZeroOrDust(t) = "pass"
  /\ Counterparty(t) \notin Seen
  /\ Best(Counterparty(t), a, Legit) /\ RecentAfter(t, a)
  /\ MinInjection(Counterparty(t)) = "pass"

AtWork == pc = "compare" => current \in Observed(scan) /\ left \subseteq ToCompare

BestSoFar ==
  pc = "compare" =>
    \/ /\ matched = Nobody
       /\ \A a \in ToCompare \ left : ~Alike(Counterparty(current), a)
    \/ Best(Counterparty(current), matched, ToCompare \ left)

AllEmittable ==
  \A c \in emitted : \E t \in Observed(scan) : t.id = c.transfer /\ Emittable(t, c.matched)

IInv == TypeOK /\ AtWork /\ BestSoFar /\ AllEmittable

\* what is read of the windows is the same after every step
LEMMA Frame ==
  ASSUME UNCHANGED windows
  PROVE  /\ Observed(scan)' = Observed(scan) /\ Legit' = Legit /\ ToCompare' = ToCompare
         /\ \A x, a, S : Best(x, a, S)' <=> Best(x, a, S)
         /\ \A t : Counterparty(t)' = Counterparty(t)
         /\ \A t, a : Emittable(t, a)' <=> Emittable(t, a)
  <1>1. /\ Observed(scan)' = Observed(scan) /\ Observed(baseline)' = Observed(baseline)
        /\ BaselineComplete' = BaselineComplete
    BY DEF windows, Observed, Endpoints, BaselineComplete
  <1>2. \A t : /\ Counterparty(t)' = Counterparty(t) /\ BaseGates(t)' = BaseGates(t)
               /\ ZeroOrDust(t)' = ZeroOrDust(t)
    OBVIOUS
  <1>3. Payments' = Payments
    BY <1>1 DEF Payments
  <1>4. Legit' = Legit /\ Seen' = Seen
    BY <1>1, <1>3 DEF Legit, Seen
  <1>5. \A a : LegitAt(a)' = LegitAt(a)
    BY <1>3 DEF LegitAt
  <1>6. \A a : MinInjection(a)' = MinInjection(a)
    BY <1>1 DEF MinInjection, KnownQualifying, UnknownPotential, InboundOf
  <1>7. \A x, a, S : Best(x, a, S)' <=> Best(x, a, S)
    OBVIOUS
  <1>8. \A t, a : RecentAfter(t, a)' <=> RecentAfter(t, a)
    BY <1>5 DEF RecentAfter
  <1>9. ToCompare' = ToCompare
    BY <1>1, <1>4 DEF ToCompare
  <1>10. \A t, a : Emittable(t, a)' <=> Emittable(t, a)
    BY <1>1, <1>2, <1>4, <1>6, <1>7, <1>8 DEF Emittable
  <1>11. QED  BY <1>1, <1>2, <1>4, <1>7, <1>9, <1>10

\* every gate of an observation passes that is emittable with its match
LEMMA EmittablePasses ==
  ASSUME TypeOK, NEW t \in Observed(scan), Emittable(t, matched), matched # Nobody
  PROVE  CanEmit(t)
  <1>1. /\ BaselineComplete /\ BaseGates(t) /\ ZeroOrDust(t) = "pass"
        /\ Counterparty(t) \notin Seen /\ RecentAfter(t, matched)
        /\ MinInjection(Counterparty(t)) = "pass" /\ matched \in Legit
    BY DEF Emittable, Best
  <1>2. Inbound(t) /\ PoisoningEligible(t) /\ NormalizationStatus(t) = "resolved"
    BY <1>1 DEF BaseGates, PoisoningEligible
  <1>3. t.standard # "other"
    BY <1>2 DEF NormalizationStatus
  <1>4. Counterparty(t) # matched
    BY <1>1 DEF Legit, Seen, Payments
  <1>5. NewCounterparty(t) = "pass" /\ Lookalike = "pass"
    BY <1>1 DEF NewCounterparty, Lookalike, Bool
  <1>6. RecencyValid(t) = "pass"
    BY <1>1 DEF RecencyValid, RecentAfter, Recent, Bool
  <1>7. AddressInequality(t) = "pass"
    BY <1>4, <1>5 DEF AddressInequality, Bool
  <1>8. Gates(t) =
          [normalization_resolved |-> "pass", poisoning_eligible |-> "pass",
           asset_type_supported |-> "pass", inbound |-> "pass", zero_or_dust |-> "pass",
           is_new_counterparty |-> "pass", baseline_complete |-> "pass",
           lookalike_match |-> "pass", recency_valid |-> "pass",
           address_inequality |-> "pass", min_injection_count_met |-> "pass"]
    BY <1>1, <1>2, <1>3, <1>5, <1>6, <1>7 DEF Gates, Bool
  <1>9. QED  BY <1>8 DEF CanEmit

\* an observation is emitted when it is decided if there is anyone to emit it with,
\* and that is its match
LEMMA DecideExact ==
  ASSUME IInv, Decide
  PROVE  /\ CanEmit(current) => Emittable(current, matched)
         /\ \A a \in Legit : Emittable(current, a) => CanEmit(current) /\ a = matched
  <1>1. /\ current \in Observed(scan) /\ TypeOK /\ left = {} /\ pc = "compare"
        /\ baseline \in SUBSET BaselinePool /\ scan \in SUBSET ScanPool
    BY DEF Decide, IInv, AtWork, TypeOK
  <1>2. Legit \in SUBSET Address /\ Nobody \notin Legit /\ Counterparty(current) \in Address
    BY <1>1, LegitType, ObservedType
  <1>3. BaselineComplete =>
          \/ matched = Nobody /\ \A b \in Legit : ~Alike(Counterparty(current), b)
          \/ Best(Counterparty(current), matched, Legit)
    BY <1>1 DEF IInv, BestSoFar, ToCompare
  <1>4. CanEmit(current) => Emittable(current, matched)
    BY <1>3, EmittedGates DEF Emittable, Recent, RecentAfter
  <1>5. ASSUME NEW a \in Legit, Emittable(current, a)
        PROVE  CanEmit(current) /\ a = matched
    <2>1. BaselineComplete /\ Best(Counterparty(current), a, Legit)
      BY <1>5 DEF Emittable
    <2>2. Best(Counterparty(current), matched, Legit)
      BY <1>3, <2>1 DEF Best
    <2>3. a = matched
      BY <1>2, <2>1, <2>2, BeatsIsOrder DEF Best
    <2>4. QED  BY <1>1, <1>2, <1>5, <2>3, EmittablePasses
  <1>6. QED  BY <1>4, <1>5

LEMMA InvInit == Init => IInv
  BY DEF Init, IInv, TypeOK, AtWork, BestSoFar, AllEmittable

LEMMA InvStep == IInv /\ [Next]_vars => IInv'
  <1> SUFFICES ASSUME IInv, [Next]_vars PROVE IInv'
    OBVIOUS
  <1>1. baseline \in SUBSET BaselinePool /\ scan \in SUBSET ScanPool
    BY DEF IInv, TypeOK
  <1>2. UNCHANGED windows
    BY DEF Next, Take, Compare, Decide, Finish, vars
  <1>3. /\ baseline' \in SUBSET BaselinePool /\ scan' \in SUBSET ScanPool
        /\ partial' \in [baseline : BOOLEAN, scan : BOOLEAN]
        /\ Observed(scan)' = Observed(scan) /\ Legit' = Legit /\ ToCompare' = ToCompare
    BY <1>2, Frame DEF IInv, TypeOK, windows
  <1>4. Legit \in SUBSET Address /\ Nobody \notin Legit /\ ToCompare \in SUBSET Legit
    BY <1>1, LegitType DEF ToCompare
  <1>5. ASSUME emitted' = emitted PROVE AllEmittable'
    BY <1>2, <1>3, <1>5, Frame DEF IInv, AllEmittable
  <1>6. ASSUME NEW t \in todo, Take(t) PROVE IInv'
    <2>1. TypeOK'
      BY <1>3, <1>4, <1>6 DEF Take, IInv, TypeOK
    <2>2. AtWork'
      BY <1>3, <1>6 DEF Take, IInv, TypeOK, AtWork
    <2>3. BestSoFar'
      BY <1>3, <1>6 DEF Take, BestSoFar
    <2>4. AllEmittable'
      BY <1>5, <1>6 DEF Take
    <2>5. QED  BY <2>1, <2>2, <2>3, <2>4 DEF IInv
  <1>7. ASSUME NEW a \in left, Compare(a) PROVE IInv'
    <2>1. TypeOK'
      BY <1>3, <1>7 DEF Compare, IInv, TypeOK
    <2>2. AtWork'
      BY <1>3, <1>7 DEF Compare, IInv, AtWork
    <2>3. BestSoFar'
      <3> DEFINE x == Counterparty(current)
                 among == ToCompare \ left
                 more == ToCompare \ left'
      <3>1. x \in Address
        BY <1>1, <1>7, ObservedType DEF Compare, IInv, AtWork
      <3>2. /\ a \in Address /\ a # Nobody /\ a \in more
            /\ among \in SUBSET Address /\ more = among \cup {a}
        BY <1>4, <1>7 DEF Compare, IInv, AtWork
      <3>3. \/ matched = Nobody /\ \A b \in among : ~Alike(x, b)
            \/ Best(x, matched, among)
        BY <1>7 DEF Compare, IInv, BestSoFar
      <3>4. matched' = IF Replaces(x, a) THEN a ELSE matched
        BY <1>7 DEF Compare
      <3> HIDE DEF x, among, more
      <3>5. \/ matched' = Nobody /\ \A b \in more : ~Alike(x, b)
            \/ Best(x, matched', more)
        <4>1. CASE ~Alike(x, a)
          BY <3>2, <3>3, <3>4, <4>1 DEF Replaces, Best
        <4>2. CASE Alike(x, a) /\ matched = Nobody
          <5>1. \A b \in among : ~Alike(x, b)
            BY <3>2, <3>3, <4>2, <1>4, AddressAssumption DEF Best
          <5>2. ~Beats(x, a, a) /\ matched' = a
            BY <3>1, <3>2, <3>4, <4>2, BeatsIsOrder DEF Replaces
          <5>3. QED  BY <3>2, <4>2, <5>1, <5>2 DEF Best
        <4>3. CASE Alike(x, a) /\ matched # Nobody
          <5>1. Best(x, matched, among) /\ matched \in Address
            BY <3>2, <3>3, <4>3 DEF Best
          <5>2. ~Beats(x, a, a)
            BY <3>1, <3>2, BeatsIsOrder
          <5>3. CASE Beats(x, a, matched)
            <6>1. \A b \in among : Alike(x, b) => ~Beats(x, b, a)
              BY <3>1, <3>2, <5>1, <5>3, BeatsIsOrder DEF Best
            <6>2. QED  BY <3>2, <3>4, <4>3, <5>2, <5>3, <6>1 DEF Best, Replaces
          <5>4. CASE ~Beats(x, a, matched)
            BY <3>2, <3>4, <4>3, <5>1, <5>4 DEF Best, Replaces
          <5>5. QED  BY <5>3, <5>4
        <4>4. QED  BY <4>1, <4>2, <4>3
      <3>6. Counterparty(current)' = x /\ (ToCompare \ left)' = more
        BY <1>2, <1>3, <1>7, Frame DEF Compare, x, more
      <3>7. QED  BY <3>5, <3>6, <1>2, Frame DEF BestSoFar
    <2>4. AllEmittable'
      BY <1>5, <1>7 DEF Compare
    <2>5. QED  BY <2>1, <2>2, <2>3, <2>4 DEF IInv
  <1>8. CASE Decide
    <2>1. /\ current \in Observed(scan)
          /\ current.id \in Nat /\ Counterparty(current) \in Address
      BY <1>1, <1>8, ObservedType DEF Decide, IInv, AtWork
    <2>2. TypeOK'
      <3>1. unknown' \in SUBSET {"zero_or_dust", "is_new_counterparty", "lookalike_match",
                                 "recency_valid", "address_inequality", "min_injection_count_met"}
        BY <1>8, UnknownNames DEF Decide, IInv, TypeOK
      <3>2. ASSUME CanEmit(current)
            PROVE  Candidate(current) \in [transfer : Nat, matched : Address, repeats : Nat]
        <4>1. matched \in Address
          BY <3>2, <1>4, EmittedGates DEF IInv, TypeOK
        <4>2. KnownQualifying(Counterparty(current)) \in Nat
          BY <1>1, InboundOfFinite DEF KnownQualifying
        <4>3. QED  BY <2>1, <4>1, <4>2 DEF Candidate
      <3>3. emitted' \in SUBSET [transfer : Nat, matched : Address, repeats : Nat]
        BY <1>8, <3>2 DEF Decide, IInv, TypeOK
      <3>4. QED  BY <1>3, <1>8, <3>1, <3>3 DEF Decide, IInv, TypeOK
    <2>3. AllEmittable'
      <3>1. ASSUME CanEmit(current) PROVE Emittable(current, matched)
        BY <1>8, <3>1, DecideExact
      <3>2. \A c \in emitted' : \E t \in Observed(scan) : t.id = c.transfer /\ Emittable(t, c.matched)
        BY <1>8, <2>1, <3>1 DEF Decide, IInv, AllEmittable, Candidate
      <3>3. QED  BY <3>2, <1>2, <1>3, Frame DEF AllEmittable
    <2>4. QED  BY <1>8, <2>2, <2>3 DEF Decide, IInv, AtWork, BestSoFar
  <1>9. CASE Finish
    <2>1. TypeOK'
      BY <1>3, <1>9 DEF Finish, IInv, TypeOK
    <2>2. AllEmittable'
      BY <1>5, <1>9 DEF Finish
    <2>3. QED  BY <1>9, <2>1, <2>2 DEF Finish, IInv, AtWork, BestSoFar
  <1>10. CASE UNCHANGED vars
    <2>1. TypeOK'
      BY <1>3, <1>10 DEF vars, loop, IInv, TypeOK
    <2>2. AllEmittable'
      BY <1>5, <1>10 DEF vars
    <2>3. AtWork'
      BY <1>3, <1>10 DEF vars, loop, IInv, AtWork
    <2>4. BestSoFar'
      BY <1>2, <1>3, <1>10, Frame DEF vars, loop, IInv, BestSoFar
    <2>5. QED  BY <2>1, <2>2, <2>3, <2>4 DEF IInv
  <1>11. QED  BY <1>6, <1>7, <1>8, <1>9, <1>10 DEF Next

\* The invariant holds: every candidate was decided on a best match and on the windows.
THEOREM Invariant == Spec => []IInv
  <1>1. QED  BY InvInit, InvStep, PTL DEF Spec

-----------------------------------------------------------------------------
(* The theorems.                                                           *)

\* Each variable holds values of its kind.
THEOREM TypeCorrect == Spec => []TypeOK
  <1>1. IInv => TypeOK
    BY DEF IInv
  <1>2. QED  BY <1>1, Invariant, PTL

\* Whatever order the map is ranged over in, the counterparty an observation is
\* matched with is the best of all that pass (evaluateLookalikeAndRecency).
THEOREM MatchCorrect == Spec => []MatchIsBest
  <1>1. IInv => MatchIsBest
    <2>1. SUFFICES ASSUME IInv, pc = "compare", left = {}, BaselineComplete
                   PROVE  LET x == Counterparty(current)
                              passing == {a \in Legit : Alike(x, a)}
                          IN IF passing = {} THEN matched = Nobody
                             ELSE matched \in passing /\ \A a \in passing : ~Beats(x, a, matched)
      BY DEF MatchIsBest
    <2>2. ToCompare \ left = Legit
      BY <2>1 DEF ToCompare
    <2>3. \/ matched = Nobody /\ \A a \in Legit : ~Alike(Counterparty(current), a)
          \/ Best(Counterparty(current), matched, Legit)
      BY <2>1, <2>2 DEF IInv, BestSoFar
    <2>4. QED  BY <2>3 DEF Best
  <1>2. QED  BY <1>1, Invariant, PTL

-----------------------------------------------------------------------------
(* What a gate that passes says of the transfers.                          *)

LEMMA DustType ==
  ASSUME NEW t \in Transfers
  PROVE  /\ DustStatus(t) \in {"true", "false", "unknown"}
         /\ DustStatus(t) = "false" => AmountRaw(t) # 0
  <1>1. AmountRaw(t) \in Int
    BY DEF Transfers, AmountRaw
  <1>2. CASE AmountRaw(t) < 0
    BY <1>1, <1>2 DEF DustStatus
  <1>3. CASE AmountRaw(t) = 0
    BY <1>1, <1>3 DEF DustStatus
  <1>4. CASE AmountRaw(t) > 0
    BY <1>1, <1>4 DEF DustStatus
  <1>5. QED  BY <1>1, <1>2, <1>3, <1>4

LEMMA LegitAtSpec ==
  ASSUME baseline \in SUBSET BaselinePool, NEW a \in Legit
  PROVE  /\ LegitAt(a) \in Nat
         /\ \E p \in Payments : p.to = a /\ p.at = LegitAt(a)
         /\ \A p \in Payments : p.to = a => p.at <= LegitAt(a)
  <1> DEFINE To == {p \in Payments : Counterparty(p) = a}
             S == {ScanStart - p.at : p \in To}
  <1>1. \A p \in Payments : /\ p.at \in Nat /\ p.at < ScanStart /\ ScanStart \in Nat
                            /\ Counterparty(p) = p.to
    BY ObservedType, PoolAssumption DEF Payments
  <1>2. To # {} /\ S \in SUBSET Nat /\ S # {}
    BY <1>1 DEF Legit
  <1>3. PICK n \in S : \A m \in S : n <= m
    BY <1>2, LeastOf
  <1>4. PICK p \in To : n = ScanStart - p.at
    BY <1>3
  <1>5. \A q \in To : q.at <= p.at
    BY <1>1, <1>3, <1>4
  <1>6. \E d \in {t.at : t \in {q \in Payments : Counterparty(q) = a}} :
          \A q \in Payments : Counterparty(q) = a => q.at <= d
    BY <1>4, <1>5
  <1>7. /\ LegitAt(a) \in {t.at : t \in {q \in Payments : Counterparty(q) = a}}
        /\ \A q \in Payments : Counterparty(q) = a => q.at <= LegitAt(a)
    BY <1>6, Zenon DEF LegitAt
  <1>8. QED  BY <1>1, <1>7

\* payments of unknown dust count as dust, whatever the scan's transfers turn out to be
LEMMA PaidIsPayments ==
  ASSUME baseline \in SUBSET BaselinePool, NEW ts, NEW us \in SUBSET UnknownDust(ts)
  PROVE  /\ Paid(DustWith(us \cup UnknownDust(baseline))) = Payments
         /\ {p.to : p \in Payments} = Legit
  <1> DEFINE dust == DustWith(us \cup UnknownDust(baseline))
  <1>1. ASSUME NEW t \in Observed(baseline)
        PROVE  DustStatus(t) = "false" <=> AmountRaw(t) # 0 /\ t \notin dust
    <2>1. t \in baseline /\ t \in Transfers
      BY ObservedType
    <2>2. DustStatus(t) \in {"true", "false", "unknown"} /\ (DustStatus(t) = "false" => AmountRaw(t) # 0)
      BY <2>1, DustType
    <2>3. t \in dust <=> DustStatus(t) = "true" \/ t \in us \/ DustStatus(t) = "unknown"
      BY <2>1 DEF DustWith, UnknownDust
    <2>4. t \in us => DustStatus(t) = "unknown"
      BY DEF UnknownDust
    <2>5. QED  BY <2>2, <2>3, <2>4
  <1>2. Paid(dust) = Payments
    BY <1>1 DEF Paid, Payments
  <1>3. \A p \in Payments : Counterparty(p) = p.to
    BY ObservedType DEF Payments
  <1>4. {p.to : p \in Payments} = Legit
    BY <1>3 DEF Legit
  <1>5. QED  BY <1>2, <1>4

LEMMA EmittablePoisons ==
  ASSUME baseline \in SUBSET BaselinePool, scan \in SUBSET ScanPool,
         NEW t \in Observed(scan), NEW a, Emittable(t, a),
         NEW more \in SUBSET ScanPool, NEW us \in SUBSET UnknownDust(scan \cup more)
  PROVE  Poisons(t, a, scan \cup more, DustWith(us \cup UnknownDust(baseline)))
  <1> DEFINE ts == scan \cup more
             dust == DustWith(us \cup UnknownDust(baseline))
             x == t.from
  <1>1. /\ Inbound(t) /\ Counterparty(t) = x /\ x \in Address /\ x # Focal /\ t.at \in Nat
        /\ Best(x, a, Legit) /\ a \in Legit /\ Legit \in SUBSET Address
    BY ObservedType, LegitType DEF Emittable, BaseGates, Best, Inbound
  <1>2. Paid(dust) = Payments /\ {p.to : p \in Payments} = Legit
    BY PaidIsPayments
  <1>3. \A u \in InboundOf(x, "pass") : u \in Injections(ts, dust) /\ u.from = x
    <2>1. SUFFICES ASSUME NEW u \in InboundOf(x, "pass")
                   PROVE  u \in Injections(ts, dust) /\ u.from = x
      OBVIOUS
    <2>2. u \in Observed(scan) /\ Counterparty(u) = x /\ BaseGates(u) /\ ZeroOrDust(u) = "pass"
      BY DEF InboundOf
    <2>3. u \in scan /\ u \in Transfers /\ u \in Observed(ts) /\ u.from = x
      BY <2>2, ObservedType DEF Observed, BaseGates
    <2>4. DustStatus(u) = "true"
      BY <2>2, <2>3, DustType DEF ZeroOrDust
    <2>5. u \in dust
      BY <2>3, <2>4 DEF DustWith
    <2>6. QED  BY <2>2, <2>3, <2>5 DEF Injections, BaseGates
  <1>4. t \in Injections(ts, dust)
    BY <1>1, <1>3 DEF Emittable, InboundOf
  <1>5. \A b \in Observed(baseline) : x \notin Endpoints(b)
    BY <1>1, ObservedType DEF Emittable, Seen, Endpoints
  <1>6. a \in BestLike(x, dust)
    <2>1. LikePaid(x, dust) = {b \in Legit : Alike(x, b)}
      BY <1>2 DEF LikePaid
    <2>2. \A b \in Legit : Alike(x, b) => b = a \/ Beats(x, a, b)
      BY <1>1, BeatsIsOrder DEF Best
    <2>3. QED  BY <1>1, <2>1, <2>2 DEF BestLike, Best
  <1>7. Follows(t, a, dust)
    <2>1. /\ LegitAt(a) \in Nat
          /\ \E p \in Payments : p.to = a /\ p.at = LegitAt(a)
          /\ \A p \in Payments : p.to = a => p.at <= LegitAt(a)
      BY <1>1, LegitAtSpec
    <2>2. LegitAt(a) < t.at /\ t.at - LegitAt(a) <= RecencyDays
      BY <1>1, <2>1 DEF Emittable, RecentAfter
    <2>3. \A p \in Payments : p.at \in Nat
      BY ObservedType DEF Payments
    <2>4. \A p \in Payments : p.to = a => p.at < t.at
      BY <1>1, <2>1, <2>2, <2>3
    <2>5. \E p \in Payments : p.to = a /\ t.at - p.at <= RecencyDays
      BY <2>1, <2>2
    <2>6. QED  BY <1>2, <2>4, <2>5, Zenon DEF Follows
  <1>8. Cardinality({u \in Injections(ts, dust) : u.from = x}) >= MinInjectionCount
    <2> DEFINE all == {u \in Injections(ts, dust) : u.from = x}
    <2>1. KnownQualifying(x) >= MinInjectionCount
      BY <1>1 DEF Emittable, MinInjection
    <2>2. InboundOf(x, "pass") \subseteq all /\ all \subseteq ScanPool
      BY <1>3 DEF Injections, Observed
    <2>3. IsFiniteSet(all)
      BY <2>2, PoolAssumption, FS_Subset
    <2>4. /\ Cardinality(InboundOf(x, "pass")) <= Cardinality(all)
          /\ Cardinality(InboundOf(x, "pass")) \in Nat /\ Cardinality(all) \in Nat
      BY <2>2, <2>3, FS_Subset, FS_CardinalityType
    <2>5. QED  BY <2>1, <2>4, ParameterAssumption DEF KnownQualifying
  <1>9. QED  BY <1>4, <1>5, <1>6, <1>7, <1>8 DEF Poisons

\* A candidate stays one whatever is found out later of the dust of the scan's
\* transfers and of what a truncated scan left out (EvaluateCandidate fails closed).
THEOREM CandidatesAreCertain == Spec => []EmittedIsCertain
  <1>1. IInv => EmittedIsCertain
    <2>1. SUFFICES ASSUME IInv, NEW c \in emitted
                   PROVE  \E t \in scan : t.id = c.transfer /\
                            \A more \in SUBSET Missing : \A us \in SUBSET UnknownDust(scan \cup more) :
                              Poisons(t, c.matched, scan \cup more, DustWith(us \cup UnknownDust(baseline)))
      BY DEF EmittedIsCertain
    <2>2. PICK t \in Observed(scan) : t.id = c.transfer /\ Emittable(t, c.matched)
      BY <2>1 DEF IInv, AllEmittable
    <2>3. Missing \in SUBSET ScanPool /\ t \in scan
      BY DEF Missing, Observed
    <2>4. QED  BY <2>1, <2>2, <2>3, EmittablePoisons DEF IInv, TypeOK
  <1>2. QED  BY <1>1, Invariant, PTL

-----------------------------------------------------------------------------
(* A window that is not incomplete has exactly the candidates there are.   *)

\* the row of a candidate
Written(t, a) ==
  [transfer |-> t.id, matched |-> a, repeats |-> KnownQualifying(Counterparty(t))]

\* the observations that Decide has judged
Decided == Observed(scan) \ (todo \cup (IF pc = "compare" THEN {current} ELSE {}))

ExactInv ==
  /\ \A c \in emitted : \E t \in Observed(scan) :
       Emittable(t, c.matched) /\ c = Written(t, c.matched)
  /\ \A t \in Decided, a \in Legit : Emittable(t, a) => Written(t, a) \in emitted
  /\ pc = "done" => todo = {} /\ (~incomplete => BaselineComplete)

LEMMA WrittenFrame ==
  ASSUME UNCHANGED windows
  PROVE  \A t, a : Written(t, a)' = Written(t, a)
  <1>1. Observed(scan)' = Observed(scan)
    BY Frame
  <1>2. \A a : KnownQualifying(a)' = KnownQualifying(a)
    BY <1>1 DEF KnownQualifying, InboundOf
  <1>3. QED  BY <1>2, Frame DEF Written

LEMMA ExactInit == Init => ExactInv
  BY DEF Init, ExactInv, Decided

LEMMA ExactStep == IInv /\ ExactInv /\ [Next]_vars => ExactInv'
  <1> SUFFICES ASSUME IInv, ExactInv, [Next]_vars PROVE ExactInv'
    OBVIOUS
  <1>1. UNCHANGED windows
    BY DEF Next, Take, Compare, Decide, Finish, vars
  <1>2. /\ Observed(scan)' = Observed(scan) /\ Legit' = Legit
        /\ \A t, a : Written(t, a)' = Written(t, a)
        /\ \A t, a : Emittable(t, a)' <=> Emittable(t, a)
        /\ BaselineComplete' = BaselineComplete
    BY <1>1, Frame, WrittenFrame DEF windows, BaselineComplete
  <1>3. ASSUME emitted' = emitted, Decided' = Decided,
               pc' = "done" => todo' = {} /\ (~incomplete' => BaselineComplete)
        PROVE  ExactInv'
    BY <1>2, <1>3 DEF ExactInv
  <1>4. ASSUME NEW t \in todo, Take(t) PROVE ExactInv'
    <2>1. Decided' = Decided
      BY <1>2, <1>4 DEF Take, Decided
    <2>2. QED  BY <1>3, <1>4, <2>1 DEF Take
  <1>5. ASSUME NEW a \in left, Compare(a) PROVE ExactInv'
    <2>1. Decided' = Decided
      BY <1>2, <1>5 DEF Compare, Decided
    <2>2. QED  BY <1>3, <1>5, <2>1 DEF Compare
  <1>6. CASE Decide
    <2>1. /\ current \in Observed(scan) /\ pc' = "next"
          /\ Candidate(current) = Written(current, matched)
          /\ Written(current, matched).matched = matched
      BY <1>6 DEF Decide, IInv, AtWork, Candidate, Written
    <2>2. emitted' = IF CanEmit(current) THEN emitted \cup {Written(current, matched)}
                                         ELSE emitted
      BY <1>6, <2>1 DEF Decide
    <2>3. Decided' \subseteq Decided \cup {current}
      BY <1>2, <1>6 DEF Decide, Decided
    <2>4. ASSUME NEW c \in emitted'
          PROVE  \E t \in Observed(scan) : Emittable(t, c.matched) /\ c = Written(t, c.matched)
      <3>1. CASE c \in emitted
        BY <3>1 DEF ExactInv
      <3>2. CASE CanEmit(current) /\ c = Written(current, matched)
        BY <1>6, <2>1, <3>2, DecideExact
      <3>3. QED  BY <2>2, <3>1, <3>2
    <2>5. ASSUME NEW t \in Decided \cup {current}, NEW a \in Legit, Emittable(t, a)
          PROVE  Written(t, a) \in emitted'
      <3>1. CASE t \in Decided
        BY <2>2, <2>5, <3>1 DEF ExactInv
      <3>2. CASE t = current
        BY <1>6, <2>2, <2>5, <3>2, DecideExact
      <3>3. QED  BY <3>1, <3>2
    <2>6. QED  BY <1>2, <2>1, <2>3, <2>4, <2>5 DEF ExactInv
  <1>7. CASE Finish
    <2>1. Decided' = Decided
      BY <1>2, <1>7 DEF Finish, Decided
    <2>2. QED  BY <1>3, <1>7, <2>1 DEF Finish, BaselineComplete
  <1>8. CASE UNCHANGED vars
    <2>1. Decided' = Decided
      BY <1>2, <1>8 DEF vars, loop, Decided
    <2>2. QED  BY <1>3, <1>8, <2>1 DEF vars, loop, ExactInv
  <1>9. QED  BY <1>4, <1>5, <1>6, <1>7, <1>8 DEF Next

\* the injections of an address are the observations that qualify
LEMMA InjectionsQualify ==
  ASSUME scan \in SUBSET ScanPool, NEW x
  PROVE  {u \in Injections(scan, DustWith({})) : u.from = x} = InboundOf(x, "pass")
  <1>1. ASSUME NEW u \in Observed(scan), Inbound(u)
        PROVE  /\ Counterparty(u) = u.from
               /\ ZeroOrDust(u) = "pass" <=> AmountRaw(u) = 0 \/ u \in DustWith({})
    <2>1. u \in scan /\ u \in Transfers /\ Counterparty(u) = u.from
      BY <1>1, ObservedType
    <2>2. u \in DustWith({}) <=> DustStatus(u) = "true"
      BY <2>1 DEF DustWith
    <2>3. DustStatus(u) \in {"true", "false", "unknown"}
      BY <2>1, DustType
    <2>4. AmountRaw(u) = 0 => DustStatus(u) = "true"
      BY DEF DustStatus
    <2>5. ZeroOrDust(u) = "pass" <=> DustStatus(u) = "true"
      BY <2>3 DEF ZeroOrDust
    <2>6. QED  BY <2>1, <2>2, <2>4, <2>5
  <1>2. QED  BY <1>1 DEF Injections, InboundOf, BaseGates

\* the converse of EmittablePoisons, where nothing is left out or unknown
LEMMA PoisonsEmittable ==
  ASSUME baseline \in SUBSET BaselinePool, scan \in SUBSET ScanPool,
         UnknownDust(baseline) = {}, BaselineComplete,
         NEW t \in scan, NEW a, Poisons(t, a, scan, DustWith({}))
  PROVE  t \in Observed(scan) /\ a \in Legit /\ Emittable(t, a)
  <1> DEFINE dust == DustWith({})
             x == t.from
  <1>1. /\ t \in Observed(scan) /\ Inbound(t) /\ PoisoningEligible(t)
        /\ t \in {u \in Injections(scan, dust) : u.from = x}
    BY DEF Poisons, Injections
  <1>2. /\ Counterparty(t) = x /\ x \in Address /\ t.at \in Nat
        /\ Legit \in SUBSET Address
    BY <1>1, ObservedType, LegitType
  <1>3. Paid(dust) = Payments /\ {p.to : p \in Payments} = Legit
    <2>1. {} \in SUBSET UnknownDust(scan) /\ {} \cup UnknownDust(baseline) = {}
      OBVIOUS
    <2>2. QED  BY <2>1, PaidIsPayments
  <1>4. BaseGates(t) /\ ZeroOrDust(t) = "pass"
    BY <1>1, InjectionsQualify DEF InboundOf
  <1>5. x \notin Seen
    <2>1. \A b \in Observed(baseline) : Counterparty(b) \in Endpoints(b)
      BY DEF Counterparty, Endpoints
    <2>2. QED  BY <2>1 DEF Seen, Poisons
  <1>6. a \in Legit /\ Best(x, a, Legit)
    <2>1. LikePaid(x, dust) = {b \in Legit : Alike(x, b)}
      BY <1>3 DEF LikePaid
    <2>2. a \in BestLike(x, dust)
      BY DEF Poisons
    <2>3. /\ a \in Legit /\ Alike(x, a)
          /\ \A b \in Legit : Alike(x, b) => b = a \/ Beats(x, a, b)
      BY <2>1, <2>2 DEF BestLike
    <2>4. ASSUME NEW b \in Legit, Alike(x, b) PROVE ~Beats(x, b, a)
      <3>1. a \in Address /\ b \in Address /\ (b = a \/ Beats(x, a, b))
        BY <1>2, <2>3, <2>4
      <3>2. QED  BY <1>2, <3>1, BeatsIsOrder
    <2>5. QED  BY <2>3, <2>4 DEF Best
  <1>7. RecentAfter(t, a)
    <2>1. /\ LegitAt(a) \in Nat
          /\ \E p \in Payments : p.to = a /\ p.at = LegitAt(a)
          /\ \A p \in Payments : p.to = a => p.at <= LegitAt(a)
      BY <1>6, LegitAtSpec
    <2>2. /\ \A p \in Payments : p.to = a => p.at < t.at
          /\ \E p \in Payments : p.to = a /\ t.at - p.at <= RecencyDays
      BY <1>3 DEF Poisons, Follows
    <2>3. \A p \in Payments : p.at \in Nat
      BY ObservedType DEF Payments
    <2>4. LegitAt(a) < t.at
      BY <2>1, <2>2
    <2>5. t.at - LegitAt(a) <= RecencyDays
      BY <1>2, <2>1, <2>2, <2>3, ParameterAssumption
    <2>6. QED  BY <1>2, <2>1, <2>4, <2>5 DEF RecentAfter
  <1>8. MinInjection(x) = "pass"
    BY InjectionsQualify DEF Poisons, MinInjection, KnownQualifying
  <1>9. QED  BY <1>1, <1>2, <1>4, <1>5, <1>6, <1>7, <1>8 DEF Emittable

\* A window that is not incomplete has the candidates of section 7 of the architecture
\* and no others, each with its repeats (CompleteIsExact).
THEOREM CompleteExactly == Spec => []CompleteIsExact
  <1>1. ASSUME IInv, ExactInv, pc = "done", ~incomplete, UnknownDust(baseline) = {}
        PROVE  LET Poisoned == {p \in scan \X Address : Poisons(p[1], p[2], scan, DustWith({}))}
                   Repeats(t) ==
                     Cardinality({u \in Injections(scan, DustWith({})) : u.from = t.from})
               IN emitted = {[transfer |-> p[1].id, matched |-> p[2], repeats |-> Repeats(p[1])] :
                             p \in Poisoned}
    <2> DEFINE Poisoned == {p \in scan \X Address : Poisons(p[1], p[2], scan, DustWith({}))}
               Repeats(t) ==
                 Cardinality({u \in Injections(scan, DustWith({})) : u.from = t.from})
               Row(p) == [transfer |-> p[1].id, matched |-> p[2], repeats |-> Repeats(p[1])]
    <2>1. /\ baseline \in SUBSET BaselinePool /\ scan \in SUBSET ScanPool
          /\ BaselineComplete /\ Decided = Observed(scan) /\ Legit \in SUBSET Address
      BY <1>1, LegitType DEF IInv, TypeOK, ExactInv, Decided
    <2>2. ASSUME NEW t \in Observed(scan), NEW a, Emittable(t, a)
          PROVE  Written(t, a) = Row(<<t, a>>)
      <3>1. Counterparty(t) = t.from
        BY <2>1, <2>2, ObservedType DEF Emittable, BaseGates
      <3>2. KnownQualifying(t.from) = Repeats(t)
        BY <2>1, InjectionsQualify DEF KnownQualifying
      <3>3. QED  BY <3>1, <3>2 DEF Written
    <2>3. ASSUME NEW c \in emitted PROVE c \in {Row(p) : p \in Poisoned}
      <3>1. PICK t \in Observed(scan) : Emittable(t, c.matched) /\ c = Written(t, c.matched)
        BY <1>1 DEF ExactInv
      <3>2. t \in scan /\ c.matched \in Address
        BY <2>1, <3>1 DEF Observed, Emittable, Best
      <3>3. Poisons(t, c.matched, scan, DustWith({}))
        <4>1. {} \in SUBSET ScanPool /\ {} \in SUBSET UnknownDust(scan \cup {})
          OBVIOUS
        <4>2. Poisons(t, c.matched, scan \cup {}, DustWith({} \cup UnknownDust(baseline)))
          BY <2>1, <3>1, <4>1, EmittablePoisons
        <4>3. scan \cup {} = scan /\ {} \cup UnknownDust(baseline) = {}
          BY <1>1
        <4>4. QED  BY <4>2, <4>3
      <3>4. <<t, c.matched>> \in Poisoned /\ c = Row(<<t, c.matched>>)
        BY <2>2, <3>1, <3>2, <3>3
      <3>5. QED  BY <3>4
    <2>4. ASSUME NEW p \in Poisoned PROVE Row(p) \in emitted
      <3>1. /\ p = <<p[1], p[2]>> /\ p[1] \in scan /\ p[2] \in Address
            /\ Poisons(p[1], p[2], scan, DustWith({}))
        OBVIOUS
      <3>2. p[1] \in Observed(scan) /\ p[2] \in Legit /\ Emittable(p[1], p[2])
        BY <1>1, <2>1, <3>1, PoisonsEmittable
      <3>3. Written(p[1], p[2]) \in emitted
        BY <1>1, <2>1, <3>2 DEF ExactInv
      <3>4. QED  BY <2>2, <3>1, <3>2, <3>3
    <2>5. QED  BY <2>3, <2>4
  <1>2. IInv /\ ExactInv => CompleteIsExact
    BY <1>1 DEF CompleteIsExact
  <1>3. QED  BY <1>2, ExactInit, ExactStep, Invariant, PTL DEF Spec
=============================================================================
