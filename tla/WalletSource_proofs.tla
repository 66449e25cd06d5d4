------------------------ MODULE WalletSource_proofs -------------------------
(***************************************************************************)
(* Theorems about WalletSource, for all seed lists, caps, targets and      *)
(* outcomes of the fetches.                                                *)
(***************************************************************************)
EXTENDS WalletSource, FiniteSetTheorems, SequenceTheorems, TLAPS

-----------------------------------------------------------------------------
(* Ranks.  Source sorts three times and cuts what is beyond a limit; in the*)
(* model that is the elements whose rank is below the limit.               *)

Below(S, R, a) == {b \in S : <<b, a>> \in R}
Rank(S, R, a) == Cardinality(Below(S, R, a))
FirstK(S, R, k) == {a \in S : Rank(S, R, a) < k}

StrictOrder(S, R) ==
  /\ \A a \in S : <<a, a>> \notin R
  /\ \A a, b, c \in S : <<a, b>> \in R /\ <<b, c>> \in R => <<a, c>> \in R
  /\ \A a, b \in S : a # b => <<a, b>> \in R \/ <<b, a>> \in R

LEMMA RankRange ==
  ASSUME NEW S, IsFiniteSet(S), NEW R, StrictOrder(S, R), NEW a \in S
  PROVE  Rank(S, R, a) \in 0..(Cardinality(S) - 1)
  <1>1. Below(S, R, a) \in SUBSET (S \ {a})
    BY DEF Below, StrictOrder
  <1>2. IsFiniteSet(S \ {a}) /\ Cardinality(S \ {a}) = Cardinality(S) - 1
    BY FS_RemoveElement
  <1>3. Cardinality(Below(S, R, a)) <= Cardinality(S) - 1 /\ IsFiniteSet(Below(S, R, a))
    BY <1>1, <1>2, FS_Subset
  <1>4. Cardinality(Below(S, R, a)) \in Nat /\ Cardinality(S) \in Nat
    BY <1>3, FS_CardinalityType
  <1>5. QED  BY <1>3, <1>4 DEF Rank

LEMMA RankOrder ==
  ASSUME NEW S, IsFiniteSet(S), NEW R, StrictOrder(S, R),
         NEW a \in S, NEW b \in S, <<a, b>> \in R
  PROVE  Rank(S, R, a) < Rank(S, R, b)
  <1>1. Below(S, R, a) \in SUBSET Below(S, R, b)
    BY DEF Below, StrictOrder
  <1>2. a \in Below(S, R, b) /\ a \notin Below(S, R, a)
    BY DEF Below, StrictOrder
  <1>3. IsFiniteSet(Below(S, R, b)) /\ IsFiniteSet(Below(S, R, a))
    BY FS_Subset DEF Below
  <1>4. /\ Cardinality(Below(S, R, a)) <= Cardinality(Below(S, R, b))
        /\ Cardinality(Below(S, R, b)) # Cardinality(Below(S, R, a))
    BY <1>1, <1>2, <1>3, FS_Subset
  <1>5. Cardinality(Below(S, R, a)) \in Nat /\ Cardinality(Below(S, R, b)) \in Nat
    BY <1>3, FS_CardinalityType
  <1>6. QED  BY <1>4, <1>5 DEF Rank

LEMMA RankInjection ==
  ASSUME NEW S, IsFiniteSet(S), NEW R, StrictOrder(S, R), NEW T \in SUBSET S,
         NEW a \in T, NEW b \in T, Rank(S, R, a) = Rank(S, R, b)
  PROVE  a = b
  <1>1. Rank(S, R, a) \in Int /\ Rank(S, R, b) \in Int
    BY RankRange
  <1>2. a # b => <<a, b>> \in R \/ <<b, a>> \in R
    BY DEF StrictOrder
  <1>3. QED  BY <1>1, <1>2, RankOrder

\* at most k elements have a rank below k
LEMMA FirstKSize ==
  ASSUME NEW S, IsFiniteSet(S), NEW R, StrictOrder(S, R), NEW k \in Nat
  PROVE  Cardinality(FirstK(S, R, k)) <= k
  <1> DEFINE T == FirstK(S, R, k)
             f == [a \in T |-> Rank(S, R, a)]
  <1>1. T \in SUBSET S
    BY DEF FirstK
  <1>2. \A a \in T : f[a] \in 0..(k - 1)
    BY <1>1, RankRange DEF FirstK
  <1>3. \A a, b \in T : f[a] = f[b] => a = b
    BY <1>1, RankInjection
  <1>4. f \in Injection(T, 0..(k - 1))
    BY <1>2, <1>3 DEF Injection, IsInjective
  <1>5. IsFiniteSet(0..(k - 1)) /\ Cardinality(0..(k - 1)) = k
    BY FS_Interval
  <1> HIDE DEF T, f
  <1>6. Cardinality(T) <= Cardinality(0..(k - 1))
    BY <1>4, <1>5, FS_Injection
  <1>7. QED  BY <1>5, <1>6 DEF T

\* every rank below the size is somebody's
LEMMA RankIsHad ==
  ASSUME NEW S, IsFiniteSet(S), NEW R, StrictOrder(S, R),
         NEW n \in 0..(Cardinality(S) - 1)
  PROVE  \E a \in S : Rank(S, R, a) = n
  <1> DEFINE N == 0..(Cardinality(S) - 1)
             f == [a \in S |-> Rank(S, R, a)]
  <1>0. Cardinality(S) \in Nat
    BY FS_CardinalityType
  <1>1. \A a \in S : f[a] \in N
    BY RankRange
  <1>2. \A a, b \in S : f[a] = f[b] => a = b
    BY RankInjection
  <1>3. f \in Injection(S, N)
    BY <1>1, <1>2 DEF Injection, IsInjective
  <1>4. IsFiniteSet(N) /\ Cardinality(N) = Cardinality(S)
    BY <1>0, FS_Interval
  <1>5. f \in Surjection(S, N)
    <2> HIDE DEF f, N
    <2> QED  BY <1>3, <1>4, FS_Injection
  <1>6. \A i \in N : \E a \in S : f[a] = i
    BY <1>5 DEF Surjection
  <1>7. QED  BY <1>6

\* and so k elements have a rank below k, unless there are fewer
LEMMA FirstKFull ==
  ASSUME NEW S, IsFiniteSet(S), NEW R, StrictOrder(S, R), NEW k \in Nat
  PROVE  /\ Cardinality(S) <= k => FirstK(S, R, k) = S
         /\ Cardinality(S) >= k => Cardinality(FirstK(S, R, k)) = k
  <1>0. Cardinality(S) \in Nat
    BY FS_CardinalityType
  <1>1. ASSUME Cardinality(S) <= k  PROVE FirstK(S, R, k) = S
    <2>1. \A a \in S : Rank(S, R, a) < k
      BY <1>0, <1>1, RankRange
    <2>2. QED  BY <2>1 DEF FirstK
  <1>2. ASSUME Cardinality(S) >= k  PROVE Cardinality(FirstK(S, R, k)) = k
    <2> DEFINE T == FirstK(S, R, k)
               f == [a \in T |-> Rank(S, R, a)]
    <2>1. T \in SUBSET S
      BY DEF FirstK
    <2>2. \A a \in T : f[a] \in 0..(k - 1)
      BY <2>1, RankRange DEF FirstK
    <2>3. \A a, b \in T : f[a] = f[b] => a = b
      BY <2>1, RankInjection
    <2>4. \A n \in 0..(k - 1) : \E a \in T : f[a] = n
      <3>1. SUFFICES ASSUME NEW n \in 0..(k - 1)  PROVE \E a \in T : f[a] = n
        OBVIOUS
      <3>2. PICK a \in S : Rank(S, R, a) = n
        BY <1>0, <1>2, RankIsHad
      <3>3. QED  BY <3>2 DEF FirstK
    <2>5. f \in Injection(T, 0..(k - 1)) /\ f \in Surjection(T, 0..(k - 1))
      BY <2>2, <2>3, <2>4 DEF Injection, IsInjective, Surjection
    <2>6. IsFiniteSet(0..(k - 1)) /\ Cardinality(0..(k - 1)) = k
      BY FS_Interval
    <2> HIDE DEF T, f
    <2>7. Cardinality(T) = Cardinality(0..(k - 1))
      BY <2>5, <2>6, FS_Injection
    <2>8. QED  BY <2>6, <2>7 DEF T
  <1>3. QED  BY <1>1, <1>2

-----------------------------------------------------------------------------
(* Types.                                                                  *)

LEMMA VerdictType ==
  ASSUME NEW p \in Pages, NEW s \in Stats
  PROVE  /\ Verdict(p, s) \in Reasons \cup {"eligible"}
         /\ DiveVerdict(p, s) \in Reasons \cup {"eligible"}
         /\ DiveStatus(p) \in Dives
  BY DEF Verdict, DiveVerdict, DiveStatus, Reasons, Dives

LEMMA RowType ==
  ASSUME NEW a \in Address, NEW reason \in Reasons, NEW dive \in Dives
  PROVE  /\ Row(a, reason, dive) \in [address: Address, reason: Reasons, dive: Dives]
         /\ Row(a, reason, dive).address = a
         /\ Row(a, reason, dive).reason = reason
         /\ Row(a, reason, dive).dive = dive
  BY DEF Row

LEMMA FetchType ==
  ASSUME TypeOK, NEW a \in Address, NEW p \in Pages, NEW s \in Stats, NEW n \in Nat,
         Fetch(a, p, s, n)
  PROVE  /\ stats' \in [Address -> Stats \cup {NoStats}]
         /\ requests' \in Nat
  BY DEF TypeOK, Fetch

LEMMA JudgeType ==
  ASSUME TypeOK, NEW a \in Address, NEW p \in Pages, NEW s \in Stats, Judge(a, p, s)
  PROVE  /\ eligible' \in SUBSET Address /\ queue' \in SUBSET Address
         /\ rejected' \in SUBSET [address: Address, reason: Reasons, dive: Dives]
  <1>1. Verdict(p, s) # "eligible" => Verdict(p, s) \in Reasons
    BY VerdictType
  <1>2. "not_queued" \in Dives
    BY DEF Dives
  <1>3. Verdict(p, s) # "eligible" =>
          Row(a, Verdict(p, s), "not_queued")
            \in [address: Address, reason: Reasons, dive: Dives]
    BY <1>1, <1>2, RowType
  <1>4. QED  BY <1>3 DEF Judge, TypeOK

LEMMA FirstSeeds ==
  ASSUME Init
  PROVE  /\ seeds \in Seq(Address)
         /\ Len(seeds) <= MaxSeedWallets
  <1>1. PICK list \in SeedLists[mode] \ {<<>>} :
          seeds = SubSeq(list, 1, Least(Len(list), MaxSeedWallets))
    BY Zenon DEF Init
  <1>2. list \in Seq(Address)
    <2>1. mode \in Modes
      BY DEF Init
    <2>2. SeedLists[mode] \in SUBSET Seq(Address)
      BY <2>1, SourceAssumption
    <2>3. QED  BY <2>2
  <1>3. /\ Least(Len(list), MaxSeedWallets) \in 0..Len(list)
        /\ Least(Len(list), MaxSeedWallets) <= MaxSeedWallets
    BY <1>2, SourceAssumption DEF Least
  <1> DEFINE n == Least(Len(list), MaxSeedWallets)
  <1>4. SubSeq(list, 1, n) \in Seq(Address) /\ Len(SubSeq(list, 1, n)) = n
    <2> HIDE DEF n
    <2>1. n \in 0..Len(list)
      BY <1>3 DEF n
    <2>2. QED  BY <1>2, <2>1
  <1>5. QED  BY <1>1, <1>3, <1>4

LEMMA InitType == Init => TypeOK
  <1> SUFFICES ASSUME Init PROVE TypeOK
    OBVIOUS
  <1>2. mode \in Modes
    BY DEF Init
  <1>3. seeds \in Seq(Address)
    BY FirstSeeds
  <1>4. /\ discovered \in [Address -> SUBSET Address]
        /\ stats \in [Address -> Stats \cup {NoStats}]
        /\ page \in [Address -> Pages \cup {"none"}]
        /\ again \in [Address -> Pages \cup {"none"}]
    BY DEF Init
  <1>5. mode \in {"score", "neighbors"}
    BY <1>2, SourceAssumption
  <1>6. QED  BY <1>3, <1>4, <1>5 DEF Init, TypeOK

LEMMA SeedType ==
  ASSUME TypeOK, LookAtSeed
  PROVE  TypeOK'
  <1>0. seeds \in Seq(Address) /\ seeds # <<>>
    BY DEF TypeOK, LookAtSeed
  <1>1. Head(seeds) \in Address /\ Tail(seeds) \in Seq(Address)
    BY <1>0, HeadTailProperties
  <1>2. seedSet' \in SUBSET Address /\ seeds' \in Seq(Address)
    BY <1>1 DEF TypeOK, LookAtSeed
  <1>3. discovered' \in [Address -> SUBSET Address]
    BY <1>1 DEF TypeOK, LookAtSeed, Discover
  <1>4. requests' \in Nat
    <2>1. requests' = requests \/ \E n \in 0..SeedCalls : requests' = requests + n
      BY DEF LookAtSeed
    <2>2. requests \in Nat /\ SeedCalls \in Nat
      BY SourceAssumption DEF TypeOK
    <2>3. QED  BY <2>1, <2>2
  <1>5. phase' \in {"seeds", "failed"}
    BY DEF TypeOK, LookAtSeed
  <1>6. UNCHANGED <<mode, todo, stats, page, again, eligible, queue, handled, accepted,
                 rejected>>
    BY DEF LookAtSeed, judging
  <1>7. QED  BY <1>2, <1>3, <1>4, <1>5, <1>6 DEF TypeOK

LEMMA FetchCandidateType ==
  ASSUME TypeOK, NEW a \in Address, FetchCandidate(a)
  PROVE  TypeOK'
  <1>1. PICK p \in Pages, s \in Stats, n \in 0..CandidateCalls :
          /\ Fetch(a, p, s, n)
          /\ page' = [page EXCEPT ![a] = p]
          /\ Judge(a, p, s)
    BY DEF FetchCandidate
  <1>2. n \in Nat
    BY SourceAssumption
  <1>3. /\ page' \in [Address -> Pages \cup {"none"}]
        /\ stats' \in [Address -> Stats \cup {NoStats}] /\ requests' \in Nat
    BY <1>1, <1>2, FetchType DEF TypeOK
  <1>4. /\ eligible' \in SUBSET Address /\ queue' \in SUBSET Address
        /\ rejected' \in SUBSET [address: Address, reason: Reasons, dive: Dives]
    BY <1>1, JudgeType
  <1>5. /\ UNCHANGED <<mode, phase, seeds, seedSet, discovered, again, handled, accepted>>
        /\ todo' \in SUBSET Address
    BY DEF FetchCandidate, looking, TypeOK
  <1>6. QED  BY <1>3, <1>4, <1>5 DEF TypeOK

LEMMA SkipType ==
  ASSUME TypeOK, NEW a \in Address, SkipBeyondTopN(a) \/ SkipTargetReached(a)
  PROVE  TypeOK'
  <1>1. rejected' \in SUBSET [address: Address, reason: Reasons, dive: Dives]
    <2>1. /\ Row(a, "activity_cap_reached", "queued_top_n_skip")
               \in [address: Address, reason: Reasons, dive: Dives]
          /\ Row(a, "target_count_reached", "queued_top_n_skip")
               \in [address: Address, reason: Reasons, dive: Dives]
      BY RowType DEF Reasons, Dives
    <2>2. QED  BY <2>1 DEF TypeOK, SkipBeyondTopN, SkipTargetReached
  <1>2. /\ UNCHANGED <<mode, phase, seeds, seedSet, discovered, todo, stats, page, again,
                       eligible, queue, accepted, requests>>
        /\ handled' \in SUBSET Address
    BY DEF SkipBeyondTopN, SkipTargetReached, NextDive, looking, TypeOK
  <1>3. QED  BY <1>1, <1>2 DEF TypeOK

LEMMA DeepDiveType ==
  ASSUME TypeOK, NEW a \in Address, DeepDive(a)
  PROVE  TypeOK'
  <1>1. PICK p \in Pages, s \in Stats, n \in 0..DeepDiveCalls :
          /\ Fetch(a, p, s, n)
          /\ again' = [again EXCEPT ![a] = p]
          /\ \/ /\ DiveVerdict(p, s) = "eligible"
                /\ eligible' = eligible \cup {a}
                /\ UNCHANGED rejected
             \/ /\ DiveVerdict(p, s) # "eligible"
                /\ rejected' = rejected \cup {Row(a, DiveVerdict(p, s), DiveStatus(p))}
                /\ UNCHANGED eligible
    BY DEF DeepDive
  <1>2. n \in Nat
    BY SourceAssumption
  <1>3. /\ again' \in [Address -> Pages \cup {"none"}]
        /\ stats' \in [Address -> Stats \cup {NoStats}] /\ requests' \in Nat
    BY <1>1, <1>2, FetchType DEF TypeOK
  <1>4. DiveVerdict(p, s) # "eligible" =>
          Row(a, DiveVerdict(p, s), DiveStatus(p))
            \in [address: Address, reason: Reasons, dive: Dives]
    BY VerdictType, RowType
  <1>5. /\ eligible' \in SUBSET Address
        /\ rejected' \in SUBSET [address: Address, reason: Reasons, dive: Dives]
    BY <1>1, <1>4 DEF TypeOK
  <1>6. /\ UNCHANGED <<mode, phase, seeds, seedSet, discovered, todo, page, queue, accepted>>
        /\ handled' \in SUBSET Address
    BY DEF DeepDive, NextDive, looking, TypeOK
  <1>7. QED  BY <1>3, <1>5, <1>6 DEF TypeOK

LEMMA SelectType ==
  ASSUME TypeOK, Select
  PROVE  TypeOK'
  <1>1. \A a \in Address : Row(a, "target_count_reached", "not_queued")
                            \in [address: Address, reason: Reasons, dive: Dives]
    BY RowType DEF Reasons, Dives
  <1>2. rejected' \in SUBSET [address: Address, reason: Reasons, dive: Dives]
    BY <1>1 DEF Select, TypeOK
  <1>3. /\ UNCHANGED <<mode, seeds, seedSet, discovered, todo, stats, page, again, eligible,
                       queue, handled, requests>>
        /\ phase' = "write_accepted"
        /\ accepted' \in SUBSET Address
    BY DEF Select, looking, TypeOK, Chosen
  <1>4. QED  BY <1>2, <1>3 DEF TypeOK

LEMMA NextType ==
  ASSUME TypeOK, [Next]_vars
  PROVE  TypeOK'
  <1>1. CASE LookAtSeed
    BY <1>1, SeedType
  <1>2. CASE SortCandidates
    BY <1>2 DEF SortCandidates, looking, judging, TypeOK, Discovered
  <1>3. CASE \E a \in Address :
               FetchCandidate(a) \/ SkipBeyondTopN(a) \/ SkipTargetReached(a) \/ DeepDive(a)
    BY <1>3, FetchCandidateType, SkipType, DeepDiveType
  <1>4. CASE EndCandidates
    BY <1>4 DEF EndCandidates, looking, judging, TypeOK
  <1>5. CASE Select
    BY <1>5, SelectType
  <1>6. CASE Write
    BY <1>6 DEF Write, looking, judging, TypeOK
  <1>7. CASE UNCHANGED vars
    BY <1>7 DEF vars, looking, judging, TypeOK
  <1>8. QED  BY <1>1, <1>2, <1>3, <1>4, <1>5, <1>6, <1>7 DEF Next

\* The variables of Source keep their types, whatever the fetches answer.
THEOREM TypeCorrect == Spec => []TypeOK
  <1>1. QED  BY InitType, NextType, PTL DEF Spec

-----------------------------------------------------------------------------
(* The inductive invariant.                                                *)

Told == {r.address : r \in rejected}
Going == phase \notin {"seeds", "failed"}

\* where a candidate is: to be fetched, eligible, to be retried, or told why not
OnOneList ==
  /\ \A r1, r2 \in rejected : r1.address = r2.address => r1 = r2
  /\ phase = "seeds" =>
       /\ todo = {} /\ eligible = {} /\ queue = {} /\ handled = {} /\ accepted = {}
       /\ rejected = {}
  /\ Going =>
       /\ Candidates = todo \cup eligible \cup queue \cup Told
       /\ todo \cap (eligible \cup queue \cup Told) = {}
       /\ handled \subseteq queue /\ handled \subseteq eligible \cup Told
       /\ (queue \ handled) \cap (eligible \cup Told) = {}
       /\ phase = "candidates" => handled = {}
       /\ phase # "candidates" => todo = {}
       /\ ~Selected => accepted = {} /\ eligible \cap Told = {}
       /\ Selected => /\ handled = queue
                      /\ accepted \subseteq eligible /\ eligible \subseteq accepted \cup Told
                      /\ accepted \cap Told = {}

\* a row says why and how far its wallet was tried
TrueRow(r) == TrueDive(r) /\ TrueReason(r)

\* what the samples of a wallet were: only what is behind was fetched again
Samples ==
  /\ accepted \subseteq eligible
  /\ \A a \in eligible : Last(a) = "whole" /\ stats[a].fit
  /\ \A a \in queue : page[a] \in Capped
  /\ \A a \in Address : again[a] # "none" => a \in handled
  /\ \A r \in rejected : TrueRow(r)

\* the target: reached by retries it is never exceeded, reached without them it stays so
Short == phase \in {"seeds", "candidates", "deep_dive"}

Target ==
  /\ eligible \cap handled # {} => Cardinality(eligible) <= TargetCount
  /\ \A r \in rejected : r.reason = "target_count_reached" =>
       /\ Cardinality(eligible) >= TargetCount
       /\ Short => r.dive # "not_queued"
       /\ Selected /\ r.dive = "not_queued" => r.address \in eligible \ Chosen
  /\ Selected => accepted = Chosen

SeedBudget == IF mode = "neighbors" THEN MaxSeedWallets * SeedCalls ELSE 0

\* what was spent so far, by phase
Spent ==
  /\ phase = "seeds" =>
       /\ Len(seeds) <= MaxSeedWallets
       /\ requests <= (IF mode = "neighbors" THEN (MaxSeedWallets - Len(seeds)) * SeedCalls
                       ELSE 0)
  /\ phase = "candidates" =>
       /\ Cardinality(todo) <= MaxCandidates
       /\ requests <= SeedBudget + (MaxCandidates - Cardinality(todo)) * CandidateCalls
  /\ phase \notin {"seeds", "candidates", "failed"} =>
       requests <= SeedBudget + MaxCandidates * CandidateCalls
                   + Least(Cardinality(handled), DeepDiveTopN) * DeepDiveCalls
  /\ RequestsWithin

IInv == TypeOK /\ OnOneList /\ Samples /\ Target /\ Spent

-----------------------------------------------------------------------------
(* Everybody on one list.                                                  *)

LEMMA SameCandidates ==
  ASSUME UNCHANGED discovered
  PROVE  Candidates' = Candidates /\ Discovered' = Discovered
  BY DEF Candidates, Discovered, Earlier

LEMMA AddRow ==
  ASSUME NEW a, a \notin Told, NEW reason, NEW dive,
         rejected' = rejected \cup {Row(a, reason, dive)},
         \A r1, r2 \in rejected : r1.address = r2.address => r1 = r2
  PROVE  /\ Told' = Told \cup {a}
         /\ \A r1, r2 \in rejected' : r1.address = r2.address => r1 = r2
  <1>1. Row(a, reason, dive).address = a
    BY DEF Row
  <1>2. QED  BY <1>1 DEF Told

LEMMA SameRows ==
  ASSUME UNCHANGED rejected
  PROVE  Told' = Told
  BY DEF Told

LEMMA InitLists == Init => OnOneList
  BY DEF Init, OnOneList, Going

LEMMA SeedsOnOneList ==
  ASSUME OnOneList, LookAtSeed
  PROVE  OnOneList'
  <1>1. /\ UNCHANGED <<todo, eligible, queue, handled, accepted, rejected>>
        /\ phase = "seeds" /\ phase' \in {"seeds", "failed"}
    BY DEF LookAtSeed, judging
  <1>2. QED  BY <1>1 DEF OnOneList, Going

LEMMA SortLists ==
  ASSUME OnOneList, SortCandidates
  PROVE  OnOneList'
  <1>1. /\ UNCHANGED <<discovered, eligible, queue, handled, accepted, rejected>>
        /\ phase = "seeds" /\ phase' = "candidates" /\ todo' = Candidates
    BY DEF SortCandidates, judging, looking, Candidates
  <1>2. Candidates' = Candidates /\ Told' = Told
    BY <1>1, SameCandidates, SameRows
  <1>3. Told = {}
    BY <1>1 DEF OnOneList, Told
  <1>4. QED  BY <1>1, <1>2, <1>3 DEF OnOneList, Going, Selected

LEMMA FetchCandidateLists ==
  ASSUME OnOneList, NEW a \in Address, FetchCandidate(a)
  PROVE  OnOneList'
  <1>1. PICK p \in Pages, s \in Stats : Judge(a, p, s)
    BY DEF FetchCandidate
  <1>2. /\ phase = "candidates" /\ a \in todo /\ todo' = todo \ {a}
        /\ UNCHANGED <<phase, discovered, handled, accepted>>
    BY DEF FetchCandidate, FirstOf, looking
  <1>3. Candidates' = Candidates
    BY <1>2, SameCandidates
  <1>4. /\ Candidates = todo \cup eligible \cup queue \cup Told
        /\ a \notin eligible /\ a \notin queue /\ a \notin Told
        /\ todo \cap (eligible \cup queue \cup Told) = {}
        /\ handled = {} /\ accepted = {} /\ eligible \cap Told = {}
        /\ queue \cap (eligible \cup Told) = {}
        /\ \A r1, r2 \in rejected : r1.address = r2.address => r1 = r2
    BY <1>2 DEF OnOneList, Going, Selected
  <1>5. ~Selected' /\ phase' = "candidates"
    BY <1>2 DEF Selected
  <1>6. CASE queue' = queue \cup {a} /\ UNCHANGED <<eligible, rejected>>
    <2>1. Told' = Told
      BY <1>6, SameRows
    <2>2. QED  BY <1>2, <1>3, <1>4, <1>5, <1>6, <2>1 DEF OnOneList
  <1>7. CASE /\ rejected' = rejected \cup {Row(a, Verdict(p, s), "not_queued")}
             /\ UNCHANGED <<eligible, queue>>
    <2>1. /\ Told' = Told \cup {a}
          /\ \A r1, r2 \in rejected' : r1.address = r2.address => r1 = r2
      BY <1>4, <1>7, AddRow
    <2>2. QED  BY <1>2, <1>3, <1>4, <1>5, <1>7, <2>1 DEF OnOneList
  <1>8. CASE eligible' = eligible \cup {a} /\ UNCHANGED <<queue, rejected>>
    <2>1. Told' = Told
      BY <1>8, SameRows
    <2>2. QED  BY <1>2, <1>3, <1>4, <1>5, <1>8, <2>1 DEF OnOneList
  <1>9. QED  BY <1>1, <1>6, <1>7, <1>8 DEF Judge

\* the next of the queue is accepted for the choice, or told why not
LEMMA DiveLists ==
  ASSUME OnOneList, NEW a \in Address, NextDive(a),
         NEW reason, NEW dive,
         \/ eligible' = eligible \cup {a} /\ UNCHANGED rejected
         \/ rejected' = rejected \cup {Row(a, reason, dive)} /\ UNCHANGED eligible
  PROVE  OnOneList'
  <1>1. /\ phase = "deep_dive" /\ a \in queue /\ a \notin handled
        /\ handled' = handled \cup {a}
        /\ UNCHANGED <<phase, discovered, todo, queue, accepted>>
    BY DEF NextDive, looking
  <1>2. Candidates' = Candidates
    BY <1>1, SameCandidates
  <1>3. /\ Candidates = todo \cup eligible \cup queue \cup Told
        /\ a \notin eligible /\ a \notin Told
        /\ todo = {} /\ accepted = {} /\ eligible \cap Told = {}
        /\ handled \subseteq queue /\ handled \subseteq eligible \cup Told
        /\ (queue \ handled) \cap (eligible \cup Told) = {}
        /\ \A r1, r2 \in rejected : r1.address = r2.address => r1 = r2
    BY <1>1 DEF OnOneList, Going, Selected
  <1>4. ~Selected' /\ phase' = "deep_dive"
    BY <1>1 DEF Selected
  <1>5. CASE eligible' = eligible \cup {a} /\ UNCHANGED rejected
    <2>1. Told' = Told
      BY <1>5, SameRows
    <2>2. QED  BY <1>1, <1>2, <1>3, <1>4, <1>5, <2>1 DEF OnOneList
  <1>6. CASE rejected' = rejected \cup {Row(a, reason, dive)} /\ UNCHANGED eligible
    <2>1. /\ Told' = Told \cup {a}
          /\ \A r1, r2 \in rejected' : r1.address = r2.address => r1 = r2
      BY <1>3, <1>6, AddRow
    <2>2. QED  BY <1>1, <1>2, <1>3, <1>4, <1>6, <2>1 DEF OnOneList
  <1>7. QED  BY <1>5, <1>6

\* each of the three ways to handle the next of the queue is one of these
LEMMA DiveOutcome ==
  ASSUME NEW a \in Address, SkipBeyondTopN(a) \/ SkipTargetReached(a) \/ DeepDive(a)
  PROVE  /\ NextDive(a)
         /\ \E reason, dive :
              \/ eligible' = eligible \cup {a} /\ UNCHANGED rejected
              \/ rejected' = rejected \cup {Row(a, reason, dive)} /\ UNCHANGED eligible
  <1>1. NextDive(a)
    BY DEF SkipBeyondTopN, SkipTargetReached, DeepDive
  <1>2. CASE SkipBeyondTopN(a)
    BY <1>1, <1>2, Zenon DEF SkipBeyondTopN
  <1>3. CASE SkipTargetReached(a)
    BY <1>1, <1>3, Zenon DEF SkipTargetReached
  <1>4. CASE DeepDive(a)
    BY <1>1, <1>4, Zenon DEF DeepDive
  <1>5. QED  BY <1>2, <1>3, <1>4

LEMMA SelectLists ==
  ASSUME OnOneList, Select
  PROVE  OnOneList'
  <1>1. /\ phase = "deep_dive" /\ phase' = "write_accepted" /\ handled = queue
        /\ accepted' = Chosen
        /\ rejected' = rejected \cup {Row(a, "target_count_reached", "not_queued") :
                                        a \in eligible \ Chosen}
        /\ UNCHANGED <<discovered, todo, eligible, queue, handled>>
    BY DEF Select, looking
  <1>2. Candidates' = Candidates
    BY <1>1, SameCandidates
  <1>3. /\ Candidates = todo \cup eligible \cup queue \cup Told
        /\ todo = {} /\ eligible \cap Told = {}
        /\ handled \subseteq eligible \cup Told
        /\ \A r1, r2 \in rejected : r1.address = r2.address => r1 = r2
    BY <1>1 DEF OnOneList, Going, Selected
  <1>4. \A a : Row(a, "target_count_reached", "not_queued").address = a
    BY DEF Row
  <1>5. Told' = Told \cup (eligible \ Chosen)
    BY <1>1, <1>4 DEF Told
  <1>6. \A r1, r2 \in rejected' : r1.address = r2.address => r1 = r2
    BY <1>1, <1>3, <1>4 DEF Told
  <1>7. Chosen \in SUBSET eligible
    BY DEF Chosen
  <1>8. Selected'
    BY <1>1 DEF Selected
  <1>9. QED  BY <1>1, <1>2, <1>3, <1>5, <1>6, <1>7, <1>8 DEF OnOneList, Going

LEMMA NextLists ==
  ASSUME TypeOK, OnOneList, [Next]_vars
  PROVE  OnOneList'
  <1>1. CASE LookAtSeed
    BY <1>1, SeedsOnOneList
  <1>2. CASE SortCandidates
    BY <1>2, SortLists
  <1>3. CASE \E a \in Address : FetchCandidate(a)
    BY <1>3, FetchCandidateLists
  <1>4. CASE \E a \in Address : SkipBeyondTopN(a) \/ SkipTargetReached(a) \/ DeepDive(a)
    BY <1>4, DiveOutcome, DiveLists
  <1>5. CASE EndCandidates
    <2>1. /\ phase = "candidates" /\ phase' = "deep_dive" /\ todo = {}
          /\ UNCHANGED <<discovered, todo, eligible, queue, handled, accepted, rejected>>
      BY <1>5 DEF EndCandidates, looking, judging
    <2>2. Candidates' = Candidates /\ Told' = Told
      BY <2>1, SameCandidates, SameRows
    <2>3. QED  BY <2>1, <2>2 DEF OnOneList, Going, Selected
  <1>6. CASE Select
    BY <1>6, SelectLists
  <1>7. CASE Write
    <2>1. /\ UNCHANGED <<discovered, todo, eligible, queue, handled, accepted, rejected>>
          /\ phase \in {"write_accepted", "write_rejected"}
          /\ phase' \in {"write_rejected", "done", "failed"}
      BY <1>7 DEF Write, looking, judging
    <2>2. Candidates' = Candidates /\ Told' = Told
      BY <2>1, SameCandidates, SameRows
    <2>3. QED  BY <2>1, <2>2 DEF OnOneList, Going, Selected
  <1>8. CASE UNCHANGED vars
    <2>1. UNCHANGED <<phase, discovered, todo, eligible, queue, handled, accepted, rejected>>
      BY <1>8 DEF vars, looking, judging
    <2>2. Candidates' = Candidates /\ Told' = Told
      BY <2>1, SameCandidates, SameRows
    <2>3. QED  BY <2>1, <2>2 DEF OnOneList, Going, Selected
  <1>9. QED
    BY <1>1, <1>2, <1>3, <1>4, <1>5, <1>6, <1>7, <1>8 DEF Next

-----------------------------------------------------------------------------
(* Samples.                                                                *)

LEMMA VerdictSpec ==
  ASSUME NEW p \in Pages, NEW s \in Stats
  PROVE  /\ Verdict(p, s) = "eligible" => p = "whole" /\ s.fit
         /\ DiveVerdict(p, s) = "eligible" => p = "whole" /\ s.fit
  BY DEF Verdict, DiveVerdict, Pages, Partial, Capped

LEMMA FetchSpec ==
  ASSUME TypeOK, NEW a \in Address, NEW p \in Pages, NEW s \in Stats, NEW n, Fetch(a, p, s, n)
  PROVE  /\ p # "error" => stats'[a] = s
         /\ \A b \in Address \ {a} : stats'[b] = stats[b]
  BY DEF TypeOK, Fetch

\* what the rows and the eligible rest on does not change for the other wallets when
\* one without a row is looked at
LEMMA OthersKept ==
  ASSUME TypeOK, Samples, NEW a \in Address, a \notin Told, a \notin eligible,
         queue' \ {a} = queue \ {a},
         \A b \in Address \ {a} :
           page'[b] = page[b] /\ again'[b] = again[b] /\ stats'[b] = stats[b]
  PROVE  /\ \A r \in rejected : TrueRow(r)'
         /\ \A b \in eligible : Last(b)' = "whole" /\ stats'[b].fit
  <1>1. ASSUME NEW r \in rejected  PROVE TrueRow(r)'
    <2>1. r.address \in Address \ {a}
      BY DEF TypeOK, Told
    <2>2. /\ page'[r.address] = page[r.address] /\ again'[r.address] = again[r.address]
          /\ stats'[r.address] = stats[r.address]
      BY <2>1
    <2>3. r.address \in queue' <=> r.address \in queue
      BY <2>1
    <2>4. TrueDive(r) /\ TrueReason(r)
      BY DEF Samples, TrueRow
    <2>5. TrueDive(r)'
      BY <2>2, <2>3, <2>4 DEF TrueDive
    <2>6. TrueReason(r)'
      BY <2>2, <2>3, <2>4 DEF TrueReason, Last
    <2>7. QED  BY <2>5, <2>6 DEF TrueRow
  <1>2. ASSUME NEW b \in eligible  PROVE Last(b)' = "whole" /\ stats'[b].fit
    <2>1. b \in Address \ {a}
      BY DEF TypeOK
    <2>2. Last(b) = "whole" /\ stats[b].fit
      BY DEF Samples
    <2>3. QED  BY <2>1, <2>2 DEF Last
  <1>3. QED  BY <1>1, <1>2

LEMMA InitSamples == Init => Samples
  BY DEF Init, Samples

LEMMA FetchCandidateSamples ==
  ASSUME TypeOK, OnOneList, Samples, NEW a \in Address, FetchCandidate(a)
  PROVE  Samples'
  <1>1. PICK p \in Pages, s \in Stats, n \in 0..CandidateCalls :
          Fetch(a, p, s, n) /\ page' = [page EXCEPT ![a] = p] /\ Judge(a, p, s)
    BY DEF FetchCandidate
  <1>2. /\ phase = "candidates" /\ a \in todo
        /\ UNCHANGED <<again, handled, accepted>>
    BY DEF FetchCandidate, FirstOf
  <1>3. /\ a \notin eligible /\ a \notin queue /\ a \notin Told
        /\ handled = {} /\ accepted = {}
    BY <1>2 DEF OnOneList, Going, Selected
  <1>4. /\ page'[a] = p /\ (p # "error" => stats'[a] = s)
        /\ \A b \in Address \ {a} : page'[b] = page[b] /\ stats'[b] = stats[b]
    BY <1>1, FetchSpec DEF TypeOK
  <1>5. queue' \ {a} = queue \ {a}
    BY <1>1, <1>3 DEF Judge
  <1>6. /\ \A r \in rejected : TrueRow(r)'
        /\ \A b \in eligible : Last(b)' = "whole" /\ stats'[b].fit
    BY <1>2, <1>3, <1>4, <1>5, OthersKept
  <1>7. \A b \in Address : again'[b] = "none"
    BY <1>2, <1>3 DEF Samples
  <1>8. \A b \in queue : page'[b] \in Capped
    BY <1>3, <1>4 DEF TypeOK, Samples
  <1>9. CASE ShouldDeepDive(p, s) /\ queue' = queue \cup {a} /\ UNCHANGED <<eligible, rejected>>
    <2>1. page'[a] \in Capped
      BY <1>4, <1>9 DEF ShouldDeepDive
    <2>2. QED  BY <1>2, <1>3, <1>6, <1>7, <1>8, <1>9, <2>1 DEF Samples
  <1>10. CASE /\ Verdict(p, s) # "eligible"
              /\ rejected' = rejected \cup {Row(a, Verdict(p, s), "not_queued")}
              /\ UNCHANGED <<eligible, queue>>
    <2>1. again'[a] = "none" /\ a \notin queue'
      BY <1>3, <1>7, <1>10
    <2>2. TrueRow(Row(a, Verdict(p, s), "not_queued"))'
      BY <1>4, <1>10, <2>1
         DEF TrueRow, TrueDive, TrueReason, Row, Verdict, Last, Pages, Partial, Capped
    <2>3. QED  BY <1>2, <1>3, <1>6, <1>7, <1>8, <1>10, <2>2 DEF Samples
  <1>11. CASE /\ Verdict(p, s) = "eligible"
              /\ eligible' = eligible \cup {a} /\ UNCHANGED <<queue, rejected>>
    <2>1. Last(a)' = "whole" /\ stats'[a].fit
      BY <1>4, <1>7, <1>11, VerdictSpec DEF Last
    <2>2. QED  BY <1>2, <1>3, <1>6, <1>7, <1>8, <1>11, <2>1 DEF Samples
  <1>12. QED  BY <1>1, <1>9, <1>10, <1>11 DEF Judge

LEMMA SkipSamples ==
  ASSUME TypeOK, OnOneList, Samples, NEW a \in Address,
         SkipBeyondTopN(a) \/ SkipTargetReached(a)
  PROVE  Samples'
  <1>1. /\ a \in queue \ handled /\ handled' = handled \cup {a}
        /\ UNCHANGED <<queue, accepted, eligible, page, again, stats>>
    BY DEF SkipBeyondTopN, SkipTargetReached, NextDive
  <1>2. PICK reason \in {"activity_cap_reached", "target_count_reached"} :
          rejected' = rejected \cup {Row(a, reason, "queued_top_n_skip")}
    BY Zenon DEF SkipBeyondTopN, SkipTargetReached
  <1>3. page[a] \in Capped /\ again[a] = "none"
    BY <1>1 DEF Samples
  <1>4. TrueRow(Row(a, reason, "queued_top_n_skip"))'
    BY <1>1, <1>3 DEF TrueRow, TrueDive, TrueReason, Row, Last, Partial, Capped
  <1>5. \A r \in rejected : TrueRow(r)'
    BY <1>1 DEF Samples, TrueRow, TrueDive, TrueReason, Last
  <1>6. \A b \in eligible' : Last(b)' = "whole" /\ stats'[b].fit
    BY <1>1 DEF Samples, Last
  <1>7. QED  BY <1>1, <1>2, <1>4, <1>5, <1>6 DEF Samples

LEMMA DeepDiveSamples ==
  ASSUME TypeOK, OnOneList, Samples, NEW a \in Address, DeepDive(a)
  PROVE  Samples'
  <1>1. PICK p \in Pages, s \in Stats, n \in 0..DeepDiveCalls :
          /\ Fetch(a, p, s, n)
          /\ again' = [again EXCEPT ![a] = p]
          /\ \/ /\ DiveVerdict(p, s) = "eligible"
                /\ eligible' = eligible \cup {a}
                /\ UNCHANGED rejected
             \/ /\ DiveVerdict(p, s) # "eligible"
                /\ rejected' = rejected \cup {Row(a, DiveVerdict(p, s), DiveStatus(p))}
                /\ UNCHANGED eligible
    BY DEF DeepDive
  <1>2. /\ phase = "deep_dive" /\ a \in queue \ handled /\ handled' = handled \cup {a}
        /\ UNCHANGED <<page, queue, accepted>>
    BY DEF DeepDive, NextDive
  <1>3. a \notin eligible /\ a \notin Told /\ accepted = {}
    BY <1>2 DEF OnOneList, Going, Selected
  <1>4. /\ again'[a] = p /\ (p # "error" => stats'[a] = s)
        /\ \A b \in Address \ {a} : again'[b] = again[b] /\ stats'[b] = stats[b]
    BY <1>1, FetchSpec DEF TypeOK
  <1>5. /\ \A r \in rejected : TrueRow(r)'
        /\ \A b \in eligible : Last(b)' = "whole" /\ stats'[b].fit
    BY <1>2, <1>3, <1>4, OthersKept
  <1>6. \A b \in queue' : page'[b] \in Capped
    BY <1>2 DEF Samples
  <1>7. \A b \in Address : again'[b] # "none" => b \in handled'
    BY <1>2, <1>4 DEF Samples
  <1>8. CASE DiveVerdict(p, s) = "eligible" /\ eligible' = eligible \cup {a} /\ UNCHANGED rejected
    <2>1. Last(a)' = "whole" /\ stats'[a].fit
      BY <1>4, <1>8, VerdictSpec DEF Last
    <2>2. QED  BY <1>2, <1>3, <1>5, <1>6, <1>7, <1>8, <2>1 DEF Samples
  <1>9. CASE /\ DiveVerdict(p, s) # "eligible"
             /\ rejected' = rejected \cup {Row(a, DiveVerdict(p, s), DiveStatus(p))}
             /\ UNCHANGED eligible
    <2>1. a \in queue'
      BY <1>2
    <2>2. TrueRow(Row(a, DiveVerdict(p, s), DiveStatus(p)))'
      BY <1>4, <1>9, <2>1
         DEF TrueRow, TrueDive, TrueReason, Row, DiveVerdict, Verdict, DiveStatus, Last,
             Pages, Partial, Capped
    <2>3. QED  BY <1>2, <1>3, <1>5, <1>6, <1>7, <1>9, <2>2 DEF Samples
  <1>10. QED  BY <1>1, <1>8, <1>9

-----------------------------------------------------------------------------
(* The choice.                                                             *)

BetterPairs == {ab \in Address \X Address : Better(ab[1], ab[2])}

LEMMA StatsType ==
  ASSUME TypeOK, NEW a \in Address
  PROVE  stats[a].score \in Nat /\ stats[a].rest \in Nat /\ a \in Nat
  <1>1. stats[a] \in Stats \cup {NoStats}
    BY DEF TypeOK
  <1>2. QED  BY <1>1, SourceAssumption DEF NoStats

LEMMA BetterIsStrict ==
  ASSUME TypeOK, NEW S \in SUBSET Address
  PROVE  StrictOrder(S, BetterPairs)
  <1>1. \A a, b \in Address : <<a, b>> \in BetterPairs <=> Better(a, b)
    BY DEF BetterPairs
  <1>2. \A a \in Address : ~Better(a, a)
    BY StatsType DEF Better
  <1>3. \A a, b, c \in Address : Better(a, b) /\ Better(b, c) => Better(a, c)
    BY StatsType DEF Better
  <1>4. \A a, b \in Address : a # b => Better(a, b) \/ Better(b, a)
    BY StatsType DEF Better
  <1>5. QED  BY <1>1, <1>2, <1>3, <1>4 DEF StrictOrder

LEMMA FiniteParts ==
  ASSUME NEW S \in SUBSET Address
  PROVE  IsFiniteSet(S) /\ Cardinality(S) \in Nat
  <1>1. IsFiniteSet(S)
    BY SourceAssumption, FS_Subset
  <1>2. QED  BY <1>1, FS_CardinalityType

LEMMA BetterThan ==
  ASSUME TypeOK, NEW a \in Address
  PROVE  Below(eligible, BetterPairs, a) = {b \in eligible : Better(b, a)}
  <1>1. \A b \in Address : <<b, a>> \in BetterPairs <=> Better(b, a)
    BY DEF BetterPairs
  <1>2. eligible \in SUBSET Address
    BY DEF TypeOK
  <1>3. QED  BY <1>1, <1>2 DEF Below

LEMMA ChosenIsFirst ==
  ASSUME TypeOK
  PROVE  Chosen = FirstK(eligible, BetterPairs, TargetCount)
  <1>1. eligible \in SUBSET Address
    BY DEF TypeOK
  <1>2. \A a \in eligible : Rank(eligible, BetterPairs, a)
                              = Cardinality({b \in eligible : Better(b, a)})
    BY <1>1, BetterThan, Zenon DEF Rank
  <1>3. QED  BY <1>2 DEF Chosen, FirstK

\* never more than the target, all when they are no more, the target when they are
LEMMA ChosenSize ==
  ASSUME TypeOK
  PROVE  /\ Chosen \in SUBSET eligible
         /\ Cardinality(Chosen) <= TargetCount
         /\ Cardinality(eligible) <= TargetCount => Chosen = eligible
         /\ Cardinality(eligible) >= TargetCount => Cardinality(Chosen) = TargetCount
  <1>1. eligible \in SUBSET Address
    BY DEF TypeOK
  <1>2. IsFiniteSet(eligible) /\ StrictOrder(eligible, BetterPairs) /\ TargetCount \in Nat
    BY <1>1, FiniteParts, BetterIsStrict, SourceAssumption
  <1>3. Chosen = FirstK(eligible, BetterPairs, TargetCount)
    BY ChosenIsFirst
  <1>4. /\ Cardinality(FirstK(eligible, BetterPairs, TargetCount)) <= TargetCount
        /\ Cardinality(eligible) <= TargetCount =>
             FirstK(eligible, BetterPairs, TargetCount) = eligible
        /\ Cardinality(eligible) >= TargetCount =>
             Cardinality(FirstK(eligible, BetterPairs, TargetCount)) = TargetCount
    BY <1>2, FirstKSize, FirstKFull
  <1>5. QED  BY <1>3, <1>4 DEF Chosen

LEMMA ChosenAreBetter ==
  ASSUME TypeOK, NEW a \in eligible \ Chosen, NEW b \in Chosen
  PROVE  Better(b, a)
  <1>1. eligible \in SUBSET Address /\ a \in eligible /\ b \in eligible
    BY DEF TypeOK, Chosen
  <1>2. IsFiniteSet(eligible) /\ StrictOrder(eligible, BetterPairs) /\ TargetCount \in Nat
    BY <1>1, FiniteParts, BetterIsStrict, SourceAssumption
  <1>3. /\ Rank(eligible, BetterPairs, b) < TargetCount
        /\ ~(Rank(eligible, BetterPairs, a) < TargetCount)
    BY <1>1, ChosenIsFirst DEF FirstK
  <1>4. Rank(eligible, BetterPairs, a) \in Int /\ Rank(eligible, BetterPairs, b) \in Int
    BY <1>1, <1>2, RankRange
  <1>5. <<a, b>> \notin BetterPairs
    BY <1>1, <1>2, <1>3, <1>4, RankOrder
  <1>6. a # b
    BY <1>1
  <1>7. <<b, a>> \in BetterPairs
    BY <1>1, <1>2, <1>5, <1>6 DEF StrictOrder
  <1>8. QED  BY <1>7 DEF BetterPairs

\* a wallet that a retry found eligible is never turned away
LEMMA SelectSamples ==
  ASSUME TypeOK, OnOneList, Samples, Target, Select
  PROVE  Samples'
  <1>1. /\ phase = "deep_dive" /\ handled = queue
        /\ accepted' = Chosen
        /\ rejected' = rejected \cup {Row(a, "target_count_reached", "not_queued") :
                                        a \in eligible \ Chosen}
        /\ UNCHANGED <<stats, page, again, eligible, queue, handled>>
    BY DEF Select
  <1>2. Chosen \in SUBSET eligible
    BY ChosenSize
  <1>3. ASSUME NEW a \in eligible \ Chosen  PROVE a \notin queue
    <2>1. ~(Cardinality(eligible) <= TargetCount)
      BY <1>3, ChosenSize
    <2>2. QED  BY <1>1, <1>3, <2>1 DEF Target
  <1>4. \A r \in rejected : TrueRow(r)'
    BY <1>1 DEF Samples, TrueRow, TrueDive, TrueReason, Last
  <1>5. ASSUME NEW a \in eligible \ Chosen
        PROVE  TrueRow(Row(a, "target_count_reached", "not_queued"))'
    <2>1. a \in Address /\ Last(a) = "whole" /\ stats[a].fit
      BY <1>5 DEF TypeOK, Samples
    <2>2. a \notin queue /\ again[a] = "none"
      BY <1>1, <1>3, <1>5, <2>1 DEF Samples
    <2>3. QED  BY <1>1, <2>1, <2>2 DEF TrueRow, TrueDive, TrueReason, Row, Last, Partial, Capped
  <1>6. \A b \in eligible' : Last(b)' = "whole" /\ stats'[b].fit
    BY <1>1 DEF Samples, Last
  <1>7. \A r \in rejected' : TrueRow(r)'
    BY <1>1, <1>4, <1>5
  <1>8. QED  BY <1>1, <1>2, <1>6, <1>7 DEF Samples

LEMMA NextSamples ==
  ASSUME TypeOK, OnOneList, Samples, Target, [Next]_vars
  PROVE  Samples'
  <1>1. CASE UNCHANGED judging
    BY <1>1 DEF judging, Samples, TrueRow, TrueDive, TrueReason, Last
  <1>2. CASE \E a \in Address : FetchCandidate(a)
    BY <1>2, FetchCandidateSamples
  <1>3. CASE \E a \in Address : SkipBeyondTopN(a) \/ SkipTargetReached(a)
    BY <1>3, SkipSamples
  <1>4. CASE \E a \in Address : DeepDive(a)
    BY <1>4, DeepDiveSamples
  <1>5. CASE Select
    BY <1>5, SelectSamples
  <1>6. LookAtSeed \/ SortCandidates \/ EndCandidates \/ Write \/ UNCHANGED vars
          => UNCHANGED judging
    BY DEF LookAtSeed, SortCandidates, EndCandidates, Write, vars
  <1>7. QED  BY <1>1, <1>2, <1>3, <1>4, <1>5, <1>6 DEF Next

-----------------------------------------------------------------------------
(* The target.                                                             *)

LEMMA InitTarget == Init => Target
  BY DEF Init, Target, Selected

LEMMA OneMoreEligible ==
  ASSUME TypeOK, NEW a \in Address
  PROVE  /\ Cardinality(eligible) \in Nat
         /\ Cardinality(eligible \cup {a}) \in Nat
         /\ Cardinality(eligible \cup {a}) >= Cardinality(eligible)
         /\ Cardinality(eligible \cup {a}) <= Cardinality(eligible) + 1
  <1>1. eligible \in SUBSET Address /\ eligible \cup {a} \in SUBSET Address
    BY DEF TypeOK
  <1>2. /\ IsFiniteSet(eligible) /\ Cardinality(eligible) \in Nat
        /\ Cardinality(eligible \cup {a}) \in Nat
    BY <1>1, FiniteParts
  <1>3. Cardinality(eligible \cup {a})
          = IF a \in eligible THEN Cardinality(eligible) ELSE Cardinality(eligible) + 1
    BY <1>2, FS_AddElement
  <1>4. QED  BY <1>2, <1>3

LEMMA FetchCandidateTarget ==
  ASSUME TypeOK, OnOneList, Target, NEW a \in Address, FetchCandidate(a)
  PROVE  Target'
  <1>1. PICK p \in Pages, s \in Stats : Judge(a, p, s)
    BY DEF FetchCandidate
  <1>2. phase = "candidates" /\ UNCHANGED <<phase, handled>>
    BY DEF FetchCandidate
  <1>3. handled' = {} /\ ~Selected' /\ Short /\ Short'
    BY <1>2 DEF OnOneList, Going, Selected, Short
  <1>4. \/ eligible' = eligible
        \/ eligible' = eligible \cup {a}
    BY <1>1 DEF Judge
  <1>5. Cardinality(eligible') >= Cardinality(eligible) /\ Cardinality(eligible') \in Nat
        /\ Cardinality(eligible) \in Nat
    <2>1. \/ Cardinality(eligible') = Cardinality(eligible)
          \/ Cardinality(eligible') = Cardinality(eligible \cup {a})
      BY <1>4, Zenon
    <2>2. /\ Cardinality(eligible) \in Nat
          /\ Cardinality(eligible \cup {a}) \in Nat
          /\ Cardinality(eligible \cup {a}) >= Cardinality(eligible)
      BY OneMoreEligible
    <2>3. QED  BY <2>1, <2>2
  <1>6. \/ rejected' = rejected
        \/ rejected' = rejected \cup {Row(a, Verdict(p, s), "not_queued")}
    BY <1>1 DEF Judge
  <1>7. Row(a, Verdict(p, s), "not_queued").reason # "target_count_reached"
    BY DEF Row, Verdict
  <1>8. \A r \in rejected' : r.reason = "target_count_reached" => r \in rejected
    BY <1>6, <1>7
  <1>9. TargetCount \in Nat
    BY SourceAssumption
  <1>10. QED  BY <1>3, <1>5, <1>8, <1>9 DEF Target

LEMMA SkipTarget ==
  ASSUME TypeOK, OnOneList, Target, NEW a \in Address,
         SkipBeyondTopN(a) \/ SkipTargetReached(a)
  PROVE  Target'
  <1>1. /\ phase = "deep_dive" /\ a \in queue \ handled /\ handled' = handled \cup {a}
        /\ UNCHANGED <<phase, eligible>>
    BY DEF SkipBeyondTopN, SkipTargetReached, NextDive
  <1>2. a \notin eligible /\ ~Selected' /\ Short /\ Short'
    BY <1>1 DEF OnOneList, Going, Selected, Short
  <1>3. PICK reason : /\ rejected' = rejected \cup {Row(a, reason, "queued_top_n_skip")}
                      /\ reason = "target_count_reached" =>
                           Cardinality(eligible) >= TargetCount
    <2>1. CASE SkipBeyondTopN(a)
      BY <2>1 DEF SkipBeyondTopN
    <2>2. CASE SkipTargetReached(a)
      <3>1. Cardinality(eligible) \in Nat /\ Cardinality(handled) \in Nat
        BY FiniteParts DEF TypeOK
      <3>2. ~(Cardinality(eligible) < TargetCount)
        BY <2>2 DEF SkipTargetReached, MayDive
      <3>3. Cardinality(eligible) >= TargetCount
        BY <3>1, <3>2, SourceAssumption
      <3>4. QED  BY <2>2, <3>3 DEF SkipTargetReached
    <2>3. QED  BY <2>1, <2>2
  <1>4. eligible' \cap handled' = eligible \cap handled
    BY <1>1, <1>2
  <1>5. \A r \in rejected' : r.reason = "target_count_reached" =>
          Cardinality(eligible) >= TargetCount /\ r.dive # "not_queued"
    BY <1>2, <1>3 DEF Target, Row
  <1>6. QED  BY <1>1, <1>2, <1>4, <1>5 DEF Target

LEMMA DeepDiveTarget ==
  ASSUME TypeOK, OnOneList, Target, NEW a \in Address, DeepDive(a)
  PROVE  Target'
  <1>1. PICK p \in Pages, s \in Stats :
          \/ eligible' = eligible \cup {a} /\ UNCHANGED rejected
          \/ /\ rejected' = rejected \cup {Row(a, DiveVerdict(p, s), DiveStatus(p))}
             /\ UNCHANGED eligible
    BY DEF DeepDive
  <1>2. /\ phase = "deep_dive" /\ a \in queue \ handled /\ handled' = handled \cup {a}
        /\ UNCHANGED phase
        /\ Cardinality(eligible) < TargetCount
    BY DEF DeepDive, NextDive, MayDive
  <1>3. a \notin eligible /\ ~Selected' /\ Short /\ Short'
    BY <1>2 DEF OnOneList, Going, Selected, Short
  <1>4. /\ Cardinality(eligible) \in Nat /\ TargetCount \in Nat
        /\ Cardinality(eligible \cup {a}) \in Nat
        /\ Cardinality(eligible \cup {a}) <= Cardinality(eligible) + 1
    BY OneMoreEligible, SourceAssumption
  <1>5. Cardinality(eligible') <= TargetCount
    <2>1. \/ Cardinality(eligible') = Cardinality(eligible)
          \/ Cardinality(eligible') = Cardinality(eligible \cup {a})
      BY <1>1, Zenon
    <2>2. QED  BY <1>2, <1>4, <2>1
  <1>6. \A r \in rejected : r.reason # "target_count_reached"
    BY <1>2, <1>4 DEF Target
  <1>7. \A r \in rejected' : r.reason # "target_count_reached"
    <2>1. Row(a, DiveVerdict(p, s), DiveStatus(p)).reason # "target_count_reached"
      BY DEF Row, DiveVerdict, Verdict
    <2>2. QED  BY <1>1, <1>6, <2>1
  <1>8. QED  BY <1>3, <1>5, <1>7 DEF Target

LEMMA SelectTarget ==
  ASSUME TypeOK, OnOneList, Target, Select
  PROVE  Target'
  <1>1. /\ phase = "deep_dive" /\ phase' = "write_accepted" /\ accepted' = Chosen
        /\ rejected' = rejected \cup {Row(a, "target_count_reached", "not_queued") :
                                        a \in eligible \ Chosen}
        /\ UNCHANGED <<stats, eligible, handled>>
    BY DEF Select
  <1>2. Chosen' = Chosen
    BY <1>1 DEF Chosen, Better
  <1>3. Selected' /\ ~Short' /\ Short
    BY <1>1 DEF Selected, Short
  <1>4. ASSUME NEW r \in rejected', r.reason = "target_count_reached"
        PROVE  /\ Cardinality(eligible) >= TargetCount
               /\ r.dive = "not_queued" => r.address \in eligible \ Chosen
    <2>1. CASE r \in rejected
      BY <1>3, <1>4, <2>1 DEF Target
    <2>2. CASE r \notin rejected
      <3>1. PICK a \in eligible \ Chosen : r = Row(a, "target_count_reached", "not_queued")
        BY <1>1, <2>2
      <3>2. ~(Cardinality(eligible) <= TargetCount)
        BY <3>1, ChosenSize
      <3>3. Cardinality(eligible) \in Nat /\ TargetCount \in Nat
        BY FiniteParts, SourceAssumption DEF TypeOK
      <3>4. QED  BY <3>1, <3>2, <3>3 DEF Row
    <2>3. QED  BY <2>1, <2>2
  <1>5. eligible' \cap handled' = eligible \cap handled
    BY <1>1
  <1>6. QED  BY <1>1, <1>2, <1>3, <1>4, <1>5 DEF Target

LEMMA NextTarget ==
  ASSUME TypeOK, OnOneList, Target, [Next]_vars
  PROVE  Target'
  <1>1. CASE /\ UNCHANGED judging
             /\ Selected' => Selected
             /\ Short' => Short
    <2>1. Chosen' = Chosen
      BY <1>1 DEF judging, Chosen, Better
    <2>2. QED  BY <1>1, <2>1 DEF judging, Target
  <1>2. CASE \E a \in Address : FetchCandidate(a)
    BY <1>2, FetchCandidateTarget
  <1>3. CASE \E a \in Address : SkipBeyondTopN(a) \/ SkipTargetReached(a)
    BY <1>3, SkipTarget
  <1>4. CASE \E a \in Address : DeepDive(a)
    BY <1>4, DeepDiveTarget
  <1>5. CASE Select
    BY <1>5, SelectTarget
  <1>6. LookAtSeed \/ SortCandidates \/ EndCandidates \/ Write \/ UNCHANGED vars
          => /\ UNCHANGED judging
             /\ Selected' => Selected
             /\ Short' => Short
    BY DEF LookAtSeed, SortCandidates, EndCandidates, Write, vars, Selected, Short
  <1>7. QED  BY <1>1, <1>2, <1>3, <1>4, <1>5, <1>6 DEF Next

-----------------------------------------------------------------------------
(* Requests.                                                               *)

EarlierPairs == {ab \in Address \X Address : Earlier(ab[1], ab[2])}

LEMMA EarlierIsStrict ==
  ASSUME TypeOK, NEW S \in SUBSET Address
  PROVE  StrictOrder(S, EarlierPairs)
  <1>1. \A a, b \in Address : <<a, b>> \in EarlierPairs <=> Earlier(a, b)
    BY DEF EarlierPairs
  <1>2. \A a \in Address : Cardinality(discovered[a]) \in Nat /\ a \in Nat
    BY FiniteParts, SourceAssumption DEF TypeOK
  <1>3. \A a \in Address : ~Earlier(a, a)
    BY <1>2 DEF Earlier
  <1>4. \A a, b, c \in Address : Earlier(a, b) /\ Earlier(b, c) => Earlier(a, c)
    BY <1>2 DEF Earlier
  <1>5. \A a, b \in Address : a # b => Earlier(a, b) \/ Earlier(b, a)
    BY <1>2 DEF Earlier
  <1>6. QED  BY <1>1, <1>3, <1>4, <1>5 DEF StrictOrder

\* no more candidates than MaxCandidates
LEMMA FewCandidates ==
  ASSUME TypeOK
  PROVE  Candidates \in SUBSET Address /\ Cardinality(Candidates) <= MaxCandidates
  <1>1. Discovered \in SUBSET Address
    BY DEF Discovered
  <1>2. \A a \in Discovered : Below(Discovered, EarlierPairs, a)
                                = {b \in Discovered : Earlier(b, a)}
    BY <1>1 DEF Below, EarlierPairs
  <1>3. \A a \in Discovered : Rank(Discovered, EarlierPairs, a)
                                = Cardinality({b \in Discovered : Earlier(b, a)})
    BY <1>2, Zenon DEF Rank
  <1>4. Candidates = FirstK(Discovered, EarlierPairs, MaxCandidates)
    BY <1>3 DEF Candidates, FirstK
  <1>5. /\ IsFiniteSet(Discovered) /\ StrictOrder(Discovered, EarlierPairs)
        /\ MaxCandidates \in Nat
    BY <1>1, FiniteParts, EarlierIsStrict, SourceAssumption
  <1>6. Cardinality(FirstK(Discovered, EarlierPairs, MaxCandidates)) <= MaxCandidates
    BY <1>5, FirstKSize
  <1>7. QED  BY <1>1, <1>4, <1>6 DEF Candidates

\* one unit of n is spent, for at most c requests
LEMMA OneLess ==
  ASSUME NEW m \in Int, NEW n \in Int, NEW c \in Nat, NEW k \in 0..c
  PROVE  (m - n) * c + k <= (m - (n - 1)) * c
  <1>1. (m - (n - 1)) * c = (m - n) * c + c
    BY SMT
  <1>2. (m - n) * c \in Int
    OBVIOUS
  <1>3. QED  BY <1>1, <1>2

LEMMA UpTo ==
  ASSUME NEW m \in Nat, NEW n \in Nat, NEW c \in Nat, n <= m
  PROVE  n * c <= m * c /\ n * c \in Nat /\ m * c \in Nat
  <1>1. m - n \in Nat
    OBVIOUS
  <1>2. (m - n) * c \in Nat /\ n * c \in Nat /\ m * c \in Nat
    BY <1>1
  <1>3. m * c = n * c + (m - n) * c
    BY SMT
  <1>4. QED  BY <1>2, <1>3

LEMMA BudgetType ==
  /\ SeedBudget \in Nat
  /\ MaxCandidates * CandidateCalls \in Nat
  /\ DeepDiveTopN * DeepDiveCalls \in Nat
  BY SourceAssumption DEF SeedBudget

Retries == Least(Cardinality(handled), DeepDiveTopN)

LEMMA RetriesType ==
  ASSUME TypeOK
  PROVE  /\ Retries \in 0..DeepDiveTopN
         /\ Retries * DeepDiveCalls \in Nat
         /\ Retries * DeepDiveCalls <= DeepDiveTopN * DeepDiveCalls
  <1>1. Cardinality(handled) \in Nat
    BY FiniteParts DEF TypeOK
  <1>2. Retries \in 0..DeepDiveTopN
    BY <1>1, SourceAssumption DEF Retries, Least
  <1>3. QED  BY <1>2, UpTo, SourceAssumption

LEMMA InitSpent == Init => Spent
  <1> SUFFICES ASSUME Init PROVE Spent
    OBVIOUS
  <1>1. Len(seeds) <= MaxSeedWallets /\ Len(seeds) \in Nat
    BY FirstSeeds
  <1>2. (MaxSeedWallets - Len(seeds)) * SeedCalls \in Nat
    BY <1>1, SourceAssumption
  <1>3. requests = 0 /\ phase = "seeds"
    BY DEF Init
  <1>4. RequestsWithin
    BY <1>3, BudgetType DEF RequestsWithin, SeedBudget
  <1>5. QED  BY <1>1, <1>2, <1>3, <1>4 DEF Spent

LEMMA SeedSpent ==
  ASSUME TypeOK, Spent, LookAtSeed
  PROVE  Spent'
  <1>1. /\ phase = "seeds" /\ seeds # <<>> /\ seeds \in Seq(Address)
        /\ UNCHANGED mode /\ mode \in {"score", "neighbors"} /\ requests \in Nat
    BY DEF LookAtSeed, TypeOK
  <1> DEFINE n == Len(seeds)
             c == SeedCalls
             m == MaxSeedWallets
  <1>2. /\ n \in Nat \ {0} /\ n <= m /\ m \in Nat /\ c \in Nat
        /\ Len(Tail(seeds)) = n - 1
    BY <1>1, HeadTailProperties, SourceAssumption DEF Spent
  <1>3. requests <= (IF mode = "neighbors" THEN (m - n) * c ELSE 0)
    BY <1>1 DEF Spent
  <1>4. /\ (m - (n - 1)) * c \in Nat /\ (m - (n - 1)) * c <= m * c
        /\ m * c \in Nat /\ (m - n) * c \in Nat
    <2> HIDE DEF n, c, m
    <2>1. m - (n - 1) \in Nat /\ m - (n - 1) <= m /\ m - n \in Nat
      BY <1>2
    <2>2. QED  BY <1>2, <2>1, UpTo
  <1>5. requests' <= (IF mode = "neighbors" THEN (m - (n - 1)) * c ELSE 0)
        /\ requests' \in Nat
    <2>1. CASE mode = "score"
      <3>1. requests' = requests
        BY <2>1 DEF LookAtSeed
      <3>2. QED  BY <1>1, <1>3, <2>1, <3>1
    <2>2. CASE mode = "neighbors"
      <3>1. PICK k \in 0..c : requests' = requests + k
        BY <2>2 DEF LookAtSeed
      <3>2. requests <= (m - n) * c
        BY <1>3, <2>2
      <3>3. (m - n) * c + k <= (m - (n - 1)) * c
        <4> HIDE DEF n, c, m
        <4>1. QED  BY <1>2, <3>1, OneLess
      <3> HIDE DEF n, c, m
      <3>4. QED  BY <1>1, <1>2, <1>4, <2>2, <3>1, <3>2, <3>3
    <2>3. QED  BY <1>1, <2>1, <2>2
  <1>6. RequestsWithin'
    <2>1. requests' <= SeedBudget
      <3> HIDE DEF n, c, m
      <3>1. requests' <= (IF mode = "neighbors" THEN m * c ELSE 0)
        BY <1>4, <1>5
      <3>2. QED  BY <3>1 DEF SeedBudget, m, c
    <2>2. SeedBudget' = SeedBudget
      BY <1>1 DEF SeedBudget
    <2>3. QED  BY <1>1, <1>5, <2>1, <2>2, BudgetType DEF RequestsWithin, SeedBudget
  <1>7. CASE phase' = "seeds" /\ seeds' = Tail(seeds)
    <2>1. Len(seeds') <= MaxSeedWallets
      BY <1>2, <1>7
    <2>2. requests' <= (IF mode' = "neighbors" THEN (MaxSeedWallets - Len(seeds')) * SeedCalls
                        ELSE 0)
      BY <1>1, <1>2, <1>5, <1>7
    <2>3. QED  BY <1>6, <1>7, <2>1, <2>2 DEF Spent
  <1>8. CASE phase' = "failed"
    BY <1>6, <1>8 DEF Spent
  <1>9. QED  BY <1>1, <1>7, <1>8 DEF LookAtSeed

LEMMA SortSpent ==
  ASSUME TypeOK, Spent, SortCandidates
  PROVE  Spent'
  <1>1. /\ phase = "seeds" /\ seeds = <<>> /\ phase' = "candidates"
        /\ todo' = Candidates /\ UNCHANGED <<mode, requests>>
    BY DEF SortCandidates, looking, Candidates
  <1>2. Len(seeds) = 0 /\ MaxSeedWallets - 0 = MaxSeedWallets
    BY <1>1, SourceAssumption
  <1>3. requests <= SeedBudget
    BY <1>1, <1>2 DEF Spent, SeedBudget
  <1>4. Cardinality(todo') <= MaxCandidates /\ Cardinality(todo') \in Nat
    BY <1>1, FewCandidates, FiniteParts
  <1>5. (MaxCandidates - Cardinality(todo')) * CandidateCalls \in Nat
    BY <1>4, SourceAssumption
  <1>6. SeedBudget' = SeedBudget
    BY <1>1 DEF SeedBudget
  <1>7. requests' <= SeedBudget' + (MaxCandidates - Cardinality(todo')) * CandidateCalls
    BY <1>1, <1>3, <1>5, <1>6, BudgetType DEF TypeOK
  <1>8. RequestsWithin'
    BY <1>1 DEF RequestsWithin, Spent
  <1>9. QED  BY <1>1, <1>4, <1>7, <1>8 DEF Spent

LEMMA FetchCandidateSpent ==
  ASSUME TypeOK, Spent, NEW a \in Address, FetchCandidate(a)
  PROVE  Spent'
  <1>1. PICK k \in 0..CandidateCalls : requests' = requests + k
    BY DEF FetchCandidate, Fetch
  <1>2. /\ phase = "candidates" /\ UNCHANGED <<phase, mode>>
        /\ a \in todo /\ todo' = todo \ {a}
    BY DEF FetchCandidate, FirstOf, looking
  <1> DEFINE n == Cardinality(todo)
             b == (MaxCandidates - n) * CandidateCalls
             b1 == (MaxCandidates - (n - 1)) * CandidateCalls
  <1>3. IsFiniteSet(todo) /\ n \in Nat /\ Cardinality(todo') \in Nat
    BY <1>2, FiniteParts DEF TypeOK
  <1>4. Cardinality(todo') = n - 1
    BY <1>2, <1>3, FS_RemoveElement
  <1>5. requests <= SeedBudget + b /\ n <= MaxCandidates
    BY <1>2 DEF Spent
  <1>6. b + k <= b1 /\ b \in Nat /\ b1 \in Nat
    <2>1. b + k <= b1
      BY <1>3, OneLess, SourceAssumption
    <2>2. MaxCandidates - n \in Nat /\ MaxCandidates - (n - 1) \in Nat
      BY <1>3, <1>5, SourceAssumption
    <2>3. QED  BY <2>1, <2>2, SourceAssumption
  <1>7. b1 <= MaxCandidates * CandidateCalls
    <2>1. MaxCandidates - (n - 1) \in Nat /\ MaxCandidates - (n - 1) <= MaxCandidates
      BY <1>3, <1>4, <1>5, SourceAssumption
    <2>2. QED  BY <2>1, UpTo, SourceAssumption
  <1>8. requests' <= SeedBudget + b1 /\ requests' \in Nat
    <2> HIDE DEF b, b1
    <2>1. requests \in Nat /\ SeedBudget \in Nat /\ k \in Nat
      BY BudgetType, <1>1, SourceAssumption DEF TypeOK
    <2>2. QED  BY <1>1, <1>5, <1>6, <2>1
  <1>9. SeedBudget' = SeedBudget
    BY <1>2 DEF SeedBudget
  <1>10. Cardinality(todo') <= MaxCandidates
    BY <1>3, <1>4, <1>5, SourceAssumption
  <1>11. b1 = (MaxCandidates - Cardinality(todo')) * CandidateCalls
    BY <1>4
  <1>12. RequestsWithin'
    <2> HIDE DEF b1
    <2>1. requests' <= SeedBudget' + MaxCandidates * CandidateCalls
                       + DeepDiveTopN * DeepDiveCalls
      BY <1>6, <1>7, <1>8, <1>9, BudgetType
    <2>2. QED  BY <2>1 DEF RequestsWithin, SeedBudget
  <1> HIDE DEF b1, b, n
  <1>13. QED  BY <1>2, <1>8, <1>9, <1>10, <1>11, <1>12 DEF Spent

\* from the first retry on
LEMMA LaterSpent ==
  ASSUME TypeOK, TypeOK', UNCHANGED mode,
         phase' \notin {"seeds", "candidates"},
         requests' <= SeedBudget + MaxCandidates * CandidateCalls + Retries' * DeepDiveCalls
  PROVE  Spent'
  <1>1. SeedBudget' = SeedBudget
    BY DEF SeedBudget
  <1>2. /\ Retries' * DeepDiveCalls \in Nat
        /\ Retries' * DeepDiveCalls <= DeepDiveTopN * DeepDiveCalls
    <2>1. Cardinality(handled') \in Nat
      BY FiniteParts DEF TypeOK
    <2>2. Retries' \in Nat /\ Retries' <= DeepDiveTopN
      BY <2>1, SourceAssumption DEF Retries, Least
    <2>3. QED  BY <2>2, UpTo, SourceAssumption
  <1>3. requests' <= SeedBudget + MaxCandidates * CandidateCalls
                     + DeepDiveTopN * DeepDiveCalls
    BY <1>2, BudgetType DEF TypeOK
  <1>4. RequestsWithin'
    BY <1>1, <1>3 DEF RequestsWithin, SeedBudget
  <1>5. QED  BY <1>1, <1>4 DEF Spent, Retries

LEMMA EndSpent ==
  ASSUME TypeOK, TypeOK', Spent, EndCandidates
  PROVE  Spent'
  <1>1. /\ phase = "candidates" /\ phase' = "deep_dive" /\ todo = {}
        /\ UNCHANGED <<mode, handled, requests>>
    BY DEF EndCandidates, looking, judging
  <1>2. MaxCandidates - Cardinality(todo) = MaxCandidates
    BY <1>1, FS_EmptySet, SourceAssumption
  <1>3. requests <= SeedBudget + MaxCandidates * CandidateCalls
    BY <1>1, <1>2 DEF Spent
  <1>4. Retries' = Retries
    BY <1>1 DEF Retries
  <1>5. requests' <= SeedBudget + MaxCandidates * CandidateCalls + Retries' * DeepDiveCalls
    BY <1>1, <1>3, <1>4, RetriesType, BudgetType DEF TypeOK
  <1>6. QED  BY <1>1, <1>5, LaterSpent

LEMMA MoreHandled ==
  ASSUME TypeOK, TypeOK', NEW a \in Address, NextDive(a)
  PROVE  Cardinality(handled) \in Nat /\ Cardinality(handled') = Cardinality(handled) + 1
  <1>1. IsFiniteSet(handled) /\ Cardinality(handled) \in Nat
    BY FiniteParts DEF TypeOK
  <1>2. a \notin handled /\ handled' = handled \cup {a}
    BY DEF NextDive
  <1>3. QED  BY <1>1, <1>2, FS_AddElement

LEMMA DiveSpent ==
  ASSUME TypeOK, TypeOK', Spent, NEW a \in Address,
         SkipBeyondTopN(a) \/ SkipTargetReached(a) \/ DeepDive(a)
  PROVE  Spent'
  <1>1. NextDive(a)
    BY DEF SkipBeyondTopN, SkipTargetReached, DeepDive
  <1>2. phase = "deep_dive" /\ UNCHANGED <<mode, phase>>
    BY <1>1 DEF NextDive, looking
  <1>3. /\ Cardinality(handled) \in Nat
        /\ Cardinality(handled') = Cardinality(handled) + 1
    BY <1>1, MoreHandled
  <1>4. requests <= SeedBudget + MaxCandidates * CandidateCalls + Retries * DeepDiveCalls
    BY <1>2 DEF Spent, Retries
  <1>5. /\ Retries \in Nat /\ Retries' \in Nat /\ Retries <= Retries'
        /\ Retries * DeepDiveCalls \in Nat /\ Retries' * DeepDiveCalls \in Nat
        /\ Retries * DeepDiveCalls <= Retries' * DeepDiveCalls
    <2>1. Retries \in Nat /\ Retries' \in Nat /\ Retries <= Retries'
      BY <1>3, SourceAssumption DEF Retries, Least
    <2>2. QED  BY <2>1, UpTo, SourceAssumption
  <1>6. CASE SkipBeyondTopN(a) \/ SkipTargetReached(a)
    <2>1. requests' = requests
      BY <1>6 DEF SkipBeyondTopN, SkipTargetReached
    <2>2. requests' <= SeedBudget + MaxCandidates * CandidateCalls + Retries' * DeepDiveCalls
      BY <1>4, <1>5, <2>1, BudgetType DEF TypeOK
    <2>3. QED  BY <1>2, <2>2, LaterSpent
  <1>7. CASE DeepDive(a)
    <2>1. PICK k \in 0..DeepDiveCalls : requests' = requests + k
      BY <1>7 DEF DeepDive, Fetch
    <2>2. Cardinality(handled) < DeepDiveTopN
      BY <1>7 DEF DeepDive, MayDive
    <2>3. Retries' = Retries + 1
      BY <1>3, <2>2, SourceAssumption DEF Retries, Least
    <2>4. (Retries + 1) * DeepDiveCalls = Retries * DeepDiveCalls + DeepDiveCalls
      BY <1>5, SourceAssumption
    <2>5. requests' <= SeedBudget + MaxCandidates * CandidateCalls + Retries' * DeepDiveCalls
      BY <1>4, <1>5, <2>1, <2>3, <2>4, BudgetType, SourceAssumption DEF TypeOK
    <2>6. QED  BY <1>2, <2>5, LaterSpent
  <1>8. QED  BY <1>6, <1>7

LEMMA NextSpent ==
  ASSUME TypeOK, TypeOK', Spent, [Next]_vars
  PROVE  Spent'
  <1>1. CASE LookAtSeed
    BY <1>1, SeedSpent
  <1>2. CASE SortCandidates
    BY <1>2, SortSpent
  <1>3. CASE \E a \in Address : FetchCandidate(a)
    BY <1>3, FetchCandidateSpent
  <1>4. CASE \E a \in Address : SkipBeyondTopN(a) \/ SkipTargetReached(a) \/ DeepDive(a)
    BY <1>4, DiveSpent
  <1>5. CASE EndCandidates
    BY <1>5, EndSpent
  <1>6. CASE Select \/ Write
    <2>1. /\ UNCHANGED <<mode, handled, requests>>
          /\ phase \notin {"seeds", "candidates", "failed"}
          /\ phase' \notin {"seeds", "candidates"}
      BY <1>6 DEF Select, Write, looking, judging
    <2>2. requests <= SeedBudget + MaxCandidates * CandidateCalls + Retries * DeepDiveCalls
      BY <2>1 DEF Spent, Retries
    <2>3. Retries' = Retries
      BY <2>1 DEF Retries
    <2>4. QED  BY <2>1, <2>2, <2>3, LaterSpent
  <1>7. CASE UNCHANGED vars
    BY <1>7 DEF vars, looking, judging, Spent, SeedBudget, RequestsWithin
  <1>8. QED  BY <1>1, <1>2, <1>3, <1>4, <1>5, <1>6, <1>7 DEF Next

-----------------------------------------------------------------------------
(* The theorems.                                                           *)

LEMMA Invariant == Spec => []IInv
  <1>1. Init => IInv
    BY InitType, InitLists, InitSamples, InitTarget, InitSpent DEF IInv
  <1>2. IInv /\ [Next]_vars => IInv'
    BY NextType, NextLists, NextSamples, NextTarget, NextSpent DEF IInv
  <1>3. QED  BY <1>1, <1>2, PTL DEF Spec

\* Every candidate ends on exactly one list, with one row if it is rejected and a reason
\* that its last sample bears out, and nobody else is on them, for all seed lists, limits
\* and outcomes.
THEOREM EachDecidedOnce == Spec => []DecidedOnce
  <1>1. IInv => DecidedOnce
    <2>0. IInv => \A r \in rejected : TrueReason(r)
      BY DEF IInv, Samples, TrueRow
    <2> SUFFICES ASSUME IInv, Selected, NEW a \in Address
                 PROVE  /\ a \notin Candidates => a \notin accepted /\ RowsOf(a) = {}
                        /\ a \in Candidates =>
                             \/ a \in accepted /\ RowsOf(a) = {}
                             \/ a \notin accepted /\ Cardinality(RowsOf(a)) = 1
      BY <2>0 DEF DecidedOnce
    <2>1. /\ Candidates = eligible \cup queue \cup Told
          /\ accepted \subseteq eligible /\ eligible \subseteq accepted \cup Told
          /\ accepted \cap Told = {} /\ queue \subseteq eligible \cup Told
      BY DEF IInv, OnOneList, Going, Selected
    <2>2. a \notin Told => RowsOf(a) = {}
      BY DEF Told, RowsOf
    <2>3. ASSUME a \in Told  PROVE Cardinality(RowsOf(a)) = 1
      <3>1. PICK r \in rejected : r.address = a
        BY <2>3 DEF Told
      <3>2. \A q \in rejected : q.address = a => q = r
        BY <3>1 DEF IInv, OnOneList
      <3>3. RowsOf(a) = {r}
        BY <3>1, <3>2 DEF RowsOf
      <3>4. QED  BY <3>3, FS_Singleton
    <2>4. QED  BY <2>1, <2>2, <2>3
  <1>2. QED  BY <1>1, Invariant, PTL

\* No wallet is accepted on a sample that was cut short.
THEOREM WholeSamples == Spec => []AcceptedAreWhole
  <1>1. IInv => AcceptedAreWhole
    BY DEF IInv, Samples, AcceptedAreWhole
  <1>2. QED  BY <1>1, Invariant, PTL

\* The accepted are at most TargetCount and the best of the eligible, and the target
\* is given as a reason only where it was reached.
THEOREM BestAreChosen == Spec => []BestFirst
  <1>1. IInv => BestFirst
    <2> SUFFICES ASSUME IInv, Selected
                 PROVE  /\ Cardinality(accepted) <= TargetCount
                        /\ \A r \in rejected : r.reason = "target_count_reached" =>
                             /\ Cardinality(accepted) = TargetCount
                             /\ r.dive = "not_queued" =>
                                  \A b \in accepted : Better(b, r.address)
      BY DEF BestFirst
    <2>1. accepted = Chosen /\ TypeOK /\ Target
      BY DEF IInv, Target
    <2>2. Cardinality(accepted) <= TargetCount
      BY <2>1, ChosenSize
    <2>3. ASSUME NEW r \in rejected, r.reason = "target_count_reached"
          PROVE  /\ Cardinality(accepted) = TargetCount
                 /\ r.dive = "not_queued" => \A b \in accepted : Better(b, r.address)
      <3>1. Cardinality(eligible) >= TargetCount
        BY <2>1, <2>3 DEF Target
      <3>2. Cardinality(accepted) = TargetCount
        BY <2>1, <3>1, ChosenSize
      <3>3. r.dive = "not_queued" => r.address \in eligible \ Chosen
        BY <2>1, <2>3 DEF Target
      <3>4. QED  BY <2>1, <3>2, <3>3, ChosenAreBetter
    <2>4. QED  BY <2>2, <2>3
  <1>2. QED  BY <1>1, Invariant, PTL

\* The deep dive status of a rejected wallet is what happened to it: whether it was
\* queued, whether it was fetched again, and how that ended.
THEOREM DiveStatusTold == Spec => []DiveStatusIsTrue
  <1>1. IInv => DiveStatusIsTrue
    BY DEF IInv, Samples, TrueRow, DiveStatusIsTrue
  <1>2. QED  BY <1>1, Invariant, PTL

\* The requests of a call stay within its share of the estimate of a cycle.
THEOREM RequestsBounded == Spec => []RequestsWithin
  <1>1. IInv => RequestsWithin
    BY DEF IInv, Spent
  <1>2. QED  BY <1>1, Invariant, PTL
=============================================================================
