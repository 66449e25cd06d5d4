------------------------- MODULE FetchWindow_proofs -------------------------
(* Theorems about FetchWindow, for all windows, caps and chains.           *)
EXTENDS FetchWindow, WellFoundedInduction, TLAPS

Cost == Retries + 1

\* the requests sent are those of the pages answered and the attempts at this one
Counted ==
  /\ pages \in 0..MaxPages /\ attempt \in 0..Retries /\ requests \in Nat
  /\ pc \in {"page", "request", "backoff", "over"}
  /\ pc = "page" => requests <= pages * Cost
  /\ pc = "request" => pages < MaxPages /\ requests <= pages * Cost + attempt
  /\ pc = "backoff" => /\ pages < MaxPages /\ attempt < Retries
                       /\ requests <= pages * Cost + attempt + 1
  /\ pc = "over" => requests <= MaxPages * Cost

LEMMA RetriesType == Retries \in Nat /\ Cost \in Nat
  BY FetchAssumption DEF Retries, Cost

LEMMA Monotone ==
  ASSUME NEW p \in Nat, NEW q \in Nat, p <= q, NEW k \in Nat
  PROVE  p * k <= q * k /\ p * k \in Nat
  OBVIOUS

LEMMA NextPageCost ==
  ASSUME NEW p \in Nat, p < MaxPages
  PROVE  /\ p * Cost + Cost <= MaxPages * Cost
         /\ (p + 1) * Cost = p * Cost + Cost
         /\ p * Cost \in Nat
  <1>1. p + 1 \in Nat /\ MaxPages \in Nat /\ p + 1 <= MaxPages
    BY FetchAssumption
  <1>2. (p + 1) * Cost = p * Cost + Cost /\ p * Cost \in Nat
    BY RetriesType
  <1>3. (p + 1) * Cost <= MaxPages * Cost
    BY <1>1, RetriesType, Monotone
  <1>4. QED  BY <1>2, <1>3

LEMMA CountedStart == Init => Counted
  BY FetchAssumption, RetriesType DEF Init, Counted

LEMMA CountedStep ==
  ASSUME Counted, [Next]_vars
  PROVE  Counted'
  <1>. USE FetchAssumption, RetriesType DEF Counted
  <1>. DEFINE sent == pages * Cost
  <1>0. sent \in Nat /\ sent <= MaxPages * Cost
    BY Monotone
  <1>1. CASE NextPage
    BY <1>0, <1>1 DEF NextPage, Return
  <1>2. ASSUME NEW n \in 0..PageLimit, ReceivePage(n) PROVE Counted'
    <2>1. pc = "request" /\ requests' = requests + 1 /\ pages' = pages + 1
          /\ attempt' = attempt /\ pc' \in {"page", "over"}
      BY <1>2 DEF ReceivePage, Return
    <2>2. requests + 1 <= sent + Cost
      BY <1>0, <2>1 DEF Cost
    <2>3. pages' * Cost = sent + Cost /\ sent + Cost <= MaxPages * Cost
      BY <2>1, NextPageCost
    <2>4. Cost' = Cost /\ Retries' = Retries
      BY DEF Cost, Retries
    <2>. HIDE DEF sent
    <2>5. QED  BY <1>0, <2>1, <2>2, <2>3, <2>4
  <1>3. CASE RequestFails
    <2>1. sent + Cost <= MaxPages * Cost
      BY <1>3, NextPageCost DEF RequestFails
    <2>2. QED
      BY <1>0, <1>3, <2>1 DEF RequestFails, Return, Exhausted, Cost
  <1>4. CASE RequestRefused
    <2>1. sent + Cost <= MaxPages * Cost
      BY <1>4, NextPageCost DEF RequestRefused
    <2>2. QED
      BY <1>0, <1>4, <2>1 DEF RequestRefused, Return, Cost
  <1>5. CASE Backoff
    <2>1. sent + Cost <= MaxPages * Cost
      BY <1>5, NextPageCost DEF Backoff
    <2>2. QED
      BY <1>0, <1>5, <2>1 DEF Backoff, Return, Cost
  <1>6. CASE UNCHANGED fetch
    BY <1>6 DEF fetch
  <1>7. QED
    BY <1>1, <1>2, <1>3, <1>4, <1>5, <1>6 DEF Next, Fetch, Arrive, vars

\* A window costs at most MaxPages * (MaxRetries + 1) requests, which is what the
\* daemon charges its credit budget for it (RequestsBounded).
THEOREM Bounded == Spec => []RequestsBounded
  <1>1. Init => Counted
    BY CountedStart
  <1>2. Counted /\ [Next]_vars => Counted'
    BY CountedStep
  <1>3. Counted => RequestsBounded
    <2>1. SUFFICES ASSUME Counted PROVE requests <= MaxPages * Cost
      BY DEF RequestsBounded, Cost
    <2>2. pages \in Nat /\ MaxPages \in Nat /\ pages * Cost <= MaxPages * Cost
      BY <2>1, FetchAssumption, RetriesType, Monotone DEF Counted
    <2>3. pages < MaxPages => pages * Cost + Cost <= MaxPages * Cost
      BY <2>2, NextPageCost
    <2>4. attempt + 1 <= Cost /\ pages * Cost \in Nat
      BY <2>1, <2>2, RetriesType DEF Counted, Cost
    <2>5. QED  BY <2>1, <2>2, <2>3, <2>4, FetchAssumption, RetriesType DEF Counted
  <1>4. QED  BY <1>1, <1>2, <1>3, PTL DEF Spec

-----------------------------------------------------------------------------
(* The loop over a page of ReceivePage.                                     *)

\* a set of naturals has a least member: what an induction over data comes down to
LEMMA Least ==
  ASSUME NEW T \in SUBSET Nat, T # {}
  PROVE  \E m \in T : \A k \in T : m <= k
  <1>1. IsWellFoundedOn(OpToRel(<, Nat), Nat)
    BY NatLessThanWellFounded
  <1>2. PICK m \in T : \A k \in T : ~(<<k, m>> \in OpToRel(<, Nat))
    BY <1>1, WFMin
  <1>3. \A k \in T : ~(k < m)
    BY <1>2 DEF OpToRel
  <1>4. m \in Nat /\ \A k \in T : k \in Nat
    OBVIOUS
  <1>5. QED  BY <1>3, <1>4

\* The loop over a page: a function that is the result after each turn exists, since
\* the least number of turns without one would leave one for the turns before.
LEMMA Loop ==
  ASSUME NEW page, Len(page) \in Nat
  PROVE  Filtered(page) =
           [k \in 0..Len(page) |->
              IF k = 0 THEN got
              ELSE IF HasRoom(Filtered(page)[k - 1]) /\ InWindow(page[k])
                     THEN Append(Filtered(page)[k - 1], page[k])
                     ELSE Filtered(page)[k - 1]]
  <1>. DEFINE Turn(f, k) ==
                IF k = 0 THEN got
                ELSE IF HasRoom(f[k - 1]) /\ InWindow(page[k])
                       THEN Append(f[k - 1], page[k])
                       ELSE f[k - 1]
              Runs(f, m) == f = [k \in 0..m |-> Turn(f, k)]
              Stuck == {m \in Nat : ~\E f : Runs(f, m)}
  <1>1. ASSUME Stuck # {} PROVE FALSE
    <2>1. PICK m \in Stuck : \A k \in Stuck : m <= k
      <3>1. Stuck \in SUBSET Nat
        OBVIOUS
      <3>. HIDE DEF Stuck
      <3>2. QED  BY <1>1, <3>1, Least
    <2>2. m # 0
      <3>1. SUFFICES ASSUME m = 0 PROVE FALSE
        OBVIOUS
      <3>2. Runs([k \in 0..0 |-> got], 0)
        OBVIOUS
      <3>3. QED  BY <2>1, <3>1, <3>2
    <2>3. PICK g : Runs(g, m - 1)
      <3>1. m - 1 \in Nat /\ ~(m <= m - 1)
        BY <2>1, <2>2
      <3>2. m - 1 \notin Stuck
        BY <2>1, <3>1
      <3>. HIDE DEF Runs
      <3>3. QED  BY <3>1, <3>2
    <2>. DEFINE h == [k \in 0..m |-> IF k = m THEN Turn(g, m) ELSE g[k]]
    <2>4. m \in Nat \ {0} /\ m - 1 \in Nat
      BY <2>1, <2>2
    <2>5. ASSUME NEW k \in 0..m PROVE h[k] = Turn(h, k)
      <3>1. CASE k = 0
        BY <2>3, <2>4, <3>1
      <3>2. CASE k # 0
        <4>1. k - 1 \in 0..m /\ k - 1 # m
          BY <2>4, <3>2
        <4>2. h[k - 1] = g[k - 1]
          BY <4>1
        <4>3. h[k] = Turn(g, k)
          <5>1. k \in 0..m - 1 => g[k] = Turn(g, k)
            BY <2>3
          <5>2. k = m \/ k \in 0..m - 1
            BY <2>4
          <5>3. QED  BY <5>1, <5>2
        <4>. HIDE DEF h
        <4>4. QED  BY <3>2, <4>2, <4>3
      <3>3. QED  BY <3>1, <3>2
    <2>6. Runs(h, m)
      <3>1. h = [k \in 0..m |-> h[k]]
        OBVIOUS
      <3>. HIDE DEF h
      <3>2. QED  BY <2>5, <3>1
    <2>7. QED  BY <2>1, <2>6
  <1>2. PICK f : Runs(f, Len(page))
    BY <1>1
  <1>3. Filtered(page) = CHOOSE g : Runs(g, Len(page))
    BY DEF Filtered
  <1>4. Runs(Filtered(page), Len(page))
    <2>. HIDE DEF Runs
    <2>1. QED  BY <1>2, <1>3
  <1>. HIDE DEF Stuck
  <1>5. QED  BY <1>4

Members(s) == {s[i] : i \in DOMAIN s}

LEMMA AppendMembers ==
  ASSUME NEW S, NEW s \in Seq(S), NEW x \in S
  PROVE  /\ Append(s, x) \in Seq(S)
         /\ Len(Append(s, x)) = Len(s) + 1
         /\ Members(Append(s, x)) = Members(s) \cup {x}
  <1>. DEFINE t == Append(s, x)
  <1>1. /\ t \in Seq(S) /\ Len(t) = Len(s) + 1 /\ t[Len(s) + 1] = x
        /\ DOMAIN t = 1..Len(s) + 1 /\ DOMAIN s = 1..Len(s) /\ Len(s) \in Nat
        /\ \A i \in 1..Len(s) : t[i] = s[i]
    OBVIOUS
  <1>. HIDE DEF t
  <1>2. Members(t) \subseteq Members(s) \cup {x}
    BY <1>1 DEF Members
  <1>3. Members(s) \cup {x} \subseteq Members(t)
    <2>1. \A i \in DOMAIN s : i \in DOMAIN t /\ t[i] = s[i]
      BY <1>1
    <2>2. Len(s) + 1 \in DOMAIN t
      BY <1>1
    <2>3. QED  BY <1>1, <2>1, <2>2 DEF Members
  <1>4. QED  BY <1>1, <1>2, <1>3 DEF t

\* the window of 1..h down to c
Down(c, h) == {i \in 1..h : c <= i /\ InWindow(i)}

\* the result r after k transactions of a page below o + 1
Kept(r, k, o, h) ==
  /\ r \in Seq(1..Len(chain)) /\ Len(r) <= MaxTx
  /\ \E c \in o + 1 - k..o + 1 :
       Members(r) = Down(c, h) /\ (HasRoom(r) => c = o + 1 - k)

\* a turn of the loop
LEMMA Turn ==
  ASSUME NEW o \in Nat, NEW h \in Nat, o <= h, h <= Len(chain), chain \in Seq(Times),
         NEW k \in 1..o, NEW r, Kept(r, k - 1, o, h)
  PROVE  Kept(IF HasRoom(r) /\ InWindow(o + 1 - k) THEN Append(r, o + 1 - k) ELSE r, k, o, h)
  <1>. DEFINE x == o + 1 - k
  <1>. USE FetchAssumption
  <1>1. /\ x \in 1..h /\ x \in 1..Len(chain)
        /\ o + 1 - (k - 1) = x + 1 /\ o + 1 \in Nat /\ x <= o /\ x \in Nat
    OBVIOUS
  <1>2. PICK c \in x + 1..o + 1 : Members(r) = Down(c, h) /\ (HasRoom(r) => c = x + 1)
    BY <1>1 DEF Kept
  <1>3. r \in Seq(1..Len(chain)) /\ Len(r) \in Nat /\ Len(r) <= MaxTx
    BY DEF Kept
  <1>4. c \in x..o + 1 /\ x \in x..o + 1
    BY <1>1
  <1>5. Down(x, h) = Down(x + 1, h) \cup (IF InWindow(x) THEN {x} ELSE {})
    BY <1>1 DEF Down
  <1>. HIDE DEF x
  <1>6. CASE ~HasRoom(r)
    BY <1>2, <1>3, <1>4, <1>6 DEF Kept, x
  <1>7. CASE HasRoom(r) /\ ~InWindow(x)
    BY <1>2, <1>3, <1>4, <1>5, <1>7 DEF Kept, x
  <1>8. CASE HasRoom(r) /\ InWindow(x)
    <2>1. /\ Append(r, x) \in Seq(1..Len(chain))
          /\ Len(Append(r, x)) = Len(r) + 1
          /\ Members(Append(r, x)) = Down(x, h)
      BY <1>1, <1>2, <1>3, <1>5, <1>8, AppendMembers
    <2>2. Len(r) + 1 <= MaxTx
      BY <1>3, <1>8 DEF HasRoom
    <2>. DEFINE rx == Append(r, x)
    <2>3. rx \in Seq(1..Len(chain)) /\ Len(rx) <= MaxTx /\ Members(rx) = Down(x, h)
      BY <2>1, <2>2
    <2>. HIDE DEF rx
    <2>4. Kept(rx, k, o, h)
      BY <1>4, <2>3 DEF Kept, x
    <2>5. QED  BY <1>8, <2>4 DEF rx, x
  <1>9. QED  BY <1>6, <1>7, <1>8

\* the loop, by its first turn that would go wrong
LEMMA Page ==
  ASSUME NEW o \in Nat, NEW h \in Nat, o <= h, h <= Len(chain), chain \in Seq(Times),
         NEW n \in 0..o, Kept(got, 0, o, h)
  PROVE  Kept(Filtered([i \in 1..n |-> o + 1 - i])[n], n, o, h)
  <1>. DEFINE page == [i \in 1..n |-> o + 1 - i]
              f == Filtered(page)
              Wrong == {k \in 0..n : ~Kept(f[k], k, o, h)}
  <1>1. page \in Seq(Int) /\ Len(page) = n /\ n \in Nat
    OBVIOUS
  <1>2. \A k \in 1..n : page[k] = o + 1 - k /\ k - 1 \in 0..n /\ k \in 1..o
    OBVIOUS
  <1>. HIDE DEF page
  <1>3. f[0] = got
    BY <1>1, Loop
  <1>4. \A k \in 1..n : f[k] = IF HasRoom(f[k - 1]) /\ InWindow(o + 1 - k)
                                 THEN Append(f[k - 1], o + 1 - k) ELSE f[k - 1]
    <2>1. f = [k \in 0..n |->
                 IF k = 0 THEN got
                 ELSE IF HasRoom(f[k - 1]) /\ InWindow(page[k])
                        THEN Append(f[k - 1], page[k])
                        ELSE f[k - 1]]
      BY <1>1, Loop
    <2>. HIDE DEF f
    <2>2. \A k \in 1..n : k \in 0..n /\ k # 0
      OBVIOUS
    <2>3. QED  BY <1>2, <2>1, <2>2
  <1>. HIDE DEF f
  <1>5. ASSUME Wrong # {} PROVE FALSE
    <2>1. PICK k \in Wrong : \A j \in Wrong : k <= j
      <3>1. Wrong \in SUBSET Nat
        OBVIOUS
      <3>. HIDE DEF Wrong
      <3>2. QED  BY <1>5, <3>1, Least
    <2>2. k \in 1..n
      BY <1>3, <2>1
    <2>3. k - 1 \in 0..n /\ ~(k <= k - 1)
      BY <2>2
    <2>4. Kept(f[k - 1], k - 1, o, h)
      BY <2>1, <2>3
    <2>5. Kept(f[k], k, o, h)
      BY <1>2, <1>4, <2>2, <2>4, Turn
    <2>6. QED  BY <2>1, <2>5
  <1>6. n \in 0..n
    BY <1>1
  <1>7. QED  BY <1>5, <1>6 DEF f, page

-----------------------------------------------------------------------------
(* What the call has collected is the window down to where it stands.      *)

Sorted == \A i, j \in DOMAIN chain : i < j => chain[i] <= chain[j]

\* before = 0 stands for one past the newest, so that nothing is collected yet
Below ==
  /\ pc # "over" => /\ outcome = "none"
                    /\ before = 0 <=> pages = 0
                    /\ before <= head
                    /\ Collected = Down(before, head)
  /\ \E c \in 1..head + 1 : Collected = Down(c, head)
  /\ outcome = "complete" => Collected = Wanted

IInv ==
  /\ TypeOK
  /\ Sorted
  /\ pages = 0 => head = 0 /\ got = <<>>
  /\ pc \in {"request", "backoff"} => HasRoom(got)
  /\ Below

LEMMA Start == Init => IInv
  <1>. SUFFICES ASSUME Init PROVE IInv
    OBVIOUS
  <1>. USE FetchAssumption DEF Init
  <1>1. chain \in Seq(Times) /\ Sorted
    BY DEF Chains, Sorted
  <1>2. Len(chain) \in Nat /\ got \in Seq(1..Len(chain)) /\ Len(got) = 0 /\ DOMAIN got = {}
    BY <1>1
  <1>3. TypeOK
    BY <1>1, <1>2, RetriesType DEF TypeOK
  <1>4. Collected = {} /\ \A c : Down(c, head) = {}
    BY <1>2 DEF Collected, Down
  <1>5. Below
    BY <1>4 DEF Below
  <1>6. QED  BY <1>1, <1>3, <1>5 DEF IInv

LEMMA NextPageInv ==
  ASSUME IInv, NextPage
  PROVE  IInv'
  <1>. USE FetchAssumption DEF IInv, NextPage, Return
  <1>1. Collected' = Collected /\ Wanted' = Wanted /\ \A c : Down(c, head)' = Down(c, head)
    BY DEF Collected, Wanted, Down, InWindow
  <1>2. TypeOK' /\ Sorted'
    BY RetriesType DEF TypeOK, Sorted, Codes, Retries
  <1>3. pc' \in {"request", "backoff"} => HasRoom(got')
    BY DEF HasRoom, TypeOK
  <1>4. Below'
    BY <1>1 DEF Below
  <1>5. QED  BY <1>2, <1>3, <1>4

LEMMA FailInv ==
  ASSUME IInv, Counted, Counted', RequestFails \/ RequestRefused \/ Backoff
  PROVE  IInv'
  <1>. USE FetchAssumption DEF IInv, RequestFails, RequestRefused, Backoff, Return
  <1>1. Collected' = Collected /\ Wanted' = Wanted /\ \A c : Down(c, head)' = Down(c, head)
    BY DEF Collected, Wanted, Down, InWindow
  <1>2. TypeOK' /\ Sorted'
    BY RetriesType DEF TypeOK, Sorted, Codes, Retries, Counted
  <1>3. pc' \in {"request", "backoff"} => HasRoom(got')
    BY DEF HasRoom, TypeOK
  <1>4. Below'
    BY <1>1 DEF Below
  <1>5. QED  BY <1>2, <1>3, <1>4

LEMMA BlockTimes ==
  ASSUME chain \in Seq(Times)
  PROVE  \A i \in DOMAIN chain : chain[i] \in Nat
  <1>1. \A i \in DOMAIN chain : chain[i] \in Times
    OBVIOUS
  <1>2. QED  BY <1>1, FetchAssumption

LEMMA ReceiveInv ==
  ASSUME IInv, Counted', NEW n \in 0..PageLimit, ReceivePage(n)
  PROVE  /\ IInv'
         /\ pages # 0 => Wanted' = Wanted /\ Collected \subseteq Collected'
  <1>. USE FetchAssumption
  <1>. DEFINE o == Older
              h == head'
              page == [i \in 1..n |-> o + 1 - i]
              r == got'
  <1>1. /\ pc = "request" /\ outcome = "none" /\ HasRoom(got)
        /\ chain \in Seq(Times) /\ Len(chain) \in Nat /\ chain' = chain
        /\ got \in Seq(1..Len(chain)) /\ Len(got) <= MaxTx
        /\ before \in 0..Len(chain) /\ head \in 0..Len(chain) /\ before <= head
        /\ pages \in Nat /\ pages' = pages + 1 /\ attempt' = attempt
        /\ h = IF before = 0 THEN Len(chain) ELSE head
    BY DEF IInv, TypeOK, Below, ReceivePage
  <1>2. o \in Nat /\ h \in Nat /\ o <= h /\ h <= Len(chain) /\ n \in 0..o /\ (n = 0 => o = 0)
    BY <1>1 DEF Older, ReceivePage
  <1>3. Kept(got, 0, o, h)
    <2>1. CASE before = 0
      <3>1. got = <<>> /\ o = h
        BY <1>1, <2>1 DEF IInv, Below, Older
      <3>2. Members(got) = {} /\ Down(o + 1, h) = {}
        BY <1>2, <3>1 DEF Members, Down
      <3>3. o + 1 \in o + 1 - 0..o + 1 /\ o + 1 = o + 1 - 0
        BY <1>2
      <3>4. QED  BY <1>1, <3>2, <3>3 DEF Kept
    <2>2. CASE before # 0
      <3>1. o + 1 = before /\ h = head /\ Collected = Down(before, head)
        BY <1>1, <2>2 DEF IInv, Below, Older
      <3>2. Members(got) = Down(o + 1, h)
        BY <3>1 DEF Members, Collected
      <3>3. o + 1 \in o + 1 - 0..o + 1 /\ o + 1 = o + 1 - 0
        BY <1>2
      <3>4. QED  BY <1>1, <3>2, <3>3 DEF Kept
    <2>3. QED  BY <2>1, <2>2
  <1>4. r = Filtered(page)[n]
    BY DEF ReceivePage
  <1>5. Kept(r, n, o, h)
    BY <1>1, <1>2, <1>3, <1>4, Page
  <1>6. PICK c \in o + 1 - n..o + 1 :
          Members(r) = Down(c, h) /\ (HasRoom(r) => c = o + 1 - n)
    BY <1>5 DEF Kept
  <1>7. /\ Collected' = Down(c, h) /\ \A b : Down(b, head)' = Down(b, h)
        /\ Wanted' = Down(1, h)
    BY <1>1, <1>6 DEF Members, Collected, Down, Wanted, InWindow
  <1>. HIDE DEF o, h
  <1>8. c \in 1..h + 1 /\ c \in Nat
    BY <1>2, <1>6
  <1>9. pages # 0 => Wanted' = Wanted /\ Collected \subseteq Collected'
    <2>1. SUFFICES ASSUME pages # 0 PROVE Wanted' = Wanted /\ Collected \subseteq Collected'
      OBVIOUS
    <2>2. o + 1 = before /\ h = head /\ Collected = Down(before, head)
      BY <1>1, <2>1 DEF IInv, Below, Older, o
    <2>3. c <= before
      BY <1>2, <1>6, <2>2
    <2>4. Collected \subseteq Collected'
      BY <1>1, <1>7, <1>8, <2>2, <2>3 DEF Down
    <2>5. Wanted' = Wanted
      BY <1>7, <2>2, <1>1 DEF Wanted, Down
    <2>6. QED  BY <2>4, <2>5
  <1>10. ASSUME ~HasRoom(r) PROVE IInv'
    <2>1. pc' = "over" /\ outcome' = "max_tx_per_wallet_reached" /\ before' = before
      BY <1>10 DEF ReceivePage, Return
    <2>2. TypeOK'
      BY <1>1, <1>2, <1>5, <2>1 DEF TypeOK, Codes, Counted, Kept, Retries, h
    <2>3. Below'
      BY <1>7, <1>8, <2>1 DEF Below, h
    <2>4. QED  BY <1>1, <2>1, <2>2, <2>3 DEF IInv, Sorted
  <1>11. ASSUME HasRoom(r), n = 0 \/ \E i \in 1..n : BeforeWindow(page[i]) PROVE IInv'
    <2>1. pc' = "over" /\ outcome' = "complete" /\ before' = before
      BY <1>11 DEF ReceivePage, Return, o
    <2>2. TypeOK'
      BY <1>1, <1>2, <1>5, <2>1 DEF TypeOK, Codes, Counted, Kept, Retries, h
    <2>3. Down(c, h) = Down(1, h)
      <3>1. CASE n = 0
        BY <1>2, <1>6, <1>11, <3>1 DEF Down
      <3>2. CASE \E i \in 1..n : BeforeWindow(page[i])
        <4>1. PICK i \in 1..n : BeforeWindow(o + 1 - i)
          BY <3>2
        <4>2. c <= o + 1 - i /\ o + 1 - i \in 1..Len(chain)
          BY <1>2, <1>6, <1>11
        <4>3. \A j \in 1..h : j < c => ~InWindow(j)
          <5>1. SUFFICES ASSUME NEW j \in 1..h, j < c PROVE ~InWindow(j)
            OBVIOUS
          <5>2. j \in DOMAIN chain /\ o + 1 - i \in DOMAIN chain /\ j < o + 1 - i
            BY <1>1, <1>2, <1>8, <4>2, <5>1
          <5>3. chain[j] <= chain[o + 1 - i]
            BY <5>2 DEF IInv, Sorted
          <5>4. chain[j] \in Nat /\ chain[o + 1 - i] \in Nat
            BY <1>1, <5>2, BlockTimes
          <5>5. QED  BY <4>1, <5>3, <5>4 DEF BeforeWindow, InWindow
        <4>4. QED  BY <1>8, <4>3 DEF Down
      <3>3. QED  BY <1>11, <3>1, <3>2
    <2>4. Below'
      BY <1>7, <1>8, <2>1, <2>3 DEF Below, h
    <2>5. QED  BY <1>1, <2>1, <2>2, <2>4 DEF IInv, Sorted
  <1>12. ASSUME HasRoom(r), n # 0, ~\E i \in 1..n : BeforeWindow(page[i]) PROVE IInv'
    <2>1. pc' = "page" /\ outcome' = "none" /\ before' = LastOf(page)
      BY <1>1, <1>12 DEF ReceivePage, o
    <2>2. before' = c /\ c \in 1..h
      <3>1. Len(page) = n /\ page[n] = o + 1 - n
        BY <1>2, <1>12
      <3>. HIDE DEF page
      <3>2. QED  BY <1>2, <1>6, <1>12, <2>1, <3>1 DEF LastOf
    <2>3. TypeOK'
      BY <1>1, <1>2, <1>5, <2>1, <2>2 DEF TypeOK, Codes, Counted, Kept, Retries, h
    <2>4. Below'
      BY <1>1, <1>7, <1>8, <2>1, <2>2 DEF Below, h
    <2>5. QED  BY <1>1, <2>1, <2>3, <2>4 DEF IInv, Sorted
  <1>13. QED  BY <1>9, <1>10, <1>11, <1>12

LEMMA Widen ==
  ASSUME NEW S, NEW T, S \subseteq T, NEW s \in Seq(S)
  PROVE  s \in Seq(T)
  <1>1. s \in [1..Len(s) -> S] /\ Len(s) \in Nat
    OBVIOUS
  <1>2. s \in [1..Len(s) -> T]
    BY <1>1
  <1>3. QED  BY <1>1, <1>2

LEMMA ArriveInv ==
  ASSUME IInv, NEW t \in Times, Arrive(t)
  PROVE  /\ IInv'
         /\ Collected' = Collected /\ Wanted' = Wanted
  <1>. USE FetchAssumption
  <1>. DEFINE n == Len(chain)
  <1>1. /\ chain \in Seq(Times) /\ chain' = Append(chain, t) /\ UNCHANGED fetch
        /\ \A i \in DOMAIN chain : chain[i] <= t
        /\ \A i, j \in DOMAIN chain : i < j => chain[i] <= chain[j]
    BY DEF IInv, TypeOK, Sorted, Arrive
  <1>2. /\ n \in Nat /\ chain' \in Seq(Times) /\ Len(chain') = n + 1
        /\ DOMAIN chain = 1..n /\ DOMAIN chain' = 1..n + 1
        /\ chain'[n + 1] = t /\ \A i \in 1..n : chain'[i] = chain[i]
    BY <1>1
  <1>. HIDE DEF n
  <1>3. TypeOK'
    <2>1. got \in Seq(1..n + 1) /\ 0..n \subseteq 0..n + 1
      <3>1. got \in Seq(1..n)
        BY DEF IInv, TypeOK, n
      <3>2. 1..n \subseteq 1..n + 1 /\ 0..n \subseteq 0..n + 1
        BY <1>2
      <3>3. got \in Seq(1..n + 1)
        BY <3>1, <3>2, Widen
      <3>4. QED  BY <3>2, <3>3
    <2>2. QED  BY <1>1, <1>2, <2>1 DEF IInv, TypeOK, fetch, Retries, Codes, n
  <1>4. Sorted'
    BY <1>1, <1>2 DEF Sorted
  <1>5. /\ head \in 0..n /\ Collected' = Collected
        /\ Wanted' = Wanted /\ \A c : Down(c, head)' = Down(c, head)
    <2>1. head \in 0..n /\ head' = head /\ got' = got
      BY <1>1 DEF IInv, TypeOK, fetch, n
    <2>2. \A i \in 1..head : InWindow(i)' = InWindow(i)
      BY <1>2, <2>1 DEF InWindow
    <2>3. QED  BY <2>1, <2>2 DEF Collected, Wanted, Down
  <1>6. Below'
    BY <1>1, <1>5 DEF IInv, Below, fetch
  <1>7. QED  BY <1>1, <1>3, <1>4, <1>5, <1>6 DEF IInv, HasRoom, fetch

LEMMA Step ==
  ASSUME IInv, Counted, Counted', [Next]_vars
  PROVE  IInv'
  <1>1. CASE NextPage  BY <1>1, NextPageInv
  <1>2. ASSUME NEW n \in 0..PageLimit, ReceivePage(n) PROVE IInv'
    BY <1>2, ReceiveInv
  <1>3. CASE RequestFails \/ RequestRefused \/ Backoff  BY <1>3, FailInv
  <1>4. ASSUME NEW t \in Times, Arrive(t) PROVE IInv'
    BY <1>4, ArriveInv
  <1>5. CASE UNCHANGED vars
    BY <1>5 DEF vars, fetch, IInv, TypeOK, Sorted, Below, Collected, Wanted, Down,
                InWindow, HasRoom, Retries, Codes
  <1>6. QED
    BY <1>1, <1>2, <1>3, <1>4, <1>5 DEF Next, Fetch

LEMMA Held ==
  ASSUME IInv
  PROVE  /\ TypeOK /\ CompleteUnlessPartial /\ NoGaps
         /\ Collected \subseteq Wanted /\ Wanted \in SUBSET Nat
  <1>1. PICK c \in 1..head + 1 : Collected = Down(c, head)
    BY DEF IInv, Below
  <1>2. Wanted = {i \in 1..head : InWindow(i)} /\ head \in Nat
    BY DEF IInv, TypeOK, Wanted
  <1>3. NoGaps /\ Collected \subseteq Wanted /\ Wanted \in SUBSET Nat
    BY <1>1, <1>2 DEF NoGaps, Down
  <1>4. QED  BY <1>3 DEF IInv, Below, CompleteUnlessPartial

LEMMA Always == Spec => [](IInv /\ Counted)
  <1>1. Init => IInv /\ Counted
    BY Start, CountedStart
  <1>2. IInv /\ Counted /\ [Next]_vars => (IInv /\ Counted)'
    BY CountedStep, Step
  <1>3. QED  BY <1>1, <1>2, PTL DEF Spec

\* Each variable holds values of its kind, and the result never outgrows its capacity
\* (TypeOK).
THEOREM Typed == Spec => []TypeOK
  BY Always, Held, PTL

\* A fetch that calls itself complete has the whole window (CompleteUnlessPartial).
THEOREM Complete == Spec => []CompleteUnlessPartial
  BY Always, Held, PTL

\* What was fetched is the window down to some transaction, without a gap (NoGaps).
THEOREM Gapless == Spec => []NoGaps
  BY Always, Held, PTL

-----------------------------------------------------------------------------
(* The fetch implements WindowContract.                                    *)

mapped == <<pages > 0, Wanted, Collected, Verdict>>

LEMMA Settles ==
  ASSUME outcome = "none", outcome' \in Codes \cup {"error"},
         UNCHANGED <<pages, Wanted, Collected>>
  PROVE  Contract!Next
  <1>1. Verdict = "none" /\ Verdict' \in {"partial", "error"}
    BY DEF Verdict, Codes
  <1>2. Contract!GiveUp
    BY <1>1 DEF Contract!GiveUp
  <1>3. QED  BY <1>1, <1>2 DEF Contract!Next

LEMMA Quiet ==
  ASSUME UNCHANGED <<pages, outcome, Wanted, Collected>>
  PROVE  UNCHANGED mapped
  BY DEF mapped, Verdict, Codes

LEMMA Same ==
  ASSUME UNCHANGED <<chain, got, head>>
  PROVE  UNCHANGED <<Wanted, Collected>>
  BY DEF Wanted, Collected, InWindow

LEMMA ReceiveMaps ==
  ASSUME IInv, IInv', Counted', NEW n \in 0..PageLimit, ReceivePage(n)
  PROVE  Contract!Next
  <1>1. pc = "request" /\ outcome = "none" /\ pages \in Nat /\ pages' = pages + 1
    BY DEF ReceivePage, IInv, TypeOK, Below
  <1>2. outcome' \in {"max_tx_per_wallet_reached", "complete", "none"}
    BY <1>1 DEF ReceivePage, Return
  <1>3. /\ Verdict = "none" /\ Verdict' \in {"none", "complete", "partial"}
        /\ Verdict' = "complete" => outcome' = "complete"
    BY <1>1, <1>2 DEF Verdict, Codes
  <1>4. /\ Collected' \subseteq Wanted' /\ Wanted' \in SUBSET Nat
        /\ \A i \in Collected', j \in Wanted' : i < j => j \in Collected'
        /\ outcome' = "complete" => Collected' = Wanted'
    <2>1. (IInv => Collected \subseteq Wanted /\ Wanted \in SUBSET Nat /\ NoGaps
                   /\ CompleteUnlessPartial)'
      BY Held, PTL
    <2>2. QED  BY <2>1 DEF NoGaps, CompleteUnlessPartial
  <1>5. Contract!Newest(Collected', Wanted') /\ Contract!Judge
    BY <1>3, <1>4 DEF Contract!Newest, Contract!Judge
  <1>6. CASE pages = 0
    <2>1. ~(pages > 0) /\ pages' > 0
      BY <1>1, <1>6
    <2>2. Contract!Learn
      BY <1>4, <1>5, <2>1 DEF Contract!Learn
    <2>3. QED  BY <1>3, <2>2 DEF Contract!Next
  <1>7. CASE pages # 0
    <2>1. Wanted' = Wanted /\ Collected \subseteq Collected'
      BY <1>7, ReceiveInv
    <2>2. pages > 0 /\ pages' > 0
      BY <1>1, <1>7
    <2>3. Contract!More
      BY <1>5, <2>1, <2>2 DEF Contract!More
    <2>4. QED  BY <1>3, <2>3 DEF Contract!Next
  <1>8. QED  BY <1>6, <1>7

LEMMA StepMaps ==
  ASSUME IInv, Counted, Counted', IInv', [Next]_vars
  PROVE  [Contract!Next]_mapped
  <1>1. ASSUME NEW n \in 0..PageLimit, ReceivePage(n) PROVE Contract!Next
    BY <1>1, ReceiveMaps
  <1>2. CASE NextPage \/ RequestFails \/ RequestRefused \/ Backoff
    <2>1. UNCHANGED <<chain, pages, got, head>> /\ outcome = "none"
      BY <1>2 DEF NextPage, RequestFails, RequestRefused, Backoff, IInv, Below
    <2>2. outcome' = outcome \/ outcome' \in Codes \cup {"error"}
      BY <1>2 DEF NextPage, RequestFails, RequestRefused, Backoff, Return, Codes
    <2>3. UNCHANGED <<Wanted, Collected>>
      BY <2>1, Same
    <2>4. QED  BY <2>1, <2>2, <2>3, Settles, Quiet
  <1>3. ASSUME NEW t \in Times, Arrive(t) PROVE UNCHANGED mapped
    <2>1. UNCHANGED <<pages, outcome>>
      BY <1>3 DEF Arrive, fetch
    <2>2. QED  BY <1>3, <2>1, ArriveInv, Quiet
  <1>4. CASE UNCHANGED vars
    <2>1. UNCHANGED <<chain, got, head, pages, outcome>>
      BY <1>4 DEF vars, fetch
    <2>2. QED  BY <2>1, Same, Quiet
  <1>5. QED
    BY <1>1, <1>2, <1>3, <1>4 DEF Next, Fetch

\* Seen from the sync of a wallet, a fetch is a behaviour of WindowContract: each page
\* adds older transactions of a window that the first answer settled, and every other
\* step either changes nothing or returns (ImplementsContract).
THEOREM FetchKeepsContract == Spec => ImplementsContract
  <1>1. Init => Contract!Init
    BY DEF Init, Contract!Init, Wanted, Collected, Verdict, Codes
  <1>2. IInv /\ Counted /\ (IInv /\ Counted)' /\ [Next]_vars
          => [Contract!Next]_mapped
    BY StepMaps
  <1>3. QED
    BY <1>1, <1>2, Always, PTL
    DEF Spec, ImplementsContract, Contract!Spec, Contract!contract, mapped
=============================================================================
