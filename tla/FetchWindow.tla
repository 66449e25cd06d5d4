---------------------------- MODULE FetchWindow ----------------------------
(***************************************************************************)
(* One call of FetchEnhancedWindow with its fetchPageWithRetry             *)
(* (internal/pipeline/fetch.go) against the paging of Helius               *)
(* (FetchEnhancedPage and IsRetryable in internal/helius/client.go).       *)
(*                                                                         *)
(* The provider keeps the transactions of the wallet in the order of their *)
(* block times, newest last; a transaction is its place in that chain.  A  *)
(* page holds the newest ones older than the cursor, as many as the        *)
(* provider pleases up to the page limit, and at least one if there are    *)
(* any; its cursor is the last one of the page (the client fills it in     *)
(* where the provider leaves it out).  The chain grows while the call      *)
(* pages through it.                                                       *)
(***************************************************************************)
EXTENDS Integers, Sequences

CONSTANTS
  WindowStart, WindowEnd,   \* the window, end excluded
  MaxPages, MaxTx,          \* caps of the fetch
  MaxRetries,               \* retries of one page; a negative number counts as 0
  PageLimit,                \* the client asks for pages of at most this size
  Times,                    \* block times
  MaxChain                  \* bound on the length of the chain

ASSUME FetchAssumption ==
  /\ WindowStart \in Nat /\ WindowEnd \in Nat /\ WindowStart < WindowEnd
  /\ MaxPages \in Nat \ {0} /\ MaxTx \in Nat \ {0}
  /\ MaxRetries \in Int
  /\ PageLimit \in Nat \ {0}
  /\ Times \subseteq Nat
  /\ MaxChain \in Nat

VARIABLES
  chain,       \* block times, oldest first
  pc,          \* where the call is
  before,      \* its cursor, 0 for none
  pages,       \* pageCount
  attempt,     \* attempts that failed at the current page
  got,         \* result.Transactions
  outcome,     \* Partial with its TruncationCode, an error, or complete
  requests,    \* history: requests sent
  head         \* history: the length of the chain at the first page

fetch == <<pc, before, pages, attempt, got, outcome, requests, head>>
vars == <<chain, fetch>>

Codes == {"max_tx_pages_per_wallet_reached", "max_tx_per_wallet_reached",
          "helius_retry_exhausted"}

Chains == {c \in UNION {[1..n -> Times] : n \in 0..MaxChain} :
             \A i, j \in DOMAIN c : i < j => c[i] <= c[j]}

Init ==
  /\ chain \in Chains
  /\ pc = "page"
  /\ before = 0
  /\ pages = 0
  /\ attempt = 0
  /\ got = <<>>
  /\ outcome = "none"
  /\ requests = 0
  /\ head = 0

Retries == IF MaxRetries < 0 THEN 0 ELSE MaxRetries

Return(result) == pc' = "over" /\ outcome' = result

\* the page cap, the transaction cap, then the delay between two pages, during which
\* the context may end
NextPage ==
  /\ pc = "page"
  /\ IF pages >= MaxPages THEN Return("max_tx_pages_per_wallet_reached")
     ELSE IF Len(got) >= MaxTx THEN Return("max_tx_per_wallet_reached")
     ELSE \/ pc' = "request" /\ UNCHANGED outcome
          \/ pages > 0 /\ Return("error")
  /\ attempt' = 0
  /\ UNCHANGED <<chain, before, pages, got, requests, head>>

InWindow(i) == WindowStart <= chain[i] /\ chain[i] < WindowEnd

\* slip: the start of the window is not part of it
AtStartOrOlder(i) == chain[i] <= WindowStart
BeforeWindow(i) == chain[i] < WindowStart

\* the transactions older than the cursor are 1..Older
Older == IF before = 0 THEN Len(chain) ELSE before - 1

HasRoom(result) == Len(result) < MaxTx

\* slip: the result is made anew for each page
OnlyThisPage(page) == [k \in 0..Len(page) |-> SelectSeq(SubSeq(page, 1, k), InWindow)]

\* the result after each of the transactions of a page, in the order of the page
Filtered(page) ==
  LET result[k \in 0..Len(page)] ==
        IF k = 0 THEN got
        ELSE IF HasRoom(result[k - 1]) /\ InWindow(page[k])
               THEN Append(result[k - 1], page[k])
               ELSE result[k - 1]
  IN result

LastOf(page) == page[Len(page)]

ReceivePage(n) ==
  LET page == [i \in 1..n |-> Older + 1 - i]
      reachedBeforeWindow == \E i \in 1..n : BeforeWindow(page[i])
  IN
  /\ pc = "request"
  /\ n <= Older /\ (n = 0 => Older = 0)
  /\ requests' = requests + 1
  /\ pages' = pages + 1
  /\ head' = IF before = 0 THEN Len(chain) ELSE head
  /\ got' = Filtered(page)[n]
  /\ IF ~HasRoom(got')
       THEN Return("max_tx_per_wallet_reached") /\ UNCHANGED before
     ELSE IF n = 0 \/ reachedBeforeWindow
       THEN Return("complete") /\ UNCHANGED before
     ELSE /\ pc' = "page" /\ before' = LastOf(page)
          /\ UNCHANGED outcome
  /\ UNCHANGED <<chain, attempt>>

\* slip: one attempt too many
OneMore == attempt > Retries
Exhausted == attempt >= Retries

\* a status 429 or 5xx, or a network error
RequestFails ==
  /\ pc = "request"
  /\ requests' = requests + 1
  /\ IF Exhausted THEN Return("helius_retry_exhausted")
                  ELSE pc' = "backoff" /\ UNCHANGED outcome
  /\ UNCHANGED <<chain, before, pages, attempt, got, head>>

\* any other status, an answer that is no page, a context or client deadline
RequestRefused ==
  /\ pc = "request"
  /\ requests' = requests + 1
  /\ Return("error")
  /\ UNCHANGED <<chain, before, pages, attempt, got, head>>

\* slip: the growth of retryBackoff is not clamped, and the sleep does not end
BackoffUnclamped == FALSE /\ UNCHANGED vars

\* sleepContext, during which the context may end
Backoff ==
  /\ pc = "backoff"
  /\ \/ pc' = "request" /\ attempt' = attempt + 1 /\ UNCHANGED outcome
     \/ Return("error") /\ UNCHANGED attempt
  /\ UNCHANGED <<chain, before, pages, got, requests, head>>

\* the provider sees a new transaction
Arrive(t) ==
  /\ Len(chain) < MaxChain
  /\ \A i \in DOMAIN chain : chain[i] <= t
  /\ chain' = Append(chain, t)
  /\ UNCHANGED fetch

Fetch ==
  \/ NextPage
  \/ \E n \in 0..PageLimit : ReceivePage(n)
  \/ RequestFails
  \/ RequestRefused
  \/ Backoff

Next == Fetch \/ \E t \in Times : Arrive(t)

Spec == Init /\ [][Next]_vars

\* the HTTP client has a timeout of its own and the delays are finite
FairSpec == Spec /\ WF_vars(Fetch)

-----------------------------------------------------------------------------
(* The properties.                                                         *)

\* Each variable holds values of its kind; the result never grows past MaxTx, the
\* capacity it was made with.
TypeOK ==
  /\ chain \in Seq(Times)
  /\ pc \in {"page", "request", "backoff", "over"}
  /\ before \in 0..Len(chain)
  /\ pages \in 0..MaxPages
  /\ attempt \in 0..Retries
  /\ got \in Seq(1..Len(chain)) /\ Len(got) <= MaxTx
  /\ outcome \in Codes \cup {"none", "error", "complete"}
  /\ requests \in Nat
  /\ head \in 0..Len(chain)

Collected == {got[i] : i \in DOMAIN got}

\* the window as it was when the first page was answered
Wanted == {i \in 1..head : InWindow(i)}

\* A fetch that is not partial has the whole window as it was when the first page
\* was answered, whatever the page sizes, the failures on the way and the
\* transactions that arrived since (the contract FetchResults of WalletSync: what
\* baseline_complete rests on).
CompleteUnlessPartial ==
  outcome = "complete" => Collected = Wanted

\* A fetch that stopped early lost the oldest part of the window only: what it has
\* is the window down to some transaction, without a gap.
NoGaps ==
  \A i \in Collected, j \in Wanted : i < j => j \in Collected

Verdict == IF outcome \in Codes THEN "partial" ELSE outcome

\* The fetch, step by step, keeps the contract the sync of a wallet is modelled with:
\* what it is to bring is settled by the first page whatever arrives later, it brings
\* it newest first without a gap and without losing any on the way, and what it
\* returned is complete or says it is not, once and for all.
Contract == INSTANCE WindowContract
  WITH known <- pages > 0, wanted <- Wanted, taken <- Collected, verdict <- Verdict
ImplementsContract == Contract!Spec

\* The requests stay within MaxPages * (MaxRetries + 1), the number by which
\* estimateDaemonCycleCredits (cmd/scanner/daemon.go:356-363) charges a window to
\* the daily credit budget.
RequestsBounded == requests <= MaxPages * (Retries + 1)

\* The fetch ends, however many pages the provider has and however often it fails.
FetchEnds == <>(pc = "over")
=============================================================================
