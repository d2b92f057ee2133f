--------------------------- MODULE InferenceGateway ---------------------------
(***************************************************************************)
(* The inference broker: gateway.py serves each request in a thread of its *)
(* own, providers.py tries the eligible providers in order and policy.py   *)
(* keeps the ledger of receipts that the daily budgets are counted from.   *)
(*                                                                         *)
(* The ledger is the only state the threads share.  It is read once, when  *)
(* the budget is asserted, and written one line at a time when the         *)
(* providers have answered.  A line is a record, Torn (the front of a      *)
(* record without its line end) or Garbled (Torn and the record after it). *)
(***************************************************************************)
EXTENDS Naturals, Sequences, FiniteSets, FiniteSetsExt

CONSTANTS
  Threads,           \* handler threads of ThreadingHTTPServer
  Providers,         \* the enabled providers of the router
  Quota,             \* quota_class of each provider
  NameRank,          \* position of each provider's name in sorted order
  HasCredential,     \* providers whose api_key_env is set, or not needed
  MaxDailyRequests,  \* ProviderPolicy.max_daily_requests
  MaxDailyTokens,    \* ProviderPolicy.max_daily_tokens
  TokenCounts,       \* token usage a provider may report
  Names,             \* provider names a request may ask for
  None, Torn, Garbled,
  MaxRequests,       \* bound on the requests received
  MaxDisturbances    \* bound on UTC midnights, ledger write errors and crashes

ASSUME FiniteAssumption == IsFiniteSet(Threads) /\ IsFiniteSet(Providers)
ASSUME ProvidersAssumption ==
  /\ Quota \in [Providers -> {"local", "free", "paid"}]
  /\ NameRank \in [Providers -> Nat]
  /\ \A p, q \in Providers : NameRank[p] = NameRank[q] => p = q
  /\ HasCredential \subseteq Providers
  /\ Providers \subseteq Names /\ None \notin Names
ASSUME PolicyAssumption ==
  /\ MaxDailyRequests \in Nat /\ MaxDailyTokens \in Nat
  /\ TokenCounts \subseteq Nat /\ TokenCounts # {} /\ IsFiniteSet(TokenCounts)
ASSUME BoundsAssumption ==
  MaxRequests \in Nat /\ MaxDisturbances \in Nat

VARIABLES
  local_only, \* ProviderPolicy.local_only, which the operator has chosen
  ledger,    \* the lines of the receipt ledger
  day,       \* the UTC date
  pc,        \* pc[t]: "idle", "call" (a provider) or "persist" (receipts)
  request,   \* request[t]: the request t serves
  untried,   \* untried[t]: candidates it has not called yet
  receipts,  \* receipts[t]: attempt_receipts of its router, not yet persisted
  status,    \* status[t]: the HTTP status it is going to send
  received,  \* number of requests received so far
  pinned,    \* pinned[r]: skill_native_provider of request r, or None
  answer,    \* history: how request r was answered
  posted,    \* history: <<r, provider>> of every HTTP call
  failed,    \* history: <<r, provider>> of every retryable failure
  faults

threadState == <<pc, request, untried, receipts, status>>
history == <<pinned, answer, posted, failed>>
vars == <<local_only, ledger, day, threadState, received, history, faults>>

Requests == 1..MaxRequests

-----------------------------------------------------------------------------
(* policy.py                                                               *)

Unreadable(line) == line \in {Torn, Garbled}

\* ReceiptLedger.read parses every line.
Readable == \A i \in 1..Len(ledger) : ~Unreadable(ledger[i])

RecordsOf(date) == {i \in 1..Len(ledger) : ~Unreadable(ledger[i]) /\ ledger[i].day = date}

TokensOf(date) == MapThenSumSet(LAMBDA i : ledger[i].receipt.tokens, RecordsOf(date))

\* Mutant: a budget may be exceeded by one.
ExhaustedLate ==
  Cardinality(RecordsOf(day)) > MaxDailyRequests \/ TokensOf(day) > MaxDailyTokens

\* assert_budget raises.  (max_daily_cost_usd is left out: price_usd is 0.)
Exhausted ==
  \/ Cardinality(RecordsOf(day)) >= MaxDailyRequests
  \/ TokensOf(day) >= MaxDailyTokens

\* ProviderPolicy.filter
Eligible == {p \in Providers : local_only => Quota[p] = "local"}

\* ReceiptLedger.append: the file is opened in append mode, so that a record
\* after a torn line continues it.
Written(lines, record) ==
  IF lines # <<>> /\ lines[Len(lines)] = Torn
    THEN [lines EXCEPT ![Len(lines)] = Garbled]
    ELSE Append(lines, record)

-----------------------------------------------------------------------------
(* providers.py                                                            *)

\* ProviderRouter.candidates, before sorting.
Candidates(pin) == {p \in Eligible : pin # None => p = pin}

QuotaRank(p) == IF Quota[p] = "local" THEN 0 ELSE IF Quota[p] = "free" THEN 1 ELSE 2

Before(p, q) ==
  \/ QuotaRank(p) < QuotaRank(q)
  \/ QuotaRank(p) = QuotaRank(q) /\ NameRank[p] < NameRank[q]

\* The first of the sorted candidates.
First(S) == CHOOSE p \in S : \A q \in S \ {p} : Before(p, q)

\* The ProviderErrors of OpenAICompatibleProvider.complete; "unavailable" is a
\* transport error or a status of 500 and above.
Retryable == {"unavailable", "http_429"}

Errors == Retryable \cup {"http_4xx", "credential_missing"}

Receipt(r, p, error, tokens) ==
  [request |-> r, provider |-> p, error |-> error, tokens |-> tokens]

-----------------------------------------------------------------------------
Init ==
  /\ local_only \in BOOLEAN
  /\ ledger = <<>> /\ day = 1
  /\ pc = [t \in Threads |-> "idle"]
  /\ request = [t \in Threads |-> 0]
  /\ untried = [t \in Threads |-> {}]
  /\ receipts = [t \in Threads |-> <<>>]
  /\ status = [t \in Threads |-> "none"]
  /\ received = 0
  /\ pinned = [r \in Requests |-> None]
  /\ answer = [r \in Requests |-> "none"]
  /\ posted = {} /\ failed = {}
  /\ faults = 0

\* Mutant: the router, and its attempt_receipts, serve the next request too.
AnswerKeepRouter(t, r, result) ==
  /\ answer' = [answer EXCEPT ![r] = result]
  /\ pc' = [pc EXCEPT ![t] = "idle"]
  /\ request' = [request EXCEPT ![t] = 0]
  /\ untried' = [untried EXCEPT ![t] = {}]
  /\ status' = [status EXCEPT ![t] = "none"]
  /\ UNCHANGED receipts

\* The response is sent, or the exception leaves the handler and the
\* connection is closed without one ("dropped"); the thread ends.
Answer(t, r, result) ==
  /\ answer' = [answer EXCEPT ![r] = result]
  /\ pc' = [pc EXCEPT ![t] = "idle"]
  /\ request' = [request EXCEPT ![t] = 0]
  /\ untried' = [untried EXCEPT ![t] = {}]
  /\ receipts' = [receipts EXCEPT ![t] = <<>>]
  /\ status' = [status EXCEPT ![t] = "none"]

\* Mutant: a request without a candidate is not refused.
RefusalWithoutCandidates(pin, validMessages, validRunId) ==
  IF ~validMessages THEN "400"
  ELSE IF ~Readable THEN "dropped"
  ELSE IF Exhausted THEN "budget exhausted"
  ELSE IF ~validRunId THEN "400"
  ELSE "none"

\* What chat_completions returns before it calls a provider, or "none".
Refusal(pin, validMessages, validRunId) ==
  IF ~validMessages THEN "400"
  ELSE IF ~Readable THEN "dropped"
  ELSE IF Exhausted THEN "budget exhausted"
  ELSE IF ~validRunId THEN "400"
  ELSE IF Candidates(pin) = {} THEN "503"
  ELSE "none"

\* chat_completions up to the first call of a provider.
Receive(t, pin, validMessages, validRunId) ==
  LET r == received + 1
      refusal == Refusal(pin, validMessages, validRunId)
  IN /\ pc[t] = "idle"
     /\ received < MaxRequests
     /\ received' = r
     /\ pinned' = [pinned EXCEPT ![r] = pin]
     /\ IF refusal # "none"
          THEN Answer(t, r, refusal)
          ELSE /\ pc' = [pc EXCEPT ![t] = "call"]
               /\ request' = [request EXCEPT ![t] = r]
               /\ untried' = [untried EXCEPT ![t] = Candidates(pin)]
               /\ UNCHANGED <<receipts, status, answer>>
     /\ UNCHANGED <<local_only, ledger, day, posted, failed, faults>>

\* Mutant: only the receipt of the last attempt is kept.
KeepLastReceipt(t, receipt) == receipts' = [receipts EXCEPT ![t] = <<receipt>>]

\* attempt_receipts.append
Keep(t, receipt) == receipts' = [receipts EXCEPT ![t] = Append(@, receipt)]

\* complete() is done: the receipts are going to be persisted.
Finish(t, result) ==
  /\ pc' = [pc EXCEPT ![t] = "persist"]
  /\ status' = [status EXCEPT ![t] = result]
  /\ untried' = [untried EXCEPT ![t] = {}]

\* The next candidate completes the request.
Complete(t, tokens) ==
  LET p == First(untried[t])
  IN /\ pc[t] = "call"
     /\ p \in HasCredential
     /\ posted' = posted \cup {<<request[t], p>>}
     /\ Keep(t, Receipt(request[t], p, "none", tokens))
     /\ Finish(t, "200")
     /\ UNCHANGED <<local_only, ledger, day, request, received, pinned, answer, failed, faults>>

\* Mutant: a request fails over whatever the error, and although it is pinned.
FailAnyway(t, error, tokens) ==
  LET r == request[t]
      p == First(untried[t])
      rest == (IF pinned[r] = None THEN untried[t] ELSE Eligible) \ {p}
  IN /\ pc[t] = "call"
     /\ (error = "credential_missing") <=> (p \notin HasCredential)
     /\ posted' = IF error = "credential_missing" THEN posted ELSE posted \cup {<<r, p>>}
     /\ failed' = IF error \in Retryable THEN failed \cup {<<r, p>>} ELSE failed
     /\ Keep(t, Receipt(r, p, error, tokens))
     /\ IF rest = {} THEN Finish(t, "502")
        ELSE /\ untried' = [untried EXCEPT ![t] = rest]
             /\ UNCHANGED <<pc, status>>
     /\ UNCHANGED <<local_only, ledger, day, request, received, pinned, answer, faults>>

\* The next candidate fails with a ProviderError: the next one is tried if
\* the error is retryable, the request is not pinned and there is a next one.
Fail(t, error, tokens) ==
  LET r == request[t]
      p == First(untried[t])
      rest == untried[t] \ {p}
  IN /\ pc[t] = "call"
     /\ (error = "credential_missing") <=> (p \notin HasCredential)
     /\ posted' = IF error = "credential_missing" THEN posted ELSE posted \cup {<<r, p>>}
     /\ failed' = IF error \in Retryable THEN failed \cup {<<r, p>>} ELSE failed
     /\ Keep(t, Receipt(r, p, error, tokens))
     /\ IF pinned[r] # None \/ error \notin Retryable \/ rest = {}
          THEN Finish(t, IF error = "http_429" THEN "429" ELSE "502")
          ELSE /\ untried' = [untried EXCEPT ![t] = rest]
               /\ UNCHANGED <<pc, status>>
     /\ UNCHANGED <<local_only, ledger, day, request, received, pinned, answer, faults>>

\* The next candidate's response is malformed (no text, or token counts that
\* are no numbers): the ValueError, TypeError or AttributeError is no
\* ProviderError and no RuntimeError, passes by both handlers of
\* chat_completions and takes the receipts with it.
Malformed(t) ==
  LET r == request[t]
      p == First(untried[t])
  IN /\ pc[t] = "call"
     /\ p \in HasCredential
     /\ posted' = posted \cup {<<r, p>>}
     /\ Answer(t, r, "dropped")
     /\ UNCHANGED <<local_only, ledger, day, received, pinned, failed, faults>>

\* _persist_new_receipts: one receipt is appended under the ledger's lock;
\* after the last one the response is sent.
Persist(t) ==
  LET receipt == Head(receipts[t])
  IN /\ pc[t] = "persist"
     /\ ledger' = Written(ledger, [receipt |-> receipt, day |-> day])
     /\ IF Len(receipts[t]) = 1
          THEN Answer(t, request[t], status[t])
          ELSE /\ receipts' = [receipts EXCEPT ![t] = Tail(@)]
               /\ UNCHANGED <<pc, request, untried, status, answer>>
     /\ UNCHANGED <<local_only, day, received, pinned, posted, failed, faults>>

-----------------------------------------------------------------------------
(* Time and faults                                                         *)

\* Disturbances are left.
Undisturbed == (day - 1) + faults < MaxDisturbances

Midnight ==
  /\ Undisturbed
  /\ day' = day + 1
  /\ UNCHANGED <<local_only, ledger, threadState, received, history, faults>>

Fault ==
  /\ Undisturbed
  /\ faults' = faults + 1

\* An append that puts nothing, or the front of a line, into the file.
TornWrite ==
  ledger' \in {ledger, IF ledger # <<>> /\ ledger[Len(ledger)] = Torn
                         THEN ledger ELSE Append(ledger, Torn)}

\* open() or write() of the ledger raises an OSError (the disk is full).
PersistError(t) ==
  /\ Fault
  /\ pc[t] = "persist"
  /\ TornWrite
  /\ Answer(t, request[t], "dropped")
  /\ UNCHANGED <<local_only, day, received, pinned, posted, failed>>

\* The gateway is killed and started again on the same ledger.
Crash ==
  /\ Fault
  /\ IF \E t \in Threads : pc[t] = "persist" THEN TornWrite ELSE UNCHANGED ledger
  /\ answer' = [r \in Requests |->
                  IF \E t \in Threads : request[t] = r THEN "dropped" ELSE answer[r]]
  /\ pc' = [t \in Threads |-> "idle"]
  /\ request' = [t \in Threads |-> 0]
  /\ untried' = [t \in Threads |-> {}]
  /\ receipts' = [t \in Threads |-> <<>>]
  /\ status' = [t \in Threads |-> "none"]
  /\ UNCHANGED <<local_only, day, received, pinned, posted, failed>>

-----------------------------------------------------------------------------
Request(t) ==
  \/ \E pin \in Names \cup {None}, validRunId \in BOOLEAN : Receive(t, pin, TRUE, validRunId)
  \/ Receive(t, None, FALSE, TRUE)

Call(t) ==
  \/ \E tokens \in TokenCounts : Complete(t, tokens)
  \/ \E error \in Errors \ {"credential_missing"}, tokens \in TokenCounts : Fail(t, error, tokens)
  \/ Fail(t, "credential_missing", 0)
  \/ Malformed(t)

Next ==
  \/ \E t \in Threads : Request(t) \/ Call(t) \/ Persist(t) \/ PersistError(t)
  \/ Midnight
  \/ Crash

Spec == Init /\ [][Next]_vars

-----------------------------------------------------------------------------
(* Properties                                                              *)

Answers ==
  {"none", "400", "budget exhausted", "503", "200", "429", "502", "dropped"}

Receipts ==
  [request : Requests, provider : Providers, error : Errors \cup {"none"}, tokens : TokenCounts \cup {0}]

Days == 1..(MaxDisturbances + 1)

Records == [receipt : Receipts, day : Days]

ASSUME LinesAssumption == {Torn, Garbled} \cap Records = {}

\* The kinds of values the ledger and the threads of the gateway hold.
TypeOK ==
  /\ ledger \in Seq(Records \cup {Torn, Garbled})
  /\ local_only \in BOOLEAN /\ day \in Days
  /\ pc \in [Threads -> {"idle", "call", "persist"}]
  /\ request \in [Threads -> 0..received]
  /\ untried \in [Threads -> SUBSET Providers]
  /\ receipts \in [Threads -> Seq(Receipts)]
  /\ \A t \in Threads :
       /\ pc[t] = "call" => untried[t] # {}
       /\ pc[t] = "persist" => receipts[t] # <<>>
  /\ status \in [Threads -> {"none", "200", "429", "502"}]
  /\ received \in 0..MaxRequests
  /\ pinned \in [Requests -> Names \cup {None}]
  /\ answer \in [Requests -> Answers]
  /\ posted \subseteq Requests \X Providers
  /\ failed \subseteq posted
  /\ faults \in 0..MaxDisturbances

Recorded(r, p) ==
  \E i \in 1..Len(ledger) :
    /\ ~Unreadable(ledger[i])
    /\ ledger[i].receipt.request = r
    /\ ledger[i].receipt.provider = p

\* The budget is asserted before a request and charged after it, without a
\* lock over both: concurrent requests and their failovers overshoot it, but
\* by less than what all threads may still owe the ledger at one time, on
\* the day they were admitted and on the next.
OvershootBounded ==
  LET owed == Cardinality(Threads) * Cardinality(Eligible)
  IN \A date \in Days :
       RecordsOf(date) # {} =>
         /\ Cardinality(RecordsOf(date)) < MaxDailyRequests + owed
         /\ TokensOf(date) < MaxDailyTokens + owed * Max(TokenCounts)

\* A request that got an upstream status left a record of every provider it
\* called, the failed ones included, unless a crash or a write error damaged
\* the ledger in the meantime.
AnsweredIsRecorded ==
  faults = 0 =>
    \A r \in Requests, p \in Providers :
      answer[r] \in {"200", "429", "502"} /\ <<r, p>> \in posted => Recorded(r, p)

\* Every record is about a call this request made, and no call is recorded
\* twice.
RecordedOnce ==
  \A i, j \in 1..Len(ledger) :
    ~Unreadable(ledger[i]) =>
      LET receipt == ledger[i].receipt
      IN /\ receipt.error # "credential_missing" => <<receipt.request, receipt.provider>> \in posted
         /\ i # j /\ ~Unreadable(ledger[j]) =>
              \/ ledger[j].receipt.request # receipt.request
              \/ ledger[j].receipt.provider # receipt.provider

\* No silent substitution: a pinned request calls no other provider, an unpinned
\* one calls a provider only after every better one has failed it in a way that
\* allows another try, and local_only keeps both on local providers
\* (ProviderRouter.complete, ProviderPolicy.filter).
NoSilentSubstitution ==
  \A call \in posted :
    LET pin == pinned[call[1]]
    IN /\ pin # None => call[2] = pin
       /\ local_only => Quota[call[2]] = "local"
       /\ \A q \in Candidates(pin) : <<call[1], q>> \in failed \/ ~Before(q, call[2])

\* docs/ARCHITECTURE.md: "Every request stores a normalized inference
\* receipt".
EveryRequestStored ==
  \A r \in Requests, p \in Providers :
    answer[r] # "none" /\ <<r, p>> \in posted => \E q \in Providers : Recorded(r, q)
=============================================================================
