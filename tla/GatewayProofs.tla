----------------------------- MODULE GatewayProofs -----------------------------
(***************************************************************************)
(* Safety of InferenceGateway for every set of threads and of providers,   *)
(* every policy and any number of requests and disturbances.               *)
(***************************************************************************)
EXTENDS InferenceGateway, FiniteSums, SequenceTheorems, TLAPS

-----------------------------------------------------------------------------
(* The inductive invariant                                                 *)

Lines == Records \cup {Torn, Garbled}

Upstream == {"200", "429", "502"}

\* What a thread has says where it is, and no two serve one request.
ThreadInv ==
  /\ \A t \in Threads :
       /\ pc[t] = "idle" => request[t] = 0 /\ untried[t] = {} /\ receipts[t] = <<>>
       /\ pc[t] # "idle" => request[t] # 0 /\ answer[request[t]] = "none"
       /\ pc[t] = "persist" => status[t] \in Upstream /\ untried[t] = {}
  /\ \A t, u \in Threads : request[t] = request[u] /\ request[t] # 0 => t = u
  /\ \A call \in posted : call[1] <= received
  /\ \A r \in Requests : r > received => answer[r] = "none"

\* A thread has called, and has seen fail, every candidate it does not still
\* have to try.
OrderInv ==
  \A t \in Threads : pc[t] = "call" =>
    /\ untried[t] \subseteq Candidates(pinned[request[t]])
    /\ \A q \in Candidates(pinned[request[t]]) \ untried[t] : <<request[t], q>> \in failed

\* Thread t still has to try provider p, or to persist a receipt of it.
Pending(t, p) == \E i \in 1..Len(receipts[t]) : receipts[t][i].provider = p

Owes(t, p) == p \in untried[t] \/ Pending(t, p)

\* The receipts a thread has are about the calls of its request, and none of
\* them, and no candidate it still has to try, is in the ledger.
ReceiptInv ==
  /\ \A i \in 1..Len(ledger) : ~Unreadable(ledger[i]) => ledger[i].receipt.request <= received
  /\ \A t \in Threads : \A i \in 1..Len(receipts[t]) :
       LET receipt == receipts[t][i]
       IN /\ receipt.request = request[t]
          /\ receipt.error # "credential_missing" => <<request[t], receipt.provider>> \in posted
          /\ receipt.provider \notin untried[t]
          /\ \A j \in 1..Len(receipts[t]) : receipts[t][j].provider = receipt.provider => i = j
  /\ \A t \in Threads, p \in Providers : Owes(t, p) => p \in Eligible /\ ~Recorded(request[t], p)

\* Without a fault, a call that is not recorded has a receipt that is about to
\* be, or its response was malformed.
AccountedFor ==
  faults = 0 =>
    /\ Readable
    /\ \A r \in Requests, p \in Providers : <<r, p>> \in posted =>
         \/ Recorded(r, p)
         \/ answer[r] = "dropped"
         \/ \E t \in Threads : request[t] = r /\ Pending(t, p)

-----------------------------------------------------------------------------
(* The candidates                                                          *)

\* The sorted candidates have a first one.
LEMMA FirstIsBest ==
  ASSUME NEW S \in SUBSET Providers, S # {}
  PROVE  First(S) \in S /\ \A q \in S \ {First(S)} : Before(First(S), q)
<1>1. PICK k \in {QuotaRank(p) : p \in S} : \A m \in {QuotaRank(p) : p \in S} : k <= m
  <2>1. {QuotaRank(p) : p \in S} \in SUBSET Nat /\ {QuotaRank(p) : p \in S} # {}
    BY DEF QuotaRank
  <2> QED BY <2>1, LeastNatural
<1> DEFINE T == {NameRank[p] : p \in {q \in S : QuotaRank(q) = k}}
<1>2. T \in SUBSET Nat /\ T # {}
  BY <1>1, ProvidersAssumption
<1>3. PICK n \in T : \A m \in T : n <= m
  <2> HIDE DEF T
  <2> QED BY <1>2, LeastNatural
<1>4. PICK p \in S : QuotaRank(p) = k /\ NameRank[p] = n
  BY <1>3
<1>5. ASSUME NEW q \in S \ {p}
      PROVE  Before(p, q)
  <2>1. QuotaRank(p) \in Nat /\ QuotaRank(q) \in Nat /\ QuotaRank(p) <= QuotaRank(q)
    BY <1>1, <1>4 DEF QuotaRank
  <2>2. NameRank[p] \in Nat /\ NameRank[q] \in Nat /\ NameRank[p] # NameRank[q]
    BY ProvidersAssumption
  <2>3. QuotaRank(q) = k => NameRank[p] <= NameRank[q]
    BY <1>3, <1>4
  <2> QED BY <1>4, <2>1, <2>2, <2>3 DEF Before
<1> QED BY <1>5 DEF First

\* Before is an order of providers.
LEMMA BeforeIsStrict ==
  ASSUME NEW p \in Providers, NEW q \in Providers, Before(p, q)
  PROVE  ~Before(q, p)
<1>1. /\ QuotaRank(p) \in Nat /\ QuotaRank(q) \in Nat
      /\ NameRank[p] \in Nat /\ NameRank[q] \in Nat
  BY ProvidersAssumption DEF QuotaRank
<1> QED BY <1>1 DEF Before

-----------------------------------------------------------------------------
(* Types, and what threads have                                            *)

Typed == TypeOK /\ ThreadInv

\* The steps of the gateway, with the values they take.
LEMMA Steps ==
  ASSUME Next
  PROVE  \/ \E t \in Threads, pin \in Names \cup {None}, validMessages, validRunId \in BOOLEAN :
              Receive(t, pin, validMessages, validRunId)
         \/ \E t \in Threads, tokens \in TokenCounts : Complete(t, tokens)
         \/ \E t \in Threads, error \in Errors, tokens \in TokenCounts \cup {0} : Fail(t, error, tokens)
         \/ \E t \in Threads : Malformed(t) \/ Persist(t) \/ PersistError(t)
         \/ Midnight
         \/ Crash
BY DEF Next, Request, Call, Errors

\* A response ends the request of its thread and changes nothing else of the
\* threads.
Answered(t, r, result) ==
  /\ answer' \in [Requests -> Answers] /\ answer'[r] = result
  /\ \A q \in Requests \ {r} : answer'[q] = answer[q]
  /\ pc' \in [Threads -> {"idle", "call", "persist"}] /\ pc'[t] = "idle"
  /\ request' \in [Threads -> 0..received] /\ request'[t] = 0
  /\ untried' \in [Threads -> SUBSET Providers] /\ untried'[t] = {}
  /\ receipts' \in [Threads -> Seq(Receipts)] /\ receipts'[t] = <<>>
  /\ status' \in [Threads -> {"none"} \cup Upstream] /\ status'[t] = "none"
  /\ \A u \in Threads \ {t} :
       /\ pc'[u] = pc[u] /\ request'[u] = request[u] /\ untried'[u] = untried[u]
       /\ receipts'[u] = receipts[u] /\ status'[u] = status[u]

\* Answer does what Answered says.
LEMMA AnswerEffect ==
  ASSUME Typed, NEW t \in Threads, NEW r \in Requests, NEW result \in Answers, Answer(t, r, result)
  PROVE  Answered(t, r, result)
<1>1. received \in Nat /\ <<>> \in Seq(Receipts)
  BY BoundsAssumption, EmptySeq DEF Typed, TypeOK
<1> QED BY <1>1 DEF Typed, TypeOK, Answer, Answered, Upstream

\* A thread that is about to answer leaves the others as they are typed.
LEMMA AnswerTyped ==
  ASSUME Typed, NEW t \in Threads, NEW r \in Requests, NEW result \in Answers \ {"none"},
         Answer(t, r, result), r = request[t] \/ r > received,
         ledger' \in Seq(Lines), UNCHANGED local_only, day' \in Days, received' \in {received, r},
         received' >= received, r <= received',
         pinned' \in [Requests -> Names \cup {None}],
         posted \subseteq posted', posted' \subseteq Requests \X Providers,
         \A call \in posted' \ posted : call[1] = request[t],
         failed' = failed, faults' \in 0..MaxDisturbances
  PROVE  Typed'
<1>1. /\ received \in Nat /\ received' \in 0..MaxRequests /\ r \in 1..MaxRequests
      /\ \A u \in Threads : request[u] \in 0..received
  BY BoundsAssumption DEF Typed, TypeOK, Requests
<1>a. Answered(t, r, result)
  BY AnswerEffect
<1>2. TypeOK'
  <2>1. request' \in [Threads -> 0..received']
    BY <1>1, <1>a DEF Answered
  <2>2. \A u \in Threads : /\ pc'[u] = "call" => untried'[u] # {}
                           /\ pc'[u] = "persist" => receipts'[u] # <<>>
    BY <1>a DEF Answered, Typed, TypeOK
  <2>3. failed' \subseteq posted' /\ local_only' \in BOOLEAN
    BY DEF Typed, TypeOK
  <2> QED BY <1>1, <2>1, <2>2, <2>3, <1>a DEF Answered, TypeOK, Lines, Upstream
<1>3. ThreadInv'
  <2>1. ASSUME NEW u \in Threads
        PROVE  /\ pc'[u] = "idle" => request'[u] = 0 /\ untried'[u] = {} /\ receipts'[u] = <<>>
               /\ pc'[u] # "idle" => request'[u] # 0 /\ answer'[request'[u]] = "none"
               /\ pc'[u] = "persist" => status'[u] \in Upstream /\ untried'[u] = {}
    <3>1. CASE u = t
      BY <1>a, <3>1 DEF Answered
    <3>2. CASE u # t
      <4>1. request[u] # 0 => request[u] # r /\ request[u] \in Requests
        <5>1. request[u] # 0 => request[u] # request[t]
          BY <3>2 DEF Typed, ThreadInv
        <5>2. /\ request[u] <= received /\ request[u] \in Nat
              /\ received \in Nat /\ MaxRequests \in Nat /\ received <= MaxRequests
          BY <1>1, BoundsAssumption DEF Typed, TypeOK
        <5>3. request[u] # 0 => request[u] \in Requests
          BY <5>2 DEF Requests
        <5>4. request[u] # 0 => request[u] # r
          BY <1>1, <5>1, <5>2
        <5> QED BY <5>3, <5>4
      <4>2. /\ pc'[u] = pc[u] /\ request'[u] = request[u] /\ untried'[u] = untried[u]
            /\ receipts'[u] = receipts[u] /\ status'[u] = status[u]
            /\ request[u] # 0 => answer'[request[u]] = answer[request[u]]
        BY <1>a, <3>2, <4>1 DEF Answered
      <4> QED BY <4>2 DEF Typed, ThreadInv
    <3> QED BY <3>1, <3>2
  <2>2. \A u, v \in Threads : request'[u] = request'[v] /\ request'[u] # 0 => u = v
    <3> SUFFICES ASSUME NEW u \in Threads, NEW v \in Threads,
                        request'[u] = request'[v], request'[u] # 0
                 PROVE  u = v
      OBVIOUS
    <3>1. u # t /\ v # t
      BY <1>a DEF Answered
    <3>2. request'[u] = request[u] /\ request'[v] = request[v]
      BY <1>a, <3>1 DEF Answered
    <3>3. request[u] = request[v] /\ request[u] # 0
      BY <3>2
    <3> QED BY <3>3 DEF Typed, ThreadInv
  <2>3. \A call \in posted' : call[1] <= received'
    <3>1. \A call \in posted : call[1] \in Nat /\ call[1] <= received
      BY DEF Typed, TypeOK, ThreadInv, Requests
    <3> QED BY <1>1, <3>1
  <2>4. \A q \in Requests : q > received' => answer'[q] = "none"
    <3> SUFFICES ASSUME NEW q \in Requests, q > received'
                 PROVE  answer'[q] = "none"
      OBVIOUS
    <3>1. q \in Nat /\ q > received /\ q # r
      BY <1>1 DEF Requests
    <3> QED BY <1>a, <3>1 DEF Answered, Typed, ThreadInv
  <2> QED BY <2>1, <2>2, <2>3, <2>4 DEF ThreadInv
<1> QED BY <1>2, <1>3 DEF Typed

\* A record that is appended is the last line, or lost in a torn one; every
\* other line is what it was.
LEMMA WrittenLines ==
  ASSUME NEW lines \in Seq(Lines), NEW record \in Records
  PROVE  /\ Written(lines, record) \in Seq(Lines)
         /\ Len(Written(lines, record)) >= Len(lines)
         /\ \A i \in 1..Len(lines) :
              \/ Written(lines, record)[i] = lines[i]
              \/ Unreadable(lines[i]) /\ Unreadable(Written(lines, record)[i])
         /\ \/ Len(Written(lines, record)) = Len(lines) /\ \E i \in 1..Len(lines) : Unreadable(lines[i])
            \/ /\ Len(Written(lines, record)) = Len(lines) + 1
               /\ Written(lines, record)[Len(lines) + 1] = record
               /\ \A i \in 1..Len(lines) : Written(lines, record)[i] = lines[i]
<1>1. record \in Lines /\ Garbled \in Lines /\ Torn \in {Torn, Garbled}
  BY DEF Lines
<1>2. CASE lines # <<>> /\ lines[Len(lines)] = Torn
  <2>1. Len(lines) \in 1..Len(lines)
    BY <1>2, EmptySeq, LenProperties
  <2>2. Written(lines, record) = [lines EXCEPT ![Len(lines)] = Garbled]
    BY <1>2 DEF Written
  <2> QED BY <1>1, <1>2, <2>1, <2>2, ExceptSeq DEF Unreadable
<1>3. CASE ~(lines # <<>> /\ lines[Len(lines)] = Torn)
  <2>1. Written(lines, record) = Append(lines, record)
    BY <1>3 DEF Written
  <2>2. Len(lines) \in Nat
    BY LenProperties
  <2> QED BY <1>1, <2>1, <2>2, AppendProperties
<1> QED BY <1>2, <1>3

\* A write that fails adds at most a torn line.
LEMMA TornLines ==
  ASSUME ledger \in Seq(Lines), TornWrite
  PROVE  /\ ledger' \in Seq(Lines)
         /\ \A i \in 1..Len(ledger) : ledger'[i] = ledger[i]
         /\ Len(ledger') >= Len(ledger)
         /\ \A i \in 1..Len(ledger') : i <= Len(ledger) \/ Unreadable(ledger'[i])
<1>1. Torn \in Lines /\ Unreadable(Torn) /\ Len(ledger) \in Nat
  BY LenProperties DEF Lines, Unreadable
<1>2. CASE ledger' = ledger
  BY <1>1, <1>2
<1>3. CASE ledger' = Append(ledger, Torn)
  BY <1>1, <1>3, AppendProperties
<1> QED BY <1>2, <1>3 DEF TornWrite

\* chat_completions refuses a request or begins it with its candidates.
LEMMA ReceiveTyped ==
  ASSUME Typed, NEW t \in Threads, NEW pin \in Names \cup {None},
         NEW validMessages \in BOOLEAN, NEW validRunId \in BOOLEAN,
         Receive(t, pin, validMessages, validRunId)
  PROVE  Typed'
<1> DEFINE r == received + 1
           refusal == Refusal(pin, validMessages, validRunId)
<1>1. /\ received \in Nat /\ r \in Requests /\ r > received /\ r \in Nat /\ r \in 0..MaxRequests
      /\ MaxRequests \in Nat
  BY BoundsAssumption DEF Typed, TypeOK, Receive, Requests
<1>2. refusal \in Answers
  BY DEF Refusal, Answers
<1>3. /\ pc[t] = "idle" /\ received' = r /\ pinned' = [pinned EXCEPT ![r] = pin]
      /\ UNCHANGED <<local_only, ledger, day, posted, failed, faults>>
  BY DEF Receive
<1>4. /\ ledger' \in Seq(Lines) /\ day' \in Days /\ faults' \in 0..MaxDisturbances
      /\ pinned' \in [Requests -> Names \cup {None}] /\ posted' \subseteq Requests \X Providers
  BY <1>3 DEF Typed, TypeOK, Lines
<1>5. CASE refusal # "none"
  <2>1. Answer(t, r, refusal)
    BY <1>5 DEF Receive
  <2> HIDE DEF refusal
  <2> QED BY <1>1, <1>2, <1>3, <1>4, <1>5, <2>1, AnswerTyped
<1>6. CASE refusal = "none"
  <2>1. /\ pc' = [pc EXCEPT ![t] = "call"] /\ request' = [request EXCEPT ![t] = r]
        /\ untried' = [untried EXCEPT ![t] = Candidates(pin)]
        /\ UNCHANGED <<receipts, status, answer>>
    BY <1>6 DEF Receive
  <2>2. Candidates(pin) # {} /\ Candidates(pin) \subseteq Providers
    BY <1>6 DEF Refusal, Candidates, Eligible
  <2>3. TypeOK'
    <3>1. request' \in [Threads -> 0..r]
      BY <1>1, <2>1 DEF Typed, TypeOK
    <3>2. untried' \in [Threads -> SUBSET Providers]
      BY <2>1, <2>2 DEF Typed, TypeOK
    <3>3. \A u \in Threads : /\ pc'[u] = "call" => untried'[u] # {}
                             /\ pc'[u] = "persist" => receipts'[u] # <<>>
      BY <2>1, <2>2 DEF Typed, TypeOK
    <3>4. /\ pc' \in [Threads -> {"idle", "call", "persist"}] /\ receipts' \in [Threads -> Seq(Receipts)]
          /\ status' \in [Threads -> {"none", "200", "429", "502"}] /\ answer' \in [Requests -> Answers]
          /\ local_only' \in BOOLEAN /\ failed' \subseteq posted'
      BY <1>3, <2>1 DEF Typed, TypeOK
    <3> QED BY <1>1, <1>3, <1>4, <3>1, <3>2, <3>3, <3>4 DEF TypeOK, Lines
  <2>4. ThreadInv'
    <3>1. \A u \in Threads : u # t => request[u] # r
      BY <1>1 DEF Typed, TypeOK
    <3>2. answer[r] = "none"
      BY <1>1 DEF Typed, ThreadInv
    <3>3. ASSUME NEW u \in Threads
          PROVE  /\ pc'[u] = "idle" => request'[u] = 0 /\ untried'[u] = {} /\ receipts'[u] = <<>>
                 /\ pc'[u] # "idle" => request'[u] # 0 /\ answer'[request'[u]] = "none"
                 /\ pc'[u] = "persist" => status'[u] \in Upstream /\ untried'[u] = {}
      <4>1. CASE u = t
        BY <1>1, <2>1, <3>2, <4>1 DEF Typed, TypeOK
      <4>2. CASE u # t
        BY <2>1, <4>2 DEF Typed, TypeOK, ThreadInv
      <4> QED BY <4>1, <4>2
    <3>4. ASSUME NEW u \in Threads, NEW v \in Threads, request'[u] = request'[v], request'[u] # 0
          PROVE  u = v
      BY <2>1, <3>1, <3>4 DEF Typed, TypeOK, ThreadInv
    <3>5. \A call \in posted' : call[1] <= received'
      <4>1. \A call \in posted : call[1] \in Nat /\ call[1] <= received
        BY DEF Typed, TypeOK, ThreadInv, Requests
      <4> QED BY <1>1, <1>3, <4>1
    <3>6. \A q \in Requests : q > received' => answer'[q] = "none"
      BY <1>1, <1>3, <2>1 DEF Typed, ThreadInv, Requests
    <3> QED BY <3>3, <3>4, <3>5, <3>6 DEF ThreadInv
  <2> QED BY <2>3, <2>4 DEF Typed
<1> QED BY <1>5, <1>6

\* A call of a provider: its receipt is kept, and the thread goes on to another
\* candidate or to persist.
Called(t, p, receipt) ==
  /\ pc[t] = "call" /\ p \in untried[t] /\ receipt \in Receipts
  /\ receipt.request = request[t] /\ receipt.provider = p
  /\ receipts' = [receipts EXCEPT ![t] = Append(@, receipt)]
  /\ posted' = (IF receipt.error = "credential_missing" THEN posted ELSE posted \cup {<<request[t], p>>})
  /\ failed' = (IF receipt.error \in Retryable THEN failed \cup {<<request[t], p>>} ELSE failed)
  /\ \/ \E result \in Upstream : Finish(t, result)
     \/ /\ pinned[request[t]] = None /\ receipt.error \in Retryable
        /\ untried[t] \ {p} # {}
        /\ untried' = [untried EXCEPT ![t] = @ \ {p}]
        /\ UNCHANGED <<pc, status>>
  /\ UNCHANGED <<local_only, ledger, day, request, received, pinned, answer, faults>>

\* The request of a thread that is not idle.
LEMMA Serving ==
  ASSUME Typed, NEW t \in Threads, pc[t] # "idle"
  PROVE  request[t] \in Requests /\ request[t] <= received
BY BoundsAssumption DEF Typed, TypeOK, ThreadInv, Requests

\* A completion is a call whose receipt has no error.
LEMMA CompleteCalls ==
  ASSUME Typed, NEW t \in Threads, NEW tokens \in TokenCounts, Complete(t, tokens)
  PROVE  Called(t, First(untried[t]), Receipt(request[t], First(untried[t]), "none", tokens))
<1> DEFINE p == First(untried[t])
<1>1. pc[t] = "call" /\ untried[t] \in SUBSET Providers /\ untried[t] # {}
  BY DEF Complete, Typed, TypeOK
<1>2. p \in untried[t]
  <2> HIDE DEF p
  <2> QED BY <1>1, FirstIsBest DEF p
<1>3. Receipt(request[t], p, "none", tokens) \in Receipts
  BY <1>1, <1>2, Serving DEF Receipt, Receipts
<1> QED BY <1>1, <1>2, <1>3 DEF Complete, Keep, Called, Receipt, Retryable, Upstream

\* A failure is a call too, also where the credential is missing and none is posted.
LEMMA FailCalls ==
  ASSUME Typed, NEW t \in Threads, NEW error \in Errors, NEW tokens \in TokenCounts \cup {0},
         Fail(t, error, tokens)
  PROVE  Called(t, First(untried[t]), Receipt(request[t], First(untried[t]), error, tokens))
<1> DEFINE p == First(untried[t])
<1>1. pc[t] = "call" /\ untried[t] \in SUBSET Providers /\ untried[t] # {}
  BY DEF Fail, Typed, TypeOK
<1>2. p \in untried[t]
  <2> HIDE DEF p
  <2> QED BY <1>1, FirstIsBest DEF p
<1>3. Receipt(request[t], p, error, tokens) \in Receipts
  BY <1>1, <1>2, Serving DEF Receipt, Receipts
<1>4. \/ \E result \in Upstream : Finish(t, result)
      \/ /\ pinned[request[t]] = None /\ error \in Retryable
         /\ untried[t] \ {p} # {}
         /\ untried' = [untried EXCEPT ![t] = @ \ {p}]
         /\ UNCHANGED <<pc, status>>
  BY DEF Fail, Upstream
<1> QED BY <1>1, <1>2, <1>3, <1>4 DEF Fail, Keep, Called, Receipt

\* A call keeps the types.
LEMMA CalledTyped ==
  ASSUME Typed, NEW t \in Threads, NEW p, NEW receipt, Called(t, p, receipt)
  PROVE  Typed'
<1>1. /\ request[t] \in Requests /\ request[t] <= received /\ p \in Providers
      /\ receipts[t] \in Seq(Receipts)
  BY Serving DEF Called, Typed, TypeOK
<1>2. /\ pc' \in [Threads -> {"idle", "call", "persist"}]
      /\ untried' \in [Threads -> SUBSET Providers]
      /\ status' \in [Threads -> {"none", "200", "429", "502"}]
  BY ZenonT(60) DEF Called, Finish, Typed, TypeOK, Upstream
<1>3. /\ receipts' \in [Threads -> Seq(Receipts)] /\ receipts'[t] # <<>>
      /\ \A u \in Threads \ {t} : receipts'[u] = receipts[u]
  <2>1. Append(receipts[t], receipt) \in Seq(Receipts) /\ Append(receipts[t], receipt) # <<>>
    BY <1>1, AppendProperties DEF Called
  <2> QED BY <2>1 DEF Called, Typed, TypeOK
<1>4. /\ posted \subseteq posted' /\ posted' \subseteq Requests \X Providers /\ failed' \subseteq posted'
      /\ \A call \in posted' : call \in posted \/ call[1] = request[t]
  <2>1. receipt.error \in Retryable => receipt.error # "credential_missing"
    BY DEF Retryable
  <2> QED BY <1>1, <2>1 DEF Called, Typed, TypeOK
<1>5. /\ pc'[t] \in {"call", "persist"} /\ (pc'[t] = "call" => untried'[t] # {})
      /\ pc'[t] = "persist" => status'[t] \in Upstream /\ untried'[t] = {}
  BY DEF Called, Finish, Typed, TypeOK
<1>6. \A u \in Threads \ {t} : pc'[u] = pc[u] /\ untried'[u] = untried[u] /\ status'[u] = status[u]
  BY DEF Called, Finish, Typed, TypeOK
<1>7. TypeOK'
  <2>1. \A u \in Threads : /\ pc'[u] = "call" => untried'[u] # {}
                           /\ pc'[u] = "persist" => receipts'[u] # <<>>
    BY <1>3, <1>5, <1>6 DEF Typed, TypeOK
  <2>2. UNCHANGED <<local_only, ledger, day, request, received, pinned, answer, faults>>
    BY DEF Called
  <2> QED BY <1>2, <1>3, <1>4, <2>1, <2>2 DEF Typed, TypeOK
<1>8. ThreadInv'
  <2>1. UNCHANGED <<request, received, answer>> /\ pc[t] = "call"
    BY DEF Called
  <2>2. ASSUME NEW u \in Threads
        PROVE  /\ pc'[u] = "idle" => request'[u] = 0 /\ untried'[u] = {} /\ receipts'[u] = <<>>
               /\ pc'[u] # "idle" => request'[u] # 0 /\ answer'[request'[u]] = "none"
               /\ pc'[u] = "persist" => status'[u] \in Upstream /\ untried'[u] = {}
    <3>1. CASE u = t
      BY <1>5, <2>1, <3>1 DEF Typed, ThreadInv
    <3>2. CASE u # t
      BY <1>3, <1>6, <2>1, <3>2 DEF Typed, ThreadInv
    <3> QED BY <3>1, <3>2
  <2>3. \A call \in posted' : call[1] <= received'
    BY <1>1, <1>4, <2>1 DEF Typed, ThreadInv
  <2>4. /\ \A u, v \in Threads : request'[u] = request'[v] /\ request'[u] # 0 => u = v
        /\ \A r \in Requests : r > received' => answer'[r] = "none"
    BY <2>1 DEF Typed, ThreadInv
  <2> QED BY <2>2, <2>3, <2>4 DEF ThreadInv
<1> QED BY <1>7, <1>8 DEF Typed

\* What most steps leave alone keeps its type.
LEMMA KeptTyped ==
  ASSUME Typed, UNCHANGED <<day, received, pinned>>
  PROVE  /\ day' \in Days /\ pinned' \in [Requests -> Names \cup {None}]
         /\ posted \subseteq Requests \X Providers /\ faults \in 0..MaxDisturbances
         /\ ledger \in Seq(Lines) /\ received' >= received
<1>1. received \in Nat
  BY BoundsAssumption DEF Typed, TypeOK
<1> QED BY <1>1 DEF Typed, TypeOK, Lines

\* A malformed response keeps the types.
LEMMA MalformedTyped ==
  ASSUME Typed, NEW t \in Threads, Malformed(t)
  PROVE  Typed'
<1> DEFINE p == First(untried[t])
<1>1. pc[t] = "call" /\ untried[t] \in SUBSET Providers /\ untried[t] # {}
  BY DEF Malformed, Typed, TypeOK
<1>2. p \in Providers
  BY <1>1, FirstIsBest
<1>3. request[t] \in Requests /\ request[t] <= received
  BY <1>1, Serving
<1>4. /\ Answer(t, request[t], "dropped") /\ posted' = posted \cup {<<request[t], p>>}
      /\ UNCHANGED <<local_only, ledger, day, received, pinned, failed, faults>>
  BY DEF Malformed
<1>5. /\ ledger' \in Seq(Lines) /\ day' \in Days /\ pinned' \in [Requests -> Names \cup {None}]
      /\ posted' \subseteq Requests \X Providers /\ faults' \in 0..MaxDisturbances
      /\ received' >= received /\ "dropped" \in Answers \ {"none"}
  <2>1. <<request[t], p>> \in Requests \X Providers
    BY <1>2, <1>3
  <2> HIDE DEF p
  <2> QED BY <1>4, <2>1, KeptTyped DEF Answers
<1> HIDE DEF p
<1> QED BY <1>3, <1>4, <1>5, AnswerTyped

\* The receipt that is persisted next becomes a record.
LEMMA NextRecord ==
  ASSUME Typed, NEW t \in Threads, pc[t] = "persist"
  PROVE  /\ Head(receipts[t]) = receipts[t][1] /\ Len(receipts[t]) \in Nat \ {0}
         /\ [receipt |-> Head(receipts[t]), day |-> day] \in Records
<1>1. receipts[t] \in Seq(Receipts) /\ receipts[t] # <<>> /\ day \in Days
  BY DEF Typed, TypeOK
<1>2. Head(receipts[t]) \in Receipts /\ Len(receipts[t]) \in Nat \ {0}
  BY <1>1, HeadTailProperties, EmptySeq
<1> QED BY <1>1, <1>2 DEF Records

\* Recording a receipt keeps the types.
LEMMA PersistTyped ==
  ASSUME Typed, NEW t \in Threads, Persist(t)
  PROVE  Typed'
<1>1. pc[t] = "persist" /\ request[t] \in Requests /\ request[t] <= received /\ status[t] \in Upstream
  BY Serving DEF Persist, Typed, ThreadInv
<1>2. /\ ledger' = Written(ledger, [receipt |-> Head(receipts[t]), day |-> day])
      /\ UNCHANGED <<local_only, day, received, pinned, posted, failed, faults>>
  BY DEF Persist
<1>3. ledger' \in Seq(Lines)
  BY <1>1, <1>2, NextRecord, WrittenLines DEF Typed, TypeOK, Lines
<1>4. CASE Len(receipts[t]) = 1
  <2>1. Answer(t, request[t], status[t])
    BY <1>4 DEF Persist
  <2>2. /\ day' \in Days /\ pinned' \in [Requests -> Names \cup {None}]
        /\ posted' \subseteq Requests \X Providers /\ faults' \in 0..MaxDisturbances
        /\ received' >= received /\ status[t] \in Answers \ {"none"}
    BY <1>1, <1>2, KeptTyped DEF Answers, Upstream
  <2> QED BY <1>1, <1>2, <1>3, <2>1, <2>2, AnswerTyped
<1>5. CASE Len(receipts[t]) # 1
  <2>1. /\ receipts' = [receipts EXCEPT ![t] = Tail(@)]
        /\ UNCHANGED <<pc, request, untried, status, answer>>
    BY <1>5 DEF Persist
  <2>2. Tail(receipts[t]) \in Seq(Receipts) /\ Tail(receipts[t]) # <<>>
    <3>1. /\ receipts[t] \in Seq(Receipts) /\ receipts[t] # <<>>
          /\ Len(receipts[t]) \in Nat \ {0}
      BY <1>1, NextRecord DEF Typed, TypeOK
    <3>2. Tail(receipts[t]) \in Seq(Receipts) /\ Len(Tail(receipts[t])) = Len(receipts[t]) - 1
      BY <3>1, HeadTailProperties
    <3>3. Len(Tail(receipts[t])) # 0
      BY <1>5, <3>1, <3>2
    <3> QED BY <3>2, <3>3, EmptySeq
  <2>3. receipts' \in [Threads -> Seq(Receipts)] /\ \A u \in Threads : receipts'[u] = <<>> => receipts[u] = <<>>
    BY <2>1, <2>2 DEF Typed, TypeOK
  <2>4. TypeOK'
    BY <1>2, <1>3, <2>1, <2>3 DEF Typed, TypeOK, Lines
  <2>5. ThreadInv'
    BY <1>1, <1>2, <2>1 DEF Typed, TypeOK, ThreadInv
  <2> QED BY <2>4, <2>5 DEF Typed
<1> QED BY <1>4, <1>5

\* A write error keeps the types.
LEMMA PersistErrorTyped ==
  ASSUME Typed, NEW t \in Threads, PersistError(t)
  PROVE  Typed'
<1>1. request[t] \in Requests /\ request[t] <= received
  BY Serving DEF PersistError
<1>2. /\ Answer(t, request[t], "dropped")
      /\ UNCHANGED <<local_only, day, received, pinned, posted, failed>>
  BY DEF PersistError
<1>3. ledger' \in Seq(Lines)
  BY TornLines DEF PersistError, Typed, TypeOK, Lines
<1>4. faults' \in 0..MaxDisturbances
  BY BoundsAssumption DEF PersistError, Fault, Undisturbed, Typed, TypeOK, Days
<1>5. /\ day' \in Days /\ pinned' \in [Requests -> Names \cup {None}]
      /\ posted' \subseteq Requests \X Providers
      /\ received' >= received /\ "dropped" \in Answers \ {"none"}
  BY <1>2, KeptTyped DEF Answers
<1> QED BY <1>1, <1>2, <1>3, <1>4, <1>5, AnswerTyped

\* Midnight keeps the types.
LEMMA MidnightTyped ==
  ASSUME Typed, Midnight
  PROVE  Typed'
<1>1. day' \in Days
  BY BoundsAssumption DEF Midnight, Undisturbed, Typed, TypeOK, Days
<1>2. UNCHANGED <<local_only, ledger, threadState, received, history, faults>>
  BY DEF Midnight
<1> QED BY <1>1, <1>2 DEF Typed, TypeOK, ThreadInv, threadState, history

\* A crash keeps the types.
LEMMA CrashTyped ==
  ASSUME Typed, Crash
  PROVE  Typed'
<1>1. /\ pc' = [t \in Threads |-> "idle"] /\ request' = [t \in Threads |-> 0]
      /\ untried' = [t \in Threads |-> {}] /\ receipts' = [t \in Threads |-> <<>>]
      /\ status' = [t \in Threads |-> "none"]
      /\ answer' = [r \in Requests |->
                      IF \E t \in Threads : request[t] = r THEN "dropped" ELSE answer[r]]
      /\ UNCHANGED <<local_only, day, received, pinned, posted, failed>>
  BY DEF Crash
<1>2. ledger' \in Seq(Lines)
  BY TornLines DEF Crash, Typed, TypeOK, Lines
<1>3. faults' \in 0..MaxDisturbances
  BY BoundsAssumption DEF Crash, Fault, Undisturbed, Typed, TypeOK, Days
<1>4. answer' \in [Requests -> Answers] /\ receipts' \in [Threads -> Seq(Receipts)]
  BY <1>1, EmptySeq DEF Typed, TypeOK, Answers
<1>5. TypeOK'
  BY <1>1, <1>2, <1>3, <1>4, BoundsAssumption DEF Typed, TypeOK, Lines
<1>6. ThreadInv'
  <2>1. \A r \in Requests : r > received' => answer'[r] = "none"
    <3> SUFFICES ASSUME NEW r \in Requests, r > received
                 PROVE  answer'[r] = "none"
      BY <1>1
    <3>1. \A t \in Threads : request[t] # r
      BY BoundsAssumption DEF Typed, TypeOK, Requests
    <3> QED BY <1>1, <3>1 DEF Typed, ThreadInv
  <2> QED BY <1>1, <2>1 DEF Typed, ThreadInv
<1> QED BY <1>5, <1>6 DEF Typed

\* Every step keeps the types.
LEMMA TypeStep ==
  ASSUME Typed, [Next]_vars
  PROVE  Typed'
<1>1. CASE UNCHANGED vars
  BY <1>1 DEF vars, threadState, history, Typed, TypeOK, ThreadInv
<1>2. CASE Next
  BY <1>2, Steps, ReceiveTyped, CompleteCalls, FailCalls, CalledTyped, MalformedTyped, PersistTyped,
     PersistErrorTyped, MidnightTyped, CrashTyped
<1> QED BY <1>1, <1>2

\* The first state is typed.
LEMMA TypeInit ==
  ASSUME Init
  PROVE  Typed
<1>1. <<>> \in Seq(Lines) /\ <<>> \in Seq(Receipts)
  BY EmptySeq
<1>2. TypeOK
  BY <1>1, BoundsAssumption DEF Init, TypeOK, Lines, Answers, Days
<1>3. ThreadInv
  BY DEF Init, ThreadInv
<1> QED BY <1>2, <1>3 DEF Typed

\* Every state is typed.
LEMMA TypedAlways == Spec => []Typed
<1> QED BY TypeInit, TypeStep, PTL DEF Spec

\* Type correctness: the ledger holds records and damaged lines only, threads have
\* requests that were received, and failures are among the calls (gateway.py,
\* providers.py and policy.py).
THEOREM TypeCorrect == Spec => []TypeOK
<1>1. Typed => TypeOK
  BY DEF Typed
<1> QED BY <1>1, TypedAlways, PTL

-----------------------------------------------------------------------------
(* No silent substitution                                                  *)

Ordered == OrderInv /\ NoSilentSubstitution

\* What was in order stays so for requests whose pin, and for threads whose
\* candidates, are left alone.
LEMMA OrderKept ==
  ASSUME Typed, Ordered, UNCHANGED <<local_only, posted, failed>>,
         \A r \in Requests : r <= received => pinned'[r] = pinned[r],
         \A t \in Threads : pc'[t] = "call" =>
           \/ pc[t] = "call" /\ request'[t] = request[t] /\ untried'[t] = untried[t]
           \/ untried'[t] = Candidates(pinned'[request'[t]])
  PROVE  Ordered'
<1>1. \A pin : Candidates(pin)' = Candidates(pin')
  BY DEF Candidates, Eligible
<1>2. ASSUME NEW t \in Threads, pc'[t] = "call"
      PROVE  /\ untried'[t] \subseteq Candidates(pinned'[request'[t]])
             /\ \A q \in Candidates(pinned'[request'[t]]) \ untried'[t] : <<request'[t], q>> \in failed'
  <2>1. CASE untried'[t] = Candidates(pinned'[request'[t]])
    BY <2>1
  <2>2. CASE pc[t] = "call" /\ request'[t] = request[t] /\ untried'[t] = untried[t]
    <3>1. pinned'[request[t]] = pinned[request[t]]
      BY <2>2, Serving
    <3> QED BY <2>2, <3>1 DEF Ordered, OrderInv
  <2> QED BY <1>2, <2>1, <2>2
<1>3. OrderInv'
  BY <1>2 DEF OrderInv, Candidates, Eligible
<1>4. NoSilentSubstitution'
  <2>1. \A call \in posted : call[1] \in Requests /\ pinned'[call[1]] = pinned[call[1]]
    BY DEF Typed, TypeOK, ThreadInv
  <2> QED BY <2>1 DEF Ordered, NoSilentSubstitution, Candidates, Eligible
<1> QED BY <1>3, <1>4 DEF Ordered

\* The call a thread is about to make is the right one.
LEMMA NextCall ==
  ASSUME Typed, Ordered, NEW t \in Threads, pc[t] = "call"
  PROVE  LET p == First(untried[t])
             pin == pinned[request[t]]
         IN /\ p \in untried[t] /\ p \in Candidates(pin)
            /\ \A q \in Candidates(pin) : <<request[t], q>> \in failed \/ ~Before(q, p)
<1> DEFINE p == First(untried[t])
           pin == pinned[request[t]]
<1>1. untried[t] \in SUBSET Providers /\ untried[t] # {}
  BY DEF Typed, TypeOK
<1>2. p \in untried[t] /\ \A q \in untried[t] \ {p} : Before(p, q)
  BY <1>1, FirstIsBest
<1>3. /\ untried[t] \subseteq Candidates(pin)
      /\ \A q \in Candidates(pin) \ untried[t] : <<request[t], q>> \in failed
  BY DEF Ordered, OrderInv
<1>4. ASSUME NEW q \in untried[t]
      PROVE  ~Before(q, p)
  <2>1. p \in Providers /\ q \in Providers
    BY <1>1, <1>2
  <2>2. ~Before(p, p)
    <3> HIDE DEF p
    <3> QED BY <2>1, BeforeIsStrict
  <2>3. q # p => ~Before(q, p)
    <3>1. q # p => Before(p, q)
      BY <1>2
    <3> HIDE DEF p
    <3> QED BY <2>1, <3>1, BeforeIsStrict
  <2> QED BY <2>2, <2>3
<1> QED BY <1>2, <1>3, <1>4

\* The call that a step adds to those that were made is the next one.
LEMMA CallInOrder ==
  ASSUME Typed, Ordered, NEW t \in Threads, pc[t] = "call",
         posted' \in {posted, posted \cup {<<request[t], First(untried[t])>>}},
         failed \subseteq failed', UNCHANGED <<local_only, pinned>>
  PROVE  NoSilentSubstitution'
<1> DEFINE p == First(untried[t])
<1>1. \A call \in posted' : call \in posted \/ call = <<request[t], p>>
  OBVIOUS
<1>2. ASSUME NEW call \in posted
      PROVE  LET pin == pinned[call[1]]
             IN /\ pin # None => call[2] = pin
                /\ local_only => Quota[call[2]] = "local"
                /\ \A q \in Candidates(pin) : <<call[1], q>> \in failed' \/ ~Before(q, call[2])
  BY DEF Ordered, NoSilentSubstitution
<1>3. LET pin == pinned[request[t]]
      IN /\ pin # None => p = pin
         /\ local_only => Quota[p] = "local"
         /\ \A q \in Candidates(pin) : <<request[t], q>> \in failed' \/ ~Before(q, p)
  BY NextCall DEF Candidates, Eligible
<1>4. \A pin : {q \in Providers : /\ local_only' => Quota[q] = "local"
                                  /\ pin # None => q = pin} = Candidates(pin)
  BY DEF Candidates, Eligible
<1> HIDE DEF p
<1> QED BY <1>1, <1>2, <1>3 DEF NoSilentSubstitution, Candidates, Eligible

\* A call and its failure keep the order.
LEMMA CalledOrdered ==
  ASSUME Typed, Ordered, NEW t \in Threads, NEW receipt, Called(t, First(untried[t]), receipt)
  PROVE  Ordered'
<1> DEFINE p == First(untried[t])
<1>1. /\ pc[t] = "call" /\ failed \subseteq failed'
      /\ UNCHANGED <<local_only, pinned, request>>
      /\ posted' \in {posted, posted \cup {<<request[t], p>>}}
  BY DEF Called
<1>2. NoSilentSubstitution'
  BY <1>1, CallInOrder
<1>3. ASSUME NEW u \in Threads, pc'[u] = "call"
      PROVE  /\ untried'[u] \subseteq Candidates(pinned[request[u]])
             /\ \A q \in Candidates(pinned[request[u]]) \ untried'[u] : <<request[u], q>> \in failed'
  <2>1. CASE u # t
    <3>1. pc[u] = "call" /\ untried'[u] = untried[u]
      BY <1>3, <2>1 DEF Called, Finish, Typed, TypeOK
    <3> QED BY <1>1, <3>1 DEF Ordered, OrderInv
  <2>2. CASE u = t
    <3>1. untried'[t] = untried[t] \ {p} /\ failed' = failed \cup {<<request[t], p>>}
      BY <1>3, <2>2 DEF Called, Finish, Typed, TypeOK
    <3>2. /\ untried[t] \subseteq Candidates(pinned[request[t]])
          /\ \A q \in Candidates(pinned[request[t]]) \ untried[t] : <<request[t], q>> \in failed
      BY <1>1 DEF Ordered, OrderInv
    <3> QED BY <2>2, <3>1, <3>2
  <2> QED BY <2>1, <2>2
<1>4. OrderInv'
  BY <1>1, <1>3 DEF OrderInv, Candidates, Eligible
<1> QED BY <1>2, <1>4 DEF Ordered

\* Every step keeps the order.
LEMMA OrderStep ==
  ASSUME Typed, Ordered, [Next]_vars
  PROVE  Ordered'
<1>1. ASSUME NEW t \in Threads, NEW pin \in Names \cup {None}, NEW validMessages \in BOOLEAN,
             NEW validRunId \in BOOLEAN, Receive(t, pin, validMessages, validRunId)
      PROVE  Ordered'
  <2>1. /\ UNCHANGED <<local_only, posted, failed>>
        /\ pinned' = [pinned EXCEPT ![received + 1] = pin]
    BY <1>1 DEF Receive
  <2>2. received \in Nat
    BY BoundsAssumption DEF Typed, TypeOK
  <2>3. \A r \in Requests : r <= received => pinned'[r] = pinned[r]
    BY <2>1, <2>2 DEF Typed, TypeOK
  <2>4. ASSUME NEW u \in Threads, pc'[u] = "call"
        PROVE  \/ pc[u] = "call" /\ request'[u] = request[u] /\ untried'[u] = untried[u]
               \/ untried'[u] = Candidates(pinned'[request'[u]])
    <3>1. CASE Refusal(pin, validMessages, validRunId) # "none"
      BY <1>1, <2>4, <3>1 DEF Receive, Answer, Typed, TypeOK
    <3>2. CASE Refusal(pin, validMessages, validRunId) = "none"
      <4>1. received + 1 \in Requests
        BY <1>1, <2>2, BoundsAssumption DEF Receive, Requests
      <4> QED BY <1>1, <2>1, <2>4, <3>2, <4>1 DEF Receive, Typed, TypeOK
    <3> QED BY <3>1, <3>2
  <2> QED BY <2>1, <2>3, <2>4, OrderKept
<1>2. ASSUME NEW t \in Threads, Malformed(t)
      PROVE  Ordered'
  <2>1. /\ pc[t] = "call" /\ UNCHANGED <<local_only, pinned, failed>>
        /\ posted' = posted \cup {<<request[t], First(untried[t])>>}
    BY <1>2 DEF Malformed
  <2>2. NoSilentSubstitution'
    BY <2>1, CallInOrder
  <2>3. \A u \in Threads : pc'[u] = "call" =>
          pc[u] = "call" /\ request'[u] = request[u] /\ untried'[u] = untried[u]
    BY <1>2 DEF Malformed, Answer, Typed, TypeOK
  <2>4. OrderInv'
    BY <2>1, <2>3 DEF Ordered, OrderInv, Candidates, Eligible
  <2> QED BY <2>2, <2>4 DEF Ordered
<1>3. ASSUME NEW t \in Threads, Persist(t) \/ PersistError(t)
      PROVE  Ordered'
  <2>1. UNCHANGED <<local_only, posted, failed, pinned>>
    BY <1>3 DEF Persist, PersistError
  <2>2. \A u \in Threads : pc'[u] = "call" =>
          pc[u] = "call" /\ request'[u] = request[u] /\ untried'[u] = untried[u]
    BY <1>3 DEF Persist, PersistError, Answer, Typed, TypeOK
  <2> QED BY <2>1, <2>2, OrderKept
<1>4. CASE Midnight \/ UNCHANGED vars
  <2>1. UNCHANGED <<local_only, posted, failed, pinned, pc, request, untried>>
    BY <1>4 DEF Midnight, vars, threadState, history
  <2> QED BY <2>1, OrderKept
<1>5. CASE Crash
  <2>1. UNCHANGED <<local_only, posted, failed, pinned>> /\ \A u \in Threads : pc'[u] = "idle"
    BY <1>5 DEF Crash
  <2> QED BY <2>1, OrderKept
<1> QED BY <1>1, <1>2, <1>3, <1>4, <1>5, Steps, CompleteCalls, FailCalls, CalledOrdered

\* No silent substitution, for any providers, requests and failures: a pinned
\* request calls no other provider, an unpinned one only after every better one
\* has failed it, and local_only keeps both local (ProviderRouter.complete).
THEOREM CallsInOrder == Spec => []NoSilentSubstitution
<1>1. Init => Ordered
  BY DEF Init, Ordered, OrderInv, NoSilentSubstitution
<1>2. Typed /\ Ordered /\ [Next]_vars => Ordered'
  BY OrderStep
<1>3. Ordered => NoSilentSubstitution
  BY DEF Ordered
<1> QED BY <1>1, <1>2, <1>3, TypedAlways, PTL DEF Spec

-----------------------------------------------------------------------------
(* The ledger's records                                                    *)

RecordLines == {i \in 1..Len(ledger) : ~Unreadable(ledger[i])}

\* A step adds no record, or one.
RecordsKept ==
  /\ RecordLines' = RecordLines
  /\ \A i \in RecordLines : ledger'[i] = ledger[i]

RecordAdded(record) ==
  /\ Len(ledger) + 1 \notin RecordLines
  /\ RecordLines' = RecordLines \cup {Len(ledger) + 1}
  /\ ledger'[Len(ledger) + 1] = record
  /\ \A i \in RecordLines : ledger'[i] = ledger[i]

\* A record is a record, and neither torn nor garbled.
LEMMA RecordsReadable ==
  ASSUME Typed
  PROVE  /\ \A record \in Records : ~Unreadable(record)
         /\ \A i \in RecordLines : ledger[i] \in Records
         /\ IsFiniteSet(RecordLines) /\ Len(ledger) \in Nat
<1>1. ledger \in Seq(Lines)
  BY DEF Typed, TypeOK, Lines
<1>2. Len(ledger) \in Nat /\ \A i \in 1..Len(ledger) : ledger[i] \in Lines
  BY <1>1, ElementOfSeq, LenProperties
<1>3. \A record \in Records : ~Unreadable(record)
  BY LinesAssumption DEF Unreadable
<1>4. IsFiniteSet(1..Len(ledger))
  BY <1>2, FS_Interval
<1>5. IsFiniteSet(RecordLines)
  BY <1>4, FS_Subset DEF RecordLines
<1> QED BY <1>2, <1>3, <1>5 DEF RecordLines, Lines, Unreadable

\* A failed write adds no record.
LEMMA TornKeeps ==
  ASSUME Typed, TornWrite
  PROVE  RecordsKept
<1>1. ledger \in Seq(Lines)
  BY DEF Typed, TypeOK, Lines
<1>2. /\ ledger' \in Seq(Lines)
      /\ \A i \in 1..Len(ledger) : ledger'[i] = ledger[i]
      /\ Len(ledger') >= Len(ledger)
      /\ \A i \in 1..Len(ledger') : i <= Len(ledger) \/ Unreadable(ledger'[i])
  BY <1>1, TornLines
<1>3. Len(ledger) \in Nat /\ Len(ledger') \in Nat
  BY <1>1, <1>2, LenProperties
<1> QED BY <1>2, <1>3 DEF RecordsKept, RecordLines

\* _persist_new_receipts adds the record, unless the line before it is torn.
LEMMA PersistAdds ==
  ASSUME Typed, NEW t \in Threads, Persist(t)
  PROVE  LET record == [receipt |-> receipts[t][1], day |-> day]
         IN /\ record \in Records
            /\ RecordsKept \/ RecordAdded(record)
            /\ Readable => RecordAdded(record) /\ Readable'
<1> DEFINE record == [receipt |-> receipts[t][1], day |-> day]
           written == Written(ledger, record)
<1>1. record \in Records /\ ledger' = written
  BY NextRecord DEF Persist
<1>2. ledger \in Seq(Lines) /\ record \in Records /\ ~Unreadable(record)
  BY <1>1, RecordsReadable DEF Typed, TypeOK, Lines
<1>3. /\ written \in Seq(Lines)
      /\ Len(written) >= Len(ledger)
      /\ \A i \in 1..Len(ledger) :
           \/ written[i] = ledger[i]
           \/ Unreadable(ledger[i]) /\ Unreadable(written[i])
      /\ \/ Len(written) = Len(ledger) /\ \E i \in 1..Len(ledger) : Unreadable(ledger[i])
         \/ /\ Len(written) = Len(ledger) + 1
            /\ written[Len(ledger) + 1] = record
            /\ \A i \in 1..Len(ledger) : written[i] = ledger[i]
  <2> HIDE DEF record
  <2> QED BY <1>2, WrittenLines
<1>4. Len(ledger) \in Nat /\ Len(written) \in Nat
  BY <1>2, <1>3, LenProperties
<1> HIDE DEF written, record
<1>5. CASE Len(written) = Len(ledger)
  <2>1. RecordsKept
    BY <1>1, <1>3, <1>4, <1>5 DEF RecordsKept, RecordLines
  <2>2. ~Readable
    BY <1>3, <1>4, <1>5 DEF Readable
  <2> QED BY <1>1, <2>1, <2>2 DEF record
<1>6. CASE Len(written) = Len(ledger) + 1
  <2>1. RecordAdded(record)
    BY <1>1, <1>2, <1>3, <1>4, <1>6 DEF RecordAdded, RecordLines
  <2>2. Readable => Readable'
    BY <1>1, <1>2, <1>3, <1>4, <1>6 DEF Readable
  <2> QED BY <1>1, <2>1, <2>2 DEF record
<1> QED BY <1>3, <1>5, <1>6

\* What was recorded stays so, and what is more is the record added.
LEMMA RecordedKept ==
  ASSUME RecordsKept, NEW r, NEW p
  PROVE  Recorded(r, p)' <=> Recorded(r, p)
BY DEF RecordsKept, RecordLines, Recorded

\* With a new record one more call is recorded.
LEMMA RecordedAdded ==
  ASSUME NEW record, RecordAdded(record), NEW r, NEW p
  PROVE  Recorded(r, p)' <=>
           Recorded(r, p) \/ (record.receipt.request = r /\ record.receipt.provider = p)
BY DEF RecordAdded, RecordLines, Recorded

-----------------------------------------------------------------------------
(* Receipts and records                                                    *)

Sound == ReceiptInv /\ RecordedOnce

\* A thread goes on with what it has, is done with it, or begins with the candidates
\* of a new request.
ThreadKept(t) ==
  \/ UNCHANGED <<receipts[t], untried[t], request[t]>>
  \/ receipts'[t] = <<>> /\ untried'[t] = {}
  \/ receipts'[t] = <<>> /\ untried'[t] \subseteq Eligible /\ request'[t] = received + 1 /\ received' = received + 1

\* Where no thread has a receipt more and no record is added, all stays sound.
LEMMA SoundKept ==
  ASSUME Typed, Sound, RecordsKept, UNCHANGED local_only,
         posted \subseteq posted', received' \in {received, received + 1},
         \A t \in Threads : ThreadKept(t)
  PROVE  Sound'
<1>1. received \in Nat
  BY BoundsAssumption DEF Typed, TypeOK
<1>2. \A i \in RecordLines : /\ ledger[i].receipt.request <= received
                             /\ ledger[i].receipt.request \in Nat
  BY RecordsReadable DEF Sound, ReceiptInv, RecordLines, Records, Receipts, Requests
<1>3. \A i \in 1..Len(ledger)' : ~Unreadable(ledger'[i]) => ledger'[i].receipt.request <= received'
  BY <1>1, <1>2 DEF RecordsKept, RecordLines
<1>4. ASSUME NEW t \in Threads, NEW i \in 1..Len(receipts'[t])
      PROVE  /\ receipts'[t][i].request = request'[t]
             /\ receipts'[t][i].error # "credential_missing" => <<request'[t], receipts'[t][i].provider>> \in posted'
             /\ receipts'[t][i].provider \notin untried'[t]
             /\ \A j \in 1..Len(receipts'[t]) : receipts'[t][j].provider = receipts'[t][i].provider => i = j
  <2>1. receipts'[t] # <<>>
    BY <1>4, EmptySeq
  <2>2. UNCHANGED <<receipts[t], untried[t], request[t]>>
    BY <2>1 DEF ThreadKept
  <2> QED BY <1>4, <2>2 DEF Sound, ReceiptInv
<1>5. ASSUME NEW t \in Threads, NEW p \in Providers, Owes(t, p)'
      PROVE  p \in Eligible' /\ ~Recorded(request[t], p)'
  <2>0. Eligible' = Eligible
    BY DEF Eligible
  <2>1. CASE UNCHANGED <<receipts[t], untried[t], request[t]>>
    <3>1. Owes(t, p)
      BY <1>5, <2>1 DEF Owes, Pending
    <3>2. p \in Eligible /\ ~Recorded(request[t], p)
      BY <3>1 DEF Sound, ReceiptInv
    <3> QED BY <2>0, <2>1, <3>2, RecordedKept
  <2>2. CASE receipts'[t] = <<>> /\ untried'[t] = {}
    BY <1>5, <2>2, EmptySeq DEF Owes, Pending
  <2>3. CASE receipts'[t] = <<>> /\ untried'[t] \subseteq Eligible /\ request'[t] = received + 1
    <3>1. p \in Eligible
      BY <1>5, <2>3, EmptySeq DEF Owes, Pending
    <3>2. \A i \in RecordLines : ledger[i].receipt.request # received + 1
      BY <1>1, <1>2
    <3>3. ~Recorded(received + 1, p)
      BY <3>2 DEF Recorded, RecordLines
    <3> QED BY <2>0, <2>3, <3>1, <3>3, RecordedKept
  <2> QED BY <2>1, <2>2, <2>3 DEF ThreadKept
<1>6. RecordedOnce'
  BY DEF Sound, RecordedOnce, RecordsKept, RecordLines
<1>7. ReceiptInv'
  BY <1>3, <1>4, <1>5 DEF ReceiptInv
<1> QED BY <1>6, <1>7 DEF Sound

\* What one thread has, for its request and the ledger, is in order.
SoundThread(t) ==
  /\ \A i \in 1..Len(receipts[t]) :
       /\ receipts[t][i].request = request[t]
       /\ receipts[t][i].error # "credential_missing" => <<request[t], receipts[t][i].provider>> \in posted
       /\ receipts[t][i].provider \notin untried[t]
       /\ \A j \in 1..Len(receipts[t]) : receipts[t][j].provider = receipts[t][i].provider => i = j
  /\ \A p \in Providers : Owes(t, p) => p \in Eligible /\ ~Recorded(request[t], p)

\* Soundness, thread by thread.
LEMMA SoundThreads ==
  Sound <=> /\ RecordedOnce
            /\ \A i \in 1..Len(ledger) : ~Unreadable(ledger[i]) => ledger[i].receipt.request <= received
            /\ \A t \in Threads : SoundThread(t)
BY DEF Sound, ReceiptInv, SoundThread

\* The candidate that was called is owed as a receipt.
LEMMA CalledOwes ==
  ASSUME Typed, NEW t \in Threads, NEW p, NEW receipt, Called(t, p, receipt)
  PROVE  \A u \in Threads : \A q : Owes(u, q)' => Owes(u, q)
<1> DEFINE n == Len(receipts[t])
<1>1. /\ receipts[t] \in Seq(Receipts) /\ n \in Nat /\ receipt \in Receipts
      /\ p \in untried[t] /\ receipt.provider = p
  BY LenProperties DEF Called, Typed, TypeOK
<1>2. /\ receipts'[t] = Append(receipts[t], receipt)
      /\ \A u \in Threads \ {t} : receipts'[u] = receipts[u] /\ untried'[u] = untried[u]
      /\ untried'[t] \subseteq untried[t] \ {p}
  BY DEF Called, Finish, Typed, TypeOK
<1>3. /\ Len(receipts'[t]) = n + 1 /\ receipts'[t][n + 1] = receipt
      /\ \A i \in 1..n : receipts'[t][i] = receipts[t][i]
  BY <1>1, <1>2, AppendProperties
<1>4. ASSUME NEW q, Owes(t, q)'
      PROVE  Owes(t, q)
  <2>1. \A i \in 1..(n + 1) : i \in 1..n \/ i = n + 1
    BY <1>1
  <2>2. CASE q \in untried'[t]
    BY <1>2, <2>2 DEF Owes
  <2>3. ASSUME NEW i \in 1..(n + 1), receipts'[t][i].provider = q
        PROVE  Owes(t, q)
    <3>1. CASE i = n + 1
      BY <1>1, <1>3, <2>3, <3>1 DEF Owes
    <3>2. CASE i \in 1..n
      BY <1>3, <2>3, <3>2 DEF Owes, Pending
    <3> QED BY <2>1, <3>1, <3>2
  <2> QED BY <1>3, <1>4, <2>2, <2>3 DEF Owes, Pending
<1>5. \A u \in Threads \ {t} : \A q : Owes(u, q)' => Owes(u, q)
  BY <1>2 DEF Owes, Pending
<1> QED BY <1>4, <1>5

\* The receipt of a call is kept behind those of the calls before.
LEMMA SoundCalled ==
  ASSUME Typed, Sound, NEW t \in Threads, NEW p, NEW receipt, Called(t, p, receipt)
  PROVE  Sound'
<1> DEFINE n == Len(receipts[t])
<1>1. /\ receipts[t] \in Seq(Receipts) /\ n \in Nat /\ receipt \in Receipts
      /\ p \in untried[t] /\ p \in Providers
      /\ receipt.request = request[t] /\ receipt.provider = p
      /\ UNCHANGED <<local_only, ledger, request, received>>
  BY LenProperties DEF Called, Typed, TypeOK
<1>2. /\ receipts'[t] = Append(receipts[t], receipt)
      /\ \A u \in Threads \ {t} : receipts'[u] = receipts[u] /\ untried'[u] = untried[u]
      /\ untried'[t] \subseteq untried[t] \ {p}
  BY DEF Called, Finish, Typed, TypeOK
<1>3. /\ Len(receipts'[t]) = n + 1 /\ receipts'[t][n + 1] = receipt
      /\ \A i \in 1..n : receipts'[t][i] = receipts[t][i]
  BY <1>1, <1>2, AppendProperties
<1>4. /\ posted \subseteq posted' /\ Eligible' = Eligible
      /\ receipt.error # "credential_missing" => <<request[t], p>> \in posted'
  BY DEF Called, Eligible
<1>5. \A r, q : Recorded(r, q)' <=> Recorded(r, q)
  BY <1>1 DEF Recorded
<1>6. RecordedOnce' /\ \A i \in 1..Len(ledger)' : ~Unreadable(ledger'[i]) => ledger'[i].receipt.request <= received'
  BY <1>1, <1>4 DEF Sound, RecordedOnce, ReceiptInv
<1>7. ASSUME NEW u \in Threads \ {t}
      PROVE  SoundThread(u)'
  BY <1>1, <1>2, <1>4, <1>5, SoundThreads, SMTT(30) DEF SoundThread, Owes, Pending
<1>8. SoundThread(t)'
  <2>1. \A i \in 1..n : receipts[t][i].provider # p
    BY <1>1 DEF Sound, ReceiptInv
  <2>2. \A i \in 1..(n + 1) : i \in 1..n \/ i = n + 1
    BY <1>1
  <2>3. \A i \in 1..n : i \in 1..(n + 1)
    BY <1>1
  <2>4. \A i \in 1..n :
          /\ receipts[t][i].request = request[t]
          /\ receipts[t][i].error # "credential_missing" => <<request[t], receipts[t][i].provider>> \in posted
          /\ receipts[t][i].provider \notin untried[t]
          /\ \A j \in 1..n : receipts[t][j].provider = receipts[t][i].provider => i = j
    BY DEF Sound, ReceiptInv
  <2> HIDE DEF n
  <2>5. ASSUME NEW i \in 1..(n + 1)
        PROVE  /\ receipts'[t][i].request = request'[t]
               /\ receipts'[t][i].error # "credential_missing" => <<request'[t], receipts'[t][i].provider>> \in posted'
               /\ receipts'[t][i].provider \notin untried'[t]
    <3>1. CASE i = n + 1
      BY <1>1, <1>2, <1>3, <1>4, <3>1
    <3>2. CASE i \in 1..n
      BY <1>1, <1>2, <1>3, <1>4, <2>4, <3>2
    <3> QED BY <2>2, <3>1, <3>2
  <2>6. ASSUME NEW i \in 1..(n + 1), NEW j \in 1..(n + 1),
               receipts'[t][j].provider = receipts'[t][i].provider
        PROVE  i = j
    <3>1. CASE i \in 1..n /\ j \in 1..n
      BY <1>3, <2>4, <2>6, <3>1
    <3>2. CASE i = n + 1 \/ j = n + 1
      BY <1>1, <1>3, <2>1, <2>2, <2>6, <3>2
    <3> QED BY <2>2, <3>1, <3>2
  <2>7. \A q \in Providers : Owes(t, q)' => Owes(t, q)
    BY CalledOwes
  <2>8. \A q \in Providers : Owes(t, q) => q \in Eligible /\ ~Recorded(request[t], q)
    BY DEF Sound, ReceiptInv
  <2> QED BY <1>1, <1>3, <1>4, <1>5, <2>5, <2>6, <2>7, <2>8 DEF SoundThread
<1> QED BY <1>6, <1>7, <1>8 DEF Sound, ReceiptInv, SoundThread

\* After Persist a thread has what it had but its first receipt.
LEMMA PersistDrops ==
  ASSUME Typed, NEW t \in Threads, Persist(t)
  PROVE  /\ UNCHANGED <<local_only, day, received, pinned, posted, failed, faults>>
         /\ \A u \in Threads \ {t} :
              UNCHANGED <<pc[u], request[u], untried[u], receipts[u], status[u]>>
         /\ untried'[t] = {}
         /\ \/ /\ Len(receipts[t]) = 1
               /\ receipts'[t] = <<>> /\ answer'[request[t]] = status[t]
               /\ \A r \in Requests \ {request[t]} : answer'[r] = answer[r]
            \/ /\ UNCHANGED <<request, answer>>
               /\ Len(receipts'[t]) = Len(receipts[t]) - 1
               /\ \A i \in 1..Len(receipts'[t]) :
                    i + 1 \in 1..Len(receipts[t]) /\ receipts'[t][i] = receipts[t][i + 1]
<1>1. /\ pc[t] = "persist" /\ request[t] \in Requests /\ status[t] \in Upstream /\ untried[t] = {}
      /\ UNCHANGED <<local_only, day, received, pinned, posted, failed, faults>>
      /\ Len(receipts[t]) \in Nat \ {0}
      /\ receipts[t] \in Seq(Receipts) /\ receipts[t] # <<>>
  BY Serving, NextRecord DEF Persist, Typed, TypeOK, ThreadInv
<1>2. CASE Len(receipts[t]) = 1
  <2>1. Answer(t, request[t], status[t]) /\ status[t] \in Answers
    BY <1>1, <1>2 DEF Persist, Answers, Upstream
  <2>2. Answered(t, request[t], status[t])
    BY <1>1, <2>1, AnswerEffect
  <2> QED BY <1>1, <1>2, <2>2 DEF Answered
<1>3. CASE Len(receipts[t]) # 1
  <2>1. /\ receipts' = [receipts EXCEPT ![t] = Tail(@)]
        /\ UNCHANGED <<pc, request, untried, status, answer>>
    BY <1>3 DEF Persist
  <2>2. receipts'[t] = Tail(receipts[t]) /\ \A u \in Threads \ {t} : receipts'[u] = receipts[u]
    BY <2>1 DEF Typed, TypeOK
  <2>3. /\ Len(Tail(receipts[t])) = Len(receipts[t]) - 1
        /\ \A i \in 1..Len(Tail(receipts[t])) : Tail(receipts[t])[i] = receipts[t][i + 1]
    BY <1>1, HeadTailProperties
  <2>4. \A i \in 1..(Len(receipts[t]) - 1) : i + 1 \in 1..Len(receipts[t])
    BY <1>1
  <2> QED BY <1>1, <2>1, <2>2, <2>3, <2>4
<1> QED BY <1>2, <1>3

\* What a thread owes after Persist it owed before, and it is not the receipt
\* that was persisted.
LEMMA PersistOwes ==
  ASSUME Typed, Sound, NEW t \in Threads, Persist(t)
  PROVE  /\ Owes(t, receipts[t][1].provider)
         /\ receipts[t][1].provider \in Providers
         /\ \A p : Owes(t, p)' => Owes(t, p) /\ p # receipts[t][1].provider
<1> DEFINE n == Len(receipts[t])
<1>1. n \in Nat \ {0} /\ receipts[t] \in Seq(Receipts)
  BY NextRecord DEF Persist, Typed, TypeOK
<1>2. 1 \in 1..n /\ \A i \in 1..n : receipts[t][i] \in Receipts
  BY <1>1, ElementOfSeq
<1>3. \A i, j \in 1..n : receipts[t][j].provider = receipts[t][i].provider => i = j
  BY DEF Sound, ReceiptInv
<1>4. ASSUME NEW p, Owes(t, p)'
      PROVE  Owes(t, p) /\ p # receipts[t][1].provider
  <2>1. PICK i \in 1..Len(receipts'[t]) : receipts'[t][i].provider = p
    BY <1>4, PersistDrops DEF Owes, Pending
  <2>2. receipts'[t] # <<>>
    BY <2>1, EmptySeq
  <2>3. i + 1 \in 1..n /\ receipts[t][i + 1].provider = p /\ i \in Nat \ {0}
    BY <2>1, <2>2, PersistDrops
  <2>4. p # receipts[t][1].provider
    BY <1>2, <1>3, <2>3
  <2> QED BY <2>3, <2>4 DEF Owes, Pending
<1>5. Owes(t, receipts[t][1].provider) /\ receipts[t][1].provider \in Providers
  BY <1>2 DEF Owes, Pending, Receipts
<1> QED BY <1>4, <1>5

\* A receipt that becomes a record is pending no more.
LEMMA SoundPersist ==
  ASSUME Typed, Sound, NEW t \in Threads, Persist(t)
  PROVE  Sound'
<1> DEFINE record == [receipt |-> receipts[t][1], day |-> day]
           q == receipts[t][1].provider
<1>1. /\ record \in Records
      /\ RecordsKept \/ RecordAdded(record)
      /\ UNCHANGED <<local_only, received, posted>>
      /\ \A u \in Threads \ {t} : UNCHANGED <<request[u], untried[u], receipts[u]>>
  BY PersistAdds, PersistDrops
<1>2. /\ Owes(t, q) /\ q \in Providers
      /\ \A p : Owes(t, p)' => Owes(t, p) /\ p # q
  BY PersistOwes
<1>3. /\ request[t] \in Requests /\ request[t] <= received /\ request[t] # 0
      /\ Len(receipts[t]) \in Nat \ {0}
      /\ \A u \in Threads \ {t} : request[u] # request[t]
  BY Serving, NextRecord DEF Persist, Typed, ThreadInv
<1>4. /\ record.receipt.request = request[t] /\ record.receipt.provider = q
      /\ record.receipt.error # "credential_missing" => <<request[t], q>> \in posted
  BY <1>3 DEF Sound, ReceiptInv
<1>5. ~Recorded(request[t], q)
  BY <1>2 DEF Sound, ReceiptInv
<1>6. ~Unreadable(record) /\ \A i \in RecordLines : ledger[i] \in Records
  BY <1>1, RecordsReadable
<1> HIDE DEF record, q
<1>7. RecordedOnce' /\ \A i \in 1..Len(ledger)' : ~Unreadable(ledger'[i]) => ledger'[i].receipt.request <= received'
  <2>1. \A i \in RecordLines :
          /\ ledger[i].receipt.request <= received
          /\ ledger[i].receipt.error # "credential_missing" =>
               <<ledger[i].receipt.request, ledger[i].receipt.provider>> \in posted
          /\ ledger[i].receipt.request # request[t] \/ ledger[i].receipt.provider # q
    BY <1>5 DEF RecordLines, Sound, ReceiptInv, RecordedOnce, Recorded
  <2>2. \A i, j \in RecordLines : i # j =>
          \/ ledger[j].receipt.request # ledger[i].receipt.request
          \/ ledger[j].receipt.provider # ledger[i].receipt.provider
    BY DEF RecordLines, Sound, RecordedOnce
  <2>3. CASE RecordsKept
    <3>1. \A i \in RecordLines' : i \in RecordLines /\ ledger'[i] = ledger[i]
      BY <2>3 DEF RecordsKept
    <3>2. \A i \in RecordLines' : /\ ledger'[i].receipt.request <= received
                                  /\ ledger'[i].receipt.error # "credential_missing" =>
                                       <<ledger'[i].receipt.request, ledger'[i].receipt.provider>> \in posted
      BY <2>1, <3>1
    <3>3. \A i, j \in RecordLines' : i # j =>
            \/ ledger'[j].receipt.request # ledger'[i].receipt.request
            \/ ledger'[j].receipt.provider # ledger'[i].receipt.provider
      BY <2>2, <3>1
    <3> QED BY <1>1, <3>2, <3>3 DEF RecordLines, RecordedOnce
  <2>4. CASE RecordAdded(record)
    <3>1. \A i \in RecordLines' : i \in RecordLines \/ ledger'[i] = record
      BY <2>4 DEF RecordAdded
    <3>2. \A i \in RecordLines : ledger'[i] = ledger[i]
      BY <2>4 DEF RecordAdded
    <3>3. \A i \in RecordLines' : /\ ledger'[i].receipt.request <= received
                                  /\ ledger'[i].receipt.error # "credential_missing" =>
                                       <<ledger'[i].receipt.request, ledger'[i].receipt.provider>> \in posted
      BY <1>3, <1>4, <2>1, <3>1, <3>2
    <3>4. \A i, j \in RecordLines' : i # j =>
            \/ ledger'[j].receipt.request # ledger'[i].receipt.request
            \/ ledger'[j].receipt.provider # ledger'[i].receipt.provider
      <4> SUFFICES ASSUME NEW i \in RecordLines', NEW j \in RecordLines', i # j
                   PROVE  \/ ledger'[j].receipt.request # ledger'[i].receipt.request
                          \/ ledger'[j].receipt.provider # ledger'[i].receipt.provider
        OBVIOUS
      <4>1. CASE i \in RecordLines /\ j \in RecordLines
        BY <2>2, <3>2, <4>1
      <4>2. CASE i \in RecordLines /\ j \notin RecordLines
        BY <1>4, <2>1, <3>1, <3>2, <4>2
      <4>3. CASE i \notin RecordLines /\ j \in RecordLines
        BY <1>4, <2>1, <3>1, <3>2, <4>3
      <4>4. CASE i \notin RecordLines /\ j \notin RecordLines
        BY <2>4, <4>4 DEF RecordAdded
      <4> QED BY <4>1, <4>2, <4>3, <4>4
    <3> QED BY <1>1, <3>3, <3>4 DEF RecordLines, RecordedOnce
  <2> QED BY <1>1, <2>3, <2>4
<1>8. ASSUME NEW u \in Threads \ {t}
      PROVE  SoundThread(u)'
  <2>1. SoundThread(u)
    BY SoundThreads
  <2>2. \A i \in 1..Len(receipts'[u]) :
           /\ receipts'[u][i].request = request'[u]
           /\ receipts'[u][i].error # "credential_missing" => <<request'[u], receipts'[u][i].provider>> \in posted'
           /\ receipts'[u][i].provider \notin untried'[u]
           /\ \A j \in 1..Len(receipts'[u]) : receipts'[u][j].provider = receipts'[u][i].provider => i = j
    BY <1>1, <2>1 DEF SoundThread
  <2>3. \A p : Owes(u, p)' <=> Owes(u, p)
    BY <1>1 DEF Owes, Pending
  <2>4. \A p : Recorded(request[u], p)' <=> Recorded(request[u], p)
    BY <1>1, <1>3, <1>4, RecordedKept, RecordedAdded
  <2> QED BY <1>1, <2>1, <2>2, <2>3, <2>4 DEF SoundThread, Eligible
<1>9. SoundThread(t)'
  <2>1. SoundThread(t)
    BY SoundThreads
  <2>2. CASE receipts'[t] = <<>>
    <3>1. \A p : ~Owes(t, p)'
      BY <2>2, PersistDrops, EmptySeq DEF Owes, Pending
    <3> QED BY <2>2, <3>1, EmptySeq DEF SoundThread
  <2>3. CASE /\ UNCHANGED <<request, answer>>
             /\ Len(receipts'[t]) = Len(receipts[t]) - 1
             /\ \A i \in 1..Len(receipts'[t]) :
                  i + 1 \in 1..Len(receipts[t]) /\ receipts'[t][i] = receipts[t][i + 1]
    <3>1. ASSUME NEW i \in 1..Len(receipts'[t])
          PROVE  /\ receipts'[t][i].request = request'[t]
                 /\ receipts'[t][i].error # "credential_missing" => <<request'[t], receipts'[t][i].provider>> \in posted'
                 /\ receipts'[t][i].provider \notin untried'[t]
                 /\ \A j \in 1..Len(receipts'[t]) : receipts'[t][j].provider = receipts'[t][i].provider => i = j
      <4>1. \A j \in 1..Len(receipts'[t]) : j + 1 = i + 1 => i = j
        BY <1>3, <2>3
      <4>2. untried'[t] = {}
        BY PersistDrops
      <4> QED BY <1>1, <2>1, <2>3, <4>1, <4>2, SMTT(30) DEF SoundThread
    <3>2. ASSUME NEW p \in Providers, Owes(t, p)'
          PROVE  p \in Eligible' /\ ~Recorded(request[t], p)'
      <4>1. p \in Eligible /\ ~Recorded(request[t], p) /\ p # q
        BY <1>2, <2>1, <3>2 DEF SoundThread
      <4>2. ~Recorded(request[t], p)'
        <5>1. CASE RecordsKept
          BY <2>3, <4>1, <5>1, RecordedKept
        <5>2. CASE RecordAdded(record)
          <6>1. Recorded(request[t], p)' <=>
                  Recorded(request[t], p) \/ (record.receipt.request = request[t] /\ record.receipt.provider = p)
            BY <2>3, <5>2, RecordedAdded
          <6> QED BY <1>4, <4>1, <6>1
        <5> QED BY <1>1, <5>1, <5>2
      <4> QED BY <1>1, <4>1, <4>2 DEF Eligible
    <3> QED BY <3>1, <3>2 DEF SoundThread
  <2> QED BY <2>2, <2>3, PersistDrops
<1> QED BY <1>7, <1>8, <1>9 DEF Sound, ReceiptInv, SoundThread

\* A response leaves the thread that sends it, and the others, with nothing more.
LEMMA AnswerKeeps ==
  ASSUME Typed, NEW t \in Threads, NEW r \in Requests, NEW result \in Answers, Answer(t, r, result)
  PROVE  \A u \in Threads : ThreadKept(u)
<1>1. Answered(t, r, result)
  BY AnswerEffect
<1> QED BY <1>1 DEF Answered, ThreadKept

\* What a new request changes.
LEMMA ReceiveKeeps ==
  ASSUME Typed, NEW t \in Threads, NEW pin, NEW validMessages, NEW validRunId,
         Receive(t, pin, validMessages, validRunId)
  PROVE  /\ \A u \in Threads : ThreadKept(u)
         /\ received' = received + 1 /\ received + 1 \in Requests
         /\ UNCHANGED <<local_only, ledger, day, posted, failed, faults>>
         /\ \A r \in Requests : r <= received => answer'[r] = answer[r]
         /\ \/ \A u \in Threads : untried'[u] \subseteq untried[u] /\ receipts'[u] \in {receipts[u], <<>>}
            \/ ~Exhausted
         /\ \A u \in Threads : receipts'[u] = receipts[u] /\ (request[u] # 0 => request'[u] = request[u])
<1> DEFINE r == received + 1
           refusal == Refusal(pin, validMessages, validRunId)
<1>1. /\ received \in Nat /\ r \in Requests /\ received' = r /\ pc[t] = "idle"
      /\ UNCHANGED <<local_only, ledger, day, posted, failed, faults>>
  BY BoundsAssumption DEF Typed, TypeOK, Receive, Requests
<1>2. receipts[t] = <<>> /\ request[t] = 0
  BY <1>1 DEF Typed, ThreadInv
<1>3. CASE refusal # "none"
  <2>1. Answer(t, r, refusal) /\ refusal \in Answers
    BY <1>3 DEF Receive, Refusal, Answers
  <2> HIDE DEF refusal
  <2>2. Answered(t, r, refusal)
    BY <1>1, <2>1, AnswerEffect
  <2>3. \A q \in Requests : q <= received => q # r
    BY <1>1 DEF Requests
  <2>4. \A u \in Threads : ThreadKept(u)
    BY <2>2 DEF Answered, ThreadKept
  <2>5. \A u \in Threads : untried'[u] \subseteq untried[u] /\ receipts'[u] \in {receipts[u], <<>>}
    BY <2>2 DEF Answered
  <2> QED BY <1>1, <1>2, <2>2, <2>3, <2>4, <2>5 DEF Answered
<1>4. CASE refusal = "none"
  <2>1. /\ request' = [request EXCEPT ![t] = r]
        /\ untried' = [untried EXCEPT ![t] = Candidates(pin)]
        /\ UNCHANGED <<receipts, status, answer>>
    BY <1>4 DEF Receive
  <2>2. ~Exhausted
    BY <1>4 DEF Refusal
  <2>3. Candidates(pin) \subseteq Eligible
    BY DEF Candidates
  <2>4. \A u \in Threads : ThreadKept(u)
    BY <1>1, <1>2, <2>1, <2>3 DEF ThreadKept, Typed, TypeOK
  <2> QED BY <1>1, <1>2, <2>1, <2>2, <2>4 DEF Typed, TypeOK
<1> QED BY <1>3, <1>4

\* Steps that end a thread's request, or all, add no record.
LEMMA FailureKeeps ==
  ASSUME Typed, NEW t \in Threads, Malformed(t) \/ PersistError(t) \/ Crash
  PROVE  /\ \A u \in Threads : ThreadKept(u)
         /\ RecordsKept
         /\ UNCHANGED <<local_only, day, received>> /\ posted \subseteq posted'
<1>1. CASE Malformed(t)
  <2>1. request[t] \in Requests /\ "dropped" \in Answers
    BY <1>1, Serving DEF Malformed, Answers
  <2> QED BY <1>1, <2>1, AnswerKeeps DEF Malformed, RecordsKept, RecordLines
<1>2. CASE PersistError(t)
  <2>1. request[t] \in Requests /\ "dropped" \in Answers
    BY <1>2, Serving DEF PersistError, Answers
  <2> QED BY <1>2, <2>1, AnswerKeeps, TornKeeps DEF PersistError
<1>3. CASE Crash
  <2>1. RecordsKept
    BY <1>3, TornKeeps DEF Crash, RecordsKept, RecordLines
  <2> QED BY <1>3, <2>1 DEF Crash, ThreadKept
<1> QED BY <1>1, <1>2, <1>3

\* Every step keeps receipts and records sound.
LEMMA SoundStep ==
  ASSUME Typed, Sound, [Next]_vars
  PROVE  Sound'
<1>1. ASSUME NEW t \in Threads, NEW pin, NEW validMessages, NEW validRunId,
             Receive(t, pin, validMessages, validRunId)
      PROVE  Sound'
  <2>1. RecordsKept
    BY <1>1, ReceiveKeeps DEF RecordsKept, RecordLines
  <2> QED BY <1>1, <2>1, ReceiveKeeps, SoundKept
<1>2. ASSUME NEW t \in Threads, Malformed(t) \/ PersistError(t) \/ Crash
      PROVE  Sound'
  BY <1>2, FailureKeeps, SoundKept
<1>3. CASE UNCHANGED vars \/ Midnight
  <2>1. /\ UNCHANGED <<local_only, ledger, posted, received, request, untried, receipts>>
        /\ RecordsKept /\ \A t \in Threads : ThreadKept(t)
    BY <1>3 DEF vars, threadState, history, Midnight, RecordsKept, RecordLines, ThreadKept
  <2> QED BY <2>1, SoundKept
<1>4. CASE Crash
  <2>1. CASE Threads = {}
    <3>1. RecordsKept /\ UNCHANGED <<local_only, posted, received>>
      BY <1>4, <2>1 DEF Crash, RecordsKept, RecordLines
    <3> QED BY <2>1, <3>1, SoundKept
  <2> QED BY <1>2, <1>4, <2>1
<1> QED BY <1>1, <1>2, <1>3, <1>4, Steps, CompleteCalls, FailCalls, SoundCalled, SoundPersist

\* The first state is sound.
LEMMA SoundInit ==
  ASSUME Init
  PROVE  Sound
<1>1. Len(ledger) = 0 /\ \A t \in Threads : Len(receipts[t]) = 0 /\ untried[t] = {}
  BY EmptySeq DEF Init
<1> QED BY <1>1 DEF Sound, ReceiptInv, RecordedOnce, Owes, Pending

\* Every state is sound.
LEMMA SoundAlways == Spec => []Sound
<1> QED BY SoundInit, SoundStep, TypedAlways, PTL DEF Spec

\* Every record is about a call its request made and no call is recorded twice,
\* for any number of threads, failures, torn writes and crashes
\* (_persist_new_receipts).
THEOREM CallsRecordedOnce == Spec => []RecordedOnce
<1>1. Sound => RecordedOnce
  BY DEF Sound
<1> QED BY <1>1, SoundAlways, PTL

-----------------------------------------------------------------------------
(* A request that is answered is recorded                                  *)

\* The call of provider p for request r has been seen to.
SeenTo(r, p) ==
  \/ Recorded(r, p)
  \/ answer[r] = "dropped"
  \/ \E t \in Threads : request[t] = r /\ Pending(t, p)

\* AccountedFor, call by call.
LEMMA SeenToAll ==
  AccountedFor <=> (faults = 0 => Readable /\ \A r \in Requests, p \in Providers : <<r, p>> \in posted => SeenTo(r, p))
BY DEF AccountedFor, SeenTo

\* What does not touch the ledger, and no other request, leaves the calls of the
\* others seen to.
LEMMA SeenToKept ==
  ASSUME NEW r, NEW p, SeenTo(r, p), UNCHANGED ledger, answer'[r] = answer[r],
         \A t \in Threads : request[t] = r => UNCHANGED <<request[t], receipts[t]>>
  PROVE  SeenTo(r, p)'
BY DEF SeenTo, Recorded, Pending

\* A new request leaves the calls of the others seen to.
LEMMA AccountedReceive ==
  ASSUME Typed, AccountedFor, NEW t \in Threads, NEW pin, NEW validMessages, NEW validRunId,
         Receive(t, pin, validMessages, validRunId)
  PROVE  AccountedFor'
<1>1. /\ UNCHANGED <<ledger, posted, faults>>
      /\ \A r \in Requests : r <= received => answer'[r] = answer[r]
      /\ \A u \in Threads : receipts'[u] = receipts[u] /\ (request[u] # 0 => request'[u] = request[u])
  BY ReceiveKeeps
<1>2. ASSUME faults = 0, NEW r \in Requests, NEW p \in Providers, <<r, p>> \in posted
      PROVE  SeenTo(r, p)'
  <2>1. r <= received /\ r # 0 /\ SeenTo(r, p)
    BY <1>2, SeenToAll DEF Typed, ThreadInv, Requests
  <2> QED BY <1>1, <2>1, SeenToKept
<1> QED BY <1>1, <1>2, SeenToAll DEF AccountedFor, SeenTo, Readable

\* The request of a malformed response is dropped.
LEMMA AccountedMalformed ==
  ASSUME Typed, AccountedFor, NEW t \in Threads, Malformed(t)
  PROVE  AccountedFor'
<1>1. /\ request[t] \in Requests /\ Answer(t, request[t], "dropped") /\ "dropped" \in Answers
      /\ UNCHANGED <<ledger, faults>> /\ \A call \in posted' : call \in posted \/ call[1] = request[t]
  BY Serving DEF Malformed, Answers
<1>2. Answered(t, request[t], "dropped")
  BY <1>1, AnswerEffect
<1>3. ASSUME faults = 0, NEW r \in Requests, NEW p \in Providers, <<r, p>> \in posted'
      PROVE  SeenTo(r, p)'
  <2>1. CASE r = request[t]
    BY <1>2, <2>1 DEF Answered, SeenTo
  <2>2. CASE r # request[t]
    <3>1. SeenTo(r, p)
      BY <1>1, <1>3, <2>2, SeenToAll
    <3>2. UNCHANGED ledger /\ answer'[r] = answer[r]
      BY <1>1, <1>2, <2>2 DEF Answered
    <3>3. \A u \in Threads : request[u] = r => UNCHANGED <<request[u], receipts[u]>>
      BY <1>2, <2>2 DEF Answered
    <3> QED BY <3>1, <3>2, <3>3, SeenToKept
  <2> QED BY <2>1, <2>2
<1> QED BY <1>1, <1>3, SeenToAll DEF AccountedFor, SeenTo, Readable

\* A call leaves a pending receipt.
LEMMA AccountedCalled ==
  ASSUME Typed, AccountedFor, NEW t \in Threads, NEW p, NEW receipt, Called(t, p, receipt)
  PROVE  AccountedFor'
<1> DEFINE n == Len(receipts[t])
<1>1. /\ receipts[t] \in Seq(Receipts) /\ n \in Nat /\ receipt \in Receipts /\ receipt.provider = p
      /\ UNCHANGED <<ledger, request, answer, faults>>
      /\ \A call \in posted' : call \in posted \/ call = <<request[t], p>>
  BY LenProperties DEF Called, Typed, TypeOK
<1>2. /\ receipts'[t] = Append(receipts[t], receipt)
      /\ \A u \in Threads \ {t} : receipts'[u] = receipts[u]
  BY DEF Called, Typed, TypeOK
<1>3. /\ Len(receipts'[t]) = n + 1 /\ receipts'[t][n + 1] = receipt
      /\ \A i \in 1..n : receipts'[t][i] = receipts[t][i]
  BY <1>1, <1>2, AppendProperties
<1>4. \A i \in 1..n : i \in 1..(n + 1)
  BY <1>1
<1>5. n + 1 \in 1..(n + 1)
  BY <1>1
<1>6. Pending(t, p)'
  BY <1>1, <1>3, <1>5 DEF Pending
<1>7. \A u \in Threads, q \in Providers : Pending(u, q) => Pending(u, q)'
  BY <1>2, <1>3, <1>4 DEF Pending
<1>8. ASSUME faults = 0, NEW r \in Requests, NEW q \in Providers, <<r, q>> \in posted'
      PROVE  SeenTo(r, q)'
  <2>1. CASE <<r, q>> = <<request[t], p>>
    BY <1>1, <1>6, <2>1 DEF SeenTo
  <2>2. CASE <<r, q>> \in posted
    <3>1. SeenTo(r, q)
      BY <1>8, <2>2, SeenToAll
    <3> QED BY <1>1, <1>7, <3>1 DEF SeenTo, Recorded
  <2> QED BY <1>1, <1>8, <2>1, <2>2
<1> QED BY <1>1, <1>8, SeenToAll DEF AccountedFor, SeenTo, Readable

\* The receipt that is no longer pending is recorded.
LEMMA AccountedPersist ==
  ASSUME Typed, AccountedFor, Sound, NEW t \in Threads, Persist(t)
  PROVE  AccountedFor'
<1> DEFINE record == [receipt |-> receipts[t][1], day |-> day]
<1> SUFFICES ASSUME faults = 0
             PROVE  Readable' /\ \A r \in Requests, p \in Providers : <<r, p>> \in posted => SeenTo(r, p)'
  BY PersistDrops DEF AccountedFor, SeenTo
<1>1. RecordAdded(record) /\ Readable'
  BY PersistAdds, SeenToAll
<1>a. /\ Len(receipts[t]) \in Nat \ {0} /\ request[t] \in Requests /\ request[t] # 0
      /\ \A u \in Threads \ {t} : request[u] # request[t]
  BY Serving, NextRecord DEF Persist, Typed, ThreadInv
<1>2. record.receipt.request = request[t]
  <2>1. 1 \in 1..Len(receipts[t])
    BY <1>a
  <2>2. receipts[t][1].request = request[t]
    BY <2>1 DEF Sound, ReceiptInv
  <2> QED BY <2>2
<1>3. \A r, p : r = request[t] /\ p = receipts[t][1].provider => Recorded(r, p)'
  <2> SUFFICES ASSUME NEW r, NEW p, r = request[t], p = receipts[t][1].provider
               PROVE  Recorded(r, p)'
    OBVIOUS
  <2>1. Recorded(r, p)' <=>
          Recorded(r, p) \/ (record.receipt.request = r /\ record.receipt.provider = p)
    BY <1>1, RecordedAdded
  <2> QED BY <1>2, <2>1
<1>4. \A r, p : Recorded(r, p) => Recorded(r, p)'
  BY <1>1, RecordedAdded
<1> HIDE DEF record
<1>5. ASSUME NEW r \in Requests, NEW p \in Providers, <<r, p>> \in posted
      PROVE  SeenTo(r, p)'
  <2>1. SeenTo(r, p)
    BY <1>5, SeenToAll
  <2>2. CASE Recorded(r, p)
    BY <1>4, <2>2 DEF SeenTo
  <2>3. CASE r # request[t] /\ ~Recorded(r, p)
    <3>1. answer'[r] = answer[r]
      BY <2>3, PersistDrops
    <3>2. \A u \in Threads : request[u] = r => UNCHANGED <<request[u], receipts[u]>>
      BY <2>3, PersistDrops
    <3> QED BY <2>1, <2>3, <3>1, <3>2 DEF SeenTo, Pending
  <2>4. CASE r = request[t] /\ ~Recorded(r, p)
    <3>1. Pending(t, p)
      BY <1>a, <2>1, <2>4 DEF SeenTo, Persist, Typed, ThreadInv
    <3>2. PICK i \in 1..Len(receipts[t]) : receipts[t][i].provider = p
      BY <3>1 DEF Pending
    <3>3. CASE i = 1
      BY <1>3, <2>4, <3>2, <3>3 DEF SeenTo
    <3>4. CASE i # 1
      <4> DEFINE n == Len(receipts[t])
      <4>a. n \in Nat /\ i \in 1..n
        BY <1>a
      <4>1. n # 1 /\ i - 1 \in 1..(n - 1) /\ (i - 1) + 1 = i
        <5> HIDE DEF n
        <5> QED BY <4>a, <3>4
      <4>2. /\ UNCHANGED request /\ Len(receipts'[t]) = n - 1
            /\ \A j \in 1..Len(receipts'[t]) : receipts'[t][j] = receipts[t][j + 1]
        BY <4>1, PersistDrops
      <4>3. Pending(t, p)'
        BY <3>2, <4>1, <4>2 DEF Pending
      <4> QED BY <2>4, <4>2, <4>3 DEF SeenTo
    <3> QED BY <3>3, <3>4
  <2> QED BY <2>2, <2>3, <2>4
<1> QED BY <1>1, <1>5

\* Every step leaves every call seen to.
LEMMA AccountedStep ==
  ASSUME Typed, Sound, AccountedFor, [Next]_vars
  PROVE  AccountedFor'
<1>1. ASSUME NEW t \in Threads, PersistError(t) \/ Crash
      PROVE  AccountedFor'
  <2>1. faults' # 0
    BY <1>1 DEF PersistError, Crash, Fault, Typed, TypeOK
  <2> QED BY <2>1 DEF AccountedFor
<1>2. CASE UNCHANGED vars \/ Midnight
  BY <1>2 DEF vars, threadState, history, Midnight, AccountedFor, Readable, Recorded, Pending
<1>3. CASE Crash
  <2>1. faults' # 0
    BY <1>3 DEF Crash, Fault, Typed, TypeOK
  <2> QED BY <2>1 DEF AccountedFor
<1> QED BY <1>1, <1>2, <1>3, Steps, AccountedReceive, CompleteCalls, FailCalls, AccountedCalled,
       AccountedMalformed, AccountedPersist

\* A request that got an upstream status left a record of every provider it called,
\* for any number of threads and requests, unless a crash or a write error damaged the
\* ledger (attempt_receipts, _persist_new_receipts).
THEOREM AnsweredRecorded == Spec => []AnsweredIsRecorded
<1>1. Init => AccountedFor
  <2> SUFFICES ASSUME Init
               PROVE  Readable /\ posted = {}
    BY DEF AccountedFor
  <2> QED BY EmptySeq DEF Init, Readable
<1>2. Typed /\ Sound /\ AccountedFor /\ [Next]_vars => AccountedFor'
  BY AccountedStep
<1>3. Typed /\ AccountedFor => AnsweredIsRecorded
  <2> SUFFICES ASSUME Typed, AccountedFor, faults = 0, NEW r \in Requests, NEW p \in Providers,
                      answer[r] \in {"200", "429", "502"}, <<r, p>> \in posted
               PROVE  Recorded(r, p)
    BY DEF AnsweredIsRecorded
  <2>1. \A t \in Threads : request[t] # r
    <3>1. r # 0
      BY DEF Requests
    <3> QED BY <3>1 DEF Typed, ThreadInv
  <2> QED BY <2>1 DEF AccountedFor
<1> QED BY <1>1, <1>2, <1>3, TypedAlways, SoundAlways, PTL DEF Spec

-----------------------------------------------------------------------------
(* The budget                                                              *)

TokensIn(date) == [i \in RecordsOf(date) |-> ledger[i].receipt.tokens]

\* The records of a day are among the record lines.
LEMMA RecordsOfDay ==
  ASSUME Typed, NEW date
  PROVE  /\ RecordsOf(date) = {i \in RecordLines : ledger[i].day = date}
         /\ IsFiniteSet(RecordsOf(date)) /\ Cardinality(RecordsOf(date)) \in Nat
         /\ TokensIn(date) \in [RecordsOf(date) -> Nat]
<1>1. RecordsOf(date) = {i \in RecordLines : ledger[i].day = date}
  BY DEF RecordsOf, RecordLines
<1>2. IsFiniteSet(RecordsOf(date)) /\ Cardinality(RecordsOf(date)) \in Nat
  <2>1. RecordsOf(date) \in SUBSET RecordLines
    BY <1>1
  <2>2. IsFiniteSet(RecordsOf(date))
    BY <2>1, RecordsReadable, FS_Subset
  <2> QED BY <2>2, FS_CardinalityType
<1>3. \A i \in RecordsOf(date) : ledger[i].receipt.tokens \in Nat
  <2>1. \A i \in RecordsOf(date) : ledger[i] \in Records
    BY <1>1, RecordsReadable
  <2>2. \A record \in Records : record.receipt.tokens \in Nat
    <3>1. TokenCounts \cup {0} \subseteq Nat
      BY PolicyAssumption
    <3>2. ASSUME NEW record \in Records
          PROVE  record.receipt.tokens \in TokenCounts \cup {0}
      <4>1. record.receipt \in Receipts
        BY DEF Records
      <4> QED BY <4>1 DEF Receipts
    <3> QED BY <3>1, <3>2
  <2> QED BY <2>1, <2>2
<1> QED BY <1>1, <1>2, <1>3 DEF TokensIn

DaysCounted ==
  Typed => \A date : /\ RecordsOf(date) = {i \in RecordLines : ledger[i].day = date}
                     /\ TokensIn(date) \in [RecordsOf(date) -> Nat]

\* RecordsOfDay as a fact about every state.
LEMMA DaysAreCounted == DaysCounted
BY RecordsOfDay DEF DaysCounted

\* The tokens of a day are the sum over its records.
LEMMA TokensAreSum ==
  ASSUME Typed, NEW date
  PROVE  TokensOf(date) = SumOf(TokensIn(date), RecordsOf(date))
<1> DEFINE S == RecordsOf(date)
           f == TokensIn(date)
           Solves(g) == g = [s \in SUBSET S |->
                               IF s = {} THEN 0
                               ELSE ledger[OneOf(s)].receipt.tokens + g[s \ {OneOf(s)}]]
           tokens == CHOOSE g : Solves(g)
<1>1. IsFiniteSet(S) /\ f \in [S -> Nat]
  BY RecordsOfDay
<1>2. TokensOf(date) = tokens[S]
  BY DEF TokensOf, MapThenSumSet, MapThenFoldSet, OneOf
<1>3. \A g : Solves(g) <=> Sums(g, f, S)
  <2>1. \A s \in SUBSET S : s # {} => f[OneOf(s)] = ledger[OneOf(s)].receipt.tokens
    BY OneOfElement DEF TokensIn
  <2> QED BY <2>1 DEF Sums, SumStep
<1> HIDE DEF f, S
<1>4. PICK a \in [SUBSET S -> Nat] : Sums(a, f, S) /\ SumOf(f, S) = a[S]
  BY <1>1, SumOfSums
<1>5. Solves(tokens)
  <2> HIDE DEF Solves
  <2> QED BY <1>3, <1>4
<1>6. Sums(tokens, f, S)
  BY <1>3, <1>5
<1> HIDE DEF tokens
<1>7. tokens[S] = a[S]
  BY <1>1, <1>4, <1>6, SumsAgree
<1> QED BY <1>2, <1>4, <1>7 DEF f, S

TokensSummed == Typed => \A date : TokensOf(date) = SumOf(TokensIn(date), RecordsOf(date))

\* TokensAreSum as a fact about every state.
LEMMA TokensAreSums == TokensSummed
BY TokensAreSum DEF TokensSummed

\* Without a new record a day has spent what it had.
LEMMA SpentKept ==
  ASSUME Typed, Typed', RecordsKept, NEW date
  PROVE  RecordsOf(date)' = RecordsOf(date) /\ TokensOf(date)' = TokensOf(date)
<1>1. RecordsOf(date)' = RecordsOf(date)
  BY DEF RecordsKept, RecordsOf, RecordLines
<1>2. TokensIn(date)' = TokensIn(date)
  BY <1>1, RecordsOfDay DEF TokensIn, RecordsKept
<1>3. TokensOf(date)' = SumOf(TokensIn(date), RecordsOf(date))'
  <2>1. TokensSummed'
    BY TokensAreSums, PTL
  <2> QED BY <2>1 DEF TokensSummed
<1> QED BY <1>1, <1>2, <1>3, TokensAreSum

\* A new record counts on its day, and on no other.
LEMMA SpentAdded ==
  ASSUME Typed, Typed', NEW record \in Records, RecordAdded(record), NEW date
  PROVE  /\ record.day # date =>
              RecordsOf(date)' = RecordsOf(date) /\ TokensOf(date)' = TokensOf(date)
         /\ record.day = date =>
              /\ Cardinality(RecordsOf(date))' = Cardinality(RecordsOf(date)) + 1
              /\ TokensOf(date)' = TokensOf(date) + record.receipt.tokens
<1> DEFINE n == Len(ledger) + 1
           S == RecordsOf(date)
           f == TokensIn(date)
<1>1. /\ n \notin RecordLines /\ RecordLines' = RecordLines \cup {n}
      /\ ledger'[n] = record /\ \A i \in RecordLines : ledger'[i] = ledger[i]
  BY DEF RecordAdded
<1> HIDE DEF n
<1>2. /\ S = {i \in RecordLines : ledger[i].day = date}
      /\ IsFiniteSet(S) /\ f \in [S -> Nat] /\ f = [i \in S |-> ledger[i].receipt.tokens]
      /\ TokensOf(date) = SumOf(f, S)
  BY RecordsOfDay, TokensAreSum DEF TokensIn
<1>3. /\ RecordsOf(date)' = {i \in RecordLines' : ledger'[i].day = date}
      /\ TokensIn(date)' \in [RecordsOf(date)' -> Nat]
      /\ TokensIn(date)' = [i \in RecordsOf(date)' |-> ledger'[i].receipt.tokens]
      /\ TokensOf(date)' = SumOf(TokensIn(date)', RecordsOf(date)')
  <2>1. TokensSummed' /\ DaysCounted'
    BY TokensAreSums, DaysAreCounted, PTL
  <2>2. /\ RecordsOf(date)' = {i \in RecordLines' : ledger'[i].day = date}
        /\ TokensIn(date)' \in [RecordsOf(date)' -> Nat]
    BY <2>1 DEF DaysCounted
  <2>3. TokensIn(date)' = [i \in RecordsOf(date)' |-> ledger'[i].receipt.tokens]
    BY DEF TokensIn
  <2>4. TokensOf(date)' = SumOf(TokensIn(date)', RecordsOf(date)')
    BY <2>1 DEF TokensSummed
  <2> QED BY <2>2, <2>3, <2>4
<1> HIDE DEF S, f
<1>4. CASE record.day # date
  <2>1. RecordsOf(date)' = S
    BY <1>1, <1>2, <1>3, <1>4
  <2>2. TokensIn(date)' = f
    BY <1>1, <1>2, <1>3, <2>1
  <2> QED BY <1>2, <1>3, <1>4, <2>1, <2>2 DEF S
<1>5. CASE record.day = date
  <2>1. RecordsOf(date)' = S \cup {n} /\ n \notin S
    BY <1>1, <1>2, <1>3, <1>5
  <2>2. Cardinality(RecordsOf(date))' = Cardinality(S) + 1
    BY <1>2, <2>1, FS_AddElement, ZenonT(60)
  <2>3. \A i \in S : f[i] = TokensIn(date)'[i]
    BY <1>1, <1>2, <1>3, <2>1
  <2>4. TokensIn(date)'[n] = record.receipt.tokens
    BY <1>1, <1>3, <2>1
  <2>5. SumOf(TokensIn(date)', S \cup {n}) = SumOf(f, S) + TokensIn(date)'[n]
    <3> DEFINE h == TokensIn(date)'
    <3>1. /\ IsFiniteSet(S) /\ n \notin S /\ f \in [S -> Nat] /\ h \in [S \cup {n} -> Nat]
          /\ \A i \in S : f[i] = h[i]
      BY <1>2, <1>3, <2>1, <2>3
    <3> HIDE DEF h
    <3>2. SumOf(h, S \cup {n}) = SumOf(f, S) + h[n]
      BY <3>1, SumOfAdd
    <3> QED BY <3>2 DEF h
  <2> QED BY <1>2, <1>3, <1>5, <2>1, <2>2, <2>4, <2>5 DEF S
<1> QED BY <1>4, <1>5

Slots == Threads \X Eligible

\* What the threads may still add to the ledger: one record per slot.
Owed == {slot \in Slots : Owes(slot[1], slot[2])}

\* It is charged to the present day.
OwedOn(date) == IF date = day THEN Cardinality(Owed) ELSE 0

TokenUnit == Max(TokenCounts)

\* Spent and owed, in records of the given size, are below the limit and what
\* all slots may owe.
Within(spent, owed, limit, size) == spent + owed * size < limit + Cardinality(Slots) * size

\* What a day has spent and still owes is below the limit and what all slots may
\* owe: at the admission of a request because the limit is not reached, and later
\* because what is recorded is owed no more.
BudgetInv ==
  /\ \A i \in RecordLines : ledger[i].day <= day
  /\ \/ MaxDailyRequests > 0 /\ MaxDailyTokens > 0
     \/ Owed = {} /\ RecordLines = {}
  /\ MaxDailyRequests > 0 /\ MaxDailyTokens > 0 =>
       \A date \in Days :
         /\ Within(Cardinality(RecordsOf(date)), OwedOn(date), MaxDailyRequests, 1)
         /\ Within(TokensOf(date), OwedOn(date), MaxDailyTokens, TokenUnit)

\* There are as many slots as threads times eligible providers.
LEMMA SlotsFinite ==
  ASSUME Typed
  PROVE  /\ IsFiniteSet(Slots) /\ Cardinality(Slots) \in Nat
         /\ Cardinality(Slots) = Cardinality(Threads) * Cardinality(Eligible)
         /\ IsFiniteSet(Owed) /\ Cardinality(Owed) \in Nat /\ Cardinality(Owed) <= Cardinality(Slots)
<1>1. IsFiniteSet(Threads) /\ IsFiniteSet(Eligible)
  <2>1. Eligible \in SUBSET Providers
    BY DEF Eligible
  <2> QED BY <2>1, FiniteAssumption, FS_Subset
<1>2. IsFiniteSet(Slots) /\ Cardinality(Slots) = Cardinality(Threads) * Cardinality(Eligible)
  BY <1>1, FS_Product DEF Slots
<1>3. Owed \in SUBSET Slots
  BY DEF Owed
<1>4. IsFiniteSet(Owed) /\ Cardinality(Owed) <= Cardinality(Slots)
  BY <1>2, <1>3, FS_Subset
<1> QED BY <1>2, <1>4, FS_CardinalityType

\* The unit of tokens bounds what a record adds.
LEMMA TokenUnitBounds ==
  /\ TokenUnit \in Nat
  /\ \A record \in Records : record.receipt.tokens \in Nat /\ record.receipt.tokens <= TokenUnit
<1>1. TokenUnit \in TokenCounts /\ \A x \in TokenCounts : x <= TokenUnit
  <2>1. \A x \in TokenCounts : x \in Nat
    BY PolicyAssumption
  <2> QED BY <2>1, PolicyAssumption, MaxIsGreatest DEF TokenUnit
<1>2. TokenUnit \in Nat
  BY <1>1, PolicyAssumption
<1>3. ASSUME NEW record \in Records
      PROVE  record.receipt.tokens \in TokenCounts \cup {0}
  <2>1. record.receipt \in Receipts
    BY DEF Records
  <2> QED BY <2>1 DEF Receipts
<1>4. \A x \in TokenCounts \cup {0} : x \in Nat /\ x <= TokenUnit
  BY <1>1, <1>2, PolicyAssumption
<1> QED BY <1>2, <1>3, <1>4

\* Arithmetic of the bound.
LEMMA WithinLess ==
  ASSUME NEW spent \in Nat, NEW owed \in Nat, NEW less \in Nat, less <= owed, NEW limit \in Nat,
         NEW size \in Nat, Cardinality(Slots) \in Nat, Within(spent, owed, limit, size)
  PROVE  Within(spent, less, limit, size)
<1>1. less * size <= owed * size /\ less * size \in Nat /\ owed * size \in Nat
  OBVIOUS
<1>2. Cardinality(Slots) * size \in Nat
  OBVIOUS
<1> QED BY <1>1, <1>2 DEF Within

\* What is paid is owed no more.
LEMMA WithinPaid ==
  ASSUME NEW spent \in Nat, NEW owed \in Nat, NEW limit \in Nat, NEW size \in Nat, NEW paid \in 0..size,
         owed > 0, Cardinality(Slots) \in Nat, Within(spent, owed, limit, size)
  PROVE  Within(spent + paid, owed - 1, limit, size)
<1>1. (owed - 1) * size = owed * size - size /\ owed * size \in Nat
  OBVIOUS
<1>2. Cardinality(Slots) * size \in Nat
  OBVIOUS
<1> QED BY <1>1, <1>2 DEF Within

\* Below the limit, all slots may be owed.
LEMMA WithinAdmitted ==
  ASSUME NEW spent \in Nat, NEW owed \in Nat, NEW limit \in Nat, NEW size \in Nat, spent < limit,
         Cardinality(Slots) \in Nat, owed <= Cardinality(Slots)
  PROVE  Within(spent, owed, limit, size)
<1>1. owed * size <= Cardinality(Slots) * size /\ owed * size \in Nat
  OBVIOUS
<1>2. Cardinality(Slots) * size \in Nat
  OBVIOUS
<1> QED BY <1>1, <1>2 DEF Within

\* Where no record is added and nothing more is owed, the budget stays as it was.
LEMMA BudgetKept ==
  ASSUME Typed, Typed', BudgetInv, RecordsKept, UNCHANGED <<local_only, day>>,
         \A t \in Threads : \A p : Owes(t, p)' => Owes(t, p)
  PROVE  BudgetInv'
<1>1. Slots' = Slots
  BY DEF Slots, Eligible
<1>2. Owed' \subseteq Owed
  BY <1>1 DEF Owed, Slots
<1>3. /\ Cardinality(Slots) \in Nat /\ Cardinality(Owed) \in Nat
      /\ Cardinality(Owed') \in Nat /\ Cardinality(Owed') <= Cardinality(Owed)
  <2>1. IsFiniteSet(Owed') /\ Cardinality(Owed') <= Cardinality(Owed)
    BY <1>2, SlotsFinite, FS_Subset
  <2> QED BY <2>1, SlotsFinite, FS_CardinalityType
<1>4. \A i \in RecordLines' : ledger'[i].day <= day'
  BY DEF RecordsKept, BudgetInv
<1>5. ASSUME NEW date \in Days, MaxDailyRequests > 0, MaxDailyTokens > 0
      PROVE  /\ Within(Cardinality(RecordsOf(date)), OwedOn(date), MaxDailyRequests, 1)'
             /\ Within(TokensOf(date), OwedOn(date), MaxDailyTokens, TokenUnit)'
  <2> DEFINE spent == Cardinality(RecordsOf(date))
             tokens == TokensOf(date)
             owed == OwedOn(date)
             less == OwedOn(date)'
  <2>1. Within(spent, owed, MaxDailyRequests, 1) /\ Within(tokens, owed, MaxDailyTokens, TokenUnit)
    BY <1>5 DEF BudgetInv
  <2>2. owed \in Nat /\ less \in Nat /\ less <= owed
    BY <1>3 DEF OwedOn
  <2>3. spent \in Nat /\ tokens \in Nat
    BY RecordsOfDay, TokensAreSum, SumOfNaturals
  <2>4. RecordsOf(date)' = RecordsOf(date) /\ TokensOf(date)' = TokensOf(date)
    BY SpentKept
  <2> HIDE DEF spent, tokens, owed, less
  <2>5. Within(spent, less, MaxDailyRequests, 1)
    BY <1>3, <2>1, <2>2, <2>3, WithinLess, PolicyAssumption
  <2>6. Within(tokens, less, MaxDailyTokens, TokenUnit)
    BY <1>3, <2>1, <2>2, <2>3, WithinLess, TokenUnitBounds, PolicyAssumption
  <2> QED BY <1>1, <2>4, <2>5, <2>6 DEF Within, spent, tokens, less
<1> QED BY <1>2, <1>4, <1>5 DEF BudgetInv, RecordsKept

\* A request is admitted below both limits: whatever is owed then is within the
\* slots.
LEMMA BudgetAdmitted ==
  ASSUME Typed, Typed', BudgetInv, RecordsKept, UNCHANGED <<local_only, day>>, ~Exhausted
  PROVE  BudgetInv'
<1>1. Slots' = Slots
  BY DEF Slots, Eligible
<1>2. /\ Cardinality(Slots) \in Nat /\ Cardinality(Owed') \in Nat
      /\ Cardinality(Owed') <= Cardinality(Slots)
  <2>1. Owed' \in SUBSET Slots
    BY <1>1 DEF Owed
  <2>2. IsFiniteSet(Owed') /\ Cardinality(Owed') <= Cardinality(Slots)
    BY <2>1, SlotsFinite, FS_Subset
  <2> QED BY <2>2, SlotsFinite, FS_CardinalityType
<1>3. \A i \in RecordLines' : ledger'[i].day <= day'
  BY DEF RecordsKept, BudgetInv
<1>4. \A date : Cardinality(RecordsOf(date)) \in Nat /\ TokensOf(date) \in Nat
  BY RecordsOfDay, TokensAreSum, SumOfNaturals
<1>5. MaxDailyRequests > 0 /\ MaxDailyTokens > 0
  BY <1>4, PolicyAssumption DEF Exhausted
<1>6. ASSUME NEW date \in Days
      PROVE  /\ Within(Cardinality(RecordsOf(date)), OwedOn(date), MaxDailyRequests, 1)'
             /\ Within(TokensOf(date), OwedOn(date), MaxDailyTokens, TokenUnit)'
  <2> DEFINE spent == Cardinality(RecordsOf(date))
             tokens == TokensOf(date)
             owed == OwedOn(date)'
  <2>1. RecordsOf(date)' = RecordsOf(date) /\ TokensOf(date)' = TokensOf(date)
    BY SpentKept
  <2>2. spent \in Nat /\ tokens \in Nat /\ owed \in Nat /\ owed <= Cardinality(Slots)
    BY <1>2, <1>4 DEF OwedOn
  <2>3. CASE date = day
    <3>1. spent < MaxDailyRequests /\ tokens < MaxDailyTokens
      BY <1>4, <2>3, PolicyAssumption DEF Exhausted
    <3> HIDE DEF spent, tokens, owed
    <3>2. Within(spent, owed, MaxDailyRequests, 1)
      BY <1>2, <2>2, <3>1, WithinAdmitted, PolicyAssumption
    <3>3. Within(tokens, owed, MaxDailyTokens, TokenUnit)
      BY <1>2, <2>2, <3>1, WithinAdmitted, TokenUnitBounds, PolicyAssumption
    <3> QED BY <1>1, <2>1, <3>2, <3>3 DEF Within, spent, tokens, owed
  <2>4. CASE date # day
    <3>1. owed = OwedOn(date)
      BY <2>4 DEF OwedOn
    <3>2. Within(spent, owed, MaxDailyRequests, 1) /\ Within(tokens, owed, MaxDailyTokens, TokenUnit)
      BY <1>5, <3>1 DEF BudgetInv
    <3> QED BY <1>1, <2>1, <3>2 DEF Within
  <2> QED BY <2>3, <2>4
<1> QED BY <1>3, <1>5, <1>6 DEF BudgetInv

\* A receipt that is recorded is owed no more.
LEMMA OwedPaid ==
  ASSUME Typed, Typed', Sound, NEW t \in Threads, Persist(t)
  PROVE  /\ Slots' = Slots
         /\ Cardinality(Owed) \in Nat \ {0} /\ Cardinality(Owed') \in Nat
         /\ Cardinality(Owed') <= Cardinality(Owed) - 1
<1> DEFINE q == receipts[t][1].provider
           paid == <<t, q>>
<1>1. Slots' = Slots
  BY PersistDrops DEF Slots, Eligible
<1>2. Owes(t, q) /\ q \in Providers /\ \A p : Owes(t, p)' => Owes(t, p) /\ p # q
  BY PersistOwes
<1>3. q \in Eligible
  BY <1>2 DEF Sound, ReceiptInv
<1> HIDE DEF q
<1>4. paid \in Owed
  BY <1>2, <1>3 DEF Owed, Slots
<1>5. \A u \in Threads \ {t} : \A p : Owes(u, p)' => Owes(u, p)
  BY PersistDrops DEF Owes, Pending
<1>6. Owed' \subseteq Owed \ {paid}
  <2> SUFFICES ASSUME NEW slot \in Owed'
               PROVE  slot \in Owed \ {paid}
    OBVIOUS
  <2>1. slot \in Slots /\ Owes(slot[1], slot[2])'
    BY <1>1 DEF Owed
  <2>2. PICK u \in Threads, p \in Eligible : slot = <<u, p>>
    BY <2>1 DEF Slots
  <2>3. Owes(u, p)'
    BY <2>1, <2>2
  <2>4. Owes(u, p) /\ (u = t => p # q)
    BY <1>2, <1>5, <2>3
  <2> QED BY <2>1, <2>2, <2>4 DEF Owed
<1> HIDE DEF paid
<1>7. IsFiniteSet(Owed) /\ Cardinality(Owed) \in Nat
  BY SlotsFinite
<1>8. /\ IsFiniteSet(Owed \ {paid}) /\ Cardinality(Owed \ {paid}) = Cardinality(Owed) - 1
      /\ Cardinality(Owed \ {paid}) \in Nat
  <2>1. IsFiniteSet(Owed \ {paid}) /\ Cardinality(Owed \ {paid}) = Cardinality(Owed) - 1
    BY <1>4, <1>7, FS_RemoveElement
  <2> QED BY <2>1, FS_CardinalityType
<1>9. IsFiniteSet(Owed') /\ Cardinality(Owed') <= Cardinality(Owed \ {paid})
  BY <1>6, <1>8, FS_Subset
<1>10. Cardinality(Owed') \in Nat
  BY <1>9, FS_CardinalityType
<1> QED BY <1>1, <1>7, <1>8, <1>9, <1>10

\* A record is charged against what was owed.
LEMMA BudgetPersist ==
  ASSUME Typed, Typed', Sound, BudgetInv, NEW t \in Threads, Persist(t)
  PROVE  BudgetInv'
<1> DEFINE record == [receipt |-> receipts[t][1], day |-> day]
<1>1. /\ record \in Records
      /\ RecordsKept \/ RecordAdded(record)
      /\ UNCHANGED <<local_only, day>>
  BY PersistAdds, PersistDrops
<1>2. /\ Slots' = Slots /\ Cardinality(Slots) \in Nat
      /\ Cardinality(Owed) \in Nat \ {0} /\ Cardinality(Owed') \in Nat
      /\ Cardinality(Owed') <= Cardinality(Owed) - 1
  BY OwedPaid, SlotsFinite
<1>3. CASE RecordsKept
  <2>1. \A u \in Threads : \A p : Owes(u, p)' => Owes(u, p)
    <3>1. \A u \in Threads \ {t} : \A p : Owes(u, p)' => Owes(u, p)
      BY PersistDrops DEF Owes, Pending
    <3>2. \A p : Owes(t, p)' => Owes(t, p)
      BY PersistOwes
    <3> QED BY <3>1, <3>2
  <2> QED BY <1>1, <1>3, <2>1, BudgetKept
<1>4. CASE RecordAdded(record)
  <2>a. \A r \in Records : r.receipt.tokens \in 0..TokenUnit
    BY TokenUnitBounds
  <2>b. record \in Records /\ record.day = day
    BY <1>1
  <2> HIDE DEF record
  <2>0. /\ record.day = day /\ record.receipt.tokens \in 0..TokenUnit /\ day \in Nat
        /\ record \in Records /\ 1 \in 0..1
    <3>1. record.receipt.tokens \in 0..TokenUnit
      BY <2>a, <2>b
    <3>2. day \in Nat
      BY BoundsAssumption DEF Typed, TypeOK, Days
    <3>3. 1 \in 0..1
      OBVIOUS
    <3> QED BY <2>b, <3>1, <3>2, <3>3
  <2>1. \A i \in RecordLines' : ledger'[i].day <= day'
    BY <1>1, <1>4, <2>0 DEF RecordAdded, BudgetInv
  <2>2. Owed # {} /\ MaxDailyRequests > 0 /\ MaxDailyTokens > 0
    BY <1>2, FS_EmptySet DEF BudgetInv
  <2>3. ASSUME NEW date \in Days
        PROVE  /\ Within(Cardinality(RecordsOf(date)), OwedOn(date), MaxDailyRequests, 1)'
               /\ Within(TokensOf(date), OwedOn(date), MaxDailyTokens, TokenUnit)'
    <3> DEFINE spent == Cardinality(RecordsOf(date))
               tokens == TokensOf(date)
               owed == OwedOn(date)
               less == OwedOn(date)'
    <3>1. Within(spent, owed, MaxDailyRequests, 1) /\ Within(tokens, owed, MaxDailyTokens, TokenUnit)
      BY <2>2 DEF BudgetInv
    <3>2. spent \in Nat /\ tokens \in Nat /\ owed \in Nat /\ less \in Nat
      BY <1>2, RecordsOfDay, TokensAreSum, SumOfNaturals DEF OwedOn
    <3>3. /\ record.day # date =>
                RecordsOf(date)' = RecordsOf(date) /\ TokensOf(date)' = TokensOf(date)
          /\ record.day = date =>
                /\ Cardinality(RecordsOf(date))' = Cardinality(RecordsOf(date)) + 1
                /\ TokensOf(date)' = TokensOf(date) + record.receipt.tokens
      <4> HIDE DEF spent, tokens, owed, less
      <4> QED BY <1>4, <2>0, SpentAdded
    <3>4. CASE date # day
      <4>1. less = owed
        BY <1>1, <3>4 DEF OwedOn
      <4>2. RecordsOf(date)' = RecordsOf(date) /\ TokensOf(date)' = TokensOf(date)
        BY <2>0, <3>3, <3>4
      <4> QED BY <1>2, <3>1, <4>1, <4>2 DEF Within
    <3>5. CASE date = day
      <4>1. owed > 0 /\ owed - 1 \in Nat /\ less <= owed - 1
        BY <1>1, <1>2, <3>5 DEF OwedOn
      <4>2. Cardinality(RecordsOf(date))' = spent + 1 /\ TokensOf(date)' = tokens + record.receipt.tokens
        BY <2>0, <3>3, <3>5
      <4> HIDE DEF spent, tokens, owed, less
      <4>3. Within(spent + 1, owed - 1, MaxDailyRequests, 1)
        BY <1>2, <2>0, <3>1, <3>2, <4>1, WithinPaid, PolicyAssumption
      <4>4. Within(spent + 1, less, MaxDailyRequests, 1)
        BY <1>2, <3>2, <4>1, <4>3, WithinLess, PolicyAssumption
      <4>5. Within(tokens + record.receipt.tokens, owed - 1, MaxDailyTokens, TokenUnit)
        BY <1>2, <2>0, <3>1, <3>2, <4>1, WithinPaid, TokenUnitBounds, PolicyAssumption
      <4>6. Within(tokens + record.receipt.tokens, less, MaxDailyTokens, TokenUnit)
        <5>1. tokens + record.receipt.tokens \in Nat
          BY <2>0, <3>2, TokenUnitBounds
        <5> QED BY <1>2, <3>2, <4>1, <4>5, <5>1, WithinLess, TokenUnitBounds, PolicyAssumption
      <4> QED BY <1>2, <4>2, <4>4, <4>6 DEF Within, less
    <3> QED BY <3>4, <3>5
  <2> QED BY <2>1, <2>2, <2>3 DEF BudgetInv
<1> QED BY <1>1, <1>3, <1>4

\* After midnight the threads owe the new day what they owed the old one.
LEMMA BudgetMidnight ==
  ASSUME Typed, Typed', BudgetInv, Midnight
  PROVE  BudgetInv'
<1>1. /\ RecordsKept /\ Slots' = Slots /\ Owed' = Owed /\ day' = day + 1 /\ day \in Nat
      /\ RecordLines' = RecordLines
  BY BoundsAssumption DEF Midnight, threadState, history, RecordsKept, RecordLines, Slots, Eligible, Owed, Owes,
     Pending, Typed, TypeOK, Days
<1>2. \A i \in RecordLines : ledger[i].day \in Nat /\ ledger[i].day <= day
  BY RecordsReadable DEF BudgetInv, Records, Days
<1>3. \A i \in RecordLines' : ledger'[i].day <= day'
  BY <1>1, <1>2 DEF RecordsKept
<1>4. Cardinality(Slots) \in Nat /\ Cardinality(Owed) \in Nat /\ Cardinality(Owed) <= Cardinality(Slots)
  BY SlotsFinite
<1>5. ASSUME NEW date \in Days, MaxDailyRequests > 0, MaxDailyTokens > 0
      PROVE  /\ Within(Cardinality(RecordsOf(date)), OwedOn(date), MaxDailyRequests, 1)'
             /\ Within(TokensOf(date), OwedOn(date), MaxDailyTokens, TokenUnit)'
  <2>1. RecordsOf(date)' = RecordsOf(date) /\ TokensOf(date)' = TokensOf(date)
    BY <1>1, SpentKept
  <2>2. CASE date = day'
    <3>1. RecordsOf(date) = {}
      BY <1>1, <1>2, <2>2, RecordsOfDay
    <3>2. Cardinality(RecordsOf(date)) = 0 /\ TokensOf(date) = 0
      <4>1. TokensIn(date) \in [{} -> Nat]
        BY <3>1, RecordsOfDay
      <4>2. TokensOf(date) = 0
        BY <3>1, <4>1, TokensAreSum, SumOfNothing
      <4> QED BY <3>1, <4>2, FS_EmptySet
    <3>3. OwedOn(date)' = Cardinality(Owed)
      BY <1>1, <2>2 DEF OwedOn
    <3>4. /\ Within(0, Cardinality(Owed), MaxDailyRequests, 1)
          /\ Within(0, Cardinality(Owed), MaxDailyTokens, TokenUnit)
      BY <1>4, <1>5, WithinAdmitted, TokenUnitBounds, PolicyAssumption
    <3> QED BY <1>1, <2>1, <3>2, <3>3, <3>4 DEF Within
  <2>3. CASE date # day'
    <3> DEFINE spent == Cardinality(RecordsOf(date))
               tokens == TokensOf(date)
               owed == OwedOn(date)
    <3>1. Within(spent, owed, MaxDailyRequests, 1) /\ Within(tokens, owed, MaxDailyTokens, TokenUnit)
      BY <1>5 DEF BudgetInv
    <3>2. spent \in Nat /\ tokens \in Nat /\ owed \in Nat /\ 0 <= owed
      BY <1>4, RecordsOfDay, TokensAreSum, SumOfNaturals DEF OwedOn
    <3>3. OwedOn(date)' = 0
      BY <1>1, <2>3 DEF OwedOn
    <3> HIDE DEF spent, tokens, owed
    <3>4. Within(spent, 0, MaxDailyRequests, 1) /\ Within(tokens, 0, MaxDailyTokens, TokenUnit)
      BY <1>4, <3>1, <3>2, WithinLess, TokenUnitBounds, PolicyAssumption
    <3> QED BY <1>1, <2>1, <3>3, <3>4 DEF Within, spent, tokens
  <2> QED BY <2>2, <2>3
<1> QED BY <1>1, <1>3, <1>5 DEF BudgetInv

\* Every step stays within the budget.
LEMMA BudgetStep ==
  ASSUME Typed, Typed', Sound, BudgetInv, [Next]_vars
  PROVE  BudgetInv'
<1>1. ASSUME NEW t \in Threads, NEW pin, NEW validMessages, NEW validRunId,
             Receive(t, pin, validMessages, validRunId)
      PROVE  BudgetInv'
  <2>1. RecordsKept /\ UNCHANGED <<local_only, day>>
    BY <1>1, ReceiveKeeps DEF RecordsKept, RecordLines
  <2>2. CASE ~Exhausted
    BY <2>1, <2>2, BudgetAdmitted
  <2>3. CASE \A u \in Threads : untried'[u] \subseteq untried[u] /\ receipts'[u] \in {receipts[u], <<>>}
    <3>1. \A u \in Threads : \A p : Owes(u, p)' => Owes(u, p)
      BY <2>3, EmptySeq DEF Owes, Pending
    <3> QED BY <2>1, <3>1, BudgetKept
  <2> QED BY <1>1, <2>2, <2>3, ReceiveKeeps
<1>2. ASSUME NEW t \in Threads, NEW p, NEW receipt, Called(t, p, receipt)
      PROVE  BudgetInv'
  <2>1. RecordsKept /\ UNCHANGED <<local_only, day>>
    BY <1>2 DEF Called, RecordsKept, RecordLines
  <2>2. \A u \in Threads : \A q : Owes(u, q)' => Owes(u, q)
    BY <1>2, CalledOwes
  <2> QED BY <2>1, <2>2, BudgetKept
<1>3. ASSUME NEW t \in Threads, Malformed(t) \/ PersistError(t) \/ Crash
      PROVE  BudgetInv'
  <2>1. RecordsKept /\ UNCHANGED <<local_only, day>>
    BY <1>3, FailureKeeps
  <2>2. ASSUME NEW u \in Threads, NEW q, Owes(u, q)'
        PROVE  Owes(u, q)
    <3>1. ThreadKept(u) /\ received' = received /\ received \in Nat
      BY <1>3, FailureKeeps, BoundsAssumption, SMTT(60) DEF Typed, TypeOK
    <3>2. received' # received + 1
      BY <3>1
    <3> QED BY <2>2, <3>1, <3>2, EmptySeq DEF ThreadKept, Owes, Pending
  <2> QED BY <2>1, <2>2, BudgetKept
<1>4. CASE UNCHANGED vars
  <2>1. /\ RecordsKept /\ UNCHANGED <<local_only, day>>
        /\ \A t \in Threads : \A p : Owes(t, p)' => Owes(t, p)
    BY <1>4 DEF vars, threadState, RecordsKept, RecordLines, Owes, Pending
  <2> QED BY <2>1, BudgetKept
<1>5. CASE Crash
  <2>1. CASE Threads = {}
    <3>1. RecordsKept /\ UNCHANGED <<local_only, day>>
      BY <1>5, <2>1 DEF Crash, RecordsKept, RecordLines
    <3> QED BY <2>1, <3>1, BudgetKept
  <2> QED BY <1>3, <1>5, <2>1
<1> QED BY <1>1, <1>2, <1>3, <1>4, <1>5, Steps, CompleteCalls, FailCalls, BudgetPersist, BudgetMidnight

\* The first state is within the budget.
LEMMA BudgetInit ==
  ASSUME Init
  PROVE  BudgetInv
<1>1. Typed
  BY TypeInit
<1>2. RecordLines = {} /\ Owed = {} /\ day = 1
  <2>1. Len(ledger) = 0 /\ \A t \in Threads : Len(receipts[t]) = 0 /\ untried[t] = {}
    BY EmptySeq DEF Init
  <2>2. \A t \in Threads : \A p : ~Owes(t, p)
    BY <2>1 DEF Owes, Pending
  <2> QED BY <2>1, <2>2 DEF Init, RecordLines, Owed, Slots
<1>3. ASSUME NEW date \in Days, MaxDailyRequests > 0, MaxDailyTokens > 0
      PROVE  /\ Within(Cardinality(RecordsOf(date)), OwedOn(date), MaxDailyRequests, 1)
             /\ Within(TokensOf(date), OwedOn(date), MaxDailyTokens, TokenUnit)
  <2>1. RecordsOf(date) = {}
    BY <1>1, <1>2, RecordsOfDay
  <2>2. Cardinality(RecordsOf(date)) = 0 /\ TokensOf(date) = 0
    <3>1. TokensIn(date) \in [{} -> Nat]
      BY <1>1, <2>1, RecordsOfDay
    <3>2. TokensOf(date) = 0
      BY <1>1, <2>1, <3>1, TokensAreSum, SumOfNothing
    <3> QED BY <2>1, <3>2, FS_EmptySet
  <2>3. OwedOn(date) = 0 /\ Cardinality(Slots) \in Nat
    BY <1>1, <1>2, SlotsFinite, FS_EmptySet DEF OwedOn
  <2>4. Within(0, 0, MaxDailyRequests, 1) /\ Within(0, 0, MaxDailyTokens, TokenUnit)
    BY <1>3, <2>3, WithinAdmitted, TokenUnitBounds, PolicyAssumption
  <2> QED BY <2>2, <2>3, <2>4
<1> QED BY <1>2, <1>3 DEF BudgetInv

\* Concurrent requests overshoot a daily budget by less than one record of every
\* eligible provider for every thread, on any day and for any policy: assert_budget is
\* called before and the ledger is charged after, without a lock over both.
THEOREM OvershootIsBounded == Spec => []OvershootBounded
<1>1. Init => BudgetInv
  BY BudgetInit
<1>2. Typed /\ Typed' /\ Sound /\ BudgetInv /\ [Next]_vars => BudgetInv'
  BY BudgetStep
<1>3. Typed /\ BudgetInv => OvershootBounded
  <2> SUFFICES ASSUME Typed, BudgetInv, NEW date \in Days, RecordsOf(date) # {}
               PROVE  /\ Cardinality(RecordsOf(date)) < MaxDailyRequests + Cardinality(Threads) * Cardinality(Eligible)
                      /\ TokensOf(date) < MaxDailyTokens
                                            + Cardinality(Threads) * Cardinality(Eligible) * Max(TokenCounts)
    BY DEF OvershootBounded
  <2> DEFINE spent == Cardinality(RecordsOf(date))
             tokens == TokensOf(date)
             owed == OwedOn(date)
             all == Cardinality(Slots)
  <2>1. RecordLines # {}
    BY RecordsOfDay
  <2>2. Within(spent, owed, MaxDailyRequests, 1) /\ Within(tokens, owed, MaxDailyTokens, TokenUnit)
    BY <2>1 DEF BudgetInv
  <2>3. /\ spent \in Nat /\ tokens \in Nat /\ owed \in Nat /\ 0 <= owed /\ all \in Nat
        /\ all = Cardinality(Threads) * Cardinality(Eligible)
    BY SlotsFinite, RecordsOfDay, TokensAreSum, SumOfNaturals DEF OwedOn
  <2> HIDE DEF spent, tokens, owed
  <2>4. Within(spent, 0, MaxDailyRequests, 1) /\ Within(tokens, 0, MaxDailyTokens, TokenUnit)
    BY <2>2, <2>3, WithinLess, TokenUnitBounds, PolicyAssumption
  <2>5. 0 * TokenUnit = 0 /\ all * TokenUnit \in Nat /\ all * 1 = all
    BY <2>3, TokenUnitBounds
  <2>6. spent < MaxDailyRequests + all /\ tokens < MaxDailyTokens + all * TokenUnit
    BY <2>3, <2>4, <2>5, PolicyAssumption DEF Within
  <2> HIDE DEF all
  <2> QED BY <2>3, <2>6 DEF spent, tokens, TokenUnit
<1> QED BY <1>1, <1>2, <1>3, TypedAlways, SoundAlways, PTL DEF Spec
=============================================================================
