-------------------------- MODULE JwksCacheProofs --------------------------
(***************************************************************************)
(* Proofs about JwksCache.tla, for any requests, keys and tokens and any   *)
(* durations: what an accepted token says of its key and its times, and    *)
(* that the cache goes forward only.                                       *)
(***************************************************************************)
EXTENDS JwksCache, TLAPS

-----------------------------------------------------------------------------
(* The invariant.  Between its first check and its end a request has a     *)
(* token whose times fit together; it fetches exactly while it holds the   *)
(* mutex, so the cache stands still meanwhile and what it receives is not  *)
(* older than the cache; a key that is cached or on its way is published,  *)
(* or was withdrawn since the provider sent it.                            *)

TokenGood(t) == t \in TokenType /\ t.exp >= t.iat /\ t.exp - t.iat <= MaxLifetime

Tokened == \A r \in Requests : request[r].pc \in Verifying => TokenGood(request[r].token)

Mutex == \A r \in Requests : request[r].pc = "fetch" <=> holder = r

Attempted ==
    \A r \in Requests : request[r].pc = "fetch" =>
        last_attempt \in Instant /\ last_attempt <= 0 /\ last_attempt >= -HttpTimeout

KnownSince(doc, t) == \A k \in doc : k \in published \/ since[k] >= t

Served ==
    \A r \in Requests : request[r].pc = "fetch" /\ request[r].doc # Null =>
        /\ request[r].served \in Instant /\ request[r].served <= 0
        /\ request[r].served >= last_attempt
        /\ request[r].served >= cache.served
        /\ KnownSince(request[r].doc, request[r].served)

Cached ==
    /\ cache.served <= 0
    /\ cache.fetched_at <= 0
    /\ cache.served >= cache.fetched_at - HttpTimeout
    /\ KnownSince(cache.index, cache.served)

IInv == TypeOK /\ Tokened /\ Mutex /\ Attempted /\ Served /\ Cached

-----------------------------------------------------------------------------
(* Facts about time and constants. *)

LEMMA Durations ==
    /\ RefreshInterval \in Nat \ {0} /\ MaxAge \in Nat \ {0} /\ HttpTimeout \in Nat \ {0}
    /\ ClockSkew \in Nat \ {0} /\ MaxLifetime \in Nat \ {0}
    /\ Horizon \in Nat /\ Horizon > MaxAge + HttpTimeout
BY VerifierConstants, HorizonCoversAges DEF ValidConfig

LEMMA NullIsNone ==
    Null \notin Int /\ Null \notin Requests /\ \A doc \in SUBSET Keys : doc # Null
BY VerifierConstants

\* Time keeps instants in order and moves each by one unit at most.
LEMMA Ageing ==
    ASSUME NEW t \in Instant
    PROVE  /\ Aged(t) \in Instant /\ Aged(t) <= t /\ Aged(t) >= t - 1
           /\ \A s \in Instant : s <= t => Aged(s) <= Aged(t)
           /\ t > -Horizon => Aged(t) = t - 1
BY Durations, NullIsNone DEF Instant, Aged

LEMMA NowIsInstant == NOW \in Instant /\ NOW = 0 /\ -Horizon \in Instant
BY Durations DEF NOW, Instant

LEMMA TokensAreGood ==
    ASSUME NEW t \in Tokens, Plausible(t)
    PROVE  TokenGood(t)
BY VerifierConstants, HorizonCoversAges DEF Plausible, TokenGood, TokenType, Instant

\* Request r ends, or is idle.
LEMMA AnswerEnds ==
    ASSUME TypeOK, NEW r \in Requests, NEW result \in Results \cup {"idle"}, Answer(r, result)
    PROVE  /\ request' \in [Requests -> RequestType]
           /\ request'[r].pc = result /\ result \notin Verifying
           /\ \A q \in Requests \ {r} : request'[q] = request[q]
BY DEF TypeOK, Answer, At, RequestType, Results, Verifying

LEMMA GotoGoes ==
    ASSUME TypeOK, NEW r \in Requests, NEW pc \in {"lock", "fetch"}, Goto(r, pc)
    PROVE  /\ request' \in [Requests -> RequestType]
           /\ request'[r].pc = pc /\ request'[r].token = request[r].token
           /\ request'[r].doc = Null
           /\ \A q \in Requests \ {r} : request'[q] = request[q]
BY DEF TypeOK, Goto, At, RequestType, Verifying

LEMMA VerdictIsResult == \A t : Verdict(t) \in Results
BY DEF Verdict, Results

LEMMA WhenThrottledIsResult == WhenThrottled \in Results
BY DEF WhenThrottled, Results

-----------------------------------------------------------------------------
(* The invariant holds at first, and every action keeps it. *)

LEMMA InitInv == Init => IInv
<1> SUFFICES ASSUME Init PROVE IInv
  OBVIOUS
<1>1. request \in [Requests -> RequestType] /\ \A r \in Requests : request[r].pc = "idle"
  BY DEF Init, At, RequestType
<1>2. TypeOK
  BY <1>1, NowIsInstant DEF Init, TypeOK
<1>3. Tokened /\ Attempted /\ Served
  BY <1>1 DEF Tokened, Attempted, Served, Verifying
<1>4. Mutex
  BY <1>1, NullIsNone DEF Mutex, Init
<1>5. Cached
  BY NowIsInstant, Durations DEF Cached, Init, KnownSince
<1> QED
  BY <1>2, <1>3, <1>4, <1>5 DEF IInv

\* A request ends, and lets go of the mutex if it had it.
LEMMA EndingKeeps ==
    ASSUME IInv, NEW r \in Requests, NEW result \in Results \cup {"idle"}, Answer(r, result),
           holder' = IF holder = r THEN Null ELSE holder, failed' \in BOOLEAN,
           UNCHANGED <<published, since, cache, last_attempt>>
    PROVE  IInv'
<1> USE DEF IInv
<1>1. /\ request' \in [Requests -> RequestType]
      /\ request'[r].pc \notin Verifying
      /\ \A q \in Requests \ {r} : request'[q] = request[q]
  BY AnswerEnds
<1>2. TypeOK'
  BY <1>1 DEF TypeOK
<1>3. Tokened'
  BY <1>1 DEF Tokened
<1>4. Mutex'
  BY <1>1, NullIsNone DEF Mutex, Verifying
<1>5. Attempted' /\ Served' /\ Cached'
  BY <1>1 DEF Attempted, Served, Cached, KnownSince, Verifying
<1> QED
  BY <1>2, <1>3, <1>4, <1>5

\* A request that does not fetch ends without a change of anything else.
LEMMA QuietEndKeeps ==
    ASSUME IInv, NEW r \in Requests, NEW result \in Results, Answer(r, result),
           request[r].pc # "fetch",
           UNCHANGED <<published, since, cache, last_attempt, holder, failed>>
    PROVE  IInv'
<1>1. holder # r
  BY DEF IInv, Mutex
<1>2. failed' \in BOOLEAN
  BY DEF IInv, TypeOK
<1> QED
  BY <1>1, <1>2, EndingKeeps

\* A request begins, or goes on to wait for the mutex.
LEMMA WaitingKeeps ==
    ASSUME IInv, NEW r \in Requests, request[r].pc # "fetch",
           NEW q \in RequestType, q.pc \in {"lookup", "lock"}, TokenGood(q.token),
           request' = [request EXCEPT ![r] = q],
           UNCHANGED <<published, since, cache, last_attempt, holder, failed>>
    PROVE  IInv'
<1> USE DEF IInv
<1>1. /\ request' \in [Requests -> RequestType]
      /\ request'[r] = q
      /\ \A p \in Requests \ {r} : request'[p] = request[p]
  BY DEF TypeOK
<1>2. TypeOK'
  BY <1>1 DEF TypeOK
<1>3. Tokened'
  BY <1>1 DEF Tokened
<1>4. Mutex'
  BY <1>1 DEF Mutex
<1>5. Attempted' /\ Served' /\ Cached'
  BY <1>1 DEF Attempted, Served, Cached, KnownSince
<1> QED
  BY <1>2, <1>3, <1>4, <1>5

LEMMA ArriveKeeps ==
    ASSUME IInv, NEW r \in Requests, NEW t \in Tokens, Arrive(r, t)
    PROVE  IInv'
<1>1. request[r].pc # "fetch"
  BY DEF Arrive, Verifying
<1>2. CASE Plausible(t)
  <2>1. TokenGood(t)
    BY <1>2, TokensAreGood
  <2>2. At("lookup", t) \in RequestType /\ At("lookup", t).pc = "lookup"
        /\ At("lookup", t).token = t
    BY <2>1 DEF At, RequestType, Verifying, TokenGood
  <2> QED
    BY <1>1, <1>2, <2>1, <2>2, WaitingKeeps DEF Arrive
<1>3. CASE ~Plausible(t)
  BY <1>1, <1>3, QuietEndKeeps DEF Arrive, Answer, Results
<1> QED
  BY <1>2, <1>3

LEMMA LookupKeeps ==
    ASSUME IInv, NEW r \in Requests, Lookup(r)
    PROVE  IInv'
<1>1. request[r].pc = "lookup"
  BY DEF Lookup
<1>2. CASE Hit(r)
  BY <1>1, <1>2, VerdictIsResult, QuietEndKeeps DEF Lookup
<1>3. CASE ~Hit(r)
  <2> DEFINE q == At("lock", request[r].token)
  <2>1. TokenGood(request[r].token)
    BY <1>1 DEF IInv, Tokened, Verifying
  <2>2. q \in RequestType /\ q.pc = "lock" /\ q.token = request[r].token
    BY <2>1 DEF At, RequestType, Verifying, TokenGood
  <2>3. request' = [request EXCEPT ![r] = q]
    BY <1>3 DEF Lookup, Goto
  <2> HIDE DEF q
  <2> QED
    BY <1>1, <2>1, <2>2, <2>3, WaitingKeeps DEF Lookup
<1> QED
  BY <1>2, <1>3

\* The mutex is free when a fetch starts, so no other request fetches.
LEMMA StartFetchKeeps ==
    ASSUME IInv, NEW r \in Requests, request[r].pc = "lock", holder = Null, StartFetch(r),
           UNCHANGED <<published, since, cache, failed>>
    PROVE  IInv'
<1> USE DEF IInv
<1>1. /\ request' \in [Requests -> RequestType]
      /\ request'[r].pc = "fetch" /\ request'[r].token = request[r].token
      /\ request'[r].doc = Null
      /\ \A q \in Requests \ {r} : request'[q] = request[q]
  BY GotoGoes DEF StartFetch
<1>2. \A q \in Requests \ {r} : request'[q].pc # "fetch"
  BY <1>1, NullIsNone DEF Mutex
<1>3. last_attempt' = 0 /\ holder' = r
  BY NowIsInstant DEF StartFetch
<1>4. TypeOK'
  BY <1>1, <1>3, NowIsInstant DEF TypeOK
<1>5. Tokened'
  BY <1>1 DEF Tokened, Verifying
<1>6. Mutex'
  BY <1>1, <1>2, <1>3 DEF Mutex
<1>7. Attempted'
  BY <1>2, <1>3, NowIsInstant, Durations DEF Attempted
<1>8. Served' /\ Cached'
  BY <1>1, <1>2 DEF Served, Cached, KnownSince
<1> QED
  BY <1>4, <1>5, <1>6, <1>7, <1>8

LEMMA AcquireKeeps ==
    ASSUME IInv, NEW r \in Requests, Acquire(r)
    PROVE  IInv'
<1>1. request[r].pc = "lock" /\ holder = Null
  BY DEF Acquire
<1>2. CASE Hit(r)
  BY <1>1, <1>2, VerdictIsResult, QuietEndKeeps DEF Acquire, Recheck
<1>3. CASE ~Hit(r) /\ Throttled
  BY <1>1, <1>3, WhenThrottledIsResult, QuietEndKeeps DEF Acquire, Recheck
<1>4. CASE ~Hit(r) /\ ~Throttled
  BY <1>1, <1>4, StartFetchKeeps DEF Acquire, Recheck
<1> QED
  BY <1>2, <1>3, <1>4

\* The new cache is as recent as the response, which came within the timeout.
LEMMA FetchReturnsKeeps ==
    ASSUME IInv, NEW r \in Requests, FetchReturns(r)
    PROVE  IInv'
<1>1. request[r].pc = "fetch" /\ request[r].doc # Null /\ holder = r /\ holder' = Null
  BY DEF FetchReturns, IInv, Mutex
<1>2. CASE request[r].doc = {}
  BY <1>1, <1>2, EndingKeeps DEF FetchReturns, Results
<1>3. CASE request[r].doc # {}
  <2> USE DEF IInv
  <2> DEFINE q == request[r]
  <2>1. /\ cache' = [index |-> q.doc, fetched_at |-> 0, served |-> q.served]
        /\ failed' = FALSE
        /\ UNCHANGED <<published, since, last_attempt>>
    BY <1>3 DEF FetchReturns, Installed, NOW
  <2>2. PICK result \in Results : Answer(r, result)
    BY <1>3, VerdictIsResult DEF FetchReturns, Results
  <2>3. /\ request' \in [Requests -> RequestType]
        /\ request'[r].pc \notin Verifying
        /\ \A p \in Requests \ {r} : request'[p] = request[p]
    BY <2>2, AnswerEnds
  <2>4. \A p \in Requests : request'[p].pc # "fetch"
    BY <1>1, <2>3 DEF Mutex, Verifying
  <2>5. /\ q.doc \in SUBSET Keys
        /\ q.served \in Instant /\ q.served <= 0 /\ q.served >= last_attempt
        /\ last_attempt \in Instant /\ last_attempt >= -HttpTimeout
        /\ KnownSince(q.doc, q.served)
    BY <1>1 DEF Served, Attempted, TypeOK, RequestType
  <2>6. TypeOK'
    BY <1>1, <2>1, <2>3, <2>5, NowIsInstant DEF TypeOK
  <2>7. Tokened'
    BY <2>3 DEF Tokened
  <2>8. Mutex'
    BY <1>1, <2>4, NullIsNone DEF Mutex
  <2>9. Attempted' /\ Served'
    BY <2>4 DEF Attempted, Served
  <2>10. Cached'
    BY <2>1, <2>5, Durations DEF Cached, KnownSince, Instant
  <2> QED
    BY <2>6, <2>7, <2>8, <2>9, <2>10
<1> QED
  BY <1>2, <1>3

LEMMA FetchFailsKeeps ==
    ASSUME IInv, NEW r \in Requests, FetchFails(r)
    PROVE  IInv'
<1>1. holder = r
  BY DEF FetchFails, IInv, Mutex
<1> QED
  BY <1>1, EndingKeeps DEF FetchFails, Results

LEMMA CancelKeeps ==
    ASSUME IInv, NEW r \in Requests, Cancel(r)
    PROVE  IInv'
<1>1. failed' \in BOOLEAN
  BY DEF Cancel, IInv, TypeOK
<1> QED
  BY <1>1, EndingKeeps DEF Cancel

\* The provider answers with what it publishes now.
LEMMA ServeKeeps ==
    ASSUME IInv, NEW r \in Requests, Serve(r)
    PROVE  IInv'
<1> USE DEF IInv
<1>1. /\ request[r].pc = "fetch" /\ published \in SUBSET Keys
      /\ request' = [request EXCEPT ![r].doc = published, ![r].served = 0]
      /\ UNCHANGED <<published, since, cache, last_attempt, holder, failed>>
  BY DEF Serve, TypeOK, NOW
<1>2. /\ request' \in [Requests -> RequestType]
      /\ request'[r].doc = published /\ request'[r].served = 0
      /\ \A q \in Requests : request'[q].pc = request[q].pc /\ request'[q].token = request[q].token
      /\ \A q \in Requests \ {r} : request'[q] = request[q]
  BY <1>1, NowIsInstant DEF TypeOK, RequestType
<1>3. TypeOK'
  BY <1>1, <1>2 DEF TypeOK
<1>4. Tokened' /\ Mutex' /\ Attempted' /\ Cached'
  BY <1>1, <1>2 DEF Tokened, Mutex, Attempted, Cached, KnownSince
<1>5. Served'
  <2> SUFFICES ASSUME NEW q \in Requests, request'[q].pc = "fetch", request'[q].doc # Null
               PROVE  /\ request'[q].served \in Instant /\ request'[q].served <= 0
                      /\ request'[q].served >= last_attempt
                      /\ request'[q].served >= cache.served
                      /\ KnownSince(request'[q].doc, request'[q].served)
    BY <1>1 DEF Served, KnownSince
  <2>1. CASE q = r
    BY <1>1, <1>2, <2>1, NowIsInstant DEF Attempted, Cached, KnownSince
  <2>2. CASE q # r
    BY <1>2, <2>2 DEF Served
  <2> QED
    BY <2>1, <2>2
<1> QED
  BY <1>3, <1>4, <1>5

\* A key that is withdrawn now is withdrawn later than anything was served.
LEMMA RotateKeeps ==
    ASSUME IInv, NEW k \in Keys, Rotate(k)
    PROVE  IInv'
<1> USE DEF IInv
<1>1. /\ published' \subseteq Keys
      /\ \A j \in Keys \ {k} : (j \in published' <=> j \in published) /\ since'[j] = since[j]
      /\ since'[k] = 0 /\ since' \in [Keys -> Instant]
      /\ UNCHANGED <<cache, last_attempt, holder, request, failed>>
  BY NowIsInstant DEF Rotate, TypeOK
<1>2. TypeOK'
  BY <1>1 DEF TypeOK
<1>3. Tokened' /\ Mutex' /\ Attempted'
  BY <1>1 DEF Tokened, Mutex, Attempted
<1>4. Cached'
  <2>1. cache.index \in SUBSET Keys /\ cache.served \in Int /\ cache.served <= 0
        /\ KnownSince(cache.index, cache.served)
    BY DEF TypeOK, Cached, Instant
  <2> QED
    BY <1>1, <2>1 DEF Cached, KnownSince
<1>5. Served'
  <2> SUFFICES ASSUME NEW q \in Requests, request[q].pc = "fetch", request[q].doc # Null
               PROVE  KnownSince(request[q].doc, request[q].served)'
    BY <1>1 DEF Served, KnownSince
  <2>1. /\ request[q].doc \in SUBSET Keys /\ request[q].served \in Int
        /\ request[q].served <= 0 /\ KnownSince(request[q].doc, request[q].served)
    BY DEF Served, TypeOK, RequestType, Instant
  <2> QED
    BY <1>1, <2>1 DEF KnownSince
<1> QED
  BY <1>2, <1>3, <1>4, <1>5

\* Times move together, so their order and the life of a token stay.
LEMMA AgedTokenGood ==
    ASSUME NEW t, TokenGood(t)
    PROVE  TokenGood(AgedToken(t))
<1>1. CASE t = Null
  BY <1>1 DEF AgedToken
<1>2. CASE t # Null
  <2>1. t \in TokenType /\ t.iat \in Instant /\ t.exp \in Instant
        /\ t.exp >= t.iat /\ t.exp - t.iat <= MaxLifetime
    BY DEF TokenGood, TokenType
  <2>2. Aged(t.iat) \in Instant /\ Aged(t.exp) \in Instant
    BY <2>1, Ageing
  <2>3. AgedToken(t) = [t EXCEPT !.iat = Aged(t.iat), !.exp = Aged(t.exp)]
    BY <1>2 DEF AgedToken
  <2>4. /\ AgedToken(t) \in TokenType
        /\ AgedToken(t).iat = Aged(t.iat) /\ AgedToken(t).exp = Aged(t.exp)
    BY <2>1, <2>2, <2>3 DEF TokenType
  <2>5. Aged(t.exp) >= Aged(t.iat) /\ Aged(t.exp) - Aged(t.iat) <= MaxLifetime
    BY <2>1, NullIsNone, Durations DEF Aged, Instant
  <2> QED
    BY <2>4, <2>5 DEF TokenGood
<1> QED
  BY <1>1, <1>2

LEMMA AgedTokenType ==
    ASSUME NEW t \in {Null} \cup TokenType
    PROVE  AgedToken(t) \in {Null} \cup TokenType
<1>1. CASE t = Null
  BY <1>1 DEF AgedToken
<1>2. CASE t # Null
  <2>1. t \in TokenType /\ Aged(t.iat) \in Instant /\ Aged(t.exp) \in Instant
    BY <1>2, Ageing DEF TokenType
  <2>2. AgedToken(t) = [t EXCEPT !.iat = Aged(t.iat), !.exp = Aged(t.exp)]
    BY <1>2 DEF AgedToken
  <2> QED
    BY <2>1, <2>2 DEF TokenType
<1> QED
  BY <1>1, <1>2

\* What is known of the keys of a response stays known of an older time.
LEMMA AgedKnown ==
    ASSUME TypeOK, NEW doc \in SUBSET Keys, NEW t \in Instant, KnownSince(doc, t),
           published' = published, since' = [k \in Keys |-> Aged(since[k])]
    PROVE  KnownSince(doc, Aged(t))'
<1> SUFFICES ASSUME NEW k \in doc, k \notin published
             PROVE  since'[k] >= Aged(t)
  BY DEF KnownSince
<1>1. since[k] \in Instant /\ since[k] >= t
  BY DEF KnownSince, TypeOK
<1>2. Aged(t) <= Aged(since[k])
  BY <1>1, Ageing DEF Instant
<1> QED
  BY <1>2, <1>1, Ageing DEF Instant

\* A fetch is younger than its timeout when time passes, and everything else
\* is about the order of times.
LEMMA TickKeeps ==
    ASSUME IInv, Tick
    PROVE  IInv'
<1> USE DEF IInv
<1>1. /\ cache' = [cache EXCEPT !.fetched_at = Aged(cache.fetched_at),
                                !.served = Aged(cache.served)]
      /\ since' = [k \in Keys |-> Aged(since[k])]
      /\ last_attempt' = Aged(last_attempt)
      /\ request' = [r \in Requests |-> AgedRequest(request[r])]
      /\ UNCHANGED <<published, holder, failed>>
  BY DEF Tick
<1>2. /\ request' \in [Requests -> RequestType]
      /\ \A r \in Requests :
            /\ request'[r].pc = request[r].pc
            /\ request'[r].doc = request[r].doc
            /\ request'[r].token = AgedToken(request[r].token)
            /\ request'[r].served = Aged(request[r].served)
  <2> SUFFICES ASSUME NEW r \in Requests
               PROVE  /\ AgedRequest(request[r]) \in RequestType
                      /\ AgedRequest(request[r]).pc = request[r].pc
                      /\ AgedRequest(request[r]).doc = request[r].doc
                      /\ AgedRequest(request[r]).token = AgedToken(request[r].token)
                      /\ AgedRequest(request[r]).served = Aged(request[r].served)
    BY <1>1
  <2>1. request[r] \in RequestType
    BY DEF TypeOK
  <2>2. AgedToken(request[r].token) \in {Null} \cup TokenType
    BY <2>1, AgedTokenType DEF RequestType
  <2>3. Aged(request[r].served) \in Instant \cup {Null}
    BY <2>1, Ageing DEF RequestType, Aged
  <2> QED
    BY <2>1, <2>2, <2>3 DEF AgedRequest, RequestType
<1>3. /\ cache.index \in SUBSET Keys /\ cache.fetched_at \in Instant /\ cache.served \in Instant
      /\ cache'.index = cache.index
      /\ cache'.fetched_at = Aged(cache.fetched_at) /\ cache'.served = Aged(cache.served)
      /\ cache' \in [index : SUBSET Keys, fetched_at : Instant, served : Instant]
  BY <1>1, Ageing DEF TypeOK
<1>4. TypeOK'
  <2>1. since' \in [Keys -> Instant]
    BY <1>1, Ageing DEF TypeOK
  <2>2. last_attempt' \in Instant \cup {Null}
    BY <1>1, Ageing DEF TypeOK, Aged
  <2> QED
    BY <1>1, <1>2, <1>3, <2>1, <2>2 DEF TypeOK
<1>5. Tokened'
  BY <1>2, AgedTokenGood DEF Tokened
<1>6. Mutex'
  BY <1>1, <1>2 DEF Mutex
<1>7. Attempted'
  <2> SUFFICES ASSUME NEW r \in Requests, request[r].pc = "fetch"
               PROVE  /\ Aged(last_attempt) \in Instant
                      /\ Aged(last_attempt) <= 0 /\ Aged(last_attempt) >= -HttpTimeout
    BY <1>1, <1>2 DEF Attempted
  <2>1. last_attempt \in Instant /\ last_attempt <= 0 /\ last_attempt > -HttpTimeout
    BY Durations DEF Tick, Attempted, NOW, Instant
  <2> QED
    BY <2>1, Ageing, Durations DEF Instant
<1>8. Served'
  <2> SUFFICES ASSUME NEW r \in Requests, request[r].pc = "fetch", request[r].doc # Null
               PROVE  /\ request'[r].served \in Instant /\ request'[r].served <= 0
                      /\ request'[r].served >= last_attempt'
                      /\ request'[r].served >= cache'.served
                      /\ \A k \in request'[r].doc :
                            k \in published' \/ since'[k] >= request'[r].served
    BY <1>2 DEF Served, KnownSince
  <2>1. PICK d \in SUBSET Keys, t \in Instant :
          /\ d = request[r].doc /\ t = request[r].served
          /\ t <= 0 /\ t >= last_attempt /\ t >= cache.served
          /\ KnownSince(d, t)
          /\ last_attempt \in Instant
    BY DEF Served, Attempted, TypeOK, RequestType
  <2>2. /\ request'[r].served = Aged(t) /\ request'[r].doc = d
        /\ cache'.served = Aged(cache.served) /\ last_attempt' = Aged(last_attempt)
    BY <1>1, <1>2, <1>3, <2>1
  <2>3. KnownSince(d, Aged(t))'
    BY <1>1, <2>1, AgedKnown
  <2>4. /\ Aged(t) \in Instant /\ Aged(t) <= 0
        /\ Aged(t) >= Aged(last_attempt) /\ Aged(t) >= Aged(cache.served)
    BY <1>3, <2>1, NullIsNone, Durations DEF Aged, Instant
  <2> QED
    BY <2>2, <2>3, <2>4 DEF KnownSince
<1>9. Cached'
  <2>1. PICK d \in SUBSET Keys, t \in Instant :
          d = cache.index /\ t = cache.served /\ KnownSince(d, t)
    BY <1>3 DEF Cached
  <2>2. KnownSince(d, Aged(t))'
    BY <1>1, <2>1, AgedKnown
  <2>3. Aged(t) <= 0 /\ Aged(cache.fetched_at) <= 0
        /\ Aged(t) >= Aged(cache.fetched_at) - HttpTimeout
    BY <1>3, <2>1, NullIsNone, Durations DEF Cached, Aged, Instant
  <2> QED
    BY <1>3, <2>1, <2>2, <2>3 DEF Cached, KnownSince
<1> QED
  BY <1>4, <1>5, <1>6, <1>7, <1>8, <1>9

LEMMA Inductive ==
    ASSUME IInv, [Next]_vars
    PROVE  IInv'
<1>1. CASE UNCHANGED vars
  BY <1>1 DEF vars, IInv, TypeOK, Tokened, Mutex, Attempted, Served, Cached, KnownSince
<1>2. CASE Next
  <2>1. CASE \E r \in Requests, t \in Tokens : Arrive(r, t)
    BY <2>1, ArriveKeeps
  <2>2. CASE \E r \in Requests : Lookup(r)
    BY <2>2, LookupKeeps
  <2>3. CASE \E r \in Requests : Acquire(r)
    BY <2>3, AcquireKeeps
  <2>4. CASE \E r \in Requests : FetchReturns(r)
    BY <2>4, FetchReturnsKeeps
  <2>5. CASE \E r \in Requests : FetchFails(r)
    BY <2>5, FetchFailsKeeps
  <2>6. CASE \E r \in Requests : Cancel(r)
    BY <2>6, CancelKeeps
  <2>7. CASE \E r \in Requests : Serve(r)
    BY <2>7, ServeKeeps
  <2>8. CASE \E k \in Rotating : Rotate(k)
    BY <2>8, RotateKeeps, VerifierConstants
  <2>9. CASE Tick
    BY <2>9, TickKeeps
  <2> QED
    BY <1>2, <2>1, <2>2, <2>3, <2>4, <2>5, <2>6, <2>7, <2>8, <2>9 DEF Next
<1> QED
  BY <1>1, <1>2

LEMMA Invariant == Spec => []IInv
<1>1. IInv /\ [Next]_vars => IInv'
  BY Inductive
<1> QED
  BY InitInv, <1>1, PTL DEF Spec

-----------------------------------------------------------------------------
(* Who accepts: a request that finds its key in a fresh cache, or in the   *)
(* document it fetched; either way its token lives at that time.           *)

Found(r) ==
    \/ Hit(r)
    \/ /\ request[r].pc = "fetch" /\ request[r].doc # Null
       /\ request[r].token.kid \in request[r].doc

LEMMA AcceptedIsVerdict ==
    ASSUME NEW t, Verdict(t) = "accepted"
    PROVE  NotExpired(t)
BY DEF Verdict

\* The answer of a request is its own step.
LEMMA OthersStay ==
    ASSUME TypeOK, NEW r \in Requests, NEW q \in Requests, q # r,
           \/ \E t \in Tokens : Arrive(q, t)
           \/ Lookup(q) \/ Acquire(q) \/ FetchReturns(q) \/ FetchFails(q) \/ Cancel(q) \/ Serve(q)
    PROVE  request'[r] = request[r]
BY DEF TypeOK, Arrive, Lookup, Acquire, Recheck, StartFetch, FetchReturns, FetchFails, Cancel,
       Serve, Goto, Answer

LEMMA AnswerIs ==
    ASSUME TypeOK, NEW r \in Requests, NEW result, Answer(r, result)
    PROVE  request'[r].pc = result
BY DEF TypeOK, Answer, At

LEMMA Acceptance ==
    ASSUME IInv, [Next]_vars, NEW r \in Requests, Ends(r, "accepted")
    PROVE  Found(r) /\ NotExpired(request[r].token)
<1>1. TypeOK /\ request[r].pc \in Verifying /\ request'[r].pc = "accepted"
  BY DEF Ends, IInv
<1>2. request'[r].pc # request[r].pc
  BY <1>1 DEF Verifying
<1>3. ~Tick /\ ~UNCHANGED vars /\ \A k \in Keys : ~Rotate(k)
  <2>1. AgedRequest(request[r]).pc = request[r].pc
    BY <1>1 DEF AgedRequest, TypeOK, RequestType
  <2>2. ~Tick
    BY <1>2, <2>1 DEF Tick
  <2> QED
    BY <1>2, <2>2 DEF vars, Rotate
<1>4. \/ \E t \in Tokens : Arrive(r, t)
      \/ Lookup(r) \/ Acquire(r) \/ FetchReturns(r) \/ FetchFails(r) \/ Cancel(r) \/ Serve(r)
  BY <1>1, <1>2, <1>3, OthersStay, VerifierConstants DEF Next
<1>5. CASE \E t \in Tokens : Arrive(r, t)
  BY <1>1, <1>5 DEF Arrive
<1>6. CASE Lookup(r)
  <2>1. Hit(r) /\ Answer(r, Verdict(request[r].token))
    BY <1>1, <1>6, GotoGoes DEF Lookup
  <2> QED
    BY <1>1, <2>1, AnswerIs, AcceptedIsVerdict DEF Found
<1>7. CASE Acquire(r)
  <2>1. CASE Hit(r)
    BY <1>1, <1>7, <2>1, AnswerIs, AcceptedIsVerdict DEF Acquire, Recheck, Found
  <2>2. CASE ~Hit(r) /\ Throttled
    BY <1>1, <1>7, <2>2, AnswerIs DEF Acquire, Recheck, WhenThrottled
  <2>3. CASE ~Hit(r) /\ ~Throttled
    BY <1>1, <1>7, <2>3, GotoGoes DEF Acquire, Recheck, StartFetch
  <2> QED
    BY <2>1, <2>2, <2>3
<1>8. CASE FetchReturns(r)
  <2>1. CASE request[r].doc = {}
    BY <1>1, <1>8, <2>1, AnswerIs DEF FetchReturns
  <2>2. CASE request[r].doc # {} /\ request[r].token.kid \in request[r].doc
    BY <1>1, <1>8, <2>2, AnswerIs, AcceptedIsVerdict DEF FetchReturns, Found
  <2>3. CASE request[r].doc # {} /\ request[r].token.kid \notin request[r].doc
    BY <1>1, <1>8, <2>3, AnswerIs DEF FetchReturns
  <2> QED
    BY <2>1, <2>2, <2>3
<1>9. CASE FetchFails(r) \/ Cancel(r)
  BY <1>1, <1>9, AnswerIs DEF FetchFails, Cancel
<1>10. CASE Serve(r)
  BY <1>1, <1>2, <1>10 DEF Serve, TypeOK, RequestType
<1> QED
  BY <1>4, <1>5, <1>6, <1>7, <1>8, <1>9, <1>10

\* Wherever a key was found, the provider sent it recently enough.
LEMMA FoundIsRecent ==
    ASSUME IInv, NEW r \in Requests, Found(r)
    PROVE  LET k == request[r].token.kid
           IN  k \in published \/ Within(since[k], MaxAge + HttpTimeout)
<1> DEFINE k == request[r].token.kid
<1>1. PICK doc \in SUBSET Keys, t \in Instant :
        k \in doc /\ KnownSince(doc, t) /\ t > -(MaxAge + HttpTimeout)
  <2>1. CASE Hit(r)
    <3>1. /\ cache.index \in SUBSET Keys /\ cache.served \in Instant
          /\ cache.fetched_at \in Instant /\ cache.fetched_at > -MaxAge
      BY <2>1, Durations DEF Hit, Fresh, Within, NOW, IInv, TypeOK, Instant
    <3>2. cache.served > -(MaxAge + HttpTimeout)
      BY <3>1, Durations DEF IInv, Cached, Instant
    <3> QED
      BY <2>1, <3>1, <3>2 DEF Hit, IInv, Cached
  <2>2. CASE /\ request[r].pc = "fetch" /\ request[r].doc # Null
             /\ k \in request[r].doc
    <3>1. /\ request[r].doc \in SUBSET Keys /\ request[r].served \in Instant
          /\ KnownSince(request[r].doc, request[r].served)
          /\ request[r].served >= last_attempt
          /\ last_attempt \in Instant /\ last_attempt >= -HttpTimeout
      BY <2>2 DEF IInv, Served, Attempted, TypeOK, RequestType
    <3>2. request[r].served > -(MaxAge + HttpTimeout)
      BY <3>1, Durations DEF Instant
    <3> QED
      BY <2>2, <3>1, <3>2
  <2> QED
    BY <2>1, <2>2 DEF Found
<1>2. since[k] \in Instant
  BY <1>1 DEF IInv, TypeOK
<1> QED
  BY <1>1, <1>2, Durations DEF KnownSince, Within, NOW, Instant

-----------------------------------------------------------------------------
(* Who refuses.  What a document lacks is not published, or was published  *)
(* after the provider sent it; and a refresh that is over and did not fail *)
(* left what it fetched in the cache.                                      *)

UnknownSince(doc, t) == \A k \in Keys \ doc : k \notin published \/ since[k] >= t

Complete ==
    /\ UnknownSince(cache.index, cache.served)
    /\ \A r \in Requests : request[r].pc = "fetch" /\ request[r].doc # Null =>
          UnknownSince(request[r].doc, request[r].served)

LastSucceeded == holder = Null /\ ~failed /\ last_attempt # Null => cache.served >= last_attempt

LEMMA InitComplete == Init => Complete /\ LastSucceeded
BY DEF Init, Complete, UnknownSince, LastSucceeded, At

\* A response that comes to nobody, or no new one, leaves what is known.
LEMMA CompleteUnless ==
    ASSUME Complete, UNCHANGED <<published, since, cache>>,
           \A r \in Requests : request'[r].pc = "fetch" /\ request'[r].doc # Null =>
              request'[r] = request[r]
    PROVE  Complete'
BY DEF Complete, UnknownSince

\* What a document lacks stays unknown since an older time.
LEMMA AgedUnknown ==
    ASSUME TypeOK, NEW doc \in SUBSET Keys, NEW t \in Instant, UnknownSince(doc, t),
           published' = published, since' = [k \in Keys |-> Aged(since[k])]
    PROVE  UnknownSince(doc, Aged(t))'
<1> SUFFICES ASSUME NEW k \in Keys \ doc, k \in published
             PROVE  since'[k] >= Aged(t)
  BY DEF UnknownSince
<1>1. since[k] \in Instant /\ since[k] >= t
  BY DEF UnknownSince, TypeOK
<1>2. Aged(t) <= Aged(since[k])
  BY <1>1, Ageing DEF Instant
<1> QED
  BY <1>2, <1>1, Ageing DEF Instant

LEMMA RotateComplete ==
    ASSUME IInv, Complete, NEW k \in Keys, Rotate(k)
    PROVE  Complete'
<1>1. /\ \A j \in Keys \ {k} : (j \in published' <=> j \in published) /\ since'[j] = since[j]
      /\ since'[k] = 0
      /\ UNCHANGED <<cache, request>>
  BY NowIsInstant DEF Rotate, IInv, TypeOK
<1>2. ASSUME NEW doc, NEW t \in Int, t <= 0, UnknownSince(doc, t)
      PROVE  UnknownSince(doc, t)'
  BY <1>1, <1>2 DEF UnknownSince
<1>3. cache.served \in Int /\ cache.served <= 0
  BY DEF IInv, TypeOK, Cached, Instant
<1>4. \A r \in Requests : request[r].pc = "fetch" /\ request[r].doc # Null =>
         request[r].served \in Int /\ request[r].served <= 0
  BY DEF IInv, Served, Instant
<1> QED
  BY <1>1, <1>2, <1>3, <1>4 DEF Complete, UnknownSince

LEMMA TickComplete ==
    ASSUME IInv, Complete, Tick
    PROVE  Complete'
<1>1. TypeOK /\ published' = published /\ since' = [k \in Keys |-> Aged(since[k])]
  BY DEF IInv, Tick
<1>2. UnknownSince(cache.index, cache.served)'
  <2>1. /\ cache.index \in SUBSET Keys /\ cache.served \in Instant
        /\ cache'.index = cache.index /\ cache'.served = Aged(cache.served)
    BY <1>1 DEF TypeOK, Tick
  <2>2. PICK d \in SUBSET Keys, t \in Instant :
          d = cache.index /\ t = cache.served /\ UnknownSince(d, t)
    BY <2>1 DEF Complete
  <2>3. UnknownSince(d, Aged(t))'
    BY <1>1, <2>2, AgedUnknown
  <2> QED
    BY <2>1, <2>2, <2>3 DEF UnknownSince
<1>3. ASSUME NEW r \in Requests, request'[r].pc = "fetch", request'[r].doc # Null
      PROVE  UnknownSince(request[r].doc, request[r].served)'
  <2>1. /\ request[r] \in RequestType
        /\ request'[r].pc = request[r].pc /\ request'[r].doc = request[r].doc
        /\ request'[r].served = Aged(request[r].served)
    BY <1>1 DEF TypeOK, Tick, AgedRequest, RequestType
  <2>2. PICK d \in SUBSET Keys, t \in Instant :
          d = request[r].doc /\ t = request[r].served /\ UnknownSince(d, t)
    BY <1>3, <2>1 DEF Complete, IInv, Served, RequestType
  <2>3. UnknownSince(d, Aged(t))'
    BY <1>1, <2>2, AgedUnknown
  <2> QED
    BY <2>1, <2>2, <2>3 DEF UnknownSince
<1> QED
  BY <1>2, <1>3 DEF Complete, UnknownSince

\* The one who fetches ends its refresh with the keys, or notes that it failed.
LEMMA StepComplete ==
    ASSUME IInv, Complete, LastSucceeded, [Next]_vars
    PROVE  Complete' /\ LastSucceeded'
<1>1. CASE UNCHANGED vars
  BY <1>1 DEF vars, Complete, UnknownSince, LastSucceeded
<1>2. ASSUME NEW r \in Requests, NEW t \in Tokens, Arrive(r, t)
      PROVE  Complete' /\ LastSucceeded'
  <2>1. UNCHANGED <<published, since, cache, last_attempt, holder, failed>>
    BY <1>2 DEF Arrive
  <2>2. \A q \in Requests : request'[q].pc = "fetch" => request'[q] = request[q]
    BY <1>2 DEF Arrive, At, IInv, TypeOK
  <2> QED
    BY <2>1, <2>2, CompleteUnless DEF LastSucceeded
<1>3. ASSUME NEW r \in Requests, Lookup(r)
      PROVE  Complete' /\ LastSucceeded'
  <2>1. UNCHANGED <<published, since, cache, last_attempt, holder, failed>>
    BY <1>3 DEF Lookup
  <2>2. Answer(r, Verdict(request[r].token)) \/ Goto(r, "lock")
    BY <1>3 DEF Lookup
  <2>3. \A q \in Requests : request'[q].pc = "fetch" => request'[q] = request[q]
    BY <2>2, VerdictIsResult DEF Answer, Goto, At, IInv, TypeOK, Results
  <2> QED
    BY <2>1, <2>3, CompleteUnless DEF LastSucceeded
<1>4. ASSUME NEW r \in Requests, Acquire(r)
      PROVE  Complete' /\ LastSucceeded'
  <2>1. UNCHANGED <<published, since, cache, failed>>
    BY <1>4 DEF Acquire
  <2>2. CASE UNCHANGED <<last_attempt, holder>> /\ \E result \in Results : Answer(r, result)
    <3>1. \A q \in Requests : request'[q].pc = "fetch" => request'[q] = request[q]
      BY <2>2 DEF Answer, At, IInv, TypeOK, Results
    <3> QED
      BY <2>1, <2>2, <3>1, CompleteUnless DEF LastSucceeded
  <2>3. CASE StartFetch(r)
    <3>1. /\ \A q \in Requests \ {r} : request'[q] = request[q]
          /\ request'[r].doc = Null /\ holder' = r
      BY <2>3, GotoGoes DEF StartFetch, IInv
    <3>2. Complete'
      BY <2>1, <3>1, CompleteUnless
    <3> QED
      BY <3>1, <3>2, NullIsNone DEF LastSucceeded
  <2> QED
    BY <1>4, <2>2, <2>3, VerdictIsResult, WhenThrottledIsResult DEF Acquire, Recheck
<1>5. ASSUME NEW r \in Requests, FetchReturns(r)
      PROVE  Complete' /\ LastSucceeded'
  <2> DEFINE q == request[r]
  <2>1. /\ q.pc = "fetch" /\ q.doc # Null /\ UNCHANGED <<published, since, last_attempt>>
        /\ \A p \in Requests \ {r} : request'[p] = request[p]
        /\ request'[r].pc # "fetch"
    <3>1. PICK result \in Results : Answer(r, result)
      BY <1>5, VerdictIsResult DEF FetchReturns, Results
    <3> QED
      BY <1>5, <3>1 DEF FetchReturns, Answer, At, IInv, TypeOK, Results
  <2>2. CASE q.doc = {}
    <3>1. failed' = TRUE /\ cache' = cache
      BY <1>5, <2>2 DEF FetchReturns
    <3>2. Complete'
      BY <2>1, <3>1, CompleteUnless
    <3> QED
      BY <3>1, <3>2 DEF LastSucceeded
  <2>3. CASE q.doc # {}
    <3>1. cache'.index = q.doc /\ cache'.served = q.served
      BY <1>5, <2>3 DEF FetchReturns, Installed
    <3>2. UnknownSince(q.doc, q.served) /\ q.served >= last_attempt
      BY <2>1 DEF Complete, IInv, Served
    <3>3. \A p \in Requests : request'[p].pc # "fetch"
      BY <2>1, NullIsNone DEF IInv, Mutex
    <3> QED
      BY <2>1, <3>1, <3>2, <3>3 DEF Complete, UnknownSince, LastSucceeded
  <2> QED
    BY <2>2, <2>3
<1>6. ASSUME NEW r \in Requests, FetchFails(r) \/ Cancel(r)
      PROVE  Complete' /\ LastSucceeded'
  <2>1. UNCHANGED <<published, since, cache, last_attempt>>
    BY <1>6 DEF FetchFails, Cancel
  <2>2. \A q \in Requests : request'[q].pc = "fetch" => request'[q] = request[q]
    BY <1>6 DEF FetchFails, Cancel, Answer, At, IInv, TypeOK
  <2>3. holder' = Null => failed' = TRUE \/ (failed' = failed /\ holder = Null)
    BY <1>6, NullIsNone DEF FetchFails, Cancel, IInv, Mutex, TypeOK
  <2>4. Complete'
    BY <2>1, <2>2, CompleteUnless
  <2> QED
    BY <2>1, <2>3, <2>4 DEF LastSucceeded
<1>7. ASSUME NEW r \in Requests, Serve(r)
      PROVE  Complete' /\ LastSucceeded'
  <2>1. /\ UNCHANGED <<published, since, cache, last_attempt, holder, failed>>
        /\ request'[r].doc = published
        /\ \A q \in Requests \ {r} : request'[q] = request[q]
    BY <1>7 DEF Serve, IInv, TypeOK, RequestType
  <2> QED
    BY <2>1 DEF Complete, UnknownSince, LastSucceeded
<1>8. ASSUME NEW k \in Rotating, Rotate(k)
      PROVE  Complete' /\ LastSucceeded'
  <2>1. UNCHANGED <<cache, last_attempt, holder, failed>> /\ k \in Keys
    BY <1>8, VerifierConstants DEF Rotate
  <2> QED
    BY <1>8, <2>1, RotateComplete DEF LastSucceeded
<1>9. CASE Tick
  <2>1. /\ cache'.served = Aged(cache.served) /\ last_attempt' = Aged(last_attempt)
        /\ holder' = holder /\ failed' = failed
        /\ cache.served \in Instant /\ last_attempt \in Instant \cup {Null}
    BY <1>9 DEF Tick, IInv, TypeOK
  <2>2. last_attempt # Null /\ cache.served >= last_attempt => cache'.served >= last_attempt'
    BY <2>1, Ageing DEF Instant
  <2>3. last_attempt = Null => last_attempt' = Null
    BY <2>1 DEF Aged
  <2> QED
    BY <1>9, <2>1, <2>2, <2>3, TickComplete DEF LastSucceeded
<1> QED
  BY <1>1, <1>2, <1>3, <1>4, <1>5, <1>6, <1>7, <1>8, <1>9 DEF Next

LEMMA AlwaysComplete == Spec => [](IInv /\ Complete /\ LastSucceeded)
<1>1. Init => IInv /\ Complete /\ LastSucceeded
  BY InitInv, InitComplete
<1>2. (IInv /\ Complete /\ LastSucceeded) /\ [Next]_vars => (IInv /\ Complete /\ LastSucceeded)'
  BY Inductive, StepComplete
<1> QED
  BY <1>1, <1>2, PTL DEF Spec

\* Why a request was told that its token is invalid.
Explained(r) ==
    LET t == request[r].token
    IN  \/ t.signer # t.kid \/ ~NotExpired(t)
        \/ t.kid \notin published \/ Within(since[t.kid], Lag + 1)
        \/ failed

LEMMA RefusedByVerdict ==
    ASSUME NEW r, Verdict(request[r].token) = "invalid_token"
    PROVE  Explained(r)
BY DEF Verdict, Explained

LEMMA LagCovers == Lag \in Nat /\ Lag >= RefreshInterval /\ Lag >= HttpTimeout
BY Durations DEF Lag

LEMMA Refusal ==
    ASSUME IInv, Complete, LastSucceeded, [Next]_vars, NEW r \in Requests,
           Ends(r, "invalid_token")
    PROVE  Explained(r)
<1>1. TypeOK /\ request[r].pc \in Verifying /\ request'[r].pc = "invalid_token"
  BY DEF Ends, IInv
<1>2. request'[r].pc # request[r].pc
  BY <1>1 DEF Verifying
<1>3. ~Tick /\ ~UNCHANGED vars /\ \A k \in Keys : ~Rotate(k)
  <2>1. AgedRequest(request[r]).pc = request[r].pc
    BY <1>1 DEF AgedRequest, TypeOK, RequestType
  <2>2. ~Tick
    BY <1>2, <2>1 DEF Tick
  <2> QED
    BY <1>2, <2>2 DEF vars, Rotate
<1>4. \/ \E t \in Tokens : Arrive(r, t)
      \/ Lookup(r) \/ Acquire(r) \/ FetchReturns(r) \/ FetchFails(r) \/ Cancel(r) \/ Serve(r)
  BY <1>1, <1>2, <1>3, OthersStay, VerifierConstants DEF Next
<1> DEFINE k == request[r].token.kid
<1>5. k \in Keys /\ since[k] \in Instant
  BY <1>1 DEF IInv, Tokened, TokenGood, TokenType, TypeOK
<1>6. CASE \E t \in Tokens : Arrive(r, t)
  BY <1>1, <1>6 DEF Arrive
<1>7. CASE Lookup(r)
  <2>1. Hit(r) /\ Answer(r, Verdict(request[r].token))
    BY <1>1, <1>7, GotoGoes DEF Lookup
  <2> QED
    BY <1>1, <2>1, AnswerIs, RefusedByVerdict
<1>8. CASE Acquire(r)
  <2>1. CASE Hit(r)
    BY <1>1, <1>8, <2>1, AnswerIs, RefusedByVerdict DEF Acquire, Recheck
  <2>2. CASE ~Hit(r) /\ Throttled
    <3>1. Fresh /\ holder = Null
      BY <1>1, <1>8, <2>2, AnswerIs DEF Acquire, Recheck, WhenThrottled
    <3>2. k \notin cache.index
      BY <2>2, <3>1 DEF Hit
    <3>3. /\ last_attempt \in Instant /\ last_attempt > -RefreshInterval
          /\ last_attempt # Null /\ cache.served \in Instant
      BY <1>1, <2>2, Durations DEF Throttled, Within, NOW, TypeOK, Instant
    <3>4. failed \/ cache.served >= last_attempt
      BY <3>1, <3>3 DEF LastSucceeded
    <3>5. k \notin published \/ since[k] >= cache.served
      BY <1>5, <3>2 DEF Complete, UnknownSince
    <3>6. failed \/ k \notin published \/ since[k] > -(Lag + 1)
      BY <1>5, <3>3, <3>4, <3>5, LagCovers, Durations DEF Instant
    <3> QED
      BY <1>5, <3>6, LagCovers DEF Explained, Within, NOW, Instant
  <2>3. CASE ~Hit(r) /\ ~Throttled
    BY <1>1, <1>8, <2>3, GotoGoes DEF Acquire, Recheck, StartFetch
  <2> QED
    BY <2>1, <2>2, <2>3
<1>9. CASE FetchReturns(r)
  <2>1. CASE request[r].doc = {}
    BY <1>1, <1>9, <2>1, AnswerIs DEF FetchReturns
  <2>2. CASE request[r].doc # {} /\ k \in request[r].doc
    BY <1>1, <1>9, <2>2, AnswerIs, RefusedByVerdict DEF FetchReturns
  <2>3. CASE request[r].doc # {} /\ k \notin request[r].doc
    <3>1. request[r].pc = "fetch" /\ request[r].doc # Null
      BY <1>9 DEF FetchReturns
    <3>2. /\ request[r].served \in Instant /\ request[r].served >= last_attempt
          /\ last_attempt \in Instant /\ last_attempt >= -HttpTimeout
      BY <3>1 DEF IInv, Served, Attempted
    <3>3. k \notin published \/ since[k] >= request[r].served
      BY <1>5, <2>3, <3>1 DEF Complete, UnknownSince
    <3>4. k \notin published \/ since[k] > -(Lag + 1)
      BY <1>5, <3>2, <3>3, LagCovers, Durations DEF Instant
    <3> QED
      BY <1>5, <3>4, LagCovers DEF Explained, Within, NOW, Instant
  <2> QED
    BY <2>1, <2>2, <2>3
<1>10. CASE FetchFails(r) \/ Cancel(r)
  BY <1>1, <1>10, AnswerIs DEF FetchFails, Cancel
<1>11. CASE Serve(r)
  BY <1>1, <1>2, <1>11 DEF Serve, TypeOK, RequestType
<1> QED
  BY <1>4, <1>6, <1>7, <1>8, <1>9, <1>10, <1>11

-----------------------------------------------------------------------------
(* Theorems. *)

\* The variables keep their types, whatever the constants.
THEOREM Types == Spec => []TypeOK
<1>1. IInv => TypeOK
  BY DEF IInv
<1> QED
  BY Invariant, <1>1, PTL

\* key_for holds the mutex from the attempt to the installation of what it
\* fetched, so an older document never replaces a newer one.
THEOREM CacheGoesForward == Spec => CacheNeverRegresses
<1>1. ASSUME IInv, [Next]_vars, cache'.index # cache.index
      PROVE  cache'.served >= cache.served
  <2>1. PICK r \in Requests : FetchReturns(r) /\ request[r].doc # {}
    BY <1>1, VerifierConstants
       DEF Next, vars, Arrive, Lookup, Acquire, FetchReturns, FetchFails, Cancel, Serve, Rotate,
           Tick, IInv, TypeOK
  <2>2. cache'.served = request[r].served /\ request[r].pc = "fetch" /\ request[r].doc # Null
    BY <2>1 DEF FetchReturns, Installed
  <2> QED
    BY <1>1, <2>2 DEF IInv, Served
<1>2. IInv /\ [Next]_vars => [cache'.index # cache.index => cache'.served >= cache.served]_vars
  BY <1>1
<1> QED
  BY Invariant, <1>2, PTL DEF Spec, CacheNeverRegresses

\* verify decodes again after every wait, so that a token that is accepted
\* lives then, and was issued no longer ago than its lifetime may be.
THEOREM AcceptedTokensLive == Spec => AcceptedTokenLive
<1>1. ASSUME IInv, [Next]_vars, NEW r \in Requests, Ends(r, "accepted")
      PROVE  /\ request[r].token.exp >= NOW - ClockSkew
             /\ request[r].token.iat >= NOW - (MaxLifetime + ClockSkew)
  <2>1. NotExpired(request[r].token)
    BY <1>1, Acceptance
  <2>2. TokenGood(request[r].token)
    BY <1>1 DEF IInv, Tokened, Ends
  <2> QED
    BY <2>1, <2>2, Durations DEF NotExpired, TokenGood, TokenType, Instant, NOW
<1>2. IInv /\ [Next]_vars =>
        [\A r \in Requests : Ends(r, "accepted") =>
            LET t == request[r].token
            IN  /\ t.exp >= NOW - ClockSkew
                /\ t.iat >= NOW - (MaxLifetime + ClockSkew)]_vars
  BY <1>1
<1> QED
  BY Invariant, <1>2, PTL DEF Spec, AcceptedTokenLive

\* A cached key is used for jwks_max_age after it was installed, and what is
\* installed was sent within the timeout of the fetch: no key is accepted
\* longer than both together after its withdrawal.
THEOREM AcceptedKeysPublished == Spec => AcceptedKeyRecentlyPublished
<1>1. ASSUME IInv, [Next]_vars, NEW r \in Requests, Ends(r, "accepted")
      PROVE  LET k == request[r].token.kid
             IN  k \in published \/ Within(since[k], MaxAge + HttpTimeout)
  BY <1>1, Acceptance, FoundIsRecent
<1>2. IInv /\ [Next]_vars =>
        [\A r \in Requests : Ends(r, "accepted") =>
            LET k == request[r].token.kid
            IN  k \in published \/ Within(since[k], MaxAge + HttpTimeout)]_vars
  BY <1>1
<1> QED
  BY Invariant, <1>2, PTL DEF Spec, AcceptedKeyRecentlyPublished

\* A throttled miss is answered from a cache that the last refresh, unless it
\* failed, has filled since: a token that lives and whose key the provider has
\* published for longer than Lag is refused as invalid only after a failure.
THEOREM RefusalsExplained == Spec => RefusalExplained
<1>1. (IInv /\ Complete /\ LastSucceeded) /\ [Next]_vars =>
        [\A r \in Requests : Ends(r, "invalid_token") =>
            LET t == request[r].token
            IN  \/ t.signer # t.kid \/ ~NotExpired(t)
                \/ t.kid \notin published \/ Within(since[t.kid], Lag + 1)
                \/ failed]_vars
  BY Refusal DEF Explained
<1> QED
  BY AlwaysComplete, <1>1, PTL DEF Spec, RefusalExplained
=============================================================================
