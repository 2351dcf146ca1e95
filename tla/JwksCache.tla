----------------------------- MODULE JwksCache -----------------------------
(***************************************************************************)
(* Access-token verification with the provider's published keys            *)
(* (src/src/infrastructure/oidc/mod.rs): concurrent requests share one key *)
(* cache; a request that misses it may refresh it under a mutex.           *)
(*                                                                         *)
(* A key stands for a (kid, algorithm) pair of the index; JwkIndex.tla is  *)
(* about how the index is computed from a document.  A step is what a task *)
(* does between two awaits; time may pass between any two steps.           *)
(***************************************************************************)
EXTENDS RelativeTime, FiniteSets

CONSTANTS
    Requests,         \* request tasks
    Keys,             \* (kid, algorithm) pairs of the provider's documents
    Rotating,         \* BOUND: those it publishes and withdraws while we look
    Tokens,           \* tokens clients present, at the time they present them
    MaxAge,           \* jwks_max_age
    RefreshInterval,  \* refresh_interval
    HttpTimeout,      \* timeout of the metadata client
    ClockSkew,        \* clock_skew_seconds
    MaxLifetime       \* max_token_lifetime_seconds

VARIABLES
    published,        \* the keys of the document the provider serves
    since,            \* HISTORY: key -> when it was last published or withdrawn
    cache,            \* CachedKeys; `served` is HISTORY: when the provider sent it
    last_attempt,     \* RefreshState
    holder,           \* the request that holds the refresh mutex
    request,          \* request -> its progress
    failed            \* HISTORY: the last refresh brought no keys

vars == <<published, since, cache, last_attempt, holder, request, failed>>

\* OidcConfig::from_env: every duration is positive, and see validate.
ValidConfig ==
    /\ {RefreshInterval, MaxAge, HttpTimeout, ClockSkew, MaxLifetime} \subseteq Nat \ {0}
    /\ MaxAge >= RefreshInterval

ASSUME VerifierConstants ==
    /\ ValidConfig
    /\ Rotating \subseteq Keys
    /\ Tokens \subseteq [kid : Keys, signer : Keys, iat : Int, exp : Int]
    /\ Null \notin Int
    /\ \A doc \in SUBSET Keys : doc # Null
    /\ Null \notin Requests

ASSUME HorizonCoversAges ==
    /\ Horizon \in Nat
    /\ Horizon > MaxAge + HttpTimeout
    /\ Horizon > MaxLifetime + ClockSkew
    /\ \A t \in Tokens : t.iat >= -Horizon /\ t.exp >= -Horizon

-----------------------------------------------------------------------------
(* pc of a request: "lookup" before the first read of the cache, "lock"    *)
(* waiting for the mutex, "fetch" awaiting the provider with the mutex;    *)
(* the others are the results of verify, or none.                          *)

Verifying == {"lookup", "lock", "fetch"}
Results == {"accepted", "invalid_token", "unavailable"}

TokenType == [kid : Keys, signer : Keys, iat : Instant, exp : Instant]

RequestType ==
    [pc     : Verifying \cup Results \cup {"idle"},
     token  : {Null} \cup TokenType,
     doc    : {Null} \cup SUBSET Keys,      \* the response body on its way
     served : Instant \cup {Null}]           \* HISTORY: when it was sent

AgedToken(t) == IF t = Null THEN t ELSE [t EXCEPT !.iat = Aged(@), !.exp = Aged(@)]

AgedRequest(q) == [q EXCEPT !.token = AgedToken(@), !.served = Aged(@)]

\* elapsed() < limit, for an instant.
Within(t, limit) == t > NOW - limit

Fresh == Within(cache.fetched_at, MaxAge)

Throttled == last_attempt # Null /\ Within(last_attempt, RefreshInterval)

-----------------------------------------------------------------------------
(* The claims of a token. *)

\* exp as jsonwebtoken validates it, with the leeway of the code.
NotExpired(t) == t.exp >= NOW - ClockSkew

\* What verify checks before it looks for a key.  Malformed tokens, wrong
\* issuers or audiences and the like end the same way as bad times.
Plausible(t) ==
    /\ NotExpired(t)
    /\ t.iat <= NOW + ClockSkew
    /\ t.exp >= t.iat
    /\ t.exp - t.iat <= MaxLifetime

\* MUTANT of Verdict: the time claims of the first check are still trusted.
VerdictWithoutTime(t) == IF t.signer = t.kid THEN "accepted" ELSE "invalid_token"

\* The second decode, with the key: signature and time claims.
Verdict(t) == IF t.signer = t.kid /\ NotExpired(t) THEN "accepted" ELSE "invalid_token"

-----------------------------------------------------------------------------
(* A request. *)

At(pc, token) == [pc |-> pc, token |-> token, doc |-> Null, served |-> Null]

\* The request goes on to pc; Answer ends it.
Goto(r, pc) == request' = [request EXCEPT ![r] = At(pc, request[r].token)]

Answer(r, result) == request' = [request EXCEPT ![r] = At(result, Null)]

\* verify up to key_for.
Arrive(r, t) ==
    /\ request[r].pc \notin Verifying
    /\ request' = [request EXCEPT
          ![r] = IF Plausible(t) THEN At("lookup", t) ELSE At("invalid_token", Null)]
    /\ UNCHANGED <<published, since, cache, last_attempt, holder, failed>>

\* MUTANT of Hit: a cached key is used whatever its age.
HitWhenStale(r) == request[r].token.kid \in cache.index

Hit(r) == Fresh /\ request[r].token.kid \in cache.index

\* key_for, the read lock: the cached key, or on to the mutex.
Lookup(r) ==
    /\ request[r].pc = "lookup"
    /\ IF Hit(r) THEN Answer(r, Verdict(request[r].token)) ELSE Goto(r, "lock")
    /\ UNCHANGED <<published, since, cache, last_attempt, holder, failed>>

StartFetch(r) ==
    /\ last_attempt' = NOW
    /\ holder' = r
    /\ Goto(r, "fetch")

\* The result of a request that may not refresh now.
WhenThrottled == IF Fresh THEN "invalid_token" ELSE "unavailable"

\* MUTANT of Recheck: refused attempts push the throttle forward.
RecheckRestartsThrottle(r) ==
    IF Hit(r) THEN Answer(r, Verdict(request[r].token)) /\ UNCHANGED <<last_attempt, holder>>
    ELSE IF Throttled THEN /\ Answer(r, WhenThrottled)
                           /\ last_attempt' = NOW
                           /\ UNCHANGED holder
    ELSE StartFetch(r)

\* MUTANT of Recheck: no second look at the cache.
RecheckWithoutLook(r) ==
    IF Throttled THEN Answer(r, WhenThrottled) /\ UNCHANGED <<last_attempt, holder>>
    ELSE StartFetch(r)

\* key_for with the mutex: look again, then refresh unless throttled.
Recheck(r) ==
    IF Hit(r) THEN Answer(r, Verdict(request[r].token)) /\ UNCHANGED <<last_attempt, holder>>
    ELSE IF Throttled THEN Answer(r, WhenThrottled) /\ UNCHANGED <<last_attempt, holder>>
    ELSE StartFetch(r)

\* MUTANT of Acquire: the mutex is not held while the document is fetched.
AcquireUnguarded(r) ==
    /\ request[r].pc = "lock"
    /\ Recheck(r)
    /\ UNCHANGED <<published, since, cache, failed>>

\* The mutex is granted, and released again unless a fetch starts.
Acquire(r) ==
    /\ request[r].pc = "lock"
    /\ holder = Null
    /\ Recheck(r)
    /\ UNCHANGED <<published, since, cache, failed>>

\* CachedKeys as a refresh leaves it; its age counts from now.
Installed(q) == [index |-> q.doc, fetched_at |-> NOW, served |-> q.served]

\* The document arrived.  One without a usable key is refused; any other
\* replaces the whole cache, then the request looks its key up in it.
FetchReturns(r) ==
    /\ request[r].pc = "fetch"
    /\ request[r].doc # Null
    /\ LET q == request[r]
       IN  IF q.doc = {}
           THEN /\ Answer(r, "unavailable")
                /\ failed' = TRUE
                /\ UNCHANGED cache
           ELSE /\ Answer(r, IF q.token.kid \in q.doc THEN Verdict(q.token)
                                                      ELSE "invalid_token")
                /\ failed' = FALSE
                /\ cache' = Installed(q)
    /\ holder' = Null
    /\ UNCHANGED <<published, since, last_attempt>>

\* No connection, a status other than 2xx, too large a body, a timeout, no
\* JSON, or a selected key that cannot be decoded.
FetchFails(r) ==
    /\ request[r].pc = "fetch"
    /\ Answer(r, "unavailable")
    /\ failed' = TRUE
    /\ holder' = Null
    /\ UNCHANGED <<published, since, cache, last_attempt>>

\* The router's TimeoutLayer, or a client that goes away, drops the future:
\* the mutex guard with it, the time of the attempt stays.
Cancel(r) ==
    /\ request[r].pc \in Verifying
    /\ Answer(r, "idle")
    /\ holder' = IF holder = r THEN Null ELSE holder
    /\ failed' = (failed \/ request[r].pc = "fetch")
    /\ UNCHANGED <<published, since, cache, last_attempt>>

-----------------------------------------------------------------------------
(* The provider and time. *)

\* The provider answers the request in flight with its present document.
Serve(r) ==
    /\ request[r].pc = "fetch"
    /\ request[r].doc = Null
    /\ request' = [request EXCEPT ![r].doc = published, ![r].served = NOW]
    /\ UNCHANGED <<published, since, cache, last_attempt, holder, failed>>

\* The provider publishes key k, or withdraws it.
Rotate(k) ==
    /\ published' = IF k \in published THEN published \ {k} ELSE published \cup {k}
    /\ since' = [since EXCEPT ![k] = NOW]
    /\ UNCHANGED <<cache, last_attempt, holder, request, failed>>

\* Time passes; a fetch is over when the client's timeout has elapsed.
Tick ==
    /\ \A r \in Requests : request[r].pc = "fetch" => last_attempt > NOW - HttpTimeout
    /\ since' = [k \in Keys |-> Aged(since[k])]
    /\ cache' = [cache EXCEPT !.fetched_at = Aged(@), !.served = Aged(@)]
    /\ last_attempt' = Aged(last_attempt)
    /\ request' = [r \in Requests |-> AgedRequest(request[r])]
    /\ UNCHANGED <<published, holder, failed>>

\* discover succeeded: the first document had a usable key.
Init ==
    /\ published \in SUBSET Keys \ {{}}
    /\ since = [k \in Keys |-> -Horizon]
    /\ cache = [index |-> published, fetched_at |-> NOW, served |-> NOW]
    /\ last_attempt = Null
    /\ holder = Null
    /\ request = [r \in Requests |-> At("idle", Null)]
    /\ failed = FALSE

Next ==
    \/ \E r \in Requests, t \in Tokens : Arrive(r, t)
    \/ \E r \in Requests :
          Lookup(r) \/ Acquire(r) \/ FetchReturns(r) \/ FetchFails(r) \/ Cancel(r) \/ Serve(r)
    \/ \E k \in Rotating : Rotate(k)
    \/ Tick

Spec == Init /\ [][Next]_vars

\* Fairness.  Time passes, tasks that can run are polled, the provider answers
\* and clients keep presenting each kind of token.  The strong form for the
\* mutex is the FIFO order in which tokio grants it.
Fairness ==
    /\ WF_vars(Tick)
    /\ \A r \in Requests :
          /\ WF_vars(Lookup(r)) /\ SF_vars(Acquire(r))
          /\ WF_vars(Serve(r)) /\ WF_vars(FetchReturns(r))
          /\ \A t \in Tokens : SF_vars(Arrive(r, t))

Fault == \E r \in Requests : FetchFails(r) \/ Cancel(r)

\* Fetches stop failing and requests stop being dropped at some point.
LiveSpec == Spec /\ Fairness /\ <>[][~Fault]_vars

-----------------------------------------------------------------------------
(* Properties. *)

\* TYPE.
TypeOK ==
    /\ published \subseteq Keys
    /\ since \in [Keys -> Instant]
    /\ cache \in [index : SUBSET Keys, fetched_at : Instant, served : Instant]
    /\ last_attempt \in Instant \cup {Null}
    /\ holder \in Requests \cup {Null}
    /\ request \in [Requests -> RequestType]
    /\ failed \in BOOLEAN

Ends(r, result) == request[r].pc \in Verifying /\ request'[r].pc = result

\* A withdrawn key outlives its withdrawal by less than the cache's maximum
\* age and one fetch, whatever waits, races, failures and cancellations the
\* request met in between.
AcceptedKeyRecentlyPublished ==
    [][\A r \in Requests : Ends(r, "accepted") =>
          LET k == request[r].token.kid
          IN  k \in published \/ Within(since[k], MaxAge + HttpTimeout)]_vars

\* A token is accepted only while it lives, also when the request waited for
\* the mutex or the provider after its claims were first checked; and never
\* later than the permitted lifetime after it was issued.
AcceptedTokenLive ==
    [][\A r \in Requests : Ends(r, "accepted") =>
          LET t == request[r].token
          IN  /\ t.exp >= NOW - ClockSkew
              /\ t.iat >= NOW - (MaxLifetime + ClockSkew)]_vars

\* The cache never goes back to an older document: a slow fetch cannot bring
\* a withdrawn key back over a newer key set.
CacheNeverRegresses ==
    [][cache'.index # cache.index => cache'.served >= cache.served]_vars

\* Longest time the verifier may not know of a key while all goes well.
Lag == IF RefreshInterval > HttpTimeout THEN RefreshInterval ELSE HttpTimeout

\* A token that is signed and alive is refused as invalid, its key being
\* published for longer than Lag, only if the last refresh brought no keys.
RefusalExplained ==
    [][\A r \in Requests : Ends(r, "invalid_token") =>
          LET t == request[r].token
          IN  \/ t.signer # t.kid \/ ~NotExpired(t)
              \/ t.kid \notin published \/ Within(since[t.kid], Lag + 1)
              \/ failed]_vars

\* A key that stays published reaches the cache, over and over, however many
\* requests for other keys compete for the throttled refresh.
PublishedKeyReachesCache ==
    \A k \in Keys : <>[](k \in published) => []<>(k \in cache.index /\ Fresh)
=============================================================================
