--------------------------- MODULE HttpApiProofs ---------------------------
(***************************************************************************)
(* Proofs about HttpApi and the UserStore behind it, for any number of     *)
(* users and requests and any durations: a user and its job come together, *)
(* the cache is stale for a bounded time, a client can trust the statuses, *)
(* and the gauge of active requests misses none.                           *)
(***************************************************************************)
EXTENDS HttpApi, FiniteSetTheorems, SequenceTheorems, WellFoundedInduction, TLAPS

-----------------------------------------------------------------------------
(* The invariant. *)

Creating == {"insert_user", "insert_job", "commit"}

CacheWrites == {"cache_set", "cache_delete"}

\* The use case that awaits a call is one that makes it.
Makes(kind, pc) ==
    /\ pc \in Creating => kind = "create"
    /\ pc \in {"cache_get", "find"} => kind = "get"
    /\ pc = "list" => kind = "list"
    /\ pc = "update" => kind = "update"
    /\ pc = "delete" => kind = "delete"
    /\ pc = "cache_set" => kind \in {"create", "get", "update"}
    /\ pc = "cache_delete" => kind \in {"update", "delete"}

\* A request that goes on is younger than its timeout, and what it holds was
\* the table's when it arrived or later.
GoodRequest(q) ==
    /\ q \in RequestType
    /\ q.pc \in Active =>
          /\ q.kind \in Kinds /\ Makes(q.kind, q.pc)
          /\ q.pc # "list" => q.id \in Users
          /\ q.arrived \in Instant /\ q.arrived >= -RequestTimeout /\ q.arrived <= NOW
          /\ q.kind \in {"create", "update"} => q.email \in Emails
          /\ q.user \in Copy /\ q.user.retired # Null => q.user.retired >= q.arrived
    /\ q.pc = "cache_set" => q.user \in Copy
    /\ q.pc \notin Active => q.id = Null /\ q.user = Null

\* An entry lives for at most Ttl, and its user was current when the request
\* that stored it arrived.
GoodEntry(e) ==
    /\ e \in EntryType
    /\ e.expires > NOW /\ e.expires <= NOW + Ttl
    /\ e.retired # Null => e.retired >= e.expires - (Ttl + RequestTimeout + RedisDelay)

GoodCommand(c) ==
    /\ c \in CommandType
    /\ c.since >= -RedisDelay /\ c.since <= NOW
    /\ c.retired # Null => c.retired >= c.since - RequestTimeout

GoodFront(f) ==
    /\ f \in FrontType
    /\ f.phase # "none" =>
          f.kind \in Kinds /\ f.arrived \in Instant /\ f.arrived >= -RequestTimeout /\ f.arrived <= NOW

RowType == [status : {"none", "live", "deleted"}, email : Emails \cup {Null}]

Tabled == rows \in [Users -> RowType] /\ queued \subseteq Users /\ CreatedWithJob

Requested == request \in [Requests -> RequestType] /\ \A r \in Requests : GoodRequest(request[r])

Cached ==
    /\ cache \in [Users -> {Null} \cup EntryType]
    /\ \A u \in Users : cache[u] # Null => GoodEntry(cache[u])

Delayed == \A c \in late : GoodCommand(c)

StoreInv == Tabled /\ Requested /\ Cached /\ Delayed

\* A request in front has no use case yet.
Fronted ==
    /\ front \in [Requests -> FrontType]
    /\ \A r \in Requests : GoodFront(front[r]) /\ (InFront(r) => request[r].pc \notin Active)

\* Nobody else knows the id of a user that is being created.
Fresh ==
    \A r \in Requests : request[r].pc \in Creating =>
        /\ rows[request[r].id].status = "none"
        /\ \A q \in Requests \ {r} : request[q].id # request[r].id

\* Who has changed the table goes on to the cache, and a create or a delete
\* gets there no other way.
Noted ==
    /\ effect \in [Requests -> BOOLEAN]
    /\ \A r \in Requests :
          /\ effect[r] => request[r].pc \in CacheWrites
          /\ request[r].pc \in CacheWrites /\ request[r].kind \in {"create", "delete"} => effect[r]

Gauged == gauge \in Int /\ GaugeNeverLow

Inv == StoreInv /\ Fronted /\ Fresh /\ Noted

HInv == Inv /\ Gauged

-----------------------------------------------------------------------------
(* Time and constants. *)

LEMMA Durations ==
    /\ Ttl \in Nat /\ Ttl > 0 /\ RequestTimeout \in Nat /\ RequestTimeout > 0 /\ RedisDelay \in Nat
    /\ Horizon \in Nat /\ Horizon > Ttl + RequestTimeout + RedisDelay
BY UserConstants

LEMMA NullIsNone == Null \notin Int /\ Null \notin Users /\ Null \notin Emails
BY UserConstants

LEMMA NowIsInstant == NOW = 0 /\ NOW \in Instant /\ Ttl \in Instant /\ NOW # Null
BY Durations, NullIsNone DEF NOW, Instant

LEMMA Ageing ==
    ASSUME NEW t \in Instant \cup {Null}
    PROVE  /\ Aged(t) \in Instant \cup {Null}
           /\ Aged(t) = Null <=> t = Null
           /\ t # Null => /\ t \in Int /\ t >= -Horizon
                          /\ t > -Horizon => Aged(t) = t - 1
BY Durations, NullIsNone DEF Instant, Aged

-----------------------------------------------------------------------------
(* Requests, one by one. *)

LEMMA RestIsGood ==
    ASSUME NEW result \in Results
    PROVE  GoodRequest(Rest(result)) /\ Rest(result).pc \notin Active /\ Rest(result).pc = result
           /\ Rest(result).id = Null
<1>1. /\ Rest(result) \in RequestType /\ Rest(result).pc = result
      /\ Rest(result).id = Null /\ Rest(result).user = Null
  BY DEF Rest, RequestType
<1>2. result \notin Active
  BY DEF Results, Active, OnTable, OnCache, InTransaction
<1> QED
  BY <1>1, <1>2 DEF GoodRequest, Active, OnTable, OnCache, InTransaction

\* A request goes on to another call.
LEMMA NextCallIsGood ==
    ASSUME NEW q, GoodRequest(q), q.pc \in Active, q.pc # "list",
           NEW pc \in Active, Makes(q.kind, pc), pc # "list",
           NEW user \in {q.user, Current}, pc = "cache_set" => user \in Copy
    PROVE  GoodRequest([q EXCEPT !.pc = pc, !.user = user])
<1> DEFINE n == [q EXCEPT !.pc = pc, !.user = user]
<1>1. user \in {Null} \cup Copy
  BY DEF GoodRequest, RequestType, Current, Copy
<1>2. /\ n \in RequestType /\ n.pc = pc /\ n.user = user /\ n.kind = q.kind
      /\ n.id = q.id /\ n.arrived = q.arrived /\ n.email = q.email
  BY <1>1 DEF GoodRequest, RequestType
<1>3. Current.retired = Null
  BY DEF Current
<1> HIDE DEF n
<1>4. user \in Copy /\ user.retired # Null => user = q.user
  BY <1>3
<1> QED
  BY <1>2, <1>4 DEF n, GoodRequest

LEMMA RetiredIsGood ==
    ASSUME NEW q, GoodRequest(q)
    PROVE  GoodRequest([q EXCEPT !.user = IF @ = Null THEN Null ELSE Retire(@), !.changed = TRUE])
<1> DEFINE user == IF q.user = Null THEN Null ELSE Retire(q.user)
           n == [q EXCEPT !.user = user, !.changed = TRUE]
<1>1. /\ q.user = Null => user = Null
      /\ q.user # Null => /\ q.user \in Copy /\ user \in Copy
                          /\ user.retired = IF q.user.retired = Null THEN NOW ELSE q.user.retired
  BY NowIsInstant DEF GoodRequest, RequestType, Copy, Retire
<1>2. q.user \in Copy => user \in Copy
  BY <1>1
<1> HIDE DEF user
<1>3. /\ n \in RequestType /\ n.pc = q.pc /\ n.user = user /\ n.kind = q.kind
      /\ n.id = q.id /\ n.arrived = q.arrived /\ n.email = q.email
  BY <1>1 DEF GoodRequest, RequestType
<1>4. q.pc \in Active /\ user \in Copy /\ user.retired # Null => user.retired >= q.arrived
  BY <1>1, NowIsInstant DEF GoodRequest, Instant
<1> HIDE DEF n
<1>5. GoodRequest(n)
  BY <1>1, <1>2, <1>3, <1>4 DEF GoodRequest
<1> QED
  BY <1>5 DEF n, user

LEMMA AgedIsGood ==
    ASSUME NEW q, GoodRequest(q), q.pc \in Active => q.arrived > NOW - RequestTimeout
    PROVE  GoodRequest(AgedRequest(q)) /\ AgedRequest(q).pc = q.pc /\ AgedRequest(q).id = q.id
           /\ AgedRequest(q).kind = q.kind
<1> DEFINE user == IF q.user = Null THEN Null ELSE [retired |-> Aged(q.user.retired)]
           n == [q EXCEPT !.user = user, !.arrived = Aged(@)]
<1>1. /\ q.user \in {Null} \cup Copy /\ q.arrived \in Instant \cup {Null}
      /\ q.user # Null => q.user.retired \in Instant \cup {Null}
  BY DEF GoodRequest, RequestType, Copy
<1>2. /\ q.user = Null => user = Null
      /\ q.user # Null => user \in Copy /\ user.retired = Aged(q.user.retired)
      /\ q.user \in Copy => user \in Copy
  BY <1>1, Ageing DEF Copy
<1> HIDE DEF user
<1>3. /\ n \in RequestType /\ n.pc = q.pc /\ n.user = user /\ n.kind = q.kind
      /\ n.id = q.id /\ n.arrived = Aged(q.arrived) /\ n.email = q.email
  BY <1>1, <1>2, Ageing DEF GoodRequest, RequestType
<1>4. q.pc \in Active => /\ q.arrived \in Int /\ q.arrived > -RequestTimeout /\ q.arrived <= 0
                         /\ Aged(q.arrived) = q.arrived - 1 /\ Aged(q.arrived) \in Instant
  BY Ageing, Durations, NullIsNone, NowIsInstant DEF GoodRequest, Instant
<1>5. q.pc \in Active /\ user \in Copy /\ user.retired # Null => user.retired >= Aged(q.arrived)
  <2> SUFFICES ASSUME q.pc \in Active, user \in Copy, user.retired # Null, q.user # Null
               PROVE  user.retired >= Aged(q.arrived)
    BY <1>2, <1>4 DEF GoodRequest, Copy, Instant
  <2>1. user.retired = Aged(q.user.retired) /\ q.user.retired # Null /\ q.user \in Copy
    BY <1>1, <1>2, Ageing
  <2>2. q.user.retired >= q.arrived /\ q.user.retired \in Int /\ q.user.retired > -Horizon
    BY <1>1, <1>4, <2>1, Ageing, Durations DEF GoodRequest
  <2> QED
    BY <1>1, <1>4, <2>1, <2>2, Ageing
<1> HIDE DEF n
<1>6. GoodRequest(n)
  BY <1>2, <1>3, <1>4, <1>5, Durations, NowIsInstant DEF GoodRequest
<1>7. AgedRequest(q) = n
  BY DEF AgedRequest, n, user
<1> QED
  BY <1>3, <1>6, <1>7

-----------------------------------------------------------------------------
(* The tables of the store, one by one. *)

LEMMA OneRequest ==
    ASSUME Requested, NEW r \in Requests, NEW next, GoodRequest(next),
           request' = [request EXCEPT ![r] = next]
    PROVE  /\ Requested' /\ request'[r] = next
           /\ \A q \in Requests \ {r} : request'[q] = request[q]
<1>1. next \in RequestType
  BY DEF GoodRequest
<1> QED
  BY <1>1 DEF Requested, GoodRequest

LEMMA EntryIsGood ==
    ASSUME NEW copy, copy.retired \in Instant \cup {Null},
           copy.retired # Null => copy.retired >= -(RequestTimeout + RedisDelay)
    PROVE  GoodEntry(Entry(copy))
BY Durations, NowIsInstant DEF GoodEntry, Entry, EntryType, Instant

LEMMA OneEntry ==
    ASSUME Cached, NEW u \in Users, NEW e, e = Null \/ GoodEntry(e),
           cache' = [cache EXCEPT ![u] = e]
    PROVE  Cached'
<1>1. e \in {Null} \cup EntryType
  BY DEF GoodEntry
<1> QED
  BY <1>1 DEF Cached, GoodEntry

\* A write retires the copies of the old row wherever they are.
LEMMA RetiredEverywhere ==
    ASSUME Requested, Cached, Delayed, NEW r \in Requests, NEW u, NEW row, NEW next,
           GoodRequest(next), Write(r, u, row, next)
    PROVE  /\ Requested' /\ Cached' /\ Delayed' /\ request'[r] = next
           /\ \A q \in Requests \ {r} : /\ request'[q].pc = request[q].pc
                                        /\ request'[q].id = request[q].id
                                        /\ request'[q].kind = request[q].kind
<1>1. \A q \in Requests : /\ GoodRequest(RetiredRequests(u)[q])
                          /\ RetiredRequests(u)[q].pc = request[q].pc
                          /\ RetiredRequests(u)[q].id = request[q].id
                          /\ RetiredRequests(u)[q].kind = request[q].kind
  <2> SUFFICES ASSUME NEW q \in Requests
               PROVE  /\ GoodRequest(RetiredRequests(u)[q])
                      /\ RetiredRequests(u)[q].pc = request[q].pc
                      /\ RetiredRequests(u)[q].id = request[q].id
                      /\ RetiredRequests(u)[q].kind = request[q].kind
    OBVIOUS
  <2>1. GoodRequest(request[q]) /\ request[q] \in RequestType
    BY DEF Requested
  <2>2. CASE request[q].id # u
    BY <2>1, <2>2 DEF RetiredRequests
  <2>3. CASE request[q].id = u
    <3>1. RetiredRequests(u)[q] =
             [request[q] EXCEPT !.user = IF @ = Null THEN Null ELSE Retire(@), !.changed = TRUE]
      BY <2>3 DEF RetiredRequests
    <3>2. GoodRequest(RetiredRequests(u)[q])
      BY <2>1, <3>1, RetiredIsGood
    <3> QED
      BY <2>1, <3>1, <3>2 DEF RequestType
  <2> QED
    BY <2>2, <2>3
<1>2. Requested' /\ request'[r] = next
      /\ \A q \in Requests \ {r} : request'[q] = RetiredRequests(u)[q]
  <2>1. request' = [RetiredRequests(u) EXCEPT ![r] = next]
    BY DEF Write
  <2>2. \A q \in Requests : request'[q] = IF q = r THEN next ELSE RetiredRequests(u)[q]
    BY <2>1 DEF RetiredRequests
  <2>3. DOMAIN request' = Requests /\ request' = [q \in Requests |-> request'[q]]
    BY <2>1 DEF RetiredRequests
  <2>4. \A q \in Requests : GoodRequest(request'[q])
    BY <1>1, <2>2
  <2> QED
    BY <2>2, <2>3, <2>4 DEF Requested, GoodRequest
<1>3. Cached'
  <2> SUFFICES ASSUME NEW v \in Users, cache[v] # Null, GoodEntry(cache[v])
               PROVE  GoodEntry(Retire(cache[v]))
    BY DEF Cached, Write, RetiredCache, GoodEntry
  <2>1. Retire(cache[v]) \in EntryType /\ Retire(cache[v]).expires = cache[v].expires
        /\ Retire(cache[v]).retired = IF cache[v].retired = Null THEN NOW ELSE cache[v].retired
    BY NowIsInstant DEF Retire, GoodEntry, EntryType
  <2> QED
    BY <2>1, Durations, NowIsInstant DEF GoodEntry, EntryType, Instant
<1>4. Delayed'
  <2> SUFFICES ASSUME NEW c \in late, GoodCommand(c)
               PROVE  GoodCommand(Retire(c))
    BY DEF Delayed, Write, RetiredLate
  <2>1. Retire(c) \in CommandType /\ Retire(c).since = c.since
        /\ Retire(c).retired = IF c.retired = Null THEN NOW ELSE c.retired
    BY NowIsInstant DEF Retire, GoodCommand, CommandType
  <2> QED
    BY <2>1, Durations, NowIsInstant DEF GoodCommand, CommandType, Instant
<1> QED
  BY <1>1, <1>2, <1>3, <1>4

LEMMA AbandonedIsGood ==
    ASSUME Requested, Delayed, NEW r \in Requests, request[r].pc \in Active, Abandon(r)
    PROVE  Delayed'
<1> SUFFICES ASSUME request[r].pc \in CacheWrites PROVE GoodCommand(Command(r))
  BY DEF Abandon, Delayed, CacheWrites
<1> DEFINE q == request[r]
           c == Command(r)
<1>1. /\ q.id \in Users /\ q.user \in {Null} \cup Copy
      /\ q.arrived \in Int /\ q.arrived >= -RequestTimeout
      /\ q.user \in Copy /\ q.user.retired # Null => q.user.retired >= q.arrived
  BY DEF Requested, GoodRequest, RequestType, CacheWrites, Instant
<1>2. /\ c \in CommandType /\ c.since = NOW
      /\ c.retired = IF q.user = Null THEN Null ELSE q.user.retired
  BY <1>1, NowIsInstant DEF Command, CommandType, Copy
<1> HIDE DEF c
<1>3. c.retired \in Int \cup {Null}
  BY <1>2 DEF CommandType, Instant
<1>4. GoodCommand(c)
  BY <1>1, <1>2, <1>3, NowIsInstant, Durations DEF GoodCommand
<1> QED
  BY <1>4 DEF c

-----------------------------------------------------------------------------
(* The use cases. *)

\* What a step of r's use case does to the table decides how it goes on.
Told(r) ==
    /\ request[r].pc \in CacheWrites =>
          /\ rows' = rows
          /\ request'[r].pc = "ok" \/ (request'[r].pc = "cache_delete" /\ request[r].kind = "update")
    /\ request[r].pc \notin CacheWrites =>
          /\ request'[r].pc \in CacheWrites => rows' # rows \/ request[r].kind \in {"get", "update"}
          /\ rows' # rows => request'[r].pc \in CacheWrites \cup {"unavailable"}
          /\ request'[r].pc = "ok" => request[r].kind \in {"get", "list"}

Moves(r) ==
    /\ request[r].pc \in Active
    /\ \A q \in Requests \ {r} : /\ request'[q].pc = request[q].pc
                                 /\ request'[q].id = request[q].id
                                 /\ request'[q].kind = request[q].kind
    /\ \/ /\ request'[r].pc \in Active
          /\ request'[r].id = request[r].id /\ request'[r].kind = request[r].kind
          /\ request'[r].pc \in Creating => request[r].pc \in Creating
       \/ /\ request'[r].pc \in {"ok", "not_found", "email_exists", "unavailable"}
          /\ request'[r].id = Null
    /\ rows' # rows => request[r].pc \in {"commit", "update", "delete"}
    /\ \A u \in Users \ {request[r].id} : rows'[u] = rows[u]
    /\ Told(r)

LEMMA Calls ==
    /\ Active = Creating \cup CacheWrites \cup {"find", "list", "update", "delete", "cache_get"}
    /\ Active \cap Results = {} /\ CacheWrites \cap OnTable = {} /\ OnCache = CacheWrites \cup {"cache_get"}
BY DEF Active, Creating, CacheWrites, OnTable, OnCache, InTransaction, Results

\* r is answered, and nothing else happens.
LEMMA Answers ==
    ASSUME StoreInv, NEW r \in Requests, request[r].pc \in Active,
           NEW result \in {"ok", "not_found", "email_exists", "unavailable"},
           result = "ok" => request[r].kind \in {"get", "list"} \/ request[r].pc \in CacheWrites,
           request[r].pc \in CacheWrites => result = "ok",
           Answer(r, result), UNCHANGED <<rows, queued>>
    PROVE  Requested' /\ Tabled' /\ Moves(r)
<1>1. GoodRequest(Rest(result)) /\ Rest(result).pc = result /\ Rest(result).id = Null
  BY RestIsGood DEF Results
<1>2. /\ Requested' /\ request'[r] = Rest(result)
      /\ \A q \in Requests \ {r} : request'[q] = request[q]
  BY <1>1, OneRequest DEF Answer, StoreInv
<1> QED
  BY <1>1, <1>2, Calls DEF Moves, Told, StoreInv, Tabled, CreatedWithJob, CacheWrites

\* r goes on, and nothing else happens.
LEMMA GoesOn ==
    ASSUME StoreInv, NEW r \in Requests, request[r].pc \in Active, request[r].pc # "list",
           NEW pc \in Active, pc # "list", Makes(request[r].kind, pc),
           NEW user \in {request[r].user, Current}, pc = "cache_set" => user \in Copy,
           pc \in Creating => request[r].pc \in Creating,
           IF request[r].pc \in CacheWrites
           THEN pc = "cache_delete" /\ request[r].kind = "update"
           ELSE pc \in CacheWrites => request[r].kind = "get",
           AwaitWith(r, pc, user), UNCHANGED <<rows, queued>>
    PROVE  Requested' /\ Tabled' /\ Moves(r)
<1> DEFINE n == [request[r] EXCEPT !.pc = pc, !.user = user]
<1>1. GoodRequest(n)
  BY NextCallIsGood DEF StoreInv, Requested
<1>2. n.pc = pc /\ n.id = request[r].id /\ n.kind = request[r].kind
  BY DEF StoreInv, Requested, RequestType
<1>3. request' = [request EXCEPT ![r] = n]
  BY DEF AwaitWith, StoreInv, Requested
<1> HIDE DEF n
<1>4. /\ Requested' /\ request'[r] = n
      /\ \A q \in Requests \ {r} : request'[q] = request[q]
  BY <1>1, <1>3, OneRequest DEF StoreInv
<1>5. request'[r].pc = pc /\ request'[r].id = request[r].id /\ request'[r].kind = request[r].kind
  BY <1>2, <1>4
<1>6. Told(r)
  <2>1. pc # "ok" /\ rows' = rows
    BY DEF Active, OnTable, OnCache, InTransaction
  <2>2. CASE request[r].pc \in CacheWrites
    BY <1>5, <2>1, <2>2 DEF Told
  <2>3. CASE request[r].pc \notin CacheWrites
    BY <1>5, <2>1, <2>3 DEF Told
  <2> QED
    BY <2>2, <2>3
<1>7. Tabled'
  BY DEF StoreInv, Tabled, CreatedWithJob
<1> QED
  BY <1>4, <1>5, <1>6, <1>7 DEF Moves

LEMMA AwaitIsAwaitWith ==
    ASSUME Requested, NEW r \in Requests, NEW pc, Await(r, pc)
    PROVE  AwaitWith(r, pc, request[r].user)
BY DEF Requested, RequestType, Await, AwaitWith

\* Steps that write nothing.
LEMMA InsertMoves ==
    ASSUME StoreInv, NEW r \in Requests, InsertUser(r) \/ InsertJob(r)
    PROVE  Requested' /\ Tabled' /\ Moves(r)
<1> DEFINE q == request[r]
<1>1. q.pc \in Active /\ q.pc # "list" /\ q.pc \notin CacheWrites /\ q.pc \in Creating /\ q.kind = "create"
  BY Calls DEF InsertUser, InsertJob, StoreInv, Requested, GoodRequest, Makes, Creating, CacheWrites
<1>2. ASSUME NEW pc \in {"insert_job", "commit"}, Await(r, pc), UNCHANGED <<rows, queued>>
      PROVE  Requested' /\ Tabled' /\ Moves(r)
  <2>1. pc \in Active /\ pc # "list" /\ Makes(q.kind, pc) /\ pc \notin CacheWrites /\ pc # "cache_set"
    BY <1>1, Calls DEF Makes, Creating, CacheWrites
  <2>2. AwaitWith(r, pc, q.user)
    BY <1>2, AwaitIsAwaitWith DEF StoreInv
  <2> QED
    BY <1>1, <1>2, <2>1, <2>2, GoesOn
<1>3. CASE Answer(r, "email_exists") /\ UNCHANGED <<rows, queued>>
  BY <1>1, <1>3, Answers
<1> QED
  BY <1>2, <1>3 DEF InsertUser, InsertJob

LEMMA ReadMoves ==
    ASSUME StoreInv, NEW r \in Requests, Find(r) \/ List(r) \/ CacheGet(r)
    PROVE  Requested' /\ Tabled' /\ Moves(r)
<1> DEFINE q == request[r]
<1>1. q.pc \in Active /\ q.pc \notin CacheWrites /\ q.kind \in {"get", "list"}
  BY Calls DEF Find, List, CacheGet, StoreInv, Requested, GoodRequest, Makes, CacheWrites
<1>2. CASE Answer(r, "ok") /\ UNCHANGED <<rows, queued>>
  BY <1>1, <1>2, Answers
<1>3. CASE Answer(r, "not_found") /\ UNCHANGED <<rows, queued>>
  BY <1>1, <1>3, Answers
<1>4. CASE Find(r) /\ AwaitWith(r, "cache_set", Current)
  <2>1. q.pc = "find" /\ q.kind = "get" /\ UNCHANGED <<rows, queued>>
    BY <1>4, <1>1 DEF Find, StoreInv, Requested, GoodRequest, Makes
  <2>2. Makes("get", "cache_set") /\ "cache_set" \in Active /\ Current \in Copy /\ "cache_set" \notin Creating
    BY Calls DEF Makes, Current, Copy, Creating, CacheWrites
  <2> QED
    BY <1>1, <1>4, <2>1, <2>2, GoesOn
<1>5. CASE CacheGet(r) /\ Await(r, "find")
  <2>1. q.pc = "cache_get" /\ q.kind = "get" /\ UNCHANGED <<rows, queued>>
    BY <1>5, <1>1 DEF CacheGet, StoreInv, Requested, GoodRequest, Makes
  <2>2. Makes("get", "find") /\ "find" \in Active /\ "find" \notin Creating /\ "find" \notin CacheWrites
    BY Calls DEF Makes, Creating, CacheWrites
  <2>3. AwaitWith(r, "find", q.user)
    BY <1>5, AwaitIsAwaitWith DEF StoreInv
  <2> QED
    BY <1>1, <2>1, <2>2, <2>3, GoesOn
<1> QED
  BY <1>2, <1>3, <1>4, <1>5 DEF Find, List, CacheGet

LEMMA FailureMoves ==
    ASSUME StoreInv, NEW r \in Requests, TableFails(r)
    PROVE  Requested' /\ Tabled' /\ Moves(r)
<1>1. request[r].pc \in Active /\ request[r].pc \notin CacheWrites
  BY Calls DEF TableFails, Active
<1> QED
  BY <1>1, Answers DEF TableFails

\* Once the cache answered, or did not.
LEMMA AfterCommandMoves ==
    ASSUME StoreInv, NEW r \in Requests, request[r].pc \in CacheWrites,
           NEW success \in BOOLEAN, AfterCommand(r, success), UNCHANGED <<rows, queued>>
    PROVE  Requested' /\ Tabled' /\ Moves(r)
<1>1. request[r].pc \in Active /\ request[r].pc # "list"
  BY Calls DEF CacheWrites
<1>2. CASE Answer(r, "ok")
  BY <1>1, <1>2, Answers
<1>3. CASE Await(r, "cache_delete") /\ request[r].kind = "update"
  <2>1. Makes("update", "cache_delete") /\ "cache_delete" \in Active /\ "cache_delete" \notin Creating
    BY Calls DEF Makes, Creating, CacheWrites
  <2>2. AwaitWith(r, "cache_delete", request[r].user)
    BY <1>3, AwaitIsAwaitWith DEF StoreInv
  <2> QED
    BY <1>1, <1>3, <2>1, <2>2, GoesOn
<1> QED
  BY <1>2, <1>3 DEF AfterCommand

\* Steps that write the table.
LEMMA CommitMoves ==
    ASSUME StoreInv, Fresh, NEW r \in Requests, Commit(r)
    PROVE  Requested' /\ Tabled' /\ Moves(r)
<1> DEFINE q == request[r]
           u == request[r].id
           row == [status |-> "live", email |-> q.email]
<1>1. /\ q.pc = "commit" /\ q.pc \in Active /\ q.pc \notin CacheWrites /\ q.pc \in Creating /\ q.kind = "create"
      /\ u \in Users /\ q.email \in Emails /\ GoodRequest(q)
  BY Calls DEF Commit, StoreInv, Requested, GoodRequest, Makes, Creating, CacheWrites
<1>2. /\ rows' = [rows EXCEPT ![u] = row] /\ queued' = queued \cup {u}
      /\ rows[u].status = "none" /\ rows \in [Users -> RowType] /\ row \in RowType
  BY <1>1 DEF Commit, Fresh, StoreInv, Tabled, RowType
<1>3. Tabled' /\ rows' # rows /\ \A v \in Users \ {u} : rows'[v] = rows[v]
  BY <1>1, <1>2 DEF StoreInv, Tabled, CreatedWithJob
<1>4. ASSUME NEW n, GoodRequest(n), request' = [request EXCEPT ![r] = n],
             \/ n.pc = "cache_set" /\ n.id = u /\ n.kind = q.kind
             \/ n.pc = "unavailable" /\ n.id = Null
      PROVE  Requested' /\ Moves(r)
  <2>1. /\ Requested' /\ request'[r] = n
        /\ \A p \in Requests \ {r} : request'[p] = request[p]
    BY <1>4, OneRequest DEF StoreInv
  <2>2. Told(r)
    BY <1>1, <1>3, <1>4, <2>1 DEF Told, CacheWrites
  <2>3. "cache_set" \in Active /\ "cache_set" \notin Creating
    BY Calls DEF Creating, CacheWrites
  <2> QED
    BY <1>1, <1>3, <1>4, <2>1, <2>2, <2>3 DEF Moves
<1>5. CASE AwaitWith(r, "cache_set", Current)
  <2> DEFINE n == [q EXCEPT !.pc = "cache_set", !.user = Current]
  <2>1. Makes("create", "cache_set") /\ "cache_set" \in Active /\ Current \in Copy
    BY Calls DEF Makes, Current, Copy, Creating, CacheWrites
  <2>2. GoodRequest(n) /\ n.pc = "cache_set" /\ n.id = u /\ n.kind = q.kind
    BY <1>1, <2>1, NextCallIsGood DEF GoodRequest, RequestType
  <2>3. request' = [request EXCEPT ![r] = n]
    BY <1>5 DEF AwaitWith, StoreInv, Requested
  <2> HIDE DEF n
  <2> QED
    BY <1>3, <1>4, <2>2, <2>3
<1>6. CASE Answer(r, "unavailable")
  BY <1>3, <1>4, <1>6, RestIsGood DEF Answer, Results
<1> QED
  BY <1>5, <1>6 DEF Commit

\* An UPDATE or a DELETE that finds the row of its id.
LEMMA WriteMoves ==
    ASSUME StoreInv, NEW r \in Requests, request[r].pc \in {"update", "delete"},
           Live(request[r].id), NEW row \in RowType, row.status # "none",
           request[r].pc = "delete" => row.status = "deleted",
           NEW next, GoodRequest(next), Write(r, request[r].id, row, next), queued' = queued,
           \/ /\ next.id = request[r].id /\ next.kind = request[r].kind
              /\ next.pc = IF request[r].pc = "update" THEN "cache_set" ELSE "cache_delete"
           \/ next.pc = "unavailable" /\ next.id = Null
    PROVE  StoreInv' /\ Moves(r)
<1> DEFINE q == request[r]
           u == request[r].id
<1>1. /\ q.pc \in Active /\ q.pc \notin CacheWrites /\ u \in Users /\ q.kind = q.pc
      /\ "cache_set" \in Active /\ "cache_delete" \in Active
      /\ "cache_set" \notin Creating /\ "cache_delete" \notin Creating
  BY Calls DEF StoreInv, Requested, GoodRequest, Makes, CacheWrites, Creating
<1>2. rows' = [rows EXCEPT ![u] = row] /\ rows \in [Users -> RowType] /\ rows[u].status = "live"
  BY DEF Write, StoreInv, Tabled, Live
<1>3. Tabled' /\ (\A v \in Users \ {u} : rows'[v] = rows[v]) /\ (q.pc = "delete" => rows' # rows)
  BY <1>1, <1>2 DEF StoreInv, Tabled, CreatedWithJob
<1>4. /\ Requested' /\ Cached' /\ Delayed' /\ request'[r] = next
      /\ \A p \in Requests \ {r} : /\ request'[p].pc = request[p].pc
                                   /\ request'[p].id = request[p].id
                                   /\ request'[p].kind = request[p].kind
  BY RetiredEverywhere DEF StoreInv
<1>5. Told(r)
  BY <1>1, <1>3, <1>4 DEF Told, CacheWrites
<1> QED
  BY <1>1, <1>3, <1>4, <1>5 DEF Moves, StoreInv

LEMMA UpdateMoves ==
    ASSUME StoreInv, NEW r \in Requests, Update(r)
    PROVE  StoreInv' /\ Moves(r)
<1> DEFINE q == request[r]
<1>1. /\ q.pc = "update" /\ q.pc \in Active /\ q.pc # "list" /\ q.pc \notin CacheWrites
      /\ q.kind = "update" /\ q.email \in Emails /\ GoodRequest(q) /\ queued' = queued
  BY Calls DEF Update, StoreInv, Requested, GoodRequest, Makes, CacheWrites
<1>2. ASSUME NEW result \in {"not_found", "email_exists"}, Answer(r, result),
             UNCHANGED <<rows, cache, late>>
      PROVE  StoreInv' /\ Moves(r)
  BY <1>1, <1>2, Answers DEF StoreInv, Cached, GoodEntry, Delayed, GoodCommand
<1>3. ASSUME Live(q.id), NEW next \in {Updated(r), Rest("unavailable")},
             Write(r, q.id, [status |-> "live", email |-> q.email], next)
      PROVE  StoreInv' /\ Moves(r)
  <2>1. [status |-> "live", email |-> q.email] \in RowType
    BY <1>1 DEF RowType
  <2>2. CASE next = Updated(r)
    <3>1. Makes("update", "cache_set") /\ "cache_set" \in Active /\ Current \in Copy
      BY Calls DEF Makes, Current, Copy, Creating, CacheWrites
    <3>2. GoodRequest(next) /\ next.pc = "cache_set" /\ next.id = q.id /\ next.kind = q.kind
      BY <1>1, <2>2, <3>1, NextCallIsGood DEF Updated, GoodRequest, RequestType
    <3> QED
      BY <1>1, <1>3, <2>1, <3>2, WriteMoves
  <2>3. CASE next = Rest("unavailable")
    <3>1. GoodRequest(next) /\ next.pc = "unavailable" /\ next.id = Null
      BY <2>3, RestIsGood DEF Results
    <3> QED
      BY <1>1, <1>3, <2>1, <3>1, WriteMoves
  <2> QED
    BY <2>2, <2>3
<1> QED
  BY <1>2, <1>3 DEF Update

LEMMA DeleteMoves ==
    ASSUME StoreInv, NEW r \in Requests, Delete(r)
    PROVE  StoreInv' /\ Moves(r)
<1> DEFINE q == request[r]
<1>1. /\ q.pc = "delete" /\ q.pc \in Active /\ q.pc # "list" /\ q.pc \notin CacheWrites
      /\ q.kind = "delete" /\ GoodRequest(q) /\ q \in RequestType /\ queued' = queued
  BY Calls DEF Delete, StoreInv, Requested, GoodRequest, Makes, CacheWrites
<1>2. CASE Answer(r, "not_found") /\ UNCHANGED <<rows, cache, late>>
  BY <1>1, <1>2, Answers DEF StoreInv, Cached, GoodEntry, Delayed, GoodCommand
<1>3. ASSUME Live(q.id), NEW next \in {[q EXCEPT !.pc = "cache_delete"], Rest("unavailable")},
             Write(r, q.id, [status |-> "deleted", email |-> Null], next)
      PROVE  StoreInv' /\ Moves(r)
  <2>1. [status |-> "deleted", email |-> Null] \in RowType
    BY DEF RowType
  <2>2. CASE next = [q EXCEPT !.pc = "cache_delete"]
    <3>1. Makes("delete", "cache_delete") /\ "cache_delete" \in Active
      BY Calls DEF Makes, Creating, CacheWrites
    <3>2. next = [q EXCEPT !.pc = "cache_delete", !.user = q.user]
      BY <1>1, <2>2 DEF RequestType
    <3>3. GoodRequest(next) /\ next.pc = "cache_delete" /\ next.id = q.id /\ next.kind = q.kind
      BY <1>1, <3>1, <3>2, NextCallIsGood DEF RequestType
    <3> QED
      BY <1>1, <1>3, <2>1, <3>3, WriteMoves
  <2>3. CASE next = Rest("unavailable")
    <3>1. GoodRequest(next) /\ next.pc = "unavailable" /\ next.id = Null
      BY <2>3, RestIsGood DEF Results
    <3> QED
      BY <1>1, <1>3, <2>1, <3>1, WriteMoves
  <2> QED
    BY <2>2, <2>3
<1> QED
  BY <1>2, <1>3 DEF Delete

\* Steps that write the cache, or do not get to.
LEMMA CacheMoves ==
    ASSUME StoreInv, NEW r \in Requests, CacheSet(r) \/ CacheDelete(r) \/ CacheFails(r)
    PROVE  StoreInv' /\ Moves(r)
<1> DEFINE q == request[r]
<1>1. GoodRequest(q) /\ q.pc \in Active /\ UNCHANGED <<rows, queued>>
  <2>1. q.pc \in OnCache /\ UNCHANGED <<rows, queued>>
    BY DEF CacheSet, CacheDelete, CacheFails, OnCache
  <2> QED
    BY <2>1 DEF StoreInv, Requested, Active
<1>2. CASE CacheSet(r)
  <2>1. q.pc \in CacheWrites /\ q.id \in Users /\ q.user \in Copy /\ late' = late
    BY <1>1, <1>2 DEF CacheSet, CacheWrites, GoodRequest
  <2>2. q.user.retired \in Instant \cup {Null} /\ q.arrived \in Int /\ q.arrived >= -RequestTimeout
    BY <1>1, <2>1 DEF Copy, GoodRequest, Instant
  <2>3. q.user.retired # Null => q.user.retired >= -(RequestTimeout + RedisDelay)
    BY <1>1, <2>1, <2>2, Durations DEF GoodRequest, Instant
  <2>4. Cached'
    BY <1>2, <2>1, <2>2, <2>3, EntryIsGood, OneEntry DEF CacheSet, StoreInv
  <2> QED
    BY <1>1, <1>2, <2>1, <2>4, AfterCommandMoves DEF CacheSet, StoreInv, Delayed, GoodCommand
<1>3. CASE CacheDelete(r)
  <2>1. q.pc \in CacheWrites /\ q.id \in Users /\ late' = late
    BY <1>1, <1>3 DEF CacheDelete, CacheWrites, GoodRequest
  <2>2. Cached'
    BY <1>3, <2>1, OneEntry DEF CacheDelete, StoreInv
  <2> QED
    BY <1>1, <1>3, <2>1, <2>2, AfterCommandMoves DEF CacheDelete, StoreInv, Delayed, GoodCommand
<1>4. CASE CacheFails(r)
  <2>1. Delayed' /\ Cached'
    BY <1>1, <1>4, AbandonedIsGood DEF CacheFails, StoreInv, Cached, GoodEntry
  <2>2. CASE q.pc = "cache_get"
    <3>1. q.kind = "get" /\ q.pc # "list" /\ q.pc \notin CacheWrites
      BY <1>1, <2>2 DEF GoodRequest, Makes, CacheWrites
    <3>2. Makes("get", "find") /\ "find" \in Active /\ "find" \notin Creating /\ "find" \notin CacheWrites
      BY Calls DEF Makes, Creating, CacheWrites
    <3>3. AwaitWith(r, "find", q.user)
      BY <1>4, <2>2, AwaitIsAwaitWith DEF CacheFails, StoreInv
    <3>4. Requested' /\ Tabled' /\ Moves(r)
      BY <1>1, <3>1, <3>2, <3>3, GoesOn
    <3> QED
      BY <2>1, <3>4 DEF StoreInv
  <2>3. CASE q.pc \in CacheWrites
    <3>1. AfterCommand(r, FALSE)
      BY <1>4, <2>3 DEF CacheFails, CacheWrites
    <3> QED
      BY <1>1, <2>1, <2>3, <3>1, AfterCommandMoves DEF StoreInv
  <2> QED
    BY <1>4, <2>2, <2>3, Calls DEF CacheFails
<1> QED
  BY <1>2, <1>3, <1>4

LEMMA ProgressMoves ==
    ASSUME StoreInv, Fresh, NEW r \in Requests, Progress(r)
    PROVE  StoreInv' /\ Moves(r)
<1>1. ASSUME UNCHANGED <<cache, late>> PROVE Cached' /\ Delayed'
  BY <1>1 DEF StoreInv, Cached, GoodEntry, Delayed, GoodCommand
<1>2. CASE InsertUser(r) \/ InsertJob(r)
  BY <1>1, <1>2, InsertMoves DEF InsertUser, InsertJob, StoreInv
<1>3. CASE Find(r) \/ List(r) \/ CacheGet(r)
  BY <1>1, <1>3, ReadMoves DEF Find, List, CacheGet, StoreInv
<1>4. CASE TableFails(r)
  BY <1>1, <1>4, FailureMoves DEF TableFails, StoreInv
<1>5. CASE Commit(r)
  BY <1>1, <1>5, CommitMoves DEF Commit, StoreInv
<1>6. CASE Update(r) \/ Delete(r)
  BY <1>6, UpdateMoves, DeleteMoves
<1>7. CASE CacheSet(r) \/ CacheDelete(r) \/ CacheFails(r)
  BY <1>7, CacheMoves
<1> QED
  BY <1>2, <1>3, <1>4, <1>5, <1>6, <1>7 DEF Progress

-----------------------------------------------------------------------------
(* The steps of HttpApi keep all but the gauge. *)

LEMMA FreshKept ==
    ASSUME StoreInv, Fresh, NEW r \in Requests,
           \A q \in Requests \ {r} : request'[q].pc = request[q].pc /\ request'[q].id = request[q].id,
           request'[r].id \in {request[r].id, Null},
           request'[r].pc \in Creating => request[r].pc \in Creating /\ request'[r].id = request[r].id,
           \A u \in Users : u # request[r].id => rows'[u] = rows[u],
           request'[r].pc \in Creating => rows' = rows
    PROVE  Fresh'
<1> SUFFICES ASSUME NEW p \in Requests, request'[p].pc \in Creating
             PROVE  /\ rows'[request'[p].id].status = "none"
                    /\ \A q \in Requests \ {p} : request'[q].id # request'[p].id
  BY DEF Fresh
<1>1. request[p].pc \in Creating /\ request'[p].id = request[p].id
  OBVIOUS
<1>2. request[p].id \in Users /\ request[p].id # Null
  BY <1>1, Calls, NullIsNone DEF StoreInv, Requested, GoodRequest, Creating
<1>3. rows[request[p].id].status = "none" /\ \A q \in Requests \ {p} : request[q].id # request[p].id
  BY <1>1 DEF Fresh
<1>4. rows'[request[p].id] = rows[request[p].id]
  BY <1>2, <1>3
<1> QED
  BY <1>1, <1>2, <1>3, <1>4

\* r is answered, or taken in, before or instead of its use case.
LEMMA EndKeeps ==
    ASSUME Inv, NEW r \in Requests, NEW result \in Results, Answer(r, result),
           NEW f, GoodFront(f), front' = [front EXCEPT ![r] = f],
           UNCHANGED <<rows, queued, cache>>, Delayed',
           \/ request[r].pc \notin Active /\ effect' = effect
           \/ effect' = [effect EXCEPT ![r] = FALSE]
    PROVE  Inv'
<1>1. /\ GoodRequest(Rest(result)) /\ Rest(result).pc \notin Active /\ Rest(result).id = Null
  BY RestIsGood
<1>2. /\ Requested' /\ request'[r] = Rest(result)
      /\ \A q \in Requests \ {r} : request'[q] = request[q]
  BY <1>1, OneRequest DEF Answer, Inv, StoreInv
<1>3. StoreInv'
  BY <1>2 DEF Inv, StoreInv, Tabled, CreatedWithJob, Cached, GoodEntry
<1>4. Fronted'
  BY <1>1, <1>2 DEF Inv, Fronted, InFront, GoodFront
<1>5. Fresh'
  <2>1. request'[r].pc \notin Creating
    BY <1>1, <1>2, Calls
  <2> QED
    BY <1>1, <1>2, <2>1, FreshKept DEF Inv
<1>6. Noted'
  <2>1. request'[r].pc \notin CacheWrites
    BY <1>1, <1>2, Calls
  <2>2. ~effect'[r] /\ effect' \in [Requests -> BOOLEAN]
        /\ \A q \in Requests \ {r} : effect'[q] = effect[q]
    BY Calls DEF Inv, Noted
  <2> QED
    BY <1>2, <2>1, <2>2 DEF Inv, Noted
<1> QED
  BY <1>3, <1>4, <1>5, <1>6 DEF Inv

LEMMA OutsideIsGood == GoodFront(Outside)
BY DEF GoodFront, Outside, FrontType

LEMMA RefuseAtOnceKeeps ==
    ASSUME Inv, NEW r \in Requests, RefuseAtOnce(r)
    PROVE  Inv'
<1>1. front' = [front EXCEPT ![r] = front[r]] /\ GoodFront(front[r])
  BY DEF RefuseAtOnce, Inv, Fronted
<1>2. request[r].pc \notin Active /\ Delayed'
  BY DEF RefuseAtOnce, InFlight, Inv, StoreInv, Delayed, GoodCommand
<1> QED
  BY <1>1, <1>2, EndKeeps DEF RefuseAtOnce, Results

LEMMA ReceiveKeeps ==
    ASSUME Inv, NEW r \in Requests, NEW kind \in Kinds, Receive(r, kind)
    PROVE  Inv'
<1>1. GoodFront([phase |-> "verify", kind |-> kind, arrived |-> NOW])
  BY NowIsInstant, Durations DEF GoodFront, FrontType
<1>2. request[r].pc \notin Active /\ Delayed'
  BY DEF Receive, InFlight, Inv, StoreInv, Delayed, GoodCommand
<1> QED
  BY <1>1, <1>2, EndKeeps DEF Receive, Answer, Results

LEMMA RefusalKeeps ==
    ASSUME Inv, NEW r \in Requests, VerifyRefuses(r) \/ ExtractRefuses(r)
    PROVE  Inv'
<1>1. InFront(r) /\ request[r].pc \notin Active
  BY DEF VerifyRefuses, ExtractRefuses, InFront, Inv, Fronted
<1>2. Delayed' /\ effect' = effect /\ UNCHANGED <<rows, queued, cache>>
  BY DEF VerifyRefuses, ExtractRefuses, Inv, StoreInv, Delayed, GoodCommand
<1>3. \E result \in Results : Refuse(r, result)
  BY DEF VerifyRefuses, ExtractRefuses, Results
<1> QED
  BY <1>1, <1>2, <1>3, OutsideIsGood, EndKeeps DEF Refuse

LEMMA TimeOutKeeps ==
    ASSUME Inv, NEW r \in Requests, TimeOut(r)
    PROVE  Inv'
<1>1. effect' = [effect EXCEPT ![r] = FALSE] /\ "dropped" \in Results
  BY DEF TimeOut, Results
<1>2. CASE Refuse(r, "dropped") /\ UNCHANGED <<rows, queued, cache, late>>
  <2>1. Delayed'
    BY <1>2 DEF Inv, StoreInv, Delayed, GoodCommand
  <2> QED
    BY <1>1, <1>2, <2>1, OutsideIsGood, EndKeeps DEF Refuse
<1>3. CASE Drop(r) /\ UNCHANGED front
  <2>1. Delayed'
    BY <1>3, AbandonedIsGood DEF Drop, Inv, StoreInv
  <2>2. front' = [front EXCEPT ![r] = front[r]] /\ GoodFront(front[r])
    BY <1>3 DEF Inv, Fronted
  <2> QED
    BY <1>1, <1>3, <2>1, <2>2, EndKeeps DEF Drop
<1> QED
  BY <1>2, <1>3 DEF TimeOut

LEMMA AwaitBodyKeeps ==
    ASSUME Inv, NEW r \in Requests, AwaitBody(r)
    PROVE  Inv'
<1>1. /\ front' = [front EXCEPT ![r].phase = "body"] /\ front[r].phase = "verify"
      /\ UNCHANGED <<rows, queued, cache, late, request, effect>>
  BY DEF AwaitBody
<1>2. StoreInv' /\ Fresh' /\ Noted'
  BY <1>1 DEF Inv, StoreInv, Tabled, CreatedWithJob, Requested, GoodRequest, Cached, GoodEntry,
              Delayed, GoodCommand, Fresh, Noted
<1>3. Fronted'
  <2>1. GoodFront([front[r] EXCEPT !.phase = "body"])
    BY <1>1 DEF Inv, Fronted, GoodFront, FrontType
  <2>2. [front[r] EXCEPT !.phase = "body"] \in FrontType
    BY <2>1 DEF GoodFront
  <2> QED
    BY <1>1, <2>1, <2>2 DEF Inv, Fronted, InFront, GoodFront
<1> QED
  BY <1>2, <1>3 DEF Inv

LEMMA StartedIsGood ==
    ASSUME NEW kind \in Kinds, NEW u \in Users, NEW email \in Emails,
           NEW since \in Instant, since >= -RequestTimeout, since <= NOW
    PROVE  LET n == Started(kind, u, email, since)
           IN  /\ GoodRequest(n) /\ n.pc \in Active \ CacheWrites
               /\ n.id = IF kind = "list" THEN Null ELSE u
               /\ n.pc \in Creating <=> kind = "create"
<1> DEFINE n == Started(kind, u, email, since)
<1>1. kind \in {"create", "get", "list", "update", "delete"}
  BY UserConstants
<1>2. /\ n.pc = Starts(kind) /\ n.kind = kind /\ n.arrived = since /\ n.user = Null
      /\ n.id = IF kind = "list" THEN Null ELSE u
      /\ n.email = IF kind \in {"create", "update"} THEN email ELSE Null
  BY DEF Started
<1>3. /\ Starts(kind) \in Active \ CacheWrites /\ Makes(kind, Starts(kind))
      /\ Starts(kind) = "list" <=> kind = "list"
      /\ Starts(kind) \in Creating <=> kind = "create"
  BY <1>1, Calls DEF Starts, Makes, Creating, CacheWrites
<1>4. n \in RequestType
  BY <1>1, <1>3 DEF Started, RequestType
<1> HIDE DEF n
<1>5. GoodRequest(n)
  BY <1>1, <1>2, <1>3, <1>4, NoneIsNoUser DEF GoodRequest, CacheWrites
<1> QED
  BY <1>2, <1>3, <1>5 DEF n

LEMMA HandleKeeps ==
    ASSUME Inv, NEW r \in Requests, NEW u \in Users, NEW email \in Emails, Handle(r, u, email)
    PROVE  Inv'
<1> DEFINE kind == front[r].kind
           n == Started(kind, u, email, front[r].arrived)
<1>1. /\ kind \in Kinds /\ front[r].arrived \in Instant
      /\ front[r].arrived >= -RequestTimeout /\ front[r].arrived <= NOW
      /\ request[r].pc \notin Active /\ IdFor(kind, u)
  BY DEF Handle, Inv, Fronted, InFront, GoodFront
<1>2. /\ GoodRequest(n) /\ n.pc \in Active \ CacheWrites
      /\ n.id = IF kind = "list" THEN Null ELSE u
      /\ n.pc \in Creating <=> kind = "create"
  BY <1>1, StartedIsGood
<1>3. /\ request' = [request EXCEPT ![r] = n] /\ front' = [front EXCEPT ![r] = Outside]
      /\ UNCHANGED <<rows, queued, cache, late, effect>>
  BY DEF Handle
<1> HIDE DEF n
<1>4. /\ Requested' /\ request'[r] = n
      /\ \A q \in Requests \ {r} : request'[q] = request[q]
  BY <1>2, <1>3, OneRequest DEF Inv, StoreInv
<1>5. StoreInv'
  BY <1>3, <1>4 DEF Inv, StoreInv, Tabled, CreatedWithJob, Cached, GoodEntry, Delayed, GoodCommand
<1>6. Fronted'
  <2>1. GoodFront(Outside) /\ Outside \in FrontType /\ Outside.phase = "none"
    BY OutsideIsGood DEF GoodFront, Outside
  <2> QED
    BY <1>3, <1>4, <2>1 DEF Inv, Fronted, InFront, GoodFront
<1>7. Fresh'
  <2>1. ASSUME NEW p \in Requests \ {r}, request[p].pc \in Creating
        PROVE  request[p].id # n.id /\ rows[request[p].id].status = "none"
    <3>1. request[p].id \in Users /\ request[p].id # Null
      BY <2>1, Calls, NullIsNone DEF Inv, StoreInv, Requested, GoodRequest, Creating
    <3>2. rows[request[p].id].status = "none"
      BY <2>1 DEF Inv, Fresh
    <3>3. kind = "create" => request[p].id # u
      BY <1>1 DEF IdFor
    <3>4. kind \notin {"create", "list"} => rows[u].status # "none"
      BY <1>1 DEF IdFor
    <3> QED
      BY <1>2, <3>1, <3>2, <3>3, <3>4
  <2>2. n.pc \in Creating => n.id = u /\ rows[u].status = "none" /\ \A p \in Requests : request[p].id # u
    BY <1>1, <1>2 DEF IdFor
  <2>3. \A p, q \in Requests :
           p # q /\ request[p].pc \in Creating => request[q].id # request[p].id
    BY DEF Inv, Fresh
  <2> QED
    BY <1>3, <1>4, <2>1, <2>2, <2>3 DEF Fresh
<1>8. Noted'
  <2>1. ~effect[r]
    BY <1>1, Calls DEF Inv, Noted
  <2> QED
    BY <1>2, <1>3, <1>4, <2>1 DEF Inv, Noted
<1> QED
  BY <1>5, <1>6, <1>7, <1>8 DEF Inv

LEMMA WorkKeeps ==
    ASSUME Inv, NEW r \in Requests, Work(r)
    PROVE  Inv'
<1>1. StoreInv' /\ Moves(r)
  BY ProgressMoves DEF Work, Inv
<1>2. /\ request[r].pc \in Active /\ front' = front
      /\ \A q \in Requests \ {r} : /\ request'[q].pc = request[q].pc
                                   /\ request'[q].id = request[q].id
                                   /\ request'[q].kind = request[q].kind
  BY <1>1 DEF Moves, Work
<1>3. /\ request'[r].id \in {request[r].id, Null}
      /\ request'[r].pc \in Active => request'[r].id = request[r].id /\ request'[r].kind = request[r].kind
      /\ request'[r].pc \in Creating => request[r].pc \in Creating /\ request'[r].id = request[r].id
  <2>1. \A pc \in {"ok", "not_found", "email_exists", "unavailable"} : pc \notin Active
    BY DEF Active, OnTable, OnCache, InTransaction
  <2>2. Creating \subseteq Active
    BY Calls
  <2> QED
    BY <1>1, <2>1, <2>2 DEF Moves
<1>4. request'[r].pc \in Creating => rows' = rows
  BY <1>1 DEF Moves, Told, Creating, CacheWrites
<1>5. Fronted'
  BY <1>2 DEF Inv, Fronted, InFront, GoodFront
<1>6. Fresh'
  <2>1. \A u \in Users : u # request[r].id => rows'[u] = rows[u]
    BY <1>1 DEF Moves
  <2> QED
    BY <1>2, <1>3, <1>4, <2>1, FreshKept DEF Inv
<1>7. Noted'
  <2>1. /\ effect' \in [Requests -> BOOLEAN]
        /\ effect'[r] <=> request'[r].pc \in Active /\ (effect[r] \/ rows' # rows)
        /\ \A q \in Requests \ {r} : effect'[q] = effect[q]
    BY DEF Work, NoteEffect, Inv, Noted
  <2>2. effect'[r] => request'[r].pc \in CacheWrites
    BY <1>1, <2>1 DEF Inv, Noted, Moves, Told, CacheWrites, Active, OnTable, OnCache, InTransaction
  <2>3. ASSUME request'[r].pc \in CacheWrites, request'[r].kind \in {"create", "delete"}
        PROVE  effect'[r]
    <3>1. request'[r].pc \in Active /\ request[r].kind = request'[r].kind
      BY <1>3, <2>3, Calls
    <3>2. request[r].pc \notin CacheWrites /\ rows' # rows
      BY <1>1, <2>3, <3>1 DEF Moves, Told, CacheWrites
    <3> QED
      BY <2>1, <3>1, <3>2
  <2> QED
    BY <1>2, <2>1, <2>2, <2>3 DEF Inv, Noted
<1> QED
  BY <1>1, <1>5, <1>6, <1>7 DEF Inv

LEMMA PassKeeps ==
    ASSUME Inv, Pass
    PROVE  Inv'
<1>1. /\ \A r \in Requests : request[r].pc \in Active => request[r].arrived > NOW - RequestTimeout
      /\ \A c \in late : c.since > NOW - RedisDelay
      /\ cache' = [u \in Users |-> AgedEntry(cache[u])]
      /\ late' = {AgedCommand(c) : c \in late}
      /\ request' = [r \in Requests |-> AgedRequest(request[r])]
      /\ \A r \in Requests : InFront(r) => front[r].arrived > NOW - RequestTimeout
      /\ front' = [r \in Requests |-> [front[r] EXCEPT !.arrived = Aged(@)]]
      /\ UNCHANGED <<rows, queued, effect>>
  BY DEF Pass, Tick
<1>2. \A r \in Requests : /\ GoodRequest(request'[r]) /\ request'[r].pc = request[r].pc
                          /\ request'[r].id = request[r].id /\ request'[r].kind = request[r].kind
  BY <1>1, AgedIsGood DEF Inv, StoreInv, Requested
<1>3. Requested'
  BY <1>1, <1>2 DEF Requested, GoodRequest
<1>4. Cached'
  <2> SUFFICES ASSUME NEW u \in Users, AgedEntry(cache[u]) # Null
               PROVE  GoodEntry(AgedEntry(cache[u]))
    BY <1>1 DEF Cached, GoodEntry
  <2> DEFINE e == cache[u]
  <2>1. /\ e # Null /\ e \in EntryType /\ e.expires > NOW + 1 /\ e.expires <= NOW + Ttl
        /\ e.expires \in Instant /\ e.retired \in Instant \cup {Null}
        /\ e.retired # Null => e.retired >= e.expires - (Ttl + RequestTimeout + RedisDelay)
        /\ AgedEntry(e) = [e EXCEPT !.retired = Aged(@), !.expires = Aged(@)]
    BY Durations, NowIsInstant DEF AgedEntry, Inv, StoreInv, Cached, GoodEntry, EntryType, Instant
  <2>2. /\ Aged(e.expires) = e.expires - 1 /\ Aged(e.expires) \in Instant
        /\ Aged(e.retired) \in Instant \cup {Null}
    <3>1. e.expires > -Horizon /\ e.expires # Null
      BY <2>1, Durations, NowIsInstant, NullIsNone DEF Instant
    <3>2. Aged(e.expires) = e.expires - 1
      BY <2>1, <3>1, Ageing
    <3>3. Aged(e.expires) \in Instant
      BY <2>1, <3>1, <3>2, Durations DEF Instant
    <3> QED
      BY <2>1, <3>2, <3>3, Ageing
  <2>4. /\ AgedEntry(e).retired = Aged(e.retired) /\ AgedEntry(e).expires = Aged(e.expires)
        /\ AgedEntry(e) \in EntryType
    BY <2>1, <2>2 DEF EntryType
  <2>3. Aged(e.retired) # Null => Aged(e.retired) >= Aged(e.expires) - (Ttl + RequestTimeout + RedisDelay)
    BY <2>1, <2>2, Ageing, Durations, NowIsInstant DEF Instant
  <2> QED
    BY <2>1, <2>2, <2>3, <2>4, Durations, NowIsInstant DEF GoodEntry, Instant
<1>5. Delayed'
  <2> SUFFICES ASSUME NEW c \in late PROVE GoodCommand(AgedCommand(c))
    BY <1>1 DEF Delayed, GoodCommand
  <2>1. /\ c \in CommandType /\ c.since > -RedisDelay /\ c.since <= 0
        /\ c.since \in Instant /\ c.retired \in Instant \cup {Null}
        /\ c.retired # Null => c.retired >= c.since - RequestTimeout
    BY <1>1, Durations, NowIsInstant DEF Inv, StoreInv, Delayed, GoodCommand, CommandType
  <2>2. /\ Aged(c.since) = c.since - 1 /\ Aged(c.since) \in Instant
        /\ Aged(c.retired) \in Instant \cup {Null}
    <3>1. c.since > -Horizon /\ c.since # Null
      BY <2>1, Durations, NullIsNone DEF Instant
    <3>2. Aged(c.since) = c.since - 1
      BY <2>1, <3>1, Ageing
    <3>3. Aged(c.since) \in Instant
      BY <2>1, <3>1, <3>2, Durations DEF Instant
    <3> QED
      BY <2>1, <3>2, <3>3, Ageing
  <2>3. Aged(c.retired) # Null => Aged(c.retired) >= Aged(c.since) - RequestTimeout
    <3> SUFFICES ASSUME c.retired # Null PROVE Aged(c.retired) >= Aged(c.since) - RequestTimeout
      BY <2>1, Ageing
    <3>1. c.retired \in Int /\ c.since \in Int /\ c.retired > -Horizon
      BY <2>1, Durations DEF Instant
    <3>2. Aged(c.retired) = c.retired - 1
      BY <2>1, <3>1, Ageing
    <3> QED
      BY <2>1, <2>2, <3>1, <3>2, Durations
  <2>4. /\ AgedCommand(c).retired = Aged(c.retired) /\ AgedCommand(c).since = Aged(c.since)
        /\ AgedCommand(c) \in CommandType
    BY <2>1, <2>2 DEF AgedCommand, CommandType
  <2> QED
    BY <2>1, <2>2, <2>3, <2>4, Durations, NowIsInstant DEF GoodCommand, Instant
<1>6. Fronted'
  <2> SUFFICES ASSUME NEW r \in Requests
               PROVE  /\ GoodFront(front'[r]) /\ front'[r] \in FrontType
                      /\ InFront(r)' => request'[r].pc \notin Active
    BY <1>1 DEF Fronted
  <2>1. /\ front[r] \in FrontType /\ front[r].arrived \in Instant \cup {Null}
        /\ InFront(r) => /\ front[r].kind \in Kinds /\ front[r].arrived \in Instant
                         /\ front[r].arrived > -RequestTimeout /\ front[r].arrived <= 0
                         /\ request[r].pc \notin Active
    BY <1>1, Durations, NowIsInstant DEF Inv, Fronted, InFront, GoodFront, FrontType
  <2>2. /\ front'[r] \in FrontType /\ front'[r].phase = front[r].phase
        /\ front'[r].kind = front[r].kind /\ front'[r].arrived = Aged(front[r].arrived)
    BY <1>1, <2>1, Ageing DEF FrontType
  <2>3. InFront(r) => Aged(front[r].arrived) = front[r].arrived - 1 /\ Aged(front[r].arrived) \in Instant
    BY <2>1, Ageing, Durations, NullIsNone DEF Instant
  <2> QED
    BY <1>2, <2>1, <2>2, <2>3, Durations, NowIsInstant DEF GoodFront, InFront, Instant
<1>7. Tabled' /\ Fresh' /\ Noted'
  BY <1>1, <1>2 DEF Inv, StoreInv, Tabled, CreatedWithJob, Fresh, Noted
<1> QED
  BY <1>3, <1>4, <1>5, <1>6, <1>7 DEF Inv, StoreInv

LEMMA RedisKeeps ==
    ASSUME Inv, Redis
    PROVE  Inv'
<1>1. PICK c \in late : ExecuteLate(c) \/ LoseLate(c)
  BY DEF Redis
<1>2. UNCHANGED <<rows, queued, request, front, effect>> /\ late' = late \ {c}
  BY <1>1 DEF Redis, ExecuteLate, LoseLate
<1>3. /\ c.id \in Users /\ c.retired \in Instant \cup {Null} /\ c.since \in Instant
      /\ c.since >= -RedisDelay
      /\ c.retired # Null => c.retired >= c.since - RequestTimeout
  BY DEF Inv, StoreInv, Delayed, GoodCommand, CommandType
<1>4. Cached'
  <2>1. CASE ExecuteLate(c)
    <3>1. c.retired # Null => c.retired >= -(RequestTimeout + RedisDelay)
      BY <1>3, Durations DEF Instant
    <3>2. GoodEntry(Entry(c))
      BY <1>3, <3>1, EntryIsGood
    <3> QED
      BY <1>3, <2>1, <3>2, OneEntry DEF ExecuteLate, Inv, StoreInv
  <2>2. CASE LoseLate(c)
    BY <2>2 DEF LoseLate, Inv, StoreInv, Cached, GoodEntry
  <2> QED
    BY <1>1, <2>1, <2>2
<1>5. StoreInv'
  BY <1>2, <1>4 DEF Inv, StoreInv, Tabled, CreatedWithJob, Requested, GoodRequest, Delayed, GoodCommand
<1>6. Fronted' /\ Fresh' /\ Noted'
  BY <1>2 DEF Inv, Fronted, InFront, GoodFront, Fresh, Noted
<1> QED
  BY <1>5, <1>6 DEF Inv

-----------------------------------------------------------------------------
(* The gauge. *)

LEMMA InFlightIsFinite ==
    ASSUME NEW S, S \subseteq Requests
    PROVE  IsFiniteSet(S) /\ Cardinality(S) \in Nat
BY FS_Subset, FS_CardinalityType, UserConstants

\* As long as the steps count right, the bound of the model does not matter.
LEMMA BoundedIsEnough ==
    ASSUME NEW g \in Int, g >= Cardinality(InFlight'), gauge' = Bounded(g)
    PROVE  Gauged'
<1>1. Cardinality(InFlight)' = Cardinality(InFlight') /\ Cardinality(InFlight') \in Nat
  <2>1. InFlight' \subseteq Requests
    BY DEF InFlight
  <2> QED
    BY <2>1, InFlightIsFinite
<1>2. MaxLeak \in Nat
  BY LeakBound
<1> QED
  BY <1>1, <1>2 DEF Gauged, GaugeNeverLow, Bounded

LEMMA Fewer ==
    ASSUME NEW S, NEW T, S \subseteq Requests, T \subseteq S
    PROVE  Cardinality(T) <= Cardinality(S) /\ Cardinality(T) \in Nat /\ Cardinality(S) \in Nat
BY InFlightIsFinite, FS_Subset

LEMMA GaugeKeeps ==
    ASSUME Inv, Gauged, HNext
    PROVE  Gauged'
<1> DEFINE was == InFlight
           is == InFlight'
<1>1. /\ was \subseteq Requests /\ is \subseteq Requests
      /\ Cardinality(was) \in Nat /\ Cardinality(is) \in Nat
      /\ gauge \in Int /\ gauge >= Cardinality(was)
  BY InFlightIsFinite DEF InFlight, Gauged, GaugeNeverLow
\* Nobody comes in, and the step does not count.
<1>2. ASSUME is \subseteq was, Uncounted PROVE Gauged'
  <2>1. Cardinality(is) <= Cardinality(was)
    BY <1>1, <1>2, Fewer
  <2> QED
    BY <1>1, <1>2, <2>1, BoundedIsEnough DEF Uncounted
<1>3. ASSUME is = was, UNCHANGED gauge PROVE Gauged'
  BY <1>1, <1>3 DEF Gauged, GaugeNeverLow
\* One that was in flight is answered.
<1>4. ASSUME NEW r \in was, is \subseteq was \ {r}, CountFinished PROVE Gauged'
  <2>1. Cardinality(was \ {r}) = Cardinality(was) - 1
    BY <1>1, InFlightIsFinite, FS_RemoveElement
  <2>2. Cardinality(is) <= Cardinality(was) - 1
    BY <1>1, <1>4, <2>1, Fewer
  <2> QED
    BY <1>1, <1>4, <2>2, BoundedIsEnough DEF CountFinished
<1>5. ASSUME NEW r \in Requests, NEW kind \in Kinds, Receive(r, kind) PROVE Gauged'
  <2>1. is \subseteq was \cup {r} /\ r \notin was
    BY <1>5, RestIsGood DEF Receive, InFlight, InFront, Inv, StoreInv, Requested, Fronted, Results
  <2>2. Cardinality(was \cup {r}) = Cardinality(was) + 1
    BY <1>1, <2>1, InFlightIsFinite, FS_AddElement
  <2>3. Cardinality(is) <= Cardinality(was) + 1
    BY <1>1, <2>1, <2>2, Fewer
  <2> QED
    BY <1>1, <1>5, <2>3, BoundedIsEnough DEF Receive, CountStarted
<1>6. ASSUME NEW r \in Requests, RefuseAtOnce(r) PROVE Gauged'
  <2>1. Rest("refused").pc \notin Active
    BY RestIsGood DEF Results
  <2>2. is = was
    BY <1>6, <2>1 DEF RefuseAtOnce, Answer, InFlight, InFront, Inv, StoreInv, Requested
  <2> QED
    BY <1>3, <1>6, <2>2 DEF RefuseAtOnce
<1>7. ASSUME NEW r \in Requests, VerifyRefuses(r) \/ ExtractRefuses(r) PROVE Gauged'
  <2>1. PICK result \in Results : Refuse(r, result)
    BY <1>7 DEF VerifyRefuses, ExtractRefuses, Results
  <2>2. Rest(result).pc \notin Active /\ Outside.phase = "none"
    BY RestIsGood DEF Outside
  <2>3. r \in was
    BY <1>7 DEF VerifyRefuses, ExtractRefuses, InFlight, InFront
  <2>4. is \subseteq was \ {r}
    BY <2>1, <2>2 DEF Refuse, Answer, InFlight, InFront, Inv, StoreInv, Requested, Fronted
  <2> QED
    BY <1>4, <1>7, <2>3, <2>4 DEF VerifyRefuses, ExtractRefuses
<1>8. ASSUME NEW r \in Requests, AwaitBody(r) PROVE Gauged'
  <2>1. is \subseteq was
    BY <1>8 DEF AwaitBody, InFlight, InFront, Inv, Fronted, FrontType
  <2> QED
    BY <1>2, <1>8, <2>1 DEF AwaitBody
<1>9. ASSUME NEW r \in Requests, NEW u \in Users, NEW email \in Emails, Handle(r, u, email)
      PROVE  Gauged'
  <2>1. is \subseteq was
    BY <1>9 DEF Handle, InFlight, InFront, Outside, Inv, StoreInv, Requested, Fronted
  <2> QED
    BY <1>2, <1>9, <2>1 DEF Handle
<1>10. ASSUME NEW r \in Requests, Work(r) PROVE Gauged'
  <2>1. Moves(r) /\ front' = front /\ CountIfAnswered(r) /\ ~InFront(r)
    BY <1>10, ProgressMoves DEF Work, Inv, Moves, Fronted
  <2>2. r \in was /\ is \subseteq was
    BY <2>1 DEF Moves, InFlight, InFront
  <2>3. request'[r].pc \notin Active => is \subseteq was \ {r}
    BY <2>1, <2>2 DEF InFlight, InFront
  <2> QED
    BY <1>2, <1>4, <2>1, <2>2, <2>3 DEF CountIfAnswered
<1>11. ASSUME NEW r \in Requests, TimeOut(r) PROVE Gauged'
  <2>1. Rest("dropped").pc \notin Active /\ Outside.phase = "none"
    BY RestIsGood DEF Outside, Results
  <2>2. is \subseteq was
    BY <1>11, <2>1 DEF TimeOut, Refuse, Drop, Answer, InFlight, InFront, Inv, StoreInv, Requested, Fronted
  <2> QED
    BY <1>2, <1>11, <2>2 DEF TimeOut
<1>12. CASE Redis
  <2>1. is = was
    BY <1>12 DEF Redis, ExecuteLate, LoseLate, InFlight, InFront
  <2> QED
    BY <1>3, <1>12, <2>1 DEF Redis
<1>13. CASE Pass
  <2>1. \A r \in Requests : request'[r].pc = request[r].pc /\ front'[r].phase = front[r].phase
    BY <1>13 DEF Pass, Tick, AgedRequest, Inv, StoreInv, Requested, RequestType, Fronted, FrontType
  <2>2. is = was
    BY <2>1 DEF InFlight, InFront
  <2> QED
    BY <1>3, <1>13, <2>2 DEF Pass
<1> QED
  BY <1>5, <1>6, <1>7, <1>8, <1>9, <1>10, <1>11, <1>12, <1>13 DEF HNext

-----------------------------------------------------------------------------
(* The invariant. *)

LEMMA InitHInv == HInit => HInv
<1> SUFFICES ASSUME HInit PROVE HInv
  OBVIOUS
<1>1. \A r \in Requests : request[r] = Rest("ok") /\ GoodRequest(request[r]) /\ request[r].pc \notin Active
  BY RestIsGood DEF HInit, Init, Results
<1>2. Requested
  BY <1>1 DEF Requested, GoodRequest, HInit, Init
<1>3. Tabled /\ Cached /\ Delayed
  BY DEF HInit, Init, Tabled, RowType, CreatedWithJob, Cached, Delayed
<1>4. Fronted
  BY <1>1, OutsideIsGood DEF HInit, Fronted, InFront, GoodFront
<1>5. Fresh /\ Noted
  BY <1>1, Calls DEF HInit, Fresh, Noted
<1>6. Gauged
  <2>1. InFlight = {}
    BY <1>1 DEF HInit, InFlight, InFront, Outside
  <2> QED
    BY <2>1, FS_EmptySet DEF HInit, Gauged, GaugeNeverLow
<1> QED
  BY <1>2, <1>3, <1>4, <1>5, <1>6 DEF HInv, Inv, StoreInv

LEMMA Inductive ==
    ASSUME HInv, [HNext]_hvars
    PROVE  HInv'
<1>1. CASE UNCHANGED hvars
  <2>1. StoreInv'
    BY <1>1 DEF hvars, HInv, Inv, StoreInv, Tabled, CreatedWithJob, Requested, GoodRequest,
                Cached, GoodEntry, Delayed, GoodCommand
  <2>2. Fronted' /\ Fresh' /\ Noted'
    BY <1>1 DEF hvars, HInv, Inv, Fronted, InFront, GoodFront, Fresh, Noted
  <2>3. Gauged'
    BY <1>1 DEF hvars, HInv, Gauged, GaugeNeverLow, InFlight, InFront
  <2> QED
    BY <2>1, <2>2, <2>3 DEF HInv, Inv
<1>2. CASE HNext
  <2>1. Inv'
    BY <1>2, ReceiveKeeps, RefuseAtOnceKeeps, RefusalKeeps, AwaitBodyKeeps, WorkKeeps,
       TimeOutKeeps, HandleKeeps, RedisKeeps, PassKeeps DEF HNext, HInv
  <2> QED
    BY <1>2, <2>1, GaugeKeeps DEF HInv
<1> QED
  BY <1>1, <1>2

LEMMA Invariant == HSpec => []HInv
<1>1. HInv /\ [HNext]_hvars => HInv'
  BY Inductive
<1> QED
  BY InitHInv, <1>1, PTL DEF HSpec

-----------------------------------------------------------------------------
(* What the HTTP layer computes from a request alone. *)

\* The key is the last entry of the first line that is no trusted proxy.
LEMMA KeyIsLastStop ==
    ASSUME NEW peer \in Trusted, NEW header, Readable(header),
           DOMAIN header[1] \subseteq Nat, NEW n \in DOMAIN header[1],
           header[1][n] \notin Trusted,
           \A k \in DOMAIN header[1] : k > n => header[1][k] \in Trusted
    PROVE  ClientKey(peer, header) =
               IF header[1][n] = Unreadable THEN peer ELSE header[1][n]
<1> DEFINE chain == header[1]
           stops == {i \in DOMAIN chain : chain[i] \notin Trusted}
           last == CHOOSE i \in stops : \A k \in stops : i >= k
<1>1. n \in stops /\ stops \subseteq Nat /\ \A k \in stops : n >= k
  BY SMT
<1> HIDE DEF stops
<1>2. last \in stops /\ last >= n /\ n >= last
  BY <1>1
<1>3. last = n
  <2>1. last \in Nat /\ n \in Nat
    BY <1>1, <1>2
  <2> HIDE DEF last
  <2> QED
    BY <1>2, <2>1
<1>4. ClientKey(peer, header) =
         IF peer \notin Trusted \/ ~Readable(header) \/ stops = {} \/ chain[last] = Unreadable
         THEN peer ELSE chain[last]
  BY DEF ClientKey, stops
<1> HIDE DEF last
<1> QED
  BY <1>1, <1>3, <1>4

LEMMA FrontOfSeq ==
    ASSUME NEW T, NEW s \in Seq(T), s # <<>>
    PROVE  Front(s) \in Seq(T) /\ Len(Front(s)) = Len(s) - 1
<1> DEFINE n == Len(s) - 1
<1>1. n \in Nat
  BY EmptySeq, LenProperties
<1>2. \A k \in 1..n : s[k] \in T
  BY ElementOfSeq
<1> HIDE DEF n
<1>3. /\ SubSeq(s, 1, n) \in Seq(T)
      /\ Len(SubSeq(s, 1, n)) = IF 1 <= n THEN n - 1 + 1 ELSE 0
  BY <1>1, <1>2, SubSeqProperties
<1>4. Len(SubSeq(s, 1, n)) = n
  BY <1>1, <1>3
<1> QED
  BY <1>3, <1>4 DEF Front, n

\* What is behind a client's entries in one line: the address it was seen under,
\* and then proxies.
LEMMA SeenThenProxies ==
    ASSUME NEW forged \in Forged, NEW hops \in BoundedSeq(Trusted, MaxHops), hops # <<>>,
           NEW seen, NEW m \in 1..Len(hops)
    PROVE  LET chain == forged \o SubSeq(<<seen>> \o Front(hops), 1, m)
               n == Len(forged) + 1
           IN  /\ Len(forged) \in Nat /\ DOMAIN forged = 1..Len(forged)
               /\ DOMAIN chain \subseteq Nat /\ n \in DOMAIN chain /\ chain[n] = seen
               /\ \A k \in DOMAIN chain : k > n => chain[k] \in Trusted
               /\ \A k \in DOMAIN forged : k \in DOMAIN chain /\ chain[k] = forged[k]
               /\ \A k \in DOMAIN chain : k < n => k \in DOMAIN forged
<1> DEFINE rest == Front(hops)
           added == <<seen>> \o rest
           start == SubSeq(added, 1, m)
           All == Addresses \cup {Unreadable, Opaque} \cup {seen}
<1>1. hops \in Seq(Trusted) /\ Len(hops) \in Nat /\ Len(hops) > 0
  <2>1. PICK h \in 0..MaxHops : hops \in [1..h -> Trusted]
    BY DEF BoundedSeq, SeqOf
  <2>2. h \in Nat
    BY <2>1, InputConstants
  <2>3. hops \in Seq(Trusted)
    BY <2>1, <2>2
  <2> QED
    BY <2>3, EmptySeq, LenProperties
<1>2. forged \in Seq(All) /\ Len(forged) \in Nat /\ DOMAIN forged = 1..Len(forged)
  <2>1. PICK f \in 0..MaxForged : forged \in [1..f -> Addresses \cup {Unreadable, Opaque}]
    BY DEF Forged, BoundedSeq, SeqOf
  <2>2. f \in Nat
    BY <2>1, InputConstants
  <2>3. forged \in [1..f -> All]
    BY <2>1
  <2>4. forged \in Seq(All)
    BY <2>2, <2>3
  <2> QED
    BY <2>4, LenProperties
<1>3. rest \in Seq(Trusted) /\ Len(rest) = Len(hops) - 1
  BY <1>1, FrontOfSeq
<1>4. rest \in Seq(All)
  <2>1. Trusted \subseteq All
    BY InputConstants
  <2>2. rest \in [1..Len(rest) -> All] /\ Len(rest) \in Nat
    BY <1>3, <2>1, LenProperties
  <2> QED
    BY <2>2
<1>5. <<seen>> \in Seq(All) /\ Len(<<seen>>) = 1 /\ <<seen>>[1] = seen
  OBVIOUS
<1> HIDE DEF rest, All
<1>6. added \in Seq(All) /\ Len(added) = Len(hops)
  <2>1. added \in Seq(All) /\ Len(added) = Len(<<seen>>) + Len(rest)
    BY <1>4, <1>5, ConcatProperties
  <2> QED
    BY <1>1, <1>3, <1>5, <2>1
<1>7. added[1] = seen /\ \A k \in 2..Len(hops) : added[k] \in Trusted
  <2>1. \A k \in 1..Len(<<seen>>) + Len(rest) :
           added[k] = IF k <= Len(<<seen>>) THEN <<seen>>[k] ELSE rest[k - Len(<<seen>>)]
    BY <1>4, <1>5, ConcatProperties
  <2>2. added[1] = seen
    BY <1>1, <1>3, <1>5, <2>1
  <2>3. ASSUME NEW k \in 2..Len(hops) PROVE added[k] \in Trusted
    <3>1. added[k] = rest[k - 1] /\ k - 1 \in 1..Len(rest)
      BY <1>1, <1>3, <1>5, <2>1
    <3> QED
      BY <1>3, <3>1, ElementOfSeq
  <2> QED
    BY <2>2, <2>3
<1> HIDE DEF added
<1>8. start \in Seq(All) /\ Len(start) = m /\ \A k \in 1..m : start[k] = added[k]
  <2>1. \A k \in 1..m : added[k] \in All
    BY <1>1, <1>6, ElementOfSeq
  <2> QED
    BY <1>1, <1>6, <2>1, SubSeqProperties
<1> HIDE DEF start
<1> DEFINE chain == forged \o start
<1>9. chain \in Seq(All) /\ Len(chain) = Len(forged) + m
  BY <1>2, <1>8, ConcatProperties
<1>10. \A k \in 1..Len(forged) + m :
          chain[k] = IF k <= Len(forged) THEN forged[k] ELSE start[k - Len(forged)]
  BY <1>2, <1>8, ConcatProperties
<1> HIDE DEF chain
<1>11. DOMAIN chain = 1..Len(forged) + m
  BY <1>9
<1>12. Len(forged) + 1 \in DOMAIN chain /\ chain[Len(forged) + 1] = seen
  <2>1. Len(forged) + 1 \in 1..Len(forged) + m /\ ~(Len(forged) + 1 <= Len(forged))
    BY <1>1, <1>2
  <2>2. (Len(forged) + 1) - Len(forged) = 1
    BY <1>2
  <2>3. chain[Len(forged) + 1] = start[1]
    BY <1>10, <2>1, <2>2
  <2> QED
    BY <1>7, <1>8, <1>11, <2>1, <2>3
<1>13. ASSUME NEW k \in DOMAIN chain, k > Len(forged) + 1 PROVE chain[k] \in Trusted
  <2>1. ~(k <= Len(forged)) /\ k - Len(forged) \in 1..m /\ k - Len(forged) \in 2..Len(hops)
    BY <1>1, <1>2, <1>11, <1>13
  <2>2. chain[k] = start[k - Len(forged)]
    BY <1>10, <1>11, <2>1
  <2> QED
    BY <1>7, <1>8, <2>1, <2>2
<1>14. \A k \in DOMAIN forged : k \in DOMAIN chain /\ chain[k] = forged[k]
  BY <1>1, <1>2, <1>10, <1>11
<1>15. DOMAIN chain \subseteq Nat /\ \A k \in DOMAIN chain : k < Len(forged) + 1 => k \in DOMAIN forged
  BY <1>1, <1>2, <1>11
<1> QED
  BY <1>2, <1>12, <1>13, <1>14, <1>15 DEF chain, start, added, rest

\* The line the limiter reads has what the client wrote, if anything, in front
\* of what at least one proxy wrote.
LEMMA FirstLine ==
    ASSUME NEW forged \in Forged, NEW hops \in BoundedSeq(Trusted, MaxHops), hops # <<>>,
           NEW seen, NEW joined \in 0..Len(hops), joined > 0 \/ forged = <<>>
    PROVE  LET header == Header(forged, seen, hops, joined)
           IN  /\ header # <<>>
               /\ \E m \in 1..Len(hops) :
                     header[1] = forged \o SubSeq(<<seen>> \o Front(hops), 1, m)
<1> DEFINE added == <<seen>> \o Front(hops)
           lines == [k \in 1..Len(hops) - joined |-> <<added[joined + k]>>]
           line == forged \o SubSeq(added, 1, joined)
<1>1. Len(hops) \in Nat /\ Len(hops) > 0 /\ Len(added) = Len(hops) /\ \E T : added \in Seq(T)
  <2>1. PICK h \in 0..MaxHops : hops \in [1..h -> Trusted]
    BY DEF BoundedSeq, SeqOf
  <2>2. h \in Nat
    BY <2>1, InputConstants
  <2>3. hops \in Seq(Trusted)
    BY <2>1, <2>2
  <2>4. Len(hops) \in Nat /\ Len(hops) > 0
    BY <2>3, EmptySeq, LenProperties
  <2> DEFINE T == Trusted \cup {seen}
  <2>5. Front(hops) \in Seq(T) /\ Len(Front(hops)) = Len(hops) - 1
    <3>1. hops \in [1..h -> T]
      BY <2>1
    <3>2. hops \in Seq(T)
      BY <2>2, <3>1
    <3> HIDE DEF T
    <3> QED
      BY <3>2, FrontOfSeq
  <2>6. <<seen>> \in Seq(T) /\ Len(<<seen>>) = 1
    OBVIOUS
  <2>7. added \in Seq(T) /\ Len(added) = Len(<<seen>>) + Len(Front(hops))
    <3> HIDE DEF T
    <3> QED
      BY <2>5, <2>6, ConcatProperties
  <2>8. Len(added) = Len(hops)
    BY <2>4, <2>5, <2>6, <2>7
  <2> QED
    BY <2>4, <2>7, <2>8
<1> HIDE DEF added
<1>2. lines \in Seq({<<added[k]>> : k \in 1..Len(hops)}) /\ Len(lines) = Len(hops) - joined
  <2>1. Len(hops) - joined \in Nat
    BY <1>1
  <2>2. \A k \in 1..Len(hops) - joined : joined + k \in 1..Len(hops)
    BY <1>1
  <2>3. lines \in [1..Len(hops) - joined -> {<<added[k]>> : k \in 1..Len(hops)}]
    BY <2>2
  <2> QED
    BY <2>1, <2>3
<1>3. CASE joined > 0
  <2> DEFINE L == {<<added[k]>> : k \in 1..Len(hops)} \cup {line}
  <2>1. Header(forged, seen, hops, joined) = <<line>> \o lines
    BY <1>3 DEF Header, added
  <2>2. <<line>> \in Seq(L) /\ Len(<<line>>) = 1 /\ <<line>>[1] = line
    OBVIOUS
  <2>3. lines \in Seq(L)
    <3>1. lines \in [1..Len(lines) -> L] /\ Len(lines) \in Nat
      BY <1>1, <1>2, LenProperties
    <3> QED
      BY <3>1
  <2> HIDE DEF L, line
  <2>4. /\ <<line>> \o lines \in Seq(L) /\ Len(<<line>> \o lines) = 1 + Len(lines)
        /\ \A k \in 1..1 + Len(lines) :
              (<<line>> \o lines)[k] = IF k <= 1 THEN <<line>>[k] ELSE lines[k - 1]
    <3> HIDE DEF lines
    <3> QED
      BY <2>2, <2>3, ConcatProperties
  <2>5. 1 \in 1..1 + Len(lines) /\ 1 + Len(lines) > 0
    BY <1>1, <1>2
  <2>6. (<<line>> \o lines)[1] = line /\ <<line>> \o lines # <<>>
    <3> HIDE DEF lines
    <3> QED
      BY <2>2, <2>4, <2>5, EmptySeq
  <2>7. joined \in 1..Len(hops)
    BY <1>1, <1>3
  <2> QED
    BY <2>1, <2>6, <2>7 DEF line, added
<1>4. CASE joined = 0
  <2>1. forged = <<>>
    BY <1>4
  <2>2. Header(forged, seen, hops, joined) = <<>> \o lines
    BY <1>4, <2>1 DEF Header, added
  <2>3. <<>> \o lines = lines
    BY <1>2, ConcatEmptySeq
  <2>4. lines[1] = <<added[1]>> /\ lines # <<>>
    <3>1. 1 \in 1..Len(hops) - joined /\ joined + 1 = 1
      BY <1>1, <1>4
    <3>2. lines[1] = <<added[1]>>
      BY <3>1
    <3> QED
      BY <1>1, <1>2, <1>4, <3>2, EmptySeq
  <2>5. SubSeq(added, 1, 1) = <<added[1]>>
    <3>1. PICK T : added \in Seq(T)
      BY <1>1
    <3>2. 1 \in 1..Len(added)
      BY <1>1
    <3>3. \A i \in 1..1 : added[i] \in T
      BY <3>1, <3>2, ElementOfSeq
    <3>4. /\ SubSeq(added, 1, 1) \in Seq(T)
          /\ Len(SubSeq(added, 1, 1)) = IF 1 <= 1 THEN 1 - 1 + 1 ELSE 0
          /\ \A i \in 1..1 - 1 + 1 : SubSeq(added, 1, 1)[i] = added[1 + i - 1]
      BY <3>3, SubSeqProperties
    <3>5. Len(SubSeq(added, 1, 1)) = 1 /\ SubSeq(added, 1, 1)[1] = added[1]
      BY <3>4
    <3>6. <<added[1]>> \in Seq(T) /\ Len(<<added[1]>>) = 1 /\ <<added[1]>>[1] = added[1]
      BY <3>3
    <3>7. \A i \in 1..1 : SubSeq(added, 1, 1)[i] = <<added[1]>>[i]
      BY <3>5, <3>6
    <3> QED
      BY <3>4, <3>5, <3>6, <3>7, SeqEqual
  <2>6. forged \o SubSeq(added, 1, 1) = <<added[1]>>
    BY <2>1, <2>5
  <2>7. 1 \in 1..Len(hops)
    BY <1>1
  <2> QED
    BY <2>2, <2>3, <2>4, <2>6, <2>7 DEF added
<1>5. joined > 0 \/ joined = 0
  BY <1>1
<1> QED
  BY <1>3, <1>4, <1>5, Zenon

LEMMA KeysAreClients == EveryKeyIsItsClient
<1> SUFFICES ASSUME NEW client \in Addresses \ Trusted, NEW forged \in Forged,
                    NEW hops \in BoundedSeq(Trusted, MaxHops), NEW seen \in {client, Unreadable},
                    NEW joined \in 0..Len(hops), ProxiesSpeakFirst(forged, hops, joined)
             PROVE  LET peer  == IF hops = <<>> THEN client ELSE Last(hops)
                        named == seen = client /\ \A i \in DOMAIN forged : forged[i] # Opaque
                    IN  ClientKey(peer, Header(forged, seen, hops, joined)) =
                            IF named THEN client ELSE peer
  BY DEF EveryKeyIsItsClient
<1>1. seen \notin Trusted /\ client # Unreadable /\ seen # Opaque /\ Opaque \notin Trusted
  BY InputConstants
<1> DEFINE header == Header(forged, seen, hops, joined)
           n == Len(forged) + 1
<1>2. CASE hops = <<>>
  <2>1. ClientKey(client, header) = client
    BY DEF ClientKey
  <2> QED
    BY <1>2, <2>1
<1>3. CASE hops # <<>>
  <2>1. joined > 0 \/ forged = <<>>
    BY <1>3 DEF ProxiesSpeakFirst
  <2>2. header # <<>>
    BY <1>3, <2>1, FirstLine
  <2>3. PICK m \in 1..Len(hops) : header[1] = forged \o SubSeq(<<seen>> \o Front(hops), 1, m)
    BY <1>3, <2>1, FirstLine
  <2>4. Last(hops) \in Trusted
    <3>1. PICK h \in 0..MaxHops : hops \in [1..h -> Trusted]
      BY DEF BoundedSeq, SeqOf
    <3>2. h \in Nat
      BY <3>1, InputConstants
    <3>3. hops \in Seq(Trusted)
      BY <3>1, <3>2
    <3> QED
      BY <1>3, <3>3, EmptySeq, LenProperties, ElementOfSeq DEF Last
  <2> HIDE DEF header
  <2> DEFINE chain == forged \o SubSeq(<<seen>> \o Front(hops), 1, m)
  <2>5. /\ Len(forged) \in Nat /\ DOMAIN forged = 1..Len(forged)
        /\ DOMAIN chain \subseteq Nat /\ n \in DOMAIN chain /\ chain[n] = seen
        /\ \A k \in DOMAIN chain : k > n => chain[k] \in Trusted
        /\ \A k \in DOMAIN forged : k \in DOMAIN chain /\ chain[k] = forged[k]
        /\ \A k \in DOMAIN chain : k < n => k \in DOMAIN forged
    BY <1>3, SeenThenProxies, Zenon
  <2>6. header[1] = chain
    BY <2>3
  <2> HIDE DEF chain, n
  <2>7. /\ Len(forged) \in Nat /\ DOMAIN forged = 1..Len(forged)
        /\ DOMAIN header[1] \subseteq Nat /\ n \in DOMAIN header[1] /\ header[1][n] = seen
        /\ \A k \in DOMAIN header[1] : k > n => header[1][k] \in Trusted
        /\ \A k \in DOMAIN forged : k \in DOMAIN header[1] /\ header[1][k] = forged[k]
        /\ \A k \in DOMAIN header[1] : k < n => k \in DOMAIN forged
    BY <2>5, <2>6
  <2>8. Readable(header) <=> \A i \in DOMAIN forged : forged[i] # Opaque
    <3>1. ASSUME \A i \in DOMAIN forged : forged[i] # Opaque, NEW k \in DOMAIN header[1]
          PROVE  header[1][k] # Opaque
      <4>1. k < n \/ k = n \/ k > n
        BY <2>7
      <4> QED
        BY <1>1, <2>7, <3>1, <4>1
    <3> QED
      BY <2>2, <2>7, <3>1 DEF Readable
  <2>9. CASE Readable(header)
    <3>1. ClientKey(Last(hops), header) = IF seen = Unreadable THEN Last(hops) ELSE seen
      BY <1>1, <2>4, <2>7, <2>9, KeyIsLastStop
    <3> QED
      BY <1>1, <1>3, <2>8, <2>9, <3>1 DEF header
  <2>10. CASE ~Readable(header)
    <3>1. ClientKey(Last(hops), header) = Last(hops)
      BY <2>10 DEF ClientKey
    <3> QED
      BY <1>3, <2>8, <2>10, <3>1 DEF header
  <2> QED
    BY <2>9, <2>10
<1> QED
  BY <1>2, <1>3

LEMMA HasMinimum ==
    ASSUME NEW S, S \subseteq Nat, S # {}
    PROVE  \E m \in S : \A k \in S : m <= k
<1> DEFINE less == OpToRel(<, Nat)
<1>1. IsWellFoundedOn(less, Nat)
  BY NatLessThanWellFounded
<1>2. \A x, y \in Nat : x < y => <<x, y>> \in less
  BY DEF OpToRel
<1> HIDE DEF less
<1>3. PICK m \in S : \A k \in S : <<k, m>> \notin less
  BY <1>1, WFMin
<1>4. \A k \in S : m <= k
  <2> SUFFICES ASSUME NEW k \in S PROVE ~(k < m)
    BY SMT
  <2> QED
    BY <1>2, <1>3
<1> QED
  BY <1>4

\* Pages before another one end before it starts.
LEMMA PagesInOrder ==
    ASSUME NEW a \in Nat, NEW b \in Nat, NEW n \in Nat, a < b
    PROVE  a * n \in Nat /\ b * n \in Nat /\ a * n + n <= b * n
<1>1. PICK d \in Nat : b = a + 1 + d
  <2>1. b - (a + 1) \in Nat /\ b = a + 1 + (b - (a + 1))
    OBVIOUS
  <2> QED
    BY <2>1
<1>2. b * n = a * n + n + d * n
  BY <1>1
<1>3. a * n \in Nat /\ d * n \in Nat
  OBVIOUS
<1> QED
  BY <1>2, <1>3

LEMMA TablesAreTiled == EveryTableIsTiled
<1> SUFFICES ASSUME NEW total \in 0..MaxTotal, NEW per_page \in 0..MaxTotal
             PROVE  /\ Shown(total, 0, per_page) = Shown(total, 1, per_page)
                    /\ \A i \in 1..total :
                          \E page \in 1..total :
                             \A q \in 1..total + 1 : i \in Shown(total, q, per_page) <=> q = page
  BY DEF EveryTableIsTiled
<1> DEFINE n == PerPage(per_page)
<1>1. n \in Nat /\ n >= 1 /\ total \in Nat
  BY InputConstants DEF PerPage
<1>2. Shown(total, 0, per_page) = Shown(total, 1, per_page)
  <2>1. Page(0) = Page(1)
    BY DEF Page
  <2> QED
    BY <2>1 DEF Shown, Offset
<1> HIDE DEF n
<1>3. ASSUME NEW i \in 1..total, NEW q \in Nat, q >= 1
      PROVE  i \in Shown(total, q, per_page) <=> i > (q - 1) * n /\ i <= (q - 1) * n + n
  <2>1. Page(q) = q
    BY <1>3 DEF Page
  <2>2. Offset(q, per_page) = (q - 1) * n
    BY <2>1 DEF Offset, n
  <2> QED
    BY <2>2 DEF Shown, n
<1>4. ASSUME NEW i \in 1..total
      PROVE  \E page \in 1..total :
                \A q \in 1..total + 1 : i \in Shown(total, q, per_page) <=> q = page
  <2> DEFINE Reached == {m \in Nat : i <= m * n}
  <2>1. i \in Nat /\ i \in Reached
    <3>1. i \in Nat /\ i - 1 \in Nat /\ i >= 1 /\ n - 1 \in Nat
      BY <1>1
    <3>2. i * n = i + i * (n - 1)
      BY <1>1, <3>1
    <3>3. i * (n - 1) \in Nat
      BY <3>1
    <3> QED
      BY <1>1, <3>1, <3>2, <3>3
  <2>2. PICK m \in Reached : \A k \in Reached : m <= k
    BY <2>1, HasMinimum
  <2>3. m \in Nat /\ i <= m * n /\ m <= i
    BY <2>1, <2>2
  <2>4. m # 0
    <3>1. 0 * n = 0
      BY <1>1
    <3> QED
      BY <2>1, <2>3, <3>1
  <2>5. m \in 1..total /\ m - 1 \in Nat
    BY <1>1, <2>1, <2>3, <2>4
  <2>6. (m - 1) * n \in Nat /\ (m - 1) * n < i
    <3>1. m - 1 \notin Reached
      BY <2>2, <2>3
    <3>2. (m - 1) * n \in Nat
      BY <1>1, <2>5
    <3> QED
      BY <2>1, <2>5, <3>1, <3>2
  <2>7. m * n = (m - 1) * n + n
    BY <1>1, <2>3
  <2> HIDE DEF Reached
  <2>8. ASSUME NEW q \in 1..total + 1
        PROVE  i \in Shown(total, q, per_page) <=> q = m
    <3>1. q \in Nat /\ q >= 1 /\ q - 1 \in Nat
      BY <1>1
    <3>2. i \in Shown(total, q, per_page) <=> i > (q - 1) * n /\ i <= (q - 1) * n + n
      BY <1>3, <3>1
    <3>3. CASE q = m
      BY <2>3, <2>6, <2>7, <3>2, <3>3
    <3>4. CASE q < m
      <4>1. /\ q - 1 < m - 1
            /\ (q - 1) * n \in Nat
            /\ (q - 1) * n + n <= (m - 1) * n
        BY <1>1, <2>5, <3>1, <3>4, PagesInOrder
      <4> QED
        BY <1>1, <2>1, <2>6, <3>2, <3>4, <4>1
    <3>5. CASE q > m
      <4>1. /\ m - 1 < q - 1
            /\ (q - 1) * n \in Nat
            /\ (m - 1) * n + n <= (q - 1) * n
        BY <1>1, <2>5, <3>1, <3>5, PagesInOrder
      <4> QED
        BY <1>1, <2>1, <2>3, <2>6, <2>7, <3>2, <3>5, <4>1
    <3> QED
      BY <2>3, <3>1, <3>3, <3>4, <3>5
  <2> QED
    BY <2>5, <2>8
<1> QED
  BY <1>2, <1>4

-----------------------------------------------------------------------------
(* Theorems. *)

\* The variables keep their types; a row is live, deleted or was never there.
THEOREM HTypes == HSpec => []HTypeOK
<1>1. HInv => HTypeOK
  BY DEF HInv, Inv, StoreInv, Tabled, RowType, Requested, Cached, Delayed, GoodCommand,
         Fronted, Noted, Gauged, HTypeOK, TypeOK
<1> QED
  BY <1>1, Invariant, PTL

\* create_with_job: no step of any request separates a user from its job.
THEOREM UserWithJob == HSpec => []CreatedWithJob
<1>1. HInv => CreatedWithJob
  BY DEF HInv, Inv, StoreInv, Tabled
<1> QED
  BY <1>1, Invariant, PTL

\* The cache, the use cases around it and the TimeoutLayer: a changed user is
\* served no longer than the TTL, a request and an abandoned command together.
THEOREM StaleForABoundedTime == HSpec => []StalenessBounded
<1>1. ASSUME HInv PROVE StalenessBounded
  <2> SUFFICES ASSUME NEW u \in Users, cache[u] # Null, cache[u].retired # Null
               PROVE  cache[u].retired > NOW - (Ttl + RequestTimeout + RedisDelay)
    BY DEF StalenessBounded
  <2>1. /\ cache[u] \in EntryType /\ cache[u].expires > NOW
        /\ cache[u].retired >= cache[u].expires - (Ttl + RequestTimeout + RedisDelay)
    BY <1>1 DEF HInv, Inv, StoreInv, Cached, GoodEntry
  <2>2. cache[u].retired \in Int /\ cache[u].expires \in Int
    BY <2>1 DEF EntryType, Instant
  <2> QED
    BY <2>1, <2>2, Durations, NowIsInstant
<1> QED
  BY <1>1, Invariant, PTL

\* record_http_metrics: the gauge misses no request that is in flight.
THEOREM GaugeCountsAll == HSpec => []GaugeNeverLow
<1>1. HInv => GaugeNeverLow
  BY DEF HInv, Gauged
<1> QED
  BY <1>1, Invariant, PTL

\* The use cases and the mapping of their results: 408 and 503 apart, a status
\* tells what the request did to the table.
THEOREM StatusesAreTrue == HSpec => AnswersAreTrue
<1>1. ASSUME HInv, [HNext]_hvars, NEW r \in Requests, Answered(r)
      PROVE  LET kind    == request[r].kind
                 status  == StatusOf(kind, request'[r].pc)
                 changed == effect[r] \/ rows' # rows
             IN  /\ changed /\ status \notin Unknown => status \in Success
                 /\ status \in Success /\ kind \in {"create", "delete"} => changed
  <2>1. request[r].pc \in Active /\ ~InFront(r)
    BY <1>1 DEF Answered, HInv, Inv, Fronted
  \* Only its own use case and its timeout answer a request.
  <2>2. Work(r) \/ TimeOut(r)
    <3>1. ASSUME NEW p \in Requests, p # r, Work(p) PROVE FALSE
      BY <1>1, <3>1, ProgressMoves DEF Work, Moves, Answered, HInv, Inv
    <3>2. ASSUME NEW p \in Requests, p # r, NEW result, Answer(p, result) PROVE FALSE
      BY <1>1, <3>2 DEF Answer, Answered, HInv, Inv, StoreInv, Requested
    <3>3. ASSUME NEW p \in Requests, p # r, TimeOut(p) PROVE FALSE
      BY <3>2, <3>3 DEF TimeOut, Refuse, Drop
    <3>4. ASSUME NEW p \in Requests, RefuseAtOnce(p) \/ VerifyRefuses(p) \/ ExtractRefuses(p)
          PROVE  FALSE
      <4>1. p # r
        BY <2>1, <3>4 DEF RefuseAtOnce, VerifyRefuses, ExtractRefuses, InFlight, InFront
      <4> QED
        BY <3>2, <3>4, <4>1 DEF RefuseAtOnce, VerifyRefuses, ExtractRefuses, Refuse
    <3>5. ASSUME NEW p \in Requests, NEW kind \in Kinds, Receive(p, kind) PROVE FALSE
      <4>1. p # r
        BY <2>1, <3>5 DEF Receive, InFlight
      <4> QED
        BY <3>2, <3>5, <4>1 DEF Receive, Answer
    <3>6. ASSUME NEW p \in Requests, NEW u \in Users, NEW email \in Emails, Handle(p, u, email)
          PROVE  FALSE
      <4>1. p # r
        BY <2>1, <3>6 DEF Handle
      <4> QED
        BY <1>1, <3>6, <4>1 DEF Handle, Answered, HInv, Inv, StoreInv, Requested
    <3>7. ASSUME UNCHANGED request PROVE FALSE
      BY <1>1, <3>7 DEF Answered
    <3>8. ASSUME Pass PROVE FALSE
      BY <1>1, <3>8 DEF Pass, Tick, AgedRequest, Answered, HInv, Inv, StoreInv, Requested, RequestType
    <3> QED
      BY <1>1, <3>1, <3>3, <3>4, <3>5, <3>6, <3>7, <3>8
         DEF HNext, hvars, AwaitBody, Redis, ExecuteLate, LoseLate
  <2>3. CASE TimeOut(r)
    <3>1. request'[r].pc = "dropped"
      <4>1. Answer(r, "dropped") /\ Rest("dropped").pc = "dropped"
        BY <2>3, RestIsGood DEF TimeOut, Refuse, Drop, Results
      <4> QED
        BY <1>1, <4>1 DEF Answer, HInv, Inv, StoreInv, Requested
    <3> QED
      BY <3>1 DEF StatusOf, Unknown, Success
  <2>4. CASE Work(r)
    <3>1. Moves(r) /\ request'[r].pc \in {"ok", "not_found", "email_exists", "unavailable"}
      BY <1>1, <2>4, ProgressMoves DEF Work, Moves, Answered, HInv, Inv
    <3>2. CASE request[r].pc \in CacheWrites
      <4>1. request'[r].pc = "ok"
        BY <1>1, <3>1, <3>2, Calls DEF Moves, Told, Answered, CacheWrites
      <4>2. request[r].kind \in {"create", "delete"} => effect[r]
        BY <1>1, <3>2 DEF HInv, Inv, Noted
      <4> QED
        BY <4>1, <4>2 DEF StatusOf, Success, Unknown
    <3>3. CASE request[r].pc \notin CacheWrites
      <4>1. ~effect[r]
        BY <1>1, <3>3 DEF HInv, Inv, Noted
      <4>2. rows' # rows => request'[r].pc = "unavailable"
        BY <1>1, <3>1, <3>3, Calls DEF Moves, Told, Answered, CacheWrites
      <4>3. request'[r].pc = "ok" => request[r].kind \in {"get", "list"}
        BY <3>1, <3>3 DEF Moves, Told
      <4> QED
        BY <3>1, <4>1, <4>2, <4>3 DEF StatusOf, Success, Unknown
    <3> QED
      BY <3>2, <3>3
  <2> QED
    BY <2>2, <2>3, <2>4
<1>2. HInv /\ [HNext]_hvars =>
        [\A r \in Requests : Answered(r) =>
            LET kind    == request[r].kind
                status  == StatusOf(kind, request'[r].pc)
                changed == effect[r] \/ rows' # rows
            IN  /\ changed /\ status \notin Unknown => status \in Success
                /\ status \in Success /\ kind \in {"create", "delete"} => changed]_hvars
  BY <1>1
<1> QED
  BY <1>2, Invariant, PTL DEF HSpec, AnswersAreTrue

\* rate_limit.rs: behind trusted proxies that overwrite or join what the client
\* writes into X-Forwarded-For, of any number, and however they spread what they
\* add over lines, it is counted under its own address, or under its proxy's
\* when the chain does not name it or is not readable text.
THEOREM KeysNameClients == HSpec => []KeyIsClient
<1>1. KeyIsClient
  BY KeysAreClients DEF KeyIsClient
<1> QED
  BY <1>1, PTL

\* normalized and the LIMIT and OFFSET it gives: the pages of any size show
\* every row of a table exactly once.
THEOREM PagesShowEachRowOnce == HSpec => []PagesTile
<1>1. PagesTile
  BY TablesAreTiled DEF PagesTile
<1> QED
  BY <1>1, PTL
===========================================================================
