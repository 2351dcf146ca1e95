----------------------------- MODULE UserStore -----------------------------
(***************************************************************************)
(* The user API: the use cases of src/src/application/user/use_cases over  *)
(* the table users (postgres/user_repository.rs) and the optional Redis    *)
(* cache (cache/redis/user_cache.rs).                                      *)
(*                                                                         *)
(* Requests are tasks that run concurrently; a step is what happens        *)
(* between two awaits, the statement or command awaited included.  The     *)
(* router's TimeoutLayer, or a client that goes away, may drop a request   *)
(* at any await.  A Redis command that its request stopped waiting for may *)
(* still be executed: it is then in `late`.                                *)
(*                                                                         *)
(* A cached or fetched User is known by its retirement only: Null while it *)
(* is what the table holds, then the instant at which the row changed.     *)
(***************************************************************************)
EXTENDS RelativeTime, FiniteSets

CONSTANTS
    Users,           \* ids; UserId::new never gives one out twice
    Emails,          \* normalised addresses
    Requests,        \* request tasks
    Kinds,           \* BOUND: the endpoints clients call
    Ttl,             \* user_cache_ttl_seconds
    RequestTimeout,  \* request_timeout_seconds
    RedisDelay       \* longest time an abandoned command stays executable

VARIABLES
    rows,            \* id -> row of users
    queued,          \* ids with a user.created job in background_jobs
    cache,           \* id -> entry of users:{id}, or Null
    late,            \* Redis commands nobody waits for
    request          \* request -> its progress

vars == <<rows, queued, cache, late, request>>

ASSUME UserConstants ==
    /\ IsFiniteSet(Requests)
    /\ Kinds \subseteq {"create", "get", "list", "update", "delete"}
    /\ Ttl \in Nat \ {0}
    /\ RequestTimeout \in Nat \ {0}
    /\ RedisDelay \in Nat
    /\ Null \notin Int
    /\ Null \notin Users
    /\ Null \notin Emails
    /\ Horizon \in Nat
    /\ Horizon > Ttl + RequestTimeout + RedisDelay

-----------------------------------------------------------------------------
(* State.  The pc of a request is the call it awaits; the results are what *)
(* the use case returned; "refused" is an error it returns before it       *)
(* awaits anything, or that the layers in front of it answer themselves.   *)

InTransaction == {"insert_job", "commit"}
OnTable == {"insert_user", "find", "list", "update", "delete"} \cup InTransaction
OnCache == {"cache_get", "cache_set", "cache_delete"}
Active == OnTable \cup OnCache
Results == {"ok", "refused", "not_found", "email_exists", "unavailable", "dropped"}

Copy == [retired : Instant \cup {Null}]

ASSUME NoneIsNoUser == Null \notin Copy

RequestType ==
    [pc      : Active \cup Results,
     kind    : Kinds \cup {Null},
     id      : Users \cup {Null},
     email   : Emails \cup {Null},
     user    : {Null} \cup Copy,             \* what the repository returned
     arrived : Instant \cup {Null},
     changed : BOOLEAN]                      \* HISTORY: others wrote the row since

Rest(result) ==
    [pc |-> result, kind |-> Null, id |-> Null, email |-> Null, user |-> Null,
     arrived |-> Null, changed |-> FALSE]

EntryType == [retired : Instant \cup {Null}, expires : Instant]

CommandType == [op : {"set", "delete"}, id : Users, retired : Instant \cup {Null},
                since : Instant]

Live(u) == rows[u].status = "live"

Current == [retired |-> Null]

Answer(r, result) == request' = [request EXCEPT ![r] = Rest(result)]

Await(r, pc) == request' = [request EXCEPT ![r].pc = pc]

AwaitWith(r, pc, user) == request' = [request EXCEPT ![r].pc = pc, ![r].user = user]

-----------------------------------------------------------------------------
(* The row of u changes or goes: every copy of the old one retires.        *)

Retire(copy) == IF copy.retired = Null THEN [copy EXCEPT !.retired = NOW] ELSE copy

RetiredCache(u) ==
    [v \in Users |-> IF v = u /\ cache[v] # Null THEN Retire(cache[v]) ELSE cache[v]]

RetiredLate(u) ==
    {IF c.id = u /\ c.op = "set" THEN Retire(c) ELSE c : c \in late}

RetiredRequests(u) ==
    [r \in Requests |->
        IF request[r].id # u THEN request[r]
        ELSE [request[r] EXCEPT !.user = IF @ = Null THEN Null ELSE Retire(@),
                                !.changed = TRUE]]

\* Request r writes the row of u, then is as `next`.
Write(r, u, row, next) ==
    /\ rows' = [rows EXCEPT ![u] = row]
    /\ cache' = RetiredCache(u)
    /\ late' = RetiredLate(u)
    /\ request' = [RetiredRequests(u) EXCEPT ![r] = next]

-----------------------------------------------------------------------------
(* Arrival. *)

Starts(kind) ==
    CASE kind = "create" -> "insert_user"
      [] kind = "get"    -> "cache_get"
      [] OTHER           -> kind

\* The id is new for create; otherwise the client names one it has seen.  A
\* list names none.
IdFor(kind, u) ==
    CASE kind = "create" -> /\ rows[u].status = "none"
                            /\ \A r \in Requests : request[r].id # u
      [] kind = "list"   -> TRUE
      [] OTHER           -> rows[u].status # "none"

\* The use case starts, for a request that arrived at `since`.
Started(kind, u, email, since) ==
    [pc |-> Starts(kind), kind |-> kind,
     id |-> IF kind = "list" THEN Null ELSE u,
     email |-> IF kind \in {"create", "update"} THEN email ELSE Null,
     user |-> Null, arrived |-> since, changed |-> FALSE]

Arrive(r, kind, u, email) ==
    /\ request[r].pc \notin Active
    /\ IdFor(kind, u)
    /\ request' = [request EXCEPT ![r] = Started(kind, u, email, NOW)]
    /\ UNCHANGED <<rows, queued, cache, late>>

-----------------------------------------------------------------------------
(* PostgreSQL. *)

\* The unique constraint: taken by a committed row other than u's, or by a
\* transaction that has not ended, which makes the statement wait.
Taken(u, email) == \E v \in Users \ {u} : Live(v) /\ rows[v].email = email

Contended(u, email) ==
    \E q \in Requests : /\ request[q].pc \in InTransaction
                        /\ request[q].id # u /\ request[q].email = email

\* create_with_job: BEGIN and the first INSERT.
InsertUser(r) ==
    /\ request[r].pc = "insert_user"
    /\ \/ /\ Taken(request[r].id, request[r].email)
          /\ Answer(r, "email_exists")
       \/ /\ ~Taken(request[r].id, request[r].email)
          /\ ~Contended(request[r].id, request[r].email)
          /\ Await(r, "insert_job")
    /\ UNCHANGED <<rows, queued, cache, late>>

\* MUTANT of InsertJob: the job goes in through the pool, not the transaction.
InsertJobOutside(r) ==
    /\ request[r].pc = "insert_job"
    /\ Await(r, "commit")
    /\ queued' = queued \cup {request[r].id}
    /\ UNCHANGED <<rows, cache, late>>

\* create_with_job: the second INSERT, visible to nobody yet.
InsertJob(r) ==
    /\ request[r].pc = "insert_job"
    /\ Await(r, "commit")
    /\ UNCHANGED <<rows, queued, cache, late>>

\* COMMIT makes both rows visible; the reply may be lost.
Commit(r) ==
    /\ request[r].pc = "commit"
    /\ LET u == request[r].id
       IN  /\ rows' = [rows EXCEPT ![u] = [status |-> "live", email |-> request[r].email]]
           /\ queued' = queued \cup {u}
    /\ AwaitWith(r, "cache_set", Current) \/ Answer(r, "unavailable")
    /\ UNCHANGED <<cache, late>>

Find(r) ==
    /\ request[r].pc = "find"
    /\ IF Live(request[r].id) THEN AwaitWith(r, "cache_set", Current)
                              ELSE Answer(r, "not_found")
    /\ UNCHANGED <<rows, queued, cache, late>>

\* list: one SELECT, past the cache.
List(r) ==
    /\ request[r].pc = "list"
    /\ Answer(r, "ok")
    /\ UNCHANGED <<rows, queued, cache, late>>

\* The request after its UPDATE, with the row RETURNING gave it.
Updated(r) == [request[r] EXCEPT !.pc = "cache_set", !.user = Current]

\* One UPDATE by id; its reply may be lost.
Update(r) ==
    /\ request[r].pc = "update"
    /\ LET u == request[r].id
           email == request[r].email
       IN  \/ /\ ~Live(u)
              /\ Answer(r, "not_found")
              /\ UNCHANGED <<rows, cache, late>>
           \/ /\ Live(u) /\ Taken(u, email)
              /\ Answer(r, "email_exists")
              /\ UNCHANGED <<rows, cache, late>>
           \/ /\ Live(u) /\ ~Taken(u, email) /\ ~Contended(u, email)
              /\ \E next \in {Updated(r), Rest("unavailable")} :
                    Write(r, u, [status |-> "live", email |-> email], next)
    /\ UNCHANGED queued

\* One DELETE by id; its reply may be lost.
Delete(r) ==
    /\ request[r].pc = "delete"
    /\ LET u == request[r].id
       IN  IF Live(u)
           THEN \E next \in {[request[r] EXCEPT !.pc = "cache_delete"], Rest("unavailable")} :
                   Write(r, u, [status |-> "deleted", email |-> Null], next)
           ELSE Answer(r, "not_found") /\ UNCHANGED <<rows, cache, late>>
    /\ UNCHANGED queued

\* No connection, or the statement failed: an open transaction is rolled back.
TableFails(r) ==
    /\ request[r].pc \in OnTable
    /\ Answer(r, "unavailable")
    /\ UNCHANGED <<rows, queued, cache, late>>

-----------------------------------------------------------------------------
(* Redis. *)

\* MUTANT of Entry: SET without EX, kept as long as the model remembers.
EntryForever(copy) == [retired |-> copy.retired, expires |-> NOW + Horizon]

\* SET users:{id} EX ttl.
Entry(copy) == [retired |-> copy.retired, expires |-> NOW + Ttl]

\* MUTANT of AfterCommand: the cache's error is propagated to the client.
AfterCommandFailing(r, success) == Answer(r, IF success THEN "ok" ELSE "cache_failed")

\* What the use case does when its command was answered, or failed: only an
\* update that could not store the new user tries to delete the old one.
AfterCommand(r, success) ==
    IF request[r].kind = "update" /\ request[r].pc = "cache_set" /\ ~success
    THEN Await(r, "cache_delete")
    ELSE Answer(r, "ok")

CacheGet(r) ==
    /\ request[r].pc = "cache_get"
    /\ IF cache[request[r].id] # Null THEN Answer(r, "ok") ELSE Await(r, "find")
    /\ UNCHANGED <<rows, queued, cache, late>>

CacheSet(r) ==
    /\ request[r].pc = "cache_set"
    /\ cache' = [cache EXCEPT ![request[r].id] = Entry(request[r].user)]
    /\ AfterCommand(r, TRUE)
    /\ UNCHANGED <<rows, queued, late>>

CacheDelete(r) ==
    /\ request[r].pc = "cache_delete"
    /\ cache' = [cache EXCEPT ![request[r].id] = Null]
    /\ AfterCommand(r, TRUE)
    /\ UNCHANGED <<rows, queued, late>>

\* The write command r awaits, left to itself; or never sent.
Command(r) ==
    [op      |-> IF request[r].pc = "cache_set" THEN "set" ELSE "delete",
     id      |-> request[r].id,
     retired |-> IF request[r].user = Null THEN Null ELSE request[r].user.retired,
     since   |-> NOW]

Abandon(r) ==
    \/ late' = late
    \/ /\ request[r].pc \in {"cache_set", "cache_delete"}
       /\ late = {}                        \* BOUND: one at a time
       /\ late' = {Command(r)}

\* The command fails or takes longer than CACHE_OPERATION_TIMEOUT, or the
\* cached value cannot be read: a get counts as a miss.
CacheFails(r) ==
    /\ request[r].pc \in OnCache
    /\ Abandon(r)
    /\ IF request[r].pc = "cache_get" THEN Await(r, "find") ELSE AfterCommand(r, FALSE)
    /\ UNCHANGED <<rows, queued, cache>>

\* Redis executes a command nobody waits for.
ExecuteLate(c) ==
    /\ c \in late
    /\ cache' = [cache EXCEPT ![c.id] = IF c.op = "set" THEN Entry(c) ELSE Null]
    /\ late' = late \ {c}
    /\ UNCHANGED <<rows, queued, request>>

\* ... or never will.
LoseLate(c) ==
    /\ c \in late
    /\ late' = late \ {c}
    /\ UNCHANGED <<rows, queued, cache, request>>

-----------------------------------------------------------------------------
\* The request's future is dropped.
Drop(r) ==
    /\ request[r].pc \in Active
    /\ Abandon(r)
    /\ Answer(r, "dropped")
    /\ UNCHANGED <<rows, queued, cache>>

AgedEntry(e) ==
    IF e = Null \/ e.expires <= NOW + 1 THEN Null
    ELSE [e EXCEPT !.retired = Aged(@), !.expires = Aged(@)]

AgedRequest(q) ==
    [q EXCEPT !.user = IF @ = Null THEN Null ELSE [retired |-> Aged(@.retired)],
              !.arrived = Aged(@)]

AgedCommand(c) == [c EXCEPT !.retired = Aged(@), !.since = Aged(@)]

\* Time passes.  A request is over after RequestTimeout (TimeoutLayer).
Tick ==
    /\ \A r \in Requests : request[r].pc \in Active => request[r].arrived > NOW - RequestTimeout
    /\ \A c \in late : c.since > NOW - RedisDelay
    /\ cache' = [u \in Users |-> AgedEntry(cache[u])]
    /\ late' = {AgedCommand(c) : c \in late}
    /\ request' = [r \in Requests |-> AgedRequest(request[r])]
    /\ UNCHANGED <<rows, queued>>

Init ==
    /\ rows = [u \in Users |-> [status |-> "none", email |-> Null]]
    /\ queued = {}
    /\ cache = [u \in Users |-> Null]
    /\ late = {}
    /\ request = [r \in Requests |-> Rest("ok")]

Progress(r) ==
    \/ InsertUser(r) \/ InsertJob(r) \/ Commit(r)
    \/ Find(r) \/ List(r) \/ Update(r) \/ Delete(r) \/ TableFails(r)
    \/ CacheGet(r) \/ CacheSet(r) \/ CacheDelete(r) \/ CacheFails(r)

Next ==
    \/ \E r \in Requests, kind \in Kinds, u \in Users, email \in Emails :
          Arrive(r, kind, u, email)
    \/ \E r \in Requests : Progress(r) \/ Drop(r)
    \/ \E c \in late : ExecuteLate(c) \/ LoseLate(c)
    \/ Tick

Spec == Init /\ [][Next]_vars

-----------------------------------------------------------------------------
(* Properties. *)

\* TYPE.
TypeOK ==
    /\ rows \in [Users -> [status : {"none", "live", "deleted"}, email : Emails \cup {Null}]]
    /\ queued \subseteq Users
    /\ cache \in [Users -> {Null} \cup EntryType]
    /\ late \subseteq CommandType
    /\ request \in [Requests -> RequestType]

\* create_with_job: a user is there, or was, exactly if its job was queued,
\* wherever a request is dropped and whatever statement fails.
CreatedWithJob == \A u \in Users : (rows[u].status # "none") <=> (u \in queued)

\* How long the cache may serve a user that was changed or deleted: the TTL,
\* plus the life of the request that stored it, plus the delay of an
\* abandoned command.  No race, failure or lost reply exceeds it.
StalenessBounded ==
    \A u \in Users :
        cache[u] # Null /\ cache[u].retired # Null =>
            cache[u].retired > NOW - (Ttl + RequestTimeout + RedisDelay)

\* docs/system-architecture.md: an update applies only if the row is as it
\* was when the request read it; a modified row is a conflict.
NoLostUpdate ==
    [][\A r \in Requests :
          request[r].pc = "update" /\ request'[r].pc = "cache_set" => ~request[r].changed]_vars
=============================================================================
