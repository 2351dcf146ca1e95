------------------------------ MODULE HttpApi ------------------------------
(***************************************************************************)
(* The HTTP layer in front of the use cases of UserStore.tla               *)
(* (src/src/presentation/http).  From the outside in: the TimeoutLayer,    *)
(* record_http_metrics, the rate limiter, require_scope, the extractors of *)
(* a handler, the use case, and the mapping of its result to a status.     *)
(*                                                                         *)
(* The clock of a request starts in the TimeoutLayer: the time it spends   *)
(* waiting for its token to be verified and its body to arrive is time the *)
(* use case does not have.                                                 *)
(***************************************************************************)
EXTENDS UserStore, HttpInputs

CONSTANT MaxLeak      \* BOUND: excess of the gauge that is told apart

VARIABLES
    front,            \* request -> where it is before its use case
    gauge,            \* http_active of telemetry/mod.rs
    effect            \* HISTORY: request -> it has changed the table

hvars == <<rows, queued, cache, late, request, front, gauge, effect>>

ASSUME LeakBound == MaxLeak \in Nat

-----------------------------------------------------------------------------
(* Before the use case a request awaits its token's verification or its    *)
(* body.  "none": it has not come, is in its use case, or is over.         *)

FrontType ==
    [phase : {"none", "verify", "body"}, kind : Kinds \cup {Null},
     arrived : Instant \cup {Null}]

Outside == [phase |-> "none", kind |-> Null, arrived |-> Null]

InFront(r) == front[r].phase # "none"

InFlight == {r \in Requests : InFront(r) \/ request[r].pc \in Active}

HasBody(kind) == kind \in {"create", "update"}

-----------------------------------------------------------------------------
(* record_http_metrics: one up when the request comes in, one down when    *)
(* the layers below have answered.  A request dropped in between is never  *)
(* taken off.                                                              *)

\* What the gauge can exceed the requests by is bounded for TLC: the gauge of
\* the code is never below this one.
Bounded(g) ==
    LET most == Cardinality(InFlight') + MaxLeak IN IF g > most THEN most ELSE g

Uncounted == gauge' = Bounded(gauge)

\* http_request_started, for a request that is in flight after this step.
CountStarted == gauge' = Bounded(gauge + 1)

\* MUTANT of CountFinished: the answer and the guard of its request both
\* report the end.
CountFinishedTwice == gauge' = Bounded(gauge - 2)

\* http_request_finished.
CountFinished == gauge' = Bounded(gauge - 1)

\* Request r is answered in this step, or goes on.
CountIfAnswered(r) ==
    IF request'[r].pc \in Active THEN Uncounted ELSE CountFinished

-----------------------------------------------------------------------------
(* Steps in front of the use case. *)

Refuse(r, result) ==
    /\ Answer(r, result)
    /\ front' = [front EXCEPT ![r] = Outside]

\* Too many requests from this client (429), or no Bearer token (401): both
\* are answered at once, in the step that counted the request.
RefuseAtOnce(r) ==
    /\ r \notin InFlight
    /\ Answer(r, "refused")
    /\ UNCHANGED <<rows, queued, cache, late, front, gauge, effect>>

\* The limiter lets the request pass; require_scope awaits verify.
Receive(r, kind) ==
    /\ r \notin InFlight
    /\ front' = [front EXCEPT ![r] = [phase |-> "verify", kind |-> kind, arrived |-> NOW]]
    /\ request' = [request EXCEPT ![r] = Rest("ok")]
    /\ UNCHANGED <<rows, queued, cache, late, effect>>
    /\ CountStarted

\* InvalidToken (401) or a missing scope (403); keys cannot be had (503).
VerifyRefuses(r) ==
    /\ front[r].phase = "verify"
    /\ \E result \in {"refused", "unavailable"} : Refuse(r, result)
    /\ UNCHANGED <<rows, queued, cache, late, effect>>
    /\ CountFinished

\* The principal has the scope and the handler awaits the body, if any.
AwaitBody(r) ==
    /\ front[r].phase = "verify" /\ HasBody(front[r].kind)
    /\ front' = [front EXCEPT ![r].phase = "body"]
    /\ UNCHANGED <<rows, queued, cache, late, request, effect>>
    /\ Uncounted

\* All that the handler needs is there.
Extracting(r) ==
    front[r].phase = IF HasBody(front[r].kind) THEN "body" ELSE "verify"

\* JsonRejection (400, 413, 415, 422), QueryRejection and invalid_id (400),
\* InvalidInput (422).
ExtractRefuses(r) ==
    /\ InFront(r) /\ Extracting(r)
    /\ Refuse(r, "refused")
    /\ UNCHANGED <<rows, queued, cache, late, effect>>
    /\ CountFinished

\* The handler calls the use case, which runs to its first await.
Handle(r, u, email) ==
    /\ InFront(r) /\ Extracting(r)
    /\ IdFor(front[r].kind, u)
    /\ request' = [request EXCEPT
                      ![r] = Started(front[r].kind, u, email, front[r].arrived)]
    /\ front' = [front EXCEPT ![r] = Outside]
    /\ UNCHANGED <<rows, queued, cache, late, effect>>
    /\ Uncounted

-----------------------------------------------------------------------------
(* Steps of the use case, of the TimeoutLayer and of time. *)

\* The history lasts as long as the request.
NoteEffect(r) ==
    effect' = [effect EXCEPT
                  ![r] = request'[r].pc \in Active /\ (effect[r] \/ rows' # rows)]

Work(r) ==
    /\ Progress(r)
    /\ UNCHANGED front
    /\ CountIfAnswered(r)
    /\ NoteEffect(r)

\* The time is over (408), or the client has gone: every layer below the
\* TimeoutLayer is dropped, the end of record_http_metrics with them.
TimeOut(r) ==
    /\ \/ /\ InFront(r)
          /\ Refuse(r, "dropped")
          /\ UNCHANGED <<rows, queued, cache, late>>
       \/ Drop(r) /\ UNCHANGED front
    /\ Uncounted
    /\ effect' = [effect EXCEPT ![r] = FALSE]

\* A request does not outlive its time, wherever it is.
Pass ==
    /\ \A r \in Requests : InFront(r) => front[r].arrived > NOW - RequestTimeout
    /\ Tick
    /\ front' = [r \in Requests |-> [front[r] EXCEPT !.arrived = Aged(@)]]
    /\ UNCHANGED <<gauge, effect>>

Redis ==
    /\ \E c \in late : ExecuteLate(c) \/ LoseLate(c)
    /\ UNCHANGED <<front, gauge, effect>>

HInit ==
    /\ Init
    /\ front = [r \in Requests |-> Outside]
    /\ gauge = 0
    /\ effect = [r \in Requests |-> FALSE]

HNext ==
    \/ \E r \in Requests, kind \in Kinds : Receive(r, kind)
    \/ \E r \in Requests :
          \/ RefuseAtOnce(r) \/ VerifyRefuses(r) \/ AwaitBody(r) \/ ExtractRefuses(r)
          \/ Work(r) \/ TimeOut(r)
    \/ \E r \in Requests, u \in Users, email \in Emails : Handle(r, u, email)
    \/ Redis
    \/ Pass

HSpec == HInit /\ [][HNext]_hvars

-----------------------------------------------------------------------------
(* The status of an answer. *)

\* MUTANT of StatusOf: a failed statement is told like a missing row.
StatusOfConflating(kind, result) ==
    CASE result = "ok" /\ kind = "create" -> 201
      [] result = "ok" /\ kind = "delete" -> 204
      [] result = "ok"                    -> 200
      [] result = "refused"               -> 400
      [] result \in {"not_found", "unavailable"} -> 404
      [] result = "dropped"               -> 408
      [] result = "email_exists"          -> 409

\* The handlers' success codes, ApiError's From<ApplicationError>, and the
\* TimeoutLayer.  400 stands for every refusal.
StatusOf(kind, result) ==
    CASE result = "ok" /\ kind = "create" -> 201
      [] result = "ok" /\ kind = "delete" -> 204
      [] result = "ok"                    -> 200
      [] result = "refused"               -> 400
      [] result = "not_found"             -> 404
      [] result = "dropped"               -> 408
      [] result = "email_exists"          -> 409
      [] result = "unavailable"           -> 503

Success == 200..299

\* The answers a client may not draw conclusions from.
Unknown == {408, 503}

-----------------------------------------------------------------------------
(* Properties. *)

\* TYPE.
HTypeOK ==
    /\ TypeOK
    /\ front \in [Requests -> FrontType]
    /\ gauge \in Int
    /\ effect \in [Requests -> BOOLEAN]

Answered(r) == request[r].pc \in Active /\ request'[r].pc \notin Active

\* A client can rely on every status but 408 and 503: an error means that this
\* request changed nothing, the success of a create or delete that it changed
\* the table (an update may find the row as it wants it), whatever failed,
\* timed out or ran at the same time.
AnswersAreTrue ==
    [][\A r \in Requests : Answered(r) =>
          LET kind    == request[r].kind
              status  == StatusOf(kind, request'[r].pc)
              changed == effect[r] \/ rows' # rows
          IN  /\ changed /\ status \notin Unknown => status \in Success
              /\ status \in Success /\ kind \in {"create", "delete"} => changed]_hvars

\* Every request in flight is in the gauge, also after others timed out.
GaugeNeverLow == gauge >= Cardinality(InFlight)

\* rate_limit.rs: a request the limiter let pass was counted under its client's
\* address, or under its proxy's when the chain does not name it or is not
\* readable text.  Behind proxies that overwrite or join what the client writes
\* into X-Forwarded-For, that moves it to no third party's bucket, however many
\* proxies there are and however they write their lines.
KeyIsClient == \A r \in Requests : InFront(r) => EveryKeyIsItsClient

\* list_users: whatever page and per_page a request asks for, a client that
\* reads page after page of an unchanged table sees every user exactly once.
PagesTile == \A r \in Requests : request[r].pc = "list" => EveryTableIsTiled

\* README.md: the metrics cover "HTTP count/duration/active requests".
GaugeIsActive == gauge = Cardinality(InFlight)
=============================================================================
