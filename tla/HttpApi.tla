------------------------------- MODULE HttpApi -------------------------------
(***************************************************************************)
(* The HTTP adapter: connections that carry one request at a time through   *)
(* the middleware chain (request id, access log, recoverer, timeout,        *)
(* metrics, API key, rate limit, write scope) into a handler that reads     *)
(* its input, takes a database connection and answers.  What the database   *)
(* does is one of the outcomes of statusFor.  Timers count down in ticks;   *)
(* whether the pool is open is a matter of the process (WalletProcess).     *)
(***************************************************************************)
EXTENDS RateLimiter, Sequences, FiniteSets

CONSTANTS Conns,           \* client connections
          HeaderTimeout,   \* http.Server.ReadHeaderTimeout, in ticks
          ReadTimeout,     \* http.Server.ReadTimeout
          RequestTimeout,  \* Deps.RequestTimeout
          MaxDebt          \* bound: tokens a bucket may owe when a request arrives

ASSUME HttpAssumption ==
  /\ HeaderTimeout \in Nat /\ ReadTimeout \in Nat /\ RequestTimeout \in Nat
  /\ MaxDebt \in Nat

VARIABLES
  config,  \* what loadConfig returned
  req,     \* req[c]: the request on connection c
  reply,   \* the answer that the last step gave, and what was recorded of it
  lim,     \* lim[s]: the limiter of a key scope
  ideal    \* ideal[s]: history, a bucket drained only by the requests let through,
           \* each at the moment its reservation acts

httpVars == <<req, reply, lim, ideal>>

Scopes == {"write", "read"}
\* "healthz" stands for /metrics too: neither needs a key or the database.
Routes == {"unmatched", "healthz", "readyz", "get", "post"}
Phases == {"idle", "header", "limit", "delay", "cancel", "body", "acquire", "busy"}

Requests == [phase : Phases, key : Scopes \cup {"unknown", "none"},
             route : Routes \cup {"none"}, read : 0 .. ReadTimeout,
             ctx : 0 .. RequestTimeout, act : Int]
NoRequest == [phase |-> "idle", key |-> "none", route |-> "none",
              read |-> 0, ctx |-> 0, act |-> 0]
NoReply == [status |-> 0, logged |-> 0, counted |-> 0]

\* Variant: recoverer outside accessLog.
ChainRecovererFirst == <<"requestID", "recoverer", "accessLog", "timeout", "httpMetrics">>

\* NewRouter: the middleware that every request runs through, outermost first.
Chain == <<"requestID", "accessLog", "recoverer", "timeout", "httpMetrics">>

Position(m) == CHOOSE i \in DOMAIN Chain : Chain[i] = m

\* The code of m behind next.ServeHTTP runs: a panic skips all that is inside
\* recoverer.
Resumes(m, panicked) == panicked => Position(m) < Position("recoverer")

\* statusFor: what an outcome of the application becomes (200 for any success).
StatusFor(err) ==
  CASE err = "nil"            -> 200
    [] err = "bad request"    -> 400
    [] err = "not found"      -> 404
    [] err = "conflict"       -> 409
    [] err = "rule"           -> 422
    [] err = "deadline"       -> 503
    [] OTHER                  -> 500

\* What accessLog and httpMetrics record on the way out, from the status that
\* passed their statusRecorder; 0 for nothing.
Logged(status, panicked) == IF Resumes("accessLog", panicked) THEN status ELSE 0
Counted(status, panicked) == IF Resumes("httpMetrics", panicked) THEN status ELSE 0

\* The answer leaves on connection c.
Answer(c, status, panicked) ==
  /\ req' = [req EXCEPT ![c] = NoRequest]
  /\ reply' = [status |-> status, logged |-> Logged(status, panicked),
               counted |-> Counted(status, panicked)]

\* writeError or a middleware's early return.
Refuse(c, status) == Answer(c, status, FALSE)

\* The request on c goes on to the next phase.
Goto(c, phase, read, ctx, act) ==
  /\ req' = [req EXCEPT ![c] = [phase |-> phase, key |-> req[c].key, route |-> req[c].route,
                                read |-> read, ctx |-> ctx, act |-> act]]
  /\ reply' = NoReply

HttpInit ==
  /\ req = [c \in Conns |-> NoRequest]
  /\ reply = NoReply
  /\ lim = [s \in Scopes |-> NewLimiter(config.burst)]
  /\ ideal = [s \in Scopes |-> Capacity(config.burst)]

\* A client connects, or reuses its connection, and begins to send a request.
Connect(c) ==
  /\ req[c].phase = "idle"
  /\ \E k \in Scopes \cup {"unknown"}, route \in Routes :
       /\ route \notin {"get", "post"} => k = "unknown"
       /\ k \in Scopes => lim[k].tokens >= - MaxDebt * TokenTicks
       /\ req' = [req EXCEPT ![c] = [phase |-> "header", key |-> k, route |-> route,
                                     read |-> ReadTimeout, ctx |-> 0, act |-> 0]]
  /\ reply' = NoReply
  /\ UNCHANGED <<lim, ideal>>

HeaderTime(c) == req[c].read - (ReadTimeout - HeaderTimeout)

\* The header does not arrive in time: the connection is closed unanswered.
HeaderTimesOut(c) ==
  /\ req[c].phase = "header" /\ HeaderTime(c) = 0
  /\ req' = [req EXCEPT ![c] = NoRequest]
  /\ reply' = NoReply
  /\ UNCHANGED <<lim, ideal>>

\* apiKeyAuth: the key is the write key, or the read key of this deployment.
ValidKey(k) == k = "write" \/ (k = "read" /\ config.readKey = "read")

\* The header is complete: the outer middleware starts the request's timeout
\* and the router picks the route; API routes check the key.
Dispatch(c) ==
  /\ req[c].phase = "header"
  /\ \/ req[c].route = "unmatched" /\ Refuse(c, 404)
     \/ req[c].route = "healthz" /\ Answer(c, 200, FALSE)
     \/ req[c].route = "readyz" /\ Goto(c, "acquire", 0, RequestTimeout, 0)
     \/ /\ req[c].route \in {"get", "post"}
        /\ IF ValidKey(req[c].key) THEN Goto(c, "limit", req[c].read, RequestTimeout, 0)
           ELSE Refuse(c, 401)
  /\ UNCHANGED <<lim, ideal>>

\* requireWriteScope in front of the POST routes, then the handler: a POST
\* reads its body first.
Serve(c) ==
  IF req[c].route = "get" THEN Goto(c, "acquire", 0, req[c].ctx, 0)
  ELSE IF req[c].key = "write" THEN Goto(c, "body", req[c].read, req[c].ctx, 0)
  ELSE Refuse(c, 403)

\* rateLimit is not installed, or Reserve returns a reservation that acts at once
\* (or none): whenever Delay is read it is zero, and the request is let through.
Admit(c) ==
  LET s == req[c].key IN
  /\ req[c].phase = "limit"
  /\ IF config.rps = 0 THEN UNCHANGED <<lim, ideal>>
     ELSE /\ Passes(lim[s], config.burst)
          /\ lim' = [lim EXCEPT ![s] = Reserve(lim[s], config.burst)]
          /\ ideal' = [ideal EXCEPT ![s] = @ - TokenTicks]
  /\ Serve(c)

\* Reserve returns a reservation that acts later.
HoldReservation(c) ==
  LET s == req[c].key IN
  /\ req[c].phase = "limit" /\ config.rps > 0 /\ ~ Passes(lim[s], config.burst)
  /\ lim' = [lim EXCEPT ![s] = Reserve(lim[s], config.burst)]
  /\ Goto(c, "delay", req[c].read, req[c].ctx, TimeToAct(lim[s]))
  /\ UNCHANGED ideal

\* res.Delay() reads the clock again: a reservation that has fallen due since
\* Reserve is let through, any other is about to be cancelled.
Delay(c) ==
  /\ req[c].phase = "delay"
  /\ IF req[c].act > 0 THEN Goto(c, "cancel", 0, req[c].ctx, req[c].act) ELSE Serve(c)
  /\ UNCHANGED <<lim, ideal>>

\* res.Cancel(), then 429 with Retry-After.
CancelReservation(c) ==
  LET s == req[c].key IN
  /\ req[c].phase = "cancel"
  /\ lim' = [lim EXCEPT ![s] = Cancel(lim[s], req[c].act, config.burst)]
  /\ Refuse(c, 429)
  /\ UNCHANGED ideal

\* readBody, decodeStrict, idempotencyKey: the input is complete and well formed.
BodyRead(c) ==
  /\ req[c].phase = "body"
  /\ Goto(c, "acquire", 0, req[c].ctx, 0)
  /\ UNCHANGED <<lim, ideal>>

\* The body does not arrive before ReadTimeout: reading it fails.
BodyTimesOut(c) ==
  /\ req[c].phase = "body" /\ req[c].read = 0
  /\ Refuse(c, StatusFor("bad request"))
  /\ UNCHANGED <<lim, ideal>>

\* A bad path, cursor, body or idempotency key.
BadInput(c) ==
  /\ req[c].phase = "body" \/ (req[c].phase = "acquire" /\ req[c].route = "get")
  /\ Refuse(c, StatusFor("bad request"))
  /\ UNCHANGED <<lim, ideal>>

\* Connections taken from the pool.
Busy == {c \in Conns : req[c].phase = "busy"}

\* The first query gets a connection from an open pool that has one left.
Acquire(c, open) ==
  /\ req[c].phase = "acquire" /\ open /\ req[c].ctx > 0
  /\ Cardinality(Busy) < config.max
  /\ Goto(c, "busy", 0, req[c].ctx, 0)
  /\ UNCHANGED <<lim, ideal>>

\* No connection: the acquire timeout, or a closed pool.
AcquireFails(c, open) ==
  /\ req[c].phase = "acquire"
  /\ Refuse(c, StatusFor(IF open \/ req[c].route = "readyz" THEN "deadline" ELSE "internal"))
  /\ UNCHANGED <<lim, ideal>>

\* What a handler can bring back from the database.
Outcomes(route) ==
  CASE route = "readyz" -> {"nil", "deadline"}
    [] route = "get"    -> {"nil", "not found", "deadline", "internal"}
    [] OTHER            -> {"nil", "not found", "conflict", "rule", "deadline", "internal"}

\* The transaction or query ends, the connection goes back, the handler answers.
Finish(c) ==
  /\ req[c].phase = "busy"
  /\ \E err \in Outcomes(req[c].route) : Answer(c, StatusFor(err), FALSE)
  /\ UNCHANGED <<lim, ideal>>

\* Variant: the queries do not run under the request's context.
DeadlineIgnored(c) ==
  /\ req[c].phase = "acquire" /\ req[c].ctx = 0
  /\ Refuse(c, StatusFor("deadline"))
  /\ UNCHANGED <<lim, ideal>>

\* The request's context expires: it ends the wait for a connection or the
\* query, and the handler answers 503.
DeadlineExceeded(c) ==
  /\ req[c].phase \in {"acquire", "busy"} /\ req[c].ctx = 0
  /\ Refuse(c, StatusFor("deadline"))
  /\ UNCHANGED <<lim, ideal>>

\* A handler panics: its deferred calls give back what it holds, recoverer
\* answers 500.
Panic(c) ==
  /\ req[c].phase \in {"body", "acquire", "busy"}
  /\ Answer(c, 500, TRUE)
  /\ UNCHANGED <<lim, ideal>>

CountDown(t) == IF t > 0 THEN t - 1 ELSE 0

\* No timer of c has run out unserved: the header and body deadlines of the
\* server, and the request context, which ends waits and queries.
MayWait(c) ==
  CASE req[c].phase = "idle"   -> TRUE
    [] req[c].phase = "header" -> HeaderTime(c) > 0
    [] req[c].phase = "body"   -> req[c].read > 0
    [] OTHER                   -> req[c].ctx > 0

\* Reservations that fall due with this tick, before their Delay is read: from
\* now on they are sure to be let through.
FallingDue(s) == {c \in Conns : req[c].phase = "delay" /\ req[c].key = s /\ req[c].act = 1}

\* One tick passes for every request and every bucket.
HttpTick ==
  /\ \A c \in Conns : MayWait(c)
  /\ req' = [c \in Conns |->
       [phase |-> req[c].phase, key |-> req[c].key, route |-> req[c].route,
        read  |-> CountDown(req[c].read), ctx |-> CountDown(req[c].ctx),
        act   |-> IF req[c].phase \in {"delay", "cancel"} THEN Nearer(req[c].act) ELSE 0]]
  /\ lim' = [s \in Scopes |-> Elapse(lim[s], config.burst)]
  /\ ideal' = [s \in Scopes |-> AtMost(ideal[s] + 1, Capacity(config.burst))
                                - TokenTicks * Cardinality(FallingDue(s))]
  /\ reply' = NoReply

\* A step of the process that no request takes part in.
NoRequestStep == reply' = NoReply /\ UNCHANGED <<config, req, lim, ideal>>

\* Steps that depend on no client and no database.
Forced(c) ==
  \/ HeaderTimesOut(c) \/ BodyTimesOut(c) \/ DeadlineExceeded(c)
  \/ Admit(c) \/ HoldReservation(c) \/ Delay(c) \/ CancelReservation(c)

\* A step of the goroutine that serves connection c.
Handle(c, open) ==
  \/ Forced(c) \/ Dispatch(c) \/ BodyRead(c) \/ BadInput(c)
  \/ Acquire(c, open) \/ AcquireFails(c, open) \/ Finish(c) \/ Panic(c)

-----------------------------------------------------------------------------
\* Over any stretch of time a key is let through at most burst requests plus
\* what the rate earns, each counted when its reservation acts: however rejected
\* requests interleave their Reserve, Delay and Cancel, the tokens given back are
\* never more than were taken (rateLimit).
RateBound == \A s \in Scopes : config.rps > 0 => ideal[s] >= 0

\* Every answer is in the access log with the status that was sent, those of
\* recovered panics included: accessLog runs outside recoverer (NewRouter).
AnswersLogged == reply.logged = reply.status

\* What the comment of httpMetrics says: it records every request.
EveryRequestCounted == reply.counted = reply.status
=============================================================================
