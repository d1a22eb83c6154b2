----------------------------- MODULE Lifecycle -----------------------------
(***************************************************************************)
(* cmd/catalog and internal/app: one process from main to its exit.  New   *)
(* opens what the process needs, Run starts three goroutines, main waits   *)
(* for a signal or the first error, and Shutdown stops and closes it all.  *)
(*                                                                         *)
(* The servers are libraries, modelled by what the code relies on:         *)
(* grpc.Server.GracefulStop returns when no call is left, whatever its     *)
(* caller's deadline; http.Server.Shutdown returns when no connection is   *)
(* left or its context has expired.  A call runs from the moment the       *)
(* server holds its connection until its handler has returned.             *)
(***************************************************************************)
EXTENDS Naturals

CONSTANTS
  GrpcCalls,  \* calls the gRPC server may be sent
  HttpCalls   \* requests the HTTP server may be sent

ASSUME CallsAssumption == GrpcCalls \cap HttpCalls = {}

VARIABLES
  stage,      \* where the main goroutine is
  tracer,     \* shutdownTracing is not nil
  opened,     \* what has to be closed
  health,     \* what the gRPC health service answers for the catalogue
  serve,      \* the goroutines that call Serve and ListenAndServe
  stop,       \* how far each server has been stopped
  outbox,     \* the goroutine that calls publisher.Run
  cancelled,  \* outboxStop was called
  errs,       \* errors waiting in errCh
  calls,      \* [Calls -> "none", "running", "done"]
  expired,    \* shutdownCtx is past its deadline
  failed      \* shutdownErr is not nil

runtimeVars == <<serve, stop, outbox, cancelled, errs, calls, expired, failed>>
vars == <<stage, tracer, opened, health, runtimeVars>>

Servers == {"grpc", "http"}
Calls == GrpcCalls \cup HttpCalls
CallsOf(s) == IF s = "grpc" THEN GrpcCalls ELSE HttpCalls
Running(s) == {c \in CallsOf(s) : calls[c] = "running"}

Starting == {"init_tracing", "open_postgres", "ping_postgres", "ping_redis", "new_cache",
             "new_publisher", "listen_grpc", "run"}
Serving  == {"wait", "set_not_serving", "stop_grpc", "drain_grpc", "stop_http", "drain_http", "stop_outbox",
             "wait_outbox", "close"}
Over     == {"refused", "panicked", "exited"}

Resources == {"tracing", "postgres", "redis", "publisher"}

ErrChCap_One == 1
\* make(chan error, 3)
ErrChCap == 3

Init ==
  /\ stage = "init_tracing"
  /\ tracer = FALSE
  /\ opened = {}
  /\ health = "unknown"
  /\ serve = [s \in Servers |-> "off"]
  /\ stop = [s \in Servers |-> "no"]
  /\ outbox = "off"
  /\ cancelled = FALSE
  /\ errs = 0
  /\ calls = [c \in Calls |-> "none"]
  /\ expired = FALSE
  /\ failed = FALSE

----------------------------------------------------------------------------
(* New.                                                                    *)

Advance(from, to) == stage = from /\ stage' = to

InitTracing ==
  /\ Advance("init_tracing", "open_postgres")
  /\ \/ tracer' = TRUE /\ opened' = {"tracing"}
     \/ tracer' = FALSE /\ opened' = {}          \* "tracing is disabled"
  /\ UNCHANGED <<health, runtimeVars>>

Opens(from, to, resources) ==
  /\ Advance(from, to)
  /\ opened' = opened \cup resources
  /\ UNCHANGED <<tracer, health, runtimeVars>>

\* An error return of New: it closes what is open and calls shutdownTracing,
\* on the early paths without asking whether it is nil.
Refuses(from, closed, asksForNil) ==
  /\ stage = from
  /\ opened' = opened \ (closed \cup {"tracing"})
  /\ stage' = IF asksForNil \/ tracer THEN "refused" ELSE "panicked"
  /\ UNCHANGED <<tracer, health, runtimeVars>>

OpenPostgres ==
  \/ Opens("open_postgres", "ping_postgres", {"postgres"})
  \/ Refuses("open_postgres", {}, FALSE)

PingPostgres ==
  \/ Opens("ping_postgres", "ping_redis", {"redis"})   \* goredis.NewClient
  \/ Refuses("ping_postgres", {"postgres"}, FALSE)

PingRedis ==
  \/ Opens("ping_redis", "new_cache", {})
  \/ Refuses("ping_redis", {"redis", "postgres"}, FALSE)

\* NewCache refuses a ttl that is not positive, which Validate lets pass.
NewCache ==
  \/ Opens("new_cache", "new_publisher", {})
  \/ Refuses("new_cache", {"redis", "postgres"}, FALSE)

\* and the servers, which need no closing before they run
NewPublisher ==
  /\ Advance("new_publisher", "listen_grpc")
  /\ opened' = opened \cup {"publisher"}
  /\ health' = "SERVING"
  /\ UNCHANGED <<tracer, runtimeVars>>

CleanedUp_WithoutRedis == {"publisher", "postgres"}
CleanedUp == {"publisher", "redis", "postgres"}

\* The only error that is left after the publisher is that of net.Listen.
ListenGRPC ==
  \/ Opens("listen_grpc", "run", {})
  \/ Refuses("listen_grpc", CleanedUp, TRUE)

New ==
  \/ InitTracing \/ OpenPostgres \/ PingPostgres \/ PingRedis \/ NewCache
  \/ NewPublisher \/ ListenGRPC

----------------------------------------------------------------------------
(* Run and its goroutines.                                                 *)

Run ==
  /\ Advance("run", "wait")
  /\ serve' = [s \in Servers |-> "launched"]
  /\ outbox' = "waiting"
  /\ UNCHANGED <<tracer, opened, health, stop, cancelled, errs, calls, expired, failed>>

ServeMoves(s, to) ==
  /\ serve' = [serve EXCEPT ![s] = to]
  /\ UNCHANGED <<stage, tracer, opened, health, stop, outbox, cancelled, errs, calls, expired, failed>>

\* Run of the server returns an error.
ServeFails(s) == ServeMoves(s, "sending")

Reported_Dropped(n) == n
Reported_Twice(n) == n + 2
Reported(n) == n + 1

\* The goroutine sends the error to errCh, waiting for room, and ends.
SendError(s) ==
  /\ serve[s] = "sending"
  /\ errs < ErrChCap
  /\ serve' = [serve EXCEPT ![s] = "returned"]
  /\ errs' = Reported(errs)
  /\ UNCHANGED <<stage, tracer, opened, health, stop, outbox, cancelled, calls, expired, failed>>

\* A gRPC server stopped before Serve returns ErrServerStopped, an error.
Launch(s) ==
  /\ serve[s] = "launched"
  /\ \/ stop[s] = "no" /\ ServeMoves(s, "serving")
     \/ s = "grpc" /\ stop[s] # "no" /\ ServeFails(s)
     \/ s = "http" /\ stop[s] # "no" /\ ServeMoves(s, "returned")
     \/ s = "http" /\ stop[s] = "no" /\ ServeFails(s)     \* the port is taken

\* Accept fails while nobody has stopped the server.
AcceptFails(s) ==
  /\ serve[s] = "serving"
  /\ stop[s] = "no"
  /\ ServeFails(s)

\* Serve waits for GracefulStop, ListenAndServe only for its listener.  Their
\* error is nil, or ErrServerClosed, which httpapp.Run drops.
ServeReturns(s) ==
  /\ serve[s] = "serving"
  /\ stop[s] = "done" \/ (s = "http" /\ stop[s] = "draining")
  /\ ServeMoves(s, "returned")

\* A connection outlives the loop that accepted it.
Connected(s) ==
  \/ serve[s] = "serving"
  \/ serve[s] \in {"sending", "returned"} /\ \E d \in CallsOf(s) : calls[d] # "none"

\* A client that has not seen the GOAWAY of GracefulStop still opens streams.
StartCall(s, c) ==
  /\ calls[c] = "none"
  /\ Connected(s)
  /\ stop[s] = "no" \/ (s = "grpc" /\ stop[s] = "draining")
  /\ calls' = [calls EXCEPT ![c] = "running"]
  /\ UNCHANGED <<stage, tracer, opened, health, serve, stop, outbox, cancelled, errs, expired, failed>>

FinishCall(c) ==
  /\ calls[c] = "running"
  /\ calls' = [calls EXCEPT ![c] = "done"]
  /\ UNCHANGED <<stage, tracer, opened, health, serve, stop, outbox, cancelled, errs, expired, failed>>

\* A cancelled context makes a batch fail fast, it does not stop a tick that
\* select takes before it looks at ctx.Done.
OutboxMoves(from, to) ==
  /\ outbox = from
  /\ outbox' = to
  /\ UNCHANGED <<stage, tracer, opened, health, serve, stop, cancelled, errs, calls, expired, failed>>

Tick == OutboxMoves("waiting", "publishing")
BatchEnds == OutboxMoves("publishing", "waiting")
OutboxReturns == cancelled /\ OutboxMoves("waiting", "returned")

Alive == stage \notin Over

Goroutines ==
  /\ Alive
  /\ \/ \E s \in Servers : Launch(s) \/ AcceptFails(s) \/ SendError(s) \/ ServeReturns(s)
     \/ \E s \in Servers : \E c \in CallsOf(s) : StartCall(s, c) \/ FinishCall(c)
     \/ Tick \/ BatchEnds \/ OutboxReturns

----------------------------------------------------------------------------
(* main and Shutdown.                                                      *)

\* select: the signal may come at any time, or there is an error to receive.
\* A second signal is caught like the first, and nobody waits for it.
Signal ==
  /\ Advance("wait", "set_not_serving")
  /\ UNCHANGED <<tracer, opened, health, runtimeVars>>

ReceiveError ==
  /\ Advance("wait", "set_not_serving")
  /\ errs > 0
  /\ errs' = errs - 1
  /\ UNCHANGED <<tracer, opened, health, serve, stop, outbox, cancelled, calls, expired, failed>>

\* context.WithTimeout(context.Background(), cfg.ShutdownTimeout)
Expire ==
  /\ stage \in Serving \ {"wait"}
  /\ ~expired
  /\ expired' = TRUE
  /\ UNCHANGED <<stage, tracer, opened, health, serve, stop, outbox, cancelled, errs, calls, failed>>

Stopping(s, from, to, how) ==
  /\ Advance(from, to)
  /\ stop' = [stop EXCEPT ![s] = how]
  /\ UNCHANGED <<tracer, opened, health, serve, outbox, cancelled, errs, calls, expired>>

Announced_Forgotten == health
Announced == "NOT_SERVING"
SetNotServing ==
  /\ Advance("set_not_serving", "stop_grpc")
  /\ health' = Announced
  /\ UNCHANGED <<tracer, opened, runtimeVars>>

StopGRPC == Stopping("grpc", "stop_grpc", "drain_grpc", "draining") /\ UNCHANGED failed

\* GracefulStop takes no context.
DrainGRPC ==
  /\ Running("grpc") = {}
  /\ Stopping("grpc", "drain_grpc", "stop_http", "done")
  /\ UNCHANGED failed

StopHTTP == Stopping("http", "stop_http", "drain_http", "draining") /\ UNCHANGED failed

DrainHTTP ==
  /\ Running("http") = {}
  /\ Stopping("http", "drain_http", "stop_outbox", "done")
  /\ UNCHANGED failed

DrainTimedOut_Ignored == failed
\* errors.Join(shutdownErr, "stop http app: context deadline exceeded")
DrainTimedOut == TRUE
DeadlinePassed_Never == FALSE
\* http.Server.Shutdown(ctx)
DeadlinePassed == expired
LeaveHTTP ==
  /\ DeadlinePassed
  /\ Stopping("http", "drain_http", "stop_outbox", "draining")
  /\ failed' = DrainTimedOut

StopOutbox ==
  /\ Advance("stop_outbox", "wait_outbox")
  /\ cancelled' = TRUE
  /\ UNCHANGED <<tracer, opened, health, serve, stop, outbox, errs, calls, expired, failed>>

OutboxDone_NoWait == TRUE
\* outboxWG.Wait()
OutboxDone == outbox = "returned"
WaitOutbox ==
  /\ OutboxDone
  /\ Advance("wait_outbox", "close")
  /\ UNCHANGED <<tracer, opened, health, runtimeVars>>

\* Before x is closed these are.
ClosedBefore(x) ==
  CASE x = "publisher" -> {}
    [] x = "redis"     -> {"publisher"}
    [] x = "postgres"  -> {"publisher", "redis"}
    [] x = "tracing"   -> {"publisher", "redis", "postgres"}

\* Each Close may return an error and closes all the same; tracing is shut
\* down with shutdownCtx and fails when that has expired.
Close ==
  \E x \in opened :
    /\ stage = "close"
    /\ ClosedBefore(x) \cap opened = {}
    /\ opened' = opened \ {x}
    /\ failed' \in {failed, TRUE}
    /\ UNCHANGED <<stage, tracer, health, serve, stop, outbox, cancelled, errs, calls, expired>>

\* main returns, with os.Exit(1) when Shutdown returned an error.
Exit ==
  /\ opened = {}
  /\ Advance("close", "exited")
  /\ UNCHANGED <<tracer, opened, health, runtimeVars>>

Shutdown ==
  \/ SetNotServing \/ StopGRPC \/ DrainGRPC \/ StopHTTP \/ DrainHTTP \/ LeaveHTTP
  \/ StopOutbox \/ WaitOutbox \/ Close \/ Exit

Ended == stage \in Over /\ UNCHANGED vars

Main == New \/ Run \/ ReceiveError \/ Shutdown
Next == Main \/ Signal \/ Goroutines \/ Expire \/ Ended

Spec == Init /\ [][Next]_vars

\* The main goroutine and the others run, the deadline comes, select takes
\* ctx.Done in the end, and handlers of gRPC calls return.  Nothing is assumed
\* of HTTP handlers, nor that a signal ever comes.
RuntimeFairness ==
  /\ WF_vars(Main)
  /\ WF_vars(Expire)
  /\ \A s \in Servers : WF_vars(Alive /\ (Launch(s) \/ SendError(s) \/ ServeReturns(s)))
  /\ WF_vars(Alive /\ BatchEnds) /\ SF_vars(Alive /\ OutboxReturns)
HandlersReturn == \A c \in GrpcCalls : WF_vars(Alive /\ FinishCall(c))

FairSpec == Spec /\ RuntimeFairness /\ HandlersReturn
\* The same without a word on the handlers, which have no timeout.
TimeoutSpec == Spec /\ RuntimeFairness

----------------------------------------------------------------------------
(* Properties.                                                             *)

TypeOK ==
  /\ stage \in Starting \cup Serving \cup Over
  /\ tracer \in BOOLEAN /\ cancelled \in BOOLEAN /\ expired \in BOOLEAN /\ failed \in BOOLEAN
  /\ opened \subseteq Resources
  /\ health \in {"unknown", "SERVING", "NOT_SERVING"}
  /\ serve \in [Servers -> {"off", "launched", "serving", "sending", "returned"}]
  /\ stop \in [Servers -> {"no", "draining", "done"}]
  /\ outbox \in {"off", "waiting", "publishing", "returned"}
  /\ errs \in 0..ErrChCap
  /\ calls \in [Calls -> {"none", "running", "done"}]

\* errCh has room for every error there can be: no goroutine is left waiting on
\* it, though main receives one error at most and Shutdown none.
NobodyWaitsOnErrCh == \A s \in Servers : serve[s] = "sending" => errs < ErrChCap

\* Shutdown closes nothing that is still in use: PostgreSQL, Redis and the
\* Kafka writer outlive every gRPC call, every tick of the publisher, and every
\* HTTP request unless the deadline cut the wait for it short.
ClientsOutliveUsers ==
  /\ Running("grpc") # {} => {"postgres", "redis"} \subseteq opened
  /\ Running("http") # {} => {"postgres", "redis"} \subseteq opened \/ expired
  /\ outbox \in {"waiting", "publishing"} => {"postgres", "publisher"} \subseteq opened

\* New on its error paths, a panicking one included, and Shutdown close
\* everything that was opened before.
NothingLeftOpen == stage \in Over => opened = {}

\* Shutdown's error, and with it the exit status, tells of every request it
\* did not wait for: status 0 means that all calls had returned.
ExitZeroMeansDrained ==
  stage = "exited" /\ ~failed => \A c \in Calls : calls[c] # "running"

\* The gateway is told before the server goes: health says NOT_SERVING when
\* GracefulStop starts to turn clients away.
DrainIsAnnounced == stop["grpc"] # "no" => health = "NOT_SERVING"

\* New: when a dependency cannot be reached the caller gets an error, with
\* tracing or without it.
StartFailureIsReported == stage # "panicked"

\* Shutdown, given that gRPC handlers return: a stop that has begun ends,
\* whatever HTTP handlers and the publisher's current batch do.
ShutdownEnds == stage = "set_not_serving" ~> stage = "exited"

\* cfg.ShutdownTimeout bounds the shutdown: some time after the deadline of
\* shutdownCtx the process is gone.
ShutdownIsBounded == expired ~> stage = "exited"

\* Run and errCh: a server that gives up takes the process down, for something
\* outside to start it again; no process lives on with half of its servers.
FailureStopsProcess ==
  (stage = "wait" /\ \E s \in Servers : serve[s] \in {"sending", "returned"}) ~> stage = "exited"
=============================================================================
