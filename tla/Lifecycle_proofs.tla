-------------------------- MODULE Lifecycle_proofs --------------------------
(***************************************************************************)
(* Theorems about Lifecycle, for any sets of gRPC and HTTP calls.  That a  *)
(* client may be closed depends on how far the main goroutine has come:    *)
(* Progress says what each stage may rely on, Held what is open in it.     *)
(***************************************************************************)
EXTENDS Lifecycle, TLAPS

NotRunning == Starting \cup {"refused", "panicked"}
BeforeStop == NotRunning \cup {"wait", "set_not_serving", "stop_grpc"}
GrpcDrained == {"stop_http", "drain_http", "stop_outbox", "wait_outbox", "close", "exited"}
HttpLeft == {"stop_outbox", "wait_outbox", "close", "exited"}

Progress ==
  /\ stage \in NotRunning =>
       /\ \A s \in Servers : serve[s] = "off"
       /\ outbox = "off"
       /\ \A c \in Calls : calls[c] = "none"
  /\ stage \in BeforeStop => stop["grpc"] = "no"
  /\ stage \notin NotRunning \cup {"wait", "set_not_serving"} => health = "NOT_SERVING"
  /\ stage \in GrpcDrained => stop["grpc"] = "done"
  /\ stop["grpc"] = "done" => \A c \in GrpcCalls : calls[c] # "running"
  /\ stage \in HttpLeft =>
       stop["http"] = "done" \/ (stop["http"] = "draining" /\ expired /\ failed)
  /\ stop["http"] = "done" => \A c \in HttpCalls : calls[c] # "running"
  /\ stage \in {"close", "exited"} => outbox = "returned"

Held ==
  /\ stage = "init_tracing" => opened = {}
  /\ stage = "open_postgres" => opened \ {"tracing"} = {}
  /\ stage = "ping_postgres" => opened \ {"tracing"} = {"postgres"}
  /\ stage \in {"ping_redis", "new_cache", "new_publisher"} =>
       opened \ {"tracing"} = {"postgres", "redis"}
  /\ stage \in {"listen_grpc", "run"} \cup (Serving \ {"close"}) =>
       opened \ {"tracing"} = {"postgres", "redis", "publisher"}
  /\ stage \in Over => opened = {}

\* A server whose goroutine has ended sent one error at most.
Sent(s) == IF serve[s] = "returned" THEN 1 ELSE 0
Room == errs <= Sent("grpc") + Sent("http")

IInv == TypeOK /\ Progress /\ Held /\ Room

\* The sets of stages and what they contain.
USE DEF NotRunning, BeforeStop, GrpcDrained, HttpLeft, Starting, Serving, Over

LEMMA InitIInv == Init => IInv
<1> SUFFICES ASSUME Init PROVE IInv
  OBVIOUS
<1>1. TypeOK
  <2>1. errs \in 0..ErrChCap
    BY DEF Init, ErrChCap
  <2>2. QED
    BY <2>1 DEF Init, TypeOK
<1>2. Progress
  BY DEF Init, Progress, Servers
<1>3. Held
  BY DEF Init, Held
<1>4. Room
  BY DEF Init, Room, Sent, Servers
<1>5. QED
  BY <1>1, <1>2, <1>3, <1>4 DEF IInv

----------------------------------------------------------------------------
\* New opens and closes clients; nothing is running yet.
LEMMA NewStep ==
  ASSUME IInv, New
  PROVE  IInv'
<1> USE DEF runtimeVars
<1>0. /\ UNCHANGED runtimeVars
      /\ stage \in {"init_tracing", "open_postgres", "ping_postgres", "ping_redis",
                    "new_cache", "new_publisher", "listen_grpc"}
      /\ stage' \in NotRunning
      /\ opened' \subseteq Resources
      /\ tracer' \in BOOLEAN
      /\ health' \in {health, "SERVING"}
      /\ Held'
  <2>1. CASE InitTracing
    BY <2>1 DEF InitTracing, Advance, Resources, IInv, TypeOK, Held
  <2>2. CASE OpenPostgres
    BY <2>2 DEF OpenPostgres, Opens, Refuses, Advance, Resources, IInv, TypeOK, Held
  <2>3. CASE PingPostgres
    BY <2>3 DEF PingPostgres, Opens, Refuses, Advance, Resources, IInv, TypeOK, Held
  <2>4. CASE PingRedis
    BY <2>4 DEF PingRedis, Opens, Refuses, Advance, Resources, IInv, TypeOK, Held
  <2>5. CASE NewCache
    BY <2>5 DEF NewCache, Opens, Refuses, Advance, Resources, IInv, TypeOK, Held
  <2>6. CASE NewPublisher
    BY <2>6 DEF NewPublisher, Advance, Resources, IInv, TypeOK, Held
  <2>7. CASE ListenGRPC
    BY <2>7 DEF ListenGRPC, Opens, Refuses, CleanedUp, Advance, Resources, IInv, TypeOK, Held
  <2>8. QED
    BY <2>1, <2>2, <2>3, <2>4, <2>5, <2>6, <2>7 DEF New
<1>1. TypeOK'
  BY <1>0 DEF IInv, TypeOK
<1>2. Progress'
  BY <1>0 DEF IInv, Progress
<1>3. Room'
  BY <1>0 DEF IInv, Room, Sent
<1>4. QED
  BY <1>0, <1>1, <1>2, <1>3 DEF IInv

\* The goroutines and the deadline: main stays where it is.
LEMMA GoroutineStep ==
  ASSUME IInv, Goroutines \/ Expire
  PROVE  IInv'
<1>0. UNCHANGED <<stage, tracer, opened, health, stop, cancelled, failed>>
  BY DEF Goroutines, Expire, Launch, ServeMoves, ServeFails, AcceptFails, SendError, ServeReturns,
         StartCall, FinishCall, Tick, BatchEnds, OutboxReturns, OutboxMoves
<1>1. Held'
  BY <1>0 DEF IInv, Held
<1>2. ASSUME NEW s \in Servers,
             Launch(s) \/ AcceptFails(s) \/ SendError(s) \/ ServeReturns(s)
      PROVE  TypeOK' /\ Progress' /\ Room'
  <2> USE DEF Launch, ServeMoves, ServeFails, AcceptFails, SendError, ServeReturns, Reported
  <2>1. UNCHANGED <<outbox, calls, expired>> /\ serve[s] \notin {"off", "returned"}
    BY <1>2
  <2>2. /\ serve' \in [Servers -> {"off", "launched", "serving", "sending", "returned"}]
        /\ errs' \in 0..ErrChCap
    BY <1>2 DEF ErrChCap, IInv, TypeOK
  <2>3. TypeOK'
    BY <1>0, <2>1, <2>2 DEF IInv, TypeOK
  <2>4. Progress'
    BY <1>0, <2>1 DEF IInv, Progress
  <2>5. Room'
    <3>1. /\ \E to \in {"serving", "sending", "returned"} : serve' = [serve EXCEPT ![s] = to]
          /\ errs' = errs \/ (errs' = errs + 1 /\ serve' = [serve EXCEPT ![s] = "returned"])
      BY <1>2
    <3>2. errs \in Nat /\ serve \in [Servers -> {"off", "launched", "serving", "sending", "returned"}]
      BY DEF IInv, TypeOK, ErrChCap
    <3>3. s = "grpc" \/ s = "http"
      BY DEF Servers
    <3>4. QED
      BY <2>1, <3>1, <3>2, <3>3 DEF IInv, Room, Sent, Servers
  <2>6. QED
    BY <2>3, <2>4, <2>5
<1>3. ASSUME NEW s \in Servers, NEW c \in CallsOf(s), StartCall(s, c) \/ FinishCall(c)
      PROVE  TypeOK' /\ Progress' /\ Room'
  <2>1. /\ UNCHANGED <<serve, outbox, expired, errs>>
        /\ c \in Calls
        /\ calls[c] = "none" \/ calls[c] = "running"
        /\ stage \notin NotRunning
    BY <1>3 DEF StartCall, Connected, FinishCall, CallsOf, Calls, Servers, IInv, Progress
  <2>2. /\ calls' \in [Calls -> {"none", "running", "done"}]
        /\ \A d \in Calls : calls'[d] = "running" => calls[d] = "running" \/ d = c
        /\ calls'[c] = "running" => StartCall(s, c)
    BY <1>3, <2>1 DEF StartCall, FinishCall, IInv, TypeOK
  <2>3. TypeOK'
    BY <1>0, <2>1, <2>2 DEF IInv, TypeOK
  <2>4. ASSUME calls'[c] = "running", NEW t \in Servers, c \in CallsOf(t)
        PROVE  stop[t] # "done"
    BY <2>2, <2>4, CallsAssumption DEF StartCall, CallsOf, Servers
  <2>5. ASSUME NEW t \in Servers, stop[t] = "done",
               \A d \in CallsOf(t) : calls[d] # "running"
        PROVE  \A d \in CallsOf(t) : calls'[d] # "running"
    BY <2>2, <2>4, <2>5 DEF CallsOf, Calls
  <2>6. /\ stop["grpc"] = "done" => \A d \in GrpcCalls : calls'[d] # "running"
        /\ stop["http"] = "done" => \A d \in HttpCalls : calls'[d] # "running"
    BY <2>5 DEF IInv, Progress, CallsOf, Servers
  <2>7. Progress'
    BY <1>0, <2>1, <2>6 DEF IInv, Progress
  <2>8. Room'
    BY <2>1 DEF IInv, Room, Sent
  <2>9. QED
    BY <2>3, <2>7, <2>8
<1>4. ASSUME Tick \/ BatchEnds \/ OutboxReturns
      PROVE  TypeOK' /\ Progress' /\ Room'
  <2>1. /\ UNCHANGED <<serve, calls, expired, errs>>
        /\ outbox \in {"waiting", "publishing"}
        /\ outbox' \in {"waiting", "publishing", "returned"}
    BY <1>4 DEF Tick, BatchEnds, OutboxReturns, OutboxMoves
  <2>2. QED
    BY <1>0, <2>1 DEF IInv, TypeOK, Progress, Room, Sent
<1>5. ASSUME Expire
      PROVE  TypeOK' /\ Progress' /\ Room'
  BY <1>0, <1>5 DEF Expire, IInv, TypeOK, Progress, Room, Sent
<1>6. TypeOK' /\ Progress' /\ Room'
  BY <1>2, <1>3, <1>4, <1>5 DEF Goroutines
<1>7. QED
  BY <1>1, <1>6 DEF IInv

\* From Run to the exit the main goroutine moves on only when it may.
LEMMA MainStep ==
  ASSUME IInv, Run \/ Signal \/ ReceiveError \/ Shutdown
  PROVE  IInv'
<1> USE DEF runtimeVars, Advance
<1>0. Room'
  <2>1. CASE Run
    <3>1. errs \in Nat /\ errs <= 0 /\ errs' = errs
      BY <2>1 DEF Run, IInv, TypeOK, Progress, Room, Sent, Servers, ErrChCap
    <3>2. QED
      BY <3>1 DEF Room, Sent
  <2>2. CASE Signal \/ ReceiveError \/ Shutdown
    <3>1. serve' = serve /\ (errs' = errs \/ errs' = errs - 1)
      BY <2>2 DEF Signal, ReceiveError, Shutdown, SetNotServing, StopGRPC, DrainGRPC, StopHTTP,
                  DrainHTTP, LeaveHTTP, Stopping, StopOutbox, WaitOutbox, Close, Exit
    <3>2. errs \in Nat
      BY DEF IInv, TypeOK, ErrChCap
    <3>3. QED
      BY <3>1, <3>2 DEF IInv, Room, Sent
  <2>3. QED
    BY <2>1, <2>2
<1>1. CASE Run
  <2>1. TypeOK'
    BY <1>1 DEF Run, IInv, TypeOK
  <2>2. Progress'
    BY <1>1 DEF Run, IInv, Progress
  <2>3. Held'
    BY <1>1 DEF Run, IInv, Held
  <2>4. QED
    BY <1>0, <2>1, <2>2, <2>3 DEF IInv
<1>2. CASE Signal \/ ReceiveError
  <2>1. errs' \in 0..ErrChCap
    BY <1>2 DEF Signal, ReceiveError, IInv, TypeOK, ErrChCap
  <2>2. TypeOK'
    BY <1>2, <2>1 DEF Signal, ReceiveError, IInv, TypeOK
  <2>3. Progress'
    BY <1>2 DEF Signal, ReceiveError, IInv, Progress
  <2>4. Held'
    BY <1>2 DEF Signal, ReceiveError, IInv, Held
  <2>5. QED
    BY <1>0, <2>2, <2>3, <2>4 DEF IInv
<1>3. CASE SetNotServing
  <2>1. TypeOK'
    BY <1>3 DEF SetNotServing, Announced, IInv, TypeOK
  <2>2. Progress'
    BY <1>3 DEF SetNotServing, Announced, IInv, Progress
  <2>3. Held'
    BY <1>3 DEF SetNotServing, IInv, Held
  <2>4. QED
    BY <1>0, <2>1, <2>2, <2>3 DEF IInv
<1>4. CASE StopGRPC \/ DrainGRPC \/ StopHTTP \/ DrainHTTP \/ LeaveHTTP
  <2> USE DEF StopGRPC, DrainGRPC, StopHTTP, DrainHTTP, LeaveHTTP, Stopping, DeadlinePassed,
              DrainTimedOut
  <2>1. /\ stop' \in [Servers -> {"no", "draining", "done"}]
        /\ stage' \in Serving \ {"close"}
        /\ stage \in Serving \ {"close"}
        /\ failed' \in BOOLEAN
    BY <1>4 DEF IInv, TypeOK
  <2>2. UNCHANGED <<tracer, opened, health, serve, outbox, cancelled, errs, calls, expired>>
    BY <1>4
  <2>3. TypeOK'
    BY <2>1, <2>2 DEF IInv, TypeOK
  <2>4. Held'
    BY <2>1, <2>2 DEF IInv, Held
  <2>5. /\ stop'["grpc"] = "done" => \A c \in GrpcCalls : calls[c] # "running"
        /\ stop'["http"] = "done" => \A c \in HttpCalls : calls[c] # "running"
    BY <1>4 DEF Running, CallsOf, Servers, IInv, TypeOK, Progress
  <2>6. /\ stage' \in BeforeStop => stop'["grpc"] = "no"
        /\ stage' \in GrpcDrained => stop'["grpc"] = "done"
        /\ stage' \in HttpLeft =>
             stop'["http"] = "done" \/ (stop'["http"] = "draining" /\ expired /\ failed')
        /\ stage' \notin {"close", "exited"} \cup NotRunning
        /\ health = "NOT_SERVING"
    <3> USE DEF Servers
    <3>1. CASE StopGRPC \/ DrainGRPC
      BY <1>4, <3>1 DEF IInv, TypeOK, Progress
    <3>2. CASE StopHTTP \/ DrainHTTP
      BY <1>4, <3>2 DEF IInv, TypeOK, Progress
    <3>3. CASE LeaveHTTP
      BY <1>4, <3>3 DEF IInv, TypeOK, Progress
    <3>4. QED
      BY <1>4, <3>1, <3>2, <3>3
  <2>7. Progress'
    BY <2>2, <2>5, <2>6 DEF Progress
  <2>8. QED
    BY <1>0, <2>3, <2>4, <2>7 DEF IInv
<1>5. CASE StopOutbox \/ WaitOutbox
  <2>1. TypeOK'
    BY <1>5 DEF StopOutbox, WaitOutbox, IInv, TypeOK
  <2>2. Progress'
    <3>1. /\ UNCHANGED <<serve, calls, stop, health, expired>>
          /\ stage = "stop_outbox" \/ stage = "wait_outbox"
          /\ failed => failed'
      BY <1>5 DEF StopOutbox, WaitOutbox
    <3>2. /\ stage' \in {"wait_outbox", "close"}
          /\ stage' = "close" => outbox' = "returned"
      BY <1>5 DEF StopOutbox, WaitOutbox, OutboxDone
    <3>3. QED
      BY <3>1, <3>2 DEF IInv, Progress
  <2>3. Held'
    BY <1>5 DEF StopOutbox, WaitOutbox, IInv, Held
  <2>4. QED
    BY <1>0, <2>1, <2>2, <2>3 DEF IInv
<1>6. CASE Close \/ Exit
  <2>1. TypeOK'
    BY <1>6 DEF Close, Exit, IInv, TypeOK
  <2>2. failed => failed'
    BY <1>6 DEF Close, Exit
  <2>3. Progress'
    BY <1>6, <2>2 DEF Close, Exit, IInv, Progress
  <2>4. Held'
    BY <1>6 DEF Close, Exit, IInv, Held
  <2>5. QED
    BY <1>0, <2>1, <2>3, <2>4 DEF IInv
<1>7. QED
  BY <1>1, <1>2, <1>3, <1>4, <1>5, <1>6 DEF Shutdown

LEMMA NextIInv == IInv /\ [Next]_vars => IInv'
<1> SUFFICES ASSUME IInv, [Next]_vars PROVE IInv'
  OBVIOUS
<1>1. CASE New
  BY <1>1, NewStep
<1>2. CASE Run \/ Signal \/ ReceiveError \/ Shutdown
  BY <1>2, MainStep
<1>3. CASE Goroutines \/ Expire
  BY <1>3, GoroutineStep
<1>4. CASE UNCHANGED vars
  BY <1>4 DEF vars, runtimeVars, IInv, TypeOK, Progress, Held, Room, Sent
<1>5. QED
  BY <1>1, <1>2, <1>3, <1>4 DEF Next, Main, Ended

LEMMA InductiveInvariant == Spec => []IInv
<1>1. Init => IInv
  BY InitIInv
<1>2. IInv /\ [Next]_vars => IInv'
  BY NextIInv
<1>3. QED
  BY <1>1, <1>2, PTL DEF Spec

----------------------------------------------------------------------------
\* Every stage, flag and set of App keeps its type, however far the goroutines
\* have come.
THEOREM TypeCorrect == Spec => []TypeOK
<1>1. IInv => TypeOK
  BY DEF IInv
<1>2. QED
  BY <1>1, InductiveInvariant, PTL

\* Run and errCh: no goroutine is ever held up by the send of its error, whether
\* or not main still receives; each server sends once and the channel is wider.
THEOREM SendersNeverWait == Spec => []NobodyWaitsOnErrCh
<1>1. IInv => NobodyWaitsOnErrCh
  <2> SUFFICES ASSUME IInv, NEW s \in Servers, serve[s] = "sending" PROVE errs < ErrChCap
    BY DEF NobodyWaitsOnErrCh
  <2>1. errs \in Nat /\ errs <= 1
    BY DEF IInv, TypeOK, Room, Sent, Servers, ErrChCap
  <2>2. QED
    BY <2>1 DEF ErrChCap
<1>2. QED
  BY <1>1, InductiveInvariant, PTL

\* Shutdown: however many calls are under way, and wherever the publisher is,
\* no client is closed that one of them may still use, the HTTP requests that
\* outlived the deadline excepted.
THEOREM ClientsAreClosedLast == Spec => []ClientsOutliveUsers
<1>1. IInv => ClientsOutliveUsers
  <2> SUFFICES ASSUME IInv PROVE ClientsOutliveUsers
    OBVIOUS
  <2>1. stage \in Starting \cup Serving \cup Over
    BY DEF IInv, TypeOK
  <2>2. Running("grpc") # {} => stage \in {"wait", "set_not_serving", "stop_grpc", "drain_grpc"}
    BY <2>1 DEF IInv, Progress, Running, CallsOf, Calls
  <2>3. Running("http") # {} =>
          expired \/ stage \in Serving \ {"close"}
    BY <2>1 DEF IInv, Progress, Running, CallsOf, Calls
  <2>4. outbox \in {"waiting", "publishing"} => stage \in Serving \ {"close"}
    BY <2>1 DEF IInv, Progress
  <2>5. stage \in Serving \ {"close"} => {"postgres", "redis", "publisher"} \subseteq opened
    BY DEF IInv, Held
  <2>6. QED
    BY <2>2, <2>3, <2>4, <2>5 DEF ClientsOutliveUsers
<1>2. QED
  BY <1>1, InductiveInvariant, PTL

\* New and Shutdown: a process that gave up or ended has closed what it opened.
THEOREM EverythingIsClosed == Spec => []NothingLeftOpen
<1>1. IInv => NothingLeftOpen
  BY DEF IInv, Held, NothingLeftOpen
<1>2. QED
  BY <1>1, InductiveInvariant, PTL

\* Shutdown's error, and main's os.Exit(1): status 0 is given only when every
\* call had returned.
THEOREM StatusIsHonest == Spec => []ExitZeroMeansDrained
<1>1. IInv => ExitZeroMeansDrained
  BY DEF IInv, Progress, ExitZeroMeansDrained, Calls
<1>2. QED
  BY <1>1, InductiveInvariant, PTL

\* Shutdown: NOT_SERVING is announced before GracefulStop is called.
THEOREM DrainComesAnnounced == Spec => []DrainIsAnnounced
<1>1. IInv => DrainIsAnnounced
  BY DEF IInv, Progress, DrainIsAnnounced
<1>2. QED
  BY <1>1, InductiveInvariant, PTL

=============================================================================
