--------------------------- MODULE OutboxPublisher ---------------------------
(***************************************************************************)
(* internal/outbox and internal/events: Publisher.Run polls outbox_events  *)
(* once per interval, hands each pending event to Kafka and marks it sent. *)
(* Every replica of the service runs one publisher; nothing reserves the   *)
(* rows a publisher has fetched.  Transactions elsewhere (PostgresRepository)*)
(* insert the events, in any order of their created_at.                    *)
(*                                                                         *)
(* Assumed of Kafka (segmentio/kafka-go): a WriteMessages that returns nil *)
(* appended the message; one that fails, after its five attempts or on a   *)
(* cancelled context, may have appended it.  The columns attempts,         *)
(* last_error and sent_at are left out: they are written and never read.   *)
(***************************************************************************)
EXTENDS Integers, FiniteSetsExt

CONSTANTS
  Events,       \* ids of the events ever inserted
  Publishers,   \* replicas
  BatchSize,    \* batchSize, 100 in the code
  Poison,       \* events Kafka never accepts, such as a message above its limit
  Times,        \* values of created_at
  MaxOutages,   \* bound: stops and crashes of one behaviour
  NoEvent

ASSUME FinitenessAssumption == IsFiniteSet(Events) /\ IsFiniteSet(Publishers)
ASSUME BatchSizeAssumption == BatchSize \in Nat \ {0}
ASSUME PoisonAssumption    == Poison \subseteq Events
ASSUME TimesAssumption     == Times \subseteq Nat
ASSUME OutagesAssumption   == MaxOutages \in Nat
ASSUME NoEventAssumption   == NoEvent \notin Events

VARIABLES
  status,     \* column status, "none" before the insert commits
  created,    \* column created_at
  delivered,  \* events appended to the topic, once or more often
  failed,     \* events with a publish attempt that returned an error (history)
  phase,      \* where each publisher's Run is
  batch,      \* fetched events not handed to Kafka yet
  current,    \* the event about to be marked sent
  cancelled,  \* outboxStop was called
  outages     \* stops and crashes so far

outboxVars    == <<status, created>>
publisherVars == <<phase, batch, current, cancelled, outages>>
vars == <<outboxVars, delivered, failed, publisherVars>>

TypeOK ==
  /\ status \in [Events -> {"none", "pending", "sent"}]
  /\ created \in [Events -> Nat]
  /\ delivered \subseteq Events
  /\ failed \subseteq Events
  /\ phase \in [Publishers -> {"waiting", "publishing", "marking", "down"}]
  /\ batch \in [Publishers -> SUBSET Events]
  /\ \A p \in Publishers : Cardinality(batch[p]) <= BatchSize
  /\ current \in [Publishers -> Events \cup {NoEvent}]
  /\ cancelled \in [Publishers -> BOOLEAN]
  /\ outages \in 0..MaxOutages

Init ==
  /\ status = [e \in Events |-> "none"]
  /\ created = [e \in Events |-> 0]
  /\ delivered = {}
  /\ failed = {}
  /\ phase = [p \in Publishers |-> "waiting"]
  /\ batch = [p \in Publishers |-> {}]
  /\ current = [p \in Publishers |-> NoEvent]
  /\ cancelled = [p \in Publishers |-> FALSE]
  /\ outages = 0

----------------------------------------------------------------------------
\* A transaction that started at time t commits its event.
Insert(e, t) ==
  /\ status[e] = "none"
  /\ status' = [status EXCEPT ![e] = "pending"]
  /\ created' = [created EXCEPT ![e] = t]
  /\ UNCHANGED <<delivered, failed, publisherVars>>

Pending_AnyStatus == {e \in Events : status[e] # "none"}
Pending == {e \in Events : status[e] = "pending"}

\* The results of SELECT ... ORDER BY created_at LIMIT n over the rows S.
OldestOf_NoLimit(n, S) == {S}
OldestOf_NoOrder(n, S) == kSubset(IF Cardinality(S) < n THEN Cardinality(S) ELSE n, S)
OldestOf(n, S) ==
  {B \in kSubset(IF Cardinality(S) < n THEN Cardinality(S) ELSE n, S) :
     \A e \in B, f \in S \ B : created[e] <= created[f]}

\* A tick; a fetch that fails or finds nothing ends it without a change.
FetchPending(p) ==
  /\ phase[p] = "waiting"
  /\ ~cancelled[p]
  /\ Pending # {}
  /\ \E B \in OldestOf(BatchSize, Pending) : batch' = [batch EXCEPT ![p] = B]
  /\ phase' = [phase EXCEPT ![p] = "publishing"]
  /\ UNCHANGED <<status, created, delivered, failed, current, cancelled, outages>>

\* The next event of the loop: the oldest that is left.
Head(p, e) ==
  /\ e \in batch[p]
  /\ \A f \in batch[p] : created[e] <= created[f]

\* The loop goes on with rest, or returns to the select of Run.
Continue(p, rest) ==
  /\ batch' = [batch EXCEPT ![p] = rest]
  /\ phase' = [phase EXCEPT ![p] = IF rest = {} THEN "waiting" ELSE "publishing"]

PublishSucceeds(p, e) ==
  /\ phase[p] = "publishing"
  /\ Head(p, e)
  /\ e \notin Poison
  /\ delivered' = delivered \cup {e}
  /\ phase' = [phase EXCEPT ![p] = "marking"]
  /\ batch' = [batch EXCEPT ![p] = @ \ {e}]
  /\ current' = [current EXCEPT ![p] = e]
  /\ UNCHANGED <<status, created, failed, cancelled, outages>>

\* What is left of the batch after a failure: continue, not return.
AfterFailure_Return(p, e) == {}
AfterFailure(p, e) == batch[p] \ {e}

StatusAfterFailure_Sent(e) == [status EXCEPT ![e] = "sent"]
StatusAfterFailure_Pending(e) == [status EXCEPT ![e] = "pending"]
StatusAfterFailure(e) == status

\* WriteMessages returns an error; markFailed leaves the event pending.
PublishFails(p, e) ==
  /\ phase[p] = "publishing"
  /\ Head(p, e)
  /\ \/ UNCHANGED delivered
     \/ e \notin Poison /\ delivered' = delivered \cup {e}
  /\ failed' = failed \cup {e}
  /\ status' = StatusAfterFailure(e)
  /\ Continue(p, AfterFailure(p, e))
  /\ UNCHANGED <<created, current, cancelled, outages>>

\* markSent; the loop goes on.
MarkSent(p, e) ==
  /\ phase[p] = "marking"
  /\ e = current[p]
  /\ ~cancelled[p]
  /\ status' = [status EXCEPT ![e] = "sent"]
  /\ current' = [current EXCEPT ![p] = NoEvent]
  /\ Continue(p, batch[p])
  /\ UNCHANGED <<created, delivered, failed, cancelled, outages>>

\* The UPDATE fails, as it always does once the context is cancelled.
MarkFails(p) ==
  /\ phase[p] = "marking"
  /\ current' = [current EXCEPT ![p] = NoEvent]
  /\ Continue(p, batch[p])
  /\ UNCHANGED <<status, created, delivered, failed, cancelled, outages>>

\* Shutdown calls outboxStop and waits for Run to return.
Stop(p) ==
  /\ phase[p] # "down"
  /\ ~cancelled[p]
  /\ outages < MaxOutages
  /\ cancelled' = [cancelled EXCEPT ![p] = TRUE]
  /\ outages' = outages + 1
  /\ UNCHANGED <<status, created, delivered, failed, phase, batch, current>>

\* case <-ctx.Done()
Exit(p) ==
  /\ phase[p] = "waiting"
  /\ cancelled[p]
  /\ phase' = [phase EXCEPT ![p] = "down"]
  /\ UNCHANGED <<status, created, delivered, failed, batch, current, cancelled, outages>>

Crash(p) ==
  /\ phase[p] # "down"
  /\ outages < MaxOutages
  /\ phase' = [phase EXCEPT ![p] = "down"]
  /\ batch' = [batch EXCEPT ![p] = {}]
  /\ current' = [current EXCEPT ![p] = NoEvent]
  /\ outages' = outages + 1
  /\ UNCHANGED <<status, created, delivered, failed, cancelled>>

\* A new process starts in the place of the old one.
Restart(p) ==
  /\ phase[p] = "down"
  /\ phase' = [phase EXCEPT ![p] = "waiting"]
  /\ cancelled' = [cancelled EXCEPT ![p] = FALSE]
  /\ UNCHANGED <<status, created, delivered, failed, batch, current, outages>>

\* Every event was inserted and sent, and no publisher will stop again.
Idle ==
  /\ Pending = {}
  /\ UNCHANGED vars

----------------------------------------------------------------------------
PublishOne(p) == \E e \in Events : PublishSucceeds(p, e) \/ PublishFails(p, e)
MarkOne(p)    == MarkFails(p) \/ \E e \in Events : MarkSent(p, e)

\* What Run does of its own accord.
Work(p) == FetchPending(p) \/ PublishOne(p) \/ MarkOne(p) \/ Exit(p)

PublisherStep(p) == Work(p) \/ Stop(p) \/ Crash(p) \/ Restart(p)

Next ==
  \/ \E e \in Events, t \in Times : Insert(e, t)
  \/ \E p \in Publishers : PublisherStep(p)
  \/ Idle

Spec == Init /\ [][Next]_vars

\* The ticker keeps firing and a process that ended is started again; an event
\* Kafka can accept is accepted in the end if it is offered again and again,
\* and so is its markSent.
Fairness ==
  /\ \A p \in Publishers : WF_vars(Work(p) \/ Restart(p))
  /\ \A e \in Events :
       /\ SF_vars(\E p \in Publishers : PublishSucceeds(p, e))
       /\ SF_vars(\E p \in Publishers : MarkSent(p, e))

FairSpec == Spec /\ Fairness

----------------------------------------------------------------------------
(* Properties.                                                             *)

\* markSent: an event is never marked sent unless it reached the topic, so no
\* crash, failed publish or second publisher makes the outbox lose an event.
SentWasDelivered == \A e \in Events : status[e] = "sent" => e \in delivered

\* publishBatch: with a single replica an event that is already marked sent is
\* never handed to Kafka again; duplicates need a failed markSent or a crash.
SentIsNotRepublished ==
  Cardinality(Publishers) = 1 =>
    \A p \in Publishers, e \in Events :
      e \in batch[p] \/ e = current[p] => status[e] = "pending"

\* publishBatch, continue after a failure: as long as fewer events than one
\* batch are undeliverable, every other event is sent in the end.
EventuallySent ==
  Cardinality(Poison) < BatchSize =>
    \A e \in Events \ Poison : status[e] = "pending" ~> status[e] = "sent"
=============================================================================
