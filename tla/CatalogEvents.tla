---------------------------- MODULE CatalogEvents ----------------------------
(***************************************************************************)
(* The path of a change from an admin request to the consumers of the      *)
(* topic: the transactions of PostgresRepository and the publishers of     *)
(* OutboxPublisher meet in the table outbox_events.  A request makes at    *)
(* most one event, so the request is the id of its event.                  *)
(***************************************************************************)
EXTENDS ProductRows, FiniteSets

CONSTANTS Skew, Publishers, BatchSize, Poison, MaxOutages, NoEvent

ASSUME ClocksAssumption == Skew \in [Requests -> Nat]

ASSUME PublishersAssumption ==
  /\ IsFiniteSet(Requests) /\ IsFiniteSet(Publishers)
  /\ BatchSize \in Nat \ {0} /\ Poison \subseteq Requests
  /\ MaxOutages \in Nat /\ NoEvent \notin Requests

VARIABLES
  table, events, pc, cmd, begun, image, occurred, reply, now,         \* PostgresRepository
  status, delivered, failed, phase, batch, current, cancelled, outages  \* OutboxPublisher

Repo == INSTANCE PostgresRepository

\* created_at of an event defaults to NOW(), the start of its transaction.
CreatedAt == [r \in Requests |-> IF status[r] = "none" THEN 0 ELSE begun[r]]

Pub == INSTANCE OutboxPublisher WITH Events <- Requests, Times <- Nat, created <- CreatedAt

repositoryVars == <<table, events, pc, cmd, begun, image, occurred, reply, now>>
publisherVars == <<status, delivered, failed, phase, batch, current, cancelled, outages>>
vars == <<repositoryVars, publisherVars>>

Init == Repo!Init /\ Pub!Init

\* One commit makes the row and the pending event visible together.
CommitChange_EventLost(r) == Repo!Commit(r) /\ (Pub!Insert(r, begun[r]) \/ UNCHANGED publisherVars)
CommitChange(r) == Repo!Commit(r) /\ Pub!Insert(r, begun[r])

\* Publishers write only the column status, which no repository method reads.
Publishing(p) == UNCHANGED repositoryVars /\ Pub!PublisherStep(p)

\* Every request was answered and every event sent.
Settled ==
  /\ \A r \in Requests : pc[r] = "done"
  /\ Pub!Pending = {}
  /\ UNCHANGED vars

Next ==
  \/ \E r \in Requests : (Repo!Uncommitted(r) /\ UNCHANGED publisherVars) \/ CommitChange(r)
  \/ \E p \in Publishers : Publishing(p)
  \/ Settled

Spec == Init /\ [][Next]_vars

FairSpec == Spec /\ Pub!Fairness

----------------------------------------------------------------------------
(* Properties.                                                             *)

\* e announces an earlier change of the product of f.
Before(e, f) == e.key = f.key /\ e.image.ver < f.image.ver

\* producer.go: the message key is the product id, "гарантирует порядок событий
\* одного товара" (guarantees the order of the events of one product): no event
\* of a product reaches the topic before the events of its earlier changes.
PublishedInOrder ==
  \A e, f \in events : Before(e, f) /\ f.id \in delivered => e.id \in delivered

\* What the code does keep of that order: an event overtakes an earlier one only
\* if its transaction began no later, so that ORDER BY created_at, which breaks
\* no ties, may turn the two around, or if a publish of the earlier one failed
\* and the loop went on.
OvertakenForAReason ==
  \A e, f \in events :
    Before(e, f) /\ f.id \in delivered /\ e.id \notin delivered =>
      f.created <= e.created \/ e.id \in failed

\* occured_at of the payload: once the events of a product are sent, the latest
\* by OccuredAt of those in the topic is the row, in whatever order, how often
\* and by however many replicas they were published - unless the clock of the
\* replica that made a later one is ahead, and then by less than it is ahead.
TopicConverges ==
  \A p \in Products :
    table[p] # Seed[p] /\ (\A e \in events : e.key = p => status[e.id] = "sent") =>
      \E e \in events :
        /\ e.key = p /\ e.id \in delivered /\ e.image = table[p]
        /\ \A f \in events : f.key = p /\ f.id \in delivered =>
             \/ f.occurred <= e.occurred
             \/ f.occurred - e.occurred < Skew[f.id] - Skew[e.id]

\* The announcements of the events with an id in S.
Announcements(S) == {Repo!Announcement(e) : e \in {f \in events : f.id \in S}}

\* Requests, tables and publishers together are one AnnouncedStore: whatever the
\* replicas do at the same time, the topic tells only of committed changes, and
\* an event that is sent is in the topic and never becomes pending again.
Contract == INSTANCE AnnouncedStore
              WITH journal <- {Repo!Announcement(e) : e \in events},
                   topic <- Announcements(delivered),
                   settled <- Announcements({r \in Requests : status[r] = "sent"})
ImplementsContract == Contract!AnnouncedSpec

\* A change that was acknowledged is announced in the end, unless it can never
\* be, as long as fewer such events than a batch holds stand in its way.
EventuallyAnnounced ==
  Cardinality(Poison) < BatchSize =>
    \A r \in Requests \ Poison : reply[r] = "ok" ~> r \in delivered
=============================================================================
