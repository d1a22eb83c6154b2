------------------------ MODULE CatalogEvents_proofs ------------------------
(***************************************************************************)
(* Theorems of CatalogEvents, for any number of requests, products and     *)
(* replicas, any clocks and any outages.  The composition implements each  *)
(* of its components, so what is proved of them holds here.                *)
(***************************************************************************)
EXTENDS CatalogEvents, TLAPS

RepoProofs == INSTANCE PostgresRepository_proofs
PubProofs == INSTANCE OutboxPublisher_proofs
               WITH Events <- Requests, Times <- Nat, created <- CreatedAt

----------------------------------------------------------------------------
(* The components are those their theorems are about.                      *)

LEMMA SameRepository ==
  ASSUME NEW r \in Requests
  PROVE  /\ Repo!Init <=> RepoProofs!Init
         /\ Repo!Uncommitted(r) <=> RepoProofs!Uncommitted(r)
         /\ Repo!Commit(r) <=> RepoProofs!Commit(r)
<1>1. Repo!Init <=> RepoProofs!Init
  BY DEF Repo!Init, RepoProofs!Init, Repo!NoCommand, RepoProofs!NoCommand
<1>2. Repo!Uncommitted(r) <=> RepoProofs!Uncommitted(r)
  BY DEF Repo!Uncommitted, RepoProofs!Uncommitted, Repo!Statement,
       RepoProofs!Statement, Repo!BeginTx, RepoProofs!BeginTx, Repo!Return,
       RepoProofs!Return, Repo!Wrote, RepoProofs!Wrote, Repo!InsertProduct,
       RepoProofs!InsertProduct, Repo!RejectDuplicateSku,
       RepoProofs!RejectDuplicateSku, Repo!PatchProduct,
       RepoProofs!PatchProduct, Repo!AddStock, RepoProofs!AddStock,
       Repo!RejectStock, RepoProofs!RejectStock, Repo!RejectMissing,
       RepoProofs!RejectMissing, Repo!OccuredAt, RepoProofs!OccuredAt,
       Repo!InsertOutboxEvent, RepoProofs!InsertOutboxEvent, Repo!Abort,
       RepoProofs!Abort, Repo!Holding, RepoProofs!Holding, Repo!HoldingPhases,
       RepoProofs!HoldingPhases, Repo!RowFree, RepoProofs!RowFree,
       Repo!SkuUnclaimed, RepoProofs!SkuUnclaimed, Repo!SkuInUse,
       RepoProofs!SkuInUse, Repo!NewRow, RepoProofs!NewRow, Repo!PatchedRow,
       RepoProofs!PatchedRow, Repo!RestockedRow, RepoProofs!RestockedRow,
       Repo!Rewritten, RepoProofs!Rewritten, Repo!StockFits,
       RepoProofs!StockFits, Repo!FailureReply, RepoProofs!FailureReply,
       Repo!EventOf, RepoProofs!EventOf, Repo!CommittedEvents,
       RepoProofs!CommittedEvents, Repo!EventTypeOf, RepoProofs!EventTypeOf,
       Repo!Commit, RepoProofs!Commit, Repo!Quiescent, RepoProofs!Quiescent,
       Repo!NoCommand, RepoProofs!NoCommand
<1>3. Repo!Commit(r) <=> RepoProofs!Commit(r)
  BY DEF Repo!Commit, RepoProofs!Commit, Repo!CommittedEvents,
       RepoProofs!CommittedEvents, Repo!EventOf, RepoProofs!EventOf,
       Repo!EventTypeOf, RepoProofs!EventTypeOf, Repo!Return,
       RepoProofs!Return
<1>4. QED
  BY <1>1, <1>2, <1>3

LEMMA SamePublisher ==
  /\ Pub!Init <=> PubProofs!Init
  /\ \A p \in Publishers : Pub!PublisherStep(p) <=> PubProofs!PublisherStep(p)
  /\ \A r \in Requests, t \in Nat : Pub!Insert(r, t) <=> PubProofs!Insert(r, t)
<1>1. Pub!Init <=> PubProofs!Init
  BY DEF Pub!Init, PubProofs!Init
<1>2. ASSUME NEW p \in Publishers
      PROVE  Pub!PublisherStep(p) <=> PubProofs!PublisherStep(p)
  BY DEF Pub!PublisherStep, PubProofs!PublisherStep, Pub!Work, PubProofs!Work,
       Pub!PublishOne, PubProofs!PublishOne, Pub!MarkOne, PubProofs!MarkOne,
       Pub!FetchPending, PubProofs!FetchPending, Pub!OldestOf,
       PubProofs!OldestOf, Pub!Pending, PubProofs!Pending, Pub!Head,
       PubProofs!Head, Pub!Continue, PubProofs!Continue, Pub!PublishSucceeds,
       PubProofs!PublishSucceeds, Pub!PublishFails, PubProofs!PublishFails,
       Pub!AfterFailure, PubProofs!AfterFailure, Pub!StatusAfterFailure,
       PubProofs!StatusAfterFailure, Pub!MarkSent, PubProofs!MarkSent,
       Pub!MarkFails, PubProofs!MarkFails, Pub!Stop, PubProofs!Stop, Pub!Exit,
       PubProofs!Exit, Pub!Crash, PubProofs!Crash, Pub!Restart,
       PubProofs!Restart, Pub!kSubset, PubProofs!kSubset,
       Pub!Cardinality, PubProofs!Cardinality
<1>3. ASSUME NEW r \in Requests, NEW t \in Nat
      PROVE  Pub!Insert(r, t) <=> PubProofs!Insert(r, t)
  BY DEF Pub!Insert, PubProofs!Insert, Pub!publisherVars, PubProofs!publisherVars
<1>4. QED
  BY <1>1, <1>2, <1>3

LEMMA RepositoryInvariant == RepoProofs!Spec => []RepoProofs!IInv
  BY RepoProofs!InductiveInvariant,
     MaxStockAssumption, CommandsAssumption, SeedAssumption, ClocksAssumption
     DEF Row, RepoProofs!Row, CreateProductCommand, RepoProofs!CreateProductCommand,
         UpdateProductCommand, RepoProofs!UpdateProductCommand,
         UpdateStockCommand, RepoProofs!UpdateStockCommand

LEMMA PublisherInvariant ==
  /\ PubProofs!Init => PubProofs!IInv
  /\ PubProofs!IInv /\ [PubProofs!Next]_(PubProofs!vars) => PubProofs!IInv'
  BY PubProofs!InitIInv, PubProofs!StepIInv, PublishersAssumption
     DEF IsFiniteSet, PubProofs!IsFiniteSet

----------------------------------------------------------------------------
(* The composition implements the repository.                              *)

LEMMA RepositorySteps == [Next]_vars => [RepoProofs!Next]_(RepoProofs!vars)
<1> SUFFICES ASSUME [Next]_vars PROVE [RepoProofs!Next]_(RepoProofs!vars)
  OBVIOUS
<1>1. ASSUME NEW r \in Requests, Repo!Uncommitted(r) \/ Repo!Commit(r)
      PROVE  RepoProofs!Next
  BY <1>1, SameRepository DEF RepoProofs!Next
<1>2. CASE UNCHANGED repositoryVars
  BY <1>2 DEF repositoryVars, RepoProofs!vars, RepoProofs!txVars
<1>3. QED
  BY <1>1, <1>2 DEF Next, CommitChange, Publishing, Settled, vars

LEMMA ImplementsRepository == Spec => RepoProofs!Spec
<1>1. Init => RepoProofs!Init
  BY SameRepository DEF Init, Repo!Init, RepoProofs!Init, Repo!NoCommand, RepoProofs!NoCommand
<1>2. QED
  BY <1>1, RepositorySteps, PTL DEF Spec, RepoProofs!Spec

LEMMA RepositoryHolds == Spec => []RepoProofs!IInv
  BY ImplementsRepository, RepositoryInvariant, PTL

\* What a step does to the tables and the clock.
LEMMA StepKinds ==
  ASSUME RepoProofs!IInv, [Next]_vars
  PROVE  \/ \E r \in Requests :
              /\ RepoProofs!Commit(r) /\ PubProofs!Insert(r, begun[r])
              /\ pc' = [pc EXCEPT ![r] = "done"] /\ UNCHANGED <<begun, now>>
         \/ \E p \in Publishers : PubProofs!PublisherStep(p) /\ UNCHANGED repositoryVars
         \/ /\ UNCHANGED <<table, events, publisherVars>>
            /\ \/ \E r \in Requests :
                    /\ pc[r] = "idle"
                    /\ pc' = [pc EXCEPT ![r] = "begun"]
                    /\ begun' = [begun EXCEPT ![r] = now]
                    /\ now' \in {now, now + 1}
               \/ \E r \in Requests, to \in {"written", "staged", "done"} :
                    /\ pc[r] # "idle"
                    /\ pc' = [pc EXCEPT ![r] = to]
                    /\ begun' = begun
                    /\ now' \in {now, now + 1}
               \/ UNCHANGED <<pc, begun, now>>
<1>1. ASSUME NEW r \in Requests, CommitChange(r)
      PROVE  /\ RepoProofs!Commit(r) /\ PubProofs!Insert(r, begun[r])
             /\ pc' = [pc EXCEPT ![r] = "done"] /\ UNCHANGED <<begun, now>>
  <2>1. begun[r] \in Nat
    BY DEF RepoProofs!IInv, RepoProofs!TypeOK
  <2>2. QED
    BY <1>1, <2>1, SameRepository, SamePublisher
       DEF CommitChange, RepoProofs!Commit, RepoProofs!Return
<1>2. ASSUME NEW p \in Publishers, Publishing(p)
      PROVE  PubProofs!PublisherStep(p) /\ UNCHANGED repositoryVars
  BY <1>2, SamePublisher DEF Publishing
<1>3. ASSUME NEW r \in Requests, Repo!Uncommitted(r)
      PROVE  /\ UNCHANGED <<table, events>>
             /\ \/ /\ pc[r] = "idle"
                   /\ pc' = [pc EXCEPT ![r] = "begun"]
                   /\ begun' = [begun EXCEPT ![r] = now]
                   /\ now' \in {now, now + 1}
                \/ \E to \in {"written", "staged", "done"} :
                     /\ pc[r] # "idle"
                     /\ pc' = [pc EXCEPT ![r] = to]
                     /\ begun' = begun
                     /\ now' \in {now, now + 1}
  BY <1>3 DEF Repo!Uncommitted, Repo!BeginTx, Repo!Statement, Repo!Abort, Repo!Return, Repo!Wrote,
              Repo!InsertProduct, Repo!RejectDuplicateSku, Repo!PatchProduct, Repo!AddStock,
              Repo!RejectStock, Repo!RejectMissing, Repo!InsertOutboxEvent
<1>4. CASE Settled \/ UNCHANGED vars
  BY <1>4 DEF Settled, vars, repositoryVars
<1>5. QED
  BY <1>1, <1>2, <1>3, <1>4 DEF Next

----------------------------------------------------------------------------
(* How the tables of the two components hang together.                     *)

\* A request is the id of the event it committed, begun is its created_at.
Coupled ==
  /\ \A r \in Requests : status[r] # "none" <=> \E e \in events : e.id = r
  /\ \A e, f \in events : e.id = f.id => e = f
  /\ \A e \in events : e.created = begun[e.id]

\* Products are never deleted.
Kept == \A p \in Products : Seed[p] # NoRow => table[p] # NoRow

\* What a publisher holds or has published was committed.
Known ==
  \A r \in Requests :
    r \in delivered \/ (\E p \in Publishers : r \in batch[p] \/ r = current[p]) =>
      status[r] # "none"

Joint == Coupled /\ Kept /\ Known /\ PubProofs!IInv

LEMMA CommittedEvent ==
  ASSUME RepoProofs!IInv, NEW r \in Requests, RepoProofs!Commit(r)
  PROVE  \E e : /\ events' = events \cup {e}
                /\ e.id = r /\ e.created = begun[r] /\ e.key = cmd[r].product
                /\ e.image = image[r]
                /\ \A f \in events : f.id # r
<1>1. \A f \in events : pc[f.id] = "done"
  BY DEF RepoProofs!IInv, RepoProofs!Recorded
<1>2. pc[r] = "staged" /\ events' = events \cup {RepoProofs!EventOf(r)}
  BY DEF RepoProofs!Commit, RepoProofs!CommittedEvents
<1> DEFINE e == RepoProofs!EventOf(r)
<1>3. /\ e.id = r /\ e.created = begun[r] /\ e.key = cmd[r].product /\ e.image = image[r]
  BY DEF RepoProofs!EventOf
<1>4. \A f \in events : f.id # r
  BY <1>1, <1>2
<1> HIDE DEF e
<1>5. events' = events \cup {e}
  BY <1>2 DEF e
<1>6. QED
  BY <1>3, <1>4, <1>5

\* The row a commit installs is newer than the events of its product.
LEMMA CommittedRow ==
  ASSUME RepoProofs!IInv, NEW r \in Requests, RepoProofs!Commit(r)
  PROVE  /\ image[r] \in RepoProofs!Row
         /\ table' = [table EXCEPT ![cmd[r].product] = image[r]]
         /\ \A e \in events : e.key = cmd[r].product => e.image.ver < image[r].ver
<1>1. /\ image[r] \in RepoProofs!Row
      /\ table' = [table EXCEPT ![cmd[r].product] = image[r]]
      /\ cmd[r].op = "create" => table[cmd[r].product] = NoRow
      /\ cmd[r].op # "create" => /\ table[cmd[r].product] \in RepoProofs!Row
                                /\ image[r].ver = table[cmd[r].product].ver + 1
  BY RepoProofs!CommitFacts,
     MaxStockAssumption, CommandsAssumption, SeedAssumption, ClocksAssumption
     DEF Row, RepoProofs!Row, CreateProductCommand, RepoProofs!CreateProductCommand,
         UpdateProductCommand, RepoProofs!UpdateProductCommand,
         UpdateStockCommand, RepoProofs!UpdateStockCommand
<1>2. \A e \in events : table[e.key] # NoRow /\ e.image.ver \in 1..table[e.key].ver
  BY DEF RepoProofs!IInv, RepoProofs!EventPerChange
<1>3. CASE cmd[r].op = "create"
  BY <1>1, <1>2, <1>3
<1>4. CASE cmd[r].op # "create"
  BY <1>1, <1>2, <1>4 DEF RepoProofs!Row
<1>5. QED
  BY <1>1, <1>3, <1>4

LEMMA InitJoint == Init => Joint
<1> SUFFICES ASSUME Init PROVE Joint
  OBVIOUS
<1>1. Coupled
  BY DEF Init, Repo!Init, Pub!Init, Coupled
<1>2. Kept
  BY DEF Init, Repo!Init, Kept
<1>3. Known
  BY PublishersAssumption DEF Init, Pub!Init, Known
<1>4. PubProofs!IInv
  BY SamePublisher, PublisherInvariant DEF Init
<1>5. QED
  BY <1>1, <1>2, <1>3, <1>4 DEF Joint

\* created_at is decided once and for all when its transaction commits.
LEMMA PublisherStep ==
  ASSUME RepoProofs!IInv, Joint, [Next]_vars
  PROVE  [PubProofs!Next]_(PubProofs!vars)
<1>1. ASSUME NEW r \in Requests, PubProofs!Insert(r, begun[r])
      PROVE  PubProofs!Next
  <2>1. begun[r] \in Nat
    BY DEF RepoProofs!IInv, RepoProofs!TypeOK
  <2>2. QED
    BY <1>1, <2>1 DEF PubProofs!Next
<1>2. ASSUME NEW p \in Publishers, PubProofs!PublisherStep(p) PROVE PubProofs!Next
  BY <1>2 DEF PubProofs!Next
<1>3. ASSUME UNCHANGED publisherVars,
             \A q \in Requests : status[q] # "none" => begun'[q] = begun[q]
      PROVE  UNCHANGED PubProofs!vars
  BY <1>3 DEF publisherVars, PubProofs!vars, PubProofs!outboxVars, PubProofs!publisherVars,
              CreatedAt
<1>4. \A r \in Requests : status[r] # "none" => pc[r] = "done"
  BY DEF Joint, Coupled, RepoProofs!IInv, RepoProofs!Recorded
<1>5. begun \in [Requests -> Nat]
  BY DEF RepoProofs!IInv, RepoProofs!TypeOK
<1>6. ASSUME NEW r \in Requests, pc[r] = "idle", begun' = [begun EXCEPT ![r] = now]
      PROVE  \A q \in Requests : status[q] # "none" => begun'[q] = begun[q]
  BY <1>4, <1>5, <1>6
<1>7. QED
  BY <1>1, <1>2, <1>3, <1>6, StepKinds

\* No publisher makes an event appear or disappear.
LEMMA HandsStep ==
  ASSUME Joint, NEW p \in Publishers, PubProofs!PublisherStep(p)
  PROVE  Known' /\ \A r \in Requests : status'[r] # "none" <=> status[r] # "none"
<1> USE DEF PubProofs!Continue, Known
<1>1. /\ Known /\ PublishersAssumption
      /\ status \in [Requests -> {"none", "pending", "sent"}]
      /\ batch \in [Publishers -> SUBSET Requests]
      /\ current \in [Publishers -> Requests \cup {NoEvent}]
  BY PublishersAssumption DEF PublishersAssumption, Joint, PubProofs!IInv, PubProofs!TypeOK
<1>2. CASE PubProofs!FetchPending(p)
  <2>1. PICK B \in PubProofs!OldestOf(BatchSize, PubProofs!Pending) :
          batch' = [batch EXCEPT ![p] = B]
    BY <1>2 DEF PubProofs!FetchPending
  <2>2. B \subseteq PubProofs!Pending
    BY <2>1 DEF PubProofs!OldestOf, PubProofs!kSubset
  <2>3. \A e \in B : status[e] = "pending"
    BY <2>2 DEF PubProofs!Pending
  <2>4. UNCHANGED <<status, delivered, current>>
    BY <1>2 DEF PubProofs!FetchPending
  <2>5. QED
    BY <1>1, <2>1, <2>3, <2>4
<1>3. ASSUME NEW e \in Requests, PubProofs!PublishSucceeds(p, e)
      PROVE  Known' /\ UNCHANGED status
  BY <1>1, <1>3 DEF PubProofs!PublishSucceeds, PubProofs!Head
<1>4. ASSUME NEW e \in Requests, PubProofs!PublishFails(p, e)
      PROVE  Known' /\ UNCHANGED status
  BY <1>1, <1>4 DEF PubProofs!PublishFails, PubProofs!Head, PubProofs!AfterFailure,
                    PubProofs!StatusAfterFailure
<1>5. ASSUME NEW e \in Requests, PubProofs!MarkSent(p, e)
      PROVE  /\ Known'
             /\ \A r \in Requests : status'[r] # "none" <=> status[r] # "none"
  <2>1. status[e] # "none"
    BY <1>1, <1>5 DEF PubProofs!MarkSent
  <2>2. QED
    BY <1>1, <1>5, <2>1 DEF PubProofs!MarkSent
<1>6. CASE PubProofs!MarkFails(p)
  BY <1>1, <1>6 DEF PubProofs!MarkFails
<1>7. CASE PubProofs!Exit(p) \/ PubProofs!Stop(p) \/ PubProofs!Crash(p) \/ PubProofs!Restart(p)
  BY <1>1, <1>7 DEF PubProofs!Exit, PubProofs!Stop, PubProofs!Crash, PubProofs!Restart
<1>8. QED
  BY <1>2, <1>3, <1>4, <1>5, <1>6, <1>7
     DEF PubProofs!PublisherStep, PubProofs!Work, PubProofs!PublishOne, PubProofs!MarkOne

LEMMA JointStep ==
  ASSUME RepoProofs!IInv, Joint, [Next]_vars
  PROVE  Joint'
<1>1. /\ Coupled /\ Kept /\ Known /\ PubProofs!IInv
      /\ status \in [Requests -> {"none", "pending", "sent"}]
      /\ begun \in [Requests -> Nat] /\ now \in Nat
      /\ pc \in [Requests -> RepoProofs!Phases]
      /\ table \in [Products -> RepoProofs!Row \cup {NoRow}]
      /\ \A e \in events : e.id \in Requests /\ pc[e.id] = "done"
  BY DEF Joint, PubProofs!IInv, PubProofs!TypeOK, RepoProofs!IInv, RepoProofs!TypeOK,
         RepoProofs!Recorded, RepoProofs!Event
<1>2. PubProofs!IInv'
  BY <1>1, PublisherStep, PublisherInvariant
<1>3. ASSUME NEW r \in Requests, RepoProofs!Commit(r), PubProofs!Insert(r, begun[r]),
             pc' = [pc EXCEPT ![r] = "done"], UNCHANGED <<begun, now>>
      PROVE  Coupled' /\ Kept' /\ Known'
  <2>1. pc[r] = "staged" /\ status[r] = "none" /\ status' = [status EXCEPT ![r] = "pending"]
    BY <1>3 DEF RepoProofs!Commit, PubProofs!Insert
  <2>2. UNCHANGED <<delivered, batch, current>>
    BY <1>3 DEF PubProofs!Insert, PubProofs!publisherVars
  <2>3. Coupled'
    <3>1. PICK e : /\ events' = events \cup {e} /\ e.id = r /\ e.created = begun[r]
                   /\ \A f \in events : f.id # r
      BY <1>3, CommittedEvent
    <3>2. QED
      BY <1>1, <1>3, <2>1, <3>1 DEF Coupled
  <2>4. Kept'
    <3>1. image[r] \in RepoProofs!Row /\ table' = [table EXCEPT ![cmd[r].product] = image[r]]
      BY <1>3, CommittedRow
    <3>2. NoRow \notin RepoProofs!Row
      BY SeedAssumption DEF Row, RepoProofs!Row
    <3>3. QED
      BY <1>1, <3>1, <3>2 DEF Kept
  <2>5. Known'
    BY <1>1, <2>1, <2>2 DEF Known
  <2>6. QED
    BY <2>3, <2>4, <2>5
<1>4. ASSUME NEW p \in Publishers, PubProofs!PublisherStep(p), UNCHANGED repositoryVars
      PROVE  Coupled' /\ Kept' /\ Known'
  BY <1>1, <1>4, HandsStep DEF Coupled, Kept, repositoryVars
<1>5. ASSUME UNCHANGED <<table, events, publisherVars>>
      PROVE  Kept' /\ Known'
  BY <1>1, <1>5 DEF Kept, Known, publisherVars
<1>6. ASSUME UNCHANGED <<table, events, publisherVars>>, NEW r \in Requests,
             pc[r] = "idle", pc' = [pc EXCEPT ![r] = "begun"],
             begun' = [begun EXCEPT ![r] = now]
      PROVE  Coupled'
  BY <1>1, <1>6 DEF Coupled, publisherVars
<1>7. ASSUME UNCHANGED <<table, events, publisherVars>>,
             NEW r \in Requests, NEW to \in {"written", "staged", "done"},
             pc[r] # "idle", pc' = [pc EXCEPT ![r] = to], begun' = begun, now' \in {now, now + 1}
      PROVE  Coupled'
  BY <1>1, <1>7 DEF Coupled, publisherVars
<1>8. ASSUME UNCHANGED <<table, events, publisherVars>>, UNCHANGED <<pc, begun, now>>
      PROVE  Coupled'
  BY <1>1, <1>8 DEF Coupled, publisherVars
<1>9. QED
  BY <1>2, <1>3, <1>4, <1>5, <1>6, <1>7, <1>8, StepKinds DEF Joint

----------------------------------------------------------------------------
(* The order of first publication.                                         *)

\* An event in a batch has every earlier one of its product behind it, beside
\* it, or an excuse.
BatchOrder ==
  \A p \in Publishers : \A e, f \in events :
    Before(e, f) /\ f.id \in batch[p] =>
      \/ e.id \in delivered \cup failed \cup batch[p]
      \/ f.created <= e.created

Order == BatchOrder /\ OvertakenForAReason

\* CreatedAt is the column created_at of the events.
LEMMA CreatedFacts ==
  ASSUME RepoProofs!IInv, Joint
  PROVE  \A e \in events : /\ e.id \in Requests /\ e.created \in Nat
                           /\ status[e.id] # "none" /\ CreatedAt[e.id] = e.created
<1>1. \A e \in events : e.id \in Requests /\ pc[e.id] = "done" /\ e.image.ver \in Nat
  BY DEF RepoProofs!IInv, RepoProofs!TypeOK, RepoProofs!Event, RepoProofs!Row,
         RepoProofs!Recorded
<1>2. /\ begun \in [Requests -> Nat]
      /\ \A e \in events : status[e.id] # "none" /\ e.created = begun[e.id]
      /\ \A e, f \in events : e.id = f.id => e = f
  BY <1>1 DEF Joint, Coupled, RepoProofs!IInv, RepoProofs!TypeOK
<1>3. \A e \in events : CreatedAt[e.id] = e.created
  BY <1>1, <1>2 DEF CreatedAt
<1>4. QED
  BY <1>1, <1>2, <1>3

\* A commit adds the newest event of its product, which nobody holds yet.
LEMMA CommitOrder ==
  ASSUME RepoProofs!IInv, Joint, Order, NEW r \in Requests,
         RepoProofs!Commit(r), PubProofs!Insert(r, begun[r])
  PROVE  Order'
<1>1. PICK g : /\ events' = events \cup {g} /\ g.id = r /\ g.key = cmd[r].product
               /\ g.image = image[r]
  BY CommittedEvent
<1>2. \A e \in events : e.key = g.key => e.image.ver < g.image.ver /\ e.image.ver \in Nat
  BY <1>1, CommittedRow DEF RepoProofs!IInv, RepoProofs!TypeOK, RepoProofs!Event, RepoProofs!Row
<1>3. g.image.ver \in Nat
  BY <1>1, CommittedRow DEF RepoProofs!Row
<1>4. \A f \in events' : ~Before(g, f)
  BY <1>1, <1>2, <1>3 DEF Before
<1>5. UNCHANGED <<delivered, failed, batch>> /\ status[r] = "none"
  BY DEF PubProofs!Insert, PubProofs!publisherVars
<1>6. g.id \notin delivered /\ \A p \in Publishers : g.id \notin batch[p]
  BY <1>1, <1>5 DEF Joint, Known
<1>7. BatchOrder'
  BY <1>1, <1>4, <1>5, <1>6 DEF Order, BatchOrder, Before
<1>8. OvertakenForAReason'
  BY <1>1, <1>4, <1>5, <1>6 DEF Order, OvertakenForAReason, Before
<1>9. QED
  BY <1>7, <1>8 DEF Order

\* f is the oldest of its batch and is appended to the topic.
LEMMA HeadOrder ==
  ASSUME RepoProofs!IInv, Joint, Order, NEW p \in Publishers,
         NEW e \in events, NEW f \in events, Before(e, f), PubProofs!Head(p, f.id)
  PROVE  e.id \in delivered \cup failed \/ f.created <= e.created
<1>1. \/ e.id \in delivered \cup failed \cup batch[p]
      \/ f.created <= e.created
  BY DEF Order, BatchOrder, PubProofs!Head
<1>2. ASSUME e.id \in batch[p] PROVE f.created <= e.created
  <2>1. CreatedAt[f.id] <= CreatedAt[e.id]
    BY <1>2 DEF PubProofs!Head
  <2>2. QED
    BY <2>1, CreatedFacts
<1>3. QED
  BY <1>1, <1>2

LEMMA PublisherOrder ==
  ASSUME RepoProofs!IInv, Joint, Order, NEW p \in Publishers,
         PubProofs!PublisherStep(p), UNCHANGED repositoryVars
  PROVE  Order'
<1>1. /\ batch \in [Publishers -> SUBSET Requests] /\ events' = events
      /\ PubProofs!SentWasDelivered
      /\ status \in [Requests -> {"none", "pending", "sent"}]
  BY DEF Joint, PubProofs!IInv, PubProofs!TypeOK, repositoryVars
<1>2. CASE PubProofs!FetchPending(p)
  <2>1. PICK B \in PubProofs!OldestOf(BatchSize, PubProofs!Pending) :
          batch' = [batch EXCEPT ![p] = B]
    BY <1>2 DEF PubProofs!FetchPending
  <2>2. UNCHANGED <<delivered, failed>>
    BY <1>2 DEF PubProofs!FetchPending
  <2>3. ASSUME NEW e \in events, NEW f \in events, Before(e, f), f.id \in B
        PROVE  e.id \in delivered \cup failed \cup B \/ f.created <= e.created
    <3>1. CASE status[e.id] = "sent"
      BY <1>1, <3>1, CreatedFacts DEF PubProofs!SentWasDelivered
    <3>2. CASE status[e.id] = "pending" /\ e.id \notin B
      <4>1. e.id \in PubProofs!Pending \ B
        BY <3>2, CreatedFacts DEF PubProofs!Pending
      <4>2. CreatedAt[f.id] <= CreatedAt[e.id]
        BY <2>1, <2>3, <4>1 DEF PubProofs!OldestOf
      <4>3. QED
        BY <2>3, <4>2, CreatedFacts
    <3>3. QED
      BY <1>1, <3>1, <3>2, CreatedFacts
  <2>4. BatchOrder'
    BY <1>1, <2>1, <2>2, <2>3 DEF Order, BatchOrder, Before
  <2>5. OvertakenForAReason'
    BY <1>1, <2>2 DEF Order, OvertakenForAReason, Before
  <2>6. QED
    BY <2>4, <2>5 DEF Order
<1>3. ASSUME NEW x \in Requests, PubProofs!Head(p, x), batch' = [batch EXCEPT ![p] = @ \ {x}],
             delivered' \in {delivered, delivered \cup {x}},
             failed' \in {failed, failed \cup {x}},
             x \in delivered' \cup failed'
      PROVE  Order'
  <2>1. BatchOrder'
    BY <1>1, <1>3 DEF Order, BatchOrder, Before
  <2>2. ASSUME NEW e \in events, NEW f \in events, Before(e, f),
               f.id \in delivered', e.id \notin delivered'
        PROVE  f.created <= e.created \/ e.id \in failed'
    <3>1. CASE f.id \in delivered
      BY <1>3, <2>2, <3>1 DEF Order, OvertakenForAReason
    <3>2. CASE f.id = x
      BY <1>3, <2>2, <3>2, HeadOrder
    <3>3. QED
      BY <1>3, <2>2, <3>1, <3>2
  <2>3. OvertakenForAReason'
    BY <1>1, <2>2 DEF OvertakenForAReason, Before
  <2>4. QED
    BY <2>1, <2>3 DEF Order
<1>4. ASSUME NEW x \in Requests, PubProofs!PublishSucceeds(p, x) PROVE Order'
  BY <1>3, <1>4 DEF PubProofs!PublishSucceeds
<1>5. ASSUME NEW x \in Requests, PubProofs!PublishFails(p, x) PROVE Order'
  BY <1>3, <1>5 DEF PubProofs!PublishFails, PubProofs!Continue, PubProofs!AfterFailure
<1>6. ASSUME UNCHANGED <<delivered, failed>>,
             \E rest \in {batch[p], {}} : batch' = [batch EXCEPT ![p] = rest]
      PROVE  Order'
  BY <1>1, <1>6 DEF Order, BatchOrder, OvertakenForAReason, Before
<1>7. CASE \/ PubProofs!MarkOne(p) \/ PubProofs!Crash(p)
           \/ PubProofs!Exit(p) \/ PubProofs!Stop(p) \/ PubProofs!Restart(p)
  BY <1>1, <1>6, <1>7 DEF PubProofs!MarkOne, PubProofs!MarkFails, PubProofs!MarkSent,
     PubProofs!Continue, PubProofs!Crash, PubProofs!Exit, PubProofs!Stop, PubProofs!Restart
<1>8. QED
  BY <1>2, <1>4, <1>5, <1>7 DEF PubProofs!PublisherStep, PubProofs!Work, PubProofs!PublishOne

LEMMA OrderStep ==
  ASSUME RepoProofs!IInv, Joint, Order, [Next]_vars
  PROVE  Order'
<1>1. ASSUME UNCHANGED <<table, events, publisherVars>> PROVE Order'
  BY <1>1 DEF Order, BatchOrder, OvertakenForAReason, Before, publisherVars
<1>2. QED
  BY <1>1, CommitOrder, PublisherOrder, StepKinds

----------------------------------------------------------------------------
LEMMA InductiveInvariant == Spec => [](RepoProofs!IInv /\ Joint /\ Order)
<1>1. Init => Joint
  BY InitJoint
<1>2. Init => Order
  BY DEF Init, Repo!Init, Order, BatchOrder, OvertakenForAReason
<1>3. RepoProofs!IInv /\ Joint /\ Order /\ [Next]_vars => Joint' /\ Order'
  BY JointStep, OrderStep
<1>4. QED
  BY RepositoryHolds, <1>1, <1>2, <1>3, PTL DEF Spec

\* publishBatch, ORDER BY created_at, and the loop that goes on after a failed
\* publish: there is no third way for an event to overtake an earlier one.
THEOREM OvertakingIsExplained == Spec => []OvertakenForAReason
<1>1. Order => OvertakenForAReason
  BY DEF Order
<1>2. QED
  BY <1>1, InductiveInvariant, PTL

\* The newest event of a changed product is in the outbox, and is its row.
LEMMA NewestEvent ==
  ASSUME RepoProofs!IInv, Joint, NEW p \in Products, table[p] # Seed[p]
  PROVE  /\ table[p] \in RepoProofs!Row
         /\ \E e \in events : e.key = p /\ e.image = table[p]
<1>1. table[p] \in RepoProofs!Row \cup {NoRow}
  BY DEF RepoProofs!IInv, RepoProofs!TypeOK
<1>2. table[p] # NoRow
  BY DEF Joint, Kept
<1>3. PICK newest \in RepoProofs!EarlierImages(p) : newest = table[p]
  BY <1>2 DEF RepoProofs!IInv, RepoProofs!SerialHistory
<1>4. \E e \in events : e.key = p /\ e.image = table[p]
  BY <1>3 DEF RepoProofs!EarlierImages
<1>5. QED
  BY <1>1, <1>2, <1>4

\* A consumer that keeps the latest by occured_at ends with the row, if no clock
\* of a later writer is ahead.
LEMMA ConvergesStep ==
  ASSUME RepoProofs!IInv, Joint
  PROVE  TopicConverges
<1> SUFFICES ASSUME NEW p \in Products, table[p] # Seed[p],
                    \A e \in events : e.key = p => status[e.id] = "sent"
             PROVE  \E e \in events :
                      /\ e.key = p /\ e.id \in delivered /\ e.image = table[p]
                      /\ \A f \in events : f.key = p /\ f.id \in delivered =>
                           \/ f.occurred <= e.occurred
                           \/ f.occurred - e.occurred < Skew[f.id] - Skew[e.id]
  BY DEF TopicConverges
<1>1. PICK e \in events : e.key = p /\ e.image = table[p]
  BY NewestEvent
<1>2. table[p] \in RepoProofs!Row
  BY NewestEvent
<1>3. \A f \in events : f.id \in Requests /\ f.occurred \in Nat /\ Skew[f.id] \in Nat
  BY ClocksAssumption DEF RepoProofs!IInv, RepoProofs!TypeOK, RepoProofs!Event
<1>4. e.id \in delivered
  BY <1>1, <1>3 DEF Joint, PubProofs!IInv, PubProofs!SentWasDelivered
<1>5. ASSUME NEW f \in events, f.key = p
      PROVE  \/ f.occurred <= e.occurred
             \/ f.occurred - e.occurred < Skew[f.id] - Skew[e.id]
  <2>1. f.image.ver \in 1..table[p].ver
    BY <1>5 DEF RepoProofs!IInv, RepoProofs!EventPerChange
  <2>2. CASE f.image.ver = e.image.ver
    <3>1. f = e
      BY <1>1, <1>5, <2>2 DEF RepoProofs!IInv, RepoProofs!EventPerChange
    <3>2. QED
      BY <1>3, <3>1
  <2>3. CASE f.image.ver < e.image.ver
    <3>1. RepoProofs!Instant(f) < RepoProofs!Instant(e)
      BY <1>1, <1>5, <2>3 DEF RepoProofs!IInv, RepoProofs!OccurredInOrder
    <3>2. f.occurred - Skew[f.id] < e.occurred - Skew[e.id]
      BY <3>1 DEF RepoProofs!Instant
    <3>3. QED
      BY <1>3, <3>2
  <2>4. e.image.ver \in Nat
    BY <1>1, <1>2 DEF RepoProofs!Row
  <2>5. QED
    BY <1>1, <2>1, <2>2, <2>3, <2>4
<1>6. QED
  BY <1>1, <1>4, <1>5

\* insertOutboxEvent stamps occured_at under the row lock, and only the publish
\* of an event marks it sent: whatever order, repetition and number of replicas
\* published them, the latest in the topic is the row.
THEOREM TopicIsRightInTheEnd == Spec => []TopicConverges
  BY ConvergesStep, InductiveInvariant, PTL

\* Each component keeps its promises in the composition.
THEOREM ImplementsComponents == Spec => RepoProofs!Spec /\ PubProofs!Spec
<1>1. Init => PubProofs!Init
  BY SamePublisher DEF Init
<1>2. RepoProofs!IInv /\ Joint /\ [Next]_vars => [PubProofs!Next]_(PubProofs!vars)
  BY PublisherStep
<1>3. QED
  BY ImplementsRepository, InductiveInvariant, <1>1, <1>2, PTL DEF Spec, PubProofs!Spec
----------------------------------------------------------------------------
(* The composition implements what its clients rely on.                    *)

\* The store of the contract is the one the repository implements.
LEMMA SameStore ==
  ASSUME NEW r \in Requests, NEW c \in Commands
  PROVE  RepoProofs!Store!Write(r, c) <=> Contract!Write(r, c)
<1> USE DEF Repo!Announcement, RepoProofs!Announcement
<1>1. /\ RepoProofs!Store!EventTypeOf(c) = Contract!EventTypeOf(c)
      /\ RepoProofs!Store!NewRow(r, c) = Contract!NewRow(r, c)
      /\ \A row : RepoProofs!Store!Rewritten(r, c, row) = Contract!Rewritten(r, c, row)
      /\ \A row : RepoProofs!Store!StockFits(c, row) <=> Contract!StockFits(c, row)
      /\ \A s : RepoProofs!Store!SkuInUse(s) <=> Contract!SkuInUse(s)
  BY DEF RepoProofs!Store!EventTypeOf, Contract!EventTypeOf, RepoProofs!Store!NewRow,
         Contract!NewRow, RepoProofs!Store!Rewritten, Contract!Rewritten,
         RepoProofs!Store!PatchedRow, Contract!PatchedRow, RepoProofs!Store!RestockedRow,
         Contract!RestockedRow, RepoProofs!Store!StockFits, Contract!StockFits,
         RepoProofs!Store!SkuInUse, Contract!SkuInUse
<1>2. \A answer : RepoProofs!Store!Answer(r, answer) <=> Contract!Answer(r, answer)
  BY DEF RepoProofs!Store!Answer, Contract!Answer
<1>3. \A answer : RepoProofs!Store!Refuse(r, answer) <=> Contract!Refuse(r, answer)
  BY <1>2 DEF RepoProofs!Store!Refuse, Contract!Refuse
<1>4. /\ RepoProofs!Store!Create(r, c) <=> Contract!Create(r, c)
      /\ RepoProofs!Store!Update(r, c) <=> Contract!Update(r, c)
  <2>1. RepoProofs!Store!Record(r, c, RepoProofs!Store!NewRow(r, c))
          <=> Contract!Record(r, c, Contract!NewRow(r, c))
    BY <1>1, <1>2 DEF RepoProofs!Store!Record, Contract!Record
  <2>2. RepoProofs!Store!Record(r, c, RepoProofs!Store!Rewritten(r, c, table[c.product]))
          <=> Contract!Record(r, c, Contract!Rewritten(r, c, table[c.product]))
    BY <1>1, <1>2 DEF RepoProofs!Store!Record, Contract!Record
  <2>3. RepoProofs!Store!Create(r, c) <=> Contract!Create(r, c)
    BY <1>1, <2>1 DEF RepoProofs!Store!Create, Contract!Create
  <2>4. RepoProofs!Store!Update(r, c) <=> Contract!Update(r, c)
    BY <1>1, <2>2 DEF RepoProofs!Store!Update, Contract!Update
  <2>5. QED
    BY <2>3, <2>4
<1>5. /\ RepoProofs!Store!RefuseSku(r, c) <=> Contract!RefuseSku(r, c)
      /\ RepoProofs!Store!RefuseMissing(r, c) <=> Contract!RefuseMissing(r, c)
      /\ RepoProofs!Store!RefuseStock(r, c) <=> Contract!RefuseStock(r, c)
      /\ RepoProofs!Store!Fail(r) <=> Contract!Fail(r)
  BY <1>1, <1>3
     DEF RepoProofs!Store!RefuseSku, Contract!RefuseSku, RepoProofs!Store!RefuseMissing,
         Contract!RefuseMissing, RepoProofs!Store!RefuseStock, Contract!RefuseStock,
         RepoProofs!Store!Fail, Contract!Fail
<1>6. QED
  BY <1>4, <1>5 DEF RepoProofs!Store!Write, Contract!Write

LEMMA StoreStep ==
  ASSUME RepoProofs!IInv, [Next]_vars
  PROVE  [Contract!Next]_(Contract!storeVars)
<1>1. [RepoProofs!Store!Next]_(RepoProofs!Store!storeVars)
  BY RepositorySteps, RepoProofs!StepRefines,
     MaxStockAssumption, CommandsAssumption, SeedAssumption, ClocksAssumption
     DEF Row, RepoProofs!Row, CreateProductCommand, RepoProofs!CreateProductCommand,
         UpdateProductCommand, RepoProofs!UpdateProductCommand,
         UpdateStockCommand, RepoProofs!UpdateStockCommand
<1>2. CASE RepoProofs!Store!Next
  BY <1>2, SameStore DEF RepoProofs!Store!Next, Contract!Next
<1>3. CASE UNCHANGED RepoProofs!Store!storeVars
  BY <1>3 DEF RepoProofs!Store!storeVars, Contract!storeVars, Repo!Announcement,
              RepoProofs!Announcement
<1>4. QED
  BY <1>1, <1>2, <1>3

\* An event that was committed has one announcement.
LEMMA AnnouncementOf ==
  ASSUME RepoProofs!IInv, Joint, NEW x \in Requests, status[x] # "none"
  PROVE  \E a \in {Repo!Announcement(e) : e \in events} :
           \A S : Announcements(S \cup {x}) = Announcements(S) \cup {a}
<1>1. PICK e \in events : e.id = x
  BY DEF Joint, Coupled
<1>2. \A f \in events : f.id = x => f = e
  BY <1>1 DEF Joint, Coupled
<1>3. ASSUME NEW S
      PROVE  Announcements(S \cup {x}) = Announcements(S) \cup {Repo!Announcement(e)}
  <2>1. {f \in events : f.id \in S \cup {x}} = {f \in events : f.id \in S} \cup {e}
    BY <1>1, <1>2
  <2>2. QED
    BY <2>1 DEF Announcements
<1>4. QED
  BY <1>1, <1>3

\* A commit adds an announcement, but none to the topic.
LEMMA CommitDelivers ==
  ASSUME RepoProofs!IInv, Joint, NEW r \in Requests,
         RepoProofs!Commit(r), PubProofs!Insert(r, begun[r])
  PROVE  /\ Announcements(delivered)' = Announcements(delivered)
         /\ Announcements({q \in Requests : status[q] = "sent"})'
              = Announcements({q \in Requests : status[q] = "sent"})
<1>1. PICK e : events' = events \cup {e} /\ e.id = r
  BY CommittedEvent
<1>2. /\ status[r] = "none" /\ delivered' = delivered
      /\ status' = [status EXCEPT ![r] = "pending"]
      /\ status \in [Requests -> {"none", "pending", "sent"}]
  BY DEF PubProofs!Insert, Joint, PubProofs!IInv, PubProofs!TypeOK
<1>3. r \notin delivered
  BY <1>2 DEF Joint, Known
<1>4. {q \in Requests : status'[q] = "sent"} = {q \in Requests : status[q] = "sent"}
  BY <1>2
<1>5. ASSUME NEW S, r \notin S
      PROVE  {f \in events' : f.id \in S} = {f \in events : f.id \in S}
  BY <1>1, <1>5
<1>6. {f \in events' : f.id \in delivered'} = {f \in events : f.id \in delivered}
  BY <1>2, <1>3, <1>5
<1>7. {f \in events' : f.id \in {q \in Requests : status'[q] = "sent"}}
        = {f \in events : f.id \in {q \in Requests : status[q] = "sent"}}
  BY <1>2, <1>4, <1>5
<1>8. QED
  BY <1>6, <1>7 DEF Announcements, Repo!Announcement

\* A step of a replica delivers one announcement, settles one that is in the
\* topic, or is invisible.
LEMMA PublisherDelivers ==
  ASSUME RepoProofs!IInv, Joint, UNCHANGED repositoryVars,
         NEW p \in Publishers, PubProofs!PublisherStep(p)
  PROVE  [Contract!AnnouncedNext]_(Contract!announcedVars)
<1> DEFINE sent == {r \in Requests : status[r] = "sent"}
<1>1. /\ UNCHANGED Contract!storeVars
      /\ \A S : Announcements(S)' = {Repo!Announcement(e) : e \in {f \in events : f.id \in S'}}
  BY DEF repositoryVars, Contract!storeVars, Announcements, Repo!Announcement
<1>2. /\ status \in [Requests -> {"none", "pending", "sent"}]
      /\ \A x \in Requests : x \in batch[p] \/ x = current[p] => status[x] # "none"
  BY DEF Joint, Known, PubProofs!IInv, PubProofs!TypeOK
<1>3. CASE UNCHANGED <<status, delivered>>
  <2>1. UNCHANGED Contract!announcedVars
    BY <1>3 DEF repositoryVars, Contract!announcedVars, Contract!storeVars, Announcements,
                Repo!Announcement
  <2>2. QED
    BY <2>1
<1>4. ASSUME NEW x \in Requests, x \in batch[p], delivered' = delivered \cup {x},
             UNCHANGED status
      PROVE  Contract!AnnouncedNext
  <2>1. PICK a \in {Repo!Announcement(e) : e \in events} :
          \A S : Announcements(S \cup {x}) = Announcements(S) \cup {a}
    BY <1>2, <1>4, AnnouncementOf
  <2>2. Announcements(delivered)' = Announcements(delivered \cup {x})
    BY <1>4 DEF repositoryVars, Announcements, Repo!Announcement
  <2>3. Announcements(delivered)' = Announcements(delivered) \cup {a}
    BY <2>1, <2>2
  <2>4. Announcements(sent)' = Announcements(sent)
    BY <1>4 DEF repositoryVars, Announcements, Repo!Announcement
  <2>5. Contract!Deliver(a)
    BY <1>1, <2>1, <2>3, <2>4 DEF Contract!Deliver
  <2>6. QED
    BY <2>1, <2>5 DEF Contract!AnnouncedNext
<1>5. ASSUME NEW x \in Requests, PubProofs!MarkSent(p, x)
      PROVE  Contract!AnnouncedNext
  <2>1. /\ x = current[p] /\ status' = [status EXCEPT ![x] = "sent"]
        /\ UNCHANGED delivered /\ x \in delivered
    BY <1>5 DEF PubProofs!MarkSent, Joint, PubProofs!IInv, PubProofs!Held
  <2>2. PICK a \in {Repo!Announcement(e) : e \in events} :
          \A S : Announcements(S \cup {x}) = Announcements(S) \cup {a}
    BY <1>2, <2>1, AnnouncementOf
  <2>3. delivered \cup {x} = delivered
    BY <2>1
  <2>4. a \in Announcements(delivered)
    BY <2>2, <2>3
  <2>5. {r \in Requests : status'[r] = "sent"} = sent \cup {x}
    BY <1>2, <2>1
  <2>6. Announcements(sent)' = Announcements(sent \cup {x})
    BY <2>5 DEF repositoryVars, Announcements, Repo!Announcement
  <2>7. Announcements(sent)' = Announcements(sent) \cup {a}
    BY <2>2, <2>6
  <2>8. Announcements(delivered)' = Announcements(delivered)
    BY <2>1 DEF repositoryVars, Announcements, Repo!Announcement
  <2>9. Contract!Settle(a)
    BY <1>1, <2>4, <2>7, <2>8 DEF Contract!Settle
  <2>10. QED
    BY <2>2, <2>9 DEF Contract!AnnouncedNext
<1>6. ASSUME NEW x \in Requests, PubProofs!PublishSucceeds(p, x) \/ PubProofs!PublishFails(p, x)
      PROVE  /\ x \in batch[p] /\ UNCHANGED status
             /\ UNCHANGED delivered \/ delivered' = delivered \cup {x}
  BY <1>6 DEF PubProofs!PublishSucceeds, PubProofs!PublishFails, PubProofs!Head,
              PubProofs!StatusAfterFailure
<1>7. CASE PubProofs!FetchPending(p) \/ PubProofs!MarkFails(p) \/ PubProofs!Exit(p)
             \/ PubProofs!Stop(p) \/ PubProofs!Crash(p) \/ PubProofs!Restart(p)
  BY <1>3, <1>7 DEF PubProofs!FetchPending, PubProofs!MarkFails, PubProofs!Exit, PubProofs!Stop,
                    PubProofs!Crash, PubProofs!Restart
<1>8. QED
  BY <1>3, <1>4, <1>5, <1>6, <1>7
     DEF PubProofs!PublisherStep, PubProofs!Work, PubProofs!PublishOne, PubProofs!MarkOne

LEMMA ContractStep ==
  ASSUME RepoProofs!IInv, Joint, [Next]_vars
  PROVE  [Contract!AnnouncedNext]_(Contract!announcedVars)
<1> DEFINE sent == {r \in Requests : status[r] = "sent"}
<1>1. ASSUME Announcements(delivered)' = Announcements(delivered),
             Announcements(sent)' = Announcements(sent)
      PROVE  [Contract!AnnouncedNext]_(Contract!announcedVars)
  BY <1>1, StoreStep DEF Contract!AnnouncedNext, Contract!announcedVars
<1>2. ASSUME UNCHANGED <<events, publisherVars>>
      PROVE  /\ Announcements(delivered)' = Announcements(delivered)
             /\ Announcements(sent)' = Announcements(sent)
  BY <1>2 DEF publisherVars, Announcements, Repo!Announcement
<1>3. QED
  BY <1>1, <1>2, CommitDelivers, PublisherDelivers, StepKinds

\* From the admin request to the topic: whatever handlers and publishers of any
\* number of replicas do at the same time, crashes and failures included, each
\* write is answered and announced as one atomic change, the topic holds only
\* announcements of committed changes, and what is marked sent is in it for good.
THEOREM ContractIsKept == Spec => ImplementsContract
<1>1. Init => Contract!AnnouncedInit
  BY DEF Init, Repo!Init, Pub!Init, Contract!AnnouncedInit, Contract!Init, Announcements,
         Repo!Announcement
<1>2. RepoProofs!IInv /\ Joint /\ [Next]_vars
        => [Contract!AnnouncedNext]_(Contract!announcedVars)
  BY ContractStep
<1>3. QED
  BY <1>1, <1>2, InductiveInvariant, PTL DEF Spec, ImplementsContract, Contract!AnnouncedSpec

=============================================================================
