------------------------ MODULE OutboxPublisher_proofs ------------------------
(***************************************************************************)
(* Theorems of OutboxPublisher, for any number of events, replicas, outages *)
(* and undeliverable events, and every batch size.                         *)
(***************************************************************************)
EXTENDS OutboxPublisher, FiniteSetTheorems, TLAPS

\* What a publisher holds in memory: a batch while it publishes or marks, and
\* while it marks one event, taken from the batch and already in the topic.
Held(p) ==
  /\ phase[p] \in {"waiting", "down"} => batch[p] = {}
  /\ phase[p] # "marking" => current[p] = NoEvent
  /\ phase[p] = "marking" => current[p] \in delivered \ batch[p]

\* What one replica holds is still pending: nobody else can have marked it.
OnlyPending ==
  \A p \in Publishers, e \in Events :
    e \in batch[p] \/ e = current[p] => status[e] = "pending"

IInv ==
  /\ TypeOK
  /\ \A p \in Publishers : Held(p)
  /\ SentWasDelivered
  /\ SentIsNotRepublished

\* A batch never outgrows LIMIT, and shrinks from there on.
LEMMA BatchBounds ==
  /\ \A S \in SUBSET Events : \A B \in OldestOf(BatchSize, S) :
       B \in SUBSET S /\ Cardinality(B) <= BatchSize
  /\ \A B \in SUBSET Events, e \in Events :
       Cardinality(B) <= BatchSize => Cardinality(B \ {e}) <= BatchSize
  /\ Cardinality({}) <= BatchSize
<1>1. ASSUME NEW S \in SUBSET Events, NEW B \in OldestOf(BatchSize, S)
      PROVE  B \in SUBSET S /\ Cardinality(B) <= BatchSize
  <2>1. Cardinality(S) \in Nat
    BY FinitenessAssumption, FS_Subset, FS_CardinalityType
  <2>2. QED
    BY <1>1, <2>1, BatchSizeAssumption DEF OldestOf, kSubset
<1>2. ASSUME NEW B \in SUBSET Events, NEW e \in Events, Cardinality(B) <= BatchSize
      PROVE  Cardinality(B \ {e}) <= BatchSize
  <2>1. IsFiniteSet(B) /\ Cardinality(B) \in Nat
    BY FinitenessAssumption, FS_Subset, FS_CardinalityType
  <2>2. Cardinality(B \ {e}) = IF e \in B THEN Cardinality(B) - 1 ELSE Cardinality(B)
    BY <2>1, FS_RemoveElement
  <2>3. QED
    BY <1>2, <2>1, <2>2, BatchSizeAssumption
<1>3. Cardinality({}) <= BatchSize
  BY FS_EmptySet, BatchSizeAssumption
<1>4. QED
  BY <1>1, <1>2, <1>3

LEMMA InitIInv == Init => IInv
<1>1. Init => TypeOK
  BY BatchBounds, OutagesAssumption DEF Init, TypeOK
<1>2. Init => SentWasDelivered /\ SentIsNotRepublished /\ \A p \in Publishers : Held(p)
  BY NoEventAssumption DEF Init, SentWasDelivered, SentIsNotRepublished, Held
<1>3. QED
  BY <1>1, <1>2 DEF IInv

LEMMA TypeStep == TypeOK /\ [Next]_vars => TypeOK'
<1> SUFFICES ASSUME TypeOK, [Next]_vars
             PROVE  TypeOK'
  OBVIOUS
<1> USE DEF TypeOK, outboxVars, publisherVars
<1>1. ASSUME NEW e \in Events, NEW t \in Times, Insert(e, t)
      PROVE  TypeOK'
  BY <1>1, TimesAssumption DEF Insert
<1>2. ASSUME NEW p \in Publishers, FetchPending(p)
      PROVE  TypeOK'
  <2>1. PICK B \in OldestOf(BatchSize, Pending) : batch' = [batch EXCEPT ![p] = B]
    BY <1>2 DEF FetchPending
  <2>2. Pending \in SUBSET Events
    BY DEF Pending
  <2>3. B \in SUBSET Events /\ Cardinality(B) <= BatchSize
    BY <2>1, <2>2, BatchBounds
  <2>4. QED
    BY <1>2, <2>1, <2>3 DEF FetchPending
<1>3. ASSUME NEW p \in Publishers, NEW e \in Events, PublishSucceeds(p, e)
      PROVE  TypeOK'
  BY <1>3, BatchBounds DEF PublishSucceeds
<1>4. ASSUME NEW p \in Publishers, NEW e \in Events, PublishFails(p, e)
      PROVE  TypeOK'
  BY <1>4, BatchBounds DEF PublishFails, StatusAfterFailure, AfterFailure, Continue
<1>5. ASSUME NEW p \in Publishers, NEW e \in Events, MarkSent(p, e)
      PROVE  TypeOK'
  BY <1>5 DEF MarkSent, Continue
<1>6. ASSUME NEW p \in Publishers, MarkFails(p)
      PROVE  TypeOK'
  BY <1>6 DEF MarkFails, Continue
<1>7. ASSUME NEW p \in Publishers, Stop(p) \/ Exit(p) \/ Restart(p)
      PROVE  TypeOK'
  <2>1. CASE Stop(p)
    BY <2>1, OutagesAssumption DEF Stop
  <2>2. CASE Exit(p)
    BY <2>2 DEF Exit
  <2>3. CASE Restart(p)
    BY <2>3 DEF Restart
  <2>4. QED
    BY <1>7, <2>1, <2>2, <2>3
<1>8. ASSUME NEW p \in Publishers, Crash(p)
      PROVE  TypeOK'
  BY <1>8, OutagesAssumption, BatchBounds DEF Crash
<1>9. CASE UNCHANGED vars \/ Idle
  BY <1>9 DEF vars, Idle
<1>10. QED
  BY <1>1, <1>2, <1>3, <1>4, <1>5, <1>6, <1>7, <1>8, <1>9
     DEF Next, PublisherStep, Work, PublishOne, MarkOne

LEMMA HeldStep ==
  ASSUME IInv, [Next]_vars
  PROVE  \A p \in Publishers : Held(p)'
<1> SUFFICES ASSUME NEW q \in Publishers
             PROVE  Held(q)'
  OBVIOUS
<1>1. TypeOK /\ \A p \in Publishers : Held(p)
  BY DEF IInv
<1> USE DEF outboxVars, publisherVars, Held
<1>2. ASSUME NEW e \in Events, NEW t \in Times, Insert(e, t)
      PROVE  Held(q)'
  BY <1>1, <1>2 DEF Insert
<1>3. ASSUME NEW p \in Publishers, FetchPending(p)
      PROVE  Held(q)'
  BY <1>1, <1>3 DEF TypeOK, FetchPending
<1>4. ASSUME NEW p \in Publishers, NEW e \in Events, PublishSucceeds(p, e)
      PROVE  Held(q)'
  BY <1>1, <1>4 DEF TypeOK, PublishSucceeds
<1>5. ASSUME NEW p \in Publishers, NEW e \in Events, PublishFails(p, e)
      PROVE  Held(q)'
  BY <1>1, <1>5 DEF TypeOK, PublishFails, Continue, AfterFailure
<1>6. ASSUME NEW p \in Publishers, NEW e \in Events, MarkSent(p, e)
      PROVE  Held(q)'
  BY <1>1, <1>6 DEF TypeOK, MarkSent, Continue
<1>7. ASSUME NEW p \in Publishers, MarkFails(p)
      PROVE  Held(q)'
  BY <1>1, <1>7 DEF TypeOK, MarkFails, Continue
<1>8. ASSUME NEW p \in Publishers, Stop(p) \/ Exit(p) \/ Crash(p) \/ Restart(p)
      PROVE  Held(q)'
  BY <1>1, <1>8 DEF TypeOK, Stop, Exit, Crash, Restart
<1>9. CASE UNCHANGED vars \/ Idle
  BY <1>1, <1>9 DEF vars, Idle
<1>10. QED
  BY <1>2, <1>3, <1>4, <1>5, <1>6, <1>7, <1>8, <1>9
     DEF Next, PublisherStep, Work, PublishOne, MarkOne

LEMMA DeliveredStep ==
  ASSUME IInv, [Next]_vars
  PROVE  SentWasDelivered'
<1>1. /\ TypeOK /\ SentWasDelivered
      /\ \A p \in Publishers : phase[p] = "marking" => current[p] \in delivered
  BY DEF IInv, Held
<1> USE DEF outboxVars, publisherVars, SentWasDelivered
<1>2. ASSUME NEW e \in Events, NEW t \in Times, Insert(e, t)
      PROVE  SentWasDelivered'
  BY <1>1, <1>2 DEF TypeOK, Insert
<1>3. ASSUME NEW p \in Publishers, NEW e \in Events,
             PublishSucceeds(p, e) \/ PublishFails(p, e)
      PROVE  SentWasDelivered'
  BY <1>1, <1>3 DEF PublishSucceeds, PublishFails, StatusAfterFailure
<1>4. ASSUME NEW p \in Publishers, NEW e \in Events, MarkSent(p, e)
      PROVE  SentWasDelivered'
  BY <1>1, <1>4 DEF TypeOK, MarkSent
<1>5. ASSUME NEW p \in Publishers,
             FetchPending(p) \/ MarkFails(p) \/ Stop(p) \/ Exit(p) \/ Crash(p) \/ Restart(p)
      PROVE  SentWasDelivered'
  BY <1>1, <1>5 DEF FetchPending, MarkFails, Stop, Exit, Crash, Restart
<1>6. CASE UNCHANGED vars \/ Idle
  BY <1>1, <1>6 DEF vars, Idle
<1>7. QED
  BY <1>2, <1>3, <1>4, <1>5, <1>6 DEF Next, PublisherStep, Work, PublishOne, MarkOne

LEMMA OnlyPendingStep ==
  ASSUME IInv, [Next]_vars
  PROVE  SentIsNotRepublished'
<1> SUFFICES ASSUME Cardinality(Publishers) = 1
             PROVE  OnlyPending'
  BY DEF SentIsNotRepublished, OnlyPending
<1>1. \A p, q \in Publishers : p = q
  BY FinitenessAssumption, FS_Singleton
<1>2. TypeOK /\ OnlyPending /\ \A p \in Publishers : Held(p)
  BY DEF IInv, SentIsNotRepublished, OnlyPending
<1> USE NoEventAssumption DEF outboxVars, publisherVars, OnlyPending
<1>3. ASSUME NEW e \in Events, NEW t \in Times, Insert(e, t)
      PROVE  OnlyPending'
  BY <1>2, <1>3 DEF TypeOK, Insert
<1>4. ASSUME NEW p \in Publishers, FetchPending(p)
      PROVE  OnlyPending'
  <2>1. PICK B \in OldestOf(BatchSize, Pending) : batch' = [batch EXCEPT ![p] = B]
    BY <1>4 DEF FetchPending
  <2>2. B \subseteq Pending
    BY <2>1, BatchBounds DEF Pending
  <2>3. QED
    BY <1>2, <1>4, <2>1, <2>2 DEF TypeOK, FetchPending, Pending
<1>5. ASSUME NEW p \in Publishers, NEW e \in Events, PublishSucceeds(p, e)
      PROVE  OnlyPending'
  BY <1>2, <1>5 DEF TypeOK, PublishSucceeds, Head
<1>6. ASSUME NEW p \in Publishers, NEW e \in Events, PublishFails(p, e)
      PROVE  OnlyPending'
  BY <1>2, <1>6 DEF TypeOK, PublishFails, StatusAfterFailure, AfterFailure, Continue
<1>7. ASSUME NEW p \in Publishers, NEW e \in Events, MarkSent(p, e)
      PROVE  OnlyPending'
  BY <1>1, <1>2, <1>7 DEF TypeOK, MarkSent, Continue, Held
<1>8. ASSUME NEW p \in Publishers, MarkFails(p)
      PROVE  OnlyPending'
  BY <1>2, <1>8 DEF TypeOK, MarkFails, Continue
<1>9. ASSUME NEW p \in Publishers, Stop(p) \/ Exit(p) \/ Crash(p) \/ Restart(p)
      PROVE  OnlyPending'
  BY <1>2, <1>9 DEF TypeOK, Stop, Exit, Crash, Restart
<1>10. CASE UNCHANGED vars \/ Idle
  BY <1>2, <1>10 DEF vars, Idle
<1>11. QED
  BY <1>3, <1>4, <1>5, <1>6, <1>7, <1>8, <1>9, <1>10
     DEF Next, PublisherStep, Work, PublishOne, MarkOne

LEMMA StepIInv == IInv /\ [Next]_vars => IInv'
  BY TypeStep, HeldStep, DeliveredStep, OnlyPendingStep DEF IInv

LEMMA InductiveInvariant == Spec => []IInv
  BY InitIInv, StepIInv, PTL DEF Spec

\* fetchPending never holds more than batchSize events; the columns and the
\* publisher's variables keep their types.
THEOREM TypeCorrect == Spec => []TypeOK
  BY InductiveInvariant, PTL DEF IInv

\* markSent follows a successful PublishRaw only: no crash, cancellation, failed
\* publish or competing replica marks an event sent that is not in the topic.
THEOREM SentImpliesDelivered == Spec => []SentWasDelivered
  BY InductiveInvariant, PTL DEF IInv

\* publishBatch with one replica: an event that is marked sent is not in the
\* publisher's hands any more, so it is not published again.
THEOREM SentStaysSent == Spec => []SentIsNotRepublished
  BY InductiveInvariant, PTL DEF IInv
=============================================================================
