----------------------- MODULE PostgresRepository_proofs -----------------------
(***************************************************************************)
(* Theorems of PostgresRepository, for every set of products, requests,    *)
(* attributes and skus and for every stock limit.                          *)
(***************************************************************************)
EXTENDS PostgresRepository, TLAPS

\* The fields a command carries, by its kind.
LEMMA CommandKinds ==
  ASSUME NEW c \in Commands
  PROVE  /\ c.op \in {"create", "update", "stock"}
         /\ c.product \in Products
         /\ c.op = "create" => c \in CreateProductCommand
         /\ c.op = "update" => c \in UpdateProductCommand
         /\ c.op = "stock"  => c \in UpdateStockCommand
  BY CommandsAssumption DEF CreateProductCommand, UpdateProductCommand, UpdateStockCommand

LEMMA CreatedIsRow ==
  ASSUME NEW r \in Requests, NEW c \in Commands, c.op = "create"
  PROVE  NewRow(r, c) \in Row
  BY CommandKinds DEF CreateProductCommand, NewRow, Row

LEMMA PatchedIsRow ==
  ASSUME NEW r \in Requests, NEW c \in Commands, NEW row \in Row, c.op = "update"
  PROVE  /\ PatchedRow(r, c, row) \in Row
         /\ PatchedRow(r, c, row).sku = row.sku
         /\ PatchedRow(r, c, row).ver = row.ver + 1
<1> DEFINE attr == [a \in Attrs |-> IF a \in c.fields THEN r ELSE row.attr[a]]
<1>1. attr \in [Attrs -> Requests \cup {Original}]
  BY DEF Row
<1>2. PatchedRow(r, c, row)
        = [sku |-> row.sku, stock |-> row.stock, attr |-> attr, ver |-> row.ver + 1]
  BY DEF PatchedRow
<1> HIDE DEF attr
<1>3. QED
  BY <1>1, <1>2 DEF Row

LEMMA RestockedIsRow ==
  ASSUME NEW c \in Commands, NEW row \in Row, c.op = "stock", StockFits(c, row)
  PROVE  /\ RestockedRow(c, row) \in Row
         /\ RestockedRow(c, row).sku = row.sku
         /\ RestockedRow(c, row).ver = row.ver + 1
<1>1. row.stock + c.delta \in 0..MaxStock
  BY DEF StockFits
<1>2. QED
  BY <1>1 DEF RestockedRow, Row

----------------------------------------------------------------------------
(* The inductive invariant.  The safety properties speak of committed      *)
(* state; what makes a commit safe is what its transaction may rely on     *)
(* while it holds its locks.                                               *)

\* What the progress of a request says about its other variables.
Phase(r) ==
  /\ IF pc[r] = "idle" THEN cmd[r] = NoCommand ELSE cmd[r] \in Commands
  /\ pc[r] # "done" => reply[r] = "none"
  /\ Holding(r) => image[r] \in Row

\* The id a Create drew is its own, and no row has it before the commit.
FreshId(r) ==
  cmd[r].op = "create" =>
    /\ pc[r] # "done" => table[cmd[r].product] = NoRow
    /\ \A q \in Requests \ {r} :
         cmd[q].op = "create" => cmd[q].product # cmd[r].product

\* Two open transactions hold different rows, and different skus if they insert.
Exclusive(r) ==
  Holding(r) =>
    \A q \in Requests \ {r} :
      Holding(q) =>
        /\ cmd[q].product # cmd[r].product
        /\ cmd[q].op = "create" /\ cmd[r].op = "create" => cmd[q].sku # cmd[r].sku

\* The uncommitted image is the command applied to the row as it is committed
\* now, not as it was when the statement ran.
CurrentImage(r) ==
  Holding(r) =>
    IF cmd[r].op = "create"
    THEN /\ image[r] = NewRow(r, cmd[r])
         /\ ~SkuInUse(cmd[r].sku)
    ELSE /\ table[cmd[r].product] # NoRow
         /\ StockFits(cmd[r], table[cmd[r].product])
         /\ image[r] = Rewritten(r, cmd[r], table[cmd[r].product])

\* Events come from finished requests and carry earlier clock readings; the
\* reading of a staged event is later than those of its product's events.
Recorded ==
  /\ \A e \in events : pc[e.id] = "done" /\ Instant(e) < now
  /\ \A r \in Requests :
       pc[r] = "staged" =>
         /\ occurred[r] - Skew[r] < now
         /\ \A e \in events :
              e.key = cmd[r].product => Instant(e) < occurred[r] - Skew[r]

Locking ==
  \A r \in Requests : Phase(r) /\ FreshId(r) /\ Exclusive(r) /\ CurrentImage(r)

IInv ==
  /\ TypeOK
  /\ Locking
  /\ Recorded
  /\ UniqueSku
  /\ EventPerChange
  /\ SerialHistory
  /\ OccurredInOrder
  /\ HonestReplies

----------------------------------------------------------------------------
(* The steps, by what they do to the transaction.                          *)

\* The statement of the first phase ran: it saw an unlocked, fitting row.
Writes(r) ==
  /\ pc[r] = "begun"
  /\ IF cmd[r].op = "create"
     THEN /\ ~SkuInUse(cmd[r].sku)
          /\ SkuUnclaimed(r)
          /\ Wrote(r, NewRow(r, cmd[r]))
     ELSE /\ table[cmd[r].product] # NoRow
          /\ RowFree(r)
          /\ StockFits(cmd[r], table[cmd[r].product])
          /\ Wrote(r, Rewritten(r, cmd[r], table[cmd[r].product]))

\* The transaction ends without a trace.
Refuses(r) ==
  /\ pc[r] \in {"begun", "written", "staged"}
  /\ UNCHANGED <<table, events>>
  /\ \E answer \in Replies \ {"none", "ok"} : Return(r, answer)

LEMMA StepKinds ==
  ASSUME IInv, [Next]_vars
  PROVE  \/ UNCHANGED vars
         \/ \E r \in Requests :
              \/ \E c \in Commands : BeginTx(r, c)
              \/ Writes(r)
              \/ Refuses(r)
              \/ InsertOutboxEvent(r)
              \/ Commit(r)
<1>1. CASE UNCHANGED vars
  BY <1>1
<1>2. CASE Quiescent
  BY <1>2 DEF Quiescent
<1>3. CASE \E r \in Requests : Uncommitted(r) \/ Commit(r)
  <2>1. PICK r \in Requests : Uncommitted(r) \/ Commit(r)
    BY <1>3
  <2>2. pc[r] = "begun" => cmd[r] \in Commands /\ cmd[r].op \in {"create", "update", "stock"}
    BY CommandKinds DEF IInv, Locking, Phase
  <2>3. InsertProduct(r) => Writes(r)
    BY DEF InsertProduct, Writes
  <2>4. PatchProduct(r) => Writes(r)
    BY DEF PatchProduct, Writes, Rewritten, StockFits
  <2>5. AddStock(r) => Writes(r)
    BY DEF AddStock, Writes, Rewritten
  <2>6. RejectDuplicateSku(r) \/ RejectMissing(r) \/ Abort(r) => Refuses(r)
    BY DEF RejectDuplicateSku, RejectMissing, Abort, FailureReply, Refuses, Replies
  <2>7. RejectStock(r) => Refuses(r)
    BY DEF RejectStock, Refuses, Replies
  <2>8. QED
    BY <2>1, <2>3, <2>4, <2>5, <2>6, <2>7 DEF Uncommitted, Statement
<1>4. QED
  BY <1>1, <1>2, <1>3 DEF Next

\* What a held transaction is about to install is a row.
LEMMA WrittenIsRow ==
  ASSUME TypeOK, NEW r \in Requests, cmd[r] \in Commands,
         IF cmd[r].op = "create" THEN TRUE
         ELSE /\ table[cmd[r].product] # NoRow
              /\ StockFits(cmd[r], table[cmd[r].product]),
         NEW row,
         row = IF cmd[r].op = "create" THEN NewRow(r, cmd[r])
               ELSE Rewritten(r, cmd[r], table[cmd[r].product])
  PROVE  /\ row \in Row
         /\ cmd[r].op = "create" => row.sku = cmd[r].sku /\ row.ver = 1
         /\ cmd[r].op # "create" =>
              /\ table[cmd[r].product] \in Row
              /\ row.sku = table[cmd[r].product].sku
              /\ row.ver = table[cmd[r].product].ver + 1
<1>1. cmd[r].product \in Products /\ cmd[r].op \in {"create", "update", "stock"}
  BY CommandKinds
<1>2. cmd[r].op # "create" => table[cmd[r].product] \in Row
  BY <1>1 DEF TypeOK
<1>3. CASE cmd[r].op = "create"
  BY <1>3, CreatedIsRow DEF NewRow
<1>4. CASE cmd[r].op = "update"
  BY <1>2, <1>4, PatchedIsRow DEF Rewritten
<1>5. CASE cmd[r].op = "stock"
  BY <1>2, <1>5, RestockedIsRow DEF Rewritten
<1>6. QED
  BY <1>1, <1>3, <1>4, <1>5

LEMMA TypeStep ==
  ASSUME IInv, [Next]_vars
  PROVE  TypeOK'
<1> USE DEF Replies, Phases
<1>1. TypeOK /\ \A r \in Requests : Phase(r)
  BY DEF IInv, Locking
<1>2. ASSUME NEW r \in Requests, NEW c \in Commands, BeginTx(r, c)
      PROVE  TypeOK'
  BY <1>1, <1>2 DEF TypeOK, BeginTx
<1>3. ASSUME NEW r \in Requests, Writes(r)
      PROVE  TypeOK'
  <2>1. PICK row \in Row : Wrote(r, row)
    BY <1>1, <1>3, WrittenIsRow DEF Phase, Writes
  <2>2. QED
    BY <1>1, <2>1 DEF TypeOK, Wrote
<1>4. ASSUME NEW r \in Requests, Refuses(r)
      PROVE  TypeOK'
  BY <1>1, <1>4 DEF TypeOK, Refuses, Return
<1>5. ASSUME NEW r \in Requests, InsertOutboxEvent(r)
      PROVE  TypeOK'
  <2>1. OccuredAt(r) \in Nat /\ now + 1 \in Nat
    BY <1>1, SkewAssumption DEF TypeOK, OccuredAt
  <2>2. QED
    BY <1>1, <1>5, <2>1 DEF TypeOK, InsertOutboxEvent
<1>6. ASSUME NEW r \in Requests, Commit(r)
      PROVE  TypeOK'
  <2>1. cmd[r] \in Commands /\ image[r] \in Row
    BY <1>1, <1>6 DEF Phase, Commit, Holding, HoldingPhases
  <2>2. cmd[r].product \in Products /\ EventTypeOf(cmd[r]) \in EventTypes
    BY <2>1, CommandKinds DEF EventTypeOf, EventTypes
  <2>3. EventOf(r) \in Event
    BY <1>1, <2>1, <2>2 DEF TypeOK, EventOf, Event
  <2>4. QED
    BY <1>1, <1>6, <2>1, <2>2, <2>3 DEF TypeOK, Commit, CommittedEvents, Return
<1>7. CASE UNCHANGED vars
  BY <1>1, <1>7 DEF TypeOK, vars, txVars
<1>8. QED
  BY <1>2, <1>3, <1>4, <1>5, <1>6, <1>7, StepKinds

LEMMA LockingStep ==
  ASSUME IInv, [Next]_vars
  PROVE  Locking'
<1> USE DEF Holding, HoldingPhases
<1>1. TypeOK /\ \A r \in Requests : Phase(r) /\ FreshId(r) /\ Exclusive(r) /\ CurrentImage(r)
  BY DEF IInv, Locking
<1>2. SUFFICES ASSUME NEW q \in Requests
               PROVE  Phase(q)' /\ FreshId(q)' /\ Exclusive(q)' /\ CurrentImage(q)'
  BY DEF Locking
<1>3. ASSUME NEW r \in Requests, NEW c \in Commands, BeginTx(r, c)
      PROVE  Phase(q)' /\ FreshId(q)' /\ Exclusive(q)' /\ CurrentImage(q)'
  <2>1. Phase(q)'
    BY <1>1, <1>3 DEF TypeOK, BeginTx, Phase
  <2>2. FreshId(q)'
    BY <1>1, <1>3 DEF TypeOK, BeginTx, FreshId
  <2>3. Exclusive(q)'
    BY <1>1, <1>3 DEF TypeOK, BeginTx, Exclusive
  <2>4. CurrentImage(q)'
    BY <1>1, <1>3 DEF TypeOK, BeginTx, CurrentImage, SkuInUse
  <2>5. QED
    BY <2>1, <2>2, <2>3, <2>4
<1>4. ASSUME NEW r \in Requests, Writes(r)
      PROVE  Phase(q)' /\ FreshId(q)' /\ Exclusive(q)' /\ CurrentImage(q)'
  <2>1. cmd[r] \in Commands /\ pc[r] = "begun"
    BY <1>1, <1>4 DEF Phase, Writes
  <2> DEFINE row == IF cmd[r].op = "create" THEN NewRow(r, cmd[r])
                    ELSE Rewritten(r, cmd[r], table[cmd[r].product])
  <2>2. row \in Row /\ Wrote(r, row)
    BY <1>1, <1>4, <2>1, WrittenIsRow DEF Writes
  <2>3. Phase(q)'
    BY <1>1, <2>1, <2>2 DEF TypeOK, Phase, Wrote
  <2>4. FreshId(q)'
    BY <1>1, <2>1, <2>2 DEF TypeOK, FreshId, Wrote
  <2>5. ASSUME NEW s \in Requests \ {r}, Holding(s)
        PROVE  /\ cmd[s].product # cmd[r].product
               /\ cmd[s].op = "create" /\ cmd[r].op = "create" => cmd[s].sku # cmd[r].sku
    <3>1. CASE cmd[r].op = "create" /\ cmd[s].op = "create"
      BY <1>1, <1>4, <2>1, <2>5, <3>1 DEF FreshId, Writes, SkuUnclaimed
    <3>2. CASE cmd[r].op = "create" /\ cmd[s].op # "create"
      BY <1>1, <1>4, <2>1, <2>5, <3>2 DEF FreshId, CurrentImage
    <3>3. CASE cmd[r].op # "create"
      BY <1>4, <2>5, <3>3 DEF Writes, RowFree
    <3>4. QED
      BY <3>1, <3>2, <3>3
  <2>6. Exclusive(q)'
    BY <1>1, <2>1, <2>2, <2>5 DEF TypeOK, Exclusive, Wrote
  <2>7. CurrentImage(q)'
    <3>1. CASE q = r
      BY <1>1, <1>4, <3>1 DEF TypeOK, CurrentImage, Writes, Wrote, SkuInUse
    <3>2. CASE q # r
      BY <1>1, <2>2, <3>2 DEF TypeOK, CurrentImage, Wrote, SkuInUse
    <3>3. QED
      BY <3>1, <3>2
  <2>8. QED
    BY <2>3, <2>4, <2>6, <2>7
<1>5. ASSUME NEW r \in Requests, Refuses(r)
      PROVE  Phase(q)' /\ FreshId(q)' /\ Exclusive(q)' /\ CurrentImage(q)'
  <2>1. Phase(q)' /\ FreshId(q)' /\ Exclusive(q)'
    BY <1>1, <1>5 DEF TypeOK, Refuses, Return, Phase, FreshId, Exclusive
  <2>2. CurrentImage(q)'
    BY <1>1, <1>5 DEF TypeOK, Refuses, Return, CurrentImage, SkuInUse
  <2>3. QED
    BY <2>1, <2>2
<1>6. ASSUME NEW r \in Requests, InsertOutboxEvent(r)
      PROVE  Phase(q)' /\ FreshId(q)' /\ Exclusive(q)' /\ CurrentImage(q)'
  <2>1. Phase(q)' /\ FreshId(q)' /\ Exclusive(q)'
    BY <1>1, <1>6 DEF TypeOK, InsertOutboxEvent, Phase, FreshId, Exclusive
  <2>2. CurrentImage(q)'
    BY <1>1, <1>6 DEF TypeOK, InsertOutboxEvent, CurrentImage, SkuInUse
  <2>3. QED
    BY <2>1, <2>2
<1>7. ASSUME NEW r \in Requests, Commit(r)
      PROVE  Phase(q)' /\ FreshId(q)' /\ Exclusive(q)' /\ CurrentImage(q)'
  <2>1. pc[r] = "staged" /\ cmd[r] \in Commands /\ image[r] \in Row
    BY <1>1, <1>7 DEF Phase, Commit
  <2>2. /\ pc' = [pc EXCEPT ![r] = "done"]
        /\ image' = [image EXCEPT ![r] = NoRow]
        /\ table' = [table EXCEPT ![cmd[r].product] = image[r]]
        /\ cmd' = cmd
        /\ \A s \in Requests \ {r} : reply'[s] = reply[s]
    BY <1>1, <1>7 DEF TypeOK, Commit, Return
  <2>3. Phase(q)' /\ Exclusive(q)'
    BY <1>1, <2>1, <2>2 DEF TypeOK, Phase, Exclusive
  <2>4. FreshId(q)'
    <3>1. ASSUME q # r, cmd[q].op = "create", pc[q] # "done"
          PROVE  cmd[q].product # cmd[r].product
      BY <1>1, <2>1, <3>1 DEF FreshId, CurrentImage
    <3>2. cmd[q].op = "create" => cmd[q].product \in Products
      BY <1>1, CommandKinds DEF Phase, NoCommand
    <3>3. QED
      BY <1>1, <2>1, <2>2, <3>1, <3>2 DEF TypeOK, FreshId
  <2>5. CurrentImage(q)'
    <3>1. SUFFICES ASSUME q # r, Holding(q)
                   PROVE  CurrentImage(q)'
      BY <1>1, <2>2 DEF TypeOK, CurrentImage
    <3>2. cmd[q] \in Commands /\ cmd[q].product \in Products /\ cmd[r].product \in Products
      BY <1>1, <2>1, <3>1, CommandKinds DEF Phase
    <3>3. cmd[q].product # cmd[r].product
      BY <1>1, <2>1, <3>1 DEF Exclusive
    <3>4. table'[cmd[q].product] = table[cmd[q].product] /\ image'[q] = image[q]
      BY <1>1, <2>2, <3>1, <3>2, <3>3 DEF TypeOK
    <3>5. CASE cmd[q].op = "create"
      <4>1. ~SkuInUse(cmd[q].sku)
        BY <1>1, <3>1, <3>5 DEF CurrentImage
      <4>2. image[r].sku # cmd[q].sku
        <5>1. CASE cmd[r].op = "create"
          BY <1>1, <2>1, <3>1, <3>5, <5>1, WrittenIsRow DEF Exclusive, CurrentImage
        <5>2. CASE cmd[r].op # "create"
          BY <1>1, <2>1, <3>2, <4>1, <5>2, WrittenIsRow DEF CurrentImage, SkuInUse
        <5>3. QED
          BY <5>1, <5>2
      <4>3. ~SkuInUse(cmd[q].sku)'
        BY <1>1, <2>2, <3>2, <4>1, <4>2 DEF TypeOK, SkuInUse
      <4>4. QED
        BY <1>1, <2>2, <3>1, <3>4, <3>5, <4>3 DEF CurrentImage
    <3>6. CASE cmd[q].op # "create"
      BY <1>1, <2>2, <3>1, <3>4, <3>6 DEF CurrentImage
    <3>7. QED
      BY <3>5, <3>6
  <2>6. QED
    BY <2>3, <2>4, <2>5
<1>8. CASE UNCHANGED vars
  BY <1>1, <1>8 DEF vars, txVars, Phase, FreshId, Exclusive, CurrentImage, SkuInUse
<1>9. QED
  BY <1>3, <1>4, <1>5, <1>6, <1>7, <1>8, StepKinds

\* What a commit adds: the next version of one row, and the event that says so.
LEMMA CommitFacts ==
  ASSUME IInv, NEW r \in Requests, Commit(r)
  PROVE  /\ pc[r] = "staged" /\ cmd[r] \in Commands /\ cmd[r].product \in Products
         /\ image[r] \in Row
         /\ cmd[r].op = "create" =>
              /\ table[cmd[r].product] = NoRow
              /\ image[r] = NewRow(r, cmd[r])
              /\ image[r].sku = cmd[r].sku
              /\ image[r].ver = 1
              /\ ~SkuInUse(cmd[r].sku)
         /\ cmd[r].op # "create" =>
              /\ table[cmd[r].product] \in Row
              /\ image[r] = Rewritten(r, cmd[r], table[cmd[r].product])
              /\ image[r].sku = table[cmd[r].product].sku
              /\ image[r].ver = table[cmd[r].product].ver + 1
         /\ table' = [table EXCEPT ![cmd[r].product] = image[r]]
         /\ table'[cmd[r].product] = image[r]
         /\ \A p \in Products \ {cmd[r].product} : table'[p] = table[p]
         /\ EventOf(r).id = r /\ EventOf(r).key = cmd[r].product
         /\ EventOf(r).image = image[r] /\ EventOf(r).occurred = occurred[r]
         /\ events' = events \cup {EventOf(r)}
         /\ cmd' = cmd /\ now' = now /\ occurred' = occurred
         /\ pc' = [pc EXCEPT ![r] = "done"]
<1>1. pc[r] = "staged" /\ cmd[r] \in Commands /\ Holding(r) /\ FreshId(r) /\ CurrentImage(r)
  BY DEF IInv, Locking, Phase, Commit, Holding, HoldingPhases
<1>2. cmd[r].product \in Products
  BY <1>1, CommandKinds
<1>3. cmd[r].op = "create" =>
        /\ table[cmd[r].product] = NoRow
        /\ image[r] = NewRow(r, cmd[r])
        /\ ~SkuInUse(cmd[r].sku)
  BY <1>1 DEF FreshId, CurrentImage
<1>4. cmd[r].op # "create" =>
        /\ table[cmd[r].product] # NoRow
        /\ StockFits(cmd[r], table[cmd[r].product])
        /\ image[r] = Rewritten(r, cmd[r], table[cmd[r].product])
  BY <1>1 DEF CurrentImage
<1>5. /\ image[r] \in Row
      /\ cmd[r].op = "create" => image[r].sku = cmd[r].sku /\ image[r].ver = 1
      /\ cmd[r].op # "create" =>
           /\ table[cmd[r].product] \in Row
           /\ image[r].sku = table[cmd[r].product].sku
           /\ image[r].ver = table[cmd[r].product].ver + 1
  BY <1>1, <1>3, <1>4, WrittenIsRow DEF IInv
<1>6. /\ table' = [table EXCEPT ![cmd[r].product] = image[r]]
      /\ table'[cmd[r].product] = image[r]
      /\ \A p \in Products \ {cmd[r].product} : table'[p] = table[p]
  BY <1>2 DEF IInv, TypeOK, Commit
<1>7. /\ EventOf(r).id = r /\ EventOf(r).key = cmd[r].product
      /\ EventOf(r).image = image[r] /\ EventOf(r).occurred = occurred[r]
  BY DEF EventOf
<1>8. /\ events' = events \cup {EventOf(r)}
      /\ cmd' = cmd /\ now' = now /\ occurred' = occurred
      /\ pc' = [pc EXCEPT ![r] = "done"]
  BY DEF Commit, CommittedEvents, Return
<1>9. QED
  BY <1>1, <1>2, <1>3, <1>4, <1>5, <1>6, <1>7, <1>8

LEMMA RecordedStep ==
  ASSUME IInv, [Next]_vars
  PROVE  Recorded'
<1>1. TypeOK /\ Recorded
  BY DEF IInv
<1>2. /\ Skew \in [Requests -> Nat]
      /\ \A e \in events : e.id \in Requests /\ e.occurred \in Nat /\ Instant(e) \in Int
  BY <1>1, SkewAssumption DEF TypeOK, Event, Instant
<1>3. ASSUME NEW r \in Requests, NEW c \in Commands, BeginTx(r, c)
      PROVE  Recorded'
  BY <1>1, <1>2, <1>3 DEF TypeOK, Recorded, BeginTx, Instant
<1>4. ASSUME NEW r \in Requests, Writes(r)
      PROVE  Recorded'
  <2>1. PICK row : pc[r] = "begun" /\ Wrote(r, row)
    BY <1>4 DEF Writes
  <2>2. QED
    BY <1>1, <1>2, <2>1 DEF TypeOK, Recorded, Wrote, Instant
<1>5. ASSUME NEW r \in Requests, Refuses(r)
      PROVE  Recorded'
  BY <1>1, <1>2, <1>5 DEF TypeOK, Recorded, Refuses, Return, Instant
<1>6. ASSUME NEW r \in Requests, InsertOutboxEvent(r)
      PROVE  Recorded'
  BY <1>1, <1>2, <1>6 DEF TypeOK, Recorded, InsertOutboxEvent, OccuredAt, Instant
<1>7. ASSUME NEW r \in Requests, Commit(r)
      PROVE  Recorded'
  <2>1. \A q \in Requests \ {r} : pc[q] = "staged" => cmd[q].product # cmd[r].product
    BY <1>7, CommitFacts DEF IInv, Locking, Exclusive, Holding, HoldingPhases
  <2>2. QED
    BY <1>1, <1>2, <1>7, <2>1, CommitFacts DEF TypeOK, Recorded, Instant
<1>8. CASE UNCHANGED vars
  BY <1>1, <1>8 DEF Recorded, vars, txVars, Instant
<1>9. QED
  BY <1>3, <1>4, <1>5, <1>6, <1>7, <1>8, StepKinds

\* Only a commit writes; the other steps leave the commands of finished
\* requests alone and answer "ok" to nobody.
LEMMA QuietSteps ==
  ASSUME IInv, [Next]_vars, \A r \in Requests : ~Commit(r)
  PROVE  /\ UNCHANGED <<table, events>>
         /\ \A q \in Requests : pc[q] = "done" => cmd'[q] = cmd[q] /\ reply'[q] = reply[q]
         /\ \A q \in Requests : reply'[q] = "ok" => reply[q] = "ok"
         /\ \A q \in Requests : pc[q] # "done" => reply[q] = "none"
<1>1. TypeOK /\ \A q \in Requests : pc[q] # "done" => reply[q] = "none"
  BY DEF IInv, Locking, Phase
<1>2. ASSUME NEW r \in Requests, NEW c \in Commands, BeginTx(r, c)
      PROVE  /\ UNCHANGED <<table, events>>
             /\ \A q \in Requests : pc[q] = "done" => cmd'[q] = cmd[q] /\ reply'[q] = reply[q]
             /\ \A q \in Requests : reply'[q] = "ok" => reply[q] = "ok"
  BY <1>1, <1>2 DEF TypeOK, BeginTx
<1>3. ASSUME NEW r \in Requests, Writes(r) \/ Refuses(r) \/ InsertOutboxEvent(r)
      PROVE  /\ UNCHANGED <<table, events>>
             /\ \A q \in Requests : pc[q] = "done" => cmd'[q] = cmd[q] /\ reply'[q] = reply[q]
             /\ \A q \in Requests : reply'[q] = "ok" => reply[q] = "ok"
  BY <1>1, <1>3 DEF TypeOK, Writes, Wrote, Refuses, Return, InsertOutboxEvent
<1>4. QED
  BY <1>1, <1>2, <1>3, StepKinds DEF vars, txVars

LEMMA UniqueSkuStep ==
  ASSUME IInv, [Next]_vars
  PROVE  UniqueSku'
<1>1. UniqueSku
  BY DEF IInv
<1>2. CASE \E r \in Requests : Commit(r)
  <2>1. PICK r \in Requests : Commit(r)
    BY <1>2
  <2>2. \A p \in Products \ {cmd[r].product} : table[p] # NoRow => table[p].sku # image[r].sku
    BY <1>1, <2>1, CommitFacts, SeedAssumption DEF UniqueSku, SkuInUse
  <2>3. QED
    BY <1>1, <2>1, <2>2, CommitFacts DEF UniqueSku
<1>3. CASE \A r \in Requests : ~Commit(r)
  BY <1>1, <1>3, QuietSteps DEF UniqueSku
<1>4. QED
  BY <1>2, <1>3

LEMMA EventPerChangeStep ==
  ASSUME IInv, [Next]_vars
  PROVE  EventPerChange'
<1>1. TypeOK /\ EventPerChange
  BY DEF IInv
<1>2. \A e \in events : e.key \in Products /\ e.image \in Row /\ e.image.ver \in Nat
  BY <1>1 DEF TypeOK, Event, Row
<1>3. CASE \E r \in Requests : Commit(r)
  <2>1. PICK r \in Requests : Commit(r)
    BY <1>3
  <2> DEFINE p == cmd[r].product
  <2>2. /\ p \in Products /\ image[r] \in Row /\ image[r] # NoRow /\ image[r].ver \in Nat \ {0}
        /\ EventOf(r).key = p /\ EventOf(r).image = image[r]
        /\ events' = events \cup {EventOf(r)}
        /\ table'[p] = image[r]
        /\ \A q \in Products \ {p} : table'[q] = table[q]
    <3>1. \A row \in Row : row.ver \in Nat /\ row # NoRow
      BY SeedAssumption DEF Row
    <3>2. QED
      BY <2>1, <3>1, CommitFacts
  <2>3. \A e \in events : e.key = p => e.image.ver \in 1..(image[r].ver - 1)
    <3>1. CASE cmd[r].op = "create"
      BY <1>1, <2>1, <3>1, CommitFacts DEF EventPerChange
    <3>2. CASE cmd[r].op # "create"
      <4>1. image[r].ver = table[p].ver + 1 /\ table[p].ver \in Nat
        BY <2>1, <3>2, CommitFacts DEF Row
      <4>2. QED
        BY <1>1, <1>2, <4>1 DEF EventPerChange
    <3>3. QED
      BY <3>1, <3>2
  <2>4. \A v \in 1..(image[r].ver - 1) : \E e \in events : e.key = p /\ e.image.ver = v
    <3>1. CASE cmd[r].op = "create"
      BY <2>1, <3>1, CommitFacts
    <3>2. CASE cmd[r].op # "create"
      <4>1. /\ image[r].ver = table[p].ver + 1 /\ table[p].ver \in Nat
            /\ table[p] # NoRow
        BY <2>1, <3>2, CommitFacts, SeedAssumption DEF Row
      <4>2. QED
        BY <1>1, <2>2, <4>1 DEF EventPerChange
    <3>3. QED
      BY <3>1, <3>2
  <2> HIDE DEF p
  <2>5. \A e \in events' : /\ table'[e.key] # NoRow
                           /\ e.image.ver \in 1..table'[e.key].ver
    <3>1. ASSUME NEW e \in events, e.key # p
          PROVE  table'[e.key] # NoRow /\ e.image.ver \in 1..table'[e.key].ver
      BY <1>1, <1>2, <2>2, <3>1 DEF EventPerChange
    <3>2. ASSUME NEW e \in events, e.key = p
          PROVE  table'[e.key] # NoRow /\ e.image.ver \in 1..table'[e.key].ver
      BY <2>2, <2>3, <3>2
    <3>3. QED
      BY <2>2, <3>1, <3>2
  <2>6. \A e, f \in events' : e.key = f.key /\ e.image.ver = f.image.ver => e = f
    BY <1>1, <1>2, <2>2, <2>3 DEF EventPerChange
  <2>7. ASSUME NEW q \in Products, table'[q] # NoRow, NEW v \in 1..table'[q].ver
        PROVE  \E e \in events' : e.key = q /\ e.image.ver = v
    <3>1. CASE q # p
      BY <1>1, <2>2, <2>7, <3>1 DEF EventPerChange
    <3>2. CASE q = p
      BY <2>2, <2>4, <2>7, <3>2
    <3>3. QED
      BY <3>1, <3>2
  <2>8. QED
    BY <2>5, <2>6, <2>7 DEF EventPerChange
<1>4. CASE \A r \in Requests : ~Commit(r)
  BY <1>1, <1>4, QuietSteps DEF EventPerChange
<1>5. QED
  BY <1>3, <1>4

LEMMA SerialHistoryStep ==
  ASSUME IInv, [Next]_vars
  PROVE  SerialHistory'
<1>1. TypeOK /\ Recorded /\ SerialHistory
  BY DEF IInv
<1>2. \A e \in events : e.id \in Requests /\ pc[e.id] = "done"
  BY <1>1 DEF TypeOK, Event, Recorded
<1>3. CASE \E r \in Requests : Commit(r)
  <2>1. PICK r \in Requests : Commit(r)
    BY <1>3
  <2> DEFINE p == cmd[r].product
  <2>2. /\ EarlierImages(p)' = EarlierImages(p) \cup {image[r]}
        /\ \A q \in Products \ {p} : EarlierImages(q)' = EarlierImages(q)
        /\ \A q \in Products : EarlierImages(q) \subseteq EarlierImages(q)'
    BY <2>1, CommitFacts DEF EarlierImages
  <2>3. ASSUME NEW e \in events
        PROVE  LET c == cmd'[e.id] IN
               IF c.op = "create" THEN e.image = NewRow(e.id, c)
               ELSE \E prev \in EarlierImages(e.key)' :
                      /\ prev # NoRow
                      /\ prev.ver + 1 = e.image.ver
                      /\ e.image = Rewritten(e.id, c, prev)
    <3>1. e.key \in Products /\ cmd'[e.id] = cmd[e.id]
      BY <1>1, <2>1, CommitFacts DEF TypeOK, Event
    <3>2. QED
      BY <1>1, <2>2, <3>1 DEF SerialHistory
  <2>4. LET c == cmd'[r] IN
        IF c.op = "create" THEN image[r] = NewRow(r, c)
        ELSE \E prev \in EarlierImages(p)' :
               /\ prev # NoRow
               /\ prev.ver + 1 = image[r].ver
               /\ image[r] = Rewritten(r, c, prev)
    <3>1. CASE cmd[r].op = "create"
      BY <2>1, <3>1, CommitFacts
    <3>2. CASE cmd[r].op # "create"
      <4>1. table[p] # NoRow /\ table[p].ver + 1 = image[r].ver
            /\ image[r] = Rewritten(r, cmd[r], table[p]) /\ p \in Products /\ cmd' = cmd
        BY <2>1, <3>2, CommitFacts, SeedAssumption
      <4>2. table[p] \in EarlierImages(p)
        BY <1>1, <4>1 DEF SerialHistory
      <4>3. QED
        BY <2>2, <3>2, <4>1, <4>2
    <3>3. QED
      BY <3>1, <3>2
  <2>5. \A q \in Products : table'[q] # NoRow => \E newest \in EarlierImages(q)' : newest = table'[q]
    BY <1>1, <2>1, <2>2, CommitFacts DEF SerialHistory
  <2>6. QED
    BY <2>1, <2>3, <2>4, <2>5, CommitFacts DEF SerialHistory
<1>4. CASE \A r \in Requests : ~Commit(r)
  <2>1. \A q \in Products : EarlierImages(q)' = EarlierImages(q)
    BY <1>4, QuietSteps DEF EarlierImages
  <2>2. ASSUME NEW e \in events
        PROVE  e.key \in Products /\ cmd'[e.id] = cmd[e.id]
    BY <1>1, <1>2, <1>4, QuietSteps DEF TypeOK, Event
  <2>3. QED
    BY <1>1, <1>4, <2>1, <2>2, QuietSteps DEF SerialHistory
<1>5. QED
  BY <1>3, <1>4

LEMMA OccurredInOrderStep ==
  ASSUME IInv, [Next]_vars
  PROVE  OccurredInOrder'
<1>1. TypeOK /\ Recorded /\ EventPerChange /\ OccurredInOrder
  BY DEF IInv
<1>2. CASE \E r \in Requests : Commit(r)
  <2>1. PICK r \in Requests : Commit(r)
    BY <1>2
  <2>2. \A e \in events : e.key = cmd[r].product => Instant(e) < occurred[r] - Skew[r]
    BY <1>1, <2>1, CommitFacts DEF Recorded
  <2>3. \A e \in events : e.key = cmd[r].product => ~(image[r].ver < e.image.ver)
    <3>1. CASE cmd[r].op = "create"
      BY <1>1, <2>1, <3>1, CommitFacts DEF EventPerChange
    <3>2. CASE cmd[r].op # "create"
      <4>1. image[r].ver = table[cmd[r].product].ver + 1 /\ table[cmd[r].product].ver \in Nat
        BY <2>1, <3>2, CommitFacts DEF Row
      <4>2. QED
        BY <1>1, <4>1 DEF EventPerChange
    <3>3. QED
      BY <3>1, <3>2
  <2>4. image[r].ver \in Nat
    BY <2>1, CommitFacts DEF Row
  <2>5. QED
    BY <1>1, <2>1, <2>2, <2>3, <2>4, CommitFacts DEF OccurredInOrder, Instant
<1>3. CASE \A r \in Requests : ~Commit(r)
  BY <1>1, <1>3, QuietSteps DEF OccurredInOrder, Instant
<1>4. QED
  BY <1>2, <1>3

LEMMA HonestRepliesStep ==
  ASSUME IInv, [Next]_vars
  PROVE  HonestReplies'
<1>1. TypeOK /\ Recorded /\ HonestReplies
  BY DEF IInv
<1>2. \A e \in events : e.id \in Requests /\ pc[e.id] = "done"
  BY <1>1 DEF TypeOK, Event, Recorded
<1>3. CASE \E r \in Requests : Commit(r)
  <2>1. PICK r \in Requests : Commit(r)
    BY <1>3
  <2>2. \A q \in Requests \ {r} : reply'[q] = reply[q]
    BY <1>1, <2>1 DEF TypeOK, Commit, Return
  <2>3. reply'[r] \in {"ok", "error"}
    BY <1>1, <2>1 DEF TypeOK, Commit, Return
  <2>4. EventOf(r) \in events' /\ EventOf(r).id = r /\ events \subseteq events'
    BY <2>1, CommitFacts
  <2>5. \A q \in Requests \ {r} : (\E e \in events' : e.id = q) <=> \E e \in events : e.id = q
    BY <2>1, CommitFacts
  <2>6. QED
    BY <1>1, <2>2, <2>3, <2>4, <2>5 DEF HonestReplies
<1>4. CASE \A r \in Requests : ~Commit(r)
  BY <1>1, <1>2, <1>4, QuietSteps DEF HonestReplies
<1>5. QED
  BY <1>3, <1>4

----------------------------------------------------------------------------
LEMMA InitIInv == Init => IInv
<1> SUFFICES ASSUME Init
             PROVE  IInv
  OBVIOUS
<1>1. TypeOK
  BY SeedAssumption DEF Init, TypeOK, Phases, Replies
<1>2. Locking
  BY DEF Init, Locking, Phase, FreshId, Exclusive, CurrentImage, Holding, HoldingPhases, NoCommand
<1>3. Recorded
  BY DEF Init, Recorded
<1>4. UniqueSku
  BY SeedAssumption DEF Init, UniqueSku
<1>5. EventPerChange
  BY SeedAssumption DEF Init, EventPerChange
<1>6. SerialHistory
  BY DEF Init, SerialHistory, EarlierImages
<1>7. OccurredInOrder /\ HonestReplies
  BY DEF Init, OccurredInOrder, HonestReplies
<1>8. QED
  BY <1>1, <1>2, <1>3, <1>4, <1>5, <1>6, <1>7 DEF IInv

LEMMA StepIInv == IInv /\ [Next]_vars => IInv'
  BY TypeStep, LockingStep, RecordedStep, UniqueSkuStep, EventPerChangeStep,
     SerialHistoryStep, OccurredInOrderStep, HonestRepliesStep DEF IInv

LEMMA InductiveInvariant == Spec => []IInv
  BY InitIInv, StepIInv, PTL DEF Spec

\* Create, Update, UpdateStock: no interleaving of transactions leaves a value
\* outside its column, and stock stays within 0..MaxStock.
THEOREM TypeCorrect == Spec => []TypeOK
  BY InductiveInvariant, PTL DEF IInv

\* Create: the check and the insert of a sku are one with the unique index, so
\* no two rows ever share one.
THEOREM SkusStayUnique == Spec => []UniqueSku
  BY InductiveInvariant, PTL DEF IInv

\* insertOutboxEvent in the transaction of the change: one event per change of
\* a row, none without a change, none missing.
THEOREM OutboxIsComplete == Spec => []EventPerChange
  BY InductiveInvariant, PTL DEF IInv

\* Update, UpdateStock: every event carries its command applied to the image of
\* the change before it, and the row is the newest image.
THEOREM HistoryIsSerial == Spec => []SerialHistory
  BY InductiveInvariant, PTL DEF IInv

\* insertOutboxEvent: OccuredAt is read under the row lock and so increases
\* with the version of the row.
THEOREM OccurrenceFollowsVersions == Spec => []OccurredInOrder
  BY InductiveInvariant, PTL DEF IInv

\* The reply of Create, Update and UpdateStock: success means durable, a
\* refusal means nothing was written.
THEOREM RepliesAreHonest == Spec => []HonestReplies
  BY InductiveInvariant, PTL DEF IInv

----------------------------------------------------------------------------
(* Refinement: the commit, or the statement that refuses, is the one step  *)
(* of ProductStore that a call of the repository takes.                    *)

LEMMA InitRefines == Init => Store!Init
  BY DEF Init, Store!Init

\* A transaction that returns was not answered before.
LEMMA ReturnAnswers ==
  ASSUME IInv, NEW r \in Requests, pc[r] \in {"begun", "written", "staged"},
         NEW answer, Return(r, answer)
  PROVE  Store!Answer(r, answer)
<1>1. reply[r] = "none"
  BY DEF IInv, Locking, Phase
<1>2. QED
  BY <1>1 DEF Store!Answer, Return

LEMMA CommitRefines ==
  ASSUME IInv, NEW r \in Requests, Commit(r)
  PROVE  cmd[r] \in Commands /\ Store!Write(r, cmd[r])
<1> DEFINE c == cmd[r]
<1>1. \A e \in {Announcement(f) : f \in events} : e.id # r
  BY CommitFacts DEF IInv, Recorded, Announcement
<1>2. {Announcement(e) : e \in events'} =
        {Announcement(e) : e \in events} \cup
          {[id |-> r, key |-> c.product, type |-> EventTypeOf(c), image |-> image[r]]}
  <2>1. Announcement(EventOf(r)) =
          [id |-> r, key |-> c.product, type |-> EventTypeOf(c), image |-> image[r]]
    BY DEF Announcement, EventOf
  <2>2. QED
    BY <2>1, CommitFacts
<1>3. \E answer \in {"ok", "error"} : Store!Answer(r, answer)
  BY CommitFacts, ReturnAnswers DEF Commit
<1>4. Store!Record(r, c, image[r])
  BY <1>1, <1>2, <1>3, CommitFacts DEF Store!Record, Store!EventTypeOf, EventTypeOf
<1>5. Store!Write(r, c)
  <2>1. CASE c.op = "create"
    <3>1. Store!NewRow(r, c) = image[r]
      BY <2>1, CommitFacts DEF Store!NewRow, NewRow
    <3>2. ~Store!SkuInUse(c.sku)
      BY <2>1, CommitFacts DEF Store!SkuInUse, SkuInUse
    <3>3. Store!Create(r, c)
      BY <1>4, <2>1, <3>1, <3>2, CommitFacts DEF Store!Create
    <3>4. QED
      BY <3>3 DEF Store!Write
  <2>2. CASE c.op # "create"
    <3>1. table[c.product] # NoRow /\ StockFits(c, table[c.product])
      BY <2>2 DEF Commit, IInv, Locking, CurrentImage, Holding, HoldingPhases
    <3>2. Store!StockFits(c, table[c.product])
      BY <3>1 DEF Store!StockFits, StockFits
    <3>3. Store!Rewritten(r, c, table[c.product]) = image[r]
      BY <2>2, CommitFacts
         DEF Store!Rewritten, Store!PatchedRow, Store!RestockedRow,
             Rewritten, PatchedRow, RestockedRow
    <3>4. Store!Update(r, c)
      BY <1>4, <2>2, <3>1, <3>2, <3>3 DEF Store!Update
    <3>5. QED
      BY <3>4 DEF Store!Write
  <2>3. QED
    BY <2>1, <2>2
<1>6. QED
  BY <1>5, CommitFacts

\* What the code answers without a commit is true of the row as it is then.
LEMMA RefusalRefines ==
  ASSUME IInv, NEW r \in Requests,
         RejectDuplicateSku(r) \/ RejectStock(r) \/ RejectMissing(r) \/ Abort(r)
  PROVE  cmd[r] \in Commands /\ Store!Write(r, cmd[r])
<1> DEFINE c == cmd[r]
<1>1. pc[r] \in {"begun", "written", "staged"} /\ UNCHANGED <<table, events>>
  BY DEF RejectDuplicateSku, RejectStock, RejectMissing, Abort
<1>2. c \in Commands
  BY <1>1 DEF IInv, Locking, Phase
<1>3. \A answer : Return(r, answer) => Store!Refuse(r, answer)
  BY <1>1, ReturnAnswers DEF Store!Refuse
<1>4. CASE RejectDuplicateSku(r)
  <2>1. Store!RefuseSku(r, c)
    BY <1>3, <1>4 DEF RejectDuplicateSku, Store!RefuseSku, Store!SkuInUse, SkuInUse
  <2>2. QED
    BY <1>2, <2>1 DEF Store!Write
<1>5. CASE RejectMissing(r)
  <2>1. Store!RefuseMissing(r, c)
    BY <1>3, <1>5 DEF RejectMissing, Store!RefuseMissing
  <2>2. QED
    BY <1>2, <2>1 DEF Store!Write
<1>6. CASE RejectStock(r)
  <2>1. /\ c.op = "stock" /\ table[c.product] # NoRow
        /\ ~Store!StockFits(c, table[c.product])
    BY <1>6 DEF RejectStock, Store!StockFits, StockFits
  <2>2. Store!Refuse(r, "insufficient_stock") \/ Store!Refuse(r, "error")
    BY <1>3, <1>6 DEF RejectStock
  <2>3. Store!RefuseStock(r, c) \/ Store!Fail(r)
    BY <2>1, <2>2 DEF Store!RefuseStock, Store!Fail
  <2>4. QED
    BY <1>2, <2>3 DEF Store!Write
<1>7. CASE Abort(r)
  <2>1. Store!Fail(r)
    BY <1>3, <1>7 DEF Abort, FailureReply, Store!Fail
  <2>2. QED
    BY <1>2, <2>1 DEF Store!Write
<1>8. QED
  BY <1>4, <1>5, <1>6, <1>7

LEMMA StepRefines == IInv /\ [Next]_vars => [Store!Next]_(Store!storeVars)
<1> SUFFICES ASSUME IInv, [Next]_vars
             PROVE  [Store!Next]_(Store!storeVars)
  OBVIOUS
<1>1. CASE UNCHANGED <<table, events, reply>>
  BY <1>1 DEF Store!storeVars
<1>2. ASSUME NEW r \in Requests, NEW c \in Commands, BeginTx(r, c)
      PROVE  UNCHANGED <<table, events, reply>>
  BY <1>2 DEF BeginTx
<1>3. ASSUME NEW r \in Requests,
             InsertProduct(r) \/ PatchProduct(r) \/ AddStock(r) \/ InsertOutboxEvent(r)
      PROVE  UNCHANGED <<table, events, reply>>
  BY <1>3 DEF InsertProduct, PatchProduct, AddStock, InsertOutboxEvent, Wrote
<1>4. CASE Quiescent \/ UNCHANGED vars
  BY <1>1, <1>4 DEF Quiescent, vars, txVars
<1>5. ASSUME NEW r \in Requests,
             RejectDuplicateSku(r) \/ RejectStock(r) \/ RejectMissing(r) \/ Abort(r) \/ Commit(r)
      PROVE  Store!Next
  BY <1>5, CommitRefines, RefusalRefines DEF Store!Next
<1>6. QED
  BY <1>1, <1>2, <1>3, <1>4, <1>5 DEF Next, Uncommitted, Statement

\* Two statements, an error path on each and a commit whose acknowledgement may
\* be lost still behave as one atomic change of row and announcement, answered
\* in that step; and a not found, already exists or insufficient stock is true
\* of the committed rows at the moment it is decided.
THEOREM RepositoryImplementsStore == Spec => ImplementsStore
  BY InductiveInvariant, InitRefines, StepRefines, PTL DEF Spec, ImplementsStore, Store!Spec

=============================================================================
