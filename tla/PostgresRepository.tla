------------------------- MODULE PostgresRepository -------------------------
(***************************************************************************)
(* internal/repository/postgres: Create, Update and UpdateStock, each one  *)
(* transaction of two statements - the row, then the outbox event that     *)
(* announces it - run concurrently by the handler goroutines of any number *)
(* of replicas over one database.                                          *)
(*                                                                         *)
(* Assumed of PostgreSQL at READ COMMITTED, the level BeginTx(ctx, nil)    *)
(* selects: an UPDATE waits for the transaction holding the row and then   *)
(* reads what it committed; an INSERT waits for the transaction holding    *)
(* the unique key; NOW() is the start of the transaction; uncommitted rows *)
(* are invisible; a transaction that does not commit leaves nothing.       *)
(***************************************************************************)
EXTENDS ProductRows

CONSTANT Skew  \* how far the clock of the replica that serves a request is
               \* ahead of the clock of the database

ASSUME SkewAssumption == Skew \in [Requests -> Nat]

VARIABLES
  table,     \* committed rows of products, [Products -> Row or NoRow]
  events,    \* committed rows of outbox_events
  pc,        \* progress of each request's transaction
  cmd,       \* its command
  begun,     \* what NOW() returns in it: the created_at of its event
  image,     \* the row RETURNING gave it, still uncommitted
  occurred,  \* OccuredAt of its event, time.Now() of the process
  reply,     \* what the repository returned to the service
  now        \* the clock of the database: advances at every reading of any

txVars == <<pc, cmd, begun, image, occurred, reply>>
vars == <<table, events, txVars, now>>

Replies == {"none", "ok", "not_found", "already_exists", "insufficient_stock", "error"}
Phases  == {"idle", "begun", "written", "staged", "done"}

NoCommand == [op |-> "none"]

Event == [id: Requests, key: Products, type: EventTypes, image: Row,
          created: Nat, occurred: Nat]

Init ==
  /\ table = Seed
  /\ events = {}
  /\ pc = [r \in Requests |-> "idle"]
  /\ cmd = [r \in Requests |-> NoCommand]
  /\ begun = [r \in Requests |-> 0]
  /\ image = [r \in Requests |-> NoRow]
  /\ occurred = [r \in Requests |-> 0]
  /\ reply = [r \in Requests |-> "none"]
  /\ now = 1

----------------------------------------------------------------------------
(* Locks.  A transaction holds its row, or its new id and sku, from its    *)
(* first statement until it ends; defer tx.Rollback() ends it on every     *)
(* path that does not commit.                                              *)

HoldingPhases_NoRollback == {"written", "staged", "done"}
HoldingPhases == {"written", "staged"}

Holding(r) == pc[r] \in HoldingPhases

RowFree_NoLock(r) == TRUE
RowFree(r) == \A q \in Requests \ {r} : Holding(q) => cmd[q].product # cmd[r].product

SkuUnclaimed_CheckOnly(r) == TRUE
SkuUnclaimed(r) ==
  \A q \in Requests \ {r} :
    Holding(q) /\ cmd[q].op = "create" => cmd[q].sku # cmd[r].sku

SkuInUse(s) == \E p \in Products : table[p] # NoRow /\ table[p].sku = s

----------------------------------------------------------------------------
(* The request reaches the repository and BeginTx succeeds.  Create draws  *)
(* a fresh uuid, so no other row or request ever has its id.  NOW() of the *)
(* transaction counts microseconds: two of them may read the same.         *)
BeginTx(r, c) ==
  /\ pc[r] = "idle"
  /\ c.op = "create" =>
       /\ table[c.product] = NoRow
       /\ \A q \in Requests : cmd[q].op = "create" => cmd[q].product # c.product
  /\ pc' = [pc EXCEPT ![r] = "begun"]
  /\ cmd' = [cmd EXCEPT ![r] = c]
  /\ begun' = [begun EXCEPT ![r] = now]
  /\ now' \in {now, now + 1}
  /\ UNCHANGED <<table, events, image, occurred, reply>>

\* The transaction ends and the repository returns.
Return(r, answer) ==
  /\ pc' = [pc EXCEPT ![r] = "done"]
  /\ image' = [image EXCEPT ![r] = NoRow]
  /\ reply' = [reply EXCEPT ![r] = answer]
  /\ UNCHANGED <<cmd, begun, occurred, now>>

\* The first statement succeeds: scanProduct reads the RETURNING row.
Wrote(r, row) ==
  /\ pc' = [pc EXCEPT ![r] = "written"]
  /\ image' = [image EXCEPT ![r] = row]
  /\ UNCHANGED <<table, events, cmd, begun, occurred, reply, now>>

InsertProduct(r) ==
  /\ pc[r] = "begun"
  /\ cmd[r].op = "create"
  /\ ~SkuInUse(cmd[r].sku)
  /\ SkuUnclaimed(r)
  /\ Wrote(r, NewRow(r, cmd[r]))

\* "duplicate key value violates unique constraint"
RejectDuplicateSku(r) ==
  /\ pc[r] = "begun"
  /\ cmd[r].op = "create"
  /\ SkuInUse(cmd[r].sku)
  /\ Return(r, "already_exists")
  /\ UNCHANGED <<table, events>>

PatchProduct(r) ==
  /\ pc[r] = "begun"
  /\ cmd[r].op = "update"
  /\ table[cmd[r].product] # NoRow
  /\ RowFree(r)
  /\ Wrote(r, PatchedRow(r, cmd[r], table[cmd[r].product]))

AddStock(r) ==
  /\ pc[r] = "begun"
  /\ cmd[r].op = "stock"
  /\ table[cmd[r].product] # NoRow
  /\ RowFree(r)
  /\ StockFits(cmd[r], table[cmd[r].product])
  /\ Wrote(r, RestockedRow(cmd[r], table[cmd[r].product]))

\* The CHECK constraint is ErrInsufficientStock; "integer out of range" names
\* neither "check" nor "stock" and stays a plain error.
RejectStock(r) ==
  /\ pc[r] = "begun"
  /\ cmd[r].op = "stock"
  /\ table[cmd[r].product] # NoRow
  /\ RowFree(r)
  /\ ~StockFits(cmd[r], table[cmd[r].product])
  /\ Return(r, IF table[cmd[r].product].stock + cmd[r].delta < 0
               THEN "insufficient_stock" ELSE "error")
  /\ UNCHANGED <<table, events>>

\* No row matches the WHERE clause: sql.ErrNoRows.
RejectMissing(r) ==
  /\ pc[r] = "begun"
  /\ cmd[r].op \in {"update", "stock"}
  /\ table[cmd[r].product] = NoRow
  /\ Return(r, "not_found")
  /\ UNCHANGED <<table, events>>

OccuredAt_TxStart(r) == begun[r] + Skew[r]
\* time.Now() of the replica, in nanoseconds: a commit and an UPDATE lie between
\* two readings for one product, so these do not tie.
OccuredAt(r) == now + Skew[r]

\* insertOutboxEvent, in the same transaction.
InsertOutboxEvent(r) ==
  /\ pc[r] = "written"
  /\ pc' = [pc EXCEPT ![r] = "staged"]
  /\ occurred' = [occurred EXCEPT ![r] = OccuredAt(r)]
  /\ now' = now + 1
  /\ UNCHANGED <<table, events, cmd, begun, image, reply>>

\* The payload is the RETURNING row; created_at defaults to NOW().
EventOf_PreImage(r) ==
  [id |-> r, key |-> cmd[r].product, type |-> EventTypeOf(cmd[r]),
   image |-> IF table[cmd[r].product] = NoRow THEN image[r] ELSE table[cmd[r].product],
   created |-> begun[r], occurred |-> occurred[r]]
EventOf(r) ==
  [id |-> r, key |-> cmd[r].product, type |-> EventTypeOf(cmd[r]),
   image |-> image[r], created |-> begun[r], occurred |-> occurred[r]]

CommittedEvents_Forgotten(r) == IF cmd[r].op = "update" THEN events ELSE events \cup {EventOf(r)}
CommittedEvents(r) == events \cup {EventOf(r)}

\* Commit takes effect; its acknowledgement may still be lost, and then the
\* repository reports an error for a change that is durable.
Commit(r) ==
  /\ pc[r] = "staged"
  /\ table' = [table EXCEPT ![cmd[r].product] = image[r]]
  /\ events' = CommittedEvents(r)
  /\ \E answer \in {"ok", "error"} : Return(r, answer)

FailureReply_Swallowed == "ok"
FailureReply == "error"

\* BeginTx, a statement or Commit fails, the request's context is cancelled
\* or the process dies: the server rolls the transaction back.
Abort(r) ==
  /\ pc[r] \in {"begun", "written", "staged"}
  /\ Return(r, FailureReply)
  /\ UNCHANGED <<table, events>>

\* Every request has been answered.
Quiescent ==
  /\ \A r \in Requests : pc[r] = "done"
  /\ UNCHANGED vars

----------------------------------------------------------------------------
Statement(r) ==
  \/ InsertProduct(r) \/ RejectDuplicateSku(r)
  \/ PatchProduct(r) \/ AddStock(r) \/ RejectStock(r) \/ RejectMissing(r)
  \/ InsertOutboxEvent(r)

\* A step that leaves the committed rows alone.
Uncommitted(r) == (\E c \in Commands : BeginTx(r, c)) \/ Statement(r) \/ Abort(r)

Next == (\E r \in Requests : Uncommitted(r) \/ Commit(r)) \/ Quiescent

Spec == Init /\ [][Next]_vars

----------------------------------------------------------------------------
(* Properties.                                                             *)

\* Every stored value has its column's type; stock never leaves 0..MaxStock,
\* which is what the CHECK constraint of migration 1 is for.
TypeOK ==
  /\ table \in [Products -> Row \cup {NoRow}]
  /\ events \subseteq Event
  /\ pc \in [Requests -> Phases]
  /\ cmd \in [Requests -> Commands \cup {NoCommand}]
  /\ begun \in [Requests -> Nat]
  /\ image \in [Requests -> Row \cup {NoRow}]
  /\ occurred \in [Requests -> Nat]
  /\ reply \in [Requests -> Replies]
  /\ now \in Nat

\* Two products never share a sku, however Create calls interleave.
UniqueSku ==
  \A p, q \in Products :
    table[p] # NoRow /\ table[q] # NoRow /\ table[p].sku = table[q].sku => p = q

\* Create, Update, UpdateStock: a row that was changed v times has exactly one
\* outbox event for each of those changes and none for any other.
EventPerChange ==
  /\ \A e \in events : /\ table[e.key] # NoRow
                       /\ e.image.ver \in 1..table[e.key].ver
  /\ \A e, f \in events : e.key = f.key /\ e.image.ver = f.image.ver => e = f
  /\ \A p \in Products : table[p] # NoRow =>
       \A v \in 1..table[p].ver : \E e \in events : e.key = p /\ e.image.ver = v

\* The images an event of product p may have been computed from.
EarlierImages(p) == {Seed[p]} \cup {f.image : f \in {g \in events : g.key = p}}

\* Update and UpdateStock: the image of each event is its own command applied
\* to the image of the change before it, and the newest image is the row. No
\* concurrent change is lost, merged or applied twice.
SerialHistory ==
  /\ \A e \in events :
       LET c == cmd[e.id] IN
       IF c.op = "create" THEN e.image = NewRow(e.id, c)
       ELSE \E prev \in EarlierImages(e.key) :
              /\ prev # NoRow
              /\ prev.ver + 1 = e.image.ver
              /\ e.image = Rewritten(e.id, c, prev)
  /\ \A p \in Products : table[p] # NoRow =>
       \E newest \in EarlierImages(p) : newest = table[p]

Instant(e) == e.occurred - Skew[e.id]

\* insertOutboxEvent reads the clock while the row is locked, so OccuredAt
\* orders the events of a product as its changes were applied: always those of
\* replicas whose clocks agree, and others wrongly by less than their skew.
OccurredInOrder ==
  \A e, f \in events :
    e.key = f.key /\ e.image.ver < f.image.ver => Instant(e) < Instant(f)

\* A success reply means the change and its event are durable; a refusal
\* (not found, already exists, insufficient stock) means nothing was written.
HonestReplies ==
  \A r \in Requests :
    /\ reply[r] = "ok" => \E e \in events : e.id = r
    /\ reply[r] \in {"not_found", "already_exists", "insufficient_stock"} =>
         \A e \in events : e.id # r

\* The repository implements ProductStore: each commit is one atomic change
\* of a row together with its announcement.
Announcement(e) == [id |-> e.id, key |-> e.key, type |-> e.type, image |-> e.image]
Store == INSTANCE ProductStore WITH journal <- {Announcement(e) : e \in events}
ImplementsStore == Store!Spec
=============================================================================
