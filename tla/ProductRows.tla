---------------------------- MODULE ProductRows ----------------------------
(***************************************************************************)
(* The data of the catalogue: a row of the products table, the three write *)
(* commands and the row each of them leaves behind.  Everything here is a  *)
(* constant operator; the state machines that apply the commands are       *)
(* ProductStore (what a repository promises) and PostgresRepository (how   *)
(* the code keeps the promise).                                            *)
(*                                                                         *)
(* Text is abstracted to who wrote it: the value of a patchable column is  *)
(* the request that supplied it, so a lost update is visible as a column   *)
(* that still names an earlier request.  The description, which no event   *)
(* carries, is left out: a PATCH of it alone is a PATCH of no attribute,   *)
(* as is an empty one, which the code accepts.                             *)
(***************************************************************************)
EXTENDS Integers

CONSTANTS
  Products,   \* product ids: those of the seed migration and fresh uuids
  Requests,   \* admin requests, one handler goroutine each
  Attrs,      \* columns a PATCH may set and events carry: name, price_cents, active
  Skus,       \* stock keeping units
  MaxStock,   \* largest value of the INTEGER column stock (2^31 - 1)
  Commands,   \* the commands requests may carry
  Seed,       \* the table the migrations leave behind
  Original,   \* value of an attribute no request has written yet
  NoRow       \* there is no such row

\* ver counts the changes of the row; it is not a column, the properties need it.
Row == [sku: Skus, stock: 0..MaxStock, attr: [Attrs -> Requests \cup {Original}],
        ver: Nat]

CreateProductCommand == [op: {"create"}, product: Products, sku: Skus, stock: 0..MaxStock]
UpdateProductCommand == [op: {"update"}, product: Products, fields: SUBSET Attrs]
UpdateStockCommand   == [op: {"stock"}, product: Products, delta: Int \ {0}]

ASSUME MaxStockAssumption == MaxStock \in Nat

\* Commands that passed domain.Validate and the delta # 0 check of the service.
ASSUME CommandsAssumption ==
  Commands \subseteq CreateProductCommand \cup UpdateProductCommand \cup UpdateStockCommand

ASSUME SeedAssumption ==
  /\ NoRow \notin Row
  /\ Seed \in [Products -> Row \cup {NoRow}]
  /\ \A p \in Products : Seed[p] # NoRow => Seed[p].ver = 0
  /\ \A p, q \in Products :
       Seed[p] # NoRow /\ Seed[q] # NoRow /\ Seed[p].sku = Seed[q].sku => p = q

----------------------------------------------------------------------------
\* INSERT INTO products ... RETURNING: every column from the command, active.
NewRow(r, c) == [sku |-> c.sku, stock |-> c.stock, attr |-> [a \in Attrs |-> r], ver |-> 1]

\* UPDATE with the SET list built from the fields that are present.
PatchedRow(r, c, row) ==
  [sku |-> row.sku, stock |-> row.stock,
   attr |-> [a \in Attrs |-> IF a \in c.fields THEN r ELSE row.attr[a]],
   ver |-> row.ver + 1]

\* UPDATE ... SET stock = stock + $1.
RestockedRow(c, row) ==
  [sku |-> row.sku, stock |-> row.stock + c.delta, attr |-> row.attr, ver |-> row.ver + 1]

\* The row an UPDATE statement of request r leaves in place of row.
Rewritten(r, c, row) ==
  IF c.op = "update" THEN PatchedRow(r, c, row) ELSE RestockedRow(c, row)

StockFits_NoCheck(c, row) == c.op = "stock" => row.stock + c.delta <= MaxStock
\* CHECK (stock >= 0) and the range of INTEGER.
StockFits(c, row) == c.op = "stock" => row.stock + c.delta \in 0..MaxStock

EventTypeOf(c) ==
  CASE c.op = "create" -> "product.created"
    [] c.op = "update" -> "product.updated"
    [] c.op = "stock"  -> "stock.changed"

EventTypes == {"product.created", "product.updated", "stock.changed"}
=============================================================================
