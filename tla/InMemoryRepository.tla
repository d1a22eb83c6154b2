------------------------- MODULE InMemoryRepository -------------------------
(***************************************************************************)
(* internal/repository/in_memory: the products in a slice, in the order    *)
(* they were added, and once more in a map by id.  A write holds the mutex *)
(* from its first check to its last assignment, List and GetByID hold it   *)
(* for reading, so each call is one step.  Stock is a Go int32 here, not a *)
(* column that refuses what does not fit.                                  *)
(***************************************************************************)
EXTENDS ProductRows, Sequences

CONSTANTS
  Ids,       \* ids by position in the slice: the seed's, then "prod-<n>"
  SeedLen,   \* products of the seed
  PageSizes  \* limits a client pages with, between 1 and maxListLimit

\* No id of the seed is one the repository will make up: those of
\* defaultProducts are "prod-001" to "prod-005", and "prod-6" follows.
ASSUME IdsAssumption ==
  /\ Ids \in Seq(Products)
  /\ \A i, j \in DOMAIN Ids : Ids[i] = Ids[j] => i = j
  /\ SeedLen \in 0..Len(Ids)
  /\ \A p \in Products : Seed[p] # NoRow <=> \E i \in 1..SeedLen : p = Ids[i]

ASSUME DeltaAssumption ==
  \A c \in Commands : c.op = "stock" => c.delta \in (-MaxStock - 1)..MaxStock

ASSUME PageSizesAssumption == PageSizes \subseteq Nat \ {0}

VARIABLES
  products,  \* the slice, a sequence of [id, row]
  byID,      \* the map, [Products -> Row or NoRow]
  reply,     \* answer to each write
  journal,   \* the writes that succeeded (history)
  offset,    \* where a client that pages through List has come to
  seen       \* ids it has received

writeVars == <<products, byID, reply, journal>>
walkVars  == <<offset, seen>>
vars == <<writeVars, walkVars>>

Replies == {"none", "ok", "not_found", "already_exists", "insufficient_stock"}

Init ==
  /\ products = [i \in 1..SeedLen |-> [id |-> Ids[i], row |-> Seed[Ids[i]]]]
  /\ byID = Seed
  /\ reply = [r \in Requests |-> "none"]
  /\ journal = {}
  /\ offset = 0
  /\ seen = {}

----------------------------------------------------------------------------
\* Addition of two int32 values: -MaxStock - 1 follows MaxStock.
AddInt32_Unbounded(a, b) == a + b
AddInt32_Saturating(a, b) == IF a + b > MaxStock THEN MaxStock ELSE a + b
AddInt32(a, b) ==
  CASE a + b > MaxStock      -> a + b - 2 * (MaxStock + 1)
    [] a + b < -MaxStock - 1 -> a + b + 2 * (MaxStock + 1)
    [] OTHER                 -> a + b

Answer(r, answer) ==
  /\ reply[r] = "none"
  /\ reply' = [reply EXCEPT ![r] = answer]
  /\ UNCHANGED walkVars

Refuse(r, answer) == Answer(r, answer) /\ UNCHANGED <<products, byID, journal>>

\* The write is over, with row as the product of c.
Store(r, c, row) ==
  /\ Answer(r, "ok")
  /\ byID' = [byID EXCEPT ![c.product] = row]
  /\ journal' = journal \cup
       {[id |-> r, key |-> c.product, type |-> EventTypeOf(c), image |-> row]}

SkuTaken(s) == \E i \in DOMAIN products : products[i].row.sku = s

NextId_Length == Ids[Len(products)]
\* fmt.Sprintf("prod-%d", len(r.products)+1)
NextId == Ids[Len(products) + 1]

Added_InFront(entry) == <<entry>> \o products
Added(entry) == Append(products, entry)

Create(r, c) ==
  /\ c.op = "create"
  /\ ~SkuTaken(c.sku)
  /\ Len(products) < Len(Ids)
  /\ c.product = NextId
  /\ products' = Added([id |-> c.product, row |-> NewRow(r, c)])
  /\ Store(r, c, NewRow(r, c))

RefuseCreate(r, c) ==
  /\ c.op = "create"
  /\ SkuTaken(c.sku)
  /\ Refuse(r, "already_exists")

\* The loop over the slice replaces the first entry with the id, then breaks.
Replaced_MapOnly(p, row) == products
Replaced(p, row) ==
  [i \in DOMAIN products |->
     IF products[i].id = p /\ \A j \in 1..(i - 1) : products[j].id # p
     THEN [id |-> p, row |-> row] ELSE products[i]]

Update(r, c) ==
  /\ c.op = "update"
  /\ byID[c.product] # NoRow
  /\ products' = Replaced(c.product, PatchedRow(r, c, byID[c.product]))
  /\ Store(r, c, PatchedRow(r, c, byID[c.product]))

NewStock(c) == AddInt32(byID[c.product].stock, c.delta)

\* product.Stock = newStock; the other columns stay.
WithNewStock(c) ==
  LET row == byID[c.product] IN
  [sku |-> row.sku, stock |-> NewStock(c), attr |-> row.attr, ver |-> row.ver + 1]

UpdateStock(r, c) ==
  /\ c.op = "stock"
  /\ byID[c.product] # NoRow
  /\ NewStock(c) >= 0
  /\ products' = Replaced(c.product, WithNewStock(c))
  /\ Store(r, c, WithNewStock(c))

RefuseStock(r, c) ==
  /\ c.op = "stock"
  /\ byID[c.product] # NoRow
  /\ NewStock(c) < 0
  /\ Refuse(r, "insufficient_stock")

RefuseMissing(r, c) ==
  /\ c.op \in {"update", "stock"}
  /\ byID[c.product] = NoRow
  /\ Refuse(r, "not_found")

PageEnd(limit) ==
  IF offset + limit > Len(products) THEN Len(products) ELSE offset + limit

\* List with the client's offset; the next one continues behind what it got.
\* GetByID, and a List that is cancelled or comes back empty, change nothing.
List(limit) ==
  /\ offset < Len(products)
  /\ seen' = seen \cup {products[i].id : i \in (offset + 1)..PageEnd(limit)}
  /\ offset' = PageEnd(limit)
  /\ UNCHANGED writeVars

\* Every write was answered and the client has read the last page.
Quiescent ==
  /\ \A r \in Requests : reply[r] # "none"
  /\ offset = Len(products)
  /\ UNCHANGED vars

Write(r, c) ==
  \/ Create(r, c) \/ RefuseCreate(r, c)
  \/ Update(r, c) \/ UpdateStock(r, c) \/ RefuseStock(r, c) \/ RefuseMissing(r, c)

Next ==
  \/ \E r \in Requests, c \in Commands : Write(r, c)
  \/ \E limit \in PageSizes : List(limit)
  \/ Quiescent

Spec == Init /\ [][Next]_vars

----------------------------------------------------------------------------
(* Properties.                                                             *)

Announcement == [id: Requests, key: Products, type: EventTypes, image: Row]

\* Every row fits its types; no addition of int32 values ever stores a stock
\* that wrapped around or left 0..MaxStock.
TypeOK ==
  /\ products \in Seq([id: Products, row: Row])
  /\ byID \in [Products -> Row \cup {NoRow}]
  /\ reply \in [Requests -> Replies]
  /\ journal \subseteq Announcement
  /\ offset \in Nat
  /\ seen \subseteq Products

\* The slice List reads and the map GetByID reads hold the same products, each
\* once, whatever writes came in which order.
SliceIsMap ==
  /\ \A i, j \in DOMAIN products : products[i].id = products[j].id => i = j
  /\ \A i \in DOMAIN products : byID[products[i].id] = products[i].row
  /\ \A p \in Products : byID[p] # NoRow => \E i \in DOMAIN products : products[i].id = p

\* List: a client that pages with any limits while products are being created
\* receives no product twice and none is passed over: what it has seen is
\* exactly what stands in front of its offset.
WalkIsExact ==
  /\ offset <= Len(products)
  /\ seen = {products[i].id : i \in 1..offset}

\* The repository is a ProductStore, the abstract store PostgresRepository
\* implements too: an increment beyond int32 wraps to a negative number and is
\* refused like a decrement below 0, and ids made from the length never clash.
Abstract == INSTANCE ProductStore WITH table <- byID
ImplementsStore == Abstract!Spec
=============================================================================
