---------------------------- MODULE ProductStore ----------------------------
(***************************************************************************)
(* What the layers above expect of a write to the repository: one atomic   *)
(* step that installs the new row, records the event announcing it and     *)
(* answers, all about the row as it is at that moment.  A request that is  *)
(* refused leaves no trace, and the reason it is given is true when it is  *)
(* given; an error says nothing, for a change that took effect may still   *)
(* be reported as one.  Each request is answered once.                     *)
(***************************************************************************)
EXTENDS ProductRows

VARIABLES
  table,    \* [Products -> Row or NoRow]
  journal,  \* the announcements: [id, key, type, image]
  reply     \* the answer to each request

storeVars == <<table, journal, reply>>

Init ==
  /\ table = Seed
  /\ journal = {}
  /\ reply = [r \in Requests |-> "none"]

Answer(r, answer) ==
  /\ reply[r] = "none"
  /\ reply' = [reply EXCEPT ![r] = answer]

SkuInUse(s) == \E p \in Products : table[p] # NoRow /\ table[p].sku = s

Record(r, c, row) ==
  /\ \A e \in journal : e.id # r
  /\ table' = [table EXCEPT ![c.product] = row]
  /\ journal' = journal \cup
       {[id |-> r, key |-> c.product, type |-> EventTypeOf(c), image |-> row]}
  /\ \E answer \in {"ok", "error"} : Answer(r, answer)

Create(r, c) ==
  /\ c.op = "create"
  /\ table[c.product] = NoRow
  /\ ~SkuInUse(c.sku)
  /\ Record(r, c, NewRow(r, c))

Update(r, c) ==
  /\ c.op # "create"
  /\ table[c.product] # NoRow
  /\ StockFits(c, table[c.product])
  /\ Record(r, c, Rewritten(r, c, table[c.product]))

Refuse(r, answer) == Answer(r, answer) /\ UNCHANGED <<table, journal>>

RefuseSku(r, c) ==
  /\ c.op = "create"
  /\ SkuInUse(c.sku)
  /\ Refuse(r, "already_exists")

RefuseMissing(r, c) ==
  /\ c.op # "create"
  /\ table[c.product] = NoRow
  /\ Refuse(r, "not_found")

\* Below 0, or beyond the largest integer: the repositories differ on whether
\* the latter is an error.
RefuseStock(r, c) ==
  /\ c.op = "stock"
  /\ table[c.product] # NoRow
  /\ ~StockFits(c, table[c.product])
  /\ Refuse(r, "insufficient_stock")

Fail(r) == Refuse(r, "error")

Write(r, c) ==
  \/ Create(r, c) \/ Update(r, c)
  \/ RefuseSku(r, c) \/ RefuseMissing(r, c) \/ RefuseStock(r, c) \/ Fail(r)

Next == \E r \in Requests, c \in Commands : Write(r, c)

Spec == Init /\ [][Next]_storeVars
=============================================================================
