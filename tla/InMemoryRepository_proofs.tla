----------------------- MODULE InMemoryRepository_proofs -----------------------
(***************************************************************************)
(* Theorems of InMemoryRepository, for every seed, every number of         *)
(* requests and every width of the integer.                                *)
(***************************************************************************)
EXTENDS InMemoryRepository, SequenceTheorems, TLAPS

Entry == [id: Products, row: Row]

\* The product at position i has the i-th id, which is why Len + 1 is a new one.
IdsByPosition ==
  /\ Len(products) <= Len(Ids)
  /\ \A i \in 1..Len(products) : products[i].id = Ids[i]

\* A request that has not been answered has written nothing.
JournalIsAnswered == \A e \in journal : reply[e.id] = "ok"

IInv ==
  /\ TypeOK
  /\ IdsByPosition
  /\ SliceIsMap
  /\ WalkIsExact
  /\ JournalIsAnswered

----------------------------------------------------------------------------
\* An int32 sum with a stock is at least 0 exactly if it did not wrap around.
LEMMA SumFits ==
  ASSUME NEW a \in 0..MaxStock, NEW b \in (-MaxStock - 1)..MaxStock
  PROVE  AddInt32(a, b) >= 0 <=> /\ AddInt32(a, b) = a + b
                                 /\ a + b \in 0..MaxStock
BY MaxStockAssumption DEF AddInt32

LEMMA CommandFacts ==
  ASSUME NEW c \in Commands
  PROVE  /\ c.op \in {"create", "update", "stock"}
         /\ c.product \in Products
         /\ c.op = "create" => c.sku \in Skus /\ c.stock \in 0..MaxStock
         /\ c.op = "update" => c.fields \in SUBSET Attrs
         /\ c.op = "stock" => c.delta \in (-MaxStock - 1)..MaxStock
         /\ EventTypeOf(c) \in EventTypes
BY CommandsAssumption, DeltaAssumption
   DEF CreateProductCommand, UpdateProductCommand, UpdateStockCommand, EventTypeOf, EventTypes

LEMMA NewRowFacts ==
  ASSUME NEW r \in Requests, NEW c \in Commands, c.op = "create"
  PROVE  NewRow(r, c) \in Row /\ NewRow(r, c) # NoRow /\ NewRow(r, c).sku = c.sku
<1>1. NewRow(r, c) \in Row
  BY CommandFacts DEF NewRow, Row
<1>2. QED
  BY <1>1, SeedAssumption DEF NewRow

LEMMA PatchedRowFacts ==
  ASSUME NEW r \in Requests, NEW c \in Commands, c.op = "update", NEW row \in Row
  PROVE  PatchedRow(r, c, row) \in Row /\ PatchedRow(r, c, row) # NoRow
         /\ PatchedRow(r, c, row) = Rewritten(r, c, row)
<1>1. PatchedRow(r, c, row) \in Row
  BY CommandFacts DEF PatchedRow, Row
<1>2. QED
  BY <1>1, SeedAssumption DEF Rewritten

\* What UpdateStock stores if it stores anything.
LEMMA RestockedFacts ==
  ASSUME NEW r \in Requests, NEW c \in Commands, c.op = "stock",
         byID[c.product] \in Row, NewStock(c) >= 0
  PROVE  /\ WithNewStock(c) \in Row /\ WithNewStock(c) # NoRow
         /\ WithNewStock(c) = Rewritten(r, c, byID[c.product])
         /\ StockFits(c, byID[c.product])
<1> DEFINE row == byID[c.product]
<1>1. row.stock \in 0..MaxStock /\ c.delta \in (-MaxStock - 1)..MaxStock
  BY CommandFacts DEF Row
<1>2. NewStock(c) = row.stock + c.delta /\ row.stock + c.delta \in 0..MaxStock
  BY <1>1, SumFits DEF NewStock
<1>3. StockFits(c, row)
  BY <1>2 DEF StockFits
<1>4. WithNewStock(c) = RestockedRow(c, row)
  BY <1>2 DEF WithNewStock, RestockedRow
<1>5. RestockedRow(c, row) \in Row
  BY <1>2 DEF RestockedRow, Row
<1>6. QED
  BY <1>3, <1>4, <1>5, SeedAssumption DEF Rewritten

LEMMA ReplacedFacts ==
  ASSUME products \in Seq(Entry), NEW p \in Products, NEW row \in Row
  PROVE  /\ Replaced(p, row) \in Seq(Entry)
         /\ Len(Replaced(p, row)) = Len(products)
         /\ \A i \in 1..Len(products) : Replaced(p, row)[i].id = products[i].id
<1>1. DOMAIN products = 1..Len(products) /\ \A i \in 1..Len(products) : products[i] \in Entry
  OBVIOUS
<1>2. [id |-> p, row |-> row] \in Entry
  BY DEF Entry
<1>3. Replaced(p, row) \in [1..Len(products) -> Entry]
  BY <1>1, <1>2 DEF Replaced
<1>4. Replaced(p, row) \in Seq(Entry) /\ Len(Replaced(p, row)) = Len(products)
  BY <1>3
<1>5. \A i \in 1..Len(products) : Replaced(p, row)[i].id = products[i].id
  BY <1>1 DEF Replaced
<1>6. QED
  BY <1>4, <1>5

LEMMA InitIInv == Init => IInv
<1> SUFFICES ASSUME Init
             PROVE  IInv
  OBVIOUS
<1> DEFINE entry(i) == [id |-> Ids[i], row |-> Seed[Ids[i]]]
<1>1. \A i \in 1..SeedLen : i \in DOMAIN Ids /\ Ids[i] \in Products /\ entry(i) \in Entry
  BY IdsAssumption, SeedAssumption DEF Entry
<1>2. products \in [1..SeedLen -> Entry]
  BY <1>1 DEF Init
<1>3. products \in Seq(Entry) /\ Len(products) = SeedLen /\ DOMAIN products = 1..SeedLen
  BY <1>2, IdsAssumption
<1>4. \A i \in 1..SeedLen : products[i].id = Ids[i] /\ products[i].row = Seed[Ids[i]]
  BY DEF Init
<1>5. TypeOK
  BY <1>3, SeedAssumption DEF Init, TypeOK, Replies, Entry
<1>6. IdsByPosition
  BY <1>3, <1>4, IdsAssumption DEF IdsByPosition
<1>7. SliceIsMap
  <2>1. \A i, j \in 1..SeedLen : products[i].id = products[j].id => i = j
    BY <1>1, <1>4, IdsAssumption
  <2>2. \A i \in 1..SeedLen : byID[products[i].id] = products[i].row
    BY <1>4 DEF Init
  <2>3. ASSUME NEW p \in Products, byID[p] # NoRow
        PROVE  \E i \in 1..SeedLen : products[i].id = p
    <3>1. PICK i \in 1..SeedLen : p = Ids[i]
      BY <2>3, IdsAssumption DEF Init
    <3>2. QED
      BY <1>4, <3>1
  <2>4. QED
    BY <1>3, <2>1, <2>2, <2>3 DEF SliceIsMap
<1>8. WalkIsExact
  BY <1>3, IdsAssumption DEF WalkIsExact, Init
<1>9. QED
  BY <1>5, <1>6, <1>7, <1>8 DEF IInv, JournalIsAnswered, Init

LEMMA SliceFacts ==
  ASSUME IInv
  PROVE  /\ products \in Seq(Entry) /\ DOMAIN products = 1..Len(products)
         /\ Len(products) \in Nat
         /\ \A i \in 1..Len(products) : products[i].id \in Products
<1>1. products \in Seq(Entry)
  BY DEF IInv, TypeOK, Entry
<1>2. \A i \in 1..Len(products) : products[i] \in Entry
  BY <1>1
<1>3. QED
  BY <1>1, <1>2 DEF Entry

\* What every successful write does to the answers and the journal.
LEMMA StoreFacts ==
  ASSUME IInv, NEW r \in Requests, NEW c \in Commands, NEW row \in Row, Store(r, c, row)
  PROVE  /\ reply' \in [Requests -> Replies]
         /\ journal' \subseteq Announcement
         /\ JournalIsAnswered'
         /\ byID' \in [Products -> Row \cup {NoRow}]
         /\ \A p \in Products : byID'[p] = IF p = c.product THEN row ELSE byID[p]
<1> USE DEF IInv, TypeOK, Store, Answer
<1>1. reply' \in [Requests -> Replies] /\ byID' \in [Products -> Row \cup {NoRow}]
  BY CommandFacts DEF Replies
<1>2. journal' \subseteq Announcement
  BY CommandFacts DEF Announcement
<1>3. JournalIsAnswered'
  BY DEF JournalIsAnswered, Announcement
<1>4. QED
  BY <1>1, <1>2, <1>3, CommandFacts

LEMMA CreateStep ==
  ASSUME IInv, NEW r \in Requests, NEW c \in Commands, Create(r, c)
  PROVE  IInv'
<1> DEFINE row == NewRow(r, c)
           new == [id |-> c.product, row |-> row]
<1> USE DEF IInv, TypeOK, Entry
<1>1. c.op = "create" /\ row \in Row /\ new \in Entry
  BY CommandFacts, NewRowFacts DEF Create
<1>2. products' = Append(products, new) /\ Store(r, c, row) /\ UNCHANGED walkVars
  BY DEF Create, Added, Store, Answer
<1>3. /\ products' \in Seq(Entry) /\ Len(products') = Len(products) + 1
      /\ \A i \in 1..Len(products) : products'[i] = products[i]
      /\ products'[Len(products) + 1] = new
  BY <1>1, <1>2
<1>4. c.product = Ids[Len(products) + 1] /\ Len(products) + 1 \in DOMAIN Ids
  BY IdsAssumption DEF Create, NextId
<1>5. \A i \in 1..Len(products) : products[i].id # c.product
  BY <1>4, IdsAssumption DEF IdsByPosition
<1>6. IdsByPosition'
  <2>1. Len(products') <= Len(Ids)
    BY <1>3, <1>4, IdsAssumption, SliceFacts
  <2>2. \A i \in 1..(Len(products) + 1) : products'[i].id = Ids[i]
    <3>1. \A i \in 1..Len(products) : products'[i].id = Ids[i]
      BY <1>3 DEF IdsByPosition
    <3>2. products'[Len(products) + 1].id = Ids[Len(products) + 1]
      BY <1>3, <1>4
    <3> HIDE DEF new, row
    <3>3. QED
      BY <3>1, <3>2, SliceFacts
  <2>3. QED
    BY <1>3, <2>1, <2>2 DEF IdsByPosition
<1>7. SliceIsMap'
  <2>1. \A p \in Products : byID'[p] = IF p = c.product THEN row ELSE byID[p]
    BY <1>1, <1>2, StoreFacts
  <2>2. DOMAIN products = 1..Len(products) /\ DOMAIN products' = 1..(Len(products) + 1)
    BY <1>3
  <2>3. \A i \in 1..Len(products) : products[i].id \in Products
    BY SliceFacts
  <2>4. new.id = c.product /\ new.row = row
    OBVIOUS
  <2> HIDE DEF row, new
  <2>5. \A i, j \in DOMAIN products' : products'[i].id = products'[j].id => i = j
    BY <1>3, <1>5, <2>2, <2>4 DEF SliceIsMap
  <2>6. \A i \in DOMAIN products' : byID'[products'[i].id] = products'[i].row
    BY <1>3, <1>5, <2>1, <2>2, <2>3, <2>4, CommandFacts DEF SliceIsMap
  <2>7. \A p \in Products : byID'[p] # NoRow => \E i \in DOMAIN products' : products'[i].id = p
    <3> SUFFICES ASSUME NEW p \in Products, byID'[p] # NoRow
                 PROVE  \E i \in DOMAIN products' : products'[i].id = p
      OBVIOUS
    <3>1. CASE p = c.product
      <4>1. Len(products) + 1 \in DOMAIN products'
        BY <2>2, SliceFacts
      <4>2. products'[Len(products) + 1].id = p
        BY <1>3, <2>4, <3>1
      <4>3. QED
        BY <4>1, <4>2
    <3>2. CASE p # c.product
      <4>1. PICK i \in DOMAIN products : products[i].id = p
        BY <2>1, <3>2 DEF SliceIsMap
      <4>2. i \in DOMAIN products' /\ products'[i].id = p
        BY <1>3, <2>2, <4>1, SliceFacts
      <4>3. QED
        BY <4>2
    <3>3. QED
      BY <3>1, <3>2
  <2>8. QED
    BY <2>5, <2>6, <2>7 DEF SliceIsMap
<1>8. WalkIsExact'
  BY <1>2, <1>3 DEF WalkIsExact, walkVars
<1>9. QED
  BY <1>1, <1>2, <1>3, <1>6, <1>7, <1>8, StoreFacts DEF walkVars

LEMMA RewriteStep ==
  ASSUME IInv, NEW r \in Requests, NEW c \in Commands, NEW row \in Row,
         byID[c.product] # NoRow, products' = Replaced(c.product, row), Store(r, c, row)
  PROVE  IInv'
<1> USE DEF IInv, TypeOK, Entry
<1>1. /\ products' \in Seq(Entry) /\ Len(products') = Len(products)
      /\ \A i \in 1..Len(products) : products'[i].id = products[i].id
  BY ReplacedFacts, CommandFacts
<1>2. UNCHANGED walkVars
  BY DEF Store, Answer
<1>3. IdsByPosition'
  BY <1>1 DEF IdsByPosition
<1>4. DOMAIN products = 1..Len(products) /\ DOMAIN products' = 1..Len(products)
      /\ \A i \in 1..Len(products) : products[i].id \in Products
  BY <1>1, SliceFacts
<1>5. SliceIsMap'
  <2>1. \A p \in Products : byID'[p] = IF p = c.product THEN row ELSE byID[p]
    BY StoreFacts
  <2>2. ASSUME NEW i \in 1..Len(products)
        PROVE  byID'[products'[i].id] = products'[i].row
    <3>1. CASE products[i].id = c.product
      <4>1. \A j \in 1..(i - 1) : products[j].id # c.product
        BY <1>4, <3>1 DEF SliceIsMap
      <4>2. products'[i] = [id |-> c.product, row |-> row]
        BY <1>4, <3>1, <4>1 DEF Replaced
      <4>3. QED
        BY <2>1, <4>2, CommandFacts
    <3>2. CASE products[i].id # c.product
      <4>1. products'[i] = products[i]
        BY <1>4, <3>2 DEF Replaced
      <4>2. QED
        BY <1>4, <2>1, <3>2, <4>1 DEF SliceIsMap
    <3>3. QED
      BY <3>1, <3>2
  <2>3. \A p \in Products : byID'[p] # NoRow => \E i \in 1..Len(products) : products'[i].id = p
    <3> SUFFICES ASSUME NEW p \in Products, byID'[p] # NoRow
                 PROVE  \E i \in 1..Len(products) : products'[i].id = p
      OBVIOUS
    <3>1. byID[p] # NoRow
      BY <2>1
    <3>2. PICK i \in 1..Len(products) : products[i].id = p
      BY <1>4, <3>1 DEF SliceIsMap
    <3>3. QED
      BY <1>1, <3>2
  <2>4. QED
    BY <1>1, <1>4, <2>2, <2>3 DEF SliceIsMap
<1>6. WalkIsExact'
  <2>1. \A i \in 1..offset : i \in 1..Len(products)
    BY SliceFacts DEF WalkIsExact
  <2>2. \A i \in 1..offset : products'[i].id = products[i].id
    BY <1>1, <2>1
  <2>3. {products'[i].id : i \in 1..offset} = {products[i].id : i \in 1..offset}
    BY <2>2
  <2>4. QED
    BY <1>1, <1>2, <2>3 DEF WalkIsExact, walkVars
<1>7. QED
  BY <1>1, <1>2, <1>3, <1>5, <1>6, StoreFacts DEF walkVars

LEMMA RefuseStep ==
  ASSUME IInv, NEW r \in Requests, NEW answer \in Replies, Refuse(r, answer)
  PROVE  IInv'
<1>1. UNCHANGED <<products, byID, journal, offset, seen>> /\ reply' \in [Requests -> Replies]
  BY DEF Refuse, Answer, walkVars, IInv, TypeOK
<1>2. JournalIsAnswered'
  BY DEF Refuse, Answer, IInv, TypeOK, JournalIsAnswered, Announcement
<1>3. QED
  BY <1>1, <1>2 DEF IInv, TypeOK, IdsByPosition, SliceIsMap, WalkIsExact

LEMMA ListStep ==
  ASSUME IInv, NEW limit \in PageSizes, List(limit)
  PROVE  IInv'
<1> USE DEF IInv, TypeOK
<1>1. PageEnd(limit) \in offset..Len(products) /\ offset' = PageEnd(limit) /\ UNCHANGED writeVars
  BY PageSizesAssumption DEF List, PageEnd
<1>2. \A i \in 1..Len(products) : products[i].id \in Products
  BY SliceFacts
<1>3. seen' = {products[i].id : i \in 1..PageEnd(limit)}
  BY <1>1 DEF List, WalkIsExact
<1>4. WalkIsExact' /\ seen' \subseteq Products /\ offset' \in Nat
  BY <1>1, <1>2, <1>3 DEF WalkIsExact, writeVars
<1>5. QED
  BY <1>1, <1>4 DEF writeVars, IdsByPosition, SliceIsMap, JournalIsAnswered

LEMMA NextIInv == IInv /\ [Next]_vars => IInv'
<1> SUFFICES ASSUME IInv, [Next]_vars
             PROVE  IInv'
  OBVIOUS
<1>1. ASSUME NEW r \in Requests, NEW c \in Commands, Write(r, c)
      PROVE  IInv'
  <2>1. CASE Create(r, c)
    BY <2>1, CreateStep
  <2>2. CASE RefuseCreate(r, c) \/ RefuseStock(r, c) \/ RefuseMissing(r, c)
    BY <2>2, RefuseStep DEF RefuseCreate, RefuseStock, RefuseMissing, Replies
  <2>3. CASE Update(r, c)
    <3>1. byID[c.product] \in Row /\ c.op = "update"
      BY <2>3, CommandFacts DEF Update, IInv, TypeOK
    <3>2. QED
      BY <2>3, <3>1, PatchedRowFacts, RewriteStep DEF Update
  <2>4. CASE UpdateStock(r, c)
    <3>1. byID[c.product] \in Row /\ c.op = "stock" /\ NewStock(c) >= 0
      BY <2>4, CommandFacts DEF UpdateStock, IInv, TypeOK
    <3>2. WithNewStock(c) \in Row
      BY <3>1, RestockedFacts
    <3>3. QED
      BY <2>4, <3>2, RewriteStep DEF UpdateStock
  <2>5. QED
    BY <1>1, <2>1, <2>2, <2>3, <2>4 DEF Write
<1>2. ASSUME NEW limit \in PageSizes, List(limit)
      PROVE  IInv'
  BY <1>2, ListStep
<1>3. CASE UNCHANGED vars
  BY <1>3 DEF vars, writeVars, walkVars, IInv, TypeOK, IdsByPosition, SliceIsMap, WalkIsExact,
     JournalIsAnswered
<1>4. QED
  BY <1>1, <1>2, <1>3 DEF Next, Quiescent

LEMMA InductiveInvariant == Spec => []IInv
<1>1. Init => IInv
  BY InitIInv
<1>2. IInv /\ [Next]_vars => IInv'
  BY NextIInv
<1>3. QED
  BY <1>1, <1>2, PTL DEF Spec

----------------------------------------------------------------------------
\* UpdateStock: no sum of int32 values that wrapped around is ever stored, and
\* every stored row has the types of a domain.Product that passed Validate.
THEOREM TypeCorrect == Spec => []TypeOK
<1>1. IInv => TypeOK
  BY DEF IInv
<1>2. QED
  BY <1>1, InductiveInvariant, PTL

\* Create, Update and UpdateStock write the slice and the map; after each of
\* them List and GetByID still show the same products.
THEOREM SliceAndMapAgree == Spec => []SliceIsMap
<1>1. IInv => SliceIsMap
  BY DEF IInv
<1>2. QED
  BY <1>1, InductiveInvariant, PTL

\* List: paging misses nothing and repeats nothing, because Create appends.
THEOREM PagingIsExact == Spec => []WalkIsExact
<1>1. IInv => WalkIsExact
  BY DEF IInv
<1>2. QED
  BY <1>1, InductiveInvariant, PTL

\* The abstract store computes rows and announcements as ProductRows does.
LEMMA AbstractRows ==
  ASSUME NEW r, NEW c, NEW row
  PROVE  /\ Abstract!EventTypeOf(c) = EventTypeOf(c)
         /\ Abstract!NewRow(r, c) = NewRow(r, c)
         /\ Abstract!Rewritten(r, c, row) = Rewritten(r, c, row)
         /\ Abstract!StockFits(c, row) <=> StockFits(c, row)
<1>1. Abstract!EventTypeOf(c) = EventTypeOf(c)
  BY DEF Abstract!EventTypeOf, EventTypeOf
<1>2. Abstract!NewRow(r, c) = NewRow(r, c)
  BY DEF Abstract!NewRow, NewRow
<1>3. Abstract!Rewritten(r, c, row) = Rewritten(r, c, row)
  BY DEF Abstract!Rewritten, Abstract!PatchedRow, Abstract!RestockedRow,
         Rewritten, PatchedRow, RestockedRow
<1>4. Abstract!StockFits(c, row) <=> StockFits(c, row)
  BY DEF Abstract!StockFits, StockFits
<1>5. QED
  BY <1>1, <1>2, <1>3, <1>4

\* A stock below 0 is one that does not fit: too small, or wrapped around.
LEMMA NegativeStock ==
  ASSUME NEW c \in Commands, c.op = "stock", byID[c.product] \in Row, NewStock(c) < 0
  PROVE  ~StockFits(c, byID[c.product])
<1> DEFINE row == byID[c.product]
<1>1. row.stock \in 0..MaxStock /\ c.delta \in (-MaxStock - 1)..MaxStock
  BY CommandFacts DEF Row
<1>2. row.stock + c.delta \notin 0..MaxStock
  BY <1>1, MaxStockAssumption DEF NewStock, AddInt32
<1>3. QED
  BY <1>2 DEF StockFits

\* Every answer is a step of the abstract store.
LEMMA WriteRefines ==
  ASSUME IInv, NEW r \in Requests, NEW c \in Commands, Write(r, c)
  PROVE  Abstract!Write(r, c)
<1>1. reply[r] = "none" => \A e \in journal : e.id # r
  BY DEF IInv, JournalIsAnswered
<1>2. ASSUME NEW row, Store(r, c, row)
      PROVE  Abstract!Record(r, c, row)
  <2>1. Abstract!Answer(r, "ok")
    BY <1>2 DEF Store, Answer, Abstract!Answer
  <2>2. QED
    BY <1>1, <1>2, <2>1, AbstractRows DEF Store, Answer, Abstract!Record
<1>3. ASSUME NEW answer, Refuse(r, answer)
      PROVE  Abstract!Refuse(r, answer)
  BY <1>3 DEF Refuse, Answer, Abstract!Refuse, Abstract!Answer
<1>4. \A s : SkuTaken(s) <=> Abstract!SkuInUse(s)
  <2>1. SliceIsMap /\ products \in Seq(Entry)
    BY DEF IInv, TypeOK, Entry
  <2>2. \A i \in DOMAIN products :
          /\ products[i].id \in Products /\ byID[products[i].id] = products[i].row
          /\ products[i].row # NoRow
    <3>1. \A i \in DOMAIN products : products[i] \in Entry
      BY <2>1
    <3>2. QED
      BY <2>1, <3>1, SeedAssumption DEF Entry, SliceIsMap
  <2>3. \A s : SkuTaken(s) => Abstract!SkuInUse(s)
    BY <2>2 DEF SkuTaken, Abstract!SkuInUse
  <2>4. ASSUME NEW p \in Products, byID[p] # NoRow
        PROVE  \E i \in DOMAIN products : products[i].row = byID[p]
    <3>1. PICK i \in DOMAIN products : products[i].id = p
      BY <2>1, <2>4 DEF SliceIsMap
    <3>2. QED
      BY <2>2, <3>1
  <2>5. QED
    BY <2>3, <2>4 DEF SkuTaken, Abstract!SkuInUse
<1>5. CASE Create(r, c)
  <2>1. c.op = "create" /\ c.product = Ids[Len(products) + 1] /\ Len(products) + 1 \in DOMAIN Ids
    BY <1>5, IdsAssumption, SliceFacts DEF Create, NextId
  <2>2. \A i \in 1..Len(products) : products[i].id # c.product
    BY <2>1, SliceFacts, IdsAssumption DEF IInv, IdsByPosition
  <2>3. byID[c.product] = NoRow
    BY <2>2, SliceFacts, CommandFacts DEF IInv, SliceIsMap
  <2>4. ~Abstract!SkuInUse(c.sku)
    BY <1>4, <1>5 DEF Create
  <2>5. Abstract!Record(r, c, NewRow(r, c))
    BY <1>2, <1>5 DEF Create
  <2>6. Abstract!Create(r, c)
    BY <2>1, <2>3, <2>4, <2>5, AbstractRows DEF Abstract!Create
  <2>7. QED
    BY <2>6 DEF Abstract!Write
<1>6. CASE RefuseCreate(r, c)
  <2>1. Abstract!RefuseSku(r, c)
    BY <1>3, <1>4, <1>6 DEF RefuseCreate, Abstract!RefuseSku
  <2>2. QED
    BY <2>1 DEF Abstract!Write
<1>7. CASE Update(r, c)
  <2>1. byID[c.product] \in Row /\ c.op = "update"
    BY <1>7, CommandFacts DEF Update, IInv, TypeOK
  <2>2. Abstract!Record(r, c, Rewritten(r, c, byID[c.product]))
    BY <1>2, <1>7, <2>1 DEF Rewritten, Update
  <2>3. Abstract!Update(r, c)
    BY <1>7, <2>1, <2>2, AbstractRows DEF Update, Abstract!Update, StockFits
  <2>4. QED
    BY <2>3 DEF Abstract!Write
<1>8. CASE UpdateStock(r, c)
  <2>1. byID[c.product] \in Row /\ c.op = "stock" /\ NewStock(c) >= 0
    BY <1>8, CommandFacts DEF UpdateStock, IInv, TypeOK
  <2>2. /\ WithNewStock(c) = Rewritten(r, c, byID[c.product])
        /\ StockFits(c, byID[c.product])
    BY <2>1, RestockedFacts
  <2>3. Abstract!Record(r, c, Rewritten(r, c, byID[c.product]))
    BY <1>2, <1>8, <2>2 DEF UpdateStock
  <2>4. Abstract!Update(r, c)
    BY <1>8, <2>1, <2>2, <2>3, AbstractRows DEF UpdateStock, Abstract!Update
  <2>5. QED
    BY <2>4 DEF Abstract!Write
<1>9. CASE RefuseStock(r, c)
  <2>1. byID[c.product] \in Row /\ c.op = "stock" /\ NewStock(c) < 0
    BY <1>9, CommandFacts DEF RefuseStock, IInv, TypeOK
  <2>2. ~Abstract!StockFits(c, byID[c.product])
    BY <2>1, NegativeStock, AbstractRows
  <2>3. Abstract!RefuseStock(r, c)
    BY <1>3, <1>9, <2>2 DEF RefuseStock, Abstract!RefuseStock
  <2>4. QED
    BY <2>3 DEF Abstract!Write
<1>10. CASE RefuseMissing(r, c)
  <2>1. Abstract!RefuseMissing(r, c)
    BY <1>3, <1>10 DEF RefuseMissing, Abstract!RefuseMissing
  <2>2. QED
    BY <2>1 DEF Abstract!Write
<1>11. QED
  BY <1>5, <1>6, <1>7, <1>8, <1>9, <1>10 DEF Write

LEMMA AbstractStep ==
  ASSUME IInv, [Next]_vars
  PROVE  [Abstract!Next]_(Abstract!storeVars)
<1>1. ASSUME NEW r \in Requests, NEW c \in Commands, Write(r, c)
      PROVE  Abstract!Next
  BY <1>1, WriteRefines DEF Abstract!Next
<1>2. ASSUME NEW limit \in PageSizes, List(limit)
      PROVE  UNCHANGED <<byID, journal, reply>>
  BY <1>2 DEF List, writeVars
<1>3. CASE UNCHANGED vars
  BY <1>3 DEF vars, writeVars, Abstract!storeVars
<1>4. QED
  BY <1>1, <1>2, <1>3 DEF Next, Quiescent, Abstract!storeVars

\* The in-memory repository keeps the promise PostgresRepository keeps: each
\* successful write is one atomic change of a row as it is at that moment, and
\* each refusal is true, one caused by a sum that wrapped around included.
THEOREM InMemoryImplementsStore == Spec => ImplementsStore
<1>1. Init => Abstract!Init
  BY DEF Init, Abstract!Init
<1>2. IInv /\ [Next]_vars => [Abstract!Next]_(Abstract!storeVars)
  BY AbstractStep
<1>3. QED
  BY <1>1, <1>2, InductiveInvariant, PTL DEF Spec, ImplementsStore, Abstract!Spec

=============================================================================
