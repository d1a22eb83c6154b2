------------------------ MODULE MCInMemoryRepository ------------------------
(* Small instances of InMemoryRepository: one seeded product, two that may *)
(* be created, stock next to both ends of an int32 of three values.        *)
EXTENDS InMemoryRepository, TLC

CONSTANTS prod1, prod2, prod3, name, skuA, skuB, skuC, r1, r2, r3, r4

MCProducts == {prod1, prod2, prod3}
MCIds      == <<prod1, prod2, prod3>>
MCRequests == {r1, r2, r3, r4}
MCAttrs    == {name}
MCSkus     == {skuA, skuB, skuC}
MCPageSizes == {1, 2}

MCSeed ==
  [p \in MCProducts |->
     IF p = prod1
     THEN [sku |-> skuA, stock |-> 1, attr |-> [a \in MCAttrs |-> Original], ver |-> 0]
     ELSE NoRow]

MCCommands ==
       {[op |-> "create", product |-> p, sku |-> s, stock |-> 0] : p \in MCProducts, s \in MCSkus}
  \cup {[op |-> "update", product |-> p, fields |-> {name}] : p \in MCProducts}
  \cup {[op |-> "stock", product |-> p, delta |-> d] :
          p \in MCProducts, d \in {-3, -2, -1, 1, 2}}

Symmetric == Permutations(Requests)
=============================================================================
