------------------------- MODULE MCCatalogEvents -------------------------
(* Small instances of CatalogEvents: changes of one product by up to three *)
(* requests, with batches of two.                                          *)
EXTENDS CatalogEvents, TLC

CONSTANTS seeded, name, skuA, r1, r2, r3, p1, p2

MCProducts == {seeded}
MCAttrs    == {name}
MCSkus     == {skuA}
TwoRequests   == {r1, r2}
ThreeRequests == {r1, r2, r3}
OnePublisher  == {p1}
TwoPublishers == {p1, p2}
NoPoison      == {}

MCSeed ==
  [p \in MCProducts |->
     [sku |-> skuA, stock |-> 1, attr |-> [a \in MCAttrs |-> Original], ver |-> 0]]

MCCommands ==
  {[op |-> "update", product |-> seeded, fields |-> {name}],
   [op |-> "stock", product |-> seeded, delta |-> 1]}
RestockOnly == {[op |-> "stock", product |-> seeded, delta |-> 1]}

InStep == [r \in Requests |-> 0]
\* r3 is served by a replica whose clock is ahead of the others'.
Skewed == [r \in Requests |-> IF r = r3 THEN 2 ELSE 0]

Symmetric == Permutations(Requests \ {r3})
=============================================================================
