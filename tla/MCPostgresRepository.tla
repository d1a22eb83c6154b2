----------------------- MODULE MCPostgresRepository -----------------------
(* Small instances of PostgresRepository: one seeded product, two ids and  *)
(* two skus, so that creations meet each other and the seeded sku.         *)
EXTENDS PostgresRepository, TLC

CONSTANTS seeded, fresh, other,   \* products
          name, active,           \* patchable attributes
          skuA, skuB,             \* skus
          r1, r2, r3              \* requests

MCProducts == {seeded, fresh, other}
MCAttrs    == {name, active}
MCSkus     == {skuA, skuB}
ThreeRequests == {r1, r2, r3}

MCSeed ==
  [p \in MCProducts |->
     IF p = seeded
     THEN [sku |-> skuA, stock |-> 1, attr |-> [a \in MCAttrs |-> Original], ver |-> 0]
     ELSE NoRow]

Creating(p, s)  == [op |-> "create", product |-> p, sku |-> s, stock |-> 1]
Patching(p, fs) == [op |-> "update", product |-> p, fields |-> fs]
Stocking(p, d)  == [op |-> "stock", product |-> p, delta |-> d]

MCCommands ==
  {Creating(fresh, skuB), Creating(other, skuB), Creating(other, skuA),
   Patching(seeded, {name}), Patching(fresh, {active}),
   Stocking(seeded, -1), Stocking(seeded, 2)}

\* r3 is served by a replica whose clock is ahead of the others'.
Skewed == [r \in Requests |-> IF r = r3 THEN 2 ELSE 0]

Symmetric == Permutations({r1, r2})
=============================================================================
