-------------------------- MODULE MCAdminService -----------------------------
(* Small instances of AdminService: one stored product, ids for two         *)
(* creations, and a body of each kind the layers tell apart.               *)
EXTENDS AdminService

CONSTANTS prod1, prod2, prod3, name, skuA, skuB, r1, r2

MCProducts == {prod1, prod2, prod3}
MCRequests == {r1, r2}
MCAttrs    == {name}
MCSkus     == {skuA, skuB}

MCSeed ==
  [p \in MCProducts |->
     IF p = prod1
     THEN [sku |-> skuA, stock |-> 1, attr |-> [a \in MCAttrs |-> Original], ver |-> 0]
     ELSE NoRow]

MCCommands ==
       {[op |-> "create", product |-> p, sku |-> s, stock |-> 0] :
          p \in {prod2, prod3}, s \in MCSkus}
  \cup {[op |-> "update", product |-> p, fields |-> f] :
          p \in {prod1, prod2}, f \in SUBSET MCAttrs}
  \cup {[op |-> "stock", product |-> p, delta |-> d] : p \in {prod1, prod2}, d \in {-2, 1}}

\* Bodies with one field set, the others zero as after decoding.
Plain == [sku |-> skuA, stock |-> 0, fields |-> {}, delta |-> 0, legal |-> TRUE]
CreateBodies ==
  {[Plain EXCEPT !.sku = skuB], Plain, [Plain EXCEPT !.stock = -1], [Plain EXCEPT !.legal = FALSE]}
PatchBodies == {[Plain EXCEPT !.fields = {name}], [Plain EXCEPT !.legal = FALSE]}
StockBodies == {[Plain EXCEPT !.delta = d] : d \in {-2, 0, 1}}

Input(methods, paths, ids, bodies) ==
  [method: methods, path: paths, id: ids, parses: {TRUE}, body: bodies]

AskedIds == Ids \ {prod3}

MCInputs ==
       Input({"POST"}, {"products"}, {NoId}, CreateBodies)
  \cup Input({"PATCH"}, {"product"}, AskedIds, PatchBodies)
  \cup Input({"POST", "PATCH"}, {"stock"}, AskedIds, StockBodies)
  \cup Input({"ListProducts", "StreamProducts"}, {"grpc"}, {NoId},
             {Plain, [Plain EXCEPT !.legal = FALSE]})
  \cup Input({"GetProduct"}, {"grpc"}, AskedIds, {Plain})
  \cup Input({"GET"}, {"product"}, {prod1}, {Plain})
  \cup {[i EXCEPT !.parses = FALSE] : i \in Input({"POST"}, {"products", "stock"}, {prod1}, {Plain})}

InStep == [r \in MCRequests |-> 0]
=============================================================================
