--------------------------- MODULE RequestHandling ---------------------------
(***************************************************************************)
(* A request on its way through the layers above the repository: router,   *)
(* transport handler, catalogue service, and back with the service's       *)
(* metric label and the status on the wire.  The repository is taken at    *)
(* its word: a write is one step of ProductStore, its answers included.    *)
(*                                                                         *)
(* Every handler is one goroutine and shares nothing with the others but   *)
(* the store.  Bodies are what encoding/json makes of them: a field that a *)
(* handler does not know is ignored, one that is missing is zero.          *)
(***************************************************************************)
EXTENDS ProductRows

CONSTANTS
  Inputs,   \* what clients may send
  NoInput,  \* nothing was sent yet
  NoId,     \* the path has no id, or the message an empty one
  BlankId   \* an id of white space

Ids == Products \cup {NoId, BlankId}

\* legal: what Validate asks of name, sku, price and currency, or the limit of
\* a listing is at most 1000.
Body == [sku: Skus, stock: Int, fields: SUBSET Attrs, delta: Int, legal: BOOLEAN]

Methods == {"POST", "PATCH", "GET", "ListProducts", "GetProduct", "StreamProducts"}
Paths == {"products", "product", "stock", "grpc"}

ASSUME InputsAssumption ==
  /\ NoInput \notin Inputs
  /\ NoId \notin Products /\ BlankId \notin Products /\ NoId # BlankId
  /\ \A i \in Inputs :
       /\ i \in [method: Methods, path: Paths, id: Ids, parses: BOOLEAN, body: Body]
       /\ i.path = "grpc" <=> i.method \in {"ListProducts", "GetProduct", "StreamProducts"}

VARIABLES
  table, journal, reply,  \* the store
  at,       \* how far each request has come
  input,    \* what it carries
  outcome,  \* error the service got or made, "ok" for nil
  label,    \* status label of catalog_service_requests_total
  answer    \* HTTP status or gRPC code

storeVars == <<table, journal, reply>>
vars == <<storeVars, at, input, outcome, label, answer>>

Store == INSTANCE ProductStore

Places == {"idle", "service", "repository", "answering", "answered"}
Outcomes == {"none", "ok", "invalid_product", "invalid", "not_found", "already_exists",
             "insufficient_stock", "error"}
Labels == {"none", "success", "invalid_argument", "not_found", "already_exists",
           "insufficient_stock", "error"}
Successes == {"200", "201", "OK"}
Refusals == {"400", "404", "405", "409", "422", "NotFound", "InvalidArgument"}
Failures == {"500", "Internal"}

Init ==
  /\ Store!Init
  /\ at = [r \in Requests |-> "idle"]
  /\ input = [r \in Requests |-> NoInput]
  /\ outcome = [r \in Requests |-> "none"]
  /\ label = [r \in Requests |-> "none"]
  /\ answer = [r \in Requests |-> "none"]

----------------------------------------------------------------------------
(* Router and transport handlers.                                          *)

\* A PATCH of any path below /admin/products/ goes to UpdateProduct.
Route(i) ==
  CASE i.path = "grpc" -> i.method
    [] i.path = "products" /\ i.method = "POST" -> "create"
    [] i.path = "stock" /\ i.method = "POST"    -> "stock"
    [] i.path \in {"product", "stock"} /\ i.method = "PATCH" -> "update"
    [] OTHER -> "not_allowed"

Writes == {"create", "update", "stock"}

\* What the handler refuses before it calls the service; "none" if nothing.
TransportRefusal(i) ==
  CASE Route(i) = "not_allowed" -> "405"
    [] Route(i) \in {"update", "stock"} /\ i.id = NoId -> "400"
    [] Route(i) \in Writes /\ ~i.parses -> "400"
    [] Route(i) \in {"ListProducts", "StreamProducts"} /\ ~i.body.legal -> "InvalidArgument"
    [] Route(i) = "GetProduct" /\ i.id \in {NoId, BlankId} -> "InvalidArgument"
    [] OTHER -> "none"

Receive(r, i) ==
  /\ at[r] = "idle"
  /\ input' = [input EXCEPT ![r] = i]
  /\ answer' = [answer EXCEPT ![r] = TransportRefusal(i)]
  /\ at' = [at EXCEPT ![r] = IF TransportRefusal(i) = "none" THEN "service" ELSE "answered"]
  /\ UNCHANGED <<storeVars, outcome, label>>

----------------------------------------------------------------------------
(* The service, and the repository under it.                               *)

\* The error of Validate, or of UpdateStock's own checks; "ok" if there is none.
Validation(i) ==
  CASE Route(i) = "create" /\ (~i.body.legal \/ i.body.stock < 0) -> "invalid_product"
    [] Route(i) = "update" /\ (~i.body.legal \/ i.id = BlankId)   -> "invalid_product"
    [] Route(i) = "stock" /\ (i.body.delta = 0 \/ i.id = BlankId) -> "invalid"
    [] OTHER -> "ok"

Validate(r) ==
  /\ at[r] = "service"
  /\ IF Validation(input[r]) = "ok"
     THEN at' = [at EXCEPT ![r] = "repository"] /\ UNCHANGED outcome
     ELSE /\ at' = [at EXCEPT ![r] = "answering"]
          /\ outcome' = [outcome EXCEPT ![r] = Validation(input[r])]
  /\ UNCHANGED <<storeVars, input, label, answer>>

\* c is the command the handler made of the request; the id of a creation is
\* the repository's choice.
Carries(i, c) ==
  /\ c.op = Route(i)
  /\ c.op = "create" => c.sku = i.body.sku /\ c.stock = i.body.stock
  /\ c.op = "update" => c.product = i.id /\ c.fields = i.body.fields
  /\ c.op = "stock"  => c.product = i.id /\ c.delta = i.body.delta

Returns(r, result) ==
  /\ at' = [at EXCEPT ![r] = "answering"]
  /\ outcome' = [outcome EXCEPT ![r] = result]
  /\ UNCHANGED <<input, label, answer>>

\* The error of a write goes up as it is; nothing is tried twice.
WriteOutcome_Retried(result) == IF result = "error" THEN "already_exists" ELSE result
WriteOutcome(result) == result

Call(r, c) ==
  /\ at[r] = "repository"
  /\ Carries(input[r], c)
  /\ Store!Write(r, c)
  /\ Returns(r, WriteOutcome(reply'[r]))

\* Database or Redis down, or the context cancelled.
ReadFails(r) ==
  /\ at[r] = "repository"
  /\ Route(input[r]) \notin Writes
  /\ Returns(r, "error")
  /\ UNCHANGED storeVars

ReadMisses(r) ==
  /\ at[r] = "repository"
  /\ Route(input[r]) = "GetProduct"
  /\ input[r].id \in Products
  /\ table[input[r].id] = NoRow
  /\ Returns(r, "not_found")
  /\ UNCHANGED storeVars

ReadSucceeds(r) ==
  /\ at[r] = "repository"
  /\ \/ Route(input[r]) \in {"ListProducts", "StreamProducts"}
     \/ /\ Route(input[r]) = "GetProduct"
        /\ input[r].id \in Products
        /\ table[input[r].id] # NoRow
  /\ Returns(r, "ok")
  /\ UNCHANGED storeVars

----------------------------------------------------------------------------
(* The way back.                                                           *)

\* The errors that each method of the service tells apart.
Known(route) ==
  CASE route = "create" -> {"already_exists"}
    [] route \in {"update", "GetProduct"} -> {"not_found"}
    [] route = "stock" -> {"not_found", "insufficient_stock"}
    [] OTHER -> {}

ServiceLabel_NoInsufficient(route, result) ==
  CASE result = "ok" -> "success"
    [] result \in {"invalid_product", "invalid"} -> "invalid_argument"
    [] result \in Known(route) \ {"insufficient_stock"} -> result
    [] OTHER -> "error"
ServiceLabel(route, result) ==
  CASE result = "ok" -> "success"
    [] result \in {"invalid_product", "invalid"} -> "invalid_argument"
    [] result \in Known(route) -> result
    [] OTHER -> "error"

\* The switch over err of each admin handler.
HTTPStatus(route, result) ==
  CASE result = "ok" -> IF route = "create" THEN "201" ELSE "200"
    [] result = "already_exists" /\ route = "create" -> "409"
    [] result = "not_found" /\ route # "create"      -> "404"
    [] result = "insufficient_stock" /\ route = "stock" -> "422"
    [] result = "invalid_product" /\ route # "stock" -> "400"
    [] OTHER -> "500"

\* mapError.  It also knows ErrInvalidPagination, for a negative offset, which
\* an offset of type uint32 never is.
GRPCCode(result) ==
  CASE result = "ok" -> "OK"
    [] result = "not_found" -> "NotFound"
    [] OTHER -> "Internal"

\* StreamProducts may fail to send an item the service has already listed.
Codes(route, result) ==
  IF route \in Writes THEN {HTTPStatus(route, result)}
  ELSE {GRPCCode(result)} \cup (IF route = "StreamProducts" THEN {"Internal"} ELSE {})

Respond(r) ==
  /\ at[r] = "answering"
  /\ at' = [at EXCEPT ![r] = "answered"]
  /\ label' = [label EXCEPT ![r] = ServiceLabel(Route(input[r]), outcome[r])]
  /\ \E code \in Codes(Route(input[r]), outcome[r]) : answer' = [answer EXCEPT ![r] = code]
  /\ UNCHANGED <<storeVars, input, outcome>>

Done == (\A r \in Requests : at[r] = "answered") /\ UNCHANGED vars

\* What the layers do without writing.
Layers(r) ==
  \/ \E i \in Inputs : Receive(r, i)
  \/ Validate(r)
  \/ ReadFails(r) \/ ReadMisses(r) \/ ReadSucceeds(r)
  \/ Respond(r)

Step(r) == Layers(r) \/ \E c \in Commands : Call(r, c)

Next == (\E r \in Requests : Step(r)) \/ Done

Spec == Init /\ [][Next]_vars

----------------------------------------------------------------------------
(* Properties.                                                             *)

Changes(r) == {e \in journal : e.id = r}

TypeOK ==
  /\ table \in [Products -> Row \cup {NoRow}]
  /\ reply \in [Requests -> Outcomes]
  /\ at \in [Requests -> Places]
  /\ input \in [Requests -> Inputs \cup {NoInput}]
  /\ outcome \in [Requests -> Outcomes]
  /\ label \in [Requests -> Labels]
  /\ answer \in [Requests -> {"none"} \cup Successes \cup Refusals \cup Failures]

\* The status on the wire can be trusted across all layers: a success says that
\* a change of the kind the request asked for, of the product it asked for, is
\* in the store and announced, a 4xx that the request left no trace; only a 500
\* leaves it open.
WireIsHonest ==
  \A r \in Requests :
    /\ answer[r] \in {"200", "201"} =>
         \E e \in Changes(r) :
           \E c \in Commands : /\ Carries(input[r], c)
                             /\ e.type = EventTypeOf(c) /\ e.key = c.product
    /\ answer[r] \in Refusals => Changes(r) = {}
    /\ Changes(r) # {} => Route(input[r]) \in Writes

\* The service counts each request under the label that belongs to the status
\* the transport sends, so both dashboards tell of the same errors; a stream
\* that breaks off is the one success the transport reports as an error, and a
\* stock change the service refuses as invalid the one client error sent as 500.
LabelMatchesStatus ==
  \A r \in Requests : at[r] = "answered" =>
    /\ answer[r] \in Successes => label[r] = "success"
    /\ label[r] = "success" =>
         answer[r] \in Successes \/ Route(input[r]) = "StreamProducts"
    /\ label[r] = "not_found" <=> answer[r] \in {"404", "NotFound"}
    /\ label[r] = "already_exists" <=> answer[r] = "409"
    /\ label[r] = "insufficient_stock" <=> answer[r] = "422"
    /\ label[r] = "error" => answer[r] \in Failures
    /\ label[r] = "invalid_argument" =>
         answer[r] = IF Route(input[r]) = "stock" THEN "500" ELSE "400"
=============================================================================
