----------------------- MODULE RequestHandling_proofs -----------------------
(***************************************************************************)
(* Theorems about RequestHandling, for any inputs and any repository that  *)
(* keeps the promise of ProductStore; and about AdminService, which puts   *)
(* the transactions of PostgresRepository in its place.                    *)
(***************************************************************************)
EXTENDS AdminService, TLAPS

\* What a request that asked for c has in the store: its own announcement.
Made(r) ==
  \E e \in Changes(r) :
    \E c \in Commands :
      Carries(input[r], c) /\ e.type = EventTypeOf(c) /\ e.key = c.product

\* Which route a result can come from, and what it says of the store.
Judged(r) ==
  /\ outcome[r] = "ok" /\ Route(input[r]) \in Writes => Made(r)
  /\ outcome[r] \notin {"ok", "error"} => Changes(r) = {}
  /\ outcome[r] = "already_exists" => Route(input[r]) = "create"
  /\ outcome[r] = "not_found" => Route(input[r]) \in {"update", "stock", "GetProduct"}
  /\ outcome[r] = "insufficient_stock" => Route(input[r]) = "stock"
  /\ outcome[r] = "invalid_product" => Route(input[r]) \in {"create", "update"}
  /\ outcome[r] = "invalid" => Route(input[r]) = "stock"

Unanswered(r) == label[r] = "none" /\ answer[r] = "none"

Course(r) ==
  /\ at[r] = "idle" => input[r] = NoInput
  /\ at[r] # "idle" => input[r] \in Inputs
  /\ at[r] \in {"idle", "service", "repository"} =>
       Changes(r) = {} /\ outcome[r] = "none" /\ Unanswered(r)
  /\ at[r] = "answering" => outcome[r] # "none" /\ Judged(r) /\ Unanswered(r)
  /\ at[r] = "answered" =>
       \/ /\ Changes(r) = {} /\ outcome[r] = "none" /\ label[r] = "none"
          /\ answer[r] = TransportRefusal(input[r]) /\ answer[r] # "none"
       \/ /\ Judged(r) /\ outcome[r] # "none"
          /\ label[r] = ServiceLabel(Route(input[r]), outcome[r])
          /\ answer[r] \in Codes(Route(input[r]), outcome[r])
  /\ Changes(r) # {} => Route(input[r]) \in Writes

IInv == TypeOK /\ \A r \in Requests : Course(r)

----------------------------------------------------------------------------
(* The layers' operators.                                                  *)

LEMMA RefusalFacts ==
  ASSUME NEW i \in Inputs
  PROVE  TransportRefusal(i) \in {"none", "400", "405", "InvalidArgument"}
BY DEF TransportRefusal

LEMMA ValidationFacts ==
  ASSUME NEW i \in Inputs
  PROVE  /\ Validation(i) \in {"ok", "invalid_product", "invalid"}
         /\ Validation(i) = "invalid_product" => Route(i) \in {"create", "update"}
         /\ Validation(i) = "invalid" => Route(i) = "stock"
BY DEF Validation

LEMMA LabelFacts ==
  ASSUME NEW route, NEW result \in Outcomes
  PROVE  ServiceLabel(route, result) \in Labels
BY DEF ServiceLabel, Known, Outcomes, Labels

LEMMA CodeFacts ==
  ASSUME NEW route, NEW result \in Outcomes, NEW code \in Codes(route, result)
  PROVE  code \in Successes \cup Refusals \cup Failures
BY DEF Codes, HTTPStatus, GRPCCode, Successes, Refusals, Failures

\* The row a write of the store installs is of the type of the table.
LEMMA StoreRows ==
  ASSUME TypeOK, NEW r \in Requests, NEW c \in Commands,
         Store!Create(r, c) \/ Store!Update(r, c)
  PROVE  \E row \in Row : Store!Record(r, c, row)
<1>1. c.product \in Products
  BY CommandsAssumption DEF CreateProductCommand, UpdateProductCommand, UpdateStockCommand
<1>2. \E row : row \in Row /\ Store!Record(r, c, row)
  <2>1. CASE Store!Create(r, c)
    <3>1. c.op = "create" /\ Store!Record(r, c, Store!NewRow(r, c))
      BY <2>1 DEF Store!Create
    <3>2. c.sku \in Skus /\ c.stock \in 0..MaxStock
      BY <3>1, CommandsAssumption
         DEF CreateProductCommand, UpdateProductCommand, UpdateStockCommand
    <3>3. Store!NewRow(r, c) \in Row
      BY <3>2 DEF Store!NewRow, Row
    <3>4. QED
      BY <3>1, <3>3
  <2>2. CASE Store!Update(r, c)
    <3> DEFINE row == table[c.product]
    <3>1. /\ c.op # "create" /\ row \in Row /\ Store!StockFits(c, row)
          /\ Store!Record(r, c, Store!Rewritten(r, c, row))
      BY <1>1, <2>2 DEF Store!Update, TypeOK
    <3>2. /\ row.sku \in Skus /\ row.stock \in 0..MaxStock
          /\ row.attr \in [Attrs -> Requests \cup {Original}] /\ row.ver \in Nat
      BY <3>1 DEF Row
    <3>3. CASE c.op = "update"
      <4>1. Store!Rewritten(r, c, row) = Store!PatchedRow(r, c, row)
        BY <3>3 DEF Store!Rewritten
      <4>2. Store!PatchedRow(r, c, row) \in Row
        BY <3>2 DEF Store!PatchedRow, Row
      <4>3. QED
        BY <3>1, <4>1, <4>2
    <3>4. CASE c.op # "update"
      <4>1. c.op = "stock"
        BY <3>1, <3>4, CommandsAssumption
           DEF CreateProductCommand, UpdateProductCommand, UpdateStockCommand
      <4>2. Store!Rewritten(r, c, row) = Store!RestockedRow(c, row)
        BY <3>4 DEF Store!Rewritten
      <4>3. row.stock + c.delta \in 0..MaxStock
        BY <3>1, <4>1 DEF Store!StockFits
      <4>4. Store!RestockedRow(c, row) \in Row
        BY <3>2, <4>3 DEF Store!RestockedRow, Row
      <4>5. QED
        BY <3>1, <4>2, <4>4
    <3>5. QED
      BY <3>3, <3>4
  <2>3. QED
    BY <2>1, <2>2
<1>3. QED
  BY <1>2

\* A write that took effect: the change is announced, and answered as one.
LEMMA RecordFacts ==
  ASSUME TypeOK, NEW r \in Requests, NEW c \in Commands, NEW row \in Row,
         Store!Record(r, c, row)
  PROVE  /\ table' \in [Products -> Row \cup {NoRow}]
         /\ Changes(r) = {}
         /\ \E e \in Changes(r)' : e.type = EventTypeOf(c) /\ e.key = c.product
         /\ \A q \in Requests : q # r => Changes(q)' = Changes(q)
         /\ reply' \in [Requests -> Outcomes] /\ reply'[r] \in {"ok", "error"}
<1>1. c.product \in Products
  BY CommandsAssumption DEF CreateProductCommand, UpdateProductCommand, UpdateStockCommand
<1>2. table' \in [Products -> Row \cup {NoRow}]
  BY <1>1 DEF Store!Record, TypeOK
<1>3. Changes(r) = {}
  BY DEF Store!Record, Changes
<1>4. Store!EventTypeOf(c) = EventTypeOf(c)
  BY DEF Store!EventTypeOf, EventTypeOf
<1>5. PICK e : /\ e.id = r /\ e.type = EventTypeOf(c) /\ e.key = c.product
               /\ journal' = journal \cup {e}
  BY <1>4 DEF Store!Record
<1>6. e \in Changes(r)'
  BY <1>5 DEF Changes
<1>7. \A q \in Requests : q # r => Changes(q)' = Changes(q)
  BY <1>5 DEF Changes
<1>8. reply' \in [Requests -> Outcomes] /\ reply'[r] \in {"ok", "error"}
  <2>1. PICK result \in {"ok", "error"} : reply' = [reply EXCEPT ![r] = result]
    BY DEF Store!Record, Store!Answer
  <2>2. QED
    BY <2>1 DEF TypeOK, Outcomes
<1>9. QED
  BY <1>2, <1>3, <1>5, <1>6, <1>7, <1>8

\* A write that did not: the store is as before, and the refusal belongs to the
\* command.
LEMMA RefuseFacts ==
  ASSUME TypeOK, NEW r \in Requests, NEW c \in Commands,
         Store!RefuseSku(r, c) \/ Store!RefuseMissing(r, c) \/ Store!RefuseStock(r, c)
           \/ Store!Fail(r)
  PROVE  /\ UNCHANGED <<table, journal>>
         /\ reply' \in [Requests -> Outcomes]
         /\ reply'[r] \in {"already_exists", "not_found", "insufficient_stock", "error"}
         /\ reply'[r] = "already_exists" => c.op = "create"
         /\ reply'[r] = "not_found" => c.op \in {"update", "stock"}
         /\ reply'[r] = "insufficient_stock" => c.op = "stock"
<1>1. c.op \in {"create", "update", "stock"}
  BY CommandsAssumption DEF CreateProductCommand, UpdateProductCommand, UpdateStockCommand
<1>2. PICK result \in {"already_exists", "not_found", "insufficient_stock", "error"} :
        /\ Store!Refuse(r, result)
        /\ result = "already_exists" => c.op = "create"
        /\ result = "not_found" => c.op # "create"
        /\ result = "insufficient_stock" => c.op = "stock"
  BY DEF Store!RefuseSku, Store!RefuseMissing, Store!RefuseStock, Store!Fail
<1>3. UNCHANGED <<table, journal>> /\ reply' = [reply EXCEPT ![r] = result]
  BY <1>2 DEF Store!Refuse, Store!Answer
<1>4. reply' \in [Requests -> Outcomes] /\ reply'[r] = result
  BY <1>3 DEF TypeOK, Outcomes
<1>5. QED
  BY <1>1, <1>2, <1>3, <1>4

----------------------------------------------------------------------------
LEMMA InitIInv == Init => IInv
<1> SUFFICES ASSUME Init PROVE IInv
  OBVIOUS
<1>1. table = Seed /\ journal = {} /\ reply = [r \in Requests |-> "none"]
  BY DEF Init, Store!Init
<1>2. TypeOK
  BY <1>1, SeedAssumption DEF Init, TypeOK, Places, Outcomes, Labels
<1>3. ASSUME NEW r \in Requests PROVE Course(r)
  BY <1>1, InputsAssumption DEF Init, Course, Changes, Unanswered
<1>4. QED
  BY <1>2, <1>3 DEF IInv

\* A step of r leaves the others' courses as they are.
LEMMA OthersKeep ==
  ASSUME IInv, NEW q \in Requests,
         at'[q] = at[q], input'[q] = input[q], outcome'[q] = outcome[q],
         label'[q] = label[q], answer'[q] = answer[q], Changes(q)' = Changes(q)
  PROVE  Course(q)'
<1>1. Course(q)
  BY DEF IInv
<1>2. Made(q)' <=> Made(q)
  BY DEF Made
<1>3. Judged(q)' <=> Judged(q)
  BY <1>2 DEF Judged
<1>4. QED
  BY <1>1, <1>3 DEF Course, Unanswered

LEMMA StepTypes ==
  ASSUME IInv, NEW r \in Requests, Step(r)
  PROVE  /\ TypeOK'
         /\ \A q \in Requests \ {r} :
              /\ at'[q] = at[q] /\ input'[q] = input[q] /\ outcome'[q] = outcome[q]
              /\ label'[q] = label[q] /\ answer'[q] = answer[q]
              /\ Changes(q)' = Changes(q)
<1> USE DEF IInv, TypeOK
<1>1. ASSUME NEW i \in Inputs, Receive(r, i)
      PROVE  /\ TypeOK'
             /\ \A q \in Requests \ {r} :
                  /\ at'[q] = at[q] /\ input'[q] = input[q] /\ UNCHANGED <<outcome, label>>
                  /\ answer'[q] = answer[q] /\ Changes(q)' = Changes(q)
  <2>1. at' \in [Requests -> Places] /\ input' \in [Requests -> Inputs \cup {NoInput}]
    BY <1>1 DEF Receive, Places
  <2>2. answer' \in [Requests -> {"none"} \cup Successes \cup Refusals \cup Failures]
    BY <1>1, RefusalFacts DEF Receive, Refusals
  <2>3. QED
    BY <1>1, <2>1, <2>2 DEF Receive, storeVars, Changes
<1>2. ASSUME Validate(r)
      PROVE  /\ TypeOK'
             /\ \A q \in Requests \ {r} :
                  /\ at'[q] = at[q] /\ outcome'[q] = outcome[q] /\ UNCHANGED <<input, label, answer>>
                  /\ Changes(q)' = Changes(q)
  <2>1. input[r] \in Inputs
    BY <1>2 DEF Validate, Course
  <2>2. at' \in [Requests -> Places] /\ outcome' \in [Requests -> Outcomes]
    BY <1>2, <2>1, ValidationFacts DEF Validate, Places, Outcomes
  <2>3. QED
    BY <1>2, <2>2 DEF Validate, storeVars, Changes
<1>3. ASSUME NEW result \in Outcomes, Returns(r, result)
      PROVE  /\ at' \in [Requests -> Places] /\ outcome' \in [Requests -> Outcomes]
             /\ \A q \in Requests \ {r} :
                  at'[q] = at[q] /\ outcome'[q] = outcome[q] /\ UNCHANGED <<input, label, answer>>
  BY <1>3 DEF Returns, Places
<1>4. ASSUME NEW c \in Commands, Call(r, c)
      PROVE  /\ TypeOK'
             /\ \A q \in Requests \ {r} :
                  /\ at'[q] = at[q] /\ outcome'[q] = outcome[q] /\ UNCHANGED <<input, label, answer>>
                  /\ Changes(q)' = Changes(q)
  <2>1. /\ table' \in [Products -> Row \cup {NoRow}]
        /\ \A q \in Requests \ {r} : Changes(q)' = Changes(q)
        /\ reply' \in [Requests -> Outcomes]
    <3>1. CASE Store!Create(r, c) \/ Store!Update(r, c)
      BY <3>1, StoreRows, RecordFacts
    <3>2. CASE ~(Store!Create(r, c) \/ Store!Update(r, c))
      BY <1>4, <3>2, RefuseFacts DEF Call, Store!Write, Changes
    <3>3. QED
      BY <3>1, <3>2
  <2>2. Returns(r, reply'[r]) /\ reply'[r] \in Outcomes
    BY <1>4, <2>1 DEF Call, WriteOutcome
  <2>3. UNCHANGED <<input, label, answer>>
    BY <2>2 DEF Returns
  <2>4. QED
    BY <1>3, <2>1, <2>2, <2>3
<1>5. ASSUME ReadFails(r) \/ ReadMisses(r) \/ ReadSucceeds(r)
      PROVE  /\ TypeOK'
             /\ \A q \in Requests \ {r} :
                  /\ at'[q] = at[q] /\ outcome'[q] = outcome[q] /\ UNCHANGED <<input, label, answer>>
                  /\ Changes(q)' = Changes(q)
  <2>1. PICK result \in Outcomes : Returns(r, result)
    BY <1>5 DEF ReadFails, ReadMisses, ReadSucceeds, Outcomes
  <2>2. UNCHANGED <<table, journal, reply, input, label, answer>>
    BY <1>5, <2>1 DEF ReadFails, ReadMisses, ReadSucceeds, storeVars, Returns
  <2>3. QED
    BY <1>3, <2>1, <2>2 DEF Changes
<1>6. ASSUME Respond(r)
      PROVE  /\ TypeOK'
             /\ \A q \in Requests \ {r} :
                  /\ at'[q] = at[q] /\ UNCHANGED <<input, outcome>>
                  /\ label'[q] = label[q] /\ answer'[q] = answer[q]
                  /\ Changes(q)' = Changes(q)
  <2>1. outcome[r] \in Outcomes
    OBVIOUS
  <2>2. at' \in [Requests -> Places] /\ label' \in [Requests -> Labels]
    BY <1>6, <2>1, LabelFacts DEF Respond, Places
  <2>3. answer' \in [Requests -> {"none"} \cup Successes \cup Refusals \cup Failures]
    BY <1>6, <2>1, CodeFacts DEF Respond
  <2>4. QED
    BY <1>6, <2>2, <2>3 DEF Respond, storeVars, Changes
<1>7. QED
  BY <1>1, <1>2, <1>4, <1>5, <1>6 DEF Step, Layers

\* The course of the request that takes the step.
LEMMA StepCourse ==
  ASSUME IInv, NEW r \in Requests, Step(r)
  PROVE  Course(r)'
<1> USE DEF IInv, TypeOK
<1>0. Course(r)
  OBVIOUS
<1>1. ASSUME NEW i \in Inputs, Receive(r, i)
      PROVE  Course(r)'
  <2>1. /\ Changes(r) = {} /\ outcome[r] = "none" /\ label[r] = "none"
        /\ at'[r] = (IF TransportRefusal(i) = "none" THEN "service" ELSE "answered")
        /\ input'[r] = i /\ answer'[r] = TransportRefusal(i)
        /\ outcome' = outcome /\ label' = label /\ Changes(r)' = Changes(r)
    BY <1>0, <1>1 DEF Receive, Course, Unanswered, storeVars, Changes
  <2>2. QED
    BY <2>1 DEF Course, Unanswered
<1>2. ASSUME Validate(r)
      PROVE  Course(r)'
  <2>1. /\ Changes(r) = {} /\ outcome[r] = "none" /\ Unanswered(r) /\ input[r] \in Inputs
        /\ UNCHANGED <<input, label, answer>> /\ Changes(r)' = Changes(r)
    BY <1>0, <1>2 DEF Validate, Course, storeVars, Changes
  <2>2. CASE Validation(input[r]) = "ok"
    BY <1>2, <2>1, <2>2 DEF Validate, Course, Unanswered
  <2>3. CASE Validation(input[r]) # "ok"
    <3>1. at'[r] = "answering" /\ outcome'[r] \in {"invalid_product", "invalid"}
      BY <1>2, <2>1, <2>3, ValidationFacts DEF Validate
    <3>2. Judged(r)'
      <4>1. outcome'[r] = Validation(input[r])
        BY <1>2, <2>1, <2>3 DEF Validate
      <4>2. QED
        BY <2>1, <3>1, <4>1, ValidationFacts DEF Judged
    <3>3. QED
      BY <2>1, <3>1, <3>2 DEF Course, Unanswered
  <2>4. QED
    BY <2>2, <2>3
<1>3. ASSUME at[r] = "repository", NEW result \in Outcomes \ {"none"}, Returns(r, result), Judged(r)',
             Changes(r)' # {} => Route(input[r]) \in Writes
      PROVE  Course(r)'
  <2>1. /\ Unanswered(r) /\ input[r] \in Inputs /\ UNCHANGED <<input, label, answer>>
        /\ at'[r] = "answering" /\ outcome'[r] = result
    BY <1>0, <1>3 DEF Returns, Course
  <2>2. QED
    BY <1>3, <2>1 DEF Course, Unanswered
<1>4. ASSUME NEW c \in Commands, Call(r, c)
      PROVE  Course(r)'
  <2>1. /\ at[r] = "repository" /\ Carries(input[r], c) /\ Store!Write(r, c)
        /\ Returns(r, reply'[r]) /\ outcome'[r] = reply'[r] /\ input' = input
    BY <1>4 DEF Call, WriteOutcome, Returns
  <2>2. c.op = Route(input[r]) /\ c.op \in Writes
    BY <2>1, CommandsAssumption
       DEF Carries, Writes, CreateProductCommand, UpdateProductCommand, UpdateStockCommand
  <2>3. CASE Store!Create(r, c) \/ Store!Update(r, c)
    <3>1. /\ reply'[r] \in {"ok", "error"}
          /\ \E e \in Changes(r)' : e.type = EventTypeOf(c) /\ e.key = c.product
      BY <2>3, StoreRows, RecordFacts
    <3>2. Made(r)'
      BY <2>1, <3>1 DEF Made
    <3>3. Judged(r)'
      BY <2>1, <3>1, <3>2 DEF Judged
    <3>4. QED
      BY <1>3, <2>1, <2>2, <3>1, <3>3 DEF Outcomes
  <2>4. CASE ~(Store!Create(r, c) \/ Store!Update(r, c))
    <3>1. /\ UNCHANGED <<table, journal>>
          /\ reply'[r] \in {"already_exists", "not_found", "insufficient_stock", "error"}
          /\ reply'[r] = "already_exists" => c.op = "create"
          /\ reply'[r] = "not_found" => c.op \in {"update", "stock"}
          /\ reply'[r] = "insufficient_stock" => c.op = "stock"
      BY <2>1, <2>4, RefuseFacts DEF Store!Write
    <3>2. Changes(r)' = {}
      BY <1>0, <2>1, <3>1 DEF Course, Changes
    <3>3. Judged(r)'
      BY <2>1, <2>2, <3>1, <3>2 DEF Judged
    <3>4. QED
      BY <1>3, <2>1, <3>1, <3>2, <3>3 DEF Outcomes
  <2>5. QED
    BY <2>3, <2>4
<1>5. ASSUME ReadFails(r) \/ ReadMisses(r) \/ ReadSucceeds(r)
      PROVE  Course(r)'
  <2>1. at[r] = "repository" /\ Changes(r) = {} /\ Changes(r)' = {}
    BY <1>0, <1>5 DEF ReadFails, ReadMisses, ReadSucceeds, Course, storeVars, Changes
  <2>2. PICK result \in {"ok", "not_found", "error"} :
          /\ Returns(r, result)
          /\ result = "ok" => Route(input[r]) \in {"ListProducts", "StreamProducts", "GetProduct"}
          /\ result = "not_found" => Route(input[r]) = "GetProduct"
    BY <1>5 DEF ReadFails, ReadMisses, ReadSucceeds
  <2>3. outcome'[r] = result /\ input' = input
    BY <2>2 DEF Returns
  <2>4. Judged(r)'
    BY <2>1, <2>2, <2>3 DEF Judged, Writes
  <2>5. QED
    BY <1>3, <2>1, <2>2, <2>4 DEF Outcomes
<1>6. ASSUME Respond(r)
      PROVE  Course(r)'
  <2>1. /\ UNCHANGED <<input, outcome>> /\ Changes(r)' = Changes(r) /\ Judged(r)
        /\ outcome[r] # "none" /\ input[r] \in Inputs
        /\ at'[r] = "answered"
        /\ label'[r] = ServiceLabel(Route(input[r]), outcome[r])
        /\ answer'[r] \in Codes(Route(input[r]), outcome[r])
        /\ Changes(r) # {} => Route(input[r]) \in Writes
    BY <1>0, <1>6 DEF Respond, Course, storeVars, Changes
  <2>2. Judged(r)'
    BY <2>1 DEF Judged, Made
  <2>3. QED
    BY <2>1, <2>2 DEF Course
<1>7. QED
  BY <1>1, <1>2, <1>4, <1>5, <1>6 DEF Step, Layers

LEMMA NextIInv == IInv /\ [Next]_vars => IInv'
<1> SUFFICES ASSUME IInv, [Next]_vars PROVE IInv'
  OBVIOUS
<1>1. ASSUME NEW r \in Requests, Step(r)
      PROVE  IInv'
  <2>1. ASSUME NEW q \in Requests, q # r PROVE Course(q)'
    BY <1>1, <2>1, StepTypes, OthersKeep
  <2>2. QED
    BY <1>1, <2>1, StepTypes, StepCourse DEF IInv
<1>2. CASE UNCHANGED vars
  <2>1. \A q \in Requests : Changes(q)' = Changes(q)
    BY <1>2 DEF vars, storeVars, Changes
  <2>2. \A q \in Requests : Course(q)'
    BY <1>2, <2>1, OthersKeep DEF vars
  <2>3. TypeOK'
    BY <1>2 DEF vars, storeVars, IInv, TypeOK
  <2>4. QED
    BY <2>2, <2>3 DEF IInv
<1>3. QED
  BY <1>1, <1>2 DEF Next, Done

LEMMA InductiveInvariant == Spec => []IInv
<1>1. Init => IInv
  BY InitIInv
<1>2. IInv /\ [Next]_vars => IInv'
  BY NextIInv
<1>3. QED
  BY <1>1, <1>2, PTL DEF Spec

----------------------------------------------------------------------------
\* Every layer answers with a label and a status of its own vocabulary, and the
\* store keeps the types of the table.
THEOREM TypeCorrect == Spec => []TypeOK
<1>1. IInv => TypeOK
  BY DEF IInv
<1>2. QED
  BY <1>1, InductiveInvariant, PTL

\* Handlers, service and repository together: a 2xx means that the change is
\* stored and announced, a 4xx that the request left no trace.
THEOREM StatusIsHonest == Spec => []WireIsHonest
<1>1. IInv => WireIsHonest
  <2> SUFFICES ASSUME IInv, NEW r \in Requests
               PROVE  /\ answer[r] \in {"200", "201"} => Made(r)
                      /\ answer[r] \in Refusals => Changes(r) = {}
                      /\ Changes(r) # {} => Route(input[r]) \in Writes
    BY DEF WireIsHonest, Made
  <2>1. Course(r) /\ at[r] \in Places
    BY DEF IInv, TypeOK
  <2>2. CASE answer[r] = "none"
    BY <2>1, <2>2 DEF Course, Refusals
  <2>3. CASE at[r] = "answered" /\ outcome[r] = "none"
    <3>1. answer[r] \in {"400", "405", "InvalidArgument"} /\ Changes(r) = {}
      BY <2>1, <2>3, RefusalFacts DEF Course
    <3>2. QED
      BY <2>1, <3>1 DEF Course
  <2>4. CASE at[r] = "answered" /\ outcome[r] # "none"
    <3>1. Judged(r) /\ answer[r] \in Codes(Route(input[r]), outcome[r])
      BY <2>1, <2>4 DEF Course
    <3>2. answer[r] \in {"200", "201"} => outcome[r] = "ok" /\ Route(input[r]) \in Writes
      BY <3>1 DEF Codes, HTTPStatus, GRPCCode
    <3>3. answer[r] \in Refusals => outcome[r] \notin {"ok", "error"}
      BY <3>1 DEF Codes, HTTPStatus, GRPCCode, Refusals
    <3>4. QED
      BY <2>1, <3>1, <3>2, <3>3 DEF Judged, Course
  <2>5. QED
    BY <2>1, <2>2, <2>3, <2>4 DEF Course, Unanswered, Places
<1>2. QED
  BY <1>1, InductiveInvariant, PTL

\* The service's metric and the transport's status name the same error.
THEOREM LabelsAgree == Spec => []LabelMatchesStatus
<1>1. IInv => LabelMatchesStatus
  <2> SUFFICES ASSUME IInv, NEW r \in Requests, at[r] = "answered"
               PROVE  /\ answer[r] \in Successes => label[r] = "success"
                      /\ label[r] = "success" =>
                           answer[r] \in Successes \/ Route(input[r]) = "StreamProducts"
                      /\ label[r] = "not_found" <=> answer[r] \in {"404", "NotFound"}
                      /\ label[r] = "already_exists" <=> answer[r] = "409"
                      /\ label[r] = "insufficient_stock" <=> answer[r] = "422"
                      /\ label[r] = "error" => answer[r] \in Failures
                      /\ label[r] = "invalid_argument" =>
                           answer[r] = IF Route(input[r]) = "stock" THEN "500" ELSE "400"
    BY DEF LabelMatchesStatus
  <2>1. Course(r) /\ outcome[r] \in Outcomes
    BY DEF IInv, TypeOK
  <2>2. CASE outcome[r] = "none"
    <3>1. answer[r] \in {"400", "405", "InvalidArgument"} /\ label[r] = "none"
      BY <2>1, <2>2, RefusalFacts DEF Course
    <3>2. QED
      BY <3>1 DEF Successes, Failures
  <2>3. CASE outcome[r] # "none"
    <3> DEFINE route == Route(input[r])
    <3>1. /\ Judged(r) /\ label[r] = ServiceLabel(route, outcome[r])
          /\ answer[r] \in Codes(route, outcome[r])
      BY <2>1, <2>3 DEF Course
    <3> HIDE DEF route
    <3>2. CASE route \in Writes
      <4>1. answer[r] = HTTPStatus(route, outcome[r])
        BY <3>1, <3>2 DEF Codes
      <4>2. QED
        BY <2>1, <2>3, <3>1, <3>2, <4>1
           DEF route, Judged, ServiceLabel, Known, HTTPStatus, Writes, Successes, Failures, Outcomes
    <3>3. CASE route \notin Writes
      <4>1. /\ answer[r] = GRPCCode(outcome[r]) \/ (route = "StreamProducts" /\ answer[r] = "Internal")
            /\ outcome[r] = "not_found" => route = "GetProduct"
            /\ outcome[r] \notin {"already_exists", "insufficient_stock",
                                 "invalid_product", "invalid"}
        BY <3>1, <3>3 DEF route, Codes, Judged, Writes
      <4>2. QED
        BY <2>1, <2>3, <3>1, <3>3, <4>1
           DEF route, ServiceLabel, Known, GRPCCode, Writes, Successes, Failures, Outcomes
    <3>4. QED
      BY <3>2, <3>3
  <2>4. QED
    BY <2>2, <2>3
<1>2. QED
  BY <1>1, InductiveInvariant, PTL

----------------------------------------------------------------------------
(* AdminService: the layers over the transactions of PostgresRepository    *)
(* implement the layers over ProductStore.                                 *)

RepoProofs == INSTANCE PostgresRepository_proofs

\* The transactions are those that the repository's theorems are about.
LEMMA SameRepository ==
  ASSUME NEW r \in Requests
  PROVE  /\ Repo!Init <=> RepoProofs!Init
         /\ \A c \in Commands : Repo!BeginTx(r, c) <=> RepoProofs!BeginTx(r, c)
         /\ Repo!Statement(r) <=> RepoProofs!Statement(r)
         /\ Repo!Commit(r) <=> RepoProofs!Commit(r)
         /\ Repo!Abort(r) <=> RepoProofs!Abort(r)
<1>1. Repo!Init <=> RepoProofs!Init
  BY DEF Repo!Init, RepoProofs!Init, Repo!NoCommand, RepoProofs!NoCommand
<1>2. ASSUME NEW c \in Commands
      PROVE  Repo!BeginTx(r, c) <=> RepoProofs!BeginTx(r, c)
  BY DEF Repo!BeginTx, RepoProofs!BeginTx
<1>3. Repo!Statement(r) <=> RepoProofs!Statement(r)
  BY DEF Repo!Statement, RepoProofs!Statement, Repo!Return, RepoProofs!Return,
       Repo!Wrote, RepoProofs!Wrote, Repo!InsertProduct, RepoProofs!InsertProduct,
       Repo!RejectDuplicateSku, RepoProofs!RejectDuplicateSku, Repo!PatchProduct,
       RepoProofs!PatchProduct, Repo!AddStock, RepoProofs!AddStock,
       Repo!RejectStock, RepoProofs!RejectStock, Repo!RejectMissing,
       RepoProofs!RejectMissing, Repo!OccuredAt, RepoProofs!OccuredAt,
       Repo!InsertOutboxEvent, RepoProofs!InsertOutboxEvent, Repo!Holding,
       RepoProofs!Holding, Repo!HoldingPhases, RepoProofs!HoldingPhases,
       Repo!RowFree, RepoProofs!RowFree, Repo!SkuUnclaimed, RepoProofs!SkuUnclaimed,
       Repo!SkuInUse, RepoProofs!SkuInUse, Repo!NewRow, RepoProofs!NewRow,
       Repo!PatchedRow, RepoProofs!PatchedRow, Repo!RestockedRow,
       RepoProofs!RestockedRow, Repo!StockFits, RepoProofs!StockFits
<1>4. Repo!Commit(r) <=> RepoProofs!Commit(r)
  BY DEF Repo!Commit, RepoProofs!Commit, Repo!CommittedEvents,
       RepoProofs!CommittedEvents, Repo!EventOf, RepoProofs!EventOf,
       Repo!EventTypeOf, RepoProofs!EventTypeOf, Repo!Return, RepoProofs!Return
<1>5. Repo!Abort(r) <=> RepoProofs!Abort(r)
  BY DEF Repo!Abort, RepoProofs!Abort, Repo!FailureReply, RepoProofs!FailureReply,
       Repo!Return, RepoProofs!Return
<1>6. QED
  BY <1>1, <1>2, <1>3, <1>4, <1>5

\* The journal of the layers is the repository's table of events.
LEMMA SameStore ==
  ASSUME NEW r \in Requests, NEW c \in Commands, journal = Announced, journal' = Announced'
  PROVE  RepoProofs!Store!Write(r, c) <=> Store!Write(r, c)
<1> USE DEF Announced, Repo!Announcement, RepoProofs!Announcement
<1>1. /\ RepoProofs!Store!EventTypeOf(c) = Store!EventTypeOf(c)
      /\ RepoProofs!Store!NewRow(r, c) = Store!NewRow(r, c)
      /\ \A row : RepoProofs!Store!Rewritten(r, c, row) = Store!Rewritten(r, c, row)
      /\ \A row : RepoProofs!Store!StockFits(c, row) <=> Store!StockFits(c, row)
      /\ \A s : RepoProofs!Store!SkuInUse(s) <=> Store!SkuInUse(s)
  BY DEF RepoProofs!Store!EventTypeOf, Store!EventTypeOf, RepoProofs!Store!NewRow,
         Store!NewRow, RepoProofs!Store!Rewritten, Store!Rewritten,
         RepoProofs!Store!PatchedRow, Store!PatchedRow, RepoProofs!Store!RestockedRow,
         Store!RestockedRow, RepoProofs!Store!StockFits, Store!StockFits,
         RepoProofs!Store!SkuInUse, Store!SkuInUse
<1>2. \A result : RepoProofs!Store!Answer(r, result) <=> Store!Answer(r, result)
  BY DEF RepoProofs!Store!Answer, Store!Answer
<1>3. \A result : RepoProofs!Store!Refuse(r, result) <=> Store!Refuse(r, result)
  BY <1>2 DEF RepoProofs!Store!Refuse, Store!Refuse
<1>4. /\ RepoProofs!Store!Create(r, c) <=> Store!Create(r, c)
      /\ RepoProofs!Store!Update(r, c) <=> Store!Update(r, c)
  <2>1. RepoProofs!Store!Record(r, c, RepoProofs!Store!NewRow(r, c))
          <=> Store!Record(r, c, Store!NewRow(r, c))
    BY <1>1, <1>2 DEF RepoProofs!Store!Record, Store!Record
  <2>2. RepoProofs!Store!Record(r, c, RepoProofs!Store!Rewritten(r, c, table[c.product]))
          <=> Store!Record(r, c, Store!Rewritten(r, c, table[c.product]))
    BY <1>1, <1>2 DEF RepoProofs!Store!Record, Store!Record
  <2>3. RepoProofs!Store!Create(r, c) <=> Store!Create(r, c)
    BY <1>1, <2>1 DEF RepoProofs!Store!Create, Store!Create
  <2>4. RepoProofs!Store!Update(r, c) <=> Store!Update(r, c)
    BY <1>1, <2>2 DEF RepoProofs!Store!Update, Store!Update
  <2>5. QED
    BY <2>3, <2>4
<1>5. /\ RepoProofs!Store!RefuseSku(r, c) <=> Store!RefuseSku(r, c)
      /\ RepoProofs!Store!RefuseMissing(r, c) <=> Store!RefuseMissing(r, c)
      /\ RepoProofs!Store!RefuseStock(r, c) <=> Store!RefuseStock(r, c)
      /\ RepoProofs!Store!Fail(r) <=> Store!Fail(r)
  BY <1>1, <1>3
     DEF RepoProofs!Store!RefuseSku, Store!RefuseSku, RepoProofs!Store!RefuseMissing,
         Store!RefuseMissing, RepoProofs!Store!RefuseStock, Store!RefuseStock,
         RepoProofs!Store!Fail, Store!Fail
<1>6. QED
  BY <1>4, <1>5 DEF RepoProofs!Store!Write, Store!Write

----------------------------------------------------------------------------
(* A transaction that runs belongs to a request that waits for it.         *)

Running(r) == pc[r] \in {"begun", "written", "staged"}

Waited(r) == Running(r) => at[r] = "repository" /\ Carries(input[r], cmd[r])

ServiceInv ==
  /\ RepoProofs!IInv
  /\ journal = Announced
  /\ at \in [Requests -> Places]
  /\ input \in [Requests -> Inputs \cup {NoInput}]
  /\ \A r \in Requests : Waited(r)

LEMMA RepositoryFacts ==
  /\ RepoProofs!Init => RepoProofs!IInv
  /\ RepoProofs!IInv /\ [RepoProofs!Next]_(RepoProofs!vars) => RepoProofs!IInv'
  /\ \A r \in Requests :
       /\ RepoProofs!IInv /\ RepoProofs!Commit(r) =>
            cmd[r] \in Commands /\ RepoProofs!Store!Write(r, cmd[r])
       /\ RepoProofs!IInv /\ (\/ RepoProofs!RejectDuplicateSku(r) \/ RepoProofs!RejectStock(r)
                             \/ RepoProofs!RejectMissing(r) \/ RepoProofs!Abort(r)) =>
            cmd[r] \in Commands /\ RepoProofs!Store!Write(r, cmd[r])
  BY RepoProofs!InitIInv, RepoProofs!StepIInv, RepoProofs!CommitRefines,
     RepoProofs!RefusalRefines,
     MaxStockAssumption, CommandsAssumption, SeedAssumption, ClocksAssumption
     DEF Row, RepoProofs!Row, CreateProductCommand, RepoProofs!CreateProductCommand,
         UpdateProductCommand, RepoProofs!UpdateProductCommand,
         UpdateStockCommand, RepoProofs!UpdateStockCommand

\* While the transaction of a request runs, the layers have no step for it.
LEMMA LayersWait ==
  ASSUME ServiceInv, NEW r \in Requests, Layers(r)
  PROVE  ~Running(r) /\ UNCHANGED storeVars
<1>1. UNCHANGED storeVars
  BY DEF Layers, Receive, Validate, ReadFails, ReadMisses, ReadSucceeds, Respond
<1>2. ASSUME Running(r)
      PROVE  FALSE
  <2>1. /\ at[r] = "repository" /\ cmd[r] \in Commands /\ cmd[r].op = Route(input[r])
    BY <1>2 DEF ServiceInv, Waited, Running, Carries, RepoProofs!IInv, RepoProofs!Locking,
                RepoProofs!Phase
  <2>2. Route(input[r]) \in Writes
    BY <2>1, CommandsAssumption
       DEF Writes, CreateProductCommand, UpdateProductCommand, UpdateStockCommand
  <2>3. QED
    BY <2>1, <2>2 DEF Layers, Receive, Validate, ReadFails, ReadMisses, ReadSucceeds,
                      Respond, Writes
<1>3. QED
  BY <1>1, <1>2

\* A step of a transaction is invisible to the layers, or it is the one in which
\* the repository returns; then it is the whole call.
LEMMA ProceedIsCall ==
  ASSUME ServiceInv, NEW r \in Requests, Proceed(r)
  PROVE  /\ RepoProofs!IInv'
         /\ \/ UNCHANGED vars /\ UNCHANGED cmd /\ Running(r)' /\ Running(r)
               /\ \A q \in Requests \ {r} : pc'[q] = pc[q]
            \/ Call(r, cmd[r]) /\ UNCHANGED cmd /\ ~Running(r)'
               /\ \A q \in Requests \ {r} : pc'[q] = pc[q]
<1>1. RepoProofs!Statement(r) \/ RepoProofs!Commit(r) \/ RepoProofs!Abort(r)
  BY SameRepository DEF Proceed
<1>2. RepoProofs!IInv'
  BY <1>1, RepositoryFacts DEF ServiceInv, RepoProofs!Next, RepoProofs!Uncommitted
<1>3. /\ journal = Announced /\ journal' = Announced'
      /\ pc \in [Requests -> {"idle", "begun", "written", "staged", "done"}]
  BY DEF ServiceInv, Proceed, RepoProofs!IInv, RepoProofs!TypeOK, RepoProofs!Phases
<1>4. ASSUME \/ RepoProofs!InsertProduct(r) \/ RepoProofs!PatchProduct(r)
             \/ RepoProofs!AddStock(r) \/ RepoProofs!InsertOutboxEvent(r)
      PROVE  /\ UNCHANGED vars /\ UNCHANGED cmd /\ Running(r)' /\ Running(r)
             /\ \A q \in Requests \ {r} : pc'[q] = pc[q]
  <2>1. /\ UNCHANGED <<table, events, cmd, reply>> /\ pc[r] \in {"begun", "written"}
        /\ \E to \in {"written", "staged"} : pc' = [pc EXCEPT ![r] = to]
    BY <1>4 DEF RepoProofs!InsertProduct, RepoProofs!PatchProduct, RepoProofs!AddStock,
                RepoProofs!InsertOutboxEvent, RepoProofs!Wrote
  <2>2. Announced' = Announced
    BY <2>1 DEF Announced, Repo!Announcement
  <2>3. pc'[r] \in {"written", "staged"} /\ UNCHANGED layerVars
    BY <1>3, <2>1 DEF Proceed
  <2>4. QED
    BY <1>3, <2>1, <2>2, <2>3 DEF vars, storeVars, layerVars, Running
<1>5. ASSUME \/ RepoProofs!RejectDuplicateSku(r) \/ RepoProofs!RejectStock(r)
             \/ RepoProofs!RejectMissing(r) \/ RepoProofs!Abort(r) \/ RepoProofs!Commit(r)
      PROVE  /\ Call(r, cmd[r]) /\ UNCHANGED cmd /\ ~Running(r)'
             /\ \A q \in Requests \ {r} : pc'[q] = pc[q]
  <2>1. cmd[r] \in Commands /\ RepoProofs!Store!Write(r, cmd[r])
    BY <1>5, RepositoryFacts DEF ServiceInv
  <2>2. Store!Write(r, cmd[r])
    BY <1>3, <2>1, SameStore
  <2>3. /\ pc[r] \in {"begun", "written", "staged"} /\ UNCHANGED cmd
        /\ pc' = [pc EXCEPT ![r] = "done"]
    BY <1>5 DEF RepoProofs!RejectDuplicateSku, RepoProofs!RejectStock, RepoProofs!RejectMissing,
                RepoProofs!Abort, RepoProofs!Commit, RepoProofs!Return
  <2>4. at[r] = "repository" /\ Carries(input[r], cmd[r])
    BY <2>3 DEF ServiceInv, Waited, Running
  <2>5. pc'[r] = "done" /\ Returns(r, WriteOutcome(reply'[r]))
    BY <1>3, <2>3 DEF Proceed
  <2>6. QED
    BY <1>3, <2>2, <2>3, <2>4, <2>5 DEF Call, Running
<1>6. QED
  BY <1>1, <1>2, <1>4, <1>5 DEF RepoProofs!Statement

\* The repository receives the command that the request carries.
LEMMA BeginWaits ==
  ASSUME ServiceInv, NEW r \in Requests, NEW c \in Commands, Begin(r, c)
  PROVE  ServiceInv' /\ UNCHANGED vars
<1>1. RepoProofs!BeginTx(r, c)
  BY SameRepository DEF Begin
<1>2. RepoProofs!IInv'
  BY <1>1, RepositoryFacts DEF ServiceInv, RepoProofs!Next, RepoProofs!Uncommitted
<1>3. /\ cmd' = [cmd EXCEPT ![r] = c] /\ pc' = [pc EXCEPT ![r] = "begun"]
      /\ UNCHANGED <<table, events, reply>>
  BY <1>1 DEF RepoProofs!BeginTx
<1>4. at[r] = "repository" /\ Carries(input[r], c) /\ UNCHANGED <<journal, layerVars>>
  BY DEF Begin
<1>5. UNCHANGED vars
  BY <1>3, <1>4 DEF vars, storeVars, layerVars
<1>6. Announced' = Announced
  BY <1>3 DEF Announced, Repo!Announcement
<1>7. \A q \in Requests : Waited(q)'
  <2>1. cmd \in [Requests -> Commands \cup {RepoProofs!NoCommand}]
        /\ pc \in [Requests -> RepoProofs!Phases]
    BY DEF ServiceInv, RepoProofs!IInv, RepoProofs!TypeOK
  <2>2. ASSUME NEW q \in Requests, q # r
        PROVE  Waited(q)'
    <3>1. cmd'[q] = cmd[q] /\ pc'[q] = pc[q] /\ at' = at /\ input' = input /\ Waited(q)
      BY <1>3, <1>4, <2>1, <2>2 DEF ServiceInv, layerVars
    <3>2. QED
      BY <3>1 DEF Waited, Running, Carries
  <2>3. Waited(r)'
    <3>1. cmd'[r] = c /\ at' = at /\ input' = input
      BY <1>3, <1>4, <2>1 DEF layerVars
    <3>2. QED
      BY <1>4, <3>1 DEF Waited, Running, Carries
  <2>4. QED
    BY <2>2, <2>3
<1>8. QED
  BY <1>2, <1>4, <1>5, <1>6, <1>7 DEF ServiceInv, layerVars

\* What the layers do on their own leaves the transactions where they are.
LEMMA LayersKeep ==
  ASSUME ServiceInv, NEW r \in Requests, Layers(r), UNCHANGED databaseVars
  PROVE  ServiceInv'
<1>1. ~Running(r) /\ UNCHANGED storeVars
  BY LayersWait
<1>2. UNCHANGED RepoProofs!vars
  BY <1>1 DEF databaseVars, storeVars, RepoProofs!vars, RepoProofs!txVars
<1>3. RepoProofs!IInv'
  BY <1>2, RepositoryFacts DEF ServiceInv
<1>4. journal' = Announced'
  BY <1>1 DEF ServiceInv, databaseVars, storeVars, Announced, Repo!Announcement
<1>5. \E place \in Places : at' = [at EXCEPT ![r] = place]
  BY DEF Layers, Receive, Validate, ReadFails, ReadMisses, ReadSucceeds, Returns, Respond,
         Places
<1>6. input' = input \/ \E i \in Inputs : input' = [input EXCEPT ![r] = i] /\ at[r] = "idle"
  BY DEF Layers, Receive, Validate, ReadFails, ReadMisses, ReadSucceeds, Returns, Respond
<1>7. at' \in [Requests -> Places] /\ input' \in [Requests -> Inputs \cup {NoInput}]
  BY <1>5, <1>6 DEF ServiceInv
<1>8. ASSUME NEW q \in Requests
      PROVE  Waited(q)'
  <2>1. CASE q = r
    BY <1>1, <2>1 DEF Waited, Running, databaseVars
  <2>2. CASE q # r
    <3>1. at'[q] = at[q] /\ cmd' = cmd /\ pc' = pc
      BY <1>5, <2>2 DEF ServiceInv, databaseVars
    <3>2. input'[q] = input[q]
      BY <1>6, <2>2 DEF ServiceInv
    <3>3. Waited(q)
      BY DEF ServiceInv
    <3>4. QED
      BY <3>1, <3>2, <3>3 DEF Waited, Running, Carries
  <2>3. QED
    BY <2>1, <2>2
<1>9. QED
  BY <1>3, <1>4, <1>7, <1>8 DEF ServiceInv

LEMMA ProceedKeeps ==
  ASSUME ServiceInv, NEW r \in Requests, Proceed(r)
  PROVE  ServiceInv'
<1>1. RepoProofs!IInv'
  BY ProceedIsCall
<1>2. journal' = Announced'
  BY DEF Proceed
<1>3. CASE UNCHANGED vars /\ UNCHANGED cmd /\ Running(r)' /\ Running(r)
           /\ \A q \in Requests \ {r} : pc'[q] = pc[q]
  <2>1. at' = at /\ input' = input /\ cmd' = cmd
    BY <1>3 DEF vars
  <2>2. \A q \in Requests : Running(q)' => Running(q)
    BY <1>3 DEF Running
  <2>3. \A q \in Requests : Waited(q)'
    BY <2>1, <2>2 DEF ServiceInv, Waited, Carries
  <2>4. QED
    BY <1>1, <1>2, <2>1, <2>3 DEF ServiceInv
<1>4. CASE Call(r, cmd[r]) /\ UNCHANGED cmd /\ ~Running(r)'
           /\ \A q \in Requests \ {r} : pc'[q] = pc[q]
  <2>1. at' = [at EXCEPT ![r] = "answering"] /\ input' = input /\ cmd' = cmd
    BY <1>4 DEF Call, Returns
  <2>2. at' \in [Requests -> Places] /\ \A q \in Requests \ {r} : at'[q] = at[q]
    BY <2>1 DEF ServiceInv, Places
  <2>3. ASSUME NEW q \in Requests, q # r
        PROVE  Waited(q)'
    <3>1. pc'[q] = pc[q] /\ at'[q] = at[q] /\ Waited(q)
      BY <1>4, <2>2, <2>3 DEF ServiceInv
    <3>2. QED
      BY <2>1, <3>1 DEF Waited, Running, Carries
  <2>4. Waited(r)'
    BY <1>4 DEF Waited
  <2>5. QED
    BY <1>1, <1>2, <2>1, <2>2, <2>3, <2>4 DEF ServiceInv
<1>5. QED
  BY <1>3, <1>4, ProceedIsCall

LEMMA ServiceStep == ServiceInv /\ [ServiceNext]_serviceVars => ServiceInv' /\ [Next]_vars
<1> SUFFICES ASSUME ServiceInv, [ServiceNext]_serviceVars
             PROVE  ServiceInv' /\ [Next]_vars
  OBVIOUS
<1>1. ASSUME NEW r \in Requests, Layers(r), UNCHANGED databaseVars
      PROVE  ServiceInv' /\ [Next]_vars
  BY <1>1, LayersKeep DEF Next, Step
<1>2. ASSUME NEW r \in Requests, NEW c \in Commands, Begin(r, c)
      PROVE  ServiceInv' /\ [Next]_vars
  BY <1>2, BeginWaits
<1>3. ASSUME NEW r \in Requests, Proceed(r)
      PROVE  ServiceInv' /\ [Next]_vars
  <2>1. ServiceInv'
    BY <1>3, ProceedKeeps
  <2>2. UNCHANGED vars \/ Call(r, cmd[r])
    BY <1>3, ProceedIsCall
  <2>3. Call(r, cmd[r]) => cmd[r] \in Commands
    <3>1. Running(r) \/ ~Call(r, cmd[r])
      BY <1>3, SameRepository DEF Proceed, Running, Repo!Statement, Repo!InsertProduct,
           Repo!RejectDuplicateSku, Repo!PatchProduct, Repo!AddStock, Repo!RejectStock,
           Repo!RejectMissing, Repo!InsertOutboxEvent, Repo!Commit, Repo!Abort
    <3>2. QED
      BY <3>1 DEF Running, ServiceInv, RepoProofs!IInv, RepoProofs!Locking, RepoProofs!Phase
  <2>4. QED
    BY <2>1, <2>2, <2>3 DEF Next, Step
<1>4. CASE UNCHANGED serviceVars \/ (Done /\ UNCHANGED databaseVars)
  <2>1. UNCHANGED vars /\ UNCHANGED databaseVars
    BY <1>4 DEF serviceVars, Done
  <2>2. UNCHANGED RepoProofs!vars /\ UNCHANGED <<journal, events, at, input, cmd, pc>>
    BY <2>1 DEF vars, databaseVars, storeVars, RepoProofs!vars, RepoProofs!txVars
  <2>3. RepoProofs!IInv'
    BY <2>2, RepositoryFacts DEF ServiceInv
  <2>4. ServiceInv'
    BY <2>2, <2>3 DEF ServiceInv, Waited, Running, Carries, Announced, Repo!Announcement
  <2>5. QED
    BY <2>1, <2>4
<1>5. QED
  BY <1>1, <1>2, <1>3, <1>4 DEF ServiceNext

LEMMA ServiceStart == ServiceInit => Init /\ ServiceInv
<1> SUFFICES ASSUME ServiceInit PROVE Init /\ ServiceInv
  OBVIOUS
<1>1. Init /\ Repo!Init
  BY DEF ServiceInit
<1>2. \A r \in Requests : pc[r] = "idle"
  BY <1>1 DEF Repo!Init
<1>3. RepoProofs!IInv
  <2>1. RepoProofs!Init
    BY <1>1 DEF Repo!Init, RepoProofs!Init, Repo!NoCommand, RepoProofs!NoCommand
  <2>2. QED
    BY <2>1, RepositoryFacts
<1>4. journal = Announced
  BY <1>1 DEF Init, Store!Init, Repo!Init, Announced
<1>5. at \in [Requests -> Places] /\ input \in [Requests -> Inputs \cup {NoInput}]
  BY <1>1 DEF Init, Places
<1>6. QED
  BY <1>1, <1>2, <1>3, <1>4, <1>5 DEF ServiceInv, Waited, Running

\* Handlers, service and transactions together: however the statements of the
\* requests interleave, each call of the repository is to the layers the one
\* step they take it for, and its answer is about the transaction it ran.
THEOREM ServiceImplementsLayers == ServiceSpec => ImplementsLayers
  BY ServiceStart, ServiceStep, PTL DEF ServiceSpec, ImplementsLayers, Spec

\* So the status on the wire tells the truth about the tables: a 2xx of a
\* committed row and its outbox event, a 4xx of a request that changed neither.
THEOREM ServiceStatusIsHonest == ServiceSpec => []WireIsHonest
  BY ServiceImplementsLayers, StatusIsHonest, PTL DEF ImplementsLayers

\* And the metric of the service goes with the status over those transactions.
THEOREM ServiceLabelsAgree == ServiceSpec => []LabelMatchesStatus
  BY ServiceImplementsLayers, LabelsAgree, PTL DEF ImplementsLayers

=============================================================================
