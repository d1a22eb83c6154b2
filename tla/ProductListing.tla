--------------------------- MODULE ProductListing ---------------------------
(***************************************************************************)
(* A client that reads the whole catalogue through ListProducts, page by   *)
(* page, while products are being created.  It asks for any limit the      *)
(* handler accepts, moves its offset by what it received, and stops at the *)
(* first empty page.                                                       *)
(*                                                                         *)
(* A table is the sequence of rows in the order of ids; ids of creations   *)
(* are uuids, so a new row may come to stand anywhere.  No row is ever     *)
(* deleted, no update moves one.                                           *)
(*                                                                         *)
(* Redis is shared with all other clients.  Any of them may have filled a  *)
(* key from any table there has been, and a race or a failed DEL may have  *)
(* kept that page since (CachedRepository says how), so a hit is a page of *)
(* any of the tables; a miss, or an expired key, reads the latest.         *)
(***************************************************************************)
EXTENDS Integers, Sequences, FiniteSets

CONSTANTS
  Products,      \* product ids
  Existing,      \* the rows when the behaviour starts
  Limits,        \* limits a client may ask for
  DefaultLimit,  \* defaultListLimit, 20
  MaxLimit,      \* maxListLimit, 100
  HandlerLimit   \* the limit above which the handler refuses, 1000

ASSUME LimitsAssumption ==
  /\ Limits \subseteq Nat
  /\ DefaultLimit \in Nat \ {0} /\ MaxLimit \in Nat \ {0} /\ HandlerLimit \in Nat
  /\ DefaultLimit <= MaxLimit /\ MaxLimit <= HandlerLimit

ASSUME ExistingAssumption ==
  /\ Existing \in Seq(Products)
  /\ \A i, j \in 1..Len(Existing) : Existing[i] = Existing[j] => i = j

VARIABLES
  tables,  \* the tables there have been, the latest last
  offset,  \* rows the client has received so far
  seen,    \* the products among them
  first,   \* which table its first page came from, 0 before it
  known,   \* which table its latest page came from, 0 before the first
  back,    \* some page came from an older table than the page before it
  last     \* the latest page: limit asked for, rows received

clientVars == <<offset, seen, first, known, back, last>>
vars == <<tables, clientVars>>

Init ==
  /\ tables = <<Existing>>
  /\ offset = 0
  /\ seen = {}
  /\ first = 0
  /\ known = 0
  /\ back = FALSE
  /\ last = [limit |-> 0, got |-> 0]

ElementsOf(s) == {s[i] : i \in 1..Len(s)}
rows == tables[Len(tables)]

----------------------------------------------------------------------------
\* validateListProductsRequest
Accepted(limit) == limit <= HandlerLimit

EffectiveLimit_NoCap(limit) == IF limit = 0 THEN DefaultLimit ELSE limit
\* ListProducts of the service
EffectiveLimit(limit) ==
  CASE limit = 0        -> DefaultLimit
    [] limit > MaxLimit -> MaxLimit
    [] OTHER            -> limit

First(from) == from + 1

\* ORDER BY id LIMIT $1 OFFSET $2
PageOf(table, limit, from) ==
  SubSeq(table, First(from), IF from + limit < Len(table) THEN from + limit ELSE Len(table))

Key_NoLimit(limit, from) == from
Key_NoOffset(limit, from) == limit
\* productListKey
Key(limit, from) == <<limit, from>>

\* A page of the t-th table.
Receive(limit, t, page) ==
  /\ seen' = seen \cup ElementsOf(page)
  /\ offset' = offset + Len(page)
  /\ first' = IF first = 0 THEN t ELSE first
  /\ known' = t
  /\ back' = (back \/ t < known)
  /\ last' = [limit |-> limit, got |-> Len(page)]
  /\ UNCHANGED tables

\* The key is in Redis: a request for the same key, of any client, found it
\* missing, read the t-th table and filled it.
ListCached(limit) ==
  \E t \in 1..Len(tables), asked \in Limits, from \in 0..Len(rows) :
    /\ Accepted(asked)
    /\ Key(EffectiveLimit(asked), from) = Key(EffectiveLimit(limit), offset)
    /\ Receive(limit, t, PageOf(tables[t], EffectiveLimit(asked), from))

\* It is not, or has expired: the database is read.
ListRead(limit) ==
  Receive(limit, Len(tables), PageOf(rows, EffectiveLimit(limit), offset))

AtEnd == known > 0 /\ last.got = 0

\* A request that fails is made again; the client has learned nothing.
ListProducts(limit) ==
  /\ ~AtEnd
  /\ Accepted(limit)
  /\ ListCached(limit) \/ ListRead(limit)

Inserted(p, k) ==
  [i \in 1..(Len(rows) + 1) |->
     IF i <= k THEN rows[i] ELSE IF i = k + 1 THEN p ELSE rows[i - 1]]

\* INSERT.  What of the lists InvalidateListCache deletes is left to
\* ListCached, which may or may not find a key.
Create(p, k) ==
  /\ p \notin ElementsOf(rows)
  /\ tables' = Append(tables, Inserted(p, k))
  /\ UNCHANGED clientVars

Finished == AtEnd /\ UNCHANGED vars

Next ==
  \/ \E limit \in Limits : ListProducts(limit)
  \/ \E p \in Products, k \in 0..Len(rows) : Create(p, k)
  \/ Finished

Spec == Init /\ [][Next]_vars

----------------------------------------------------------------------------
(* Properties.                                                             *)

\* No page has more than maxListLimit rows, whatever the client asks for and
\* whichever page it is given.
TypeOK ==
  /\ tables \in Seq(Seq(Products)) /\ tables # << >>
  /\ offset \in Nat
  /\ seen \subseteq Products
  /\ first \in 0..Len(tables) /\ known \in 0..Len(tables)
  /\ (first = 0 <=> known = 0)
  /\ back \in BOOLEAN
  /\ last \in [limit: Nat, got: 0..MaxLimit]

\* Offset pagination over ORDER BY id, through a cache other clients fill.  A
\* page shorter than the limit the service put in force ends the catalogue:
\* the client then has every product of the table its first page came from.
\* Its pages may all be out of date, as long as none is older than the page
\* before it: creations only move rows towards the end.
NothingMissed ==
  known > 0 /\ last.got < EffectiveLimit(last.limit) /\ ~back =>
    ElementsOf(tables[first]) \subseteq seen

\* It receives a product a second time at most once per creation that lies
\* between the tables of its first and its latest page.
RepeatsAreCreations ==
  ~back => offset - Cardinality(seen) <= known - first
=============================================================================
