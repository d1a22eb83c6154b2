--------------------------- MODULE CachedRepository ---------------------------
(***************************************************************************)
(* internal/repository/cached over internal/repository/redis: GetByID and  *)
(* List fill the cache after a miss; Create, Update and UpdateStock write  *)
(* the database and then delete what they made stale.  Readers and writers *)
(* run concurrently in any number of replicas over one Redis, and every    *)
(* call to Redis or to the database is a step of its own that may fail.    *)
(*                                                                         *)
(* A row is abstracted to the number of its changes (ProductStore is the   *)
(* atomic database below), a page to the rows it lists.  Assumed of Redis: *)
(* GET, SET and DEL are atomic; a complete SCAN returns every key that was *)
(* present from its first to its last call; an entry with a TTL expires.   *)
(***************************************************************************)
EXTENDS Integers, FiniteSets

CONSTANTS
  Products,    \* ids, ordered as ORDER BY id orders them
  Seeded,      \* products the migrations insert
  Pages,       \* limits and offsets asked for, [limit, offset]
  Readers,     \* requests that read
  Writers,     \* requests that write
  MaxVersion,  \* bound: changes of one product, its creation included
  Absent       \* no cache entry

ASSUME ProductsAssumption == Products \subseteq Int /\ Seeded \subseteq Products
ASSUME PagesAssumption    == Pages \subseteq [limit: Nat, offset: Nat]
ASSUME VersionAssumption  == MaxVersion \in Nat \ {0}

ProductKey(p) == [kind |-> "product", id |-> p]
ListKey(g)    == [kind |-> "list", page |-> g]

ProductKeys == {ProductKey(p) : p \in Products}
ListKeys    == {ListKey(g) : g \in Pages}
Keys        == ProductKeys \cup ListKeys

VARIABLES
  version,   \* changes of each row so far, 0 before it is created
  cache,     \* Redis: [Keys -> value or Absent]
  asked,     \* key each reader is working on
  got,       \* value it read from the database, Absent before
  target,    \* product key of what each writer changed
  step,      \* what it has to do next
  found,     \* list keys its SCAN has returned
  owed,      \* list keys its SCAN must still return
  tainted    \* entries left or put there by a race or a failure (history)

readerVars == <<asked, got>>
writerVars == <<target, step, found, owed>>
vars == <<version, cache, readerVars, writerVars, tainted>>

NoKey == [kind |-> "none"]

Exists(p) == version[p] > 0

\* SELECT ... ORDER BY id LIMIT limit OFFSET offset
RowsOf(g) ==
  LET rank(p) == Cardinality({q \in Products : Exists(q) /\ q < p})
  IN  {<<p, version[p]>> :
         p \in {q \in Products : Exists(q) /\ rank(q) \in g.offset..(g.offset + g.limit - 1)}}

\* What the database answers now; Absent is ErrProductNotFound.
Current(k) ==
  IF k.kind = "list" THEN RowsOf(k.page)
  ELSE IF Exists(k.id) THEN version[k.id] ELSE Absent

Present(k) == cache[k] # Absent
Stale(k)   == Present(k) /\ cache[k] # Current(k)

CachedKeys(S) == {k \in S : Present(k)}
StaleKeys(S)  == {k \in S : Stale(k)}

Init ==
  /\ version = [p \in Products |-> IF p \in Seeded THEN 1 ELSE 0]
  /\ cache = [k \in Keys |-> Absent]
  /\ asked = [r \in Readers |-> NoKey]
  /\ got = [r \in Readers |-> Absent]
  /\ target = [w \in Writers |-> NoKey]
  /\ step = [w \in Writers |-> "idle"]
  /\ found = [w \in Writers |-> {}]
  /\ owed = [w \in Writers |-> {}]
  /\ tainted = {}

----------------------------------------------------------------------------
(* GetByID and List.                                                       *)

\* GET misses. A hit, and an error of GET, end the call without a change.
Miss(r, k) ==
  /\ asked[r] = NoKey
  /\ ~Present(k)
  /\ asked' = [asked EXCEPT ![r] = k]
  /\ UNCHANGED <<version, cache, got, writerVars, tainted>>

\* The call returns.
Leave(r) ==
  /\ asked' = [asked EXCEPT ![r] = NoKey]
  /\ got' = [got EXCEPT ![r] = Absent]

\* next.GetByID or next.List answers.
ReadThrough(r) ==
  /\ asked[r] # NoKey
  /\ got[r] = Absent
  /\ Current(asked[r]) # Absent
  /\ got' = [got EXCEPT ![r] = Current(asked[r])]
  /\ UNCHANGED <<version, cache, asked, writerVars, tainted>>

\* It answers not found or fails, or the caller gives up: nothing is cached.
ReadFails(r) ==
  /\ asked[r] # NoKey
  /\ got[r] = Absent
  /\ Leave(r)
  /\ UNCHANGED <<version, cache, writerVars, tainted>>

\* SET with the TTL.
Fill(r) ==
  /\ asked[r] # NoKey
  /\ got[r] # Absent
  /\ cache' = [cache EXCEPT ![asked[r]] = got[r]]
  /\ tainted' = IF got[r] = Current(asked[r]) THEN tainted \ {asked[r]}
                ELSE tainted \cup {asked[r]}
  /\ Leave(r)
  /\ UNCHANGED <<version, writerVars>>

\* SET fails; the caller is answered from the database all the same.
FillFails(r) ==
  /\ asked[r] # NoKey
  /\ got[r] # Absent
  /\ Leave(r)
  /\ UNCHANGED <<version, cache, writerVars, tainted>>

----------------------------------------------------------------------------
(* Create, Update and UpdateStock.                                         *)

\* The first thing an acknowledged write deletes.
FirstStep_NoKeyKey(p) == "list"
FirstStep(p) == IF Exists(p) THEN "product" ELSE "list"

\* next.Create, next.Update or next.UpdateStock commits and returns.
Write(w, p) ==
  /\ step[w] = "idle"
  /\ version[p] < MaxVersion
  /\ version' = [version EXCEPT ![p] = @ + 1]
  /\ target' = [target EXCEPT ![w] = ProductKey(p)]
  /\ step' = [step EXCEPT ![w] = FirstStep(p)]
  /\ UNCHANGED <<cache, readerVars, found, owed, tainted>>

\* It commits and returns an error all the same (the acknowledgement was lost):
\* the call ends there and deletes nothing.
WriteUnacknowledged(w, p) ==
  /\ step[w] = "idle"
  /\ version[p] < MaxVersion
  /\ version' = [version EXCEPT ![p] = @ + 1]
  /\ UNCHANGED <<cache, readerVars, writerVars>>
  /\ tainted' = tainted \cup StaleKeys({ProductKey(p)} \cup ListKeys)'

\* Keys leave Redis; a SCAN that is under way need not return them any more.
Remove(ks) ==
  /\ cache' = [k \in Keys |-> IF k \in ks THEN Absent ELSE cache[k]]
  /\ owed' = [w \in Writers |-> owed[w] \ ks]
  /\ tainted' = tainted \ ks

DeleteProduct(w) ==
  /\ step[w] = "product"
  /\ Remove({target[w]})
  /\ step' = [step EXCEPT ![w] = "list"]
  /\ UNCHANGED <<version, readerVars, target, found>>

\* DEL fails or its context is cancelled: logged, and on to the lists.
DeleteProductFails(w) ==
  /\ step[w] = "product"
  /\ tainted' = tainted \cup StaleKeys({target[w]})
  /\ step' = [step EXCEPT ![w] = "list"]
  /\ UNCHANGED <<version, cache, readerVars, target, found, owed>>

\* The call is over.
Finish(w) ==
  /\ step' = [step EXCEPT ![w] = "idle"]
  /\ target' = [target EXCEPT ![w] = NoKey]
  /\ found' = [found EXCEPT ![w] = {}]

\* The keys the pattern "catalog:list:v1:*" matches.
Matching_Everything == Keys
Matching == ListKeys

\* One SCAN call returns the keys ks; the loop ends when the cursor is 0.
ScanComplete_OnePage(w, rest) == TRUE
ScanComplete(w, rest) == rest = {}

Scan(w) ==
  /\ step[w] \in {"list", "scan"}
  /\ \E ks \in SUBSET CachedKeys(Matching) :
       LET all  == found[w] \cup ks
           rest == (IF step[w] = "list" THEN CachedKeys(Matching) ELSE owed[w]) \ ks
       IN  \/ /\ step' = [step EXCEPT ![w] = "scan"]
              /\ found' = [found EXCEPT ![w] = all]
              /\ owed' = [owed EXCEPT ![w] = rest]
              /\ UNCHANGED target
           \/ /\ ScanComplete(w, rest)
              /\ all # {}
              /\ step' = [step EXCEPT ![w] = "delete"]
              /\ found' = [found EXCEPT ![w] = all]
              /\ owed' = [owed EXCEPT ![w] = {}]
              /\ UNCHANGED target
           \/ /\ ScanComplete(w, rest)
              /\ all = {}
              /\ owed' = [owed EXCEPT ![w] = {}]
              /\ Finish(w)
  /\ UNCHANGED <<version, cache, readerVars, tainted>>

\* SCAN fails: InvalidateListCache returns before anything is deleted.
ScanFails(w) ==
  /\ step[w] \in {"list", "scan"}
  /\ tainted' = tainted \cup StaleKeys(ListKeys)
  /\ owed' = [owed EXCEPT ![w] = {}]
  /\ Finish(w)
  /\ UNCHANGED <<version, cache, readerVars>>

\* DEL of every key the SCAN found.
DeleteLists(w) ==
  /\ step[w] = "delete"
  /\ Remove(found[w])
  /\ Finish(w)
  /\ UNCHANGED <<version, readerVars>>

DeleteListsFails(w) ==
  /\ step[w] = "delete"
  /\ tainted' = tainted \cup StaleKeys(found[w])
  /\ Finish(w)
  /\ UNCHANGED <<version, cache, readerVars, owed>>

\* The TTL of an entry runs out.
Expires_ProductsOnly(k) == k.kind = "product"
Expires(k) == k \in Keys

Expire(k) ==
  /\ Expires(k)
  /\ Present(k)
  /\ Remove({k})
  /\ UNCHANGED <<version, readerVars, target, step, found>>

----------------------------------------------------------------------------
Answer(r) == ReadThrough(r) \/ ReadFails(r) \/ Fill(r) \/ FillFails(r)

Invalidate(w) ==
  \/ DeleteProduct(w) \/ DeleteProductFails(w)
  \/ Scan(w) \/ ScanFails(w)
  \/ DeleteLists(w) \/ DeleteListsFails(w)

Next ==
  \/ \E r \in Readers, k \in Keys : Miss(r, k)
  \/ \E r \in Readers : Answer(r)
  \/ \E w \in Writers, p \in Products : Write(w, p) \/ WriteUnacknowledged(w, p)
  \/ \E w \in Writers : Invalidate(w)
  \/ \E k \in Keys : Expire(k)

Spec == Init /\ [][Next]_vars

\* A handler that has begun goes on, whatever Redis answers; entries expire.
Fairness ==
  /\ \A r \in Readers : WF_vars(Answer(r))
  /\ \A k \in Keys : WF_vars(Expire(k))

FairSpec == Spec /\ Fairness

----------------------------------------------------------------------------
(* Properties.                                                             *)

ValuesOf(k) ==
  IF k.kind = "list" THEN SUBSET (Products \X (1..MaxVersion)) ELSE 1..MaxVersion

TypeOK ==
  /\ version \in [Products -> 0..MaxVersion]
  /\ DOMAIN cache = Keys /\ \A k \in Keys : Present(k) => cache[k] \in ValuesOf(k)
  /\ asked \in [Readers -> Keys \cup {NoKey}]
  /\ DOMAIN got = Readers
  /\ \A r \in Readers : got[r] # Absent => asked[r] \in Keys /\ got[r] \in ValuesOf(asked[r])
  /\ target \in [Writers -> ProductKeys \cup {NoKey}]
  /\ step \in [Writers -> {"idle", "product", "list", "scan", "delete"}]
  /\ \A w \in Writers : step[w] = "product" => target[w] # NoKey
  /\ found \in [Writers -> SUBSET ListKeys]
  /\ owed \in [Writers -> SUBSET ListKeys]
  /\ tainted \subseteq Keys

\* w will still delete k, unless a call to Redis fails.
WillDelete(w, k) ==
  \/ step[w] = "product" /\ k \in {target[w]} \cup ListKeys
  \/ step[w] = "list" /\ k \in ListKeys
  \/ step[w] = "scan" /\ k \in found[w] \cup owed[w]
  \/ step[w] = "delete" /\ k \in found[w]

\* Invalidation of the cached repository: an entry that differs from the
\* database is about to be deleted by the writer that made it so, or comes from
\* one of four causes: a reader that read before the write and filled after it,
\* a DEL or SCAN that failed, a commit that reported an error. Without those a
\* write is visible to every read that starts after it returned.
StaleOnlyIfTainted ==
  \A k \in Keys : Stale(k) => k \in tainted \/ \E w \in Writers : WillDelete(w, k)

\* "кеш инвалидируется по TTL": whatever failed and however late a reader filled
\* the cache, once the writes have stopped every entry is correct for good.
FreshInTheEnd == <>[](\A k \in Keys : ~Stale(k))
=============================================================================
