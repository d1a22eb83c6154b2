------------------------ MODULE CachedRepository_proofs ------------------------
(***************************************************************************)
(* Theorems of CachedRepository, for all sets of products, pages, readers  *)
(* and writers and any number of changes.                                  *)
(***************************************************************************)
EXTENDS CachedRepository, TLAPS

\* A not-found answer is never cached: a creation, which deletes no product key,
\* leaves nothing stale under it.
OnlyExistingCached ==
  \A p \in Products :
    ~Exists(p) => /\ ~Present(ProductKey(p))
                  /\ \A r \in Readers : asked[r] = ProductKey(p) => got[r] = Absent

IInv ==
  /\ TypeOK
  /\ OnlyExistingCached
  /\ StaleOnlyIfTainted

LEMMA KeyFacts ==
  /\ \A p, q \in Products : ProductKey(p) = ProductKey(q) => p = q
  /\ \A k \in ProductKeys : k \notin ListKeys /\ k \in Keys /\ k # NoKey /\ k.kind # "list"
  /\ \A k \in ProductKeys : k.id \in Products /\ k = ProductKey(k.id)
  /\ \A k \in ListKeys : k \in Keys /\ k # NoKey /\ k.kind = "list"
  /\ \A p \in Products : ProductKey(p) \in ProductKeys /\ ProductKey(p).id = p
  /\ NoKey \notin Keys
<1>1. \A p \in Products : ProductKey(p) \in ProductKeys /\ ProductKey(p).id = p
                          /\ ProductKey(p).kind = "product" /\ ProductKey(p) # NoKey
  BY DEF ProductKey, ProductKeys, NoKey
<1>2. \A k \in ListKeys : k.kind = "list" /\ k # NoKey
  BY DEF ListKey, ListKeys, NoKey
<1>3. QED
  BY <1>1, <1>2 DEF ProductKeys, Keys

LEMMA RowsInValues ==
  ASSUME TypeOK, NEW k \in Keys, Current(k) # Absent
  PROVE  Current(k) \in ValuesOf(k)
<1>1. \A p \in Products : Exists(p) => version[p] \in 1..MaxVersion
  BY VersionAssumption DEF TypeOK, Exists
<1>2. CASE k \in ListKeys
  <2>1. ASSUME NEW row \in RowsOf(k.page)
        PROVE  row \in Products \X (1..MaxVersion)
    <3>1. \E p \in Products : Exists(p) /\ row = <<p, version[p]>>
      BY DEF RowsOf
    <3>2. QED
      BY <1>1, <3>1
  <2>2. QED
    BY <1>2, <2>1, KeyFacts DEF Current, ValuesOf
<1>3. CASE k \in ProductKeys
  BY <1>1, <1>3, KeyFacts DEF Current, ValuesOf
<1>4. QED
  BY <1>2, <1>3 DEF Keys

LEMMA InitIInv == Init => IInv
<1> SUFFICES ASSUME Init
             PROVE  IInv
  OBVIOUS
<1>1. TypeOK
  BY ProductsAssumption, VersionAssumption DEF Init, TypeOK, Present
<1>2. OnlyExistingCached /\ StaleOnlyIfTainted
  BY KeyFacts DEF Init, OnlyExistingCached, StaleOnlyIfTainted, Stale, Present, Keys
<1>3. QED
  BY <1>1, <1>2 DEF IInv

LEMMA TypeStep == TypeOK /\ [Next]_vars => TypeOK'
<1> SUFFICES ASSUME TypeOK, [Next]_vars
             PROVE  TypeOK'
  OBVIOUS
<1> USE DEF TypeOK, readerVars, writerVars, Present, ValuesOf
<1>1. ASSUME NEW r \in Readers, NEW k \in Keys, Miss(r, k)
      PROVE  TypeOK'
  <2>1. got[r] = Absent
    BY <1>1, KeyFacts DEF Miss
  <2>2. QED
    BY <1>1, <2>1 DEF Miss
<1>2. ASSUME NEW r \in Readers, ReadThrough(r)
      PROVE  TypeOK'
  <2>1. asked[r] \in Keys /\ Current(asked[r]) \in ValuesOf(asked[r])
    BY <1>2, RowsInValues DEF ReadThrough
  <2>2. QED
    BY <1>2, <2>1 DEF ReadThrough
<1>3. ASSUME NEW r \in Readers, ReadFails(r) \/ FillFails(r)
      PROVE  TypeOK'
  BY <1>3 DEF ReadFails, FillFails, Leave
<1>4. ASSUME NEW r \in Readers, Fill(r)
      PROVE  TypeOK'
  BY <1>4 DEF Fill, Leave
<1>5. ASSUME NEW w \in Writers, NEW p \in Products, Write(w, p)
      PROVE  TypeOK'
  BY <1>5, KeyFacts, VersionAssumption DEF Write, FirstStep
<1>6. ASSUME NEW w \in Writers, NEW p \in Products, WriteUnacknowledged(w, p)
      PROVE  TypeOK'
  <2>1. StaleKeys({ProductKey(p)} \cup ListKeys)' \subseteq Keys
    BY KeyFacts DEF StaleKeys
  <2>2. tainted' \subseteq Keys
    BY <1>6, <2>1 DEF WriteUnacknowledged
  <2>3. version' \in [Products -> 0..MaxVersion]
    BY <1>6, VersionAssumption DEF WriteUnacknowledged
  <2>4. QED
    BY <1>6, <2>2, <2>3 DEF WriteUnacknowledged
<1>7. ASSUME NEW w \in Writers, DeleteProduct(w)
      PROVE  TypeOK'
  BY <1>7 DEF DeleteProduct, Remove
<1>8. ASSUME NEW w \in Writers, DeleteProductFails(w)
      PROVE  TypeOK'
  <2>1. StaleKeys({target[w]}) \subseteq Keys
    BY <1>8, KeyFacts DEF StaleKeys, DeleteProductFails
  <2>2. QED
    BY <1>8, <2>1 DEF DeleteProductFails
<1>9. ASSUME NEW w \in Writers, Scan(w)
      PROVE  TypeOK'
  BY <1>9 DEF Scan, Finish, CachedKeys, Matching
<1>10. ASSUME NEW w \in Writers, ScanFails(w)
      PROVE  TypeOK'
  BY <1>10, KeyFacts DEF ScanFails, Finish, StaleKeys
<1>11. ASSUME NEW w \in Writers, DeleteLists(w)
      PROVE  TypeOK'
  BY <1>11 DEF DeleteLists, Finish, Remove
<1>12. ASSUME NEW w \in Writers, DeleteListsFails(w)
      PROVE  TypeOK'
  BY <1>12, KeyFacts DEF DeleteListsFails, Finish, StaleKeys
<1>13. ASSUME NEW k \in Keys, Expire(k)
      PROVE  TypeOK'
  BY <1>13 DEF Expire, Remove
<1>14. CASE UNCHANGED vars
  BY <1>14 DEF vars
<1>15. QED
  BY <1>1, <1>2, <1>3, <1>4, <1>5, <1>6, <1>7, <1>8, <1>9, <1>10, <1>11, <1>12, <1>13, <1>14
     DEF Next, Answer, Invalidate

\* What the database answers changes only with a row, and for the key of one
\* product only with its own.
LEMMA SameCurrent ==
  ASSUME version' = version, NEW k
  PROVE  Current(k)' = Current(k)
BY DEF Current, RowsOf, Exists

LEMMA OtherProducts ==
  ASSUME TypeOK, NEW p \in Products, NEW k \in ProductKeys, k # ProductKey(p),
         version' = [version EXCEPT ![p] = @ + 1]
  PROVE  Current(k)' = Current(k)
<1>1. k.id \in Products /\ k.id # p /\ k.kind # "list"
  BY KeyFacts
<1>2. version'[k.id] = version[k.id]
  BY <1>1 DEF TypeOK
<1>3. QED
  BY <1>1, <1>2 DEF Current, Exists

LEMMA OnlyExistingStep == TypeOK /\ OnlyExistingCached /\ [Next]_vars => OnlyExistingCached'
<1> SUFFICES ASSUME TypeOK, OnlyExistingCached, [Next]_vars,
                    NEW p \in Products, ~Exists(p)'
             PROVE  /\ ~Present(ProductKey(p))'
                    /\ \A r \in Readers : asked'[r] = ProductKey(p) => got'[r] = Absent
  BY DEF OnlyExistingCached
<1>0. ProductKey(p) \in Keys
  BY KeyFacts
\* A row is never deleted: it did not exist before the step either.
<1>1. ~Exists(p)
  <2>1. CASE version' = version
    BY <2>1 DEF Exists
  <2>2. ASSUME NEW q \in Products, version' = [version EXCEPT ![q] = @ + 1]
        PROVE  ~Exists(p)
    BY <2>2 DEF Exists, TypeOK
  <2>3. QED
    BY <2>1, <2>2 DEF Next, vars, Miss, Answer, ReadThrough, ReadFails, Fill, FillFails, Write,
       WriteUnacknowledged, Invalidate, DeleteProduct, DeleteProductFails, Scan, ScanFails,
       DeleteLists, DeleteListsFails, Expire
<1>2. ~Present(ProductKey(p)) /\ \A r \in Readers : asked[r] = ProductKey(p) => got[r] = Absent
  BY <1>1 DEF OnlyExistingCached
<1>3. Current(ProductKey(p)) = Absent
  BY <1>1, KeyFacts DEF Current
<1> USE DEF Present
<1>4. ASSUME NEW r \in Readers, NEW k \in Keys, Miss(r, k)
      PROVE  /\ ~Present(ProductKey(p))'
             /\ \A s \in Readers : asked'[s] = ProductKey(p) => got'[s] = Absent
  <2>1. got[r] = Absent
    BY <1>4, KeyFacts DEF Miss, TypeOK
  <2>2. QED
    BY <1>2, <1>4, <2>1 DEF Miss, TypeOK
<1>5. ASSUME NEW r \in Readers, Answer(r)
      PROVE  /\ ~Present(ProductKey(p))'
             /\ \A s \in Readers : asked'[s] = ProductKey(p) => got'[s] = Absent
  <2>1. CASE ReadThrough(r)
    BY <1>2, <1>3, <2>1 DEF ReadThrough, TypeOK
  <2>2. CASE Fill(r)
    BY <1>0, <1>2, <2>2 DEF Fill, Leave, TypeOK
  <2>3. CASE ReadFails(r) \/ FillFails(r)
    BY <1>2, <2>3 DEF ReadFails, FillFails, Leave, TypeOK
  <2>4. QED
    BY <1>5, <2>1, <2>2, <2>3 DEF Answer
<1>6. CASE UNCHANGED <<cache, asked, got>>
  BY <1>2, <1>6
<1>7. CASE \E ks : Remove(ks) /\ UNCHANGED <<asked, got>>
  BY <1>0, <1>2, <1>7 DEF Remove
<1>8. QED
  BY <1>4, <1>5, <1>6, <1>7 DEF Next, vars, readerVars, Write, WriteUnacknowledged, Invalidate,
     DeleteProduct, DeleteProductFails, Scan, ScanFails, DeleteLists, DeleteListsFails, Expire

\* k needs no invalidation, is known to be tainted, or is about to be deleted.
Accounted(k) == Stale(k) => k \in tainted \/ \E w \in Writers : WillDelete(w, k)

\* Steps that change neither the database nor what the cache holds.
LEMMA QuietStep ==
  ASSUME StaleOnlyIfTainted, UNCHANGED <<version, cache, writerVars, tainted>>
  PROVE  StaleOnlyIfTainted'
<1> SUFFICES ASSUME NEW k \in Keys
             PROVE  Accounted(k)'
  BY DEF StaleOnlyIfTainted, Accounted
<1>1. Stale(k)' = Stale(k)
  BY SameCurrent DEF Stale, Present
<1>2. \A w \in Writers : WillDelete(w, k)' = WillDelete(w, k)
  BY DEF WillDelete, writerVars
<1>3. QED
  BY <1>1, <1>2 DEF StaleOnlyIfTainted, Accounted

\* Keys that leave Redis are fresh; the others stay as they were, and whoever was
\* to delete one of them still is.
LEMMA RemoveStep ==
  ASSUME TypeOK, StaleOnlyIfTainted, version' = version, NEW ks, Remove(ks),
         \A w \in Writers, k \in Keys \ ks :
           WillDelete(w, k) => \/ step'[w] = step[w] /\ target'[w] = target[w] /\ found'[w] = found[w]
                               \/ WillDelete(w, k)'
  PROVE  StaleOnlyIfTainted'
<1> SUFFICES ASSUME NEW k \in Keys, Stale(k)'
             PROVE  k \in tainted' \/ \E w \in Writers : WillDelete(w, k)'
  BY DEF StaleOnlyIfTainted
<1>1. k \notin ks /\ cache'[k] = cache[k]
  BY DEF Remove, Stale, Present
<1>2. Stale(k)
  BY <1>1, SameCurrent DEF Stale, Present
<1>3. CASE k \in tainted
  BY <1>1, <1>3 DEF Remove
<1>4. ASSUME NEW w \in Writers, WillDelete(w, k)
      PROVE  WillDelete(w, k)'
  <2>1. owed'[w] = owed[w] \ ks
    BY DEF Remove
  <2>2. QED
    BY <1>1, <1>4, <2>1 DEF WillDelete
<1>5. QED
  BY <1>2, <1>3, <1>4 DEF StaleOnlyIfTainted

\* A failed call taints the stale keys it was to delete, and the others keep
\* their writer.
LEMMA FailStep ==
  ASSUME TypeOK, StaleOnlyIfTainted, UNCHANGED <<version, cache>>, NEW ks,
         ks \subseteq Keys, tainted' = tainted \cup StaleKeys(ks),
         \A w \in Writers, k \in Keys \ ks : WillDelete(w, k) => WillDelete(w, k)'
  PROVE  StaleOnlyIfTainted'
<1> SUFFICES ASSUME NEW k \in Keys, Stale(k)'
             PROVE  k \in tainted' \/ \E w \in Writers : WillDelete(w, k)'
  BY DEF StaleOnlyIfTainted
<1>1. Stale(k)
  BY SameCurrent DEF Stale, Present
<1>2. QED
  BY <1>1 DEF StaleOnlyIfTainted, StaleKeys

\* What Create, Update and UpdateStock make stale: the key of the product and the
\* lists, and of a product that did not exist the lists alone.
LEMMA WriteMakesStale ==
  ASSUME TypeOK, OnlyExistingCached, NEW p \in Products, UNCHANGED cache,
         version' = [version EXCEPT ![p] = @ + 1],
         NEW k \in Keys, Stale(k)', ~Stale(k)
  PROVE  k \in ListKeys \/ (k = ProductKey(p) /\ Exists(p))
<1>1. CASE k \in ListKeys
  BY <1>1
<1>2. CASE k \in ProductKeys /\ k # ProductKey(p)
  BY <1>2, OtherProducts DEF Stale, Present
<1>3. CASE k = ProductKey(p)
  BY <1>3 DEF OnlyExistingCached, Stale, Present
<1>4. QED
  BY <1>1, <1>2, <1>3 DEF Keys

LEMMA StaleStep == TypeOK /\ OnlyExistingCached /\ StaleOnlyIfTainted /\ [Next]_vars
                     => StaleOnlyIfTainted'
<1> SUFFICES ASSUME TypeOK, OnlyExistingCached, StaleOnlyIfTainted, [Next]_vars
             PROVE  StaleOnlyIfTainted'
  OBVIOUS
<1>1. ASSUME NEW r \in Readers, NEW k \in Keys, Miss(r, k)
      PROVE  StaleOnlyIfTainted'
  BY <1>1, QuietStep DEF Miss
<1>2. ASSUME NEW r \in Readers, ReadThrough(r) \/ ReadFails(r) \/ FillFails(r)
      PROVE  StaleOnlyIfTainted'
  BY <1>2, QuietStep DEF ReadThrough, ReadFails, FillFails
<1>3. ASSUME NEW r \in Readers, Fill(r)
      PROVE  StaleOnlyIfTainted'
  <2> SUFFICES ASSUME NEW k \in Keys, Stale(k)'
               PROVE  k \in tainted' \/ \E w \in Writers : WillDelete(w, k)'
    BY DEF StaleOnlyIfTainted
  <2>1. version' = version /\ \A w \in Writers : WillDelete(w, k) => WillDelete(w, k)'
    BY <1>3 DEF Fill, WillDelete, writerVars
  <2>2. CASE k = asked[r]
    <3>1. cache'[k] = got[r]
      BY <1>3, <2>2 DEF Fill, TypeOK
    <3>2. got[r] # Current(k)
      BY <2>1, <3>1, SameCurrent DEF Stale
    <3>3. QED
      BY <1>3, <2>2, <3>2 DEF Fill
  <2>3. CASE k # asked[r]
    <3>1. cache'[k] = cache[k]
      BY <1>3, <2>3 DEF Fill, TypeOK
    <3>2. Stale(k)
      BY <2>1, <3>1, SameCurrent DEF Stale, Present
    <3>3. k \in tainted => k \in tainted'
      BY <1>3, <2>3 DEF Fill
    <3>4. QED
      BY <2>1, <3>2, <3>3 DEF StaleOnlyIfTainted
  <2>4. QED
    BY <2>2, <2>3
<1>4. ASSUME NEW w \in Writers, NEW p \in Products, Write(w, p)
      PROVE  StaleOnlyIfTainted'
  <2> SUFFICES ASSUME NEW k \in Keys, Stale(k)'
               PROVE  k \in tainted' \/ \E x \in Writers : WillDelete(x, k)'
    BY DEF StaleOnlyIfTainted
  <2>1. CASE Stale(k)
    <3>1. k \in tainted => k \in tainted'
      BY <1>4 DEF Write
    <3>2. ASSUME NEW x \in Writers, WillDelete(x, k)
          PROVE  WillDelete(x, k)'
      <4>1. x # w
        BY <1>4, <3>2 DEF Write, WillDelete
      <4>2. step'[x] = step[x] /\ target'[x] = target[x] /\ found'[x] = found[x] /\ owed'[x] = owed[x]
        BY <1>4, <4>1 DEF Write, TypeOK
      <4>3. QED
        BY <3>2, <4>2 DEF WillDelete
    <3>3. QED
      BY <2>1, <3>1, <3>2 DEF StaleOnlyIfTainted
  <2>2. CASE ~Stale(k)
    <3>1. k \in ListKeys \/ (k = ProductKey(p) /\ Exists(p))
      BY <1>4, <2>2, WriteMakesStale DEF Write
    <3>2. target'[w] = ProductKey(p) /\ step'[w] = IF Exists(p) THEN "product" ELSE "list"
      BY <1>4 DEF Write, FirstStep, TypeOK
    <3>3. WillDelete(w, k)'
      BY <3>1, <3>2 DEF WillDelete
    <3>4. QED
      BY <3>3
  <2>3. QED
    BY <2>1, <2>2
<1>5. ASSUME NEW w \in Writers, NEW p \in Products, WriteUnacknowledged(w, p)
      PROVE  StaleOnlyIfTainted'
  <2> SUFFICES ASSUME NEW k \in Keys, Stale(k)'
               PROVE  k \in tainted' \/ \E x \in Writers : WillDelete(x, k)'
    BY DEF StaleOnlyIfTainted
  <2>1. \A x \in Writers : WillDelete(x, k) => WillDelete(x, k)'
    BY <1>5 DEF WriteUnacknowledged, WillDelete, writerVars
  <2>2. CASE Stale(k)
    BY <1>5, <2>1, <2>2 DEF WriteUnacknowledged, StaleOnlyIfTainted
  <2>3. CASE ~Stale(k)
    <3>1. k \in {ProductKey(p)} \cup ListKeys
      BY <1>5, <2>3, WriteMakesStale DEF WriteUnacknowledged
    <3>2. k \in StaleKeys({ProductKey(p)} \cup ListKeys)'
      BY <3>1 DEF StaleKeys, ProductKey, ListKeys, ListKey
    <3>3. QED
      BY <1>5, <3>2 DEF WriteUnacknowledged
  <2>4. QED
    BY <2>2, <2>3
<1>6. ASSUME NEW w \in Writers, DeleteProduct(w)
      PROVE  StaleOnlyIfTainted'
  <2>1. ASSUME NEW x \in Writers, NEW k \in Keys \ {target[w]}, WillDelete(x, k)
        PROVE  \/ step'[x] = step[x] /\ target'[x] = target[x] /\ found'[x] = found[x]
               \/ WillDelete(x, k)'
    <3>1. CASE x # w
      BY <1>6, <3>1 DEF DeleteProduct, TypeOK
    <3>2. CASE x = w
      <4>1. k \in ListKeys /\ step'[w] = "list"
        BY <1>6, <2>1, <3>2 DEF DeleteProduct, WillDelete, TypeOK
      <4>2. QED
        BY <3>2, <4>1 DEF WillDelete, ListKeys, ListKey
    <3>3. QED
      BY <3>1, <3>2
  <2>2. QED
    BY <1>6, <2>1, RemoveStep DEF DeleteProduct
<1>7. ASSUME NEW w \in Writers, DeleteProductFails(w)
      PROVE  StaleOnlyIfTainted'
  <2>1. ASSUME NEW x \in Writers, NEW k \in Keys \ {target[w]}, WillDelete(x, k)
        PROVE  WillDelete(x, k)'
    <3>1. CASE x # w
      <4>1. step'[x] = step[x]
        BY <1>7, <3>1 DEF DeleteProductFails, TypeOK
      <4>2. QED
        BY <1>7, <2>1, <4>1 DEF DeleteProductFails, WillDelete
    <3>2. CASE x = w
      <4>1. k \in ListKeys /\ step'[w] = "list"
        BY <1>7, <2>1, <3>2 DEF DeleteProductFails, WillDelete, TypeOK
      <4>2. QED
        BY <3>2, <4>1 DEF WillDelete, ListKeys, ListKey
    <3>3. QED
      BY <3>1, <3>2
  <2>2. {target[w]} \subseteq Keys
    BY <1>7 DEF DeleteProductFails, TypeOK, Keys
  <2>3. QED
    BY <1>7, <2>1, <2>2, FailStep DEF DeleteProductFails
<1>8. ASSUME NEW w \in Writers, Scan(w)
      PROVE  StaleOnlyIfTainted'
  <2> SUFFICES ASSUME NEW k \in Keys, Stale(k)'
               PROVE  k \in tainted' \/ \E x \in Writers : WillDelete(x, k)'
    BY DEF StaleOnlyIfTainted
  <2>1. Stale(k) /\ tainted' = tainted
    BY <1>8, SameCurrent DEF Scan, Stale, Present
  <2>2. ASSUME NEW x \in Writers, WillDelete(x, k)
        PROVE  WillDelete(x, k)'
    <3>1. CASE x # w
      <4>1. step'[x] = step[x] /\ target'[x] = target[x] /\ found'[x] = found[x] /\ owed'[x] = owed[x]
        BY <1>8, <3>1 DEF Scan, Finish, TypeOK
      <4>2. QED
        BY <2>2, <4>1 DEF WillDelete
    <3>2. CASE x = w
      \* Of the keys the writer was to delete, those still present are found by
      \* this call or remain to be returned by a later one.
      <4>1. PICK ks \in SUBSET CachedKeys(Matching) :
              LET all  == found[w] \cup ks
                  rest == (IF step[w] = "list" THEN CachedKeys(Matching) ELSE owed[w]) \ ks
              IN  \/ /\ step' = [step EXCEPT ![w] = "scan"]
                     /\ found' = [found EXCEPT ![w] = all]
                     /\ owed' = [owed EXCEPT ![w] = rest]
                  \/ /\ rest = {}
                     /\ all # {}
                     /\ step' = [step EXCEPT ![w] = "delete"]
                     /\ found' = [found EXCEPT ![w] = all]
                  \/ /\ rest = {}
                     /\ all = {}
        BY <1>8 DEF Scan, ScanComplete
      <4> DEFINE rest == (IF step[w] = "list" THEN CachedKeys(Matching) ELSE owed[w]) \ ks
      <4>2. k \in found[w] \cup ks \cup rest
        <5>1. CASE step[w] = "list"
          BY <2>1, <2>2, <3>2, <5>1 DEF WillDelete, CachedKeys, Matching, Stale
        <5>2. CASE step[w] = "scan"
          BY <2>2, <3>2, <5>2 DEF WillDelete
        <5>3. QED
          BY <1>8, <5>1, <5>2 DEF Scan
      <4>3. \/ step'[w] = "scan" /\ found'[w] = found[w] \cup ks /\ owed'[w] = rest
            \/ step'[w] = "delete" /\ found'[w] = found[w] \cup ks /\ rest = {}
            \/ rest = {} /\ found[w] \cup ks = {}
        BY <4>1 DEF TypeOK
      <4>4. QED
        BY <3>2, <4>2, <4>3 DEF WillDelete
    <3>3. QED
      BY <3>1, <3>2
  <2>3. QED
    BY <2>1, <2>2 DEF StaleOnlyIfTainted
<1>9. ASSUME NEW w \in Writers, ScanFails(w) \/ DeleteListsFails(w)
      PROVE  StaleOnlyIfTainted'
  <2> DEFINE ks == IF ScanFails(w) THEN ListKeys ELSE found[w]
  <2>1. ASSUME NEW x \in Writers, NEW k \in Keys \ ks, WillDelete(x, k)
        PROVE  WillDelete(x, k)'
    <3>1. CASE x # w
      <4>1. step'[x] = step[x] /\ target'[x] = target[x] /\ found'[x] = found[x] /\ owed'[x] = owed[x]
        BY <1>9, <3>1 DEF ScanFails, DeleteListsFails, Finish, TypeOK
      <4>2. QED
        BY <2>1, <4>1 DEF WillDelete
    <3>2. CASE x = w
      BY <1>9, <2>1, <3>2 DEF ScanFails, DeleteListsFails, WillDelete, TypeOK
    <3>3. QED
      BY <3>1, <3>2
  <2>2. ks \subseteq Keys /\ UNCHANGED <<version, cache>> /\ tainted' = tainted \cup StaleKeys(ks)
    BY <1>9, KeyFacts DEF ScanFails, DeleteListsFails, TypeOK
  <2> HIDE DEF ks
  <2>3. QED
    BY <2>1, <2>2, FailStep
<1>10. ASSUME NEW w \in Writers, DeleteLists(w)
       PROVE  StaleOnlyIfTainted'
  <2>1. ASSUME NEW x \in Writers, NEW k \in Keys \ found[w], WillDelete(x, k)
        PROVE  step'[x] = step[x] /\ target'[x] = target[x] /\ found'[x] = found[x]
    <3>1. x # w
      BY <1>10, <2>1 DEF DeleteLists, WillDelete
    <3>2. QED
      BY <1>10, <3>1 DEF DeleteLists, Finish, TypeOK
  <2>2. QED
    BY <1>10, <2>1, RemoveStep DEF DeleteLists
<1>11. ASSUME NEW k \in Keys, Expire(k)
       PROVE  StaleOnlyIfTainted'
  BY <1>11, RemoveStep DEF Expire
<1>12. CASE UNCHANGED vars
  BY <1>12, QuietStep DEF vars
<1>13. QED
  BY <1>1, <1>2, <1>3, <1>4, <1>5, <1>6, <1>7, <1>8, <1>9, <1>10, <1>11, <1>12
     DEF Next, Answer, Invalidate

----------------------------------------------------------------------------
LEMMA InductiveInvariant == Spec => []IInv
<1>1. Init => IInv
  BY InitIInv
<1>2. IInv /\ [Next]_vars => IInv'
  BY TypeStep, OnlyExistingStep, StaleStep DEF IInv
<1>3. QED
  BY <1>1, <1>2, PTL DEF Spec

\* Every entry of the cache, every answer a reader holds and every key a writer
\* has still to delete is one the code could have put there: internal/repository/
\* cached never stores a not-found answer or a page under a product key.
THEOREM TypeCorrect == Spec => []TypeOK
<1>1. IInv => TypeOK
  BY DEF IInv
<1>2. QED
  BY <1>1, InductiveInvariant, PTL

\* With any number of readers, writers and replicas, an entry of the cache that
\* differs from the database has a writer that will delete it, or one of the
\* causes Fill, WriteUnacknowledged and the failing DEL and SCAN calls record.
THEOREM StalenessIsExplained == Spec => []StaleOnlyIfTainted
<1>1. IInv => StaleOnlyIfTainted
  BY DEF IInv
<1>2. QED
  BY <1>1, InductiveInvariant, PTL

\* GetByID caches no ErrProductNotFound and no row is ever deleted, so Create may
\* delete the lists alone: nothing is cached, or about to be, under the key of a
\* product that does not exist yet.
THEOREM NotFoundIsNeverCached == Spec => []OnlyExistingCached
<1>1. IInv => OnlyExistingCached
  BY DEF IInv
<1>2. QED
  BY <1>1, InductiveInvariant, PTL

=============================================================================
