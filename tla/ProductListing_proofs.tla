------------------------ MODULE ProductListing_proofs ------------------------
(***************************************************************************)
(* Theorems of ProductListing, for any table, any limits, any number of    *)
(* creations and any pages that other clients left in the cache.           *)
(***************************************************************************)
EXTENDS ProductListing, SequenceTheorems, FiniteSetTheorems, TLAPS

\* A product stands in one row.
Injective(s) == \A i, j \in 1..Len(s) : s[i] = s[j] => i = j

\* Every row of s stands in u, and no further to the front.
Embeds(s, u) == \A i \in 1..Len(s) : \E j \in i..Len(u) : u[j] = s[i]

\* Each creation adds one row, and moves those there are towards the end only.
TablesOK ==
  \A t \in 1..Len(tables) :
    /\ Injective(tables[t])
    /\ Len(tables[t]) = Len(Existing) + t - 1
    /\ \A u \in t..Len(tables) : Embeds(tables[t], tables[u])

\* Whatever stood in the table of the first page has been received, or stands
\* behind the offset in the table of the latest page.
Ahead ==
  known > 0 /\ ~back =>
    /\ first <= known
    /\ offset <= Len(tables[known])
    /\ \A j \in 1..Len(tables[first]) :
         \/ tables[first][j] \in seen
         \/ \E i \in (offset + 1)..Len(tables[known]) : tables[known][i] = tables[first][j]

IInv ==
  /\ TypeOK
  /\ offset <= Len(rows)
  /\ known = 0 => offset = 0 /\ seen = {} /\ ~back
  /\ IsFiniteSet(seen)
  /\ TablesOK
  /\ Ahead
  /\ NothingMissed

----------------------------------------------------------------------------
LEMMA EffectiveFacts ==
  ASSUME NEW limit \in Nat
  PROVE  EffectiveLimit(limit) \in 1..MaxLimit
BY LimitsAssumption DEF EffectiveLimit

\* A page is cut out of its table at the offset; it is short at the end alone.
LEMMA PageFacts ==
  ASSUME NEW table \in Seq(Products), NEW limit \in 1..MaxLimit, NEW from \in Nat
  PROVE  /\ PageOf(table, limit, from) \in Seq(Products)
         /\ Len(PageOf(table, limit, from)) <= limit
         /\ from <= Len(table) =>
              /\ from + Len(PageOf(table, limit, from)) <= Len(table)
              /\ Len(PageOf(table, limit, from)) < limit =>
                   from + Len(PageOf(table, limit, from)) = Len(table)
         /\ from > Len(table) => Len(PageOf(table, limit, from)) = 0
         /\ \A i \in (from + 1)..(from + Len(PageOf(table, limit, from))) :
              table[i] \in ElementsOf(PageOf(table, limit, from))
<1> DEFINE end == IF from + limit < Len(table) THEN from + limit ELSE Len(table)
           page == SubSeq(table, from + 1, end)
<1>0. MaxLimit \in Nat /\ Len(table) \in Nat /\ from \in Nat /\ limit \in Nat
  BY LimitsAssumption
<1>1. end \in Nat /\ end <= Len(table) /\ end - from <= limit
      /\ (from <= Len(table) => from <= end /\ (end - from < limit => end = Len(table)))
      /\ (from > Len(table) => end < from)
  BY <1>0
<1>2. \A i \in (from + 1)..end : table[i] \in Products
  BY <1>0, <1>1
<1> HIDE DEF end
<1>3. /\ page \in Seq(Products)
      /\ Len(page) = IF from + 1 <= end THEN end - (from + 1) + 1 ELSE 0
      /\ \A i \in 1..(end - (from + 1) + 1) : page[i] = table[from + 1 + i - 1]
  BY <1>0, <1>1, <1>2, SubSeqProperties
<1>4. Len(page) = IF from <= end THEN end - from ELSE 0
  BY <1>0, <1>1, <1>3
<1>5. PageOf(table, limit, from) = page
  BY DEF PageOf, First, end
<1> HIDE DEF page
<1>6. ASSUME NEW i \in (from + 1)..(from + Len(page)) PROVE table[i] \in ElementsOf(page)
  <2> DEFINE k == i - from
  <2>1. k \in 1..(end - from) /\ from + k = i
    BY <1>0, <1>1, <1>4
  <2>2. end - (from + 1) + 1 = end - from /\ from + 1 + k - 1 = from + k
    BY <1>0, <1>1, <2>1
  <2> HIDE DEF k
  <2>3. page[k] = table[i]
    BY <1>3, <2>1, <2>2
  <2>4. k \in 1..Len(page)
    BY <1>0, <1>1, <1>4, <2>1
  <2>5. QED
    BY <2>3, <2>4 DEF ElementsOf
<1>7. QED
  BY <1>0, <1>1, <1>3, <1>4, <1>5, <1>6

\* As many products stand in the first n rows as there are rows.
LEMMA PrefixSize ==
  ASSUME NEW s \in Seq(Products), Injective(s), NEW n \in 0..Len(s)
  PROVE  /\ IsFiniteSet({s[i] : i \in 1..n})
         /\ Cardinality({s[i] : i \in 1..n}) = n
<1> DEFINE T == {s[i] : i \in 1..n}
           f == [i \in 1..n |-> s[i]]
<1>1. n \in Nat /\ 1..n \subseteq 1..Len(s)
  OBVIOUS
<1>2. f \in [1..n -> T]
  OBVIOUS
<1>3. \A i, j \in 1..n : f[i] = f[j] => i = j
  BY <1>1 DEF Injective
<1>4. \A t \in T : \E i \in 1..n : f[i] = t
  OBVIOUS
<1>5. f \in Bijection(1..n, T)
  BY <1>2, <1>3, <1>4 DEF Bijection, Injection, IsInjective, Surjection
<1>6. ExistsBijection(1..n, T)
  BY <1>5 DEF ExistsBijection
<1>7. IsFiniteSet(1..n) /\ Cardinality(1..n) = n
  BY <1>1, FS_Interval
<1>8. QED
  BY <1>6, <1>7, FS_Bijection

\* The products of a page are finitely many.
LEMMA PageIsFinite ==
  ASSUME NEW page \in Seq(Products)
  PROVE  IsFiniteSet(ElementsOf(page))
<1> DEFINE f == [i \in 1..Len(page) |-> page[i]]
<1>1. f \in Surjection(1..Len(page), ElementsOf(page))
  BY DEF Surjection, ElementsOf
<1>2. IsFiniteSet(1..Len(page))
  BY FS_Interval
<1>3. QED
  BY <1>1, <1>2, FS_Surjection

LEMMA InitIInv == Init => IInv
<1> SUFFICES ASSUME Init PROVE IInv
  OBVIOUS
<1>1. tables = <<Existing>> /\ Len(tables) = 1 /\ tables[1] = Existing /\ Len(Existing) \in Nat
  BY ExistingAssumption DEF Init
<1>2. TypeOK
  <2>1. tables \in Seq(Seq(Products)) /\ tables # << >>
    BY <1>1, ExistingAssumption DEF Init
  <2>2. last \in [limit: Nat, got: 0..MaxLimit]
    BY LimitsAssumption DEF Init
  <2>3. /\ first \in 0..Len(tables) /\ known \in 0..Len(tables) /\ (first = 0 <=> known = 0)
        /\ offset \in Nat /\ seen \subseteq Products
    BY <1>1 DEF Init
  <2>4. back \in BOOLEAN
    BY DEF Init
  <2>5. QED
    BY <2>1, <2>2, <2>3, <2>4 DEF TypeOK
<1>3. TablesOK
  BY <1>1, ExistingAssumption DEF TablesOK, Injective, Embeds
<1>4. offset <= Len(rows) /\ IsFiniteSet(seen) /\ Ahead /\ NothingMissed
  BY <1>1, FS_EmptySet DEF Init, rows, Ahead, NothingMissed
<1>5. QED
  BY <1>2, <1>3, <1>4 DEF IInv, Init

\* A page of any table, at the client's offset.
LEMMA ReceiveStep ==
  ASSUME IInv, NEW limit \in Nat, NEW t \in 1..Len(tables), ~AtEnd,
         Receive(limit, t, PageOf(tables[t], EffectiveLimit(limit), offset))
  PROVE  IInv'
<1> DEFINE eff == EffectiveLimit(limit)
           page == PageOf(tables[t], eff, offset)
<1>0. eff \in 1..MaxLimit /\ MaxLimit \in Nat
  BY EffectiveFacts, LimitsAssumption
<1>1. /\ tables \in Seq(Seq(Products)) /\ Len(tables) \in Nat /\ Len(tables) > 0
      /\ offset \in Nat /\ known \in 0..Len(tables) /\ first \in 0..Len(tables)
      /\ (first = 0 <=> known = 0) /\ seen \subseteq Products /\ back \in BOOLEAN
  BY DEF IInv, TypeOK
<1>2. tables[t] \in Seq(Products) /\ Len(tables[t]) \in Nat /\ Len(rows) \in Nat
  BY <1>1 DEF rows
<1>3. /\ tables' = tables /\ rows' = rows /\ known' = t /\ offset' = offset + Len(page)
      /\ seen' = seen \cup ElementsOf(page) /\ first' = (IF first = 0 THEN t ELSE first)
      /\ back' = (back \/ t < known) /\ last' = [limit |-> limit, got |-> Len(page)]
  BY DEF Receive, rows
<1>4. /\ page \in Seq(Products) /\ Len(page) \in Nat /\ Len(page) <= eff
      /\ offset <= Len(tables[t]) =>
           /\ offset + Len(page) <= Len(tables[t])
           /\ Len(page) < eff => offset + Len(page) = Len(tables[t])
      /\ offset > Len(tables[t]) => Len(page) = 0
      /\ \A i \in (offset + 1)..(offset + Len(page)) : tables[t][i] \in ElementsOf(page)
  <2> HIDE DEF eff
  <2>1. /\ page \in Seq(Products) /\ Len(page) <= eff
        /\ offset <= Len(tables[t]) =>
             /\ offset + Len(page) <= Len(tables[t])
             /\ Len(page) < eff => offset + Len(page) = Len(tables[t])
        /\ offset > Len(tables[t]) => Len(page) = 0
        /\ \A i \in (offset + 1)..(offset + Len(page)) : tables[t][i] \in ElementsOf(page)
    BY <1>0, <1>1, <1>2, PageFacts
  <2> HIDE DEF page
  <2>2. QED
    BY <2>1
<1> HIDE DEF page
<1>5. TypeOK'
  <2>1. ElementsOf(page) \subseteq Products
    BY <1>4 DEF ElementsOf
  <2>2. last' \in [limit: Nat, got: 0..MaxLimit]
    BY <1>0, <1>3, <1>4
  <2>3. QED
    BY <1>1, <1>3, <1>4, <2>1, <2>2 DEF TypeOK
<1>6. offset' <= Len(rows')
  <2>1. Len(tables[t]) <= Len(rows)
    <3>1. /\ Len(tables[t]) = Len(Existing) + t - 1
          /\ Len(rows) = Len(Existing) + Len(tables) - 1
          /\ Len(Existing) \in Nat
      BY <1>1, ExistingAssumption DEF IInv, TablesOK, rows
    <3>2. QED
      BY <1>1, <3>1
  <2>2. QED
    BY <1>1, <1>2, <1>3, <1>4, <2>1 DEF IInv
<1>7. TablesOK'
  BY <1>3 DEF IInv, TablesOK
<1>8. IsFiniteSet(seen')
  BY <1>3, <1>4, PageIsFinite, FS_Union DEF IInv
<1>9. ASSUME ~back'
      PROVE  /\ ~back /\ first' \in 1..t /\ offset <= Len(tables[t])
             /\ \A j \in 1..Len(tables[first']) :
                  \/ tables[first'][j] \in seen
                  \/ \E i \in (offset + 1)..Len(tables[t]) : tables[t][i] = tables[first'][j]
  <2>1. ~back /\ known <= t
    <3>1. ~(back \/ t < known)
      BY <1>3, <1>9
    <3>2. ~back
      BY <3>1
    <3>3. known <= t
      BY <1>1, <3>1
    <3>4. QED
      BY <3>2, <3>3
  <2>2. CASE known = 0
    <3>1. first' = t /\ offset = 0
      BY <1>1, <1>3, <2>2 DEF IInv
    <3>2. QED
      BY <1>1, <1>2, <2>1, <3>1
  <2>3. CASE known > 0
    <3>1. /\ first' = first /\ first \in 1..known /\ known \in 1..Len(tables)
          /\ offset <= Len(tables[known])
          /\ \A j \in 1..Len(tables[first]) :
               \/ tables[first][j] \in seen
               \/ \E i \in (offset + 1)..Len(tables[known]) : tables[known][i] = tables[first][j]
      BY <1>1, <1>3, <2>1, <2>3 DEF IInv, Ahead
    <3>2. Len(tables[known]) \in Nat /\ Len(tables[known]) <= Len(tables[t])
      <4>1. /\ Len(tables[t]) = Len(Existing) + t - 1
            /\ Len(tables[known]) = Len(Existing) + known - 1
            /\ Len(Existing) \in Nat
        BY <3>1, ExistingAssumption DEF IInv, TablesOK
      <4>2. tables[known] \in Seq(Products)
        BY <1>1, <3>1
      <4>3. QED
        BY <2>1, <3>1, <4>1, <4>2
    <3>3. \A i \in 1..Len(tables[known]) : \E n \in i..Len(tables[t]) : tables[t][n] = tables[known][i]
      <4>1. t \in known..Len(tables)
        BY <1>1, <2>1, <3>1
      <4>2. QED
        BY <3>1, <4>1 DEF IInv, TablesOK, Embeds
    <3>4. ASSUME NEW j \in 1..Len(tables[first]), tables[first][j] \notin seen
          PROVE  \E n \in (offset + 1)..Len(tables[t]) : tables[t][n] = tables[first][j]
      <4>1. PICK i \in (offset + 1)..Len(tables[known]) : tables[known][i] = tables[first][j]
        BY <3>1, <3>4
      <4>2. PICK n \in i..Len(tables[t]) : tables[t][n] = tables[known][i]
        <5>1. i \in 1..Len(tables[known])
          BY <1>1, <3>2, <4>1
        <5>2. QED
          BY <3>3, <5>1
      <4>3. n \in (offset + 1)..Len(tables[t])
        BY <1>1, <1>2, <3>2, <4>1, <4>2
      <4>4. QED
        BY <4>1, <4>2, <4>3
    <3>5. first \in 1..t /\ offset <= Len(tables[t])
      BY <1>1, <1>2, <2>1, <3>1, <3>2
    <3>6. QED
      BY <2>1, <3>1, <3>4, <3>5
  <2>4. known = 0 \/ known > 0
    BY <1>1
  <2>5. QED
    BY <2>2, <2>3, <2>4
<1>10. Ahead'
  <2> SUFFICES ASSUME ~back'
               PROVE  /\ first' <= t
                      /\ offset' <= Len(tables[t])
                      /\ \A j \in 1..Len(tables[first']) :
                           \/ tables[first'][j] \in seen'
                           \/ \E i \in (offset' + 1)..Len(tables[t]) :
                                tables[t][i] = tables[first'][j]
    BY <1>3 DEF Ahead
  <2>1. first' \in 1..t /\ offset' <= Len(tables[t])
    BY <1>3, <1>4, <1>9
  <2>2. ASSUME NEW j \in 1..Len(tables[first']), tables[first'][j] \notin seen'
        PROVE  \E i \in (offset' + 1)..Len(tables[t]) : tables[t][i] = tables[first'][j]
    <3>1. PICK i \in (offset + 1)..Len(tables[t]) : tables[t][i] = tables[first'][j]
      BY <1>3, <1>9, <2>2
    <3>2. i \notin (offset + 1)..(offset + Len(page))
      BY <1>3, <1>4, <2>2, <3>1
    <3>3. i \in (offset' + 1)..Len(tables[t])
      BY <1>1, <1>2, <1>3, <1>4, <3>1, <3>2
    <3>4. QED
      BY <3>1, <3>3
  <2>3. QED
    BY <2>1, <2>2
<1>11. NothingMissed'
  <2> SUFFICES ASSUME ~back', Len(page) < eff
               PROVE  ElementsOf(tables[first']) \subseteq seen'
    BY <1>3 DEF NothingMissed, EffectiveLimit
  <2>1. offset' = Len(tables[t])
    BY <1>3, <1>4, <1>9
  <2>2. \A j \in 1..Len(tables[first']) : tables[first'][j] \in seen'
    <3>1. known' > 0 /\ tables' = tables /\ known' = t
      BY <1>1, <1>3
    <3>2. \A i \in (offset' + 1)..Len(tables[t]) : FALSE
      BY <1>1, <1>2, <2>1
    <3>3. QED
      BY <1>10, <3>1, <3>2 DEF Ahead
  <2>3. QED
    BY <2>2 DEF ElementsOf
<1>12. QED
  BY <1>1, <1>3, <1>5, <1>6, <1>7, <1>8, <1>10, <1>11 DEF IInv

\* A hit was filled by a request of the same key, hence of the same page.
LEMMA ListStep ==
  ASSUME IInv, NEW limit \in Limits, ListProducts(limit)
  PROVE  IInv'
<1>1. ~AtEnd /\ limit \in Nat /\ Len(tables) \in 1..Len(tables)
  BY LimitsAssumption DEF ListProducts, IInv, TypeOK
<1>2. CASE ListCached(limit)
  <2>1. PICK t \in 1..Len(tables), asked \in Limits, from \in 0..Len(rows) :
          /\ Key(EffectiveLimit(asked), from) = Key(EffectiveLimit(limit), offset)
          /\ Receive(limit, t, PageOf(tables[t], EffectiveLimit(asked), from))
    BY <1>2 DEF ListCached
  <2>2. EffectiveLimit(asked) = EffectiveLimit(limit) /\ from = offset
    BY <2>1 DEF Key
  <2>3. QED
    BY <1>1, <2>1, <2>2, ReceiveStep
<1>3. CASE ListRead(limit)
  BY <1>1, <1>3, ReceiveStep DEF ListRead, rows
<1>4. QED
  BY <1>2, <1>3 DEF ListProducts

\* A row inserted at k moves the rows behind k by one, and no other.
LEMMA InsertedFacts ==
  ASSUME rows \in Seq(Products), Injective(rows),
         NEW p \in Products, NEW k \in 0..Len(rows), p \notin ElementsOf(rows)
  PROVE  /\ Inserted(p, k) \in Seq(Products) /\ Len(Inserted(p, k)) = Len(rows) + 1
         /\ Injective(Inserted(p, k))
         /\ Embeds(rows, Inserted(p, k))
<1> DEFINE new == Inserted(p, k)
           pos(i) == IF i <= k THEN i ELSE i - 1
<1>0. Len(rows) \in Nat /\ k \in Nat /\ k <= Len(rows)
  OBVIOUS
<1>1. new \in [1..(Len(rows) + 1) -> Products]
  BY <1>0 DEF Inserted
<1>2. new \in Seq(Products) /\ Len(new) = Len(rows) + 1
  BY <1>0, <1>1
<1>3. \A i \in 1..Len(new) : new[i] = IF i = k + 1 THEN p ELSE rows[pos(i)]
  BY <1>0, <1>2 DEF Inserted
<1>4. \A i \in 1..Len(new) : i # k + 1 => pos(i) \in 1..Len(rows)
  BY <1>0, <1>2
<1>5. \A i \in 1..Len(rows) : rows[i] # p
  BY DEF ElementsOf
<1> HIDE DEF new
<1>6. ASSUME NEW i \in 1..Len(new), NEW j \in 1..Len(new), new[i] = new[j]
      PROVE  i = j
  <2>1. CASE i # k + 1 /\ j # k + 1
    <3>1. rows[pos(i)] = rows[pos(j)] /\ pos(i) \in 1..Len(rows) /\ pos(j) \in 1..Len(rows)
      BY <1>3, <1>4, <1>6, <2>1
    <3>2. pos(i) = pos(j)
      BY <3>1 DEF Injective
    <3>3. QED
      BY <1>0, <1>2, <2>1, <3>2
  <2>2. CASE i = k + 1 \/ j = k + 1
    BY <1>3, <1>4, <1>5, <1>6, <2>2
  <2>3. QED
    BY <2>1, <2>2
<1>7. ASSUME NEW i \in 1..Len(rows)
      PROVE  \E j \in i..Len(new) : new[j] = rows[i]
  <2> DEFINE n == IF i <= k THEN i ELSE i + 1
  <2>1. n \in i..Len(new) /\ n \in 1..Len(new) /\ n # k + 1 /\ pos(n) = i
    BY <1>0, <1>2
  <2>2. new[n] = rows[i]
    BY <1>3, <2>1
  <2>3. QED
    BY <2>1, <2>2
<1>8. QED
  BY <1>2, <1>6, <1>7 DEF Injective, Embeds, new

LEMMA CreateStep ==
  ASSUME IInv, NEW p \in Products, NEW k \in 0..Len(rows), Create(p, k)
  PROVE  IInv'
<1> DEFINE new == Inserted(p, k)
           n == Len(tables)
<1>1. /\ tables \in Seq(Seq(Products)) /\ n \in Nat /\ n > 0 /\ rows = tables[n]
      /\ rows \in Seq(Products) /\ Injective(rows) /\ Len(rows) = Len(Existing) + n - 1
      /\ Len(Existing) \in Nat /\ Len(rows) \in Nat
  <2>1. tables \in Seq(Seq(Products)) /\ n \in Nat /\ n > 0 /\ rows = tables[n]
    BY DEF IInv, TypeOK, rows
  <2>2. n \in 1..n
    BY <2>1
  <2>3. rows \in Seq(Products) /\ Len(rows) \in Nat
    BY <2>1, <2>2
  <2>4. Injective(rows) /\ Len(rows) = Len(Existing) + n - 1
    BY <2>1, <2>2 DEF IInv, TablesOK
  <2>5. Len(Existing) \in Nat
    BY ExistingAssumption
  <2>6. QED
    BY <2>1, <2>3, <2>4, <2>5
<1>2. /\ new \in Seq(Products) /\ Len(new) = Len(rows) + 1 /\ Injective(new)
      /\ Embeds(rows, new)
  BY <1>1, InsertedFacts DEF Create
<1>3. tables' = Append(tables, new) /\ UNCHANGED clientVars
  BY DEF Create
<1> HIDE DEF new
<1>4. /\ tables' \in Seq(Seq(Products)) /\ Len(tables') = n + 1 /\ tables'[n + 1] = new
      /\ \A t \in 1..n : tables'[t] = tables[t]
      /\ rows' = new
  BY <1>1, <1>2, <1>3 DEF rows
<1>5. TypeOK' /\ offset' <= Len(rows') /\ IsFiniteSet(seen')
      /\ (known' = 0 => offset' = 0 /\ seen' = {} /\ ~back')
  <2>1. offset' = offset /\ seen' = seen /\ first' = first /\ known' = known
        /\ back' = back /\ last' = last
    BY <1>3 DEF clientVars
  <2>2. first \in 0..(n + 1) /\ known \in 0..(n + 1) /\ tables' # << >>
    BY <1>1, <1>4 DEF IInv, TypeOK
  <2>3. TypeOK'
    BY <1>4, <2>1, <2>2 DEF IInv, TypeOK
  <2>4. offset \in Nat /\ offset <= Len(rows)
    BY DEF IInv, TypeOK
  <2>5. offset' <= Len(rows')
    BY <1>1, <1>2, <1>4, <2>1, <2>4
  <2>6. QED
    BY <2>1, <2>3, <2>5 DEF IInv
<1>6. ASSUME NEW t \in 1..n PROVE Embeds(tables[t], new)
  <2>1. Embeds(tables[t], rows) /\ Len(tables[t]) \in Nat
    BY <1>1 DEF IInv, TablesOK
  <2> SUFFICES ASSUME NEW i \in 1..Len(tables[t])
               PROVE  \E j \in i..Len(new) : new[j] = tables[t][i]
    BY DEF Embeds
  <2>2. PICK m \in i..Len(rows) : rows[m] = tables[t][i]
    BY <2>1 DEF Embeds
  <2> m \in 1..Len(rows)
    BY <1>1, <2>1, <2>2
  <2>3. PICK j \in m..Len(new) : new[j] = rows[m]
    BY <1>2 DEF Embeds
  <2>4. j \in i..Len(new)
    BY <1>1, <1>2, <2>1, <2>2, <2>3
  <2>5. QED
    BY <2>2, <2>3, <2>4
<1>7. Embeds(new, new)
  BY <1>1, <1>2 DEF Embeds
<1>8. TablesOK'
  <2> SUFFICES ASSUME NEW t \in 1..(n + 1)
               PROVE  /\ Injective(tables'[t])
                      /\ Len(tables'[t]) = Len(Existing) + t - 1
                      /\ \A u \in t..(n + 1) : Embeds(tables'[t], tables'[u])
    <3>1. Len(tables') = n + 1
      BY <1>4
    <3>2. QED
      BY <3>1 DEF TablesOK, Injective, Embeds
  <2>1. CASE t \in 1..n
    <3>1. /\ tables'[t] = tables[t] /\ Injective(tables[t])
          /\ Len(tables[t]) = Len(Existing) + t - 1
          /\ \A u \in t..n : Embeds(tables[t], tables[u])
      BY <1>4, <2>1 DEF IInv, TablesOK
    <3>2. ASSUME NEW u \in t..(n + 1) PROVE Embeds(tables[t], tables'[u])
      <4>1. CASE u = n + 1
        BY <1>4, <1>6, <2>1, <4>1
      <4>2. CASE u \in t..n
        BY <1>1, <1>4, <2>1, <3>1, <4>2
      <4>3. QED
        BY <1>1, <2>1, <4>1, <4>2
    <3>3. QED
      BY <3>1, <3>2
  <2>2. CASE t = n + 1
    BY <1>1, <1>2, <1>4, <1>7, <2>2
  <2>3. QED
    BY <1>1, <2>1, <2>2
<1>9. known > 0 => first \in 1..n /\ known \in 1..n
  BY <1>1 DEF IInv, TypeOK
<1>10. Ahead'
  BY <1>3, <1>4, <1>9 DEF IInv, Ahead, clientVars
<1>11. NothingMissed'
  BY <1>3, <1>4, <1>9 DEF IInv, NothingMissed, EffectiveLimit, ElementsOf, clientVars
<1>12. QED
  BY <1>5, <1>8, <1>10, <1>11 DEF IInv

LEMMA NextIInv == IInv /\ [Next]_vars => IInv'
<1> SUFFICES ASSUME IInv, [Next]_vars PROVE IInv'
  OBVIOUS
<1>1. ASSUME NEW limit \in Limits, ListProducts(limit) PROVE IInv'
  BY <1>1, ListStep
<1>2. ASSUME NEW p \in Products, NEW k \in 0..Len(rows), Create(p, k) PROVE IInv'
  BY <1>2, CreateStep
<1>3. CASE UNCHANGED vars
  BY <1>3 DEF vars, clientVars, IInv, TypeOK, rows, TablesOK, Injective, Embeds, Ahead,
              NothingMissed, EffectiveLimit, ElementsOf
<1>4. QED
  BY <1>1, <1>2, <1>3 DEF Next, Finished

LEMMA InductiveInvariant == Spec => []IInv
<1>1. Init => IInv
  BY InitIInv
<1>2. IInv /\ [Next]_vars => IInv'
  BY NextIInv
<1>3. QED
  BY <1>1, <1>2, PTL DEF Spec

----------------------------------------------------------------------------
\* ListProducts: no page is longer than maxListLimit, from the table or from
\* what any client has put into the cache.
THEOREM TypeCorrect == Spec => []TypeOK
<1>1. IInv => TypeOK
  BY DEF IInv
<1>2. QED
  BY <1>1, InductiveInvariant, PTL

\* ListProducts through a shared cache: a page shorter than the limit in force
\* ends the catalogue as it was at the client's first page, for tables of any
\* size and any mixture of limits, as long as no page is older than the page
\* before it.
THEOREM WalkMissesNothing == Spec => []NothingMissed
<1>1. IInv => NothingMissed
  BY DEF IInv
<1>2. QED
  BY <1>1, InductiveInvariant, PTL

\* ListProducts through a shared cache: a client receives a row again only
\* because rows were created before its offset, one repeat for each at most,
\* as long as no page is older than the page before it.
THEOREM RepeatsAreExplained == Spec => []RepeatsAreCreations
<1>1. IInv => RepeatsAreCreations
  <2> SUFFICES ASSUME IInv, ~back
               PROVE  offset - Cardinality(seen) <= known - first
    BY DEF RepeatsAreCreations
  <2>1. CASE known = 0
    <3>1. offset = 0 /\ first = 0 /\ Cardinality(seen) = 0
      BY <2>1, FS_EmptySet DEF IInv, TypeOK
    <3>2. QED
      BY <2>1, <3>1
  <2>2. CASE known > 0
    <3> DEFINE now == tables[known]
               was == tables[first]
               Read == {now[i] : i \in 1..offset}
               Start == ElementsOf(was)
               All == ElementsOf(now)
    <3>1. /\ known \in 1..Len(tables) /\ first \in 1..known /\ Len(tables) \in Nat
          /\ now \in Seq(Products) /\ was \in Seq(Products) /\ offset \in 0..Len(now)
      BY <2>2 DEF IInv, TypeOK, Ahead
    <3>2. /\ Injective(now) /\ Injective(was) /\ Embeds(was, now)
          /\ Len(now) = Len(Existing) + known - 1 /\ Len(was) = Len(Existing) + first - 1
          /\ Len(Existing) \in Nat
      BY <3>1, ExistingAssumption DEF IInv, TablesOK
    <3>3. \A j \in 1..Len(was) :
            was[j] \in seen \/ \E i \in (offset + 1)..Len(now) : now[i] = was[j]
      BY <2>2 DEF IInv, Ahead
    <3> HIDE DEF now, was
    <3>4. /\ Cardinality(Read) = offset
          /\ IsFiniteSet(All) /\ Cardinality(All) = Len(now)
          /\ IsFiniteSet(Start) /\ Cardinality(Start) = Len(was)
      <4>1. Len(now) \in 0..Len(now) /\ Len(was) \in 0..Len(was)
        BY <3>1
      <4>2. QED
        BY <3>1, <3>2, <4>1, PrefixSize DEF ElementsOf
    <3>5. Start \subseteq All
      <4> SUFFICES ASSUME NEW j \in 1..Len(was) PROVE was[j] \in All
        BY DEF ElementsOf
      <4>1. PICK i \in j..Len(now) : now[i] = was[j]
        BY <3>2 DEF Embeds
      <4>2. i \in 1..Len(now)
        BY <3>1, <4>1
      <4>3. QED
        BY <4>1, <4>2 DEF ElementsOf
    <3>6. IsFiniteSet(All \ Start) /\ Cardinality(All \ Start) = Len(now) - Len(was)
      <4> HIDE DEF All, Start
      <4>1. IsFiniteSet(All \ Start)
            /\ Cardinality(All \ Start) = Cardinality(All) - Cardinality(All \cap Start)
        BY <3>4, FS_Difference
      <4>2. All \cap Start = Start
        BY <3>5
      <4>3. QED
        BY <3>4, <4>1, <4>2
    <3>7. Read \subseteq seen \cup (All \ Start)
      <4> SUFFICES ASSUME NEW i \in 1..offset, now[i] \in Start PROVE now[i] \in seen
        BY <3>1 DEF ElementsOf
      <4>1. PICK j \in 1..Len(was) : was[j] = now[i]
        BY DEF ElementsOf
      <4>2. \A m \in (offset + 1)..Len(now) : now[m] # now[i]
        BY <3>1, <3>2 DEF Injective
      <4>3. QED
        BY <3>3, <4>1, <4>2
    <3>8. /\ IsFiniteSet(seen \cup (All \ Start))
          /\ Cardinality(seen \cup (All \ Start)) =
               Cardinality(seen) + Cardinality(All \ Start) - Cardinality(seen \cap (All \ Start))
      BY <3>6, FS_Union DEF IInv
    <3>9. Cardinality(seen \cap (All \ Start)) \in Nat /\ Cardinality(seen) \in Nat
      BY FS_Intersection, FS_CardinalityType DEF IInv
    <3>10. Cardinality(Read) <= Cardinality(seen \cup (All \ Start))
      BY <3>7, <3>8, FS_Subset
    <3>11. QED
      <4> HIDE DEF Read, Start, All
      <4>1. offset <= Cardinality(seen) + Cardinality(All \ Start)
                        - Cardinality(seen \cap (All \ Start))
        BY <3>4, <3>8, <3>10
      <4>2. Cardinality(All \ Start) = known - first
        <5>1. Len(now) - Len(was) = known - first
          BY <3>1, <3>2
        <5>2. QED
          BY <3>6, <5>1
      <4>3. offset \in Int /\ known \in Int /\ first \in Int
        BY <3>1
      <4>4. QED
        BY <3>9, <4>1, <4>2, <4>3
  <2>3. QED
    BY <2>1, <2>2 DEF IInv, TypeOK
<1>2. QED
  BY <1>1, InductiveInvariant, PTL

=============================================================================
