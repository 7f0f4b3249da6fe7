---------------------------- MODULE PagingProofs ----------------------------
(***************************************************************************)
(* Proof that paging by offset misses no more rows than were deleted while *)
(* the client went from page to page.                                      *)
(***************************************************************************)
EXTENDS ThreadReadsProofs

-----------------------------------------------------------------------------
(* Lemmas on positions *)

\* What a listing selects is finite, and each row of it has a create_time.
LEMMA SelectedHaveTimes ==
  ASSUME IInv, ReadsTypeOK, NEW read
  PROVE  /\ IsFiniteSet(SelectedKeys(read)) /\ SelectedKeys(read) \subseteq KeysStored
         /\ \A key \in SelectedKeys(read) : created[key] \in Int
<1>1. SelectedKeys(read) \subseteq KeysStored /\ IsFiniteSet(KeysStored)
      /\ KeysStored \subseteq Keys
  BY KeysStoredFinite DEF IInv, SelectedKeys
<1>2. \A key \in KeysStored : created[key] \in Int
  BY <1>1, ReadsAssumption DEF ReadsTypeOK
<1>. QED
  BY <1>1, <1>2, FS_Subset

LEMMA RankType ==
  ASSUME IInv, ReadsTypeOK, NEW read, NEW key
  PROVE  /\ UpTo(read, key) \subseteq SelectedKeys(read)
         /\ IsFiniteSet(UpTo(read, key)) /\ Rank(read, key) \in Nat
<1>1. UpTo(read, key) \subseteq SelectedKeys(read)
  BY DEF UpTo
<1>. QED
  BY <1>1, SelectedHaveTimes, FS_Subset, FS_CardinalityType DEF Rank

\* No other key that a listing selects has the position of one that shares its
\* create_time with no other.
LEMMA RankDistinct ==
  ASSUME IInv, ReadsTypeOK, NEW read,
         NEW a \in SelectedKeys(read), NEW b \in SelectedKeys(read), a # b, Alone(a)
  PROVE  Rank(read, a) # Rank(read, b)
<1> DEFINE S == SelectedKeys(read)
<1>1. ASSUME NEW c \in S, NEW d \in S, created[c] > created[d]
      PROVE  Rank(read, c) # Rank(read, d)
  <2>1. created[c] \in Int /\ created[d] \in Int
    BY SelectedHaveTimes
  <2>2. UpTo(read, c) \subseteq UpTo(read, d)
    <3> SUFFICES ASSUME NEW k \in UpTo(read, c) PROVE k \in UpTo(read, d)
      OBVIOUS
    <3>1. k \in S /\ created[k] >= created[c] /\ created[k] \in Int
      BY SelectedHaveTimes DEF UpTo
    <3>. QED
      BY <1>1, <2>1, <3>1 DEF UpTo
  <2>3. d \in UpTo(read, d) /\ d \notin UpTo(read, c)
    BY <1>1, <2>1 DEF UpTo
  <2>. QED
    BY <2>2, <2>3, RankType, FS_Subset DEF Rank
<1>2. created[a] # created[b] /\ created[a] \in Int /\ created[b] \in Int
  BY SelectedHaveTimes DEF Alone
<1>3. created[a] > created[b] \/ created[b] > created[a]
  BY <1>2
<1>. QED
  BY <1>1, <1>3

\* So of such keys no more than d are in d positions.
LEMMA FewInRange ==
  ASSUME IInv, ReadsTypeOK, NEW read, NEW n \in Nat, NEW d \in Nat,
         NEW T \in SUBSET SelectedKeys(read),
         \A key \in T : Alone(key) /\ Rank(read, key) > n /\ Rank(read, key) <= n + d
  PROVE  IsFiniteSet(T) /\ Cardinality(T) <= d
<1> DEFINE f == [key \in T |-> Rank(read, key)]
<1>1. f \in [T -> (n+1)..(n+d)]
  BY RankType
<1>2. f \in Injection(T, (n+1)..(n+d))
  BY <1>1, RankDistinct DEF Injection, IsInjective
<1>3. IsFiniteSet((n+1)..(n+d)) /\ Cardinality((n+1)..(n+d)) = d
  BY FS_Interval
<1> HIDE DEF f
<1>. QED
  BY <1>2, <1>3, FS_Injection

\* Whichever order a query chooses, the m-th row is at position m if it shares its
\* create_time with no other.
LEMMA RankOfPosition ==
  ASSUME IInv, ReadsTypeOK, NEW read,
         NEW all \in ByCreateTime(SelectedKeys(read)), NEW m \in 1..Len(all),
         Alone(all[m])
  PROVE  all[m] \in SelectedKeys(read) /\ Rank(read, all[m]) = m
<1> DEFINE S == SelectedKeys(read)
<1>1. /\ all \in Seq(S) /\ Len(all) \in Nat /\ DOMAIN all = 1..Len(all)
      /\ IsInjective(all) /\ Range(all) = S
  BY SelectedHaveTimes, OrderHasKeys
<1>2. \A i, j \in 1..Len(all) : i < j => created[all[i]] >= created[all[j]]
  BY <1>1 DEF ByCreateTime
<1>3. \A i \in 1..Len(all) : all[i] \in S /\ all[i] \in KeysStored /\ created[all[i]] \in Int
  BY <1>1, SelectedHaveTimes
<1> DEFINE f == [i \in 1..m |-> all[i]]
<1>6. UpTo(read, all[m]) = {all[i] : i \in 1..m}
  <2>1. ASSUME NEW i \in 1..m PROVE all[i] \in UpTo(read, all[m])
    <3>1. i \in 1..Len(all) /\ (i = m \/ i < m)
      BY <1>1
    <3>2. created[all[i]] >= created[all[m]]
      BY <1>2, <1>3, <3>1
    <3>. QED
      BY <1>3, <3>1, <3>2 DEF UpTo
  <2>2. ASSUME NEW k \in UpTo(read, all[m]) PROVE \E i \in 1..m : k = all[i]
    <3>1. k \in S /\ created[k] >= created[all[m]]
      BY DEF UpTo
    <3>2. PICK i \in 1..Len(all) : k = all[i]
      BY <1>1, <3>1 DEF Range
    <3>3. ASSUME i > m PROVE FALSE
      <4>1. created[all[m]] >= created[k] /\ k # all[m]
        BY <1>1, <1>2, <3>2, <3>3 DEF IsInjective
      <4>2. created[k] = created[all[m]]
        BY <1>3, <3>1, <3>2, <4>1
      <4>. QED
        BY <1>3, <3>2, <4>1, <4>2 DEF Alone
    <3>. QED
      BY <1>1, <3>2, <3>3
  <2>. QED
    BY <2>1, <2>2
<1>7. f \in Bijection(1..m, UpTo(read, all[m]))
  <2>1. f \in [1..m -> UpTo(read, all[m])]
    BY <1>6
  <2>2. IsInjective(f)
    BY <1>1 DEF IsInjective
  <2>3. \A k \in UpTo(read, all[m]) : \E i \in 1..m : f[i] = k
    BY <1>6
  <2> HIDE DEF f
  <2>. QED
    BY <2>1, <2>2, <2>3 DEF Bijection, Injection, Surjection
<1>8. IsFiniteSet(1..m) /\ Cardinality(1..m) = m
  BY FS_Interval
<1>9. Rank(read, all[m]) = m
  BY <1>7, <1>8, FS_Bijection DEF ExistsBijection, Rank
<1>. QED
  BY <1>1, <1>9

-----------------------------------------------------------------------------
(* The steps *)

\* Nobody else's listing moves while a reader takes a step.
LEMMA SamePositions ==
  ASSUME NEW r \in Readers, UNCHANGED <<vars, created>>,
         reads'[r].method = reads[r].method, reads'[r].caller = reads[r].caller,
         reads'[r].ctx = reads[r].ctx
  PROVE  \A key : Rank(reads[r], key)' = Rank(reads[r], key)
<1>1. SelectedKeys(reads[r])' = SelectedKeys(reads[r])
  BY SameSelection
<1>. QED
  BY <1>1 DEF Rank, UpTo

LEMMA OtherReadersPaging ==
  ASSUME PagingInv, UNCHANGED <<vars, created>>, NEW q \in Readers,
         reads'[q] = reads[q]
  PROVE  PagingOk(reads[q])'
<1>1. \A key : Rank(reads[q], key)' = Rank(reads[q], key)
  BY SamePositions
<1>. QED
  BY <1>1 DEF PagingInv, PagingOk, Skipped

\* A step that owes what it owed, from the same offset or with the same next
\* one, skips what it skipped.
LEMMA SamePaging ==
  ASSUME PagingInv, NEW r \in Readers, UNCHANGED <<vars, created>>,
         reads'[r].method = reads[r].method, reads'[r].caller = reads[r].caller,
         reads'[r].ctx = reads[r].ctx,
         reads'[r].due = reads[r].due, reads'[r].gone = reads[r].gone,
         \/ reads[r].at \in {"policy", "query"} /\ reads'[r].at \in {"policy", "query"}
            /\ reads'[r].offset = reads[r].offset
         \/ reads[r].at = "answered" /\ reads'[r].at \in {"policy", "query"}
            /\ reads[r].next # None /\ reads'[r].offset = reads[r].next
         \/ reads[r].at = "states" /\ reads'[r].at = "answered"
            /\ reads'[r].next = reads[r].next
         \/ reads'[r].at \in {"own", "opened"}
  PROVE  PagingOk(reads[r])'
<1>1. \A key : Rank(reads[r], key)' = Rank(reads[r], key)
  BY SamePositions
<1>2. /\ \A n : Skipped(reads[r], n) = {key \in reads[r].due : Rank(reads[r], key) <= n}
      /\ Skipped(reads[r], reads[r].offset)' = Skipped(reads[r], reads'[r].offset)
      /\ Skipped(reads[r], reads[r].next)' = Skipped(reads[r], reads'[r].next)
  BY <1>1 DEF Skipped
<1>3. PagingOk(reads[r])
  BY DEF PagingInv
<1>4. CASE reads'[r].at \in {"policy", "query"}
  BY <1>2, <1>3, <1>4 DEF PagingOk
<1>5. CASE reads'[r].at \notin {"policy", "query"}
  BY <1>2, <1>3, <1>5 DEF PagingOk
<1>. QED
  BY <1>4, <1>5

\* A listing that owes nothing skips nothing.
LEMMA NothingOwed ==
  ASSUME NEW r \in Readers, reads'[r].due = {}, reads'[r].gone \in Nat
  PROVE  PagingOk(reads[r])'
<1>1. \A n : Skipped(reads[r], n)' = {}
  BY DEF Skipped
<1>2. Cardinality({}) = 0
  BY FS_EmptySet
<1>3. /\ Skipped(reads[r], reads[r].offset)' = {}
      /\ Skipped(reads[r], reads[r].next)' = {}
  BY DEF Skipped
<1>. QED
  BY <1>2, <1>3 DEF PagingOk

\* A page takes from what is owed all that is between its offset and the next
\* one, or all that is behind its offset if it is the last.
LEMMA QueryPaging ==
  ASSUME IInv, ReadsInv, PagingInv, NEW r \in Readers, Query(r)
  PROVE  PagingOk(reads[r])'
<1> DEFINE read == reads[r]
<1>1. PICK all \in ByCreateTime(SelectedKeys(read)) :
        reads' = [reads EXCEPT ![r] = Queried(read, Page(read, all))]
  BY DEF Query
<1> DEFINE page == Page(read, all)
           keys == {row.key : row \in Range(page)}
           owed == IF read.offset > 0 THEN read.due
                   ELSE {key \in SelectedKeys(read) : Alone(key)}
           rest == owed \ keys
           skip == Skipped(read, read.offset)
<1>2. /\ read \in Listings /\ TypeOK /\ ReadsTypeOK /\ ListingOk(read)
      /\ read.at = "query" /\ UNCHANGED <<vars, created>>
  BY DEF ReadsInv, ReadsTypeOK, IInv, Query
<1>3. /\ read.limit \in Nat \ {0} /\ read.offset \in Nat /\ read.gone \in Nat
      /\ read.due \subseteq SelectedKeys(read) /\ \A key \in read.due : Alone(key)
  BY <1>2, ListingFields DEF ListingOk
<1>4. Cardinality(skip) <= read.gone
  BY <1>2 DEF PagingInv, PagingOk
<1>5. LET new == reads'[r] IN
      /\ new.at \in {"states", "answered"}
      /\ new.method = read.method /\ new.caller = read.caller /\ new.ctx = read.ctx
      /\ new.due = rest /\ new.gone = read.gone
      /\ new.next = NextOffset(read.offset, read.limit, page)
  <2>1. reads'[r] = Queried(read, page)
    BY <1>1, <1>2 DEF ReadsTypeOK
  <2>. QED
    BY <1>2, <2>1 DEF Queried, Listings
<1>6. /\ Len(page) \in Nat /\ Len(page) <= read.limit
      /\ \A i \in 1..Len(page) : page[i] = RowOfKey(all[read.offset + i])
      /\ Len(page) < read.limit => read.offset + Len(page) >= Len(all)
      /\ DOMAIN page = 1..Len(page)
  <2>1. page \in Seq([key: Keys, latest: Nat]) /\ Len(page) \in 0..read.limit
    BY <1>2, PageRows
  <2>. QED
    BY <1>2, <2>1, PageRows
<1>7. Len(all) \in Nat /\ Range(all) = SelectedKeys(read) /\ DOMAIN all = 1..Len(all)
  BY <1>2, SelectedHaveTimes, OrderHasKeys
<1>8. \A key \in SelectedKeys(read) :
        Alone(key) /\ key \notin keys =>
                           \/ Rank(read, key) <= read.offset
                           \/ Rank(read, key) > read.offset + Len(page)
  <2> SUFFICES ASSUME NEW key \in SelectedKeys(read), Alone(key),
                      Rank(read, key) > read.offset,
                      Rank(read, key) <= read.offset + Len(page)
               PROVE  key \in keys
    BY <1>2, <1>3, <1>6, RankType
  <2>1. PICK m \in 1..Len(all) : key = all[m]
    BY <1>7 DEF Range
  <2>2. Rank(read, key) = m
    BY <1>2, <2>1, RankOfPosition
  <2>3. m - read.offset \in 1..Len(page) /\ read.offset + (m - read.offset) = m
    BY <1>3, <1>6, <1>7, <2>2
  <2>4. page[m - read.offset] = RowOfKey(key)
    BY <1>6, <2>1, <2>3
  <2>5. page[m - read.offset] \in Range(page)
    BY <1>6, <2>3 DEF Range
  <2>. QED
    BY <2>4, <2>5 DEF RowOfKey
<1>9. \A key \in SelectedKeys(read) :
        Alone(key) => Rank(read, key) \in Nat \ {0} /\ Rank(read, key) <= Len(all)
  <2> SUFFICES ASSUME NEW key \in SelectedKeys(read), Alone(key)
               PROVE  Rank(read, key) \in 1..Len(all)
    OBVIOUS
  <2>1. PICK m \in 1..Len(all) : key = all[m]
    BY <1>7 DEF Range
  <2>. QED
    BY <1>2, <2>1, RankOfPosition
<1>10. \A key \in rest : Rank(read, key) <= read.offset + Len(page) => key \in skip
  <2> SUFFICES ASSUME NEW key \in rest, Rank(read, key) <= read.offset + Len(page)
               PROVE  key \in skip
    OBVIOUS
  <2>1. key \in SelectedKeys(read) /\ Alone(key) /\ key \in owed /\ key \notin keys
    BY <1>3
  <2>2. Rank(read, key) <= read.offset /\ Rank(read, key) \in Nat \ {0}
    BY <1>3, <1>6, <1>8, <1>9, <2>1
  <2>3. key \in read.due
    BY <1>3, <2>1, <2>2
  <2>. QED
    BY <2>2, <2>3 DEF Skipped
<1>11. IsFiniteSet(skip) /\ Cardinality(skip) \in Nat
  <2>1. skip \subseteq SelectedKeys(read) /\ IsFiniteSet(SelectedKeys(read))
    BY <1>2, <1>3, SelectedHaveTimes DEF Skipped
  <2>. QED
    BY <2>1, FS_Subset, FS_CardinalityType
<1>12. \A key : Rank(reads[r], key)' = Rank(reads[r], key)
  BY <1>2, <1>5, SamePositions
<1> HIDE DEF page, keys, owed, rest, skip
<1>13. CASE Len(page) = read.limit
  <2>1. reads'[r].next = read.offset + Len(page) /\ reads'[r].next # None
    BY <1>3, <1>5, <1>13, ReadsAssumption DEF NextOffset
  <2>2. Skipped(reads[r], reads[r].next)' = {key \in rest : Rank(read, key) <= read.offset + Len(page)}
    BY <1>5, <1>12, <2>1 DEF Skipped
  <2>3. Skipped(reads[r], reads[r].next)' \subseteq skip
    BY <1>10, <2>2
  <2>4. Cardinality(Skipped(reads[r], reads[r].next)') <= Cardinality(skip)
        /\ Cardinality(Skipped(reads[r], reads[r].next)') \in Nat
    BY <1>11, <2>3, FS_Subset, FS_CardinalityType
  <2>. QED
    BY <1>3, <1>4, <1>5, <1>11, <2>1, <2>4 DEF PagingOk
<1>14. CASE Len(page) < read.limit
  <2>1. reads'[r].next = None
    BY <1>3, <1>5, <1>6, <1>14 DEF NextOffset
  <2>2. \A key \in rest : key \in SelectedKeys(read) /\ Alone(key)
    BY <1>3 DEF rest, owed
  <2>3. rest \subseteq skip
    BY <1>3, <1>6, <1>7, <1>9, <1>10, <1>14, <2>2
  <2>4. Cardinality(rest) <= Cardinality(skip) /\ Cardinality(rest) \in Nat
    BY <1>11, <2>3, FS_Subset, FS_CardinalityType
  <2>. QED
    BY <1>3, <1>4, <1>5, <1>11, <2>1, <2>4 DEF PagingOk
<1>. QED
  BY <1>3, <1>6, <1>13, <1>14

\* A commit brings a row that stays no more positions forward than it deletes
\* rows of the listing; those that it inserts only push rows back.
LEMMA RankAfterWrite ==
  ASSUME IInv, IInv', ReadsInv, Write, NEW r \in Readers,
         NEW key \in SelectedKeys(reads[r]), key \in KeysStored'
  PROVE  LET D == {k \in Left : Selected(reads[r], k)}
         IN /\ IsFiniteSet(D) /\ Cardinality(D) \in Nat
            /\ Rank(reads[r], key)' \in Nat
            /\ Rank(reads[r], key) <= Rank(reads[r], key)' + Cardinality(D)
<1> DEFINE D == {k \in Left : Selected(reads[r], k)}
           before == UpTo(reads[r], key)
           after == UpTo(reads[r], key)'
<1>1. Next /\ RowsKept /\ ReadsTypeOK /\ ReadsTypeOK'
      /\ reads[r] \in Listings /\ reads'[r] = Without(reads[r], Left, Tied)
  BY WriteKeepsRows, WriteType DEF Write, ReadsInv, ReadsTypeOK
<1>2. /\ reads'[r].method = reads[r].method /\ reads'[r].caller = reads[r].caller
      /\ reads'[r].ctx = reads[r].ctx
  BY <1>1, WithoutType
<1>3. \A k \in SelectedKeys(reads[r]) :
        k \in KeysStored' => k \in SelectedKeys(reads[r])'
  BY <1>1, <1>2, SelectionStays
<1>4. \A k \in KeysStored : k \in KeysStored' => created'[k] = created[k]
  BY <1>1, KeysStoredFinite DEF Write, Stamp, IInv
<1>5. before \subseteq after \cup D
  <2> SUFFICES ASSUME NEW k \in before, k \notin D PROVE k \in after
    OBVIOUS
  <2>1. k \in SelectedKeys(reads[r]) /\ created[k] >= created[key]
    BY DEF UpTo
  <2>2. k \in KeysStored' /\ k \in KeysStored /\ key \in KeysStored
    BY <2>1 DEF SelectedKeys, Left
  <2>. QED
    BY <1>3, <1>4, <2>1, <2>2 DEF UpTo
<1>6. IsFiniteSet(after) /\ Cardinality(after) \in Nat
  <2>1. after \subseteq KeysStored'
    BY <1>1 DEF UpTo, SelectedKeys, ReadsTypeOK
  <2>2. KeysStored' \subseteq Contexts \cup EventIds
    BY DEF IInv, TypeOK, KeysStored, EventRows
  <2>. QED
    BY <2>1, <2>2, ReadsAssumption, FS_Subset, FS_CardinalityType
<1>7. IsFiniteSet(D) /\ Cardinality(D) \in Nat
  <2>1. D \subseteq KeysStored /\ IsFiniteSet(KeysStored)
    BY <1>1, KeysStoredFinite DEF IInv, Left, ReadsTypeOK
  <2>. QED
    BY <2>1, FS_Subset, FS_CardinalityType
<1> HIDE DEF D, before, after
<1>8. /\ IsFiniteSet(after \cup D)
      /\ Cardinality(after \cup D) = Cardinality(after) + Cardinality(D) - Cardinality(after \cap D)
      /\ Cardinality(after \cap D) \in Nat
  BY <1>6, <1>7, FS_Union, FS_Intersection, FS_CardinalityType
<1>9. /\ Cardinality(before) <= Cardinality(after \cup D)
      /\ Cardinality(before) \in Nat
  BY <1>5, <1>8, FS_Subset, FS_CardinalityType
<1>10. Cardinality(before) <= Cardinality(after) + Cardinality(D)
  BY <1>6, <1>7, <1>8, <1>9
<1>. QED
  BY <1>6, <1>7, <1>10 DEF D, before, after, Rank

LEMMA WritePaging ==
  ASSUME IInv, IInv', ReadsInv, PagingInv, Write, NEW r \in Readers
  PROVE  PagingOk(reads[r])'
<1> DEFINE read == reads[r]
           D == {k \in Left : Selected(read, k)}
<1>1. ReadsTypeOK /\ read \in Listings /\ ListingOk(read) /\ PagingOk(read)
  BY DEF ReadsInv, ReadsTypeOK, PagingInv
<1>2. /\ reads'[r].at = read.at /\ reads'[r].offset = read.offset
      /\ reads'[r].next = read.next /\ reads'[r].due = read.due \ (Left \cup Tied)
      /\ reads'[r].gone = IF read.due = {} THEN 0 ELSE read.gone + Cardinality(D)
  BY <1>1, WriteType, WithoutType
<1>3. CASE read.due = {}
  BY <1>2, <1>3, NothingOwed
<1>4. CASE read.due # {}
  <2>1. /\ read.due \subseteq SelectedKeys(read) /\ IsFiniteSet(SelectedKeys(read))
        /\ \A key \in read.due : Alone(key)
        /\ IsFiniteSet(read.due) /\ read.gone \in Nat
    BY <1>1, SelectedHaveTimes, FS_Subset, ListingFields DEF ListingOk
  <2>2. PICK key \in read.due : TRUE
    BY <1>4
  <2>3. IsFiniteSet(D) /\ Cardinality(D) \in Nat
    <3>1. D \subseteq KeysStored /\ IsFiniteSet(KeysStored)
      BY <1>1, KeysStoredFinite DEF IInv, Left, ReadsTypeOK
    <3>. QED
      BY <3>1, FS_Subset, FS_CardinalityType
  <2>4. \A k \in read.due \ (Left \cup Tied) : k \in SelectedKeys(read) /\ k \in KeysStored'
    BY <2>1 DEF Left, SelectedKeys
  <2> DEFINE d == Cardinality(D)
  <2>5. ASSUME NEW n \in Nat, Cardinality(Skipped(read, n)) <= read.gone
        PROVE  Cardinality({k \in read.due \ (Left \cup Tied) : Rank(reads[r], k)' <= n}) <= read.gone + d
    <3> DEFINE now  == {k \in read.due \ (Left \cup Tied) : Rank(reads[r], k)' <= n}
               near == {k \in read.due : Rank(read, k) > n /\ Rank(read, k) <= n + d}
               past == Skipped(read, n)
    <3>1. now \subseteq past \cup near
      <4> SUFFICES ASSUME NEW k \in now PROVE k \in past \cup near
        OBVIOUS
      <4>1. /\ k \in SelectedKeys(read) /\ k \in KeysStored'
            /\ k \in read.due /\ Rank(reads[r], k)' <= n
        BY <2>4
      <4>2. Rank(reads[r], k)' \in Nat /\ Rank(read, k) <= Rank(reads[r], k)' + d
        BY <4>1, RankAfterWrite
      <4>3. Rank(read, k) \in Nat
        BY <1>1, RankType
      <4>4. Rank(read, k) <= n + d
        BY <2>3, <4>1, <4>2, <4>3
      <4>. QED
        BY <4>1, <4>3, <4>4 DEF Skipped
    <3>2. IsFiniteSet(near) /\ Cardinality(near) <= d
      BY <1>1, <2>1, <2>3, FewInRange
    <3>3. IsFiniteSet(past)
      BY <2>1, FS_Subset DEF Skipped
    <3> HIDE DEF now, near, past, d
    <3>4. /\ IsFiniteSet(past \cup near)
          /\ Cardinality(past \cup near) = Cardinality(past) + Cardinality(near) - Cardinality(past \cap near)
          /\ Cardinality(past \cap near) \in Nat
          /\ Cardinality(past) \in Nat /\ Cardinality(near) \in Nat
      BY <3>2, <3>3, FS_Union, FS_Intersection, FS_CardinalityType
    <3>5. Cardinality(now) <= Cardinality(past \cup near) /\ Cardinality(now) \in Nat
      BY <3>1, <3>4, FS_Subset, FS_CardinalityType
    <3>6. Cardinality(now) <= read.gone + d
      BY <2>1, <2>3, <2>5, <3>2, <3>4, <3>5 DEF past, d
    <3>. QED
      BY <3>6 DEF now
  <2>6. Cardinality(read.due \ (Left \cup Tied)) <= Cardinality(read.due)
        /\ Cardinality(read.due) \in Nat /\ Cardinality(read.due \ (Left \cup Tied)) \in Nat
    BY <2>1, FS_Subset, FS_CardinalityType
  <2>7. reads'[r].gone = read.gone + d
    BY <1>2, <1>4
  <2>8. /\ Skipped(reads[r], reads[r].offset)' =
             {k \in read.due \ (Left \cup Tied) : Rank(reads[r], k)' <= read.offset}
        /\ Skipped(reads[r], reads[r].next)' =
             {k \in read.due \ (Left \cup Tied) : Rank(reads[r], k)' <= read.next}
    BY <1>2 DEF Skipped
  <2>9. read.offset \in Nat /\ read.next \in Nat \cup {None}
    BY <1>1, ListingFields
  <2> HIDE DEF d
  <2>10. reads'[r].at \in {"policy", "query"} =>
           Cardinality(Skipped(reads[r], reads[r].offset)') <= reads'[r].gone
    BY <1>1, <1>2, <2>5, <2>7, <2>8, <2>9 DEF PagingOk
  <2>11. reads'[r].at \in {"states", "answered"} /\ reads'[r].next # None =>
           Cardinality(Skipped(reads[r], reads[r].next)') <= reads'[r].gone
    BY <1>1, <1>2, <2>5, <2>7, <2>8, <2>9 DEF PagingOk
  <2>12. reads'[r].at \in {"states", "answered"} /\ reads'[r].next = None =>
           Cardinality(reads'[r].due) <= reads'[r].gone
    BY <1>1, <1>2, <2>1, <2>3, <2>6, <2>7 DEF PagingOk, d
  <2>. QED
    BY <2>10, <2>11, <2>12 DEF PagingOk
<1>. QED
  BY <1>3, <1>4

\* A listing that begins or ends owes nothing.
LEMMA FreshPaging ==
  ASSUME ReadsTypeOK, NEW r \in Readers, Leave(r) \/ reads'[r] = Unlisted
  PROVE  PagingOk(reads[r])'
<1>1. reads'[r].due = {} /\ reads'[r].gone = 0
  BY DEF Leave, Unlisted, ReadsTypeOK
<1>. QED
  BY <1>1, NothingOwed

LEMMA ListPaging ==
  ASSUME ReadsTypeOK, NEW r \in Readers, NEW method, NEW caller, NEW ctx, NEW size,
         List(r, method, caller, ctx, size)
  PROVE  PagingOk(reads[r])'
<1>1. reads'[r] = [Unlisted EXCEPT !.method = method, !.caller = caller, !.ctx = ctx,
                                   !.limit = PageLimit(size), !.at = FirstStep(method)]
  BY DEF List, ReadsTypeOK
<1>2. reads'[r].due = {} /\ reads'[r].gone = 0
  BY <1>1 DEF Unlisted
<1>. QED
  BY <1>2, NothingOwed

\* The other steps go on from where the listing was.
LEMMA GoingOnPaging ==
  ASSUME ReadsTypeOK, PagingInv, NEW r \in Readers,
         \/ NextPage(r) \/ ReadPolicy(r) \/ ReadStates(r) \/ ReadOwnState(r)
         \/ \E ctx \in Contexts : GetThread(r, ctx) \/ GetUserThreadState(r, ctx)
  PROVE  PagingOk(reads[r])'
<1> DEFINE read == reads[r]
           new == reads'[r]
           SameDebt == /\ UNCHANGED <<vars, created>>
                       /\ new.method = read.method /\ new.caller = read.caller
                       /\ new.ctx = read.ctx /\ new.due = read.due
                       /\ new.gone = read.gone
<1>1. read \in Listings /\ reads \in [Readers -> Listings]
  BY DEF ReadsTypeOK
<1>2. CASE NextPage(r)
  <2>1. /\ SameDebt /\ read.at = "answered" /\ read.next # None
        /\ new.at \in {"policy", "query"} /\ new.offset = read.next
    BY <1>1, <1>2 DEF NextPage, Listings, FirstStep
  <2>. QED
    BY <2>1, SamePaging
<1>3. CASE ReadPolicy(r) /\ reads'[r] # Unlisted
  <2>1. reads' = [reads EXCEPT ![r] = [read EXCEPT !.at = "query"]]
        /\ read.at = "policy" /\ UNCHANGED <<vars, created>>
    BY <1>1, <1>3 DEF ReadPolicy
  <2>2. /\ SameDebt /\ read.at = "policy" /\ new.at = "query"
        /\ new.offset = read.offset
    BY <1>1, <2>1 DEF Listings
  <2>. QED
    BY <2>2, SamePaging
<1>4. CASE ReadPolicy(r) /\ reads'[r] = Unlisted
  BY <1>4, FreshPaging
<1>5. CASE ReadStates(r)
  <2>1. /\ SameDebt /\ read.at = "states" /\ new.at = "answered"
        /\ new.next = read.next
    BY <1>1, <1>5 DEF ReadStates, Listings
  <2>. QED
    BY <2>1, SamePaging
<1>6. CASE ReadOwnState(r)
  <2>1. SameDebt /\ new.at = "opened"
    BY <1>1, <1>6 DEF ReadOwnState, Listings
  <2>. QED
    BY <2>1, SamePaging
<1>7. CASE \E ctx \in Contexts : GetThread(r, ctx) \/ GetUserThreadState(r, ctx)
  <2>1. SameDebt /\ new.at \in {"own", "opened"}
    BY <1>1, <1>7 DEF GetThread, GetUserThreadState, Listings
  <2>. QED
    BY <2>1, SamePaging
<1>. QED
  BY <1>2, <1>3, <1>4, <1>5, <1>6, <1>7

LEMMA OnlyReadersStep ==
  ASSUME ReadsTypeOK, NEW r \in Readers, Read(r)
  PROVE  UNCHANGED <<vars, created>> /\ \A q \in Readers : q # r => reads'[q] = reads[q]
BY DEF Read, List, NextPage, ReadPolicy, Query, ReadStates, GetThread,
   GetUserThreadState, ReadOwnState, Leave, ReadsTypeOK

LEMMA PagingNext ==
  IInv /\ IInv' /\ ReadsInv /\ PagingInv /\ [ReadsNext]_<<vars, readVars>> => PagingInv'
<1> SUFFICES ASSUME IInv, IInv', ReadsInv, PagingInv, [ReadsNext]_<<vars, readVars>>,
                    NEW q \in Readers
             PROVE  PagingOk(reads[q])'
  BY DEF PagingInv
<1>1. CASE UNCHANGED <<vars, readVars>>
  BY <1>1, OtherReadersPaging DEF readVars
<1>2. CASE Write
  BY <1>2, WritePaging
<1>3. ASSUME NEW r \in Readers, Read(r)
      PROVE  PagingOk(reads[q])'
  <2>1. ReadsTypeOK
    BY DEF ReadsInv
  <2>2. CASE q # r
    BY <1>3, <2>1, <2>2, OnlyReadersStep, OtherReadersPaging
  <2>3. CASE q = r
    <3>1. CASE Query(r)
      BY <2>3, <3>1, QueryPaging, Zenon
    <3>2. CASE \/ NextPage(r) \/ ReadPolicy(r) \/ ReadStates(r) \/ ReadOwnState(r)
               \/ \E ctx \in Contexts : GetThread(r, ctx) \/ GetUserThreadState(r, ctx)
      BY <2>1, <2>3, <3>2, GoingOnPaging
    <3>3. CASE Leave(r)
      BY <2>1, <2>3, <3>3, FreshPaging
    <3>4. ASSUME NEW method \in {"ListThreads", "ListThreadEvents"},
                 NEW caller \in Callers, NEW ctx \in Contexts,
                 NEW size \in PageSizes, List(r, method, caller, ctx, size)
          PROVE  PagingOk(reads[q])'
      BY <2>1, <2>3, <3>4, ListPaging
    <3>. QED
      BY <1>3, <3>1, <3>2, <3>3, <3>4, Zenon DEF Read
  <2>. QED
    BY <2>2, <2>3
<1>. QED
  BY <1>1, <1>2, <1>3 DEF ReadsNext

-----------------------------------------------------------------------------
(* The theorems *)

\* At every page no more rows are owed before the next offset of ListThreads or
\* ListThreadEvents than were deleted since the first page.
THEOREM PagingInvariance == ReadsSpec => []PagingInv
<1>1. ReadsInit => PagingInv
  <2> SUFFICES ASSUME ReadsInit, NEW r \in Readers PROVE PagingOk(reads[r])
    BY DEF PagingInv
  <2>1. reads[r].at = "idle"
    BY DEF ReadsInit, Unlisted
  <2>. QED
    BY <2>1 DEF PagingOk
<1>. QED
  BY <1>1, PagingNext, ReadsInvariance, PTL DEF ReadsSpec

\* A client that follows the page tokens of ListThreads or ListThreadEvents to
\* the end has seen every row that was there all along and shared its create_time
\* with no other, except for at most one row for each that was deleted meanwhile:
\* for any page size, wherever in the order rows are inserted, and however each
\* query orders the rows that share a create_time.
THEOREM PagesMissNothing == ReadsSpec => []NothingMissed
<1>1. PagingInv => NothingMissed
  BY DEF PagingInv, PagingOk, NothingMissed
<1>. QED
  BY <1>1, PagingInvariance, PTL
=============================================================================
