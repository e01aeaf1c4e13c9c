------------------------- MODULE EventListingProofs -------------------------
(***************************************************************************)
(* What a client sees of an account's events, for any timestamps, any page *)
(* size and any number of arrivals.                                        *)
(***************************************************************************)
EXTENDS EventListing, FiniteSetTheorems, SequenceTheorems, TLAPS

-----------------------------------------------------------------------------
(* The order of the stored strings.                                        *)

\* The UTC second of a timestamp, and its fraction.
Sec(t) == t.sec - t.offset
Mic(t) == t.micro

LEMMA StampTyped ==
  ASSUME NEW t \in Stamps
  PROVE  Sec(t) \in Int /\ Mic(t) \in Nat
<1>1. Micros \subseteq Nat
  BY DEF Micros
<1>2. t.sec \in Int /\ t.micro \in Micros /\ t.offset \in Int
  BY ListingAssumption
<1>3. \A a, b \in Int : a - b \in Int
  OBVIOUS
<1>4. t.sec - t.offset \in Int
  BY <1>2, <1>3, Zenon
<1> QED BY <1>1, <1>2, <1>4, Zenon DEF Sec, Mic

\* How two strings compare, of which one at least has no fraction.
LEMMA LessPlain ==
  ASSUME NEW a \in Int, NEW b \in Int, NEW m \in Nat, NEW k \in Nat
  PROVE  /\ Less(<<a, 90>>, <<b, 90>>) <=> a < b
         /\ Less(<<a, 90>>, <<b, 46, k, 90>>) <=> a < b
         /\ Less(<<a, 46, m, 90>>, <<b, 90>>) <=> a <= b
<1>1. Less(<<a, 90>>, <<b, 90>>) <=> a < b
  BY DEF Less
<1>2. Less(<<a, 90>>, <<b, 46, k, 90>>) <=> a < b
  BY DEF Less
<1>3. Less(<<a, 46, m, 90>>, <<b, 90>>) <=> a <= b
  BY DEF Less
<1> QED BY <1>1, <1>2, <1>3

LEMMA IsoOf ==
  ASSUME NEW t
  PROVE  UtcIso(t) = IF Mic(t) = 0 THEN <<Sec(t), 90>> ELSE <<Sec(t), 46, Mic(t), 90>>
  BY Zenon DEF UtcIso, Sec, Mic

\* The stored strings sort by second; within one, those with a fraction come first.
LEMMA IsoOrder ==
  ASSUME NEW s \in Stamps, NEW t \in Stamps
  PROVE  Less(UtcIso(s), UtcIso(t)) <=>
           \/ Sec(s) < Sec(t)
           \/ Sec(s) = Sec(t) /\ Mic(s) # 0 /\ (Mic(t) = 0 \/ Mic(s) < Mic(t))
<1>1. Sec(s) \in Int /\ Mic(s) \in Nat /\ Sec(t) \in Int /\ Mic(t) \in Nat
  BY StampTyped
<1>2. CASE Mic(s) = 0 /\ Mic(t) = 0
  <2>1. UtcIso(s) = <<Sec(s), 90>> /\ UtcIso(t) = <<Sec(t), 90>>
    BY <1>2, IsoOf
  <2>2. Less(<<Sec(s), 90>>, <<Sec(t), 90>>) <=> Sec(s) < Sec(t)
    BY <1>1, LessPlain
  <2>3. Less(UtcIso(s), UtcIso(t)) <=> Sec(s) < Sec(t)
    BY <2>1, <2>2, Zenon
  <2> QED BY <1>1, <1>2, <2>3
<1>3. CASE Mic(s) = 0 /\ Mic(t) # 0
  <2>1. UtcIso(s) = <<Sec(s), 90>> /\ UtcIso(t) = <<Sec(t), 46, Mic(t), 90>>
    BY <1>3, IsoOf
  <2>2. Less(<<Sec(s), 90>>, <<Sec(t), 46, Mic(t), 90>>) <=> Sec(s) < Sec(t)
    BY <1>1, LessPlain
  <2>3. Less(UtcIso(s), UtcIso(t)) <=> Sec(s) < Sec(t)
    BY <2>1, <2>2, Zenon
  <2> QED BY <1>1, <1>3, <2>3
<1>4. CASE Mic(s) # 0 /\ Mic(t) = 0
  <2>1. UtcIso(s) = <<Sec(s), 46, Mic(s), 90>> /\ UtcIso(t) = <<Sec(t), 90>>
    BY <1>4, IsoOf
  <2>2. Less(<<Sec(s), 46, Mic(s), 90>>, <<Sec(t), 90>>) <=> Sec(s) <= Sec(t)
    BY <1>1, LessPlain
  <2>3. Less(UtcIso(s), UtcIso(t)) <=> Sec(s) <= Sec(t)
    BY <2>1, <2>2, Zenon
  <2> QED BY <1>1, <1>4, <2>3
<1>5. CASE Mic(s) # 0 /\ Mic(t) # 0
  <2>1. UtcIso(s) = <<Sec(s), 46, Mic(s), 90>> /\ UtcIso(t) = <<Sec(t), 46, Mic(t), 90>>
    BY <1>5, IsoOf
  <2>2. Less(<<Sec(s), 46, Mic(s), 90>>, <<Sec(t), 46, Mic(t), 90>>)
          <=> Sec(s) < Sec(t) \/ (Sec(s) = Sec(t) /\ Mic(s) < Mic(t))
    BY <1>1 DEF Less
  <2>3. Less(UtcIso(s), UtcIso(t)) <=> Sec(s) < Sec(t) \/ (Sec(s) = Sec(t) /\ Mic(s) < Mic(t))
    BY <2>1, <2>2, Zenon
  <2> QED BY <1>1, <1>5, <2>3
<1> QED BY <1>2, <1>3, <1>4, <1>5

\* Two timestamps are stored as the same string just when they are one instant.
LEMMA IsoEqual ==
  ASSUME NEW s \in Stamps, NEW t \in Stamps
  PROVE  UtcIso(s) = UtcIso(t) <=> Sec(s) = Sec(t) /\ Mic(s) = Mic(t)
<1>1. Sec(s) \in Int /\ Mic(s) \in Nat /\ Sec(t) \in Int /\ Mic(t) \in Nat
  BY StampTyped
<1>2. /\ UtcIso(s) = IF Mic(s) = 0 THEN <<Sec(s), 90>> ELSE <<Sec(s), 46, Mic(s), 90>>
      /\ UtcIso(t) = IF Mic(t) = 0 THEN <<Sec(t), 90>> ELSE <<Sec(t), 46, Mic(t), 90>>
  BY IsoOf
<1> QED BY <1>1, <1>2

\* The instants' own order.
LEMMA InstantOrder ==
  ASSUME NEW s \in Stamps, NEW t \in Stamps
  PROVE  Earlier(s, t) <=> Sec(s) < Sec(t) \/ (Sec(s) = Sec(t) /\ Mic(s) < Mic(t))
<1>1. Sec(s) \in Int /\ Mic(s) \in Nat /\ Sec(t) \in Int /\ Mic(t) \in Nat
  BY StampTyped
<1>2. Instant(s) = <<Sec(s), Mic(s)>> /\ Instant(t) = <<Sec(t), Mic(t)>>
  BY Zenon DEF Instant, Sec, Mic
<1>3. ASSUME NEW a \in Int, NEW b \in Int, NEW m \in Nat, NEW k \in Nat
      PROVE  Less(<<a, m>>, <<b, k>>) <=> a < b \/ (a = b /\ m < k)
  BY DEF Less
<1> QED BY <1>1, <1>2, <1>3 DEF Earlier

-----------------------------------------------------------------------------
(* Positions.                                                              *)

Rows == rows \in Seq(Stamps)

\* ORDER BY event_timestamp, ties by insertion, is a strict total order of the rows.
LEMMA BeforeOrders ==
  ASSUME Rows, NEW i \in DOMAIN rows, NEW j \in DOMAIN rows, NEW k \in DOMAIN rows
  PROVE  /\ ~Before(i, i)
         /\ Before(i, j) /\ Before(j, k) => Before(i, k)
         /\ Before(i, j) \/ Before(j, i) \/ i = j
<1>1. rows[i] \in Stamps /\ rows[j] \in Stamps /\ rows[k] \in Stamps
  BY DEF Rows
<1>2. i \in Int /\ j \in Int /\ k \in Int
  BY DEF Rows
<1> DEFINE Key(s, t) == \/ Sec(s) < Sec(t)
                        \/ Sec(s) = Sec(t) /\ Mic(s) # 0 /\ (Mic(t) = 0 \/ Mic(s) < Mic(t))
           Same(s, t) == Sec(s) = Sec(t) /\ Mic(s) = Mic(t)
<1>3. ASSUME NEW a \in {i, j, k}, NEW b \in {i, j, k}
      PROVE  Before(a, b) <=> Key(rows[a], rows[b]) \/ (Same(rows[a], rows[b]) /\ a < b)
  BY <1>1, <1>3, IsoOrder, IsoEqual DEF Before
<1>4. /\ Sec(rows[i]) \in Int /\ Sec(rows[j]) \in Int /\ Sec(rows[k]) \in Int
      /\ Mic(rows[i]) \in Nat /\ Mic(rows[j]) \in Nat /\ Mic(rows[k]) \in Nat
  BY <1>1, StampTyped
<1> QED BY <1>2, <1>3, <1>4

\* The rows that come before one.
Ahead(i) == {j \in DOMAIN rows : Before(j, i)}

LEMMA IntervalSize ==
  ASSUME NEW n \in Nat
  PROVE  /\ IsFiniteSet(1..n) /\ Cardinality(1..n) = n
         /\ IsFiniteSet(0..(n - 1)) /\ Cardinality(0..(n - 1)) = n
<1>1. IsFiniteSet(1..n) /\ Cardinality(1..n) = IF 1 > n THEN 0 ELSE n - 1 + 1
  BY FS_Interval
<1>2. IsFiniteSet(0..(n - 1)) /\ Cardinality(0..(n - 1)) = IF 0 > n - 1 THEN 0 ELSE n - 1 - 0 + 1
  BY FS_Interval
<1> QED BY <1>1, <1>2

LEMMA RankBounded ==
  ASSUME Rows, NEW i \in DOMAIN rows
  PROVE  /\ IsFiniteSet(Ahead(i)) /\ Rank(i) = Cardinality(Ahead(i))
         /\ Rank(i) \in 0..(Len(rows) - 1)
<1>1. DOMAIN rows = 1..Len(rows) /\ Len(rows) \in Nat
  BY DEF Rows
<1>2. IsFiniteSet(DOMAIN rows) /\ Cardinality(DOMAIN rows) = Len(rows)
  BY <1>1, IntervalSize
<1>3. Ahead(i) \in SUBSET (DOMAIN rows \ {i})
  BY BeforeOrders DEF Ahead
<1>4. IsFiniteSet(DOMAIN rows \ {i}) /\ Cardinality(DOMAIN rows \ {i}) = Len(rows) - 1
  BY <1>2, FS_RemoveElement
<1>5. IsFiniteSet(Ahead(i)) /\ Cardinality(Ahead(i)) \in Nat /\ Cardinality(Ahead(i)) <= Len(rows) - 1
  BY <1>3, <1>4, FS_Subset, FS_CardinalityType
<1>6. Rank(i) = Cardinality(Ahead(i))
  BY DEF Rank, Ahead
<1> QED BY <1>1, <1>5, <1>6

LEMMA RankMonotone ==
  ASSUME Rows, NEW i \in DOMAIN rows, NEW j \in DOMAIN rows, Before(i, j)
  PROVE  Rank(i) < Rank(j)
<1>1. Ahead(i) \in SUBSET Ahead(j) /\ i \in Ahead(j) /\ i \notin Ahead(i)
  BY BeforeOrders DEF Ahead
<1>2. Cardinality(Ahead(i)) <= Cardinality(Ahead(j)) /\ Cardinality(Ahead(i)) # Cardinality(Ahead(j))
  BY <1>1, RankBounded, FS_Subset
<1> QED BY <1>2, RankBounded

\* Every position of the listing is taken by exactly one row.
LEMMA RankOnto ==
  ASSUME Rows
  PROVE  /\ \A i, j \in DOMAIN rows : Rank(i) = Rank(j) => i = j
         /\ \A n \in 0..(Len(rows) - 1) : \E i \in DOMAIN rows : Rank(i) = n
<1>1. DOMAIN rows = 1..Len(rows) /\ Len(rows) \in Nat
  BY DEF Rows
<1>2. \A i, j \in DOMAIN rows : Rank(i) = Rank(j) => i = j
  <2> SUFFICES ASSUME NEW i \in DOMAIN rows, NEW j \in DOMAIN rows, Rank(i) = Rank(j), i # j
               PROVE  FALSE
    OBVIOUS
  <2>1. Before(i, j) \/ Before(j, i)
    BY BeforeOrders
  <2>2. Rank(i) < Rank(j) \/ Rank(j) < Rank(i)
    BY <2>1, RankMonotone
  <2> QED BY <2>2, RankBounded
<1> DEFINE S == DOMAIN rows  T == 0..(Len(rows) - 1)  f == [i \in S |-> Rank(i)]
<1>3. f \in Injection(S, T)
  <2>1. f \in [S -> T]
    BY RankBounded
  <2>2. \A i, j \in S : f[i] = f[j] => i = j
    BY <1>2
  <2> QED BY <2>1, <2>2 DEF Injection, IsInjective
<1>4. IsFiniteSet(S) /\ Cardinality(S) = Len(rows)
  BY <1>1, IntervalSize
<1>5. IsFiniteSet(T) /\ Cardinality(T) = Len(rows)
  BY <1>1, IntervalSize
<1>6. f \in Surjection(S, T)
  BY <1>3, <1>4, <1>5, FS_Injection
<1>7. \A n \in T : \E i \in S : f[i] = n
  BY <1>6 DEF Surjection
<1> QED BY <1>2, <1>7

LEMMA SizesTyped == MaxEvents \in Nat /\ PageSize \in Nat \ {0}
<1>1. MaxEvents \in Nat /\ PageSize \in 1..500
  BY ListingAssumption
<1> QED BY <1>1

\* The listing is the rows, each at its rank.
LEMMA ListingRanked ==
  ASSUME Rows
  PROVE  /\ DOMAIN Listing = 1..Len(rows)
         /\ \A k \in 1..Len(rows) : Listing[k] \in 1..Len(rows) /\ Rank(Listing[k]) = k - 1
         /\ \A i \in 1..Len(rows) : Rank(i) + 1 \in 1..Len(rows) /\ Listing[Rank(i) + 1] = i
<1>1. DOMAIN rows = 1..Len(rows) /\ Len(rows) \in Nat
  BY DEF Rows
<1>2. ASSUME NEW k \in 1..Len(rows)
      PROVE  Listing[k] \in 1..Len(rows) /\ Rank(Listing[k]) = k - 1
  <2>1. k - 1 \in 0..(Len(rows) - 1)
    BY <1>1
  <2>2. \E i \in DOMAIN rows : Rank(i) = k - 1
    BY <2>1, RankOnto
  <2>3. Listing[k] = CHOOSE i \in DOMAIN rows : Rank(i) = k - 1
    BY <1>1 DEF Listing
  <2>4. Listing[k] \in DOMAIN rows /\ Rank(Listing[k]) = k - 1
    BY <2>2, <2>3, Zenon
  <2> QED BY <1>1, <2>4
<1>3. ASSUME NEW i \in 1..Len(rows)
      PROVE  Rank(i) + 1 \in 1..Len(rows) /\ Listing[Rank(i) + 1] = i
  <2>1. Rank(i) \in Int /\ Rank(i) + 1 \in 1..Len(rows)
    BY <1>1, RankBounded
  <2>2. Listing[Rank(i) + 1] \in DOMAIN rows /\ Rank(Listing[Rank(i) + 1]) = Rank(i) + 1 - 1
    BY <1>1, <1>2, <2>1
  <2>3. Rank(Listing[Rank(i) + 1]) = Rank(i)
    BY <2>1, <2>2
  <2>4. i \in DOMAIN rows
    BY <1>1
  <2>5. Listing[Rank(i) + 1] = i
    BY <2>2, <2>3, <2>4, RankOnto, Zenon
  <2> QED BY <2>1, <2>5
<1> QED BY <1>1, <1>2, <1>3 DEF Listing

LEMMA MinOfTwo ==
  ASSUME NEW a \in Int, NEW b \in Int
  PROVE  Min({a, b}) = IF a <= b THEN a ELSE b
<1> DEFINE m == IF a <= b THEN a ELSE b
<1>1. m \in {a, b} /\ \A y \in {a, b} : m <= y
  OBVIOUS
<1>2. \A x \in {a, b} : (\A y \in {a, b} : x <= y) => x = m
  OBVIOUS
<1> QED BY <1>1, <1>2 DEF Min

\* A page is the rows of PageSize positions, or of all that are left.
LEMMA PageShows ==
  ASSUME Rows, NEW skip \in 0..Len(rows)
  PROVE  /\ Page(skip) \in Seq(1..Len(rows))
         /\ skip + Len(Page(skip)) <= Len(rows)
         /\ Len(Page(skip)) < PageSize => skip + Len(Page(skip)) = Len(rows)
         /\ \A k \in 1..Len(Page(skip)) : Page(skip)[k] = Listing[skip + k]
<1> DEFINE m == Min({skip + PageSize, Len(rows)})
<1>1. Len(rows) \in Nat /\ skip \in Nat /\ skip <= Len(rows) /\ PageSize \in Nat \ {0}
  BY SizesTyped DEF Rows
<1>2. m = IF skip + PageSize <= Len(rows) THEN skip + PageSize ELSE Len(rows)
  BY <1>1, MinOfTwo
<1>3. m \in Int /\ skip <= m /\ m <= Len(rows) /\ (m - skip < PageSize => m = Len(rows))
  BY <1>1, <1>2
<1> HIDE DEF m
<1>4. \A i \in (skip + 1)..m : Listing[i] \in 1..Len(rows)
  BY <1>1, <1>3, ListingRanked
<1>5. Page(skip) = SubSeq(Listing, skip + 1, m)
  BY DEF Page, m
<1>6. /\ Page(skip) \in Seq(1..Len(rows))
      /\ Len(Page(skip)) = IF skip + 1 <= m THEN m - (skip + 1) + 1 ELSE 0
      /\ \A i \in 1..(m - (skip + 1) + 1) : Page(skip)[i] = Listing[skip + 1 + i - 1]
  <2>1. skip + 1 \in Int
    BY <1>1
  <2> QED BY <1>3, <1>4, <1>5, <2>1, SubSeqProperties
<1>7. Len(Page(skip)) = m - skip
  BY <1>1, <1>3, <1>6
<1>8. ASSUME NEW k \in 1..Len(Page(skip)) PROVE Page(skip)[k] = Listing[skip + k]
  <2>1. k \in 1..(m - (skip + 1) + 1) /\ skip + 1 + k - 1 = skip + k
    BY <1>1, <1>3, <1>7
  <2> QED BY <1>6, <2>1
<1> QED BY <1>1, <1>3, <1>6, <1>7, <1>8

-----------------------------------------------------------------------------
(* The inductive invariant.                                                *)

\* What the client has been shown: the rows it knew of that stand among the first
\* Len(pages), and when its walk has ended all it knew of.
Shown == \A i \in 1..known :
  ended \/ Rank(i) < Len(pages) => \E k \in DOMAIN pages : pages[k] = i

ListInv ==
  /\ TypeOK
  /\ known <= Len(rows) /\ Len(pages) <= Len(rows)
  /\ Shown /\ TotalCoversPages

LEMMA ListInvInit == Init => ListInv
<1> SUFFICES ASSUME Init PROVE ListInv
  OBVIOUS
<1>1. TypeOK
  <2>1. rows \in Seq(Stamps) /\ Len(rows) = 0 /\ pages \in Seq(1..MaxEvents) /\ Len(pages) = 0
    BY EmptySeq DEF Init
  <2>2. 0 <= MaxEvents /\ known \in 0..MaxEvents /\ total \in 0..MaxEvents
    BY SizesTyped DEF Init
  <2> QED BY <2>1, <2>2 DEF Init, TypeOK
<1>2. known <= Len(rows) /\ Len(pages) <= Len(rows) /\ Shown /\ TotalCoversPages
  BY DEF Init, Shown, TotalCoversPages
<1> QED BY <1>1, <1>2 DEF ListInv

\* An arrival only moves rows back.
LEMMA InsertMovesBack ==
  ASSUME Rows, NEW t \in Stamps, rows' = Append(rows, t), NEW i \in 1..Len(rows)
  PROVE  Rank(i) <= Rank(i)' /\ Rank(i) \in Int /\ Rank(i)' \in Int
<1>1. /\ Len(rows) \in Nat /\ DOMAIN rows = 1..Len(rows) /\ DOMAIN rows' = 1..(Len(rows) + 1)
      /\ \A j \in 1..Len(rows) : rows'[j] = rows[j]
  BY DEF Rows
<1>2. Ahead(i) \in SUBSET Ahead(i)'
  <2> SUFFICES ASSUME NEW j \in Ahead(i) PROVE j \in Ahead(i)'
    OBVIOUS
  <2>1. j \in 1..Len(rows) /\ j \in 1..(Len(rows) + 1) /\ Before(j, i)
    BY <1>1 DEF Ahead
  <2>2. rows'[j] = rows[j] /\ rows'[i] = rows[i]
    BY <1>1, <2>1
  <2>3. Before(j, i)'
    BY <2>1, <2>2 DEF Before
  <2> QED BY <1>1, <2>1, <2>3 DEF Ahead
<1>3. IsFiniteSet(Ahead(i)')
  <2>1. IsFiniteSet(1..(Len(rows) + 1))
    BY <1>1, IntervalSize
  <2>2. Ahead(i)' \in SUBSET (1..(Len(rows) + 1))
    BY <1>1 DEF Ahead
  <2> QED BY <2>1, <2>2, FS_Subset
<1>4. /\ Cardinality(Ahead(i)) <= Cardinality(Ahead(i)')
      /\ Cardinality(Ahead(i)) \in Nat /\ Cardinality(Ahead(i)') \in Nat
  BY <1>2, <1>3, FS_Subset, FS_CardinalityType
<1>5. Rank(i) = Cardinality(Ahead(i)) /\ Rank(i)' = Cardinality(Ahead(i)')
  BY DEF Rank, Ahead
<1> QED BY <1>4, <1>5

LEMMA InsertKeeps ==
  ASSUME ListInv, NEW t \in Stamps, Insert(t)
  PROVE  ListInv'
<1> USE DEF ListInv
<1>1. /\ rows \in Seq(Stamps) /\ Len(rows) < MaxEvents /\ rows' = Append(rows, t)
      /\ UNCHANGED <<known, pages, ended, counting, total>>
  BY DEF Insert, client, TypeOK
<1>2. rows' \in Seq(Stamps) /\ Len(rows') = Len(rows) + 1 /\ Len(rows) \in Nat
  BY <1>1
<1>3. TypeOK'
  BY <1>1, <1>2, SizesTyped DEF TypeOK
<1>4. known' <= Len(rows') /\ Len(pages') <= Len(rows')
  BY <1>1, <1>2, SizesTyped DEF TypeOK
<1>5. Shown'
  <2> SUFFICES ASSUME NEW i \in 1..known, ended \/ Rank(i)' < Len(pages)
               PROVE  \E k \in DOMAIN pages : pages[k] = i
    BY <1>1 DEF Shown
  <2>1. i \in 1..Len(rows)
    BY <1>2, SizesTyped DEF TypeOK
  <2>2. Rank(i) <= Rank(i)' /\ Rank(i) \in Int /\ Rank(i)' \in Int
    BY <1>1, <2>1, InsertMovesBack DEF Rows
  <2>3. Len(pages) \in Int
    BY DEF TypeOK
  <2>4. ended \/ Rank(i) < Len(pages)
    BY <2>2, <2>3
  <2> QED BY <2>4 DEF Shown
<1>6. TotalCoversPages'
  BY <1>1 DEF TotalCoversPages
<1> QED BY <1>3, <1>4, <1>5, <1>6

LEMMA CountKeeps ==
  ASSUME ListInv, Count
  PROVE  ListInv'
<1> USE DEF ListInv, Count
<1>1. Len(rows) \in Nat
  BY DEF TypeOK
<1>2. TypeOK'
  <2>1. total' \in 0..MaxEvents
    BY <1>1, SizesTyped DEF TypeOK
  <2> QED BY <2>1 DEF TypeOK
<1>3. Shown'
  BY DEF Shown, Rank, Before
<1>4. TotalCoversPages'
  BY DEF TotalCoversPages
<1> QED BY <1>2, <1>3, <1>4

LEMMA ReadKeeps ==
  ASSUME ListInv, ReadPage
  PROVE  ListInv'
<1> USE DEF ListInv
<1> DEFINE skip == Len(pages)  page == Page(skip)
<1>1. /\ ~ended /\ pages' = pages \o page
      /\ known' = IF pages = <<>> THEN Len(rows) ELSE known
      /\ ended' = (Len(page) < PageSize) /\ counting' = TRUE
      /\ UNCHANGED <<rows, total>>
  BY DEF ReadPage, ReadAt
<1>2. /\ Rows /\ Len(rows) \in Nat /\ Len(rows) <= MaxEvents
      /\ pages \in Seq(1..MaxEvents) /\ skip \in 0..Len(rows)
  BY DEF Rows, TypeOK
<1>3. /\ page \in Seq(1..Len(rows)) /\ skip + Len(page) <= Len(rows)
      /\ Len(page) < PageSize => skip + Len(page) = Len(rows)
      /\ \A k \in 1..Len(page) : page[k] = Listing[skip + k]
  BY <1>2, PageShows
<1> HIDE DEF skip, page
<1>4. page \in Seq(1..MaxEvents) /\ Len(page) \in Nat
  <2>1. 1..Len(rows) \subseteq 1..MaxEvents
    BY <1>2, SizesTyped
  <2> QED BY <1>3, <2>1, SeqMonotonic, LenProperties
<1>5. /\ pages' \in Seq(1..MaxEvents) /\ Len(pages') = skip + Len(page)
      /\ \A k \in 1..(skip + Len(page)) :
           pages'[k] = IF k <= skip THEN pages[k] ELSE page[k - skip]
  BY <1>1, <1>2, <1>4, ConcatProperties DEF skip
<1>6. known' \in 0..MaxEvents /\ known' <= Len(rows)
  BY <1>1, <1>2, SizesTyped DEF TypeOK
<1>7. TypeOK'
  <2>1. Len(pages') <= MaxEvents
    BY <1>2, <1>3, <1>4, <1>5, SizesTyped
  <2> QED BY <1>1, <1>5, <1>6, <2>1 DEF TypeOK
<1>8. Shown'
  <2> SUFFICES ASSUME NEW i \in 1..known', ended' \/ Rank(i)' < Len(pages')
               PROVE  \E k \in DOMAIN pages' : pages'[k] = i
    BY DEF Shown
  <2>1. i \in 1..Len(rows) /\ Rank(i)' = Rank(i)
    <3>1. i \in 1..Len(rows)
      BY <1>2, <1>6
    <3>2. Rank(i)' = Rank(i)
      BY <1>1 DEF Rank, Before
    <3> QED BY <3>1, <3>2
  <2>2. /\ Rank(i) \in 0..(Len(rows) - 1) /\ Rank(i) + 1 \in 1..Len(rows)
        /\ Listing[Rank(i) + 1] = i
    <3>1. Rank(i) + 1 \in 1..Len(rows) /\ Listing[Rank(i) + 1] = i
      BY <1>2, <2>1, ListingRanked
    <3>2. i \in DOMAIN rows
      BY <1>2, <2>1 DEF Rows
    <3>3. Rank(i) \in 0..(Len(rows) - 1)
      BY <1>2, <3>2, RankBounded
    <3> QED BY <3>1, <3>3
  <2>3. Rank(i) < skip + Len(page)
    <3>1. CASE ended'
      <4>1. Len(page) < PageSize
        BY <1>1, <3>1, Zenon
      <4> QED BY <1>2, <1>3, <1>4, <2>2, <4>1
    <3>2. CASE Rank(i)' < Len(pages')
      BY <1>5, <2>1, <3>2
    <3> QED BY <3>1, <3>2
  <2>4. DOMAIN pages' = 1..(skip + Len(page)) /\ DOMAIN pages = 1..skip
    BY <1>2, <1>5 DEF skip
  <2>5. CASE Rank(i) < skip
    <3>1. i \in 1..known
      <4>1. pages # <<>>
        BY <1>2, <2>2, <2>5 DEF skip
      <4> QED BY <1>1, <4>1
    <3>2. PICK k \in DOMAIN pages : pages[k] = i
      BY <2>5, <3>1 DEF Shown, skip
    <3>3. k \in 1..(skip + Len(page)) /\ k <= skip
      BY <1>2, <1>4, <2>4
    <3> QED BY <1>5, <2>4, <3>2, <3>3
  <2>6. CASE Rank(i) >= skip
    <3> DEFINE k == Rank(i) + 1
    <3>1. k \in 1..(skip + Len(page)) /\ ~(k <= skip) /\ k - skip \in 1..Len(page)
      BY <1>2, <1>4, <2>2, <2>3, <2>6
    <3>2. page[k - skip] = Listing[skip + (k - skip)] /\ skip + (k - skip) = k
      BY <1>2, <1>3, <2>2, <3>1
    <3>3. pages'[k] = i
      BY <1>5, <2>2, <3>1, <3>2
    <3> QED BY <2>4, <3>1, <3>3
  <2> QED BY <1>2, <2>2, <2>5, <2>6
<1>9. TotalCoversPages'
  BY <1>1 DEF TotalCoversPages
<1>10. Len(pages') <= Len(rows')
  BY <1>1, <1>3, <1>5
<1> QED BY <1>1, <1>6, <1>7, <1>8, <1>9, <1>10

LEMMA ListInvNext == ListInv /\ [Next]_vars => ListInv'
<1>1. ASSUME ListInv, Next PROVE ListInv'
  BY <1>1, ReadKeeps, CountKeeps, InsertKeeps DEF Next
<1>2. ASSUME ListInv, UNCHANGED vars PROVE ListInv'
  <2> USE <1>2 DEF vars, client
  <2>1. Shown'
    BY DEF ListInv, Shown, Rank, Before
  <2>2. TypeOK' /\ TotalCoversPages' /\ known' <= Len(rows') /\ Len(pages') <= Len(rows')
    BY DEF ListInv, TypeOK, TotalCoversPages
  <2> QED BY <2>1, <2>2 DEF ListInv
<1> QED BY <1>1, <1>2

LEMMA ListInvariant == Spec => []ListInv
  BY ListInvInit, ListInvNext, PTL DEF Spec

-----------------------------------------------------------------------------
(* The results.                                                            *)

\* Every reachable state is well typed.
THEOREM ListingTypeCorrect == Spec => []TypeOK
<1>1. ListInv => TypeOK  BY DEF ListInv
<1> QED BY <1>1, ListInvariant, PTL

\* A client that walks through the pages to the end is shown every event that was
\* stored when it began, whatever arrives meanwhile and wherever it sorts
\* (repository.py: list_by_account).
THEOREM WalkShowsAll == Spec => []NoEventSkipped
<1>1. ListInv => NoEventSkipped  BY DEF ListInv, Shown, NoEventSkipped
<1> QED BY <1>1, ListInvariant, PTL

\* The total of an answer is never less than the rows shown up to it.
THEOREM TotalNeverShort == Spec => []TotalCoversPages
<1>1. ListInv => TotalCoversPages  BY DEF ListInv
<1> QED BY <1>1, ListInvariant, PTL

\* A pair that is listed against its instants lies within one second, and only the
\* later listed of the two has no fraction: to_utc_iso leaves ".000000" out, and
\* "." sorts before "Z".
OrderUpToFractions == LET list == Listing IN
  \A i, j \in DOMAIN list : i < j /\ Earlier(rows[list[j]], rows[list[i]]) =>
    /\ Sec(rows[list[i]]) = Sec(rows[list[j]])
    /\ Mic(rows[list[i]]) # 0 /\ Mic(rows[list[j]]) = 0

LEMMA ListedBefore ==
  ASSUME Rows, NEW i \in 1..Len(rows), NEW j \in 1..Len(rows), i < j
  PROVE  /\ Listing[i] \in DOMAIN rows /\ Listing[j] \in DOMAIN rows
         /\ Before(Listing[i], Listing[j])
<1> DEFINE a == Listing[i]  b == Listing[j]
<1>1. a \in DOMAIN rows /\ b \in DOMAIN rows /\ Rank(a) = i - 1 /\ Rank(b) = j - 1
  <2>1. DOMAIN rows = 1..Len(rows)
    BY DEF Rows
  <2> QED BY <2>1, ListingRanked
<1> HIDE DEF a, b
<1>2. Rank(a) < Rank(b)
  BY <1>1
<1>3. a # b /\ ~Before(b, a)
  <2>1. ~(Rank(b) < Rank(a)) /\ Rank(a) # Rank(b)
    BY <1>1, <1>2
  <2> QED BY <1>1, <2>1, RankMonotone
<1>4. Before(a, b)
  BY <1>1, <1>3, BeforeOrders
<1> QED BY <1>1, <1>4 DEF a, b

LEMMA OrderExact == Rows => OrderUpToFractions
<1> SUFFICES ASSUME Rows, NEW i \in 1..Len(rows), NEW j \in 1..Len(rows), i < j,
                    Earlier(rows[Listing[j]], rows[Listing[i]])
             PROVE  /\ Sec(rows[Listing[i]]) = Sec(rows[Listing[j]])
                    /\ Mic(rows[Listing[i]]) # 0 /\ Mic(rows[Listing[j]]) = 0
  BY ListingRanked DEF OrderUpToFractions
<1> DEFINE s == rows[Listing[i]]  t == rows[Listing[j]]
<1>1. s \in Stamps /\ t \in Stamps
  <2>1. Listing[i] \in DOMAIN rows /\ Listing[j] \in DOMAIN rows
    BY ListedBefore
  <2> QED BY <2>1 DEF Rows
<1>2. Less(UtcIso(s), UtcIso(t)) \/ UtcIso(s) = UtcIso(t)
  <2>1. Before(Listing[i], Listing[j])
    BY ListedBefore
  <2> QED BY <2>1, Zenon DEF Before
<1> HIDE DEF s, t
<1>3. Sec(s) \in Int /\ Sec(t) \in Int /\ Mic(s) \in Nat /\ Mic(t) \in Nat
  BY <1>1, StampTyped
<1>4. Sec(t) < Sec(s) \/ (Sec(t) = Sec(s) /\ Mic(t) < Mic(s))
  BY <1>1, InstantOrder DEF s, t
<1>5. \/ Sec(s) < Sec(t)
      \/ Sec(s) = Sec(t) /\ Mic(s) # 0 /\ (Mic(t) = 0 \/ Mic(s) < Mic(t))
      \/ Sec(s) = Sec(t) /\ Mic(s) = Mic(t)
  BY <1>1, <1>2, IsoOrder, IsoEqual
<1>6. Sec(s) = Sec(t) /\ Mic(s) # 0 /\ Mic(t) = 0
  BY <1>3, <1>4, <1>5
<1> QED BY <1>6 DEF s, t

\* For any timestamps whatever, the listing is out of order at most within a second,
\* and there only between an event with a fraction and one without.
THEOREM OrderedUpToFractions == Spec => []OrderUpToFractions
<1>1. ListInv => Rows  BY DEF ListInv, TypeOK, Rows
<1> QED BY <1>1, OrderExact, ListInvariant, PTL

\* The timestamps of each second are all whole, or all have a fraction.
OneForm == \A s, t \in Stamps : Sec(s) = Sec(t) => (Mic(s) = 0 <=> Mic(t) = 0)

\* The listing is chronological, across any UTC offsets, where no second has events
\* both with a fraction and without; run "fractions" shows that it is not otherwise.
THEOREM ListingChronological ==
  ASSUME OneForm
  PROVE  Spec => []Chronological
<1>1. ASSUME ListInv PROVE Chronological
  <2>1. Rows
    BY <1>1 DEF ListInv, TypeOK, Rows
  <2>2. ASSUME NEW i \in 1..Len(rows), NEW j \in 1..Len(rows), i < j
        PROVE  ~Earlier(rows[Listing[j]], rows[Listing[i]])
    <3>1. rows[Listing[i]] \in Stamps /\ rows[Listing[j]] \in Stamps
      BY <2>1, <2>2, ListedBefore DEF Rows
    <3>2. /\ i \in DOMAIN Listing /\ j \in DOMAIN Listing
      BY <2>1, ListingRanked
    <3> QED BY <2>1, <2>2, <3>1, <3>2, OrderExact DEF OrderUpToFractions, OneForm
  <2> QED BY <2>1, <2>2, ListingRanked DEF Chronological
<1>2. ListInv => Chronological
  BY <1>1
<1> QED BY <1>2, ListInvariant, PTL
=============================================================================
