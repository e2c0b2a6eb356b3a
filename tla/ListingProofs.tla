---------------------------- MODULE ListingProofs ----------------------------
(***************************************************************************)
(* What a client may expect of the lists, for any table, any widths and    *)
(* limits and any number of rows that come and go: a page is the right     *)
(* part of the table, and a walk through the pages misses nothing when     *)
(* rows only come and repeats nothing when they only go.  The two rest on  *)
(* the rank of a row, its place in the order of the list: an insertion     *)
(* only raises ranks and a deletion only lowers them.                      *)
(***************************************************************************)
EXTENDS Listing, FiniteSetTheorems, SequenceTheorems, TLAPS

\* The last place in the list that r can have.
Rank(r) == Cardinality(Ahead(r))

\* How far the walk has read the table.
Frontier == IF list.pc = "answered" THEN Exact + list.limit ELSE Exact

\* The table at a request: some finite number of rows, each inserted once.
TableOK == IsFiniteSet(StoredRows) /\ StoredRows \subseteq used

\* Between the two statements the total is that of the COUNT, and behind them every row
\* of the page has one of the places that its created_at gives it.
PageOK ==
  /\ Walking /\ ~list.moved /\ (list.pc = "select" \/ ~list.split) =>
       list.total = Cardinality(StoredRows)
  /\ list.pc = "answered" /\ ~list.moved /\ Exact <= MaxInt =>
       /\ Len(list.data) = RowsOfPage(Exact, list.limit, Cardinality(StoredRows))
       /\ IsInjective(list.data)
       /\ \A i \in DOMAIN list.data : \E r \in StoredRows :
            /\ list.data[i] = r
            /\ Cardinality(Newer(r)) < Exact + i /\ Exact + i <= Cardinality(Ahead(r))
  /\ list.pc = "refused" => Exact > MaxInt

\* While rows only come, a row that stays and was not seen lies beyond the frontier.
AllSeenBehind ==
  list.first = 1 /\ ~list.shrunk /\ ~list.tied /\ Exact <= MaxInt /\ Walking =>
    /\ list.stay \subseteq StoredRows
    /\ \A r \in list.stay \ ToSet(list.seen) : Rank(r) > Frontier
    /\ list.pc = "answered" /\ Len(list.data) < list.limit => list.stay \subseteq ToSet(list.seen)

\* While rows only go, a row that was seen and is still there lies within it.
NoneSeenBeyond ==
  ~list.grown /\ ~list.tied /\ Exact <= MaxInt =>
    /\ IsInjective(list.seen)
    /\ Walking => \A r \in ToSet(list.seen) \cap StoredRows : Rank(r) <= Frontier

ListInv == TypeOK /\ TableOK /\ PageOK /\ AllSeenBehind /\ NoneSeenBeyond

-----------------------------------------------------------------------------
(* The operators of the two statements. *)

\* An int holds a number in its range.
LEMMA WrapFits ==
  ASSUME NEW n \in Int, MinInt <= n, n <= MaxInt
  PROVE  Wrap(n) = n
<1>1. MaxInt \in Nat \ {0}
  BY BoundAssumption
<1>2. ASSUME NEW m \in Nat, NEW k \in Int, 0 <= k, k < m PROVE k % m = k
  BY <1>2
<1> QED BY <1>1, <1>2 DEF Wrap, MinInt

\* The corrected parameters are in range.
LEMMA Corrections ==
  /\ \A page \in MinInt .. MaxInt : Page(page) \in 1 .. MaxInt
  /\ \A limit \in Int : Limit(limit) \in 1 .. MaxLimit
  /\ \A page \in 1 .. MaxInt : Page(page) = page
  /\ \A limit \in 1 .. MaxLimit : Limit(limit) = limit
BY BoundAssumption DEF Page, Limit, MinInt

\* A result of the query has each stored row once.
LEMMA OrderShape ==
  ASSUME IsFiniteSet(StoredRows), NEW s \in Orders
  PROVE  /\ Cardinality(StoredRows) \in Nat
         /\ s \in [1 .. Cardinality(StoredRows) -> StoredRows]
         /\ Len(s) = Cardinality(StoredRows)
         /\ s \in Seq(Rows)
         /\ \A i, k \in 1 .. Len(s) : s[i] = s[k] => i = k
         /\ \A r \in StoredRows : \E i \in 1 .. Len(s) : s[i] = r
<1> DEFINE n == Cardinality(StoredRows)
<1>1. n \in Nat
  BY FS_CardinalityType
<1>2. s \in [1 .. n -> StoredRows] /\ \A i, k \in 1 .. n : i # k => s[i] # s[k]
  BY DEF Orders, SetToSeqs
<1>3. s \in Seq(Rows) /\ Len(s) = n
  <2>1. s \in [1 .. n -> Rows]
    BY <1>2 DEF StoredRows
  <2> QED BY <1>1, <2>1
<1>4. s \in Surjection(1 .. n, StoredRows)
  <2>1. s \in Injection(1 .. n, StoredRows)
    BY <1>2 DEF Injection, IsInjective
  <2>2. Cardinality(1 .. n) = n
    BY <1>1, FS_Interval
  <2> QED BY <2>1, <2>2, FS_Injection
<1> QED BY <1>1, <1>2, <1>3, <1>4 DEF Surjection

\* A page is the part of the result that LIMIT and OFFSET name.
LEMMA SliceShape ==
  ASSUME NEW S, NEW s \in Seq(S), NEW offset \in Nat, NEW limit \in Nat \ {0}
  PROVE  LET data == Slice(s, offset, limit) IN
         /\ data \in Seq(S)
         /\ Len(data) = RowsOfPage(offset, limit, Len(s))
         /\ \A i \in 1 .. Len(data) : offset + i \in 1 .. Len(s) /\ data[i] = s[offset + i]
         /\ \A i \in 1 .. Len(s) : offset < i /\ i <= offset + limit => s[i] \in ToSet(data)
<1> DEFINE last == IF offset + limit < Len(s) THEN offset + limit ELSE Len(s)
           data == SubSeq(s, offset + 1, last)
<1>1. Len(s) \in Nat /\ last \in Nat /\ last <= Len(s) /\ last <= offset + limit
  BY LenProperties
<1>2. \A i \in offset + 1 .. last : s[i] \in S
  BY <1>1, ElementOfSeq
<1>3. /\ data \in Seq(S)
      /\ Len(data) = IF offset + 1 <= last THEN last - (offset + 1) + 1 ELSE 0
      /\ \A i \in 1 .. last - (offset + 1) + 1 : data[i] = s[offset + 1 + i - 1]
  BY <1>1, <1>2, SubSeqProperties
<1> HIDE DEF data
<1>4. ASSUME NEW i \in 1 .. Len(s), offset < i, i <= offset + limit
      PROVE  s[i] \in ToSet(data)
  <2>1. i - offset \in 1 .. Len(data) /\ data[i - offset] = s[i]
    BY <1>1, <1>3, <1>4
  <2> QED BY <1>3, <2>1, LenProperties DEF ToSet
<1>5. Len(data) = RowsOfPage(offset, limit, Len(s))
  BY <1>1, <1>3 DEF RowsOfPage
<1>6. \A i \in 1 .. Len(data) : offset + i \in 1 .. Len(s) /\ data[i] = s[offset + i]
  BY <1>1, <1>3
<1>7. Slice(s, offset, limit) = data
  BY DEF Slice, data
<1> QED BY <1>3, <1>4, <1>5, <1>6, <1>7

\* When created_at tells the rows apart, the rank of a row is its place in the result.
LEMMA RankIsPlace ==
  ASSUME TypeOK, IsFiniteSet(StoredRows), Distinct, NEW s \in Orders, NEW i \in 1 .. Len(s)
  PROVE  Rank(s[i]) = i
<1>1. Len(s) \in Nat /\ s \in [1 .. Len(s) -> StoredRows]
  BY OrderShape
<1>2. \A k, l \in 1 .. Len(s) : k < l => created[s[k]] >= created[s[l]]
  BY <1>1 DEF Orders
<1>3. \A q \in StoredRows : created[q] \in Int
  BY BoundAssumption DEF TypeOK, StoredRows
<1>4. Ahead(s[i]) = {s[k] : k \in 1 .. i}
  <2>1. ASSUME NEW q \in Ahead(s[i]) PROVE \E k \in 1 .. i : q = s[k]
    <3>1. PICK k \in 1 .. Len(s) : s[k] = q
      BY OrderShape DEF Ahead
    <3>2. ASSUME i < k PROVE FALSE
      BY <1>1, <1>2, <1>3, <2>1, <3>1, <3>2, OrderShape DEF Ahead, Distinct
    <3> QED BY <1>1, <3>1, <3>2
  <2>2. ASSUME NEW k \in 1 .. i PROVE s[k] \in Ahead(s[i])
    BY <1>1, <1>2, <1>3 DEF Ahead
  <2> QED BY <2>1, <2>2
<1> DEFINE f == [k \in 1 .. i |-> s[k]]
<1>5. f \in Bijection(1 .. i, Ahead(s[i]))
  BY <1>1, <1>4, OrderShape DEF Bijection, Injection, Surjection, IsInjective
<1>6. ExistsBijection(1 .. i, Ahead(s[i]))
  BY <1>5 DEF ExistsBijection
<1> QED BY <1>1, <1>6, FS_CountingElements DEF Rank

\* Also when some share a created_at, the rows before a place of the result hold those that
\* are newer than the row there, and the rows up to it are none that are older.
LEMMA PlaceBounds ==
  ASSUME TypeOK, IsFiniteSet(StoredRows), NEW s \in Orders, NEW i \in 1 .. Len(s)
  PROVE  /\ s[i] \in StoredRows
         /\ Cardinality(Newer(s[i])) < i
         /\ i <= Cardinality(Ahead(s[i]))
<1>1. Len(s) \in Nat /\ s \in [1 .. Len(s) -> StoredRows]
  BY OrderShape
<1>2. \A k, l \in 1 .. Len(s) : k < l => created[s[k]] >= created[s[l]]
  BY <1>1 DEF Orders
<1>3. \A q \in StoredRows : created[q] \in Int
  BY BoundAssumption DEF TypeOK, StoredRows
<1> DEFINE Upto(n) == {s[k] : k \in 1 .. n}
<1>4. ASSUME NEW n \in 0 .. Len(s)
      PROVE  IsFiniteSet(Upto(n)) /\ Cardinality(Upto(n)) = n
  <2> DEFINE f == [k \in 1 .. n |-> s[k]]
  <2>1. f \in Bijection(1 .. n, Upto(n))
    BY <1>1, OrderShape DEF Bijection, Injection, Surjection, IsInjective
  <2>2. ExistsBijection(1 .. n, Upto(n))
    BY <2>1 DEF ExistsBijection
  <2>3. n \in Nat
    BY <1>1
  <2> HIDE DEF Upto
  <2>4. Cardinality(Upto(n)) = n
    BY <2>2, <2>3, FS_CountingElements
  <2>5. IsFiniteSet(Upto(n))
    BY <2>2, <2>3, FS_NatBijection
  <2> QED BY <2>4, <2>5
<1>5. Newer(s[i]) \subseteq Upto(i - 1)
  <2> SUFFICES ASSUME NEW q \in Newer(s[i]) PROVE \E k \in 1 .. i - 1 : q = s[k]
    OBVIOUS
  <2>1. PICK k \in 1 .. Len(s) : s[k] = q
    BY OrderShape DEF Newer
  <2>2. ASSUME i <= k PROVE FALSE
    <3>1. created[s[i]] >= created[s[k]]
      BY <1>1, <1>2, <1>3, <2>2
    <3>2. created[s[k]] > created[s[i]]
      BY <2>1 DEF Newer
    <3>3. created[s[i]] \in Int /\ created[s[k]] \in Int
      BY <1>1, <1>3
    <3> QED BY <3>1, <3>2, <3>3
  <2> QED BY <1>1, <2>1, <2>2
<1>6. Upto(i) \subseteq Ahead(s[i]) /\ Ahead(s[i]) \subseteq StoredRows
  BY <1>1, <1>2, <1>3 DEF Ahead
<1>7. i \in 0 .. Len(s) /\ i - 1 \in 0 .. Len(s)
  BY <1>1
<1> HIDE DEF Upto
<1>8. IsFiniteSet(Newer(s[i])) /\ Cardinality(Newer(s[i])) <= i - 1
  BY <1>4, <1>5, <1>7, FS_Subset
<1>9. IsFiniteSet(Ahead(s[i])) /\ i <= Cardinality(Ahead(s[i]))
  BY <1>4, <1>6, <1>7, FS_Subset
<1>10. Cardinality(Newer(s[i])) \in Nat
  BY <1>8, FS_CardinalityType
<1> QED BY <1>1, <1>8, <1>9, <1>10

\* A page is the right part of the table that the query met.
LEMMA SliceIsRight ==
  ASSUME TypeOK, TableOK, NEW s \in Orders, NEW offset \in Nat, NEW limit \in Nat \ {0}
  PROVE  LET data == Slice(s, offset, limit) IN
         /\ Len(data) = RowsOfPage(offset, limit, Cardinality(StoredRows))
         /\ IsInjective(data)
         /\ \A i \in DOMAIN data : \E r \in StoredRows :
              /\ data[i] = r
              /\ Cardinality(Newer(r)) < offset + i /\ offset + i <= Cardinality(Ahead(r))
<1> DEFINE data == Slice(s, offset, limit)
<1>1. /\ Len(s) = Cardinality(StoredRows) /\ s \in Seq(Rows)
      /\ \A i, k \in 1 .. Len(s) : s[i] = s[k] => i = k
  BY OrderShape DEF TableOK
<1>2. /\ data \in Seq(Rows) /\ Len(data) = RowsOfPage(offset, limit, Len(s))
      /\ \A i \in 1 .. Len(data) : offset + i \in 1 .. Len(s) /\ data[i] = s[offset + i]
  BY <1>1, SliceShape
<1> HIDE DEF data
<1>3. DOMAIN data = 1 .. Len(data) /\ Len(data) \in Nat
  BY <1>2, LenProperties
<1>4. IsInjective(data)
  BY <1>1, <1>2, <1>3 DEF IsInjective
<1>5. ASSUME NEW i \in DOMAIN data
      PROVE  \E r \in StoredRows : /\ data[i] = r
                                   /\ Cardinality(Newer(r)) < offset + i
                                   /\ offset + i <= Cardinality(Ahead(r))
  <2>1. offset + i \in 1 .. Len(s) /\ data[i] = s[offset + i]
    BY <1>2, <1>3
  <2> QED BY <2>1, PlaceBounds DEF TableOK
<1> QED BY <1>1, <1>2, <1>4, <1>5 DEF data

\* What is seen after one more page.
LEMMA SeenAfter ==
  ASSUME NEW S, NEW s \in Seq(S), NEW t \in Seq(S)
  PROVE  /\ ToSet(s \o t) = ToSet(s) \cup ToSet(t)
         /\ IsInjective(s) /\ IsInjective(t) /\ ToSet(s) \cap ToSet(t) = {} => IsInjective(s \o t)
<1> DEFINE u == s \o t
<1>1. /\ Len(s) \in Nat /\ DOMAIN s = 1 .. Len(s)
      /\ Len(t) \in Nat /\ DOMAIN t = 1 .. Len(t)
  BY LenProperties
<1>2. /\ u \in Seq(S) /\ Len(u) = Len(s) + Len(t)
      /\ \A i \in 1 .. Len(s) + Len(t) : u[i] = IF i <= Len(s) THEN s[i] ELSE t[i - Len(s)]
  BY ConcatProperties
<1> HIDE DEF u
<1>3. DOMAIN u = 1 .. Len(s) + Len(t)
  BY <1>2, LenProperties
<1>4. \A i \in 1 .. Len(s) : i \in DOMAIN u /\ u[i] = s[i]
  BY <1>1, <1>2, <1>3
<1>5. \A i \in 1 .. Len(t) : Len(s) + i \in DOMAIN u /\ u[Len(s) + i] = t[i]
  <2> SUFFICES ASSUME NEW i \in 1 .. Len(t)
               PROVE  Len(s) + i \in DOMAIN u /\ u[Len(s) + i] = t[i]
    OBVIOUS
  <2>1. Len(s) + i \in 1 .. Len(s) + Len(t) /\ ~(Len(s) + i <= Len(s)) /\ Len(s) + i - Len(s) = i
    BY <1>1
  <2> QED BY <1>2, <1>3, <2>1
<1>6. \A i \in DOMAIN u : \/ i \in 1 .. Len(s) /\ u[i] = s[i]
                          \/ i - Len(s) \in 1 .. Len(t) /\ u[i] = t[i - Len(s)]
  BY <1>1, <1>2, <1>3
<1>7. ToSet(u) = ToSet(s) \cup ToSet(t)
  <2>1. ASSUME NEW i \in DOMAIN u PROVE u[i] \in ToSet(s) \cup ToSet(t)
    BY <1>1, <1>6 DEF ToSet
  <2>2. ASSUME NEW i \in 1 .. Len(s) PROVE s[i] \in ToSet(u)
    BY <1>4 DEF ToSet
  <2>3. ASSUME NEW i \in 1 .. Len(t) PROVE t[i] \in ToSet(u)
    BY <1>5 DEF ToSet
  <2> QED BY <1>1, <2>1, <2>2, <2>3 DEF ToSet
<1>8. ASSUME IsInjective(s), IsInjective(t), ToSet(s) \cap ToSet(t) = {},
             NEW i \in DOMAIN u, NEW k \in DOMAIN u, u[i] = u[k]
      PROVE  i = k
  <2>1. \A a \in 1 .. Len(s), b \in 1 .. Len(t) : s[a] # t[b]
    BY <1>1, <1>8 DEF ToSet
  <2>2. CASE i \in 1 .. Len(s) /\ u[i] = s[i]
    BY <1>1, <1>6, <1>8, <2>1, <2>2 DEF IsInjective
  <2>3. CASE i - Len(s) \in 1 .. Len(t) /\ u[i] = t[i - Len(s)]
    <3>1. k - Len(s) \in 1 .. Len(t) /\ u[k] = t[k - Len(s)]
      BY <1>6, <1>8, <2>1, <2>3
    <3>2. i - Len(s) = k - Len(s)
      BY <1>1, <1>8, <2>3, <3>1 DEF IsInjective
    <3> QED BY <1>1, <1>3, <3>2
  <2> QED BY <1>6, <2>2, <2>3
<1> QED BY <1>7, <1>8 DEF u, IsInjective

-----------------------------------------------------------------------------
(* What rows that come and go do to the table and the ranks. *)

LEMMA TableAfterInsert ==
  ASSUME TypeOK, TableOK, NEW r \in Rows, NEW time \in 1 .. MaxTime, Insert(r, time)
  PROVE  /\ created' \in [Rows -> 0 .. MaxTime] /\ used' \subseteq Rows
         /\ TableOK'
         /\ \A q \in StoredRows : q \in StoredRows' /\ created'[q] = created[q]
         /\ \A q \in StoredRows : {Rank(q), Rank(q)'} \subseteq Nat /\ Rank(q)' >= Rank(q)
<1> USE DEF TypeOK, TableOK
<1>1. r \notin StoredRows
  BY DEF Insert
<1>2. /\ created' \in [Rows -> 0 .. MaxTime] /\ used' = used \cup {r} /\ used' \subseteq Rows
      /\ StoredRows' = StoredRows \cup {r}
      /\ \A q \in StoredRows : created'[q] = created[q]
  BY <1>1, BoundAssumption DEF Insert, StoredRows, Absent
<1>3. TableOK'
  BY <1>2, FS_AddElement
<1>4. ASSUME NEW q \in StoredRows PROVE {Rank(q), Rank(q)'} \subseteq Nat /\ Rank(q)' >= Rank(q)
  <2>1. Ahead(q) \subseteq Ahead(q)' /\ Ahead(q)' \subseteq StoredRows'
    BY <1>2 DEF Ahead
  <2>2. IsFiniteSet(Ahead(q)')
    BY <1>3, <2>1, FS_Subset
  <2>3. /\ Cardinality(Ahead(q)) <= Cardinality(Ahead(q)')
        /\ IsFiniteSet(Ahead(q))
    BY <2>1, <2>2, FS_Subset
  <2>4. Cardinality(Ahead(q)) \in Nat /\ Cardinality(Ahead(q)') \in Nat
    BY <2>2, <2>3, FS_CardinalityType
  <2> QED BY <2>3, <2>4 DEF Rank
<1> QED BY <1>2, <1>3, <1>4

LEMMA TableAfterDelete ==
  ASSUME TypeOK, TableOK, NEW r \in Rows, Delete(r)
  PROVE  /\ created' \in [Rows -> 0 .. MaxTime] /\ used' \subseteq Rows
         /\ TableOK'
         /\ StoredRows' = StoredRows \ {r}
         /\ \A q \in StoredRows' : {Rank(q), Rank(q)'} \subseteq Nat /\ Rank(q)' <= Rank(q)
<1> USE DEF TypeOK, TableOK
<1>1. /\ created' \in [Rows -> 0 .. MaxTime] /\ used' = used
      /\ StoredRows' = StoredRows \ {r}
      /\ \A q \in StoredRows' : created'[q] = created[q]
  BY BoundAssumption DEF Delete, StoredRows, Absent
<1>2. TableOK'
  BY <1>1, FS_RemoveElement
<1>3. ASSUME NEW q \in StoredRows' PROVE {Rank(q), Rank(q)'} \subseteq Nat /\ Rank(q)' <= Rank(q)
  <2>1. Ahead(q)' \subseteq Ahead(q) /\ Ahead(q) \subseteq StoredRows
    BY <1>1, <1>3 DEF Ahead
  <2>2. IsFiniteSet(Ahead(q))
    BY <2>1, FS_Subset
  <2>3. Cardinality(Ahead(q)') <= Cardinality(Ahead(q)) /\ IsFiniteSet(Ahead(q)')
    BY <2>1, <2>2, FS_Subset
  <2>4. Cardinality(Ahead(q)) \in Nat /\ Cardinality(Ahead(q)') \in Nat
    BY <2>2, <2>3, FS_CardinalityType
  <2> QED BY <2>3, <2>4 DEF Rank
<1> QED BY <1>1, <1>2, <1>3

\* A stored row has at least itself ahead, and at most the table.
LEMMA RankBounds ==
  ASSUME TypeOK, TableOK, NEW r \in StoredRows
  PROVE  Rank(r) \in Nat /\ Rank(r) >= 1 /\ Rank(r) <= Cardinality(StoredRows)
<1>1. Ahead(r) \subseteq StoredRows /\ r \in Ahead(r)
  BY BoundAssumption DEF Ahead, TypeOK, StoredRows
<1>2. IsFiniteSet(Ahead(r)) /\ Cardinality(Ahead(r)) <= Cardinality(StoredRows)
  BY <1>1, FS_Subset DEF TableOK
<1>3. Cardinality(Ahead(r)) # 0
  BY <1>1, <1>2, FS_EmptySet
<1>4. Cardinality(Ahead(r)) \in Nat
  BY <1>2, FS_CardinalityType
<1> QED BY <1>2, <1>3, <1>4 DEF Rank

-----------------------------------------------------------------------------
(* What the statements of a request do to the walk. *)

\* A walk that has counted keeps its other fields.
LEMMA Counted ==
  ASSUME TableOK, NEW page \in MinInt .. MaxInt, NEW limit \in Int, NEW w \in List,
         Count(page, limit, w)
  PROVE  /\ list' \in List
         /\ \/ /\ list'.pc = "select"
               /\ list'.page = Page(page) /\ list'.limit = Limit(limit)
               /\ list'.total = Cardinality(StoredRows)
            \/ list'.pc = "failed" /\ list'.page = w.page /\ list'.limit = w.limit
         /\ list'.data = w.data /\ list'.seen = w.seen /\ list'.stay = w.stay
         /\ list'.first = w.first
         /\ list'.grown = w.grown /\ list'.shrunk = w.shrunk /\ list'.tied = w.tied
<1>1. Page(page) \in 1 .. MaxInt /\ Limit(limit) \in 1 .. MaxLimit
  BY Corrections
<1>2. Cardinality(StoredRows) \in Nat
  BY FS_CardinalityType DEF TableOK
<1>3. CASE list' = [w EXCEPT !.pc = "select", !.page = Page(page), !.limit = Limit(limit),
                             !.total = Cardinality(StoredRows), !.split = FALSE, !.moved = FALSE]
  BY <1>1, <1>2, <1>3 DEF List
<1>4. CASE list' = [w EXCEPT !.pc = "failed"]
  BY <1>4 DEF List
<1> QED BY <1>3, <1>4 DEF Count

\* A walk starts with nothing seen.
LEMMA Asked ==
  ASSUME TypeOK, TableOK, NEW page \in MinInt .. MaxInt, NEW limit \in Limits, Ask(page, limit)
  PROVE  /\ list' \in List
         /\ list'.pc \in {"select", "failed"}
         /\ list'.seen = <<>>
         /\ list'.pc = "select" => /\ list'.page = list'.first
                                   /\ list'.total = Cardinality(StoredRows)
                                   /\ list'.stay = StoredRows
<1> DEFINE w == [list EXCEPT !.first = Page(page), !.seen = <<>>, !.stay = StoredRows,
                             !.grown = FALSE, !.shrunk = FALSE, !.tied = FALSE, !.data = <<>>]
<1>1. Page(page) \in 1 .. MaxInt
  BY Corrections
<1>2. w \in List /\ w.first = Page(page) /\ w.seen = <<>> /\ w.stay = StoredRows
  <2>1. <<>> \in Seq(Rows) /\ StoredRows \subseteq Rows
    BY DEF StoredRows
  <2> QED BY <1>1, <2>1 DEF List, TypeOK
<1>4. Count(page, limit, w)
  BY DEF Ask
<1>3. limit \in Int
  BY BoundAssumption
<1> HIDE DEF w
<1> QED BY <1>2, <1>3, <1>4, Counted

\* The walk goes on behind the page that was read.
LEMMA WentOn ==
  ASSUME TypeOK, TableOK, NextPage
  PROVE  /\ list' \in List
         /\ list.pc = "answered"
         /\ \/ /\ list'.pc = "select" /\ list'.limit = list.limit
               /\ Exact' = Exact + list.limit
               /\ list'.total = Cardinality(StoredRows)
            \/ list'.pc = "failed" /\ Exact' = Exact
         /\ list'.data = list.data /\ list'.seen = list.seen /\ list'.stay = list.stay
         /\ list'.first = list.first
         /\ list'.grown = list.grown /\ list'.shrunk = list.shrunk /\ list'.tied = list.tied
<1>1. /\ list.page \in 1 .. MaxInt /\ list.page < MaxInt
      /\ list.limit \in 1 .. MaxLimit
      /\ Count(list.page + 1, list.limit, list)
  BY DEF NextPage, TypeOK, List
<1>2. list.page + 1 \in 1 .. MaxInt /\ list.page + 1 \in MinInt .. MaxInt /\ list.limit \in Int
  BY <1>1, BoundAssumption DEF MinInt
<1>3. Page(list.page + 1) = list.page + 1 /\ Limit(list.limit) = list.limit
  BY <1>1, <1>2, Corrections
<1>4. list.page * list.limit = (list.page - 1) * list.limit + list.limit
  BY <1>1, BoundAssumption
<1>5. /\ list' \in List
      /\ \/ /\ list'.pc = "select"
            /\ list'.page = list.page + 1 /\ list'.limit = list.limit
            /\ list'.total = Cardinality(StoredRows)
         \/ list'.pc = "failed" /\ list'.page = list.page /\ list'.limit = list.limit
      /\ list'.data = list.data /\ list'.seen = list.seen /\ list'.stay = list.stay
      /\ list'.first = list.first
      /\ list'.grown = list.grown /\ list'.shrunk = list.shrunk /\ list'.tied = list.tied
  BY <1>1, <1>2, <1>3, Counted DEF TypeOK
<1>6. list.pc = "answered"
  BY DEF NextPage
<1>7. \/ list'.pc = "select" /\ Exact' = Exact + list.limit
      \/ list'.pc = "failed" /\ Exact' = Exact
  <2>1. ASSUME list'.page = list.page + 1, list'.limit = list.limit
        PROVE  Exact' = Exact + list.limit
    <3>1. Exact' = list.page * list.limit
      BY <1>1, <2>1 DEF Exact
    <3> QED BY <1>4, <3>1 DEF Exact
  <2>2. ASSUME list'.page = list.page, list'.limit = list.limit
        PROVE  Exact' = Exact
    BY <2>2 DEF Exact
  <2> QED BY <1>5, <2>1, <2>2
<1> QED BY <1>5, <1>6, <1>7

LEMMA ExactType == TypeOK => Exact \in Nat /\ list.limit \in 1 .. MaxLimit /\ list.limit \in Nat \ {0}
<1>1. ASSUME NEW i \in Nat, NEW k \in Nat PROVE i * k \in Nat
  BY <1>1
<1>2. TypeOK => list.page \in 1 .. MaxInt /\ list.limit \in 1 .. MaxLimit
  BY DEF TypeOK, List
<1>3. TypeOK => list.page - 1 \in Nat /\ list.limit \in Nat \ {0}
  BY <1>2, BoundAssumption
<1> QED BY <1>1, <1>2, <1>3 DEF Exact

\* The fields that neither the second statement nor a change of the table touches.
Kept == /\ list'.page = list.page /\ list'.limit = list.limit /\ list'.first = list.first
        /\ list'.total = list.total

LEMMA ExactKept == Kept => Exact' = Exact
BY DEF Kept, Exact

\* A request reads the page of its parameters from one result of the query.
LEMMA Selected ==
  ASSUME TypeOK, TableOK, Select
  PROVE  /\ list' \in List /\ list.pc = "select" /\ Kept
         /\ list'.stay = list.stay /\ list'.grown = list.grown /\ list'.shrunk = list.shrunk
         /\ UNCHANGED <<created, used>>
         /\ \/ /\ list'.pc = "answered"
               /\ list'.tied = FALSE => list.tied = FALSE /\ Distinct
               /\ list'.data \in Seq(Rows) /\ list'.split = list.moved
               /\ list'.seen = list.seen \o list'.data
               /\ Exact <= MaxInt => \E s \in Orders : list'.data = Slice(s, Exact, list.limit)
            \/ /\ list'.pc \in {"refused", "failed"}
               /\ list'.seen = list.seen /\ list'.tied = list.tied
               /\ list'.pc = "refused" => Exact > MaxInt
<1> DEFINE offset == Offset(list.page, list.limit)
<1>1. offset \in Int
  <2>1. ASSUME NEW n \in Int PROVE Wrap(n) \in Int
    BY BoundAssumption DEF Wrap, MinInt
  <2> QED BY <2>1, ExactType DEF Offset, Exact
<1>2. Exact <= MaxInt => offset = Exact
  BY ExactType, WrapFits, BoundAssumption DEF Offset, Exact, MinInt
<1>3. list.pc = "select" /\ UNCHANGED <<created, used>>
  BY DEF Select
<1>4. ASSUME NEW s \in Orders, offset >= 0,
             list' = [list EXCEPT !.pc = "answered", !.data = Slice(s, offset, list.limit),
                                  !.seen = @ \o Slice(s, offset, list.limit),
                                  !.tied = @ \/ ~Distinct, !.split = list.moved, !.moved = FALSE]
      PROVE  /\ list' \in List /\ Kept
             /\ list'.stay = list.stay /\ list'.grown = list.grown /\ list'.shrunk = list.shrunk
             /\ list'.pc = "answered" /\ list'.split = list.moved
             /\ list'.tied = FALSE => list.tied = FALSE /\ Distinct
             /\ list'.data \in Seq(Rows)
             /\ list'.seen = list.seen \o list'.data
             /\ Exact <= MaxInt => \E t \in Orders : list'.data = Slice(t, Exact, list.limit)
  <2> DEFINE data == Slice(s, offset, list.limit)
  <2>1. s \in Seq(Rows)
    BY OrderShape DEF TableOK
  <2>2. data \in Seq(Rows)
    BY <1>1, <1>4, <2>1, SliceShape, ExactType
  <2>3. list.seen \o data \in Seq(Rows) /\ (list.tied \/ ~Distinct) \in BOOLEAN
    BY <2>2, ConcatProperties DEF TypeOK, List
  <2>4. /\ list'.data = data /\ list'.seen = list.seen \o data /\ list'.pc = "answered"
        /\ list'.tied = (list.tied \/ ~Distinct)
        /\ list'.stay = list.stay /\ list'.grown = list.grown /\ list'.shrunk = list.shrunk
        /\ list'.split = list.moved /\ Kept
    BY <1>4 DEF TypeOK, List, Kept
  <2>5. Exact <= MaxInt => data = Slice(s, Exact, list.limit)
    BY <1>2
  <2>6. list' \in List
    <3> HIDE DEF data
    <3> QED BY <1>4, <2>2, <2>3 DEF TypeOK, List, data
  <2> HIDE DEF data
  <2>7. list'.tied = FALSE => list.tied = FALSE /\ Distinct
    BY <2>4 DEF TypeOK, List
  <2> QED BY <2>2, <2>4, <2>5, <2>6, <2>7
<1>5. ASSUME NEW pc \in {"refused", "failed"}, list' = [list EXCEPT !.pc = pc]
      PROVE  /\ list' \in List /\ Kept
             /\ list'.stay = list.stay /\ list'.grown = list.grown /\ list'.shrunk = list.shrunk
             /\ list'.pc = pc /\ list'.seen = list.seen /\ list'.tied = list.tied
  BY <1>5 DEF TypeOK, List, Kept
<1>6. CASE \E s \in Orders :
             /\ offset >= 0
             /\ list' = [list EXCEPT !.pc = "answered", !.data = Slice(s, offset, list.limit),
                                     !.seen = @ \o Slice(s, offset, list.limit),
                                     !.tied = @ \/ ~Distinct, !.split = list.moved, !.moved = FALSE]
  BY <1>3, <1>4, <1>6
<1>7. CASE offset < 0 /\ list' = [list EXCEPT !.pc = "refused"]
  <2>1. Exact > MaxInt
    BY <1>2, <1>7, ExactType, BoundAssumption
  <2> QED BY <1>3, <1>5, <1>7, <2>1
<1>8. CASE list' = [list EXCEPT !.pc = "failed"]
  BY <1>3, <1>5, <1>8
<1> QED BY <1>6, <1>7, <1>8 DEF Select

\* A row that comes or goes during a walk is noted in it.
LEMMA NotedInsert ==
  ASSUME TypeOK, NEW r \in Rows, NEW time \in 1 .. MaxTime, Insert(r, time)
  PROVE  /\ list' \in List /\ Kept
         /\ list'.pc = list.pc /\ list'.data = list.data /\ list'.seen = list.seen
         /\ list'.stay = list.stay /\ list'.shrunk = list.shrunk /\ list'.tied = list.tied
         /\ IF Walking THEN list'.grown /\ list'.moved
            ELSE list'.grown = list.grown /\ list'.moved = list.moved
<1>1. CASE Walking
  <2>1. list' = [list EXCEPT !.grown = TRUE, !.moved = TRUE]
    BY <1>1 DEF Insert
  <2>2. list' \in List
    BY <2>1 DEF TypeOK, List
  <2> QED BY <1>1, <2>1, <2>2 DEF TypeOK, List, Kept
<1>2. CASE ~Walking
  BY <1>2 DEF Insert, TypeOK, List, Kept
<1> QED BY <1>1, <1>2

LEMMA NotedDelete ==
  ASSUME TypeOK, NEW r \in Rows, Delete(r)
  PROVE  /\ list' \in List /\ Kept
         /\ list'.pc = list.pc /\ list'.data = list.data /\ list'.seen = list.seen
         /\ list'.grown = list.grown /\ list'.tied = list.tied
         /\ IF Walking THEN list'.shrunk /\ list'.moved
            ELSE /\ list'.shrunk = list.shrunk /\ list'.moved = list.moved
                 /\ list'.stay = list.stay
<1>1. CASE Walking
  <2>1. list.stay \ {r} \in SUBSET Rows
    BY DEF TypeOK, List
  <2>2. list' = [list EXCEPT !.shrunk = TRUE, !.moved = TRUE, !.stay = list.stay \ {r}]
    BY <1>1 DEF Delete
  <2>3. list' \in List
    BY <2>1, <2>2 DEF TypeOK, List
  <2> QED BY <1>1, <2>2, <2>3 DEF TypeOK, List, Kept
<1>2. CASE ~Walking
  BY <1>2 DEF Delete, TypeOK, List, Kept
<1> QED BY <1>1, <1>2

-----------------------------------------------------------------------------
(* The invariant, action by action. *)

LEMMA ListInitInv == Init => ListInv
<1> SUFFICES ASSUME Init PROVE ListInv
  OBVIOUS
<1>1. StoredRows = {}
  BY DEF Init, StoredRows
<1>2. TypeOK
  <2>1. <<>> \in Seq(Rows)
    OBVIOUS
  <2> QED BY <2>1, BoundAssumption DEF Init, TypeOK, List, Absent
<1>3. TableOK
  BY <1>1, FS_EmptySet DEF TableOK
<1>4. list.pc = "idle" /\ list.seen = <<>>
  BY DEF Init
<1> QED BY <1>2, <1>3, <1>4 DEF ListInv, PageOK, AllSeenBehind, NoneSeenBeyond, Walking, IsInjective

LEMMA AskInv ==
  ASSUME ListInv, NEW page \in MinInt .. MaxInt, NEW limit \in Limits, Ask(page, limit)
  PROVE  ListInv'
<1> USE DEF ListInv
<1>1. UNCHANGED <<created, used>>
  BY DEF Ask
<1>2. StoredRows' = StoredRows /\ \A r \in StoredRows : Rank(r)' = Rank(r)
  BY <1>1 DEF StoredRows, Rank, Ahead
<1>3. TypeOK' /\ TableOK'
  BY <1>1, <1>2, Asked DEF TypeOK, TableOK
<1>4. PageOK'
  BY <1>2, Asked DEF PageOK, Walking
<1>5. AllSeenBehind'
  <2> SUFFICES ASSUME list'.first = 1, list'.pc = "select"
               PROVE  /\ list'.stay \subseteq StoredRows'
                      /\ \A r \in list'.stay \ ToSet(list'.seen) : Rank(r)' > Frontier'
    BY Asked DEF AllSeenBehind, Walking
  <2>1. list'.page = 1 /\ list'.stay = StoredRows
    BY Asked
  <2>2. Exact' = 0
    BY <1>3, <2>1 DEF Exact, TypeOK, List
  <2>3. Frontier' = 0
    BY <2>2 DEF Frontier
  <2> QED BY <1>2, <2>1, <2>3, RankBounds
<1>6. NoneSeenBeyond'
  BY Asked DEF NoneSeenBeyond, IsInjective, ToSet
<1> QED BY <1>3, <1>4, <1>5, <1>6

LEMMA NextPageInv ==
  ASSUME ListInv, NextPage
  PROVE  ListInv'
<1> USE DEF ListInv
<1>1. UNCHANGED <<created, used>>
  BY DEF NextPage
<1>2. StoredRows' = StoredRows /\ \A r \in StoredRows : Rank(r)' = Rank(r)
  BY <1>1 DEF StoredRows, Rank, Ahead
<1>3. TypeOK' /\ TableOK'
  BY <1>1, <1>2, WentOn DEF TypeOK, TableOK
<1>4. PageOK'
  BY <1>2, WentOn DEF PageOK, Walking
<1>5. Exact <= MaxInt \/ ~(Exact' <= MaxInt)
  BY WentOn, ExactType, BoundAssumption
<1>6. list'.pc = "select" => Frontier' = Frontier
  BY WentOn DEF Frontier
<1>7. AllSeenBehind'
  BY <1>2, <1>5, <1>6, WentOn DEF AllSeenBehind, Walking
<1>8. NoneSeenBeyond'
  BY <1>2, <1>5, <1>6, WentOn DEF NoneSeenBeyond, Walking
<1> QED BY <1>3, <1>4, <1>7, <1>8

LEMMA InsertInv ==
  ASSUME ListInv, NEW r \in Rows, NEW time \in 1 .. MaxTime, Insert(r, time)
  PROVE  ListInv'
<1> USE DEF ListInv
<1>1. TypeOK' /\ TableOK'
  BY TableAfterInsert, NotedInsert DEF TypeOK
<1>2. Exact' = Exact /\ Frontier' = Frontier
  BY ExactKept, NotedInsert DEF Frontier, Kept
<1>3. PageOK'
  BY <1>2, NotedInsert DEF PageOK, Walking, Kept
<1>4. AllSeenBehind'
  <2> SUFFICES ASSUME list.first = 1, ~list.shrunk, ~list.tied, Exact <= MaxInt, Walking
               PROVE  /\ list.stay \subseteq StoredRows'
                      /\ \A q \in list.stay \ ToSet(list.seen) : Rank(q)' > Frontier
                      /\ list.pc = "answered" /\ Len(list.data) < list.limit =>
                           list.stay \subseteq ToSet(list.seen)
    BY <1>2, NotedInsert DEF AllSeenBehind, Walking, Kept
  <2>1. list.stay \subseteq StoredRows
    BY DEF AllSeenBehind
  <2>2. list.stay \subseteq StoredRows'
    BY <2>1, TableAfterInsert
  <2>3. ASSUME NEW q \in list.stay \ ToSet(list.seen) PROVE Rank(q)' > Frontier
    <3>1. Rank(q) > Frontier /\ Rank(q)' >= Rank(q)
      BY <2>1, TableAfterInsert DEF AllSeenBehind
    <3>2. Rank(q) \in Nat /\ Rank(q)' \in Nat /\ Frontier \in Nat
      BY <2>1, TableAfterInsert, ExactType DEF Frontier
    <3> QED BY <3>1, <3>2
  <2> QED BY <2>2, <2>3 DEF AllSeenBehind
<1>5. NoneSeenBeyond'
  BY <1>2, NotedInsert DEF NoneSeenBeyond, Walking
<1> QED BY <1>1, <1>3, <1>4, <1>5

LEMMA DeleteInv ==
  ASSUME ListInv, NEW r \in Rows, Delete(r)
  PROVE  ListInv'
<1> USE DEF ListInv
<1>1. TypeOK' /\ TableOK'
  BY TableAfterDelete, NotedDelete DEF TypeOK
<1>2. Exact' = Exact /\ Frontier' = Frontier
  BY ExactKept, NotedDelete DEF Frontier, Kept
<1>3. PageOK'
  BY <1>2, NotedDelete DEF PageOK, Walking, Kept
<1>4. AllSeenBehind'
  BY <1>2, NotedDelete DEF AllSeenBehind, Walking
<1>5. NoneSeenBeyond'
  <2> SUFFICES ASSUME ~list.grown, ~list.tied, Exact <= MaxInt
               PROVE  /\ IsInjective(list.seen)
                      /\ Walking =>
                           \A q \in ToSet(list.seen) \cap StoredRows' : Rank(q)' <= Frontier
    BY <1>2, NotedDelete DEF NoneSeenBeyond, Walking
  <2>1. ASSUME Walking, NEW q \in ToSet(list.seen) \cap StoredRows' PROVE Rank(q)' <= Frontier
    <3>1. Rank(q) <= Frontier /\ Rank(q)' <= Rank(q)
      BY <2>1, TableAfterDelete DEF NoneSeenBeyond
    <3>2. Rank(q) \in Nat /\ Rank(q)' \in Nat /\ Frontier \in Nat
      BY <2>1, TableAfterDelete, ExactType DEF Frontier
    <3> QED BY <3>1, <3>2
  <2> QED BY <2>1 DEF NoneSeenBeyond
<1> QED BY <1>1, <1>3, <1>4, <1>5

\* What a page adds: where its rows lie in the order, and how many there are.
LEMMA PageRanks ==
  ASSUME TypeOK, TableOK, Distinct, NEW s \in Orders
  PROVE  LET data == Slice(s, Exact, list.limit) IN
         /\ IsInjective(data)
         /\ \A r \in ToSet(data) : r \in StoredRows /\ Rank(r) > Exact
                                   /\ Rank(r) <= Exact + list.limit
         /\ \A r \in StoredRows : Rank(r) > Exact => \/ r \in ToSet(data)
                                                     \/ /\ Rank(r) > Exact + list.limit
                                                        /\ Len(data) = list.limit
<1> DEFINE data == Slice(s, Exact, list.limit)
<1>1. Exact \in Nat /\ list.limit \in Nat \ {0}
  BY ExactType
<1>2. /\ s \in [1 .. Len(s) -> StoredRows] /\ s \in Seq(Rows) /\ Len(s) \in Nat
      /\ \A i, k \in 1 .. Len(s) : s[i] = s[k] => i = k
      /\ \A r \in StoredRows : \E i \in 1 .. Len(s) : s[i] = r
      /\ \A i \in 1 .. Len(s) : Rank(s[i]) = i
  BY OrderShape, RankIsPlace DEF TableOK
<1>3. /\ data \in Seq(Rows) /\ Len(data) = RowsOfPage(Exact, list.limit, Len(s))
      /\ \A i \in 1 .. Len(data) : Exact + i \in 1 .. Len(s) /\ data[i] = s[Exact + i]
      /\ \A i \in 1 .. Len(s) : Exact < i /\ i <= Exact + list.limit => s[i] \in ToSet(data)
  BY <1>1, <1>2, SliceShape
<1> HIDE DEF data
<1>4. DOMAIN data = 1 .. Len(data) /\ Len(data) \in Nat
  BY <1>3, LenProperties
<1>8. /\ Len(data) <= list.limit
      /\ \A i \in 1 .. Len(s) : i > Exact + list.limit => Len(data) = list.limit
  <2>1. \A n, o \in Nat : \A l \in Nat \ {0} :
           RowsOfPage(o, l, n) <= l /\ \A i \in 1 .. n : i > o + l => RowsOfPage(o, l, n) = l
    BY DEF RowsOfPage
  <2>2. Len(s) \in Nat /\ Len(data) = RowsOfPage(Exact, list.limit, Len(s))
    BY <1>2, <1>3
  <2>3. /\ RowsOfPage(Exact, list.limit, Len(s)) <= list.limit
        /\ \A i \in 1 .. Len(s) :
             i > Exact + list.limit => RowsOfPage(Exact, list.limit, Len(s)) = list.limit
    BY <1>1, <2>1, <2>2
  <2> QED BY <2>2, <2>3
<1>5. IsInjective(data)
  BY <1>1, <1>2, <1>3, <1>4 DEF IsInjective
<1>6. ASSUME NEW r \in ToSet(data)
      PROVE  r \in StoredRows /\ Rank(r) > Exact /\ Rank(r) <= Exact + list.limit
  <2>1. PICK i \in 1 .. Len(data) : r = data[i]
    BY <1>4 DEF ToSet
  <2>2. r = s[Exact + i] /\ Exact + i \in 1 .. Len(s)
    BY <1>3, <2>1
  <2> QED BY <1>1, <1>2, <1>4, <1>8, <2>2
<1>7. ASSUME NEW r \in StoredRows, Rank(r) > Exact, r \notin ToSet(data)
      PROVE  Rank(r) > Exact + list.limit /\ Len(data) = list.limit
  <2>1. PICK i \in 1 .. Len(s) : s[i] = r /\ Rank(r) = i
    BY <1>2
  <2>2. i > Exact + list.limit
    BY <1>1, <1>2, <1>3, <1>7, <2>1
  <2> QED BY <1>8, <2>1, <2>2
<1> QED BY <1>5, <1>6, <1>7 DEF data

LEMMA SelectInv ==
  ASSUME ListInv, Select
  PROVE  ListInv'
<1> USE DEF ListInv
<1>1. StoredRows' = StoredRows /\ \A r \in StoredRows : Rank(r)' = Rank(r)
  BY Selected DEF StoredRows, Rank, Ahead
<1>2. TypeOK' /\ TableOK'
  BY <1>1, Selected DEF TypeOK, TableOK
<1>3. Exact' = Exact /\ Exact \in Nat /\ list.limit \in Nat \ {0}
  BY ExactKept, ExactType, Selected
<1>4. PageOK'
  <2>1. ASSUME list'.pc = "answered", Exact <= MaxInt
        PROVE  /\ Len(list'.data) = RowsOfPage(Exact, list.limit, Cardinality(StoredRows))
               /\ IsInjective(list'.data)
               /\ \A i \in DOMAIN list'.data : \E r \in StoredRows :
                    /\ list'.data[i] = r
                    /\ Cardinality(Newer(r)) < Exact + i /\ Exact + i <= Cardinality(Ahead(r))
    <3>1. PICK s \in Orders : list'.data = Slice(s, Exact, list.limit)
      BY <2>1, Selected
    <3> QED BY <1>3, <3>1, SliceIsRight
  <2>2. \A r \in StoredRows : Newer(r)' = Newer(r) /\ Ahead(r)' = Ahead(r)
    BY Selected DEF Newer, Ahead, StoredRows
  <2>3. list'.pc = "answered" /\ ~list'.split => list'.total = Cardinality(StoredRows)
    BY Selected DEF PageOK, Walking, Kept
  <2> QED BY <1>1, <1>3, <2>1, <2>2, <2>3, Selected DEF PageOK, Walking, Kept
<1>5. ASSUME Exact <= MaxInt, ~list'.tied, list'.pc = "answered"
      PROVE  /\ ~list.tied
             /\ Frontier = Exact /\ Frontier' = Exact + list.limit
             /\ ToSet(list'.seen) = ToSet(list.seen) \cup ToSet(list'.data)
             /\ list.seen \in Seq(Rows) /\ list'.data \in Seq(Rows)
             /\ list'.seen = list.seen \o list'.data
             /\ Distinct /\ \E s \in Orders : list'.data = Slice(s, Exact, list.limit)
  <2>1. list'.tied = FALSE
    BY <1>2, <1>5 DEF TypeOK, List
  <2>2. Frontier = Exact /\ Frontier' = Exact + list.limit
    BY <1>3, <1>5, Selected DEF Frontier, Kept
  <2>3. list.seen \in Seq(Rows) /\ list'.data \in Seq(Rows) /\ list'.seen = list.seen \o list'.data
    BY <1>5, Selected DEF TypeOK, List
  <2>4. ToSet(list.seen \o list'.data) = ToSet(list.seen) \cup ToSet(list'.data)
    BY <2>3, SeenAfter
  <2>5. Distinct /\ ~list.tied /\ \E s \in Orders : list'.data = Slice(s, Exact, list.limit)
    BY <1>5, <2>1, Selected
  <2> QED BY <2>2, <2>3, <2>4, <2>5
<1>6. AllSeenBehind'
  <2> SUFFICES ASSUME list.first = 1, ~list.shrunk, ~list'.tied, Exact <= MaxInt,
                      list'.pc = "answered"
               PROVE  /\ list.stay \subseteq StoredRows
                      /\ \A r \in list.stay \ ToSet(list'.seen) :
                           Rank(r) > Exact + list.limit /\ ~(Len(list'.data) < list.limit)
    BY <1>1, <1>3, <1>5, Selected DEF AllSeenBehind, Walking, Kept
  <2>1. /\ list.stay \subseteq StoredRows
        /\ \A r \in list.stay \ ToSet(list.seen) : Rank(r) > Exact
    BY <1>5, Selected DEF AllSeenBehind, Walking
  <2>2. PICK s \in Orders : list'.data = Slice(s, Exact, list.limit)
    BY <1>5
  <2>3. \A r \in StoredRows : Rank(r) > Exact =>
           \/ r \in ToSet(list'.data)
           \/ Rank(r) > Exact + list.limit /\ Len(list'.data) = list.limit
    BY <1>5, <2>2, PageRanks
  <2>4. \A r \in list.stay \ ToSet(list'.seen) :
           Rank(r) > Exact + list.limit /\ Len(list'.data) = list.limit
    BY <1>5, <2>1, <2>3
  <2> QED BY <1>3, <2>1, <2>4
<1>7. NoneSeenBeyond'
  <2>1. CASE list'.pc # "answered"
    BY <1>3, <2>1, Selected DEF NoneSeenBeyond, Walking
  <2>2. ASSUME ~list.grown, ~list'.tied, Exact <= MaxInt, list'.pc = "answered"
        PROVE  /\ IsInjective(list'.seen)
               /\ \A r \in ToSet(list'.seen) \cap StoredRows : Rank(r) <= Exact + list.limit
    <3>1. /\ IsInjective(list.seen)
          /\ \A r \in ToSet(list.seen) \cap StoredRows : Rank(r) <= Exact /\ Rank(r) \in Nat
      BY <1>5, <2>2, RankBounds, Selected DEF NoneSeenBeyond, Walking
    <3>2. PICK s \in Orders : list'.data = Slice(s, Exact, list.limit)
      BY <1>5, <2>2
    <3>3. /\ IsInjective(list'.data)
          /\ \A r \in ToSet(list'.data) : r \in StoredRows /\ Rank(r) > Exact
                                          /\ Rank(r) <= Exact + list.limit
      BY <1>5, <2>2, <3>2, PageRanks
    <3>4. ToSet(list.seen) \cap ToSet(list'.data) = {}
      BY <1>3, <3>1, <3>3
    <3>5. IsInjective(list.seen \o list'.data)
      BY <1>5, <2>2, <3>1, <3>3, <3>4, SeenAfter
    <3>6. \A r \in ToSet(list'.seen) \cap StoredRows : Rank(r) <= Exact + list.limit
      <4>1. \A r \in ToSet(list.seen) \cap StoredRows : Rank(r) <= Exact + list.limit
        BY <1>3, <3>1
      <4>2. ToSet(list'.seen) = ToSet(list.seen) \cup ToSet(list'.data)
        BY <1>5, <2>2
      <4> QED BY <3>3, <4>1, <4>2
    <3> QED BY <1>5, <2>2, <3>5, <3>6
  <2> QED BY <1>1, <1>3, <1>5, <2>1, <2>2, Selected DEF NoneSeenBeyond, Walking
<1> QED BY <1>2, <1>4, <1>6, <1>7

LEMMA ListNextInv == ListInv /\ [Next]_vars => ListInv'
<1> SUFFICES ASSUME ListInv, [Next]_vars PROVE ListInv'
  OBVIOUS
<1>1. CASE UNCHANGED vars
  <2>1. list' = list /\ created' = created /\ used' = used
    BY <1>1 DEF vars
  <2>2. StoredRows' = StoredRows /\ Exact' = Exact /\ Frontier' = Frontier
    BY <2>1 DEF StoredRows, Exact, Frontier
  <2>3. \A r \in StoredRows : Rank(r)' = Rank(r) /\ Newer(r)' = Newer(r) /\ Ahead(r)' = Ahead(r)
    BY <2>1, <2>2 DEF Rank, Newer, Ahead
  <2>4. PageOK'
    BY <2>1, <2>2, <2>3 DEF ListInv, PageOK, Walking
  <2>5. AllSeenBehind' /\ NoneSeenBeyond'
    BY <2>1, <2>2, <2>3 DEF ListInv, AllSeenBehind, NoneSeenBeyond, Walking
  <2> QED BY <2>1, <2>2, <2>4, <2>5 DEF ListInv, TypeOK, TableOK
<1>2. CASE Next
  BY <1>2, AskInv, NextPageInv, SelectInv, InsertInv, DeleteInv DEF Next, Delete, StoredRows
<1> QED BY <1>1, <1>2

LEMMA ListInvariant == Spec => []ListInv
BY ListInitInv, ListNextInv, PTL DEF Spec

-----------------------------------------------------------------------------
\* The walk and its pages stay in their types: the corrected parameters never leave their
\* ranges, nor does the total.
THEOREM ListTypeSafe == Spec => []TypeOK
<1>1. ListInv => TypeOK
  BY DEF ListInv
<1> QED BY <1>1, ListInvariant, PTL

\* List answers the right page of the table that its SELECT met, as long as the offset
\* does not overflow: as many rows as it should have, none twice, and each in a place
\* that its created_at gives it, the newest first.  The total is right as well when no
\* row came or went between the two statements.
THEOREM PagesAreRight == Spec => []PageIsRight
<1>1. ListInv => PageIsRight
  BY ExactType, BoundAssumption DEF ListInv, PageOK, PageIsRight, Walking
<1> QED BY <1>1, ListInvariant, PTL

\* A walk through all pages misses no row that stays, when rows are only inserted.
THEOREM WalkMissesNothing == Spec => []NothingMissed
<1>1. ListInv => NothingMissed
  BY DEF ListInv, AllSeenBehind, NothingMissed, Walking
<1> QED BY <1>1, ListInvariant, PTL

\* A walk is given no row twice, when rows are only deleted.
THEOREM WalkRepeatsNothing == Spec => []NothingTwice
<1>1. ListInv => NothingTwice
  BY DEF ListInv, NoneSeenBeyond, NothingTwice
<1> QED BY <1>1, ListInvariant, PTL
=============================================================================
