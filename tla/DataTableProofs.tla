-------------------------- MODULE DataTableProofs ---------------------------
(***************************************************************************)
(* TLAPS proofs about the operators of DataTable, for any rows, columns    *)
(* and page size.                                                          *)
(***************************************************************************)
EXTENDS DataTable, FiniteSetTheorems, TLAPS

\* An item of a sequence over a set is in the set.
LEMMA Element == ASSUME NEW S, NEW s \in Seq(S), NEW n \in DOMAIN s PROVE s[n] \in S
  OBVIOUS

\* What the quotient of a division is.
LEMMA Division ==
    ASSUME NEW a \in Nat, NEW b \in Nat \ {0}
    PROVE  /\ a \div b \in Nat
           /\ b * (a \div b) <= a
           /\ a < b * (a \div b) + b
  OBVIOUS

\* A slice that comes before another ends where it starts or earlier.
LEMMA Slices ==
    ASSUME NEW b \in Nat \ {0}, NEW q \in Nat, NEW r \in Nat, q < r
    PROVE  (q + 1) * b <= r * b
  <1>1. PICK d \in Nat : r = q + 1 + d  BY r - q - 1 \in Nat
  <1>2. r * b = (q + 1) * b + d * b  BY <1>1
  <1>3. d * b \in Nat  OBVIOUS
  <1>   QED  BY <1>2, <1>3

\* The rows a search leaves can be counted.
LEMMA FilteredFinite ==
    ASSUME NEW t
    PROVE  /\ IsFiniteSet(Filtered(t))
           /\ Cardinality(Filtered(t)) \in 0 .. Len(Rows)
           /\ Filtered(t) = {} <=> Cardinality(Filtered(t)) = 0
  <1>1. DOMAIN Rows = 1 .. Len(Rows) /\ Len(Rows) \in Nat  BY TableAssumption
  <1>2. IsFiniteSet(1 .. Len(Rows)) /\ Cardinality(1 .. Len(Rows)) = Len(Rows)
    <2>1. /\ IsFiniteSet(1 .. Len(Rows))
          /\ Cardinality(1 .. Len(Rows)) = IF 1 > Len(Rows) THEN 0 ELSE Len(Rows) - 1 + 1
      BY <1>1, FS_Interval
    <2>   QED  BY <1>1, <2>1
  <1>3. Filtered(t) \subseteq 1 .. Len(Rows)  BY <1>1 DEF Filtered
  <1>4. /\ IsFiniteSet(Filtered(t))
        /\ Cardinality(Filtered(t)) <= Len(Rows)
    BY <1>2, <1>3, FS_Subset
  <1>   QED  BY <1>1, <1>4, FS_CardinalityType, FS_EmptySet

\* There are pages for every row and no more, and there is always one.
LEMMA PagesEnough ==
    ASSUME NEW t
    PROVE  /\ TotalPages(t) \in Nat \ {0}
           /\ Cardinality(Filtered(t)) <= TotalPages(t) * PageSize
           /\ Filtered(t) # {} => (TotalPages(t) - 1) * PageSize < Cardinality(Filtered(t))
           /\ TotalPages(t) = 1 \/ TotalPages(t) <= Len(Rows)
  <1> DEFINE n == Cardinality(Filtered(t))
             d == (n + PageSize - 1) \div PageSize
  <1>1. n \in 0 .. Len(Rows) /\ Len(Rows) \in Nat /\ PageSize \in Nat \ {0} /\ (Filtered(t) = {} <=> n = 0)
    BY FilteredFinite, TableAssumption
  <1>2. CASE n = 0
    BY <1>1, <1>2 DEF TotalPages
  <1>3. CASE n # 0
    <2>1. TotalPages(t) = d  BY <1>3 DEF TotalPages
    <2>2. n + PageSize - 1 \in Nat  BY <1>1
    <2>3. /\ d \in Nat
          /\ PageSize * d <= n + PageSize - 1
          /\ n + PageSize - 1 < PageSize * d + PageSize
      BY <1>1, <2>2, Division
    <2>4. d # 0
      <3> SUFFICES ASSUME d = 0 PROVE FALSE  OBVIOUS
      <3>1. PageSize * d = 0  BY <1>1
      <3>   QED  BY <1>1, <1>3, <2>3, <3>1
    <2>5. (d - 1) * PageSize = PageSize * d - PageSize /\ d * PageSize = PageSize * d
      BY <1>1, <2>3
    <2>6. d <= n
      <3> SUFFICES ASSUME n < d PROVE FALSE  BY <1>1, <2>3
      <3>1. (n + 1) * PageSize <= d * PageSize  BY <1>1, <2>3, Slices
      <3>2. (n + 1) * PageSize = n * PageSize + PageSize  BY <1>1
      <3>3. n * PageSize >= n  BY <1>1
      <3>   QED  BY <1>1, <2>3, <2>5, <3>1, <3>2, <3>3
    <2> HIDE DEF d
    <2>7. /\ n <= PageSize * d
          /\ PageSize * d - PageSize < n
      <3>1. PageSize * d \in Nat  BY <1>1, <2>3
      <3>   QED  BY <1>1, <2>3, <3>1
    <2>   QED  BY <1>1, <1>3, <2>1, <2>3, <2>4, <2>5, <2>6, <2>7
  <1>   QED  BY <1>2, <1>3

\* An order sort() may leave names every filtered row once.
LEMMA SortedIsBijection ==
    ASSUME NEW t, NEW s \in Sorted(t)
    PROVE  /\ s \in [1 .. Cardinality(Filtered(t)) -> Filtered(t)]
           /\ \A m, n \in 1 .. Cardinality(Filtered(t)) : s[m] = s[n] => m = n
           /\ \A i \in Filtered(t) : \E n \in 1 .. Cardinality(Filtered(t)) : s[n] = i
  <1> DEFINE F == Filtered(t)
             n == Cardinality(F)
  <1>1. s \in Injection(1 .. n, F)  BY Zenon DEF Sorted
  <1>2. IsFiniteSet(F) /\ n \in Nat  BY FilteredFinite
  <1>3. Cardinality(1 .. n) = n
    <2>1. Cardinality(1 .. n) = IF 1 > n THEN 0 ELSE n - 1 + 1  BY <1>2, FS_Interval
    <2>   QED  BY <1>2, <2>1
  <1> HIDE DEF F, n
  <1>4. s \in Surjection(1 .. n, F)
    <2>1. Cardinality(1 .. n) = Cardinality(F) <=> s \in Surjection(1 .. n, F)
      BY <1>1, <1>2, FS_Injection
    <2>   QED  BY <1>3, <2>1 DEF n
  <1>   QED  BY <1>1, <1>4 DEF F, n, Injection, IsInjective, Surjection

\* A page that exists is not empty when rows match.
LEMMA ShownPageHasRows ==
    ASSUME NEW t, NEW s \in Sorted(t), Filtered(t) # {},
           t.page \in Nat, t.page < TotalPages(t)
    PROVE  Paged(s, t.page) # {}
  <1> DEFINE n == Cardinality(Filtered(t))
             p == t.page
             total == TotalPages(t)
  <1>1. /\ n \in Nat /\ PageSize \in Nat \ {0} /\ total \in Nat \ {0} /\ p \in Nat /\ p < total
        /\ (total - 1) * PageSize < n
    BY FilteredFinite, PagesEnough, TableAssumption
  <1>2. DOMAIN s = 1 .. n  BY SortedIsBijection
  <1> HIDE DEF n, p, total
  <1>3. p * PageSize \in Nat /\ (p + 1) * PageSize = p * PageSize + PageSize  BY <1>1
  <1>4. p * PageSize <= (total - 1) * PageSize
    <2>1. CASE p = total - 1  BY <1>1, <2>1
    <2>2. CASE p < total - 1
      <3>1. (p + 1) * PageSize <= (total - 1) * PageSize  BY <1>1, <2>2, Slices
      <3>2. (total - 1) * PageSize \in Int  BY <1>1
      <3>   QED  BY <1>1, <1>3, <3>1, <3>2
    <2>   QED  BY <1>1, <2>1, <2>2
  <1>5. (total - 1) * PageSize \in Int  BY <1>1
  <1> DEFINE k == p * PageSize + 1
  <1>6. k \in 1 .. n /\ p * PageSize < k /\ k <= (p + 1) * PageSize  BY <1>1, <1>3, <1>4, <1>5
  <1>7. s[k] \in Paged(s, p)  BY <1>2, <1>6 DEF Paged
  <1>   QED  BY <1>7 DEF p

\* A row that matches is on exactly one of the pages, another row on none: the slices of
\* data-table.tsx lose and repeat nothing at their ends, whatever the number of rows.
THEOREM PagesPartition ==
    ASSUME NEW t, NEW s \in Sorted(t), NEW i \in DOMAIN Rows
    PROVE  Cardinality({q \in 0 .. TotalPages(t) - 1 : i \in Paged(s, q)})
               = IF i \in Filtered(t) THEN 1 ELSE 0
  <1> DEFINE n == Cardinality(Filtered(t))
             total == TotalPages(t)
             on == {q \in 0 .. total - 1 : i \in Paged(s, q)}
  <1>1. /\ n \in Nat /\ PageSize \in Nat \ {0} /\ total \in Nat \ {0}
        /\ n <= total * PageSize
    BY FilteredFinite, PagesEnough, TableAssumption
  <1>2. /\ s \in [1 .. n -> Filtered(t)]
        /\ \A j, m \in 1 .. n : s[j] = s[m] => j = m
        /\ \A j \in Filtered(t) : \E m \in 1 .. n : s[m] = j
    BY SortedIsBijection
  <1>3. CASE i \notin Filtered(t)
    <2>1. on = {}  BY <1>2, <1>3 DEF Paged
    <2>   QED  BY <1>3, <2>1, FS_EmptySet
  <1>4. CASE i \in Filtered(t)
    <2>1. PICK k \in 1 .. n : s[k] = i  BY <1>2, <1>4
    <2> DEFINE q == (k - 1) \div PageSize
    <2> HIDE DEF n, total
    <2>2. /\ q \in Nat
          /\ PageSize * q <= k - 1
          /\ k - 1 < PageSize * q + PageSize
      <3>1. k - 1 \in Nat  BY <1>1
      <3>   QED  BY <1>1, <3>1, Division
    <2> HIDE DEF q
    <2>3. q * PageSize \in Nat /\ q * PageSize = PageSize * q /\ (q + 1) * PageSize = q * PageSize + PageSize
      BY <1>1, <2>2
    <2>4. q * PageSize < k /\ k <= (q + 1) * PageSize
      BY <1>1, <2>2, <2>3
    <2>5. q <= total - 1
      <3> SUFFICES ASSUME total <= q PROVE FALSE  BY <1>1, <2>2
      <3>1. total * PageSize <= q * PageSize
        <4>1. CASE total = q  BY <2>3, <4>1
        <4>2. CASE total < q
          <5>1. (total + 1) * PageSize <= q * PageSize  BY <1>1, <2>2, <4>2, Slices
          <5>2. (total + 1) * PageSize = total * PageSize + PageSize /\ total * PageSize \in Nat  BY <1>1
          <5>   QED  BY <1>1, <2>3, <5>1, <5>2
        <4>   QED  BY <1>1, <2>2, <4>1, <4>2
      <3>2. total * PageSize \in Nat  BY <1>1
      <3>   QED  BY <1>1, <2>3, <2>4, <3>1, <3>2
    <2>6. q \in on
      BY <1>1, <1>2, <2>1, <2>2, <2>4, <2>5 DEF Paged
    <2>7. ASSUME NEW r \in on PROVE r = q
      <3>1. PICK j \in 1 .. n : s[j] = i /\ r * PageSize < j /\ j <= (r + 1) * PageSize
        BY <1>2 DEF Paged
      <3>2. j = k  BY <1>2, <2>1, <3>1
      <3>3. r \in Nat /\ r * PageSize \in Nat /\ (r + 1) * PageSize \in Nat  BY <1>1
      <3>4. ~(r < q)
        <4> SUFFICES ASSUME r < q PROVE FALSE  OBVIOUS
        <4>1. (r + 1) * PageSize <= q * PageSize  BY <1>1, <2>2, <3>3, Slices
        <4>   QED  BY <1>1, <2>3, <2>4, <3>1, <3>2, <3>3, <4>1
      <3>5. ~(q < r)
        <4> SUFFICES ASSUME q < r PROVE FALSE  OBVIOUS
        <4>1. (q + 1) * PageSize <= r * PageSize  BY <1>1, <2>2, <3>3, Slices
        <4>2. (q + 1) * PageSize \in Nat  BY <1>1, <2>2
        <4>   QED  BY <1>1, <2>3, <2>4, <3>1, <3>2, <3>3, <4>1, <4>2
      <3>   QED  BY <2>2, <3>3, <3>4, <3>5
    <2>8. on = {q}  BY <2>6, <2>7
    <2>   QED  BY <1>4, <2>8, FS_Singleton DEF total
  <1>   QED  BY <1>3, <1>4

\* What is shown are rows of the data.
LEMMA ShownAreRows == ASSUME NEW t PROVE ShownIds(t) \subseteq RowIds
  <1> SUFFICES ASSUME NEW s \in Sorted(t), NEW i \in Paged(s, t.page) PROVE Rows[i].id \in RowIds
    BY DEF ShownIds
  <1>1. s \in [1 .. Cardinality(Filtered(t)) -> Filtered(t)]  BY SortedIsBijection
  <1>2. i \in Filtered(t)  BY <1>1 DEF Paged
  <1>   QED  BY <1>2 DEF Filtered, RowIds

\* Searching, sorting and turning leave the table on a page that exists.
LEMMA TableStepsStand ==
    ASSUME NEW t \in Table, t.page < TotalPages(t), NEW u \in TableSteps(t)
    PROVE  u \in Table /\ u.page < TotalPages(u)
  <1>0. /\ TotalPages(t) \in Nat \ {0} /\ TotalPages(u) \in Nat \ {0}
        /\ TotalPages(t) = 1 \/ TotalPages(t) <= Len(Rows)
        /\ Len(Rows) \in Nat
    BY PagesEnough, TableAssumption
  <1>1. CASE \E term \in Terms \cup {NoTerm} : u = SearchFor(t, term)
    <2>1. PICK term \in Terms \cup {NoTerm} : u = [t EXCEPT !.search = term, !.page = 0]
      BY <1>1 DEF SearchFor
    <2>2. 0 \in 0 .. Len(Rows)  BY <1>0
    <2>3. u \in Table /\ u.page = 0  BY <2>1, <2>2 DEF Table
    <2>   QED  BY <1>0, <2>3
  <1>2. CASE \E k \in SortKeys : u = SortBy(t, k)
    <2>1. u \in Table /\ u.page = t.page /\ u.search = t.search  BY <1>2 DEF SortBy, Table
    <2>2. TotalPages(u) = TotalPages(t)  BY <2>1 DEF TotalPages, Filtered
    <2>   QED  BY <2>1, <2>2
  <1>3. CASE u \in Turned(t)
    <2>1. t.page \in Nat  BY DEF Table
    <2>2. \/ u = [t EXCEPT !.page = 0]
          \/ t.page # 0 /\ u = [t EXCEPT !.page = t.page - 1]
          \/ t.page < TotalPages(t) - 1 /\ u = [t EXCEPT !.page = t.page + 1]
          \/ t.page < TotalPages(t) - 1 /\ u = [t EXCEPT !.page = TotalPages(t) - 1]
      BY <1>0, <1>3, <2>1 DEF Turned
    <2>3. u.page \in Nat /\ u.page < TotalPages(t)  BY <1>0, <2>1, <2>2 DEF Table
    <2>4. u.search = t.search  BY <2>2 DEF Table
    <2>5. u \in Table
      <3>1. u.page \in 0 .. Len(Rows)  BY <1>0, <2>1, <2>3 DEF Table
      <3>2. u = [t EXCEPT !.page = u.page]  BY <2>2 DEF Table
      <3>   QED  BY <3>1, <3>2 DEF Table
    <2>6. TotalPages(u) = TotalPages(t)  BY <2>4 DEF TotalPages, Filtered
    <2>   QED  BY <2>3, <2>5, <2>6
  <1>   QED  BY <1>1, <1>2, <1>3 DEF TableSteps

\* An order of the rows that satisfies the comparator: by value, rows without one last, and
\* in the order of the data where the comparator does not tell.
Before(t, i, j) ==
    LET x == Rows[i].rank[t.sortKey]
        y == Rows[j].rank[t.sortKey]
    IN  IF t.sortKey = NoKey \/ x = y THEN i < j
        ELSE \/ y = NoValue
             \/ x # NoValue /\ IF t.sortDir = "asc" THEN x < y ELSE y < x

\* A column ranks its values by numbers.
LEMMA RanksAreNat ==
    ASSUME NEW t \in Table, t.sortKey # NoKey, NEW i \in DOMAIN Rows
    PROVE  Rows[i].rank[t.sortKey] \in Nat
  <1>1. t.sortKey \in SortKeys  BY DEF Table
  <1>2. Rows \in Seq([id : RowIds, has : SUBSET Terms, rank : [SortKeys -> Nat]])  BY TableAssumption
  <1>3. Rows[i] \in [id : RowIds, has : SUBSET Terms, rank : [SortKeys -> Nat]]  BY <1>2, Element
  <1>4. Rows[i].rank \in [SortKeys -> Nat]  BY <1>3
  <1>   QED  BY <1>1, <1>4

\* It is a strict total order.
LEMMA BeforeIsTotal ==
    ASSUME NEW t \in Table
    PROVE  /\ \A i \in DOMAIN Rows : ~Before(t, i, i)
           /\ \A i, j \in DOMAIN Rows : i # j => Before(t, i, j) \/ Before(t, j, i)
           /\ \A i, j, k \in DOMAIN Rows : Before(t, i, j) /\ Before(t, j, k) => Before(t, i, k)
  <1>1. DOMAIN Rows \subseteq Int  BY TableAssumption
  <1>2. CASE t.sortKey = NoKey  BY <1>1, <1>2 DEF Before
  <1>3. CASE t.sortKey # NoKey
    <2> DEFINE x(i) == Rows[i].rank[t.sortKey]
    <2>1. \A i \in DOMAIN Rows : x(i) \in Int  BY <1>3, RanksAreNat
    <2>2. \A i, j : Before(t, i, j) <=>
              IF x(i) = x(j) THEN i < j
              ELSE x(j) = 0 \/ (x(i) # 0 /\ IF t.sortDir = "asc" THEN x(i) < x(j) ELSE x(j) < x(i))
      BY <1>3 DEF Before, NoValue
    <2> HIDE DEF x
    <2>3. \A i \in DOMAIN Rows : ~Before(t, i, i)  BY <1>1, <2>2
    <2>4. \A i, j \in DOMAIN Rows : i # j => Before(t, i, j) \/ Before(t, j, i)
      BY <1>1, <2>1, <2>2
    <2>5. \A i, j, k \in DOMAIN Rows : Before(t, i, j) /\ Before(t, j, k) => Before(t, i, k)
      BY <1>1, <2>1, <2>2
    <2>   QED  BY <2>3, <2>4, <2>5
  <1>   QED  BY <1>2, <1>3

\* It contradicts the comparator nowhere.
LEMMA BeforeSuitsSort ==
    ASSUME NEW t \in Table, NEW i \in DOMAIN Rows, NEW j \in DOMAIN Rows, Before(t, i, j)
    PROVE  IF t.sortKey = NoKey THEN i < j
           ELSE /\ ~Follows(t, Rows[i], Rows[j])
                /\ Ties(t, Rows[i], Rows[j]) => i < j
  <1>1. CASE t.sortKey = NoKey  BY <1>1 DEF Before
  <1>2. CASE t.sortKey # NoKey
    <2>1. Rows[i].rank[t.sortKey] \in Nat /\ Rows[j].rank[t.sortKey] \in Nat  BY <1>2, RanksAreNat
    <2>   QED  BY <1>2, <2>1 DEF Before, Follows, Ties
  <1>   QED  BY <1>1, <1>2

\* Although the comparator puts each of two rows without a value after the other, there always
\* is an order it does not contradict: a row's place is the number of rows before it.
THEOREM SortHasOutcome == ASSUME NEW t \in Table PROVE Sorted(t) # {}
  <1> DEFINE F == Filtered(t)
             n == Cardinality(F)
             less(i) == {j \in F : Before(t, j, i)}
             place == [i \in F |-> Cardinality(less(i)) + 1]
  <1>1. F \subseteq DOMAIN Rows /\ IsFiniteSet(F) /\ n \in Nat
    BY FilteredFinite DEF Filtered
  <1>2. \A i \in F : IsFiniteSet(less(i)) /\ Cardinality(less(i)) \in Nat
    <2> SUFFICES ASSUME NEW i \in F PROVE IsFiniteSet(less(i)) /\ Cardinality(less(i)) \in Nat
      OBVIOUS
    <2>1. less(i) \in SUBSET F  OBVIOUS
    <2>2. IsFiniteSet(less(i))  BY <1>1, <2>1, FS_Subset
    <2>   QED  BY <2>2, FS_CardinalityType
  <1>3. \A i, j \in F : Before(t, i, j) => place[i] < place[j]
    <2> SUFFICES ASSUME NEW i \in F, NEW j \in F, Before(t, i, j) PROVE place[i] < place[j]
      OBVIOUS
    <2>1. less(i) \in SUBSET less(j)  BY <1>1, BeforeIsTotal
    <2>2. i \in less(j) /\ i \notin less(i)  BY <1>1, BeforeIsTotal
    <2>3. /\ Cardinality(less(i)) <= Cardinality(less(j))
          /\ Cardinality(less(j)) = Cardinality(less(i)) => less(j) = less(i)
      BY <1>2, <2>1, FS_Subset
    <2>4. Cardinality(less(i)) # Cardinality(less(j))  BY <2>2, <2>3
    <2> HIDE DEF less
    <2>   QED  BY <1>2, <2>3, <2>4
  <1>4. place \in [F -> 1 .. n]
    <2> SUFFICES ASSUME NEW i \in F PROVE Cardinality(less(i)) + 1 \in 1 .. n  OBVIOUS
    <2>1. less(i) \in SUBSET F /\ i \notin less(i)  BY <1>1, BeforeIsTotal
    <2>2. /\ Cardinality(less(i)) <= n
          /\ n = Cardinality(less(i)) => F = less(i)
      BY <1>1, <2>1, FS_Subset
    <2>3. Cardinality(less(i)) # n  BY <2>1, <2>2
    <2> HIDE DEF less
    <2>   QED  BY <1>1, <1>2, <2>2, <2>3
  <1>5. \A i, j \in F : place[i] = place[j] => i = j
    <2> SUFFICES ASSUME NEW i \in F, NEW j \in F, place[i] = place[j], i # j PROVE FALSE
      OBVIOUS
    <2>1. Before(t, i, j) \/ Before(t, j, i)  BY <1>1, BeforeIsTotal
    <2>2. place[i] < place[j] \/ place[j] < place[i]  BY <1>3, <2>1
    <2>3. place[i] \in Int /\ place[j] \in Int  BY <1>4
    <2>   QED  BY <2>2, <2>3
  <1> HIDE DEF place
  <1>6. \A k \in 1 .. n : \E i \in F : place[i] = k
    <2>1. place \in Injection(F, 1 .. n)  BY <1>4, <1>5 DEF Injection, IsInjective
    <2>2. IsFiniteSet(1 .. n) /\ Cardinality(1 .. n) = n
      <3>1. IsFiniteSet(1 .. n) /\ Cardinality(1 .. n) = IF 1 > n THEN 0 ELSE n - 1 + 1
        BY <1>1, FS_Interval
      <3>   QED  BY <1>1, <3>1
    <2>3. place \in Surjection(F, 1 .. n)
      <3> HIDE DEF F
      <3>1. Cardinality(F) = Cardinality(1 .. n) <=> place \in Surjection(F, 1 .. n)
        BY <2>1, <2>2, FS_Injection
      <3>   QED  BY <2>2, <3>1
    <2>   QED  BY <2>3 DEF Surjection
  <1> DEFINE s == [k \in 1 .. n |-> CHOOSE i \in F : place[i] = k]
  <1>7. \A k \in 1 .. n : s[k] \in F /\ place[s[k]] = k  BY <1>6
  <1>8. s \in [1 .. n -> F]  BY <1>7
  <1> HIDE DEF s
  <1>9. s \in Injection(1 .. n, F)  BY <1>7, <1>8 DEF Injection, IsInjective
  <1>10. \A m, k \in 1 .. n : m < k => Before(t, s[m], s[k])
    <2> SUFFICES ASSUME NEW m \in 1 .. n, NEW k \in 1 .. n, m < k, ~Before(t, s[m], s[k])
                 PROVE  FALSE
      OBVIOUS
    <2>1. s[m] # s[k]  BY <1>7
    <2>2. Before(t, s[k], s[m])  BY <1>1, <1>7, <2>1, BeforeIsTotal
    <2>3. place[s[k]] < place[s[m]]  BY <1>3, <1>7, <2>2
    <2>   QED  BY <1>7, <2>3
  <1>11. DOMAIN s = 1 .. n  BY <1>8
  <1>12. \A m, k \in DOMAIN s : m < k =>
             IF t.sortKey = NoKey THEN s[m] < s[k]
             ELSE /\ ~Follows(t, Rows[s[m]], Rows[s[k]])
                  /\ Ties(t, Rows[s[m]], Rows[s[k]]) => s[m] < s[k]
    <2> SUFFICES ASSUME NEW m \in DOMAIN s, NEW k \in DOMAIN s, m < k
                 PROVE  IF t.sortKey = NoKey THEN s[m] < s[k]
                        ELSE /\ ~Follows(t, Rows[s[m]], Rows[s[k]])
                             /\ Ties(t, Rows[s[m]], Rows[s[k]]) => s[m] < s[k]
      OBVIOUS
    <2>1. s[m] \in DOMAIN Rows /\ s[k] \in DOMAIN Rows  BY <1>1, <1>7, <1>11
    <2>2. Before(t, s[m], s[k])  BY <1>10, <1>11
    <2>   QED  BY <2>1, <2>2, BeforeSuitsSort
  <1>13. s \in Sorted(t)  BY <1>9, <1>12, Zenon DEF Sorted
  <1>   QED  BY <1>13

=============================================================================
