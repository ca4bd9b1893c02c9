----------------------------- MODULE DataTable ------------------------------
(***************************************************************************)
(* The DataTable component: the search, page and sort state it keeps, and  *)
(* which rows it shows.  A table is a record; the operations return the    *)
(* next one.  What the cells display is abstracted: of a row only the      *)
(* search terms it matches and the rank of its values per column are kept, *)
(* and rows are passed about as positions in the data.                     *)
(***************************************************************************)
EXTENDS Integers, Sequences, FiniteSets, Functions

CONSTANTS Rows,      \* the data prop: a sequence of [id, has, rank]
          Terms,     \* what the user may search for
          SortKeys,  \* the sortable columns
          PageSize

NoTerm  == ""     \* empty search box
NoKey   == ""     \* sortKey null
NoValue == 0      \* a row that has no value in a column

RowIds == {Rows[i].id : i \in DOMAIN Rows}

ASSUME TableAssumption ==
    /\ PageSize \in Nat \ {0}
    /\ Rows \in Seq([id : RowIds, has : SUBSET Terms, rank : [SortKeys -> Nat]])
    /\ \A i, j \in DOMAIN Rows : Rows[i].id = Rows[j].id => i = j

Table == [search : Terms \cup {NoTerm}, page : 0 .. Len(Rows),
          sortKey : SortKeys \cup {NoKey}, sortDir : {"asc", "desc"}]

FreshTable == [search |-> NoTerm, page |-> 0, sortKey |-> NoKey, sortDir |-> "asc"]

\* The rows the search leaves.
Filtered(t) == {i \in DOMAIN Rows : t.search = NoTerm \/ t.search \in Rows[i].has}

\* The comparator's two early returns: a row without a value comes after one with a value
\* in either direction, and after one without a value as well.
Follows(t, a, b) ==
    LET x == a.rank[t.sortKey]
        y == b.rank[t.sortKey]
    IN  \/ x = NoValue /\ y # NoValue
        \/ x # NoValue /\ y # NoValue /\ IF t.sortDir = "asc" THEN x > y ELSE x < y

\* Rows the comparator calls equal; sort() keeps them in the order they came in.
Ties(t, a, b) ==
    a.rank[t.sortKey] # NoValue /\ a.rank[t.sortKey] = b.rank[t.sortKey]

\* The orders the filtered rows may be shown in: without a sort key that of the data,
\* otherwise those sort() may leave.  Two rows without a value each follow the other, so that
\* their order is up to the engine.
Sorted(t) ==
    LET ordered(i, j) ==
            IF t.sortKey = NoKey THEN i < j
            ELSE /\ ~Follows(t, Rows[i], Rows[j])
                 /\ Ties(t, Rows[i], Rows[j]) => i < j
    IN  {s \in Injection(1 .. Cardinality(Filtered(t)), Filtered(t)) :
            \A m, n \in DOMAIN s : m < n => ordered(s[m], s[n])}

TotalPages(t) ==
    LET n == Cardinality(Filtered(t)) IN IF n = 0 THEN 1 ELSE (n + PageSize - 1) \div PageSize

\* The rows in the slice of page q.
Paged(s, q) == {s[n] : n \in {m \in DOMAIN s : q * PageSize < m /\ m <= (q + 1) * PageSize}}

\* Mutant: a new search keeps the page.
SearchForKeepingPage(t, term) == [t EXCEPT !.search = term]

\* The search box: every change goes back to the first page.
SearchFor(t, term) == [t EXCEPT !.search = term, !.page = 0]

\* handleSort: the page stays.
SortBy(t, k) ==
    IF t.sortKey = k
    THEN [t EXCEPT !.sortDir = IF t.sortDir = "asc" THEN "desc" ELSE "asc"]
    ELSE [t EXCEPT !.sortKey = k, !.sortDir = "asc"]

\* The four buttons, which are disabled at their end.
Turned(t) ==
    (IF t.page = 0 THEN {} ELSE {[t EXCEPT !.page = 0], [t EXCEPT !.page = t.page - 1]})
    \cup
    (IF t.page >= TotalPages(t) - 1 THEN {}
     ELSE {[t EXCEPT !.page = t.page + 1], [t EXCEPT !.page = TotalPages(t) - 1]})

TableSteps(t) ==
    {SearchFor(t, term) : term \in Terms \cup {NoTerm}}
        \cup {SortBy(t, k) : k \in SortKeys} \cup Turned(t)

ShownIds(t) == {Rows[i].id : i \in UNION {Paged(s, t.page) : s \in Sorted(t)}}

=============================================================================
