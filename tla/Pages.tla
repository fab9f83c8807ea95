-------------------------------- MODULE Pages --------------------------------
(***************************************************************************)
(* Lists are handed out page by page: helper.ts and pagination.dto.ts, as  *)
(* the lists of roles, products, audit entries and users use them.  A page *)
(* is two queries, for the rows and for their number, and a reader asks    *)
(* for one page after the other while rows come, go and are updated.       *)
(***************************************************************************)
EXTENDS Integers, Sequences, FiniteSets

CONSTANTS
  Rows,      \* every row there may be
  Readers,   \* clients that read a list from its first page on
  Limits     \* rows on a page

ASSUME PagesAssumption == IsFiniteSet(Rows) /\ Limits \subseteq Nat \ {0}

VARIABLES
  list,      \* the rows there are, in the order of the query
  kind,      \* the list each reader reads
  tied,      \* the rows that, in the column it sorts by, ever equal another one
  limit,     \* its rows on a page
  page,      \* the page it has come to
  pc,        \* "rows", "count" or "done"
  got,       \* how many rows were on the last page
  told,      \* the next page it was told of
  seen,      \* history: the rows it was given
  stable,    \* history: the rows that have been there, unmoved, since it began
  left,      \* history: whether a row went since, for good or further down
  entered,   \* history: whether a row came since, a new one or from elsewhere
  repeated   \* history: the rows it was given twice

choice == <<kind, tied, limit>>
reader == <<page, pc, got, told, seen, repeated>>
history == <<stable, left, entered>>
vars == <<list, choice, reader, history>>

--------------------------------------------------------------------------------
(***************************************************************************)
(* The arithmetic of pages, which begin with 1.                            *)
(***************************************************************************)
NoPage == 0

\* Mutant of Skip: the last row of a page opens the next one.
SkipOverlapping(p, n) == (p - 1) * (n - 1)

Skip(p, n) == (p - 1) * n

\* Mutant of TotalPages: the last page has to be full.
TotalPagesFloor(total, n) == total \div n

TotalPages(total, n) == (total + n - 1) \div n   \* Math.ceil(total / n)

\* Helper.paginateResponse
NextPage(p, n, total) == IF p + 1 > TotalPages(total, n) THEN NoPage ELSE p + 1
PrevPage(p) == IF p - 1 < 1 THEN NoPage ELSE p - 1

\* PaginatedResponseDto
HasNextPage(p, n, total) == p < TotalPages(total, n)
HasPreviousPage(p) == p > 1

Smaller(a, b) == IF a < b THEN a ELSE b

Present == {list[i] : i \in DOMAIN list}

Without(s, k) == [i \in 1 .. Len(s) - 1 |-> IF i < k THEN s[i] ELSE s[i + 1]]

With(s, k, x) ==
  [i \in 1 .. Len(s) + 1 |-> IF i < k THEN s[i] ELSE IF i = k THEN x ELSE s[i - 1]]

--------------------------------------------------------------------------------
Init ==
  /\ list \in {s \in UNION {[1 .. n -> Rows] : n \in 0 .. Cardinality(Rows)} :
                 \A i, j \in DOMAIN s : s[i] = s[j] => i = j}
  /\ kind \in [Readers -> {"roles", "products", "users"}]
  /\ tied \in [Readers -> SUBSET Rows]
  /\ limit \in [Readers -> Limits]
  /\ page = [r \in Readers |-> 1]
  /\ pc = [r \in Readers |-> "rows"]
  /\ got = [r \in Readers |-> 0]
  /\ told = [r \in Readers |-> NoPage]
  /\ seen = [r \in Readers |-> {}]
  /\ stable = [r \in Readers |-> Present]
  /\ left = [r \in Readers |-> FALSE]
  /\ entered = [r \in Readers |-> FALSE]
  /\ repeated = [r \in Readers |-> {}]

\* skip and take.
First(r) == Skip(page[r], limit[r]) + 1
Last(r) == Smaller(Skip(page[r], limit[r]) + limit[r], Len(list))

\* The rows of a page.  The database puts rows that are equal in the column
\* the client sorts by in any order, another one in the next query: the page
\* is of the size of its window and has those of the window's rows that are
\* not tied, with any tied ones, wherever they are.
FindRows(r) ==
  LET window == {list[i] : i \in First(r) .. Last(r)} IN
  /\ pc[r] = "rows"
  /\ \E rows \in SUBSET Present :
       /\ Cardinality(rows) = Cardinality(window)
       /\ rows \ tied[r] = window \ tied[r]
       /\ seen' = [seen EXCEPT ![r] = @ \cup rows]
       /\ repeated' = [repeated EXCEPT ![r] = @ \cup (rows \cap seen[r])]
  /\ got' = [got EXCEPT ![r] = IF First(r) <= Last(r) THEN Last(r) - First(r) + 1 ELSE 0]
  /\ pc' = [pc EXCEPT ![r] = "count"]
  /\ UNCHANGED <<list, choice, page, told, history>>

\* The number of rows: counted, or known from a page that is not full, which
\* later versions of TypeORM do not count after.
Totals(r) ==
  {Len(list)} \cup
  (IF got[r] < limit[r] /\ (got[r] > 0 \/ page[r] = 1) THEN {Skip(page[r], limit[r]) + got[r]} ELSE {})

\* findAllRoles: the metadata tells the reader whether there is a next page.
\* The lists of products and audit entries have theirs in "meta", which the
\* interceptor of the responses leaves out: the reader goes on as long as
\* pages are full.  findAllUsers has one page.
Continues(r, total) ==
  CASE kind[r] = "roles" -> NextPage(page[r], limit[r], total) # NoPage
    [] kind[r] = "products" -> got[r] = limit[r]
    [] kind[r] = "users" -> FALSE

Count(r) ==
  /\ pc[r] = "count"
  /\ \E total \in Totals(r) :
       /\ told' = [told EXCEPT ![r] =
            IF kind[r] = "products" THEN NoPage ELSE NextPage(page[r], limit[r], total)]
       /\ IF Continues(r, total)
          THEN page' = [page EXCEPT ![r] = @ + 1] /\ pc' = [pc EXCEPT ![r] = "rows"]
          ELSE UNCHANGED page /\ pc' = [pc EXCEPT ![r] = "done"]
  /\ UNCHANGED <<list, choice, got, seen, repeated, history>>

\* Another request creates, or restores, a row, wherever the order puts it.
InsertRow(x, k) ==
  /\ x \notin Present
  /\ list' = With(list, k, x)
  /\ entered' = [r \in Readers |-> TRUE]
  /\ UNCHANGED <<choice, reader, stable, left>>

RemoveRow(k) ==
  /\ list' = Without(list, k)
  /\ stable' = [r \in Readers |-> stable[r] \ {list[k]}]
  /\ left' = [r \in Readers |-> TRUE]
  /\ UNCHANGED <<choice, reader, entered>>

\* Another request updates a role or a product, or the row is saved again, in
\* the column of the order.
MoveRow(k, j) ==
  /\ k # j
  /\ list' = With(Without(list, k), j, list[k])
  /\ stable' = [r \in Readers |-> stable[r] \ {list[k]}]
  /\ left' = [r \in Readers |-> left[r] \/ k < j]
  /\ entered' = [r \in Readers |-> TRUE]
  /\ UNCHANGED <<choice, reader>>

Next ==
  \/ \E r \in Readers : FindRows(r) \/ Count(r)
  \/ \E x \in Rows, k \in 1 .. Len(list) + 1 : InsertRow(x, k)
  \/ \E k \in 1 .. Len(list) : RemoveRow(k)
  \/ \E k, j \in 1 .. Len(list) : MoveRow(k, j)

Spec == Init /\ [][Next]_vars

--------------------------------------------------------------------------------
\* A reader that has come to the end of a list was given every row that was
\* there all along, was not itself moved by an update and is not tied with
\* another, whatever was inserted or moved up meanwhile, between the two
\* queries of a page too: only a row removed, or moved down, may hide it.  Of
\* the users, who have one page, the reader is told when there are more.
OldRowsAreSeen ==
  \A r \in Readers : pc[r] = "done" /\ ~left[r] =>
    stable[r] \subseteq seen[r] \cup tied[r] \/ (kind[r] = "users" /\ told[r] # NoPage)

\* A row is given twice only when it is tied with another, or when a row was
\* inserted or moved meanwhile; removals alone never repeat one.
RepeatsHaveAReason == \A r \in Readers : repeated[r] \subseteq tied[r] \/ entered[r]
================================================================================
