------------------------------ MODULE PagesProofs ------------------------------
(***************************************************************************)
(* Proofs about Pages: a reader that no removal and no row moved down      *)
(* disturbs sees every untied row that was there all along, for lists and  *)
(* pages of every size.                                                    *)
(***************************************************************************)
EXTENDS Pages, FiniteSetTheorems, TLAPS

PagesType ==
  /\ list \in Seq(Rows)
  /\ limit \in [Readers -> Limits]
  /\ kind \in [Readers -> {"roles", "products", "users"}]
  /\ tied \in [Readers -> SUBSET Rows]
  /\ page \in [Readers -> Nat \ {0}]
  /\ pc \in [Readers -> {"rows", "count", "done"}]
  /\ got \in [Readers -> Nat]
  /\ told \in [Readers -> Nat]
  /\ seen \in [Readers -> SUBSET Rows]
  /\ stable \in [Readers -> SUBSET Rows]
  /\ left \in [Readers -> BOOLEAN]
  /\ entered \in [Readers -> BOOLEAN]
  /\ repeated \in [Readers -> SUBSET Rows]

\* How many rows of the list the reader has passed.
Passed(r) == Skip(page[r], limit[r]) + (IF pc[r] = "rows" THEN 0 ELSE limit[r])

\* The rows the reader is owed.
Owed(r) == stable[r] \ (seen[r] \cup tied[r])

\* What the reader is owed is still ahead of it.
Ahead(r) ==
  pc[r] # "done" /\ ~left[r] =>
    \A x \in Owed(r) : \E i \in 1 .. Len(list) : list[i] = x /\ i > Passed(r)

\* A page behind which something is owed is full.
FullPage(r) ==
  pc[r] = "count" /\ ~left[r] /\ Owed(r) # {} => got[r] = limit[r]

Ended(r) ==
  pc[r] = "done" /\ ~left[r] => Owed(r) = {} \/ (kind[r] = "users" /\ told[r] # NoPage)

PagesInvariant == PagesType /\ \A r \in Readers : Ahead(r) /\ FullPage(r) /\ Ended(r)

\* No row is in the list twice, and unless rows come none that is not tied
\* comes back to where the reader has yet to go.
Distinct == \A i, j \in 1 .. Len(list) : list[i] = list[j] => i = j
Behind(r) ==
  ~entered[r] =>
    /\ repeated[r] \subseteq tied[r]
    /\ \A i \in 1 .. Len(list) : list[i] \in seen[r] \ tied[r] => i <= Passed(r)

RepeatInvariant == Distinct /\ \A r \in Readers : Behind(r)

--------------------------------------------------------------------------------
\* The next page begins where this one ends.
LEMMA SkipNext ==
  ASSUME NEW p \in Nat \ {0}, NEW n \in Nat \ {0}
  PROVE /\ Skip(p, n) \in Nat
        /\ Skip(p + 1, n) = Skip(p, n) + n
        /\ Skip(p, n) + n = p * n
BY DEF Skip

\* There is a next page exactly when there are rows behind this one: the two
\* ways of telling it, paginateResponse and PaginatedResponseDto, agree with
\* the rows.
THEOREM NextPageMeansMore ==
  ASSUME NEW p \in Nat \ {0}, NEW n \in Nat \ {0}, NEW total \in Nat
  PROVE /\ HasNextPage(p, n, total) <=> p * n < total
        /\ NextPage(p, n, total) # NoPage <=> p * n < total
        /\ NextPage(p, n, total) \in Nat
<1> DEFINE q == (total + n - 1) \div n
<1>1. q \in Nat /\ n * q <= total + n - 1 /\ total + n - 1 < n * q + n
  BY SMT
<1>2. ASSUME p < q PROVE p * n < total
  <2>1. p + 1 <= q BY <1>1, <1>2
  <2>2. n * (p + 1) <= n * q BY <1>1, <2>1, SMT
  <2> QED BY <1>1, <2>2, SMT
<1>3. ASSUME ~(p < q) PROVE ~(p * n < total)
  <2>1. n * q <= n * p BY <1>1, <1>3, SMT
  <2> QED BY <1>1, <2>1, SMT
<1>4. HasNextPage(p, n, total) <=> p < q
  BY DEF HasNextPage, TotalPages
<1>5. NextPage(p, n, total) = IF p + 1 > q THEN 0 ELSE p + 1
  BY DEF NextPage, TotalPages, NoPage
<1> HIDE DEF q
<1>6. NextPage(p, n, total) # NoPage <=> p < q
  BY <1>1, <1>5 DEF NoPage
<1> QED BY <1>1, <1>2, <1>3, <1>4, <1>5, <1>6

\* What the type says about one reader.
LEMMA ReaderType ==
  ASSUME PagesType, NEW r \in Readers
  PROVE /\ page[r] \in Nat \ {0} /\ limit[r] \in Nat \ {0}
        /\ Len(list) \in Nat /\ got[r] \in Nat /\ kind[r] \in {"roles", "products", "users"}
        /\ Skip(page[r], limit[r]) \in Nat /\ Passed(r) \in Nat
        /\ Skip(page[r] + 1, limit[r]) = Skip(page[r], limit[r]) + limit[r]
<1>1. page[r] \in Nat \ {0} /\ limit[r] \in Limits /\ got[r] \in Nat
  BY DEF PagesType
<1>2. limit[r] \in Nat \ {0} BY <1>1, PagesAssumption
<1>3. Len(list) \in Nat /\ kind[r] \in {"roles", "products", "users"} BY DEF PagesType
<1>4. /\ Skip(page[r], limit[r]) \in Nat
      /\ Skip(page[r] + 1, limit[r]) = Skip(page[r], limit[r]) + limit[r]
  BY <1>1, <1>2, SkipNext
<1>5. Passed(r) \in Nat BY <1>2, <1>4 DEF Passed
<1> QED BY <1>1, <1>2, <1>3, <1>4, <1>5

--------------------------------------------------------------------------------
LEMMA InitPages == Init => PagesInvariant
<1> SUFFICES ASSUME Init PROVE PagesInvariant
  OBVIOUS
<1>1. list \in Seq(Rows)
  <2>1. Cardinality(Rows) \in Nat BY FS_CardinalityType, PagesAssumption
  <2>2. PICK n \in 0 .. Cardinality(Rows) : list \in [1 .. n -> Rows] BY DEF Init
  <2> QED BY <2>1, <2>2
<1>2. PagesType
  BY <1>1, PagesAssumption DEF Init, PagesType, NoPage, Present
<1>3. ASSUME NEW r \in Readers PROVE Ahead(r)
  <2>1. limit[r] \in Nat BY <1>2, ReaderType
  <2>2. page[r] = 1 /\ pc[r] = "rows" BY DEF Init
  <2>3. Skip(1, limit[r]) = 0 BY <2>1 DEF Skip
  <2>4. Passed(r) = 0 BY <2>2, <2>3 DEF Passed
  <2> QED BY <1>1, <2>4 DEF Init, Ahead, Owed, Present
<1> QED BY <1>2, <1>3 DEF Init, PagesInvariant, FullPage, Ended

LEMMA FindRowsKeeps ==
  ASSUME PagesInvariant, NEW r \in Readers, FindRows(r)
  PROVE PagesInvariant'
<1> USE DEF PagesInvariant
<1> DEFINE window == {list[i] : i \in First(r) .. Last(r)}
           s == Skip(page[r], limit[r])
           n == limit[r]
<1>1. n \in Nat \ {0} /\ s \in Nat /\ Len(list) \in Nat
  BY ReaderType
<1>2. /\ First(r) = s + 1
      /\ Last(r) = IF s + n < Len(list) THEN s + n ELSE Len(list)
      /\ Last(r) \in Nat /\ Last(r) <= Len(list)
  BY <1>1 DEF First, Last, Smaller
<1>3. PICK rows \in SUBSET Present :
        /\ rows \ tied[r] = window \ tied[r]
        /\ seen' = [seen EXCEPT ![r] = @ \cup rows]
        /\ repeated' = [repeated EXCEPT ![r] = @ \cup (rows \cap seen[r])]
  BY DEF FindRows
<1>4. PagesType'
  <2>1. rows \subseteq Rows
    BY <1>3 DEF Present, PagesType
  <2>2. seen' \in [Readers -> SUBSET Rows]
    BY <1>3, <2>1 DEF PagesType
  <2>3. got' \in [Readers -> Nat]
    BY <1>1, <1>2 DEF FindRows, PagesType
  <2>4. repeated' \in [Readers -> SUBSET Rows]
    BY <1>3, <2>1 DEF PagesType
  <2> QED BY <2>2, <2>3, <2>4 DEF FindRows, PagesType, choice, history
<1>5. UNCHANGED <<list, kind, tied, limit, page, told, stable, left>>
  BY DEF FindRows, choice, history
<1>6. ASSUME NEW x \in Owed(r)', ~left[r]
      PROVE (\E i \in 1 .. Len(list) : list[i] = x /\ i > s + n) /\ got'[r] = n
  <2>1. x \in Owed(r) /\ x \notin tied[r] /\ x \notin rows
    BY <1>3, <1>5, <1>6 DEF Owed, PagesType
  <2>2. x \notin window BY <1>3, <2>1
  <2>3. PICK i \in 1 .. Len(list) : list[i] = x /\ i > s
    <3>1. pc[r] = "rows" BY DEF FindRows
    <3>2. PICK i \in 1 .. Len(list) : list[i] = x /\ i > Passed(r)
      BY <1>6, <2>1, <3>1 DEF Ahead
    <3>3. Passed(r) = s BY <1>1, <3>1 DEF Passed
    <3> QED BY <3>2, <3>3
  <2>4. i > Last(r)
    BY <1>1, <1>2, <2>2, <2>3
  <2>5. i > s + n BY <1>1, <1>2, <2>3, <2>4
  <2>6. got'[r] = n
    BY <1>1, <1>2, <2>3, <2>5 DEF FindRows, PagesType
  <2> QED BY <2>3, <2>5, <2>6
<1>7. Ahead(r)' /\ FullPage(r)' /\ Ended(r)'
  <2>1. pc'[r] = "count" BY DEF FindRows, PagesType
  <2>2. Passed(r)' = s + n BY <1>5, <2>1 DEF Passed
  <2>3. Ahead(r)' BY <1>5, <1>6, <2>2 DEF Ahead
  <2>4. FullPage(r)' BY <1>5, <1>6 DEF FullPage
  <2> QED BY <2>1, <2>3, <2>4 DEF Ended
<1>8. ASSUME NEW q \in Readers, q # r PROVE Ahead(q)' /\ FullPage(q)' /\ Ended(q)'
  <2>1. pc'[q] = pc[q] /\ seen'[q] = seen[q] /\ got'[q] = got[q]
    BY <1>3, <1>8 DEF FindRows, PagesType
  <2> QED BY <1>5, <2>1 DEF Ahead, FullPage, Ended, Owed, Passed
<1> QED BY <1>4, <1>7, <1>8

LEMMA CountKeeps ==
  ASSUME PagesInvariant, NEW r \in Readers, Count(r)
  PROVE PagesInvariant'
<1> USE DEF PagesInvariant
<1> DEFINE p == page[r]
           n == limit[r]
<1>1. p \in Nat \ {0} /\ n \in Nat \ {0} /\ Len(list) \in Nat /\ got[r] \in Nat
  BY ReaderType
<1>2. Skip(p, n) \in Nat /\ Skip(p + 1, n) = Skip(p, n) + n /\ Skip(p, n) + n = p * n
  BY <1>1, SkipNext
<1>3. PICK total \in Totals(r) :
        /\ told' = [told EXCEPT ![r] =
             IF kind[r] = "products" THEN NoPage ELSE NextPage(p, n, total)]
        /\ IF Continues(r, total)
           THEN page' = [page EXCEPT ![r] = @ + 1] /\ pc' = [pc EXCEPT ![r] = "rows"]
           ELSE UNCHANGED page /\ pc' = [pc EXCEPT ![r] = "done"]
  BY DEF Count
<1>4. total \in Nat BY <1>1, <1>2 DEF Totals
<1>5. /\ NextPage(p, n, total) \in Nat
      /\ NextPage(p, n, total) # NoPage <=> p * n < total
  BY <1>1, <1>4, NextPageMeansMore
<1>6. PagesType'
  <2>1. told' \in [Readers -> Nat] BY <1>3, <1>5 DEF PagesType, NoPage
  <2>2. page' \in [Readers -> Nat \ {0}]
    <3>1. p + 1 \in Nat \ {0} BY <1>1
    <3> QED BY <1>3, <3>1 DEF PagesType
  <2>3. pc' \in [Readers -> {"rows", "count", "done"}] BY <1>3 DEF PagesType
  <2> QED BY <2>1, <2>2, <2>3 DEF Count, PagesType, choice, history
<1>7. ASSUME NEW x \in Owed(r), ~left[r]
      PROVE /\ \E i \in 1 .. Len(list) : list[i] = x /\ i > Skip(p, n) + n
            /\ got[r] = n
            /\ NextPage(p, n, total) # NoPage
  <2>1. pc[r] = "count" BY DEF Count
  <2>2. PICK i \in 1 .. Len(list) : list[i] = x /\ i > Skip(p, n) + n
    BY <1>7, <2>1 DEF Ahead, Passed
  <2>3. got[r] = n BY <1>7, <2>1 DEF FullPage
  <2>4. total = Len(list) BY <1>1, <2>3 DEF Totals
  <2>5. p * n < total BY <1>1, <1>2, <2>2, <2>4
  <2> QED BY <1>5, <2>2, <2>3, <2>5
<1>8. UNCHANGED <<list, kind, tied, limit, got, seen, stable, left>>
  BY DEF Count, choice, history
<1>9. Owed(r)' = Owed(r) BY <1>8 DEF Owed
<1>10. Ahead(r)' /\ FullPage(r)' /\ Ended(r)'
  <2>1. CASE Continues(r, total)
    <3>1. page'[r] = p + 1 /\ pc'[r] = "rows"
      BY <1>3, <2>1 DEF PagesType
    <3>2. Passed(r)' = Skip(p, n) + n
      BY <1>1, <1>2, <1>8, <3>1 DEF Passed
    <3> QED BY <1>7, <1>8, <1>9, <3>1, <3>2 DEF Ahead, FullPage, Ended
  <2>2. CASE ~Continues(r, total)
    <3>1. pc'[r] = "done"
      BY <1>3, <2>2 DEF PagesType
    <3>2. ASSUME NEW x \in Owed(r), ~left[r]
          PROVE kind[r] = "users" /\ told'[r] # NoPage
      <4>1. kind[r] \in {"roles", "products", "users"} BY DEF PagesType
      <4>2. kind[r] = "users" BY <1>7, <2>2, <3>2, <4>1 DEF Continues
      <4> QED BY <1>3, <1>7, <3>2, <4>2 DEF PagesType
    <3> QED BY <1>8, <1>9, <3>1, <3>2 DEF Ahead, FullPage, Ended
  <2> QED BY <2>1, <2>2
<1>11. ASSUME NEW q \in Readers, q # r PROVE Ahead(q)' /\ FullPage(q)' /\ Ended(q)'
  <2>1. pc'[q] = pc[q] /\ page'[q] = page[q] /\ told'[q] = told[q]
    BY <1>3, <1>11 DEF PagesType
  <2> QED BY <1>8, <2>1 DEF Ahead, FullPage, Ended, Owed, Passed
<1> QED BY <1>6, <1>10, <1>11

\* What With leaves where.
WithFacts(s, k, x) ==
  /\ With(s, k, x) \in Seq(Rows) /\ Len(With(s, k, x)) = Len(s) + 1
  /\ \A i \in 1 .. Len(s) + 1 :
       With(s, k, x)[i] = IF i < k THEN s[i] ELSE IF i = k THEN x ELSE s[i - 1]

\* With puts one row into a list.
LEMMA WithType ==
  ASSUME NEW s \in Seq(Rows), NEW k \in 1 .. Len(s) + 1, NEW x \in Rows
  PROVE  WithFacts(s, k, x)
<1>1. \A i \in 1 .. Len(s) + 1 :
        (IF i < k THEN s[i] ELSE IF i = k THEN x ELSE s[i - 1]) \in Rows
  OBVIOUS
<1>2. With(s, k, x) \in [1 .. Len(s) + 1 -> Rows]
  BY <1>1 DEF With
<1>3. Len(s) + 1 \in Nat OBVIOUS
<1>4. With(s, k, x) \in Seq(Rows) /\ Len(With(s, k, x)) = Len(s) + 1
  BY <1>2, <1>3
<1> QED BY <1>4 DEF With, WithFacts

\* The same for Without.
LEMMA WithoutType ==
  ASSUME NEW s \in Seq(Rows), NEW k \in 1 .. Len(s)
  PROVE /\ Without(s, k) \in Seq(Rows) /\ Len(Without(s, k)) = Len(s) - 1
        /\ \A i \in 1 .. Len(s) - 1 : Without(s, k)[i] = IF i < k THEN s[i] ELSE s[i + 1]
<1>1. \A i \in 1 .. Len(s) - 1 : (IF i < k THEN s[i] ELSE s[i + 1]) \in Rows
  OBVIOUS
<1>2. Without(s, k) \in [1 .. Len(s) - 1 -> Rows]
  BY <1>1 DEF Without
<1>3. Len(s) - 1 \in Nat OBVIOUS
<1>4. Without(s, k) \in Seq(Rows) /\ Len(Without(s, k)) = Len(s) - 1
  BY <1>2, <1>3
<1> QED BY <1>4 DEF Without

\* Where rows only move back, what is owed stays ahead.
LEMMA StillAhead ==
  ASSUME PagesInvariant, PagesType', UNCHANGED <<choice, reader>>,
         NEW r \in Readers, stable'[r] \subseteq stable[r], ~left'[r] => ~left[r],
         ~left'[r] => \A x \in stable'[r], i \in 1 .. Len(list) : list[i] = x =>
           \E j \in 1 .. Len(list') : list'[j] = x /\ j >= i
  PROVE Ahead(r)' /\ FullPage(r)' /\ Ended(r)'
<1>1. UNCHANGED <<kind, tied, limit, page, pc, got, told, seen>> BY DEF choice, reader
<1>2. Owed(r)' \subseteq Owed(r) /\ Owed(r)' \subseteq stable'[r] BY <1>1 DEF Owed
<1>3. Passed(r)' = Passed(r) /\ Passed(r) \in Nat BY <1>1, ReaderType DEF Passed, PagesInvariant
<1>4. Ahead(r)'
  <2> SUFFICES ASSUME pc[r] # "done", ~left'[r], NEW x \in Owed(r)'
               PROVE \E j \in 1 .. Len(list') : list'[j] = x /\ j > Passed(r)
    BY <1>1, <1>3 DEF Ahead
  <2>1. PICK i \in 1 .. Len(list) : list[i] = x /\ i > Passed(r)
    BY <1>2 DEF PagesInvariant, Ahead
  <2>2. PICK j \in 1 .. Len(list') : list'[j] = x /\ j >= i BY <1>2, <2>1
  <2>3. Len(list) \in Nat /\ Len(list') \in Nat BY DEF PagesInvariant, PagesType
  <2> QED BY <1>3, <2>1, <2>2, <2>3
<1>5. FullPage(r)' BY <1>1, <1>2 DEF PagesInvariant, FullPage
<1>6. Ended(r)' BY <1>1, <1>2 DEF PagesInvariant, Ended
<1> QED BY <1>4, <1>5, <1>6

LEMMA InsertRowKeeps ==
  ASSUME PagesInvariant, NEW x \in Rows, NEW k \in 1 .. Len(list) + 1, InsertRow(x, k)
  PROVE PagesInvariant'
<1>1. list \in Seq(Rows) /\ Len(list) \in Nat BY DEF PagesInvariant, PagesType
<1>2. /\ list' \in Seq(Rows) /\ Len(list') = Len(list) + 1
      /\ \A i \in 1 .. Len(list) + 1 :
           list'[i] = IF i < k THEN list[i] ELSE IF i = k THEN x ELSE list[i - 1]
  <2>1. list' = With(list, k, x) BY DEF InsertRow
  <2>2. WithFacts(list, k, x) BY <1>1, WithType
  <2> QED BY <2>1, <2>2 DEF WithFacts
<1>3. PagesType'
  BY <1>2 DEF InsertRow, PagesInvariant, PagesType, choice, reader
<1>4. ASSUME NEW i \in 1 .. Len(list)
      PROVE \E j \in 1 .. Len(list') : list'[j] = list[i] /\ j >= i
  <2>1. CASE i < k BY <1>1, <1>2, <2>1
  <2>2. CASE i >= k
    <3>1. i + 1 \in 1 .. Len(list') /\ i + 1 > k /\ (i + 1) - 1 = i
      BY <1>1, <1>2, <2>2
    <3>2. list'[i + 1] = list[i] BY <1>1, <1>2, <3>1
    <3> QED BY <3>1, <3>2
  <2> QED BY <1>1, <2>1, <2>2
<1>5. ASSUME NEW r \in Readers PROVE Ahead(r)' /\ FullPage(r)' /\ Ended(r)'
  <2>1. stable' = stable /\ left' = left /\ UNCHANGED <<choice, reader>> BY DEF InsertRow
  <2> QED BY <1>3, <1>4, <2>1, StillAhead
<1> QED BY <1>3, <1>5 DEF PagesInvariant

LEMMA RemoveRowKeeps ==
  ASSUME PagesInvariant, NEW k \in 1 .. Len(list), RemoveRow(k)
  PROVE PagesInvariant'
<1>1. list' \in Seq(Rows) BY WithoutType DEF RemoveRow, PagesInvariant, PagesType
<1>2. PagesType' BY <1>1 DEF RemoveRow, PagesInvariant, PagesType, choice, reader
<1>3. \A r \in Readers : left'[r] BY DEF RemoveRow
<1> QED BY <1>2, <1>3 DEF PagesInvariant, Ahead, FullPage, Ended

\* Where a row that is moved, and the others, come to be.
LEMMA MoveRowType ==
  ASSUME PagesType, NEW k \in 1 .. Len(list), NEW j \in 1 .. Len(list), MoveRow(k, j)
  PROVE /\ PagesType' /\ Len(list') = Len(list)
        /\ \A i \in 1 .. Len(list) : list'[i] =
             IF i = j THEN list[k]
             ELSE IF j < k THEN (IF i > j /\ i <= k THEN list[i - 1] ELSE list[i])
             ELSE IF i >= k /\ i < j THEN list[i + 1] ELSE list[i]
<1> DEFINE w == Without(list, k)
<1>1. list \in Seq(Rows) /\ Len(list) \in Nat BY DEF PagesType
<1>2. /\ w \in Seq(Rows) /\ Len(w) = Len(list) - 1
      /\ \A i \in 1 .. Len(list) - 1 : w[i] = IF i < k THEN list[i] ELSE list[i + 1]
  BY <1>1, WithoutType
<1>3. list[k] \in Rows BY <1>1
<1>4. list' = With(w, j, list[k]) BY DEF MoveRow
<1> HIDE DEF w
<1>5. /\ list' \in Seq(Rows) /\ Len(list') = Len(list)
      /\ \A i \in 1 .. Len(list) :
           list'[i] = IF i < j THEN w[i] ELSE IF i = j THEN list[k] ELSE w[i - 1]
  <2>1. Len(w) + 1 = Len(list) BY <1>1, <1>2
  <2>2. w \in Seq(Rows) /\ j \in 1 .. Len(w) + 1 BY <1>2, <2>1
  <2>3. WithFacts(w, j, list[k]) BY <1>3, <2>2, WithType
  <2> QED BY <1>4, <2>1, <2>3 DEF WithFacts
<1>6. PagesType'
  BY <1>5 DEF MoveRow, PagesType, choice, reader
<1>7. ASSUME NEW i \in 1 .. Len(list)
      PROVE list'[i] =
             IF i = j THEN list[k]
             ELSE IF j < k THEN (IF i > j /\ i <= k THEN list[i - 1] ELSE list[i])
             ELSE IF i >= k /\ i < j THEN list[i + 1] ELSE list[i]
  <2>1. CASE i < j
    <3>1. i \in 1 .. Len(list) - 1 BY <1>1, <2>1
    <3>2. list'[i] = w[i] BY <1>1, <1>5, <2>1
    <3>3. w[i] = IF i < k THEN list[i] ELSE list[i + 1] BY <1>2, <3>1
    <3>4. k # j BY DEF MoveRow
    <3> QED BY <1>1, <2>1, <3>2, <3>3, <3>4
  <2>2. CASE i = j BY <1>5, <2>2
  <2>3. CASE i > j
    <3>1. i - 1 \in 1 .. Len(list) - 1 /\ (i - 1) + 1 = i BY <1>1, <2>3
    <3>2. list'[i] = w[i - 1] BY <1>1, <1>5, <2>3
    <3>3. w[i - 1] = IF i - 1 < k THEN list[i - 1] ELSE list[i] BY <1>2, <3>1
    <3>4. k # j BY DEF MoveRow
    <3> QED BY <1>1, <2>3, <3>2, <3>3, <3>4
  <2> QED BY <1>1, <2>1, <2>2, <2>3
<1> QED BY <1>5, <1>6, <1>7

LEMMA MoveRowKeeps ==
  ASSUME PagesInvariant, NEW k \in 1 .. Len(list), NEW j \in 1 .. Len(list), MoveRow(k, j)
  PROVE PagesInvariant'
<1>1. list \in Seq(Rows) /\ Len(list) \in Nat BY DEF PagesInvariant, PagesType
<1>2. /\ PagesType' /\ Len(list') = Len(list)
      /\ \A i \in 1 .. Len(list) : list'[i] =
           IF i = j THEN list[k]
           ELSE IF j < k THEN (IF i > j /\ i <= k THEN list[i - 1] ELSE list[i])
           ELSE IF i >= k /\ i < j THEN list[i + 1] ELSE list[i]
  BY MoveRowType DEF PagesInvariant
<1>3. ASSUME NEW r \in Readers PROVE Ahead(r)' /\ FullPage(r)' /\ Ended(r)'
  <2>1. /\ stable'[r] = stable[r] \ {list[k]} /\ UNCHANGED <<choice, reader>>
    BY DEF MoveRow
  <2>2. left'[r] <=> left[r] \/ k < j
    BY Zenon DEF MoveRow
  <2>3. ASSUME ~left'[r], NEW i \in 1 .. Len(list), list[i] \in stable'[r]
        PROVE \E m \in 1 .. Len(list') : list'[m] = list[i] /\ m >= i
    <3>1. j < k /\ i # k BY <1>1, <2>1, <2>2, <2>3 DEF MoveRow
    <3>2. CASE i < j \/ i > k
      <4>1. list'[i] = list[i] BY <1>1, <1>2, <3>1, <3>2
      <4> QED BY <1>1, <1>2, <4>1
    <3>3. CASE i >= j /\ i < k
      <4>1. i + 1 \in 1 .. Len(list) /\ i + 1 > j /\ i + 1 <= k /\ (i + 1) - 1 = i
        BY <1>1, <3>3
      <4>2. list'[i + 1] = list[i] BY <1>2, <3>1, <4>1
      <4> QED BY <1>1, <1>2, <4>1, <4>2
    <3> QED BY <1>1, <3>1, <3>2, <3>3
  <2>4. ~left'[r] => ~left[r] BY <2>2
  <2>5. ~left'[r] => \A x \in stable'[r], i \in 1 .. Len(list) : list[i] = x =>
           \E m \in 1 .. Len(list') : list'[m] = x /\ m >= i
    BY <2>3
  <2> QED BY <1>2, <2>1, <2>4, <2>5, StillAhead
<1> QED BY <1>2, <1>3 DEF PagesInvariant

\* The inductive invariant: what a reader is owed is still ahead of it.
THEOREM PagesInvariantHolds == Spec => []PagesInvariant
<1>1. ASSUME PagesInvariant, [Next]_vars PROVE PagesInvariant'
  <2>1. ASSUME NEW r \in Readers, FindRows(r) PROVE PagesInvariant'
    BY <1>1, <2>1, FindRowsKeeps
  <2>2. ASSUME NEW r \in Readers, Count(r) PROVE PagesInvariant'
    BY <1>1, <2>2, CountKeeps
  <2>3. ASSUME NEW x \in Rows, NEW k \in 1 .. Len(list) + 1, InsertRow(x, k) PROVE PagesInvariant'
    BY <1>1, <2>3, InsertRowKeeps
  <2>4. ASSUME NEW k \in 1 .. Len(list), RemoveRow(k) PROVE PagesInvariant'
    BY <1>1, <2>4, RemoveRowKeeps
  <2>5. ASSUME NEW k \in 1 .. Len(list), NEW j \in 1 .. Len(list), MoveRow(k, j)
        PROVE PagesInvariant'
    BY <1>1, <2>5, MoveRowKeeps
  <2>6. CASE UNCHANGED vars
    BY <1>1, <2>6
    DEF vars, choice, reader, history, PagesInvariant, PagesType, Ahead, FullPage, Ended, Owed, Passed
  <2> QED BY <1>1, <2>1, <2>2, <2>3, <2>4, <2>5, <2>6 DEF Next
<1> QED BY InitPages, <1>1, PTL DEF Spec

\* Nobody misses a row that was there all along, unmoved and untied, unless
\* rows were removed or moved down.
THEOREM OldRowsAreAlwaysSeen == Spec => []OldRowsAreSeen
<1>1. PagesInvariant => OldRowsAreSeen
  <2> SUFFICES ASSUME PagesInvariant, NEW r \in Readers, pc[r] = "done", ~left[r]
               PROVE \/ stable[r] \subseteq seen[r] \cup tied[r]
                     \/ kind[r] = "users" /\ told[r] # NoPage
    BY DEF OldRowsAreSeen
  <2> QED BY DEF PagesInvariant, Ended, Owed
<1> QED BY PagesInvariantHolds, <1>1, PTL

--------------------------------------------------------------------------------
LEMMA RepeatStep ==
  ASSUME PagesInvariant, RepeatInvariant, [Next]_vars
  PROVE RepeatInvariant'
<1> USE DEF PagesInvariant, RepeatInvariant
<1>0. /\ list \in Seq(Rows) /\ Len(list) \in Nat
      /\ \A r \in Readers :
           /\ page[r] \in Nat \ {0} /\ limit[r] \in Nat \ {0}
           /\ Skip(page[r], limit[r]) \in Nat /\ Passed(r) \in Nat
           /\ Skip(page[r] + 1, limit[r]) = Skip(page[r], limit[r]) + limit[r]
  BY ReaderType DEF PagesType
<1>1. ASSUME NEW r \in Readers, FindRows(r) PROVE RepeatInvariant'
  <2> DEFINE window == {list[i] : i \in First(r) .. Last(r)}
             s == Skip(page[r], limit[r])
  <2>1. First(r) = s + 1 /\ Last(r) \in Nat /\ Last(r) <= s + limit[r] /\ Last(r) <= Len(list)
    BY <1>0 DEF First, Last, Smaller
  <2>2. PICK rows \in SUBSET Present :
          /\ rows \ tied[r] = window \ tied[r]
          /\ seen' = [seen EXCEPT ![r] = @ \cup rows]
          /\ repeated' = [repeated EXCEPT ![r] = @ \cup (rows \cap seen[r])]
    BY <1>1 DEF FindRows
  <2>3. /\ UNCHANGED <<list, page, limit, tied, entered>>
        /\ pc[r] = "rows" /\ pc' = [pc EXCEPT ![r] = "count"]
    BY <1>1 DEF FindRows, choice, history
  <2>4. ASSUME ~entered[r] PROVE Behind(r)'
    <3>1. Passed(r) = s /\ Passed(r)' = s + limit[r]
      BY <1>0, <2>3 DEF Passed, PagesType
    <3>2. ASSUME NEW x \in rows \ tied[r] PROVE x \notin seen[r]
      <4>1. PICK i \in First(r) .. Last(r) : x = list[i] BY <2>2, <3>2
      <4>2. i \in 1 .. Len(list) /\ i > s BY <1>0, <2>1, <4>1
      <4> QED BY <1>0, <2>4, <3>1, <3>2, <4>1, <4>2 DEF Behind
    <3>3. repeated'[r] \subseteq tied[r]
      <4>1. repeated'[r] = repeated[r] \cup (rows \cap seen[r]) BY <2>2 DEF PagesType
      <4>2. repeated[r] \subseteq tied[r] BY <2>4 DEF Behind
      <4> QED BY <3>2, <4>1, <4>2
    <3>4. ASSUME NEW i \in 1 .. Len(list), list[i] \in seen'[r] \ tied[r] PROVE i <= s + limit[r]
      <4>1. CASE list[i] \in seen[r]
        <5>1. i <= s BY <2>4, <3>1, <3>4, <4>1 DEF Behind
        <5> QED BY <1>0, <5>1
      <4>2. CASE list[i] \in rows
        <5>1. PICK j \in First(r) .. Last(r) : list[i] = list[j] BY <2>2, <3>4, <4>2
        <5>2. i = j BY <1>0, <2>1, <5>1 DEF Distinct
        <5> QED BY <1>0, <2>1, <5>1, <5>2
      <4> QED BY <2>2, <3>4, <4>1, <4>2 DEF PagesType
    <3> QED BY <2>3, <3>1, <3>3, <3>4 DEF Behind
  <2>5. ASSUME NEW q \in Readers, q # r PROVE Behind(q)'
    <3>1. pc'[q] = pc[q] /\ seen'[q] = seen[q] /\ repeated'[q] = repeated[q]
      BY <2>2, <2>3, <2>5 DEF PagesType
    <3> QED BY <2>3, <3>1 DEF Behind, Passed
  <2>6. Behind(r)' BY <2>3, <2>4 DEF Behind
  <2> QED BY <2>3, <2>5, <2>6 DEF Distinct
<1>2. ASSUME NEW r \in Readers, Count(r) PROVE RepeatInvariant'
  <2>1. UNCHANGED <<list, limit, tied, seen, repeated, entered>>
    BY <1>2 DEF Count, choice, history
  <2>2. /\ pc[r] = "count"
        /\ \/ page' = [page EXCEPT ![r] = @ + 1] /\ pc' = [pc EXCEPT ![r] = "rows"]
           \/ page' = page /\ pc' = [pc EXCEPT ![r] = "done"]
    BY <1>2 DEF Count
  <2>3. ASSUME NEW q \in Readers PROVE Passed(q)' = Passed(q)
    <3>1. CASE q = r BY <1>0, <2>1, <2>2, <3>1 DEF Passed, PagesType
    <3>2. CASE q # r BY <1>0, <2>1, <2>2, <3>2 DEF Passed, PagesType
    <3> QED BY <3>1, <3>2
  <2> QED BY <2>1, <2>3 DEF Distinct, Behind
<1>3. ASSUME NEW x \in Rows, NEW k \in 1 .. Len(list) + 1, InsertRow(x, k) PROVE RepeatInvariant'
  <2>1. \A r \in Readers : entered'[r] BY <1>3 DEF InsertRow
  <2>2. /\ Len(list') = Len(list) + 1
        /\ \A i \in 1 .. Len(list) + 1 :
             list'[i] = IF i < k THEN list[i] ELSE IF i = k THEN x ELSE list[i - 1]
    <3>1. list \in Seq(Rows) /\ list' = With(list, k, x) BY <1>0, <1>3 DEF InsertRow, PagesInvariant, PagesType
    <3>2. WithFacts(list, k, x) BY <3>1, WithType
    <3> QED BY <3>1, <3>2 DEF WithFacts
  <2>3. \A m \in 1 .. Len(list) : list[m] # x BY <1>0, <1>3 DEF InsertRow, Present
  <2>4. Distinct'
    <3> SUFFICES ASSUME NEW i \in 1 .. Len(list) + 1, NEW m \in 1 .. Len(list) + 1,
                        list'[i] = list'[m]
                 PROVE i = m
      BY <2>2 DEF Distinct
    <3>1. CASE i = k /\ m # k BY <1>0, <2>2, <2>3, <3>1
    <3>2. CASE i # k /\ m = k BY <1>0, <2>2, <2>3, <3>2
    <3>3. CASE i # k /\ m # k
      <4> DEFINE Old(n) == IF n < k THEN n ELSE n - 1
      <4>1. Old(i) \in 1 .. Len(list) /\ Old(m) \in 1 .. Len(list) BY <1>0, <3>3
      <4>2. list[Old(i)] = list[Old(m)] BY <1>0, <2>2, <3>3
      <4>3. Old(i) = Old(m) BY <4>1, <4>2 DEF Distinct
      <4> QED BY <1>0, <3>3, <4>3
    <3> QED BY <3>1, <3>2, <3>3
  <2> QED BY <2>1, <2>4 DEF Behind
<1>4. ASSUME NEW k \in 1 .. Len(list), RemoveRow(k) PROVE RepeatInvariant'
  <2>1. /\ Len(list') = Len(list) - 1
        /\ \A i \in 1 .. Len(list) - 1 : list'[i] = IF i < k THEN list[i] ELSE list[i + 1]
    BY <1>0, <1>4, WithoutType DEF RemoveRow
  <2>2. UNCHANGED <<page, limit, tied, pc, seen, repeated, entered>>
    BY <1>4 DEF RemoveRow, choice, reader
  <2>3. Distinct' BY <1>0, <2>1 DEF Distinct
  <2>4. ASSUME NEW r \in Readers PROVE Behind(r)'
    <3>1. Passed(r)' = Passed(r) BY <2>2 DEF Passed
    <3>2. ASSUME NEW i \in 1 .. Len(list) - 1, list'[i] \in seen[r] \ tied[r], ~entered[r]
          PROVE i <= Passed(r)
      <4>1. CASE i < k
        <5>1. i \in 1 .. Len(list) /\ list[i] \in seen[r] \ tied[r]
          BY <1>0, <2>1, <3>2, <4>1
        <5> QED BY <3>2, <5>1 DEF Behind
      <4>2. CASE ~(i < k)
        <5>1. i + 1 \in 1 .. Len(list) /\ list[i + 1] \in seen[r] \ tied[r]
          BY <1>0, <2>1, <3>2, <4>2
        <5>2. i + 1 <= Passed(r) BY <3>2, <5>1 DEF Behind
        <5> QED BY <1>0, <5>2
      <4> QED BY <4>1, <4>2
    <3> QED BY <2>1, <2>2, <3>1, <3>2 DEF Behind
  <2> QED BY <2>3, <2>4
<1>5. ASSUME NEW k \in 1 .. Len(list), NEW j \in 1 .. Len(list), MoveRow(k, j)
      PROVE RepeatInvariant'
  <2>1. \A r \in Readers : entered'[r] BY <1>5 DEF MoveRow
  <2>2. /\ Len(list') = Len(list)
        /\ \A i \in 1 .. Len(list) : list'[i] =
             IF i = j THEN list[k]
             ELSE IF j < k THEN (IF i > j /\ i <= k THEN list[i - 1] ELSE list[i])
             ELSE IF i >= k /\ i < j THEN list[i + 1] ELSE list[i]
    BY <1>5, MoveRowType
  <2>3. k # j BY <1>5 DEF MoveRow
  <2>4. Distinct'
    <3> SUFFICES ASSUME NEW i \in 1 .. Len(list), NEW m \in 1 .. Len(list), list'[i] = list'[m]
                 PROVE i = m
      BY <2>2 DEF Distinct
    <3> DEFINE Old(n) == IF n = j THEN k
                         ELSE IF j < k THEN (IF n > j /\ n <= k THEN n - 1 ELSE n)
                         ELSE IF n >= k /\ n < j THEN n + 1 ELSE n
    <3>1. ASSUME NEW n \in 1 .. Len(list)
          PROVE Old(n) \in 1 .. Len(list) /\ list'[n] = list[Old(n)]
      BY <1>0, <2>2, <2>3, <3>1
    <3>2. Old(i) = Old(m) BY <3>1 DEF Distinct
    <3> QED BY <1>0, <2>3, <3>2
  <2> QED BY <2>1, <2>4 DEF Behind
<1>6. CASE UNCHANGED vars
  BY <1>6 DEF vars, choice, reader, history, Distinct, Behind, Passed
<1> QED BY <1>1, <1>2, <1>3, <1>4, <1>5, <1>6 DEF Next

\* No untied row is handed out twice unless rows were inserted or moved.
THEOREM RepeatsAreExplained == Spec => []RepeatsHaveAReason
<1>1. Init => RepeatInvariant
  <2> SUFFICES ASSUME Init PROVE RepeatInvariant
    OBVIOUS
  <2>1. list \in Seq(Rows) BY InitPages DEF PagesInvariant, PagesType
  <2> QED BY <2>1 DEF Init, RepeatInvariant, Distinct, Behind
<1>2. RepeatInvariant => RepeatsHaveAReason
  BY DEF RepeatInvariant, Behind, RepeatsHaveAReason
<1> QED BY PagesInvariantHolds, RepeatStep, <1>1, <1>2, PTL DEF Spec
================================================================================
