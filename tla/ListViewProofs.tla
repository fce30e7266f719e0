--------------------------- MODULE ListViewProofs ---------------------------
(***************************************************************************)
(* Proofs about ListView, for tables of any finite size, any number of     *)
(* searches, requests in flight and failures.                              *)
(*                                                                         *)
(* A first page that nothing crosses is alone with refreshes that will be  *)
(* ignored, and answers the last search; a next page that nothing crosses  *)
(* was asked for with a cursor of the list it will join.  A cursor of the  *)
(* list is behind every row that is due and not yet listed, up to the rows *)
(* of the millisecond that the cursor cuts off.                            *)
(***************************************************************************)
EXTENDS ListView, FiniteSetTheorems, WellFoundedInduction, TLAPS

(***************************************************************************)
(* What Paginate returns, for any finite set of rows with ids of their     *)
(* own: a page is an initial segment of what its cursor selects, its next  *)
(* cursor is that of its last row, and there is none exactly when the page *)
(* has all that was selected.                                              *)
(***************************************************************************)

\* Rows of a table: finitely many, told apart by their ids.
Keyed(rows) ==
    /\ IsFiniteSet(rows)
    /\ \A r \in rows : r.at \in Nat /\ r.id \in Nat
    /\ \A r, s \in rows : r.id = s.id => r = s

\* The rows before r.
Preds(rows, dir, r) == {s \in rows : Precedes(dir, s, r)}

-----------------------------------------------------------------------------
(* cursor-row.ts: an instant cut to its millisecond is not later, and what *)
(* lies between the two belongs to the same millisecond.                   *)
LEMMA CutToMs ==
    ASSUME NEW t \in Nat
    PROVE  Ms(t) \in Nat /\ Ms(t) <= t
BY PaginationAssumption DEF Ms

LEMMA CutTogether ==
    ASSUME NEW t \in Nat, NEW u \in Nat, Ms(t) <= u, u <= t
    PROVE  Ms(u) = Ms(t)
<1>1. PICK P \in Nat \ {0} : P = PerMs
  BY PaginationAssumption
<1>2. ASSUME NEW x \in Nat
      PROVE  /\ x \div P \in Nat /\ x % P \in 0..(P - 1)
             /\ x = P * (x \div P) + (x % P)
  OBVIOUS
<1>3. PICK a \in Nat, b \in Nat : /\ a = t \div P /\ b = u \div P
  BY <1>2
<1>4. /\ Ms(t) = P * a /\ Ms(u) = P * b
      /\ P * a <= u /\ P * b <= u /\ t < P * a + P /\ u < P * b + P
  BY <1>1, <1>2, <1>3 DEF Ms
<1>5. ASSUME NEW x \in Nat, NEW y \in Nat, x < y
      PROVE  P * x + P <= P * y
  <2>1. P * y - (P * x + P) = P * (y - x - 1)
    OBVIOUS
  <2>2. y - x - 1 \in Nat
    BY <1>5
  <2>3. P * (y - x - 1) \in Nat
    BY <2>2
  <2> QED
    BY <2>1, <2>3
<1>6. a = b
  BY <1>4, <1>5
<1> QED
  BY <1>4, <1>6

-----------------------------------------------------------------------------
(* cursor-query.ts orders by created_at and id: a total order, in either   *)
(* direction.                                                              *)
LEMMA PrecedesIsTotal ==
    ASSUME NEW rows, Keyed(rows), NEW dir \in Directions, NEW r \in rows, NEW s \in rows
    PROVE  /\ ~Precedes(dir, r, r)
           /\ r = s \/ Precedes(dir, r, s) \/ Precedes(dir, s, r)
           /\ ~(Precedes(dir, r, s) /\ Precedes(dir, s, r))
BY DEF Keyed, Precedes, Before, Directions

LEMMA PrecedesIsTransitive ==
    ASSUME NEW rows, Keyed(rows), NEW dir \in Directions,
           NEW r \in rows, NEW s \in rows, NEW t \in rows,
           Precedes(dir, r, s), Precedes(dir, s, t)
    PROVE  Precedes(dir, r, t)
BY DEF Keyed, Precedes, Before, Directions

LEMMA KeyedSubset ==
    ASSUME NEW rows, Keyed(rows), NEW sub \in SUBSET rows
    PROVE  Keyed(sub)
BY FS_Subset DEF Keyed

\* A row has fewer rows before it than a row that it precedes.
LEMMA PredsCount ==
    ASSUME NEW rows, Keyed(rows), NEW dir \in Directions, NEW r \in rows
    PROVE  /\ Cardinality(Preds(rows, dir, r)) \in Nat
           /\ \A s \in rows : Precedes(dir, s, r) =>
                 Cardinality(Preds(rows, dir, s)) < Cardinality(Preds(rows, dir, r))
<1>1. \A s \in rows : IsFiniteSet(Preds(rows, dir, s)) /\ Cardinality(Preds(rows, dir, s)) \in Nat
  <2> SUFFICES ASSUME NEW s \in rows
               PROVE  IsFiniteSet(Preds(rows, dir, s)) /\ Cardinality(Preds(rows, dir, s)) \in Nat
    OBVIOUS
  <2>1. IsFiniteSet(rows)
    BY DEF Keyed
  <2>2. Preds(rows, dir, s) \in SUBSET rows
    BY DEF Preds
  <2>3. IsFiniteSet(Preds(rows, dir, s))
    BY <2>1, <2>2, FS_Subset
  <2> QED
    BY <2>3, FS_CardinalityType
<1>2. ASSUME NEW s \in rows, Precedes(dir, s, r)
      PROVE  Cardinality(Preds(rows, dir, s)) < Cardinality(Preds(rows, dir, r))
  <2>1. Preds(rows, dir, s) \in SUBSET Preds(rows, dir, r)
    BY <1>2, PrecedesIsTransitive DEF Preds
  <2>2. s \in Preds(rows, dir, r) /\ s \notin Preds(rows, dir, s)
    BY <1>2, PrecedesIsTotal DEF Preds
  <2>3. /\ Cardinality(Preds(rows, dir, s)) <= Cardinality(Preds(rows, dir, r))
        /\ Cardinality(Preds(rows, dir, r)) = Cardinality(Preds(rows, dir, s))
              => Preds(rows, dir, r) = Preds(rows, dir, s)
    BY <1>1, <2>1, FS_Subset
  <2> QED
    BY <1>1, <2>2, <2>3
<1> QED
  BY <1>1, <1>2

\* Some rows that are not none have a first one.
LEMMA FirstExists ==
    ASSUME NEW rows, Keyed(rows), NEW dir \in Directions, rows # {}
    PROVE  \E m \in rows : \A r \in rows \ {m} : Precedes(dir, m, r)
<1> DEFINE Count(r) == Cardinality(Preds(rows, dir, r))
           Counts == {Count(r) : r \in rows}
<1>1. Counts \subseteq Nat /\ Counts # {}
  BY PredsCount
<1>2. PICK n \in Counts : \A k \in Counts : ~(k < n)
  <2>1. \E n \in Counts : \A k \in Counts : <<k, n>> \notin OpToRel(<, Nat)
    BY <1>1, NatLessThanWellFounded, WFMin
  <2> QED
    BY <1>1, <2>1 DEF OpToRel
<1>3. PICK m \in rows : n = Count(m)
  OBVIOUS
<1>4. \A r \in rows : ~Precedes(dir, r, m)
  BY <1>1, <1>2, <1>3, PredsCount
<1> QED
  BY <1>4, PrecedesIsTotal

LEMMA EndsExist ==
    ASSUME NEW rows, Keyed(rows), rows # {}
    PROVE  /\ FirstIn(rows) \in rows /\ \A r \in rows \ {FirstIn(rows)} : Before(FirstIn(rows), r)
           /\ LastIn(rows) \in rows /\ \A r \in rows \ {LastIn(rows)} : Before(r, LastIn(rows))
<1>1. \E m \in rows : \A r \in rows \ {m} : Before(m, r)
  BY FirstExists DEF Precedes, Directions
<1>2. \E m \in rows : \A r \in rows \ {m} : Before(r, m)
  <2>1. \E m \in rows : \A r \in rows \ {m} : Precedes("prev", m, r)
    BY FirstExists DEF Directions
  <2> QED
    BY <2>1 DEF Precedes
<1> QED
  BY <1>1, <1>2 DEF FirstIn, LastIn

-----------------------------------------------------------------------------
(* executeCursorQuery takes the first rows that the database returns: with *)
(* a row, all that come before it; all of them when asking for one more    *)
(* row returns no more.                                                    *)
LEMMA TopIsInitial ==
    ASSUME NEW rows, Keyed(rows), NEW dir \in Directions, NEW n \in Nat,
           NEW r \in Top(n, rows, dir), NEW s \in rows, Precedes(dir, s, r)
    PROVE  s \in Top(n, rows, dir)
<1>1. r \in rows /\ Cardinality(Preds(rows, dir, r)) < n
  BY DEF Top, Preds
<1>2. /\ Cardinality(Preds(rows, dir, s)) < Cardinality(Preds(rows, dir, r))
      /\ Cardinality(Preds(rows, dir, s)) \in Nat /\ Cardinality(Preds(rows, dir, r)) \in Nat
  BY <1>1, PredsCount
<1> QED
  BY <1>1, <1>2 DEF Top, Preds

LEMMA TopIsNotEmpty ==
    ASSUME NEW rows, Keyed(rows), NEW dir \in Directions, NEW n \in Nat \ {0}, rows # {}
    PROVE  Top(n, rows, dir) # {}
<1>1. PICK m \in rows : \A r \in rows \ {m} : Precedes(dir, m, r)
  BY FirstExists
<1>2. Preds(rows, dir, m) = {}
  BY <1>1, PrecedesIsTotal DEF Preds
<1> QED
  BY <1>2, FS_EmptySet DEF Top, Preds

LEMMA TopIsAll ==
    ASSUME NEW rows, Keyed(rows), NEW dir \in Directions, NEW n \in Nat,
           Top(n + 1, rows, dir) = Top(n, rows, dir)
    PROVE  Top(n, rows, dir) = rows
<1> DEFINE Rest == rows \ Top(n, rows, dir)
<1>1. SUFFICES ASSUME Rest # {} PROVE FALSE
  BY DEF Top
<1>2. PICK m \in Rest : \A r \in Rest \ {m} : Precedes(dir, m, r)
  <2>1. Keyed(Rest)
    BY KeyedSubset
  <2> HIDE DEF Rest
  <2> QED
    BY <1>1, <2>1, FirstExists
<1>3. Cardinality(Preds(rows, dir, m)) \in Nat
  BY PredsCount
<1>4. CASE Preds(rows, dir, m) = {}
  <2>1. m \in Top(n + 1, rows, dir)
    BY <1>4, FS_EmptySet DEF Top, Preds
  <2> QED
    BY <2>1
<1>5. CASE Preds(rows, dir, m) # {}
  \* p is the row just before m, and in the page.
  <2> DEFINE back == IF dir = "next" THEN "prev" ELSE "next"
  <2>1. /\ back \in Directions
        /\ \A r \in rows, s \in rows : Precedes(back, r, s) <=> Precedes(dir, s, r)
    BY DEF Directions, Precedes
  <2>2. PICK p \in Preds(rows, dir, m) :
            \A r \in Preds(rows, dir, m) \ {p} : Precedes(back, p, r)
    <3>1. Keyed(Preds(rows, dir, m))
      BY KeyedSubset DEF Preds
    <3> HIDE DEF back
    <3> QED
      BY <1>5, <2>1, <3>1, FirstExists
  <2>3. p \in rows /\ Precedes(dir, p, m)
    BY <2>2 DEF Preds
  <2>4. p \in Top(n, rows, dir)
    BY <1>2, <2>3, PrecedesIsTotal
  <2>5. Preds(rows, dir, m) = Preds(rows, dir, p) \cup {p}
    <3>1. ASSUME NEW r \in rows, Precedes(dir, r, p) PROVE Precedes(dir, r, m)
      BY <2>3, <3>1, PrecedesIsTransitive
    <3>2. ASSUME NEW r \in rows, Precedes(dir, r, m), r # p PROVE Precedes(dir, r, p)
      BY <2>1, <2>2, <2>3, <3>2 DEF Preds
    <3> QED
      BY <2>3, <3>1, <3>2 DEF Preds
  <2>6. /\ IsFiniteSet(Preds(rows, dir, p))
        /\ Cardinality(Preds(rows, dir, p)) \in Nat /\ Cardinality(Preds(rows, dir, p)) < n
    <3>1. IsFiniteSet(Preds(rows, dir, p))
      BY KeyedSubset DEF Keyed, Preds
    <3> QED
      BY <2>3, <2>4, <3>1, FS_CardinalityType DEF Top, Preds
  <2>7. Cardinality(Preds(rows, dir, m)) <= Cardinality(Preds(rows, dir, p)) + 1
    <3>1. PICK before : before = Preds(rows, dir, p)
      OBVIOUS
    <3>2. Cardinality(before \cup {p}) = IF p \in before THEN Cardinality(before)
                                                         ELSE Cardinality(before) + 1
      BY <2>6, <3>1, FS_AddElement
    <3> QED
      BY <2>5, <2>6, <3>1, <3>2
  <2>8. m \in Top(n + 1, rows, dir)
    BY <1>3, <2>6, <2>7 DEF Top, Preds
  <2> QED
    BY <2>8
<1> QED
  BY <1>4, <1>5

\* A page that leaves a row out is full.
LEMMA TopIsFull ==
    ASSUME NEW rows, Keyed(rows), NEW dir \in Directions, NEW n \in Nat,
           Top(n, rows, dir) # rows
    PROVE  Cardinality(Top(n, rows, dir)) = n
<1> DEFINE top == Top(n, rows, dir)
           Rest == rows \ top
           back == IF dir = "next" THEN "prev" ELSE "next"
<1>1. top \in SUBSET rows /\ Keyed(top) /\ IsFiniteSet(top) /\ Rest # {}
  <2>1. top \in SUBSET rows
    BY DEF Top
  <2>2. Keyed(top)
    BY <2>1, KeyedSubset
  <2> QED
    BY <2>1, <2>2 DEF Keyed
<1>2. PICK m \in Rest : \A r \in Rest \ {m} : Precedes(dir, m, r)
  <2>1. Keyed(Rest)
    BY KeyedSubset
  <2> HIDE DEF Rest
  <2> QED
    BY <1>1, <2>1, FirstExists
<1>3. Cardinality(top) \in Nat
  BY <1>1, FS_CardinalityType
<1>4. n <= Cardinality(top)
  <2>1. Preds(rows, dir, m) \in SUBSET top
    BY <1>2, PrecedesIsTotal DEF Preds
  <2>2. Cardinality(Preds(rows, dir, m)) <= Cardinality(top)
    BY <1>1, <2>1, FS_Subset
  <2>3. Cardinality(Preds(rows, dir, m)) \in Nat /\ ~(Cardinality(Preds(rows, dir, m)) < n)
    BY <1>2, PredsCount DEF Top, Preds
  <2> QED
    BY <1>3, <2>2, <2>3
<1>5. Cardinality(top) <= n
  <2>1. CASE top = {}
    BY <2>1, FS_EmptySet
  <2>2. CASE top # {}
    \* l is the last row of the page: all others precede it.
    <3>1. /\ back \in Directions
          /\ \A r \in rows, s \in rows : Precedes(back, r, s) <=> Precedes(dir, s, r)
      BY DEF Directions, Precedes
    <3>2. PICK l \in top : \A r \in top \ {l} : Precedes(dir, r, l)
      <4>1. PICK l \in top : \A r \in top \ {l} : Precedes(back, l, r)
        <5> HIDE DEF top, back
        <5> QED
          BY <1>1, <2>2, <3>1, FirstExists
      <4> QED
        BY <1>1, <3>1, <4>1
    <3>3. Cardinality(Preds(rows, dir, l)) \in Nat /\ Cardinality(Preds(rows, dir, l)) < n
      BY <1>1, PredsCount DEF Top, Preds
    <3>4. /\ IsFiniteSet(Preds(rows, dir, l))
          /\ top \in SUBSET (Preds(rows, dir, l) \cup {l})
      <4>1. IsFiniteSet(Preds(rows, dir, l))
        BY KeyedSubset DEF Keyed, Preds
      <4> QED
        BY <1>1, <3>2, <4>1 DEF Preds
    <3>5. /\ IsFiniteSet(Preds(rows, dir, l) \cup {l})
          /\ Cardinality(Preds(rows, dir, l) \cup {l}) <= Cardinality(Preds(rows, dir, l)) + 1
      BY <3>3, <3>4, FS_AddElement
    <3>6. Cardinality(top) <= Cardinality(Preds(rows, dir, l) \cup {l})
      BY <3>4, <3>5, FS_Subset
    <3>7. Cardinality(Preds(rows, dir, l) \cup {l}) \in Nat
      BY <3>5, FS_CardinalityType
    <3> QED
      BY <1>3, <3>3, <3>5, <3>6, <3>7
  <2> QED
    BY <2>1, <2>2
<1> QED
  BY <1>3, <1>4, <1>5

-----------------------------------------------------------------------------
(* paginateCursor, reading forwards. *)
LEMMA ForwardPage ==
    ASSUME NEW rows, Keyed(rows), NEW q, NEW c, \A r \in rows : CursorOf(r, q) # None,
           NEW page, page = Paginate(rows, q, c, "next")
    PROVE  /\ page.data \subseteq Selected(rows, q, c, "next")
           /\ \A r \in page.data, s \in Selected(rows, q, c, "next") :
                 Before(s, r) => s \in page.data
           /\ \/ page.next = None /\ page.data = Selected(rows, q, c, "next")
              \/ \E l \in page.data : /\ page.next = CursorOf(l, q)
                                      /\ \A r \in page.data \ {l} : Before(r, l)
           /\ page.prev = None \/ \E f \in page.data : page.prev = CursorOf(f, q)
<1> DEFINE sel == Selected(rows, q, c, "next")
           data == Top(Limit, sel, "next")
           extra == Top(Limit + 1, sel, "next") # data
<1>1. /\ page.data = data
      /\ page.next = IF extra /\ data # {} THEN CursorOf(LastIn(data), q) ELSE None
      /\ page.prev = IF c # None /\ data # {} THEN CursorOf(FirstIn(data), q) ELSE None
  BY DEF Paginate
<1>2. sel \in SUBSET rows /\ Keyed(sel) /\ data \in SUBSET sel /\ Keyed(data)
  <2>1. sel \in SUBSET rows
    BY DEF Selected
  <2>2. data \in SUBSET sel
    BY DEF Top
  <2> QED
    BY <2>1, <2>2, KeyedSubset
<1>3. \A r, s : Precedes("next", s, r) <=> Before(s, r)
  BY DEF Precedes
<1>4. Limit \in Nat \ {0} /\ "next" \in Directions
  BY PaginationAssumption DEF Directions
<1> HIDE DEF sel
<1>5. \A r \in data, s \in sel : Before(s, r) => s \in data
  BY <1>2, <1>3, <1>4, TopIsInitial
<1>6. ~extra => data = sel
  BY <1>2, <1>4, TopIsAll
<1>7. sel # {} => data # {}
  BY <1>2, <1>4, TopIsNotEmpty
<1>8. data # {} => /\ FirstIn(data) \in data /\ LastIn(data) \in data
                   /\ \A r \in data \ {LastIn(data)} : Before(r, LastIn(data))
  <2> HIDE DEF data
  <2> QED
    BY <1>2, EndsExist
<1>9. data = {} => ~extra
  BY <1>7, <1>2 DEF Top
<1> HIDE DEF data, extra
<1>10. \/ page.next = None /\ page.data = sel
       \/ \E l \in page.data : /\ page.next = CursorOf(l, q)
                               /\ \A r \in page.data \ {l} : Before(r, l)
  BY <1>1, <1>6, <1>8, <1>9
<1>11. page.prev = None \/ \E f \in page.data : page.prev = CursorOf(f, q)
  BY <1>1, <1>8
<1> QED
  BY <1>1, <1>2, <1>5, <1>10, <1>11 DEF sel

(* paginateCursor, reading backwards from a page that begins with f: what  *)
(* the cursor selects, and of that the rows nearest to f.                  *)
LEMMA BackwardSelection ==
    ASSUME NEW rows, Keyed(rows), NEW q, NEW f \in rows, CursorOf(f, q) # None
    PROVE  LET sel == Selected(rows, q, CursorOf(f, q), "prev")
           IN  /\ sel \subseteq rows
               /\ \A r \in sel : Before(r, f) \/ SameMs(r, f)
               /\ \A r \in rows : q \in r.in /\ Before(r, f) => r \in sel
<1> DEFINE c == CursorOf(f, q)
<1>1. c.at = Ms(f.at) /\ c.id = f.id /\ c # None
  BY DEF CursorOf
<1>2. /\ f.at \in Nat /\ f.id \in Nat /\ Ms(f.at) \in Nat /\ Ms(f.at) <= f.at
      /\ \A r \in rows : r.at \in Nat /\ r.id \in Nat
  BY CutToMs DEF Keyed
<1> DEFINE sel == Selected(rows, q, c, "prev")
<1>3. sel = {r \in rows : (q \in r.in /\ r.at > c.at) \/ (r.at = c.at /\ r.id > c.id)}
  BY <1>1 DEF Selected, Beyond
<1>4. ASSUME NEW r \in sel PROVE Before(r, f) \/ SameMs(r, f)
  <2>1. r \in rows /\ r.at >= Ms(f.at)
    BY <1>1, <1>2, <1>3
  <2>2. CASE r.at > f.at
    BY <2>2 DEF Before
  <2>3. CASE r.at <= f.at
    BY <1>2, <2>1, <2>3, CutTogether DEF SameMs
  <2> QED
    BY <1>2, <2>1, <2>2, <2>3
<1>5. ASSUME NEW r \in rows, q \in r.in, Before(r, f) PROVE r \in sel
  BY <1>1, <1>2, <1>3, <1>5 DEF Before
<1> QED
  BY <1>3, <1>4, <1>5

LEMMA BackwardPage ==
    ASSUME NEW rows, Keyed(rows), NEW q, NEW f \in rows,
           \A r \in rows : CursorOf(r, q) # None,
           NEW back, back = Paginate(rows, q, CursorOf(f, q), "prev")
    PROVE  /\ back.data \subseteq rows
           /\ \A r \in back.data : Before(r, f) \/ SameMs(r, f)
           /\ \A s \in rows \ back.data : q \in s.in /\ Before(s, f) =>
                 Cardinality(back.data) = Limit /\ \A r \in back.data : Before(s, r)
           /\ back.data # {} =>
                 \E l \in back.data : /\ back.next = CursorOf(l, q)
                                      /\ \A r \in back.data \ {l} : Before(r, l)
<1>0. CursorOf(f, q) # None
  OBVIOUS
<1> DEFINE sel == Selected(rows, q, CursorOf(f, q), "prev")
           data == Top(Limit, sel, "prev")
<1>1. /\ sel \subseteq rows
      /\ \A r \in sel : Before(r, f) \/ SameMs(r, f)
      /\ \A r \in rows : q \in r.in /\ Before(r, f) => r \in sel
  BY <1>0, BackwardSelection
<1>2. /\ back.data = data
      /\ back.next = IF data # {} THEN CursorOf(LastIn(data), q) ELSE None
  BY <1>0 DEF Paginate
<1> HIDE DEF sel
<1>3. Keyed(sel) /\ data \in SUBSET sel /\ Keyed(data)
  <2>1. Keyed(sel)
    BY <1>1, KeyedSubset
  <2>2. data \in SUBSET sel
    BY DEF Top
  <2> QED
    BY <2>1, <2>2, KeyedSubset
<1>4. Limit \in Nat /\ "prev" \in Directions
  BY PaginationAssumption DEF Directions
<1>5. ASSUME NEW s \in rows \ data, q \in s.in, Before(s, f)
      PROVE  Cardinality(data) = Limit /\ \A r \in data : Before(s, r)
  <2>1. s \in sel
    BY <1>1, <1>5
  <2>2. Cardinality(data) = Limit
    BY <1>3, <1>4, <1>5, <2>1, TopIsFull
  <2>3. ASSUME NEW r \in data PROVE Before(s, r)
    <3>1. ~Precedes("prev", s, r)
      BY <1>3, <1>4, <1>5, <2>1, TopIsInitial
    <3>2. r \in sel /\ r # s
      BY <1>3, <1>5
    <3>3. Precedes("prev", r, s)
      BY <1>3, <1>4, <2>1, <3>1, <3>2, PrecedesIsTotal
    <3> QED
      BY <3>3 DEF Precedes
  <2> QED
    BY <2>2, <2>3
<1>6. data # {} => LastIn(data) \in data /\ \A r \in data \ {LastIn(data)} : Before(r, LastIn(data))
  <2> HIDE DEF data
  <2> QED
    BY <1>3, EndsExist
<1> HIDE DEF data
<1> QED
  BY <1>1, <1>2, <1>3, <1>5, <1>6

(* Going on from the page before: back to f, unless rows of f's            *)
(* millisecond are on that page or a row of another search comes first.    *)
LEMMA BackAndForth ==
    ASSUME NEW rows, Keyed(rows), NEW q, NEW f \in rows, q \in f.in,
           \A r \in rows : CursorOf(r, q) # None,
           NEW back, back = Paginate(rows, q, CursorOf(f, q), "prev"), back.data # {},
           \A r \in back.data : ~SameMs(r, f),
           NEW forth, forth = Paginate(rows, q, back.next, "next"),
           \A r \in forth.data : q \in r.in
    PROVE  f \in forth.data
<1>1. /\ back.data \subseteq rows
      /\ \A r \in back.data : Before(r, f)
      /\ \A s \in rows \ back.data : q \in s.in /\ Before(s, f) =>
            \A r \in back.data : Before(s, r)
  BY BackwardPage
<1>2. PICK l \in back.data : /\ back.next = CursorOf(l, q)
                             /\ \A r \in back.data \ {l} : Before(r, l)
  BY BackwardPage
<1> DEFINE c == CursorOf(l, q)
           sel == Selected(rows, q, c, "next")
<1>3. l \in rows /\ c # None /\ c.at = Ms(l.at) /\ c.id = l.id
  BY <1>1 DEF CursorOf
<1>4. /\ \A r \in rows : r.at \in Nat /\ r.id \in Nat
      /\ \A r, s \in rows : r.id = s.id => r = s
      /\ Ms(l.at) \in Nat /\ Ms(l.at) <= l.at
  BY <1>3, CutToMs DEF Keyed
<1>5. Ms(l.at) > f.at
  <2>1. l.at >= f.at /\ ~SameMs(l, f)
    BY <1>1, <1>4 DEF Before
  <2>2. Ms(l.at) <= f.at => Ms(f.at) = Ms(l.at)
    BY <1>3, <1>4, <2>1, CutTogether
  <2> QED
    BY <1>4, <2>1, <2>2 DEF SameMs
<1>6. sel = {r \in rows : (q \in r.in /\ r.at < c.at) \/ (r.at = c.at /\ r.id < c.id)}
  BY <1>3 DEF Selected, Beyond
<1>7. f \in sel /\ Keyed(sel)
  <2>1. sel \in SUBSET rows
    BY <1>6
  <2> QED
    BY <1>3, <1>5, <1>6, <2>1, KeyedSubset
<1>8. forth.data = Top(Limit, sel, "next")
  BY <1>2 DEF Paginate
<1> HIDE DEF sel
<1>9. PICK r \in forth.data : r \in sel
  <2>1. Top(Limit, sel, "next") # {}
    BY <1>7, TopIsNotEmpty, PaginationAssumption DEF Directions
  <2> QED
    BY <1>8, <2>1 DEF Top
<1>10. ~Before(r, f)
  <2> SUFFICES ASSUME Before(r, f) PROVE FALSE
    OBVIOUS
  <2>1. r \in rows /\ q \in r.in
    BY <1>6, <1>9
  \* r comes after l, so it is not on the page before, ...
  <2>2. Before(l, r)
    BY <1>3, <1>4, <1>6, <1>9, <2>1 DEF Before
  <2>3. r \notin back.data
    BY <1>2, <1>3, <1>4, <2>1, <2>2 DEF Before
  \* ... but what is not on it comes before l.
  <2>4. Before(r, l)
    BY <1>1, <2>1, <2>3
  <2> QED
    BY <1>3, <1>4, <2>1, <2>2, <2>4 DEF Before
<1>11. r = f \/ Precedes("next", f, r)
  <2>1. ~Precedes("next", r, f)
    BY <1>10 DEF Precedes
  <2> QED
    BY <1>7, <1>9, <2>1, PrecedesIsTotal DEF Directions
<1> QED
  BY <1>7, <1>8, <1>9, <1>11, TopIsInitial, PaginationAssumption DEF Directions

-----------------------------------------------------------------------------
(* The invariant. *)

\* The rows with these ids, and those of them that the list v is due to show.
RowsOf(ids) == {table[i] : i \in ids}
DueIn(v) == {r \in RowsOf(v.base) : v.shown \in r.in}

\* The time and the id of r are beyond a cursor.
Ahead(c, r) == c # None /\ (r.at < c.at \/ (r.at = c.at /\ r.id < c.id))

\* r is listed, or a row of its millisecond is that comes before it.
Accounted(v, r) == r \in v.rows \/ \E s \in v.rows : SameMs(s, r) /\ Before(s, r)

\* Going on from c, the list v misses no row but those of a listed row's millisecond.
Covers(v, c) == \A r \in DueIn(v) : Accounted(v, r) \/ Ahead(c, r)

\* c is the cursor of a row of v, made for the query that v answers.
OfList(v, c) == v.shown # None /\ \E s \in v.rows : c = CursorOf(s, v.shown)

RowsMatch(v) ==
    \A r \in v.rows :
        \/ v.shown \in r.in
        \/ \E s \in v.rows : r.at = Ms(s.at) /\ r.id < s.id

\* The rows of v answer its search, and its cursor leads to the rest of them.
Sound(v) == RowsMatch(v) /\ Covers(v, v.next) /\ (v.next # None => OfList(v, v.next))

TableOK == \A i \in RowIds : table[i].id = i

\* The list answers the last search, or the first page of that search is on its way,
\* or an error is shown.
AnswersSearch ==
    error \/ view.shown = None \/ view.shown = active
    \/ \E t \in InFlight : IsFirst(t) /\ ~fetches[t].stale /\ fetches[t].query = active

ViewOK ==
    /\ view.base \subseteq committed
    /\ view.shown = None => view.rows = {} /\ view.next = None
    /\ ~overlapped => AnswersSearch /\ (view.shown # None => Sound(view))

\* What the API answered: a first page over the rows that were committed, a next
\* page over rows that include all that the list began with.
FirstAnswerOK(f) ==
    f.base \subseteq committed /\ f.answer = Paginate(RowsOf(f.base), f.query, None, "next")

NextAnswerOK(f) ==
    /\ f.cursor.filters = f.query
    /\ \E ids \in SUBSET committed :
          /\ f.answer = Paginate(RowsOf(ids), f.query, f.cursor, "next")
          /\ ~f.crossed /\ ~overlapped => view.base \subseteq ids

AnswersOK ==
    \A s \in InFlight : fetches[s].answer # None =>
        IF IsFirst(s) THEN FirstAnswerOK(fetches[s]) ELSE NextAnswerOK(fetches[s])

\* A first page that nothing crosses is for the last search, and the other requests
\* in flight will be ignored.
FirstsOK ==
    \A s \in InFlight : IsFirst(s) /\ ~fetches[s].stale /\ ~fetches[s].crossed =>
        /\ fetches[s].query = active
        /\ \A t \in InFlight \ {s} : IsFirst(t) /\ fetches[t].stale

\* A next page that nothing crosses goes on from a cursor of the list it will join.
NextsOK ==
    \A s \in InFlight : ~IsFirst(s) =>
        /\ ~fetches[s].stale /\ view.shown # None
        /\ ~fetches[s].crossed =>
              /\ \A t \in InFlight : IsFirst(t) => fetches[t].stale
              /\ ~overlapped => OfList(view, fetches[s].cursor) /\ Covers(view, fetches[s].cursor)

ListInv == TypeOK /\ TableOK /\ ViewOK /\ FirstsOK /\ NextsOK /\ AnswersOK
-----------------------------------------------------------------------------
LEMMA RowsTyped ==
    ASSUME TypeOK, TableOK, NEW ids \in SUBSET RowIds
    PROVE  RowsOf(ids) \subseteq Row /\ Keyed(RowsOf(ids))
<1>1. RowsOf(ids) \subseteq Row
  BY DEF RowsOf, TypeOK
<1>2. \A r \in Row : r.at \in Nat /\ r.id \in Nat
  BY ListAssumption DEF Row
<1>3. IsFiniteSet(RowsOf(ids))
  <2> DEFINE f == [i \in ids |-> table[i]]
  <2>1. f \in Surjection(ids, RowsOf(ids))
    BY DEF Surjection, RowsOf
  <2>2. IsFiniteSet(ids)
    BY ListAssumption, FS_Subset
  <2> HIDE DEF f
  <2> QED
    BY <2>1, <2>2, FS_Surjection
<1>4. \A r, s \in RowsOf(ids) : r.id = s.id => r = s
  BY DEF RowsOf, TableOK
<1> QED
  BY <1>1, <1>2, <1>3, <1>4 DEF Keyed

LEMMA CursorTyped ==
    ASSUME NEW r \in Row, NEW q \in Queries
    PROVE  CursorOf(r, q) \in Cursor /\ CursorOf(r, q) # None
BY NoneIsNothing DEF CursorOf, Cursor, Row

LEMMA PageTyped ==
    ASSUME TypeOK, TableOK, NEW ids \in SUBSET RowIds, NEW q \in Queries, NEW c,
           NEW page, page = Paginate(RowsOf(ids), q, c, "next")
    PROVE  page \in Page /\ page # None
<1>1. RowsOf(ids) \subseteq Row /\ Keyed(RowsOf(ids))
  BY RowsTyped
<1>2. \A r \in RowsOf(ids) : CursorOf(r, q) # None /\ CursorOf(r, q) \in Cursor
  BY <1>1, CursorTyped
<1>3. /\ page.data \subseteq Selected(RowsOf(ids), q, c, "next")
      /\ page.next = None \/ \E l \in page.data : page.next = CursorOf(l, q)
      /\ page.prev = None \/ \E l \in page.data : page.prev = CursorOf(l, q)
  BY <1>1, <1>2, ForwardPage
<1>4. page.data \subseteq RowsOf(ids)
  BY <1>3 DEF Selected
<1>5. page = [data |-> page.data, next |-> page.next, prev |-> page.prev]
  BY DEF Paginate
<1>6. page \in Page
  BY <1>1, <1>2, <1>3, <1>4, <1>5 DEF Page
<1> QED
  BY <1>6, NoneIsNothing

-----------------------------------------------------------------------------
\* A row that a page leaves for later is beyond its next cursor, or shares the
\* millisecond of the page's last row.
LEMMA LeftForLater ==
    ASSUME TypeOK, TableOK, NEW ids \in SUBSET RowIds, NEW q \in Queries, NEW c,
           NEW page, page = Paginate(RowsOf(ids), q, c, "next"),
           NEW r \in Selected(RowsOf(ids), q, c, "next"), r \notin page.data
    PROVE  Ahead(page.next, r) \/ \E l \in page.data : SameMs(l, r) /\ Before(l, r)
<1>1. RowsOf(ids) \subseteq Row /\ Keyed(RowsOf(ids))
  BY RowsTyped
<1>2. \A s \in RowsOf(ids) : CursorOf(s, q) # None
  BY <1>1, CursorTyped
<1>3. /\ page.data \subseteq Selected(RowsOf(ids), q, c, "next")
      /\ \A s \in page.data, t \in Selected(RowsOf(ids), q, c, "next") :
            Before(t, s) => t \in page.data
      /\ \/ page.next = None /\ page.data = Selected(RowsOf(ids), q, c, "next")
         \/ \E l \in page.data : /\ page.next = CursorOf(l, q)
                                 /\ \A s \in page.data \ {l} : Before(s, l)
  BY <1>1, <1>2, ForwardPage
<1>4. PICK l \in page.data : page.next = CursorOf(l, q)
  BY <1>3
<1>5. r \in RowsOf(ids) /\ l \in RowsOf(ids)
  BY <1>3 DEF Selected
<1>6. /\ r.at \in Nat /\ r.id \in Nat /\ l.at \in Nat /\ l.id \in Nat
      /\ r.id = l.id => r = l
  BY <1>1, <1>5 DEF Keyed
<1>7. Before(l, r)
  BY <1>3, <1>6 DEF Before
<1>8. page.next # None /\ page.next.at = Ms(l.at)
  BY <1>2, <1>4, <1>5 DEF CursorOf
<1>9. CASE r.at < Ms(l.at)
  BY <1>8, <1>9 DEF Ahead
<1>10. CASE ~(r.at < Ms(l.at))
  <2>1. Ms(l.at) <= r.at /\ r.at <= l.at
    BY <1>6, <1>7, <1>10, CutToMs DEF Before
  <2>2. Ms(r.at) = Ms(l.at)
    BY <1>6, <2>1, CutTogether
  <2> QED
    BY <1>7, <2>2 DEF SameMs
<1> QED
  BY <1>9, <1>10

\* loadFirstPage: a first page is a sound list.
LEMMA FirstPageIsSound ==
    ASSUME TypeOK, TableOK, NEW v, v.base \in SUBSET RowIds, v.shown \in Queries,
           NEW page, page = Paginate(RowsOf(v.base), v.shown, None, "next"),
           v.rows = page.data, v.next = page.next
    PROVE  Sound(v)
<1>1. RowsOf(v.base) \subseteq Row /\ Keyed(RowsOf(v.base))
  BY RowsTyped
<1>2. \A s \in RowsOf(v.base) : CursorOf(s, v.shown) # None
  BY <1>1, CursorTyped
<1>3. /\ page.data \subseteq Selected(RowsOf(v.base), v.shown, None, "next")
      /\ page.next = None \/ \E l \in page.data : page.next = CursorOf(l, v.shown)
  BY <1>1, <1>2, ForwardPage
<1>4. Selected(RowsOf(v.base), v.shown, None, "next") = DueIn(v)
  BY DEF Selected, DueIn
<1>5. RowsMatch(v)
  BY <1>3, <1>4 DEF RowsMatch, DueIn
<1>6. Covers(v, v.next)
  BY <1>4, LeftForLater DEF Covers, Accounted
<1>7. v.next # None => OfList(v, v.next)
  BY <1>3, ListAssumption DEF OfList
<1> QED
  BY <1>5, <1>6, <1>7 DEF Sound

\* loadNextPage: a page from a cursor that covers the list leaves it sound, and covered
\* by every cursor that did so before.
LEMMA NextPageIsSound ==
    ASSUME TypeOK, TableOK, NEW ids \in SUBSET RowIds,
           NEW v, v.base \subseteq ids, v.shown \in Queries, v.rows \subseteq Row, RowsMatch(v),
           NEW c \in Cursor, OfList(v, c), Covers(v, c),
           NEW page, page = Paginate(RowsOf(ids), v.shown, c, "next"),
           NEW w, w.base = v.base, w.shown = v.shown,
           w.rows = v.rows \cup page.data, w.next = page.next
    PROVE  /\ Sound(w)
           /\ \A d : OfList(v, d) => OfList(w, d)
           /\ \A d : Covers(v, d) => Covers(w, d)
<1>1. RowsOf(ids) \subseteq Row /\ Keyed(RowsOf(ids))
  BY RowsTyped
<1>2. \A s \in RowsOf(ids) : CursorOf(s, v.shown) # None
  BY <1>1, CursorTyped
<1>3. /\ page.data \subseteq Selected(RowsOf(ids), v.shown, c, "next")
      /\ page.next = None \/ \E l \in page.data : page.next = CursorOf(l, v.shown)
  BY <1>1, <1>2, ForwardPage
<1>4. c # None
  BY NoneIsNothing
<1>5. \A r \in RowsOf(ids) :
         r \in Selected(RowsOf(ids), v.shown, c, "next") <=>
            \/ v.shown \in r.in /\ r.at < c.at
            \/ r.at = c.at /\ r.id < c.id
  BY <1>4 DEF Selected, Beyond
<1>6. PICK s \in v.rows : c = CursorOf(s, v.shown)
  BY DEF OfList
<1>7. c.at = Ms(s.at) /\ c.id = s.id
  BY <1>6 DEF CursorOf
<1>8. RowsMatch(w)
  <2> SUFFICES ASSUME NEW r \in page.data
               PROVE  v.shown \in r.in \/ (r.at = Ms(s.at) /\ r.id < s.id)
    BY DEF RowsMatch
  <2>1. r \in RowsOf(ids)
    BY <1>3 DEF Selected
  <2> QED
    BY <1>3, <1>5, <1>7, <2>1
<1>9. DueIn(w) = DueIn(v) /\ DueIn(v) \subseteq RowsOf(ids)
  BY DEF DueIn, RowsOf
<1>10. \A r : Accounted(v, r) => Accounted(w, r)
  BY DEF Accounted
<1>11. Covers(w, w.next)
  <2> SUFFICES ASSUME NEW r \in DueIn(v), ~Accounted(v, r)
               PROVE  Accounted(w, r) \/ Ahead(w.next, r)
    BY <1>9, <1>10 DEF Covers
  <2>1. r \in RowsOf(ids) /\ v.shown \in r.in
    BY <1>9 DEF DueIn
  <2>2. r \in Selected(RowsOf(ids), v.shown, c, "next")
    BY <1>5, <2>1 DEF Covers, Ahead
  <2>3. r \in page.data \/ Ahead(page.next, r)
         \/ \E l \in page.data : SameMs(l, r) /\ Before(l, r)
    BY <2>2, LeftForLater
  <2> QED
    BY <2>3 DEF Accounted
<1>12. w.next # None => OfList(w, w.next)
  BY <1>3, ListAssumption DEF OfList
<1>13. \A d : OfList(v, d) => OfList(w, d)
  BY DEF OfList
<1>14. \A d : Covers(v, d) => Covers(w, d)
  BY <1>9, <1>10 DEF Covers
<1> QED
  BY <1>8, <1>11, <1>12, <1>13, <1>14 DEF Sound

-----------------------------------------------------------------------------
\* s is sent, and marks the others as Sent says.
LEMMA SentMarks ==
    ASSUME TypeOK, NEW s \in Slots, fetches[s] = None, NEW q \in Queries,
           NEW c \in Cursor \cup {None}, NEW others \in SUBSET Slots,
           fetches' = Sent(s, q, c, others)
    PROVE  /\ fetches' \in [Slots -> Fetch \cup {None}]
           /\ InFlight' = InFlight \cup {s} /\ s \notin InFlight
           /\ fetches'[s].query = q /\ fetches'[s].cursor = c /\ ~fetches'[s].stale
           /\ fetches'[s].crossed <=> others # {}
           /\ fetches'[s].answer = None
           /\ \A t \in InFlight :
                 /\ fetches'[t].query = fetches[t].query /\ fetches'[t].cursor = fetches[t].cursor
                 /\ fetches'[t].answer = fetches[t].answer /\ fetches'[t].base = fetches[t].base
                 /\ fetches'[t].crossed <=> fetches[t].crossed \/ t \in others
                 /\ fetches'[t].stale <=> fetches[t].stale \/ (c = None /\ Outdates(t))
<1> DEFINE Mark(t) ==
               CASE t = s      -> [query |-> q, cursor |-> c, stale |-> FALSE,
                                   crossed |-> others # {},
                                   answer |-> None, failed |-> FALSE, base |-> {}]
                 [] t \in InFlight -> [fetches[t] EXCEPT !.crossed = @ \/ t \in others,
                                          !.stale = @ \/ (c = None /\ Outdates(t))]
                 [] OTHER      -> None
<1>1. fetches' = [t \in Slots |-> Mark(t)]
  BY Zenon DEF Sent
<1>2. s \notin InFlight
  BY DEF InFlight
<1>3. PICK crossed \in BOOLEAN : crossed <=> others # {}
  OBVIOUS
<1>4. PICK g : g = [query |-> q, cursor |-> c, stale |-> FALSE, crossed |-> crossed,
                    answer |-> None, failed |-> FALSE, base |-> {}]
  OBVIOUS
<1>5. g \in Fetch /\ g # None
  <2>1. {} \in SUBSET RowIds /\ FALSE \in BOOLEAN
    OBVIOUS
  <2>2. g \in Fetch
    BY <1>4, <2>1, Zenon DEF Fetch
  <2> QED
    BY <2>2, NoneIsNothing
<1>6. fetches'[s] = g
  <2>1. crossed = (others # {})
    BY <1>3
  <2>2. Mark(s) = g
    BY <1>4, <1>2, <2>1
  <2> HIDE DEF Mark
  <2> QED
    BY <1>1, <2>2
<1>7. ASSUME NEW t \in InFlight
      PROVE  /\ fetches'[t] \in Fetch /\ fetches'[t] # None
             /\ fetches'[t].query = fetches[t].query /\ fetches'[t].cursor = fetches[t].cursor
             /\ fetches'[t].answer = fetches[t].answer /\ fetches'[t].base = fetches[t].base
             /\ fetches'[t].crossed <=> fetches[t].crossed \/ t \in others
             /\ fetches'[t].stale <=> fetches[t].stale \/ (c = None /\ Outdates(t))
  <2>1. t \in Slots /\ t # s /\ fetches[t] \in Fetch
    BY <1>2 DEF InFlight, TypeOK
  <2>2. fetches[t].crossed \in BOOLEAN /\ fetches[t].stale \in BOOLEAN
    BY <2>1 DEF Fetch
  <2>3. PICK x \in BOOLEAN, y \in BOOLEAN :
            /\ x <=> fetches[t].crossed \/ t \in others
            /\ y <=> fetches[t].stale \/ (c = None /\ Outdates(t))
    OBVIOUS
  <2>4. fetches'[t] = [fetches[t] EXCEPT !.crossed = x, !.stale = y]
    <3>1. fetches'[t] = [fetches[t] EXCEPT !.crossed = @ \/ t \in others,
                                           !.stale = @ \/ (c = None /\ Outdates(t))]
      BY <2>1 DEF Sent
    <3>2. x = (fetches[t].crossed \/ t \in others)
      BY <2>2, <2>3
    <3>3. y = (fetches[t].stale \/ (c = None /\ Outdates(t)))
      BY <2>2, <2>3
    <3> QED
      BY <3>1, <3>2, <3>3
  <2>5. PICK f \in Fetch : f = fetches[t]
    BY <2>1
  <2>6. PICK h : h = [f EXCEPT !.crossed = x, !.stale = y]
    OBVIOUS
  <2>7. /\ h \in Fetch /\ h.query = f.query /\ h.cursor = f.cursor
        /\ h.answer = f.answer /\ h.base = f.base /\ h.crossed = x /\ h.stale = y
    BY <2>6 DEF Fetch
  <2> QED
    BY <2>3, <2>4, <2>5, <2>6, <2>7, NoneIsNothing
<1>8. ASSUME NEW t \in Slots, t # s, t \notin InFlight PROVE fetches'[t] = None
  BY <1>8 DEF Sent
<1>9. fetches' = [t \in Slots |-> fetches'[t]]
  <2> HIDE DEF Mark
  <2> QED
    BY <1>1
<1>10. fetches' \in [Slots -> Fetch \cup {None}]
  <2>1. \A t \in Slots : fetches'[t] \in Fetch \cup {None}
    BY <1>5, <1>6, <1>7, <1>8
  <2> QED
    BY <1>9, <2>1
<1>11. InFlight' = InFlight \cup {s}
  BY <1>5, <1>6, <1>7, <1>8 DEF InFlight
<1>12. /\ fetches'[s].query = q /\ fetches'[s].cursor = c /\ ~fetches'[s].stale
       /\ fetches'[s].crossed <=> others # {}
       /\ fetches'[s].answer = None
  BY <1>3, <1>4, <1>6
<1> QED
  BY <1>2, <1>7, <1>10, <1>11, <1>12

-----------------------------------------------------------------------------
LEMMA InitInv == Init => ListInv
<1> SUFFICES ASSUME Init PROVE ListInv
  OBVIOUS
<1>1. InFlight = {}
  BY DEF Init, InFlight
<1>2. TypeOK
  <2>1. view \in View
    BY DEF Init, EmptyView, View
  <2>2. active \in Queries
    BY ListAssumption DEF Init
  <2>3. fetches \in [Slots -> Fetch \cup {None}]
    BY DEF Init
  <2>4. list \in Lists /\ table \in [RowIds -> Row] /\ committed \in SUBSET RowIds
    BY DEF Init
  <2>5. error \in BOOLEAN /\ overlapped \in BOOLEAN
    BY Zenon DEF Init
  <2>6. faults \in 0..MaxFaults
    BY ListAssumption DEF Init
  <2> QED
    BY <2>1, <2>2, <2>3, <2>4, <2>5, <2>6 DEF TypeOK
<1>3. TableOK
  BY DEF Init, TableOK
<1>4. ViewOK
  BY DEF Init, EmptyView, ViewOK, AnswersSearch
<1> QED
  BY <1>1, <1>2, <1>3, <1>4 DEF ListInv, FirstsOK, NextsOK, AnswersOK

\* A step that leaves the table alone leaves a sound list sound.
LEMMA TableKept ==
    ASSUME UNCHANGED table
    PROVE  /\ \A ids : RowsOf(ids)' = RowsOf(ids)
           /\ \A v, c : Covers(v, c)' <=> Covers(v, c)
           /\ \A v : Sound(v)' <=> Sound(v)
<1>1. \A ids : RowsOf(ids)' = RowsOf(ids)
  BY DEF RowsOf
<1>2. \A v : DueIn(v)' = DueIn(v)
  BY <1>1 DEF DueIn
<1>3. \A v, c : Covers(v, c)' <=> Covers(v, c)
  BY <1>2 DEF Covers
<1> QED
  BY <1>1, <1>3 DEF Sound

\* Rows that commit do not disturb the list.
LEMMA CommitsKeep ==
    ASSUME ListInv, committed' \in SUBSET RowIds, committed \subseteq committed',
           UNCHANGED <<list, table, active, view, fetches, error, faults, overlapped>>
    PROVE  ListInv'
<1>1. /\ committed' \in SUBSET RowIds /\ committed \subseteq committed'
      /\ UNCHANGED <<list, table, active, view, fetches, error, faults, overlapped>>
  OBVIOUS
<1>2. UNCHANGED InFlight /\ \A s : IsFirst(s)' <=> IsFirst(s)
  BY <1>1 DEF InFlight, IsFirst
<1>3. /\ \A ids : RowsOf(ids)' = RowsOf(ids)
      /\ \A v, c : Covers(v, c)' <=> Covers(v, c)
      /\ \A v : Sound(v)' <=> Sound(v)
  BY <1>1, TableKept
<1>4. TypeOK' /\ TableOK'
  BY <1>1 DEF ListInv, TypeOK, TableOK
<1>5. ViewOK'
  <2>1. view' = view /\ Sound(view)' <=> Sound(view)
    BY <1>1, <1>3
  <2> QED
    BY <1>1, <1>2, <2>1 DEF ListInv, ViewOK, AnswersSearch
<1>6. FirstsOK' /\ NextsOK'
  BY <1>1, <1>2, <1>3 DEF ListInv, FirstsOK, NextsOK
<1>7. AnswersOK'
  BY <1>1, <1>2, <1>3 DEF ListInv, AnswersOK, FirstAnswerOK, NextAnswerOK
<1> QED
  BY <1>4, <1>5, <1>6, <1>7 DEF ListInv

-----------------------------------------------------------------------------
(* A first page sent is alone with refreshes that will be ignored, or is   *)
(* crossed; so is every next page that was in flight.                      *)
LEMMA LoadFirstKeeps ==
    ASSUME ListInv, NEW s \in Slots, NEW q \in Queries, LoadFirst(s, q)
    PROVE  ListInv'
<1>1. /\ fetches[s] = None /\ MayLoadFirst(q) /\ active' = q /\ error' = FALSE
      /\ UNCHANGED <<list, table, committed, view, faults, overlapped>>
  BY DEF LoadFirst
<1>2. PICK others \in SUBSET Slots :
          /\ others = {t \in InFlight : list = "TeamExplorer" \/ ~IsFirst(t)}
          /\ fetches' = Sent(s, q, None, others)
  BY DEF LoadFirst, InFlight
<1>3. /\ fetches' \in [Slots -> Fetch \cup {None}]
      /\ InFlight' = InFlight \cup {s} /\ s \notin InFlight
      /\ fetches'[s].query = q /\ fetches'[s].cursor = None /\ ~fetches'[s].stale
      /\ fetches'[s].crossed <=> others # {}
      /\ fetches'[s].answer = None
      /\ \A t \in InFlight :
            /\ fetches'[t].query = fetches[t].query /\ fetches'[t].cursor = fetches[t].cursor
            /\ fetches'[t].answer = fetches[t].answer /\ fetches'[t].base = fetches[t].base
            /\ fetches'[t].crossed <=> fetches[t].crossed \/ t \in others
            /\ fetches'[t].stale <=> fetches[t].stale \/ (None = None /\ Outdates(t))
  BY <1>1, <1>2, SentMarks DEF ListInv
<1>4. \A t \in InFlight : IsFirst(t)' <=> IsFirst(t)
  BY <1>3 DEF IsFirst
<1>5. IsFirst(s)'
  BY <1>3 DEF IsFirst
<1>6. /\ \A ids : RowsOf(ids)' = RowsOf(ids)
      /\ \A v, c : Covers(v, c)' <=> Covers(v, c)
      /\ \A v : Sound(v)' <=> Sound(v)
  BY <1>1, TableKept
\* Each request that was in flight is crossed or outdated.
<1>7. \A t \in InFlight : /\ ~IsFirst(t) => t \in others
                          /\ IsFirst(t) => t \in others \/ Outdates(t)
  <2>1. list \in Lists
    BY DEF ListInv, TypeOK
  <2> QED
    BY <1>1, <1>2, <2>1 DEF MayLoadFirst, Outdates, Lists
<1>8. TypeOK' /\ TableOK'
  BY <1>1, <1>3 DEF ListInv, TypeOK, TableOK
<1>9. ViewOK'
  <2>1. AnswersSearch'
    BY <1>1, <1>3, <1>5 DEF AnswersSearch
  <2>2. view' = view /\ Sound(view)' <=> Sound(view)
    BY <1>1, <1>6
  <2> QED
    BY <1>1, <2>1, <2>2 DEF ListInv, ViewOK
<1>10. FirstsOK'
  <2> SUFFICES ASSUME NEW t \in InFlight', IsFirst(t)', ~fetches'[t].stale, ~fetches'[t].crossed
               PROVE  /\ fetches'[t].query = active'
                      /\ \A u \in InFlight' \ {t} : IsFirst(u)' /\ fetches'[u].stale
    BY DEF FirstsOK
  <2>1. t = s
    BY <1>3, <1>4, <1>7
  <2>2. others = {}
    BY <1>3, <2>1
  <2> QED
    BY <1>1, <1>3, <1>4, <1>7, <2>1, <2>2
<1>11. NextsOK'
  <2> SUFFICES ASSUME NEW t \in InFlight', ~IsFirst(t)'
               PROVE  ~fetches'[t].stale /\ view'.shown # None /\ fetches'[t].crossed
    BY DEF NextsOK
  <2>1. t \in InFlight /\ ~IsFirst(t)
    BY <1>3, <1>4, <1>5
  <2>2. ~Outdates(t)
    BY <2>1 DEF Outdates
  <2> QED
    BY <1>1, <1>3, <1>7, <2>1, <2>2 DEF ListInv, NextsOK
<1>12. AnswersOK'
  <2> SUFFICES ASSUME NEW t \in InFlight', fetches'[t].answer # None
               PROVE  IF IsFirst(t)' THEN FirstAnswerOK(fetches[t])' ELSE NextAnswerOK(fetches[t])'
    BY DEF AnswersOK
  <2>1. t \in InFlight /\ fetches[t].answer # None
    BY <1>3
  <2> QED
    BY <1>1, <1>3, <1>4, <1>6, <1>7, <2>1 DEF ListInv, AnswersOK, FirstAnswerOK, NextAnswerOK
<1> QED
  BY <1>8, <1>9, <1>10, <1>11, <1>12 DEF ListInv

(* A next page sent is crossed by a first page that may still replace the  *)
(* list, and goes on from the cursor of the list otherwise.                *)
LEMMA LoadNextKeeps ==
    ASSUME ListInv, NEW s \in Slots, LoadNext(s)
    PROVE  ListInv'
<1>1. /\ fetches[s] = None /\ view.next # None
      /\ UNCHANGED <<list, table, committed, active, view, error, faults, overlapped>>
  BY DEF LoadNext
<1>2. view.next \in Cursor /\ active \in Queries
  BY <1>1 DEF ListInv, TypeOK, View
<1>3. PICK others \in SUBSET Slots :
          /\ others = {t \in InFlight : IsFirst(t) /\ ~fetches[t].stale}
          /\ fetches' = Sent(s, active, view.next, others)
  BY DEF LoadNext, InFlight
<1>4. /\ fetches' \in [Slots -> Fetch \cup {None}]
      /\ InFlight' = InFlight \cup {s} /\ s \notin InFlight
      /\ fetches'[s].query = active /\ fetches'[s].cursor = view.next /\ ~fetches'[s].stale
      /\ fetches'[s].crossed <=> others # {}
      /\ fetches'[s].answer = None
      /\ \A t \in InFlight :
            /\ fetches'[t].query = fetches[t].query /\ fetches'[t].cursor = fetches[t].cursor
            /\ fetches'[t].answer = fetches[t].answer /\ fetches'[t].base = fetches[t].base
            /\ fetches'[t].crossed <=> fetches[t].crossed \/ t \in others
            /\ fetches'[t].stale <=> fetches[t].stale \/ (view.next = None /\ Outdates(t))
  BY <1>1, <1>2, <1>3, SentMarks DEF ListInv
<1>5. ~IsFirst(s)' /\ \A t \in InFlight : IsFirst(t)' <=> IsFirst(t)
  BY <1>1, <1>4 DEF IsFirst
<1>6. /\ \A ids : RowsOf(ids)' = RowsOf(ids)
      /\ \A v, c : Covers(v, c)' <=> Covers(v, c)
      /\ \A v : Sound(v)' <=> Sound(v)
  BY <1>1, TableKept
<1>7. TypeOK' /\ TableOK'
  BY <1>1, <1>4 DEF ListInv, TypeOK, TableOK
<1>8. ViewOK'
  <2>1. AnswersSearch => AnswersSearch'
    BY <1>1, <1>4, <1>5 DEF AnswersSearch
  <2>2. view' = view /\ Sound(view)' <=> Sound(view)
    BY <1>1, <1>6
  <2> QED
    BY <1>1, <2>1, <2>2 DEF ListInv, ViewOK
<1>9. FirstsOK'
  <2> SUFFICES ASSUME NEW t \in InFlight', IsFirst(t)', ~fetches'[t].stale, ~fetches'[t].crossed
               PROVE  FALSE
    BY DEF FirstsOK
  <2> QED
    BY <1>1, <1>3, <1>4, <1>5
<1>10. NextsOK'
  <2>1. view.shown # None /\ (~overlapped => OfList(view, view.next) /\ Covers(view, view.next))
    BY <1>1 DEF ListInv, ViewOK, Sound
  <2>2. ASSUME NEW t \in InFlight', ~IsFirst(t)', ~fetches'[t].crossed
        PROVE  /\ \A u \in InFlight' : IsFirst(u)' => fetches'[u].stale
               /\ ~overlapped => /\ OfList(view, fetches'[t].cursor)
                                 /\ Covers(view, fetches'[t].cursor)
    <3>1. CASE t = s
      BY <1>1, <1>3, <1>4, <1>5, <2>1, <2>2, <3>1
    <3>2. CASE t \in InFlight
      BY <1>4, <1>5, <2>2, <3>2 DEF ListInv, NextsOK
    <3> QED
      BY <1>4, <3>1, <3>2
  <2>3. ASSUME NEW t \in InFlight', ~IsFirst(t)' PROVE ~fetches'[t].stale
    BY <1>1, <1>4, <1>5, <2>3 DEF ListInv, NextsOK
  <2>4. \A c : (OfList(view, c)' <=> OfList(view, c)) /\ (Covers(view, c)' <=> Covers(view, c))
    BY <1>1, <1>6 DEF OfList
  <2> QED
    BY <1>1, <2>1, <2>2, <2>3, <2>4 DEF NextsOK
<1>11. AnswersOK'
  <2> SUFFICES ASSUME NEW t \in InFlight', fetches'[t].answer # None
               PROVE  IF IsFirst(t)' THEN FirstAnswerOK(fetches[t])' ELSE NextAnswerOK(fetches[t])'
    BY DEF AnswersOK
  <2>1. t \in InFlight /\ fetches[t].answer # None
    BY <1>4
  <2> QED
    BY <1>1, <1>4, <1>5, <1>6, <2>1 DEF ListInv, AnswersOK, FirstAnswerOK, NextAnswerOK
<1> QED
  BY <1>7, <1>8, <1>9, <1>10, <1>11 DEF ListInv

-----------------------------------------------------------------------------
\* A step of the request s that leaves the list and the other requests alone.
Settles(s, g) ==
    /\ g \in Fetch
    /\ g.query = fetches[s].query /\ g.cursor = fetches[s].cursor
    /\ g.stale = fetches[s].stale /\ g.crossed = fetches[s].crossed
    /\ fetches' = [fetches EXCEPT ![s] = g]
    /\ UNCHANGED <<list, table, committed, active, view, error, overlapped>>

LEMMA SettlesKeeps ==
    ASSUME ListInv, NEW s \in InFlight, NEW g, Settles(s, g), faults' \in 0..MaxFaults,
           g.answer # None => IF g.cursor = None THEN FirstAnswerOK(g) ELSE NextAnswerOK(g)
    PROVE  ListInv'
<1>1. /\ g \in Fetch /\ g # None
      /\ g.query = fetches[s].query /\ g.cursor = fetches[s].cursor
      /\ g.stale = fetches[s].stale /\ g.crossed = fetches[s].crossed
      /\ UNCHANGED <<list, table, committed, active, view, error, overlapped>>
  BY NoneIsNothing DEF Settles
<1>2. /\ s \in Slots /\ fetches \in [Slots -> Fetch \cup {None}]
      /\ fetches' \in [Slots -> Fetch \cup {None}]
      /\ fetches'[s] = g /\ \A t \in Slots \ {s} : fetches'[t] = fetches[t]
  BY DEF ListInv, TypeOK, Settles, InFlight
<1>3. InFlight' = InFlight
  BY <1>1, <1>2 DEF InFlight
<1>4. \A t \in InFlight :
         /\ fetches'[t].query = fetches[t].query /\ fetches'[t].cursor = fetches[t].cursor
         /\ fetches'[t].stale = fetches[t].stale /\ fetches'[t].crossed = fetches[t].crossed
         /\ IsFirst(t)' <=> IsFirst(t)
  BY <1>1, <1>2 DEF InFlight, IsFirst
<1>5. /\ \A ids : RowsOf(ids)' = RowsOf(ids)
      /\ \A v, c : Covers(v, c)' <=> Covers(v, c)
      /\ \A v : Sound(v)' <=> Sound(v)
  BY <1>1, TableKept
<1>6. TypeOK' /\ TableOK'
  BY <1>1, <1>2 DEF ListInv, TypeOK, TableOK
<1>7. ViewOK'
  <2>1. AnswersSearch => AnswersSearch'
    BY <1>1, <1>3, <1>4 DEF AnswersSearch
  <2>2. view' = view /\ Sound(view)' <=> Sound(view)
    BY <1>1, <1>5
  <2> QED
    BY <1>1, <2>1, <2>2 DEF ListInv, ViewOK
<1>8. FirstsOK'
  BY <1>1, <1>3, <1>4 DEF ListInv, FirstsOK
<1>9. NextsOK'
  <2>1. \A c : (OfList(view, c)' <=> OfList(view, c)) /\ (Covers(view, c)' <=> Covers(view, c))
    BY <1>1, <1>5 DEF OfList
  <2> QED
    BY <1>1, <1>3, <1>4, <2>1 DEF ListInv, NextsOK
<1>10. AnswersOK'
  <2> SUFFICES ASSUME NEW t \in InFlight, fetches'[t].answer # None
               PROVE  IF IsFirst(t)' THEN FirstAnswerOK(fetches[t])' ELSE NextAnswerOK(fetches[t])'
    BY <1>3 DEF AnswersOK
  <2>1. CASE t = s
    <3>1. /\ FirstAnswerOK(g) => FirstAnswerOK(fetches[t])'
          /\ NextAnswerOK(g) => NextAnswerOK(fetches[t])'
      BY <1>1, <1>2, <1>5, <2>1 DEF FirstAnswerOK, NextAnswerOK
    <3>2. (g.cursor = None <=> IsFirst(t)') /\ g.answer # None
      BY <1>2, <2>1 DEF IsFirst
    <3> QED
      BY <3>1, <3>2
  <2>2. CASE t # s
    <3>1. fetches'[t] = fetches[t]
      BY <1>2, <2>2 DEF InFlight
    <3>2. IF IsFirst(t) THEN FirstAnswerOK(fetches[t]) ELSE NextAnswerOK(fetches[t])
      BY <3>1 DEF ListInv, AnswersOK
    <3>3. /\ FirstAnswerOK(fetches[t]) => FirstAnswerOK(fetches[t])'
          /\ NextAnswerOK(fetches[t]) => NextAnswerOK(fetches[t])'
      BY <1>1, <1>5, <3>1 DEF FirstAnswerOK, NextAnswerOK
    <3> QED
      BY <1>4, <3>2, <3>3
  <2> QED
    BY <2>1, <2>2
<1> QED
  BY <1>6, <1>7, <1>8, <1>9, <1>10 DEF ListInv

LEMMA ServeKeeps ==
    ASSUME ListInv, NEW s \in Slots, Serve(s)
    PROVE  ListInv'
<1>1. /\ s \in InFlight /\ fetches[s].answer = None
      /\ UNCHANGED <<list, table, committed, active, view, error, faults, overlapped>>
  BY DEF Serve
<1>2. PICK f \in Fetch : f = fetches[s]
  BY <1>1, NoneIsNothing DEF ListInv, TypeOK, InFlight
<1>3. faults' \in 0..MaxFaults
  BY <1>1 DEF ListInv, TypeOK
<1>4. CASE Mismatch(f.query, f.cursor)
  <2>1. PICK g : g = [f EXCEPT !.failed = TRUE]
    OBVIOUS
  <2>2. /\ g \in Fetch /\ g.query = f.query /\ g.cursor = f.cursor /\ g.stale = f.stale
        /\ g.crossed = f.crossed /\ g.answer = f.answer
    BY <2>1 DEF Fetch
  <2>3. fetches' = [fetches EXCEPT ![s] = g]
    BY <1>2, <1>4, <2>1 DEF Serve
  <2>4. Settles(s, g) /\ g.answer = None
    BY <1>1, <1>2, <2>2, <2>3 DEF Settles
  <2> QED
    BY <1>1, <1>3, <2>4, SettlesKeeps
<1>5. CASE ~Mismatch(f.query, f.cursor)
  <2>1. PICK page : page = Paginate(RowsOf(committed), f.query, f.cursor, "next")
    OBVIOUS
  <2>2. PICK base \in SUBSET RowIds : base = IF f.cursor = None THEN committed ELSE {}
    BY DEF ListInv, TypeOK
  <2>3. page \in Page
    BY <2>1, PageTyped DEF ListInv, TypeOK, Fetch
  <2>4. PICK g : g = [f EXCEPT !.answer = page, !.base = base]
    OBVIOUS
  <2>5. /\ g \in Fetch /\ g.query = f.query /\ g.cursor = f.cursor /\ g.stale = f.stale
        /\ g.crossed = f.crossed /\ g.answer = page /\ g.base = base
    BY <2>3, <2>4 DEF Fetch
  <2>6. fetches' = [fetches EXCEPT ![s] = g]
    <3>1. Rows = RowsOf(committed) /\ (IsFirst(s) <=> f.cursor = None)
      BY <1>2 DEF Rows, RowsOf, IsFirst
    <3> QED
      BY <1>2, <1>5, <2>1, <2>2, <2>4, <3>1 DEF Serve
  <2>7. Settles(s, g)
    BY <1>1, <1>2, <2>5, <2>6 DEF Settles
  <2>8. g.cursor = None => FirstAnswerOK(g)
    BY <2>1, <2>2, <2>5 DEF FirstAnswerOK
  <2>9. g.cursor # None => NextAnswerOK(g)
    <3>1. f.cursor # None => f.cursor.filters = f.query
      BY <1>5 DEF Mismatch
    <3>2. view.base \subseteq committed
      BY DEF ListInv, ViewOK
    <3> QED
      BY <2>1, <2>5, <3>1, <3>2 DEF NextAnswerOK
  <2> QED
    BY <1>1, <1>3, <2>7, <2>8, <2>9, SettlesKeeps
<1> QED
  BY <1>4, <1>5

LEMMA FailKeeps ==
    ASSUME ListInv, NEW s \in Slots, Fail(s)
    PROVE  ListInv'
<1>1. /\ s \in InFlight /\ fetches[s].answer = None
      /\ UNCHANGED <<list, table, committed, active, view, error, overlapped>>
  BY DEF Fail
<1>2. PICK f \in Fetch : f = fetches[s]
  BY <1>1, NoneIsNothing DEF ListInv, TypeOK, InFlight
<1>3. faults' \in 0..MaxFaults
  BY ListAssumption DEF Fail, ListInv, TypeOK
<1>4. PICK g : g = [f EXCEPT !.failed = TRUE]
  OBVIOUS
<1>5. /\ g \in Fetch /\ g.query = f.query /\ g.cursor = f.cursor /\ g.stale = f.stale
      /\ g.crossed = f.crossed /\ g.answer = f.answer
  BY <1>4 DEF Fetch
<1>6. fetches' = [fetches EXCEPT ![s] = g]
  BY <1>2, <1>4 DEF Fail
<1>7. Settles(s, g) /\ g.answer = None
  BY <1>1, <1>2, <1>5, <1>6 DEF Settles
<1> QED
  BY <1>1, <1>3, <1>7, SettlesKeeps

-----------------------------------------------------------------------------
\* The requests that are left when s has arrived.
Arrives(s) ==
    /\ s \in InFlight
    /\ fetches' = [fetches EXCEPT ![s] = None]
    /\ UNCHANGED <<list, table, committed, active, faults>>

LEMMA OthersStay ==
    ASSUME ListInv, NEW s \in Slots, Arrives(s)
    PROVE  /\ fetches' \in [Slots -> Fetch \cup {None}]
           /\ InFlight' = InFlight \ {s}
           /\ \A t \in InFlight \ {s} : fetches'[t] = fetches[t] /\ (IsFirst(t)' <=> IsFirst(t))
           /\ FirstsOK'
<1>1. /\ fetches' \in [Slots -> Fetch \cup {None}]
      /\ fetches'[s] = None /\ \A t \in Slots \ {s} : fetches'[t] = fetches[t]
  BY DEF Arrives, ListInv, TypeOK
<1>2. InFlight' = InFlight \ {s}
  BY <1>1 DEF InFlight
<1>3. \A t \in InFlight \ {s} : fetches'[t] = fetches[t] /\ (IsFirst(t)' <=> IsFirst(t))
  BY <1>1 DEF InFlight, IsFirst
<1>4. FirstsOK'
  BY <1>2, <1>3 DEF ListInv, FirstsOK, Arrives
<1> QED
  BY <1>1, <1>2, <1>3, <1>4

\* An answer that the list ignores, or an error.
LEMMA IgnoredKeeps ==
    ASSUME ListInv, NEW s \in Slots, Arrives(s), UNCHANGED <<view, overlapped>>, error' \in BOOLEAN,
           error' \/ (fetches[s].stale /\ UNCHANGED error)
    PROVE  ListInv'
<1>1. UNCHANGED <<list, table, committed, active, view, faults, overlapped>>
  BY DEF Arrives
<1>2. /\ fetches' \in [Slots -> Fetch \cup {None}]
      /\ InFlight' = InFlight \ {s}
      /\ \A t \in InFlight \ {s} : fetches'[t] = fetches[t] /\ (IsFirst(t)' <=> IsFirst(t))
      /\ FirstsOK'
  BY OthersStay
<1>3. /\ \A ids : RowsOf(ids)' = RowsOf(ids)
      /\ \A v, c : Covers(v, c)' <=> Covers(v, c)
      /\ \A v : Sound(v)' <=> Sound(v)
  BY <1>1, TableKept
<1>4. TypeOK' /\ TableOK'
  BY <1>1, <1>2 DEF ListInv, TypeOK, TableOK
<1>5. ViewOK'
  <2>1. AnswersSearch => AnswersSearch'
    BY <1>1, <1>2 DEF AnswersSearch
  <2>2. view' = view /\ Sound(view)' <=> Sound(view)
    BY <1>1, <1>3
  <2> QED
    BY <1>1, <2>1, <2>2 DEF ListInv, ViewOK
<1>6. NextsOK'
  <2>1. \A c : (OfList(view, c)' <=> OfList(view, c)) /\ (Covers(view, c)' <=> Covers(view, c))
    BY <1>1, <1>3 DEF OfList
  <2> QED
    BY <1>1, <1>2, <2>1 DEF ListInv, NextsOK
<1>7. AnswersOK'
  BY <1>1, <1>2, <1>3 DEF ListInv, AnswersOK, FirstAnswerOK, NextAnswerOK
<1> QED
  BY <1>2, <1>4, <1>5, <1>6, <1>7 DEF ListInv

\* A first page: when nothing crossed it, no next page of the old list is in flight.
LEMMA ReplacedKeeps ==
    ASSUME ListInv, NEW s \in Slots, Arrives(s), IsFirst(s),
           ~fetches[s].stale, fetches[s].answer # None,
           view' = Replaced(fetches[s]), overlapped' = fetches[s].crossed, UNCHANGED error
    PROVE  ListInv'
<1>1. UNCHANGED <<list, table, committed, active, error, faults>> /\ s \in InFlight
  BY DEF Arrives
<1>2. /\ fetches' \in [Slots -> Fetch \cup {None}]
      /\ InFlight' = InFlight \ {s}
      /\ \A t \in InFlight \ {s} : fetches'[t] = fetches[t] /\ (IsFirst(t)' <=> IsFirst(t))
      /\ FirstsOK'
  BY OthersStay
<1>3. /\ \A ids : RowsOf(ids)' = RowsOf(ids)
      /\ \A v : Sound(v)' <=> Sound(v)
  BY <1>1, TableKept
<1>4. PICK f \in Fetch : f = fetches[s]
  BY <1>1, NoneIsNothing DEF ListInv, TypeOK, InFlight
<1>5. PICK w : w = view'
  OBVIOUS
<1>6. /\ f.query \in Queries /\ f.base \in SUBSET RowIds /\ f.crossed \in BOOLEAN
      /\ f.answer \in Page
  BY <1>4, <1>5 DEF Fetch
<1>7. /\ w.rows = f.answer.data /\ w.next = f.answer.next /\ w.prev = f.answer.prev
      /\ w.shown = f.query /\ w.base = f.base
      /\ w \in View
  BY <1>4, <1>5, <1>6 DEF Replaced, View, Page
<1>8. f.base \subseteq committed /\ f.answer = Paginate(RowsOf(f.base), f.query, None, "next")
  BY <1>1, <1>4, <1>5 DEF ListInv, AnswersOK, FirstAnswerOK
<1>9. w.shown # None
  BY <1>6, <1>7, ListAssumption
<1>10. TypeOK' /\ TableOK'
  BY <1>1, <1>2, <1>4, <1>5, <1>6, <1>7 DEF ListInv, TypeOK, TableOK
<1>11. ViewOK'
  <2>1. Sound(w)
    BY <1>6, <1>7, <1>8, FirstPageIsSound DEF ListInv
  <2>2. Sound(view)'
    BY <1>3, <1>4, <1>5, <2>1
  <2>3. ~overlapped' => AnswersSearch'
    <3>1. ~f.crossed => f.query = active
      BY <1>1, <1>4, <1>5 DEF ListInv, FirstsOK
    <3> QED
      BY <1>1, <1>4, <1>5, <1>7, <3>1 DEF AnswersSearch
  <2> QED
    BY <1>1, <1>4, <1>5, <1>7, <1>8, <1>9, <2>2, <2>3 DEF ViewOK
<1>12. \A t \in InFlight \ {s} : ~IsFirst(t) => ~fetches[t].stale /\ fetches[t].crossed
  BY <1>1 DEF ListInv, NextsOK
<1>13. NextsOK'
  BY <1>2, <1>4, <1>5, <1>9, <1>12 DEF NextsOK
<1>14. AnswersOK'
  BY <1>1, <1>2, <1>3, <1>12 DEF ListInv, AnswersOK, FirstAnswerOK, NextAnswerOK
<1> QED
  BY <1>2, <1>10, <1>11, <1>13, <1>14 DEF ListInv

\* A next page: when nothing crossed it, it goes on from a cursor of the list it joins.
LEMMA MergedKeeps ==
    ASSUME ListInv, NEW s \in Slots, Arrives(s), ~IsFirst(s), fetches[s].answer # None,
           view' = Merged(fetches[s]), overlapped' = (fetches[s].crossed \/ overlapped),
           UNCHANGED error
    PROVE  ListInv'
<1>1. UNCHANGED <<list, table, committed, active, error, faults>> /\ s \in InFlight
  BY DEF Arrives
<1>2. /\ fetches' \in [Slots -> Fetch \cup {None}]
      /\ InFlight' = InFlight \ {s}
      /\ \A t \in InFlight \ {s} : fetches'[t] = fetches[t] /\ (IsFirst(t)' <=> IsFirst(t))
      /\ FirstsOK'
  BY OthersStay
<1>3. /\ \A ids : RowsOf(ids)' = RowsOf(ids)
      /\ \A v, c : Covers(v, c)' <=> Covers(v, c)
      /\ \A v : Sound(v)' <=> Sound(v)
  BY <1>1, TableKept
<1>4. PICK f \in Fetch : f = fetches[s]
  BY <1>1, NoneIsNothing DEF ListInv, TypeOK, InFlight
<1>5. PICK v, w : v = view /\ w = view'
  OBVIOUS
<1>6. f.answer \in Page /\ f.cursor \in Cursor /\ f.crossed \in BOOLEAN /\ v \in View
  BY <1>4, <1>5 DEF Fetch, IsFirst, ListInv, TypeOK
<1>7. /\ w.rows = v.rows \cup f.answer.data /\ w.next = f.answer.next
      /\ w.prev = f.answer.prev /\ w.shown = v.shown /\ w.base = v.base
      /\ w \in View
  <2>1. w = [v EXCEPT !.rows = @ \cup f.answer.data,
                      !.next = f.answer.next, !.prev = f.answer.prev]
    BY <1>4, <1>5 DEF Merged
  <2> QED
    BY <1>6, <2>1 DEF View, Page
<1>8. v.shown # None
  BY <1>1, <1>4, <1>5 DEF ListInv, NextsOK
<1>9. TypeOK' /\ TableOK'
  <2>1. overlapped' \in BOOLEAN
    BY <1>4, <1>5, <1>6 DEF ListInv, TypeOK
  <2> QED
    BY <1>1, <1>2, <1>4, <1>5, <1>7, <2>1 DEF ListInv, TypeOK, TableOK
\* When the list stays undisturbed.
<1>10. ASSUME ~overlapped'
      PROVE  /\ ~overlapped /\ AnswersSearch' /\ Sound(w)
             /\ \A d : OfList(v, d) => OfList(w, d)
             /\ \A d : Covers(v, d) => Covers(w, d)
  <2>1. ~f.crossed /\ ~overlapped
    BY <1>4, <1>5, <1>6, <1>10 DEF ListInv, TypeOK
  <2>2. OfList(v, f.cursor) /\ Covers(v, f.cursor)
    BY <1>1, <1>4, <1>5, <2>1 DEF ListInv, NextsOK
  <2>3. Sound(v) /\ AnswersSearch
    BY <1>4, <1>5, <1>8, <2>1 DEF ListInv, ViewOK
  <2>4. f.cursor.filters = v.shown
    BY <2>2 DEF OfList, CursorOf
  <2>5. PICK ids \in SUBSET committed :
            /\ f.answer = Paginate(RowsOf(ids), v.shown, f.cursor, "next")
            /\ v.base \subseteq ids
    BY <1>1, <1>4, <1>5, <2>1, <2>4 DEF ListInv, AnswersOK, NextAnswerOK
  <2>6. /\ Sound(w)
        /\ \A d : OfList(v, d) => OfList(w, d)
        /\ \A d : Covers(v, d) => Covers(w, d)
    <3>1. ids \in SUBSET RowIds /\ v.shown \in Queries /\ v.rows \subseteq Row
      BY <1>6, <1>8 DEF ListInv, TypeOK, View
    <3> QED
      BY <1>6, <1>7, <2>2, <2>3, <2>5, <3>1, NextPageIsSound DEF ListInv, Sound
  <2>7. AnswersSearch'
    BY <1>1, <1>2, <1>4, <1>5, <1>7, <2>3 DEF AnswersSearch
  <2> QED
    BY <2>1, <2>6, <2>7
<1>11. ViewOK'
  <2>1. Sound(view)' <=> Sound(w)
    BY <1>3, <1>4, <1>5
  <2>2. w.base \subseteq committed
    BY <1>4, <1>5, <1>7 DEF ListInv, ViewOK
  <2> QED
    BY <1>1, <1>4, <1>5, <1>7, <1>8, <1>10, <2>1, <2>2 DEF ViewOK
<1>12. NextsOK'
  <2>1. \A c : (OfList(view, c)' <=> OfList(w, c)) /\ (Covers(view, c)' <=> Covers(w, c))
    BY <1>3, <1>4, <1>5 DEF OfList
  <2> QED
    BY <1>2, <1>4, <1>5, <1>7, <1>8, <1>10, <2>1 DEF ListInv, NextsOK
<1>13. AnswersOK'
  <2>1. view'.base = view.base
    BY <1>4, <1>5, <1>7
  <2> QED
    BY <1>1, <1>2, <1>3, <1>10, <2>1 DEF ListInv, AnswersOK, FirstAnswerOK, NextAnswerOK
<1> QED
  BY <1>2, <1>9, <1>11, <1>12, <1>13 DEF ListInv

LEMMA DeliverKeeps ==
    ASSUME ListInv, NEW s \in Slots, Deliver(s)
    PROVE  ListInv'
<1>1. Arrives(s) /\ (fetches[s].answer # None \/ fetches[s].failed)
  BY DEF Deliver, Arrives
<1>2. CASE fetches[s].stale /\ UNCHANGED <<view, error, overlapped>>
  <2>1. error' \in BOOLEAN
    BY <1>2 DEF ListInv, TypeOK
  <2> QED
    BY <1>1, <1>2, <2>1, IgnoredKeeps
<1>3. CASE fetches[s].failed /\ error' = TRUE /\ UNCHANGED <<view, overlapped>>
  BY <1>1, <1>3, IgnoredKeeps
<1>4. CASE /\ ~fetches[s].stale /\ ~fetches[s].failed
           /\ view' = IF IsFirst(s) THEN Replaced(fetches[s]) ELSE Merged(fetches[s])
           /\ overlapped' = (fetches[s].crossed \/ (overlapped /\ ~IsFirst(s)))
           /\ UNCHANGED error
  <2>1. fetches[s].crossed \in BOOLEAN /\ overlapped \in BOOLEAN
    BY <1>1, NoneIsNothing DEF ListInv, TypeOK, Fetch, InFlight, Arrives
  <2>2. CASE IsFirst(s)
    BY <1>1, <1>4, <2>1, <2>2, ReplacedKeeps
  <2>3. CASE ~IsFirst(s)
    BY <1>1, <1>4, <2>1, <2>3, MergedKeeps
  <2> QED
    BY <2>2, <2>3
<1> QED
  BY <1>2, <1>3, <1>4 DEF Deliver

-----------------------------------------------------------------------------
THEOREM ListInvariant == Spec => []ListInv
<1>1. Init => ListInv
  BY InitInv
<1>2. ListInv /\ [Next]_vars => ListInv'
  <2> SUFFICES ASSUME ListInv, [Next]_vars PROVE ListInv'
    OBVIOUS
  <2>1. CASE \E i \in RowIds : Commit(i)
    BY <2>1, CommitsKeep DEF Commit, ListInv, TypeOK
  <2>2. CASE \E s \in Slots, q \in Queries : LoadFirst(s, q)
    BY <2>2, LoadFirstKeeps
  <2>3. CASE \E s \in Slots : LoadNext(s)
    BY <2>3, LoadNextKeeps
  <2>4. CASE \E s \in Slots : Serve(s)
    BY <2>4, ServeKeeps
  <2>5. CASE \E s \in Slots : Fail(s)
    BY <2>5, FailKeeps
  <2>6. CASE \E s \in Slots : Deliver(s)
    BY <2>6, DeliverKeeps
  <2>7. CASE UNCHANGED vars
    BY <2>7, CommitsKeep DEF vars, ListInv, TypeOK
  <2> QED
    BY <2>1, <2>2, <2>3, <2>4, <2>5, <2>6, <2>7 DEF Next
<1> QED
  BY <1>1, <1>2, PTL DEF Spec

(* The variables keep their types: an answer is a page of rows of the      *)
(* table, and its cursors are cursors of such rows.                        *)
THEOREM ListTypes == Spec => []TypeOK
<1>1. ListInv => TypeOK
  BY DEF ListInv
<1> QED
  BY <1>1, ListInvariant, PTL

(* The list shows one search, the last one, as long as the component has   *)
(* kept its requests apart.                                                *)
THEOREM OneSearchIsShown == Spec => []ListMatchesSearch
<1>1. ListInv => ListMatchesSearch
  <2> SUFFICES ASSUME ListInv, ~overlapped
               PROVE  /\ \A r \in view.rows :
                            \/ view.shown \in r.in
                            \/ \E s \in view.rows : r.at = Ms(s.at) /\ r.id < s.id
                      /\ (InFlight = {} /\ ~error /\ view.shown # None) => view.shown = active
    BY DEF ListMatchesSearch
  <2>1. view.shown = None => view.rows = {}
    BY DEF ListInv, ViewOK
  <2>2. view.shown # None => RowsMatch(view)
    BY DEF ListInv, ViewOK, Sound
  <2>3. AnswersSearch
    BY DEF ListInv, ViewOK
  <2> QED
    BY <2>1, <2>2, <2>3 DEF RowsMatch, AnswersSearch
<1> QED
  BY <1>1, ListInvariant, PTL

(* Scrolled to its end, the list misses no row that was there when the     *)
(* walk began, but for rows of the millisecond of a listed row.            *)
THEOREM WalkMissesNoMs == Spec => []ListedOrSameMs
<1>1. ListInv => ListedOrSameMs
  <2> SUFFICES ASSUME ListInv, Walked, NEW r \in Due \ view.rows
               PROVE  \E s \in view.rows : SameMs(s, r) /\ Before(s, r)
    BY DEF ListedOrSameMs
  <2>1. Covers(view, None)
    BY DEF ListInv, ViewOK, Sound, Walked
  <2>2. r \in DueIn(view)
    BY DEF Due, DueIn, RowsOf
  <2> QED
    BY <2>1, <2>2 DEF Covers, Ahead, Accounted
<1> QED
  BY <1>1, ListInvariant, PTL

-----------------------------------------------------------------------------
(* The other cursor of the list is that of a row of the table, cut to its  *)
(* millisecond: the first row of the last page that has arrived.           *)
PrevOK == view.prev # None => \E f \in Rows, q \in Queries : view.prev = CursorOf(f, q)

LEMMA PrevArrives ==
    ASSUME ListInv, NEW s \in InFlight, fetches[s].answer # None
    PROVE  LET c == fetches[s].answer.prev
           IN  c # None => \E f \in Rows, q \in Queries : c = CursorOf(f, q)
<1>1. PICK q \in Queries : q = fetches[s].query
  BY DEF ListInv, TypeOK, InFlight, Fetch
<1>2. PICK ids \in SUBSET committed :
         \E c : fetches[s].answer = Paginate(RowsOf(ids), q, c, "next")
  BY <1>1 DEF ListInv, AnswersOK, FirstAnswerOK, NextAnswerOK
<1>3. PICK c : fetches[s].answer = Paginate(RowsOf(ids), q, c, "next")
  BY <1>2
<1>4. Keyed(RowsOf(ids)) /\ RowsOf(ids) \subseteq Row
  BY RowsTyped DEF ListInv, TypeOK
<1>5. \A r \in RowsOf(ids) : CursorOf(r, q) # None
  BY <1>4, CursorTyped
<1> DEFINE page == fetches[s].answer
<1>6. /\ page.data \subseteq Selected(RowsOf(ids), q, c, "next")
      /\ page.prev = None \/ \E f \in page.data : page.prev = CursorOf(f, q)
  BY <1>3, <1>4, <1>5, ForwardPage
<1>7. page.data \subseteq Rows
  BY <1>6 DEF Selected, RowsOf, Rows
<1> QED
  BY <1>1, <1>6, <1>7

THEOREM PrevInvariant == Spec => []PrevOK
<1>1. Init => PrevOK
  BY DEF Init, EmptyView, PrevOK
<1>2. ListInv /\ PrevOK /\ [Next]_vars => PrevOK'
  <2> SUFFICES ASSUME ListInv, PrevOK, [Next]_vars PROVE PrevOK'
    OBVIOUS
  <2>1. CASE UNCHANGED view /\ UNCHANGED table /\ committed \subseteq committed'
    <3>1. Rows \subseteq Rows'
      BY <2>1 DEF Rows
    <3> QED
      BY <2>1, <3>1 DEF PrevOK
  <2>2. ASSUME NEW s \in Slots, Deliver(s), view' # view PROVE PrevOK'
    <3>1. /\ s \in InFlight /\ UNCHANGED <<table, committed>>
          /\ ~fetches[s].failed /\ fetches[s].answer # None
          /\ view' = IF IsFirst(s) THEN Replaced(fetches[s]) ELSE Merged(fetches[s])
      BY <2>2 DEF Deliver
    <3>2. view'.prev = fetches[s].answer.prev
      <4>1. view \in View
        BY DEF ListInv, TypeOK
      <4> QED
        BY <3>1, <4>1 DEF Replaced, Merged, View
    <3>3. Rows' = Rows
      BY <3>1 DEF Rows
    <3> QED
      BY <3>1, <3>2, <3>3, PrevArrives DEF PrevOK
  <2> QED
    BY <2>1, <2>2
       DEF Next, vars, Commit, LoadFirst, LoadNext, Serve, Fail, Deliver
<1> QED
  BY <1>1, <1>2, ListInvariant, PTL DEF Spec

(* The page before a page may repeat the row f it was asked from and rows  *)
(* after f, but of f's millisecond only; besides, it has the nearest rows  *)
(* before f, misses none of them, is short only when there are no more,    *)
(* and leads back.                                                         *)
THEOREM PreviousIsNearest == Spec => []PreviousPageIsNearest
<1>1. ListInv /\ PrevOK => PreviousPageIsNearest
  <2> SUFFICES ASSUME ListInv, PrevOK, view.prev # None
               PROVE  PreviousPageIsNearest
    BY DEF PreviousPageIsNearest
  <2>1. PICK f \in Rows, q \in Queries : view.prev = CursorOf(f, q)
    BY DEF PrevOK
  <2>2. view.prev.filters = q /\ table[view.prev.id] = f
    BY <2>1 DEF CursorOf, Rows, ListInv, TypeOK, TableOK
  <2>3. Keyed(Rows) /\ \A r \in Rows : CursorOf(r, q) # None
    <3>1. Rows = RowsOf(committed)
      BY DEF Rows, RowsOf
    <3>2. Rows \subseteq Row /\ Keyed(Rows)
      BY <3>1, RowsTyped DEF ListInv, TypeOK
    <3> QED
      BY <3>2, CursorTyped
  <2>4. PICK back : back = Paginate(Rows, q, CursorOf(f, q), "prev")
    OBVIOUS
  <2>5. PICK forth : forth = Paginate(Rows, q, back.next, "next")
    OBVIOUS
  <2>6. /\ \A r \in back.data : Before(r, f) \/ SameMs(r, f)
        /\ \A s \in Rows \ back.data : q \in s.in /\ Before(s, f) =>
              Cardinality(back.data) = Limit /\ \A r \in back.data : Before(s, r)
        /\ back.data # {} => back.next # None
    BY <2>3, <2>4, BackwardPage
  <2>7. back.data # {} /\ q \in f.in =>
           \/ f \in forth.data
           \/ \E r \in back.data : SameMs(r, f)
           \/ \E r \in forth.data : q \notin r.in
    BY <2>3, <2>4, <2>5, BackAndForth
  <2> QED
    BY <2>1, <2>2, <2>4, <2>5, <2>6, <2>7 DEF PreviousPageIsNearest
<1> QED
  BY <1>1, ListInvariant, PrevInvariant, PTL
=============================================================================
