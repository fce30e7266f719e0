-------------------------- MODULE CursorPagination --------------------------
(***************************************************************************)
(* Seek pagination of a listing (packages/db/src/pagination), as operators *)
(* on a set of rows.  The order (created_at, id), descending, is total, so *)
(* a page is a set.                                                        *)
(*                                                                         *)
(* The column has microseconds and a JavaScript Date milliseconds: times   *)
(* are counted in units of which PerMs make a millisecond.  A row is       *)
(* [id, at, in]: its id, its time, and the queries (scope and filters of a *)
(* listing) whose conditions it satisfies.                                 *)
(***************************************************************************)
EXTENDS Naturals, FiniteSets

CONSTANTS
    PerMs,  \* units of the time column in a millisecond
    Limit,  \* rows of a page
    None    \* no cursor

ASSUME PaginationAssumption == PerMs \in Nat \ {0} /\ Limit \in Nat \ {0}

Directions == {"next", "prev"}

(* Date.toISOString: what is below the millisecond is dropped *)
Ms(t) == t - (t % PerMs)
SameMs(r, s) == Ms(r.at) = Ms(s.at)

(* Mutant: the instant is rounded up instead of cut off. *)
CursorRoundedUp(row, q) == [at |-> Ms(row.at) + PerMs, id |-> row.id, filters |-> q]

CursorOf(row, q) == [at |-> Ms(row.at), id |-> row.id, filters |-> q]

(* r is listed before s *)
Before(r, s) == r.at > s.at \/ (r.at = s.at /\ r.id > s.id)

(* Mutant: the order is not reversed to read backwards. *)
PrecedesForward(dir, r, s) == IF dir \in Directions THEN Before(r, s) ELSE FALSE

Precedes(dir, r, s) == IF dir = "next" THEN Before(r, s) ELSE Before(s, r)

(* the first n rows in the order of the query *)
Top(n, rows, dir) ==
    {r \in rows : Cardinality({s \in rows : Precedes(dir, s, r)}) < n}
FirstIn(rows) == CHOOSE r \in rows : \A s \in rows \ {r} : Before(r, s)
LastIn(rows)  == CHOOSE r \in rows : \A s \in rows \ {r} : Before(s, r)

Beyond(t, u, dir) == IF dir = "next" THEN t < u ELSE t > u

(* The condition of the cursor is a raw "a or b" that Kysely joins to the  *)
(* conditions of the listing with "and", and "and" binds tighter.          *)
Selected(rows, q, c, dir) ==
    IF c = None
    THEN {r \in rows : q \in r.in}
    ELSE {r \in rows : \/ q \in r.in /\ Beyond(r.at, c.at, dir)
                       \/ r.at = c.at /\ Beyond(r.id, c.id, dir)}

(* Mutant: any cursor is accepted. *)
NeverMismatch(q, c) == q = None /\ c # None

(* a cursor belongs to the filters it was made with *)
Mismatch(q, c) == IF c = None THEN FALSE ELSE c.filters # q

Paginate(rows, q, c, dir) ==
    LET selected == Selected(rows, q, c, dir)
        data     == Top(Limit, selected, dir)
        extra    == Top(Limit + 1, selected, dir) # data
        hasNext  == IF dir = "next" THEN extra ELSE c # None
        hasPrev  == IF dir = "next" THEN c # None ELSE extra
    IN  [data |-> data,
         next |-> IF hasNext /\ data # {} THEN CursorOf(LastIn(data), q) ELSE None,
         prev |-> IF hasPrev /\ data # {} THEN CursorOf(FirstIn(data), q) ELSE None]
=============================================================================
