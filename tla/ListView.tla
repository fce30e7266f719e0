------------------------------ MODULE ListView ------------------------------
(***************************************************************************)
(* The endless lists of the web application over a table that changes: a   *)
(* search replaces the list with a first page, scrolling appends the next  *)
(* one, and the API answers each request with a page of CursorPagination.  *)
(*                                                                         *)
(* The three lists differ in what they do about answers in flight:         *)
(*   TeamExplorer         nothing,                                         *)
(*   UserExplorer         one request at a time, others are dropped,       *)
(*   TeamInvitationPanel  a version drops the answer of an older refresh.  *)
(***************************************************************************)
EXTENDS CursorPagination

CONSTANTS
    RowIds,     \* ids of the rows of the table
    Times,      \* values of created_at
    Queries,    \* searches: values of the search form, or a scope
    Blank,      \* the empty search, with which an explorer opens
    Panel,      \* the one query of TeamInvitationPanel: its team
    Slots,      \* bound: requests in flight together
    MaxFaults   \* bound: requests that fail

Lists == {"TeamExplorer", "UserExplorer", "TeamInvitationPanel"}

ASSUME ListAssumption ==
    /\ RowIds \subseteq Nat /\ Times \subseteq Nat /\ MaxFaults \in Nat
    /\ IsFiniteSet(RowIds)
    /\ {Blank, Panel} \subseteq Queries /\ None \notin Queries

VARIABLES
    list,       \* which list the browser shows
    table,      \* id -> row, committed or not yet
    committed,  \* ids of the rows a query sees
    active,     \* activeQueryRef: the query of the next request
    view,       \* rows shown, cursors of pageInfo, and what they answer
    fetches,    \* slot -> request in flight
    error,      \* an error is shown
    faults,     \* requests that failed so far
    overlapped  \* history: an answer in the list crossed another request

vars == <<list, table, committed, active, view, fetches, error, faults, overlapped>>

Row    == [id : RowIds, at : Times, in : SUBSET Queries]
Cursor == [at : {Ms(t) : t \in Times}, id : RowIds, filters : Queries]
Page   == [data : SUBSET Row, next : Cursor \cup {None}, prev : Cursor \cup {None}]

(* shown: the query that the list answers; base: the rows committed when   *)
(* its first page was read.  crossed: a request that could disturb this    *)
(* one was in flight with it.  (History: the code keeps none of these.)    *)
View  == [rows : SUBSET Row, next : Cursor \cup {None}, prev : Cursor \cup {None},
          shown : Queries \cup {None}, base : SUBSET RowIds]
Fetch == [query : Queries, cursor : Cursor \cup {None}, stale : BOOLEAN, crossed : BOOLEAN,
          answer : Page \cup {None}, failed : BOOLEAN, base : SUBSET RowIds]

ASSUME NoneIsNothing == None \notin Cursor \cup Page \cup Fetch

TypeOK ==
    /\ list \in Lists
    /\ table \in [RowIds -> Row]
    /\ committed \in SUBSET RowIds
    /\ active \in Queries
    /\ view \in View
    /\ fetches \in [Slots -> Fetch \cup {None}]
    /\ error \in BOOLEAN
    /\ faults \in 0..MaxFaults
    /\ overlapped \in BOOLEAN

Rows == {table[i] : i \in committed}
InFlight == {s \in Slots : fetches[s] # None}
IsFirst(s) == fetches[s].cursor = None
LoadingFirst == \E s \in InFlight : IsFirst(s) /\ ~fetches[s].stale
LoadingNext  == \E s \in InFlight : ~IsFirst(s)

(* a newer refresh of the panel: the answers of older ones are ignored *)
Outdates(t) == list = "TeamInvitationPanel" /\ IsFirst(t)

(* s sends a request, which crosses those of the slots others *)
Sent(s, q, c, others) ==
    [t \in Slots |->
        CASE t = s      -> [query |-> q, cursor |-> c, stale |-> FALSE,
                            crossed |-> others # {},
                            answer |-> None, failed |-> FALSE, base |-> {}]
          [] t \in InFlight -> [fetches[t] EXCEPT !.crossed = @ \/ t \in others,
                                    !.stale = @ \/ (c = None /\ Outdates(t))]
          [] OTHER      -> None]
-----------------------------------------------------------------------------
EmptyView == [rows |-> {}, next |-> None, prev |-> None, shown |-> None, base |-> {}]

(* The server could not render the first page, and the list starts empty.  *)
Init ==
    /\ list \in Lists
    /\ table \in {t \in [RowIds -> Row] : \A i \in RowIds : t[i].id = i}
    /\ committed \in SUBSET RowIds
    /\ active = IF list = "TeamInvitationPanel" THEN Panel ELSE Blank
    /\ view = EmptyView
    /\ fetches = [s \in Slots |-> None]
    /\ error = FALSE /\ faults = 0 /\ overlapped = FALSE

(* A transaction commits; its created_at may be older than rows of others. *)
Commit(i) ==
    /\ i \notin committed
    /\ committed' = committed \cup {i}
    /\ UNCHANGED <<list, table, active, view, fetches, error, faults, overlapped>>
-----------------------------------------------------------------------------
(* Requests of the list.  UserExplorer: beginLoad; TeamExplorer: isPending *)
(* covers only the synchronous part of the transition.                     *)

MayLoadFirst(q) ==
    CASE list = "UserExplorer"        -> InFlight = {}
      [] list = "TeamInvitationPanel" -> q = Panel
      [] OTHER                        -> TRUE

MayLoadNext ==
    CASE list = "UserExplorer"        -> InFlight = {}
      [] list = "TeamInvitationPanel" -> ~LoadingFirst /\ ~LoadingNext
      [] OTHER                        -> TRUE

LoadFirst(s, q) ==
    /\ fetches[s] = None /\ MayLoadFirst(q)
    /\ active' = q
    /\ error' = FALSE
    /\ fetches' = Sent(s, q, None, {t \in InFlight : list = "TeamExplorer" \/ ~IsFirst(t)})
    /\ UNCHANGED <<list, table, committed, view, faults, overlapped>>

LoadNext(s) ==
    /\ fetches[s] = None /\ view.next # None /\ MayLoadNext
    /\ fetches' = Sent(s, active, view.next, {t \in InFlight : IsFirst(t) /\ ~fetches[t].stale})
    /\ UNCHANGED <<list, table, committed, active, view, error, faults, overlapped>>
-----------------------------------------------------------------------------
(* The API.  A cursor made with other filters is an InvalidCursorError.    *)

Serve(s) ==
    /\ s \in InFlight
    /\ fetches[s].answer = None /\ ~fetches[s].failed
    /\ LET f == fetches[s]
       IN  fetches' = [fetches EXCEPT ![s] =
               IF Mismatch(f.query, f.cursor)
               THEN [f EXCEPT !.failed = TRUE]
               ELSE [f EXCEPT !.answer = Paginate(Rows, f.query, f.cursor, "next"),
                              !.base = IF IsFirst(s) THEN committed ELSE {}]]
    /\ UNCHANGED <<list, table, committed, active, view, error, faults, overlapped>>

Fail(s) ==
    /\ faults < MaxFaults
    /\ s \in InFlight
    /\ fetches[s].answer = None /\ ~fetches[s].failed
    /\ fetches' = [fetches EXCEPT ![s].failed = TRUE]
    /\ faults' = faults + 1
    /\ UNCHANGED <<list, table, committed, active, view, error, overlapped>>
-----------------------------------------------------------------------------
(* Answers.                                                                *)

Replaced(f) == [rows |-> f.answer.data, next |-> f.answer.next, prev |-> f.answer.prev,
                shown |-> f.query, base |-> f.base]

(* Mutant: the next page takes the place of the list. *)
MergedAway(f) == [view EXCEPT !.rows = f.answer.data,
                              !.next = f.answer.next, !.prev = f.answer.prev]

(* mergeTeams, mergeUsers, mergeInvitations: rows the list has already are *)
(* not added again                                                         *)
Merged(f) == [view EXCEPT !.rows = @ \cup f.answer.data,
                          !.next = f.answer.next, !.prev = f.answer.prev]

Deliver(s) ==
    /\ s \in InFlight
    /\ fetches[s].answer # None \/ fetches[s].failed
    /\ LET f == fetches[s]
       IN  \/ /\ f.stale
              /\ UNCHANGED <<view, error, overlapped>>
           \/ /\ ~f.stale /\ f.failed
              /\ error' = TRUE
              /\ UNCHANGED <<view, overlapped>>
           \/ /\ ~f.stale /\ ~f.failed
              /\ view' = IF IsFirst(s) THEN Replaced(f) ELSE Merged(f)
              /\ overlapped' = (f.crossed \/ (overlapped /\ ~IsFirst(s)))
              /\ UNCHANGED error
    /\ fetches' = [fetches EXCEPT ![s] = None]
    /\ UNCHANGED <<list, table, committed, active, faults>>

Next ==
    \/ \E i \in RowIds : Commit(i)
    \/ \E s \in Slots, q \in Queries : LoadFirst(s, q)
    \/ \E s \in Slots : LoadNext(s)
    \/ \E s \in Slots : Serve(s)
    \/ \E s \in Slots : Fail(s)
    \/ \E s \in Slots : Deliver(s)

Spec == Init /\ [][Next]_vars
-----------------------------------------------------------------------------
(* The list shows one search: without overlapping requests every row of it *)
(* answers the query of its first page (or carries the very instant of a   *)
(* cursor, which the unparenthesised condition admits), and when nothing   *)
(* is awaited and no error is shown, that query is the last one searched   *)
(* for.  A cursor of another search never extends the list.                *)
ListMatchesSearch ==
    ~overlapped =>
        /\ \A r \in view.rows :
              \/ view.shown \in r.in
              \/ \E s \in view.rows : r.at = Ms(s.at) /\ r.id < s.id
        /\ (InFlight = {} /\ ~error /\ view.shown # None) => view.shown = active

(* A list scrolled to its end has every row of its query that was there    *)
(* when the walk began, but for rows of the millisecond of a row listed    *)
(* before them.                                                            *)
Walked == view.shown # None /\ view.next = None /\ ~overlapped
Due == {r \in {table[i] : i \in view.base} : view.shown \in r.in}

ListedOrSameMs ==
    Walked => \A r \in Due \ view.rows :
                 \E s \in view.rows : SameMs(s, r) /\ Before(s, r)

(* "keeps records with the same createdAt stable across forward pages"     *)
(* (cursor-pagination.spec.ts:93): no row is left out of a walk.           *)
AllRowsListed == Walked => Due \subseteq view.rows

(* The page before a page that begins with the row f.  It may hold f again *)
(* and rows after f, but of f's millisecond only: the cursor stands where  *)
(* that millisecond begins, so with pages of one row it may be one row of  *)
(* that millisecond, f itself or one that follows it, again and again.     *)
(* Besides these it has the nearest rows before f, as many as a page holds *)
(* or all there are, and nothing is left out between them and f.  And      *)
(* hasNextPage, which is taken from the cursor, is right: going on from    *)
(* the page before leads back to f, unless rows of f's millisecond are on  *)
(* it or another search's row (see Selected) gets in between.              *)
PreviousPageIsNearest ==
    view.prev # None =>
        LET q     == view.prev.filters
            f     == table[view.prev.id]
            back  == Paginate(Rows, q, view.prev, "prev")
            forth == Paginate(Rows, q, back.next, "next")
        IN  /\ \A r \in back.data : Before(r, f) \/ SameMs(r, f)
            /\ \A s \in Rows \ back.data : q \in s.in /\ Before(s, f) =>
                  /\ Cardinality(back.data) = Limit
                  /\ \A r \in back.data : Before(s, r)
            /\ back.data # {} /\ q \in f.in =>
                  /\ back.next # None
                  /\ \/ f \in forth.data
                     \/ \E r \in back.data : SameMs(r, f)
                     \/ \E r \in forth.data : q \notin r.in
=============================================================================
