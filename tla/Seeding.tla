------------------------------ MODULE Seeding ------------------------------
(***************************************************************************)
(* The commands that fill a database with a fixture (seed:dev, seed:e2e).  *)
(*                                                                         *)
(* A scenario is a list of rows to get or to insert, each of which may     *)
(* point to earlier ones.  Nothing surrounds the list: no transaction, no  *)
(* lock.  A command may die anywhere, even with an INSERT on its way that  *)
(* the database carries out later; it may be started again, and another    *)
(* may run beside it.  The two fixtures share no row, since every value    *)
(* that is looked up bears the prefix of its fixture or goes with a        *)
(* reference to a row that does: one fixture is modelled.                  *)
(***************************************************************************)
EXTENDS Schema, Naturals, FiniteSets, SequencesExt

CONSTANTS
    Commands,             \* processes of the command line
    Users, Teams, Tags,   \* size of the fixture
    MaxStarts,            \* bound: commands started
    None                  \* no command

ASSUME FixtureAssumption ==
    /\ Users \in Nat \ {0} /\ Teams \in Nat /\ Tags \in Nat /\ MaxStarts \in Nat

VARIABLES
    db,      \* rows
    run,     \* what a command does or has done, or None
    raced,   \* history: two commands, or one and an INSERT adrift, have met
    started  \* commands started so far

vars == <<db, run, raced, started>>
-----------------------------------------------------------------------------
(* The fixture.  A row has a table and a number there, its own values, and *)
(* references to rows that come before it.  Of its values those by which   *)
(* rows are looked up or kept apart are listed.                            *)

Item(table, n, own, refs) == [name |-> <<table, n>>, own |-> own, refs |-> refs]
Alone == <<0, 0>>
Plain == [c \in {} |-> 0]

User(k)        == <<"users", <<k, 0>>>>
Organization   == <<"organizations", Alone>>
Event          == <<"events", Alone>>
Discipline     == <<"disciplines", Alone>>
ScoringProfile == <<"scoring_profiles", Alone>>
Team(k)        == <<"teams", <<k, 0>>>>
Tournament     == <<"tournaments", Alone>>
Entrant(k)     == <<"tournament_entrants", <<k, 0>>>>
Roster(k)      == <<"tournament_rosters", <<k, 0>>>>
Stage          == <<"stages", Alone>>
Match(m)       == <<"matches", <<m, 0>>>>

SeedUsers == [k \in 1..Users |->
    Item("users", <<k, 0>>, [email |-> k, nickname |-> k], Plain)]

SeedOrganization == <<
    Item("organizations", Alone, [slug |-> 1], [created_by_user_id |-> User(1)]),
    Item("memberships", Alone, [scope_type |-> 1, role_code |-> 1],
         [user_id |-> User(1), scope_id |-> Organization]) >>

SeedCatalog == <<
    Item("disciplines", Alone, [slug |-> 1], Plain),
    Item("events", Alone, [slug |-> 1],
         [organization_id |-> Organization, created_by_user_id |-> User(1)]),
    Item("scoring_profiles", Alone, [name |-> 1],
         [organization_id |-> Organization, created_by_user_id |-> User(1)]) >>
    \o [k \in 1..Tags |-> Item("tags", <<k, 0>>, [slug |-> k], Plain)]

Owner(k)  == User(((k - 1) % Users) + 1)
Player(k) == User(((k - 1 + Teams) % Users) + 1)
TeamMember(k, n, user) ==
    Item("team_memberships", <<k, n>>, Plain, [team_id |-> Team(k), user_id |-> user])

SeedTeams == FlattenSeq([k \in 1..Teams |-> <<
    Item("teams", <<k, 0>>, [slug |-> k],
         [created_by_user_id |-> Owner(k), organization_id |-> Organization]),
    TeamMember(k, 1, Owner(k)),
    TeamMember(k, 2, Player(k)) >>])

Members(k) == SetToSortSeq({n \in {k, k + 1} : n <= Users}, <)

SeedTournament ==
    <<Item("tournaments", Alone, [slug |-> 1],
           [organization_id |-> Organization, event_id |-> Event,
            created_by_user_id |-> User(1), discipline_id |-> Discipline,
            scoring_profile_id |-> ScoringProfile])>>
    \o [k \in 1..Tags |->
           Item("tournament_tags", <<k, 0>>, Plain,
                [tournament_id |-> Tournament, tag_id |-> <<"tags", <<k, 0>>>>])]
    \o FlattenSeq([k \in 1..Teams |->
           <<Item("tournament_entrants", <<k, 0>>, [entrant_type |-> 1],
                  [tournament_id |-> Tournament, entrant_id |-> Team(k)]),
             Item("tournament_rosters", <<k, 0>>, Plain,
                  [tournament_id |-> Tournament, entrant_id |-> Entrant(k)])>>
           \o [n \in 1..Len(Members(k)) |->
                  Item("tournament_roster_members", <<k, n>>, Plain,
                       [roster_id |-> Roster(k), user_id |-> User(Members(k)[n])])]])

(* An entrant without an opponent has no match. *)
SeedBracket ==
    <<Item("stages", Alone, [order_index |-> 1], [tournament_id |-> Tournament])>>
    \o FlattenSeq([m \in 1..(Teams \div 2) |->
           <<Item("matches", <<m, 0>>, [order_index |-> m],
                  [tournament_id |-> Tournament, stage_id |-> Stage,
                   discipline_id |-> Discipline])>>
           \o [n \in 1..2 |->
                  Item("match_participants", <<m, n>>, [slot |-> n],
                       [match_id |-> Match(m), entrant_id |-> Entrant(2 * (m - 1) + n)])]])
    \o [k \in 1..Teams |->
           Item("standings", <<k, 0>>, Plain,
                [tournament_id |-> Tournament, stage_id |-> Stage,
                 entrant_id |-> Entrant(k)])]

Scenario == SeedUsers \o SeedOrganization \o SeedCatalog \o SeedTeams
                \o SeedTournament \o SeedBracket

Columns(n, got) ==
    LET item == Scenario[n]
        Place(name) == CHOOSE m \in 1..(n - 1) : Scenario[m].name = name
    IN [c \in DOMAIN item.own \cup DOMAIN item.refs |->
           IF c \in DOMAIN item.own THEN item.own[c] ELSE got[Place(item.refs[c])]]

(* What the rows of a fixture owe to the schema: their names differ, and   *)
(* they point to rows before them, of the tables that the references want. *)
RowsAreOrdered ==
    /\ DOMAIN Scenario = 1..Len(Scenario) /\ Len(Scenario) \in Nat \ {0}
    /\ \A m, n \in 1..Len(Scenario) : Scenario[m].name = Scenario[n].name => m = n
    /\ \A n \in 1..Len(Scenario) :
          LET item == Scenario[n]
              references == Tables[item.name[1]].references
          IN /\ item.name[1] \in DOMAIN Tables
             /\ DOMAIN item.own \cap DOMAIN item.refs = {}
             /\ \A c \in DOMAIN item.refs : \E m \in 1..(n - 1) : Scenario[m].name = item.refs[c]
             /\ \A c \in DOMAIN references :
                   c \in DOMAIN item.refs /\ item.refs[c][1] = references[c]

(* By a unique key, and by the columns of its lookup, no row can be taken  *)
(* for another one.                                                        *)
KeysTellRows ==
    \A m, n \in 1..Len(Scenario) :
        LET r == Scenario[m]
            s == Scenario[n]
            table == r.name[1]
        IN m # n /\ table = s.name[1] =>
              \A key \in Tables[table].keys \cup {Lookup[table]} : \E c \in key :
                 \/ c \in DOMAIN r.own \cap DOMAIN s.own /\ r.own[c] # s.own[c]
                 \/ c \in DOMAIN r.refs \cap DOMAIN s.refs /\ r.refs[c] # s.refs[c]

(* A lookup sees all that would break a unique key: it holds the columns   *)
(* of some key, and its references are in every key.                       *)
LookupSeesKeys ==
    \A n \in 1..Len(Scenario) :
        LET item == Scenario[n]
            table == item.name[1]
            keys == Tables[table].keys
        IN /\ Lookup[table] \subseteq DOMAIN item.own \cup DOMAIN item.refs
           /\ keys # {} => \E key \in keys : key \subseteq Lookup[table]
           /\ \A key \in keys : Lookup[table] \cap DOMAIN item.refs \subseteq key

ASSUME FixtureFitsSchema == RowsAreOrdered /\ KeysTellRows /\ LookupSeesKeys
-----------------------------------------------------------------------------
(* A row has its columns and an id: the name of its item and which copy it is. *)

TableOf(n) == Scenario[n].name[1]
Rows(table) == {r \in db : r.id.name[1] = table}
Copies(name) == {r \in db : r.id.name = name}
NewId(n) == [name |-> Scenario[n].name, copy |-> 1 + Cardinality(Copies(Scenario[n].name))]

Agree(cols, others, some) == \A c \in some : cols[c] = others[c]
References(table, cols) ==
    \A c \in DOMAIN Tables[table].references :
        \E r \in Rows(Tables[table].references[c]) : r.id = cols[c]
Refused(table, cols) ==
    \/ \E key \in Tables[table].keys, r \in Rows(table) : Agree(r.cols, cols, key)
    \/ ~References(table, cols)

(* Step "adrift": the process is gone, but not the INSERT it had sent. *)
Run == [step : {"find", "insert", "adrift", "done", "refused", "died"},
        got : Seq({r.id : r \in db}), raced : BOOLEAN]

(* The type invariant, and the references of the rows (no row is deleted). *)
TypeOK ==
    /\ \A r \in db : r.id.name[1] \in DOMAIN Tables /\ References(r.id.name[1], r.cols)
    /\ \A r, s \in db : r.id = s.id => r = s
    /\ run \in [Commands -> Run \cup {None}]
    /\ \A c \in Commands : run[c] # None => Len(run[c].got) \in 0..Len(Scenario)
    /\ raced \in BOOLEAN
    /\ started \in 0..MaxStarts

Init ==
    /\ db = {}
    /\ run = [c \in Commands |-> None]
    /\ raced = FALSE
    /\ started = 0

At(c, step) == IF run[c] = None THEN FALSE ELSE run[c].step = step
Inserting(c) == At(c, "insert") \/ At(c, "adrift")
Running(c) == At(c, "find") \/ Inserting(c)
Position(c) == Len(run[c].got) + 1
-----------------------------------------------------------------------------
(* runSeedScenario: steps in order, one row after the other.               *)

Start(c) ==
    LET others == {o \in Commands : Running(o)}
    IN /\ ~Running(c) /\ started < MaxStarts
       /\ started' = started + 1
       /\ run' = [o \in Commands |->
              IF o = c THEN [step |-> "find", got |-> << >>, raced |-> others # {}]
              ELSE IF o \in others THEN [run[o] EXCEPT !.raced = TRUE] ELSE run[o]]
       /\ raced' = (raced \/ others # {})
       /\ UNCHANGED db

Got(c, id) ==
    run' = [run EXCEPT ![c].got = Append(@, id),
                       ![c].step = IF Position(c) = Len(Scenario) THEN "done" ELSE "find"]

Ends(c, step) == run' = [run EXCEPT ![c].step = step, ![c].got = << >>]

(* Mutants: the lookup leaves out the references, or there is no lookup.   *)
FindLoose(c) ==
    /\ At(c, "find")
    /\ LET n     == Position(c)
           table == TableOf(n)
           cols  == Columns(n, run[c].got)
           found == {r \in Rows(table) :
                       Agree(r.cols, cols, Lookup[table] \ DOMAIN Scenario[n].refs)}
       IN IF found = {}
          THEN run' = [run EXCEPT ![c].step = "insert"]
          ELSE \E r \in found : Got(c, r.id)
    /\ UNCHANGED <<db, raced, started>>
FindNothing(c) ==
    /\ At(c, "find")
    /\ run' = [run EXCEPT ![c].step = "insert"]
    /\ UNCHANGED <<db, raced, started>>

(* getOrInsert...: the row is looked up; if there are several, any is taken. *)
Find(c) ==
    /\ At(c, "find")
    /\ LET table == TableOf(Position(c))
           cols  == Columns(Position(c), run[c].got)
           found == {r \in Rows(table) : Agree(r.cols, cols, Lookup[table])}
       IN IF found = {}
          THEN run' = [run EXCEPT ![c].step = "insert"]
          ELSE \E r \in found : Got(c, r.id)
    /\ UNCHANGED <<db, raced, started>>

(* Mutant: the insert is in a transaction that is never committed. *)
InsertUncommitted(c) ==
    /\ At(c, "insert")
    /\ Got(c, NewId(Position(c)))
    /\ UNCHANGED <<db, raced, started>>

(* It was not there: it is inserted, or the database refuses it and the    *)
(* command ends with an error.                                             *)
Insert(c) ==
    /\ At(c, "insert")
    /\ LET n    == Position(c)
           cols == Columns(n, run[c].got)
       IN IF Refused(TableOf(n), cols)
          THEN Ends(c, "refused") /\ UNCHANGED db
          ELSE db' = db \cup {[id |-> NewId(n), cols |-> cols]} /\ Got(c, NewId(n))
    /\ UNCHANGED <<raced, started>>

(* The process ends, or the database does not answer it.  An INSERT it was *)
(* waiting for may still be on its way.                                    *)
Die(c) ==
    /\ \/ (At(c, "find") \/ At(c, "insert")) /\ Ends(c, "died")
       \/ At(c, "insert") /\ run' = [run EXCEPT ![c].step = "adrift"]
    /\ UNCHANGED <<db, raced, started>>

(* That INSERT is carried out or refused, with nobody to hear of it, or it *)
(* is lost.                                                                *)
Land(c) ==
    /\ At(c, "adrift")
    /\ LET n    == Position(c)
           cols == Columns(n, run[c].got)
       IN \/ UNCHANGED db
          \/ ~Refused(TableOf(n), cols) /\ db' = db \cup {[id |-> NewId(n), cols |-> cols]}
    /\ Ends(c, "died")
    /\ UNCHANGED <<raced, started>>

Next == \E c \in Commands : Start(c) \/ Find(c) \/ Insert(c) \/ Die(c) \/ Land(c)

Spec == Init /\ [][Next]_vars
-----------------------------------------------------------------------------
(* Row r is the one that item n of the scenario asks for, after the rows of got. *)
Serves(r, n, got) ==
    LET item == Scenario[n]
    IN /\ r.id.name = item.name
       /\ Agree(r.cols, item.own, DOMAIN item.own)
       /\ Agree(r.cols, Columns(n, got), Lookup[TableOf(n)])
       /\ \A c \in DOMAIN item.refs : r.cols[c].name = item.refs[c]

Twins == {r \in db : \E s \in Rows(r.id.name[1]) :
                       s # r /\ Agree(s.cols, r.cols, Lookup[r.id.name[1]])}

(* A command that reports success leaves the fixture it describes, however *)
(* many commands died before it or run beside it: each row is there, with  *)
(* its values and pointing to the right rows, and once.  Only the tables   *)
(* without a unique key may hold a row twice, after a race.                *)
SuccessIsExact ==
    \A c \in Commands : At(c, "done") =>
        /\ \A n \in 1..Len(Scenario) :
               \E r \in db : r.id = run[c].got[n] /\ Serves(r, n, run[c].got)
        /\ \A r \in Twins : raced /\ Tables[r.id.name[1]].keys = {}

(* The database refuses a row only to a command that another one runs      *)
(* beside, or the last INSERT of a dead one: whatever dead commands and    *)
(* races have left, a command that is run alone gets through.              *)
RefusedOnlyIfRaced ==
    \A c \in Commands : At(c, "refused") => run[c].raced
=============================================================================
