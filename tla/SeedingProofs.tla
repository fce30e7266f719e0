---------------------------- MODULE SeedingProofs ----------------------------
(***************************************************************************)
(* Proofs about Seeding, for any number of commands, started any number of *)
(* times, and any fixture that fits the schema: a row is taken for no      *)
(* other by its lookup or by a unique key (KeysTellRows), and a lookup     *)
(* sees what would break a key (LookupSeesKeys).                           *)
(*                                                                         *)
(* The invariant says of every row which item of the fixture it is, of     *)
(* every command that its rows serve the items it has passed, and of a     *)
(* command that runs alone that what it did not find is still not there.   *)
(***************************************************************************)
EXTENDS Seeding, FiniteSetTheorems, TLAPS

Items == 1..Len(Scenario)

\* r is a copy of item n, and what it points to exists.
Is(r, n) ==
    LET item == Scenario[n]
    IN /\ r.id.name = item.name
       /\ \A c \in DOMAIN item.own : r.cols[c] = item.own[c]
       /\ \A c \in DOMAIN item.refs : \E s \in db : s.id = r.cols[c] /\ s.id.name = item.refs[c]

RowsOK == \A r \in db : \E n \in Items : Is(r, n)

IdsOK ==
    /\ IsFiniteSet(db)
    /\ \A r \in db : r.id.copy \in Nat /\ r.id.copy <= Cardinality(Copies(r.id.name))
    /\ \A r, s \in db : r.id = s.id => r = s

\* The unique keys hold, and rows that a lookup cannot tell apart need a race.
KeysOK ==
    \A r, s \in db : r # s /\ r.id.name[1] = s.id.name[1] =>
        /\ \A key \in Tables[r.id.name[1]].keys : ~Agree(r.cols, s.cols, key)
        /\ Agree(r.cols, s.cols, Lookup[r.id.name[1]]) => raced

Found(rows, n, got) ==
    {r \in rows : /\ r.id.name[1] = TableOf(n)
                  /\ Agree(r.cols, Columns(n, got), Lookup[TableOf(n)])}

Passed(rows, got) ==
    \A n \in 1..Len(got) : \E r \in rows : r.id = got[n] /\ Serves(r, n, got)

RunOK(c) ==
    /\ run[c].got \in Seq({r.id : r \in db}) /\ Passed(db, run[c].got)
    /\ Running(c) => Len(run[c].got) < Len(Scenario)
    /\ At(c, "done") => Len(run[c].got) = Len(Scenario)
    /\ Running(c) /\ ~run[c].raced => \A o \in Commands \ {c} : ~Running(o)
    /\ ~raced /\ Running(c) => ~run[c].raced
    /\ Inserting(c) /\ ~run[c].raced => Found(db, Position(c), run[c].got) = {}
    /\ At(c, "refused") => run[c].raced

RunsOK == \A c \in Commands : run[c] # None => RunOK(c)

CommandsOK ==
    /\ run \in [Commands -> Run \cup {None}]
    /\ \A c \in Commands : run[c] # None => Len(run[c].got) \in 0..Len(Scenario)
    /\ raced \in BOOLEAN /\ started \in 0..MaxStarts

SeedInv == CommandsOK /\ RowsOK /\ IdsOK /\ KeysOK /\ RunsOK

(***************************************************************************)
(* Columns.                                                                *)
(***************************************************************************)

\* The columns of item n, given rows for the items before it.
LEMMA ColumnsOf ==
    ASSUME NEW n \in Items, NEW got
    PROVE  /\ \A c \in DOMAIN Scenario[n].own : Columns(n, got)[c] = Scenario[n].own[c]
           /\ \A c \in DOMAIN Scenario[n].refs :
                 \E m \in 1..(n - 1) : /\ Scenario[m].name = Scenario[n].refs[c]
                                       /\ Columns(n, got)[c] = got[m]
  <1> DEFINE own == Scenario[n].own
             refs == Scenario[n].refs
             Place(name) == CHOOSE m \in 1..(n - 1) : Scenario[m].name = name
  <1>1. Columns(n, got) = [c \in DOMAIN own \cup DOMAIN refs |->
                             IF c \in DOMAIN own THEN own[c] ELSE got[Place(refs[c])]]
    BY DEF Columns
  <1>2. DOMAIN own \cap DOMAIN refs = {}
    BY FixtureFitsSchema DEF RowsAreOrdered, Items
  <1>3. ASSUME NEW c \in DOMAIN refs
        PROVE  \E m \in 1..(n - 1) : Scenario[m].name = refs[c] /\ Columns(n, got)[c] = got[m]
    <2>1. \E m \in 1..(n - 1) : Scenario[m].name = refs[c]
      BY FixtureFitsSchema DEF RowsAreOrdered, Items
    <2>2. Place(refs[c]) \in 1..(n - 1) /\ Scenario[Place(refs[c])].name = refs[c]
      BY <2>1
    <2> HIDE DEF Place
    <2>3. Columns(n, got)[c] = got[Place(refs[c])]
      BY <1>1, <1>2
    <2>. QED
      BY <2>2, <2>3
  <1>. QED
    BY <1>1, <1>3

\* Columns only look at the rows before.
LEMMA ColumnsLookBack ==
    ASSUME NEW S, NEW got \in Seq(S), NEW x \in S, NEW n \in Items, n <= Len(got) + 1
    PROVE  Columns(n, Append(got, x)) = Columns(n, got)
  <1> DEFINE own == Scenario[n].own
             refs == Scenario[n].refs
             Place(name) == CHOOSE m \in 1..(n - 1) : Scenario[m].name = name
  <1>1. ASSUME NEW c \in DOMAIN own \cup DOMAIN refs, c \notin DOMAIN own
        PROVE  Append(got, x)[Place(refs[c])] = got[Place(refs[c])]
    <2>1. \E m \in 1..(n - 1) : Scenario[m].name = refs[c]
      BY <1>1, FixtureFitsSchema DEF RowsAreOrdered, Items
    <2>2. Place(refs[c]) \in 1..(n - 1)
      BY <2>1
    <2> HIDE DEF Place
    <2>3. n \in Int /\ Len(got) \in Nat
      BY DEF Items
    <2>4. Place(refs[c]) \in 1..Len(got)
      BY <2>2, <2>3
    <2>. QED
      BY <2>4
  <1> HIDE DEF Place
  <1>2. [c \in DOMAIN own \cup DOMAIN refs |->
            IF c \in DOMAIN own THEN own[c] ELSE Append(got, x)[Place(refs[c])]]
        = [c \in DOMAIN own \cup DOMAIN refs |->
            IF c \in DOMAIN own THEN own[c] ELSE got[Place(refs[c])]]
    BY <1>1
  <1>. QED
    BY <1>2 DEF Columns, Place

\* The rows a command has got for the items before n have their names.
Named(n, got) ==
    \A m \in 1..(n - 1) : \E r \in db : r.id = got[m] /\ r.id.name = Scenario[m].name

LEMMA GotNames ==
    ASSUME SeedInv, NEW c \in Commands, Running(c)
    PROVE  /\ run[c].got \in Seq({r.id : r \in db}) /\ Passed(db, run[c].got)
           /\ Position(c) \in Items /\ Position(c) = Len(run[c].got) + 1
           /\ run[c] # None /\ run[c] \in Run /\ RunOK(c)
           /\ Named(Position(c), run[c].got)
  <1>1. run[c] # None /\ run[c] \in Run /\ RunOK(c)
    BY DEF Running, Inserting, At, SeedInv, RunsOK, CommandsOK
  <1>2. run[c].got \in Seq({r.id : r \in db}) /\ Passed(db, run[c].got) /\ Len(run[c].got) < Len(Scenario)
    BY <1>1 DEF RunOK
  <1>3. Len(run[c].got) \in Nat /\ Len(Scenario) \in Nat
    BY <1>2, FixtureFitsSchema DEF RowsAreOrdered
  <1>4. Position(c) \in Items /\ Position(c) - 1 = Len(run[c].got)
    BY <1>2, <1>3 DEF Position, Items
  <1>. QED
    BY <1>1, <1>2, <1>3, <1>4 DEF Passed, Serves, Position, Named

\* A reference of item n leads to a row with the name it should have.
LEMMA ReferenceOf ==
    ASSUME NEW n \in Items, NEW got, Named(n, got), NEW f \in DOMAIN Scenario[n].refs
    PROVE  \E s \in db : s.id = Columns(n, got)[f] /\ s.id.name = Scenario[n].refs[f]
  <1>1. PICK k \in 1..(n - 1) : Scenario[k].name = Scenario[n].refs[f] /\ Columns(n, got)[f] = got[k]
    BY ColumnsOf
  <1>. QED
    BY <1>1 DEF Named

\* A row that agrees with the columns of an item on its lookup, or on a unique
\* key, is that item.
LEMMA Identify ==
    ASSUME SeedInv, NEW n \in Items, NEW got, Named(n, got), NEW r \in Rows(TableOf(n)),
           NEW key \in Tables[TableOf(n)].keys \cup {Lookup[TableOf(n)]},
           Agree(r.cols, Columns(n, got), key)
    PROVE  Is(r, n)
  <1>1. r \in db /\ r.id.name[1] = TableOf(n)
    BY DEF Rows
  <1>2. PICK m \in Items : Is(r, m)
    BY <1>1 DEF SeedInv, RowsOK
  <1>3. CASE m # n
    <2>1. Scenario[m].name[1] = Scenario[n].name[1] /\ TableOf(n) = Scenario[m].name[1]
      BY <1>1, <1>2 DEF Is, TableOf
    <2>2. key \in Tables[Scenario[m].name[1]].keys \cup {Lookup[Scenario[m].name[1]]}
      BY <2>1
    <2>3. PICK f \in key :
            \/ f \in DOMAIN Scenario[m].own \cap DOMAIN Scenario[n].own
               /\ Scenario[m].own[f] # Scenario[n].own[f]
            \/ f \in DOMAIN Scenario[m].refs \cap DOMAIN Scenario[n].refs
               /\ Scenario[m].refs[f] # Scenario[n].refs[f]
      BY <2>1, <2>2, <1>3, FixtureFitsSchema DEF KeysTellRows, Items
    <2>4. r.cols[f] = Columns(n, got)[f]
      BY DEF Agree
    <2>5. CASE f \in DOMAIN Scenario[m].own \cap DOMAIN Scenario[n].own
               /\ Scenario[m].own[f] # Scenario[n].own[f]
      BY <1>2, <2>4, <2>5, ColumnsOf DEF Is
    <2>6. CASE f \in DOMAIN Scenario[m].refs \cap DOMAIN Scenario[n].refs
               /\ Scenario[m].refs[f] # Scenario[n].refs[f]
      <3>1. PICK s \in db : s.id = r.cols[f] /\ s.id.name = Scenario[m].refs[f]
        BY <1>2, <2>6 DEF Is
      <3>2. PICK t \in db : t.id = Columns(n, got)[f] /\ t.id.name = Scenario[n].refs[f]
        BY <2>6, ReferenceOf
      <3>. QED
        BY <2>4, <2>6, <3>1, <3>2
    <2>. QED
      BY <2>3, <2>5, <2>6
  <1>. QED
    BY <1>2, <1>3

\* So what a lookup finds serves the item that is looked for.
LEMMA FoundServes ==
    ASSUME SeedInv, NEW n \in Items, NEW got, Named(n, got), NEW r \in Found(db, n, got)
    PROVE  r \in db /\ Serves(r, n, got)
  <1>1. /\ r \in Rows(TableOf(n)) /\ r \in db
        /\ Agree(r.cols, Columns(n, got), Lookup[TableOf(n)])
    BY DEF Found, Rows
  <1>2. Is(r, n)
    BY <1>1, Identify
  <1>. QED
    BY <1>1, <1>2 DEF Is, Serves, Agree

\* A unique key does not stand in the way of a command whose lookup finds
\* nothing, and neither does a reference.
LEMMA NotRefused ==
    ASSUME SeedInv, NEW n \in Items, NEW got, Named(n, got), Found(db, n, got) = {}
    PROVE  ~Refused(TableOf(n), Columns(n, got))
  <1>1. ASSUME NEW key \in Tables[TableOf(n)].keys, NEW r \in Rows(TableOf(n)),
               Agree(r.cols, Columns(n, got), key)
        PROVE  FALSE
    <2>1. Is(r, n)
      BY <1>1, Identify
    <2>2. ASSUME NEW f \in Lookup[TableOf(n)] PROVE r.cols[f] = Columns(n, got)[f]
      <3>1. /\ f \in DOMAIN Scenario[n].own \cup DOMAIN Scenario[n].refs
            /\ f \in DOMAIN Scenario[n].refs => f \in key
        BY <1>1, <2>2, FixtureFitsSchema DEF LookupSeesKeys, TableOf, Items
      <3>2. CASE f \in DOMAIN Scenario[n].own
        BY <2>1, <3>2, ColumnsOf DEF Is
      <3>3. CASE f \in DOMAIN Scenario[n].refs
        BY <1>1, <3>1, <3>3 DEF Agree
      <3>. QED
        BY <3>1, <3>2, <3>3
    <2>3. r \in Found(db, n, got)
      BY <2>2 DEF Found, Agree, Rows
    <2>. QED
      BY <2>3
  <1>2. References(TableOf(n), Columns(n, got))
    <2> SUFFICES ASSUME NEW f \in DOMAIN Tables[TableOf(n)].references
                 PROVE  \E r \in Rows(Tables[TableOf(n)].references[f]) : r.id = Columns(n, got)[f]
      BY DEF References
    <2>1. /\ f \in DOMAIN Scenario[n].refs
          /\ Scenario[n].refs[f][1] = Tables[TableOf(n)].references[f]
      BY FixtureFitsSchema DEF RowsAreOrdered, TableOf, Items
    <2>2. PICK s \in db : s.id = Columns(n, got)[f] /\ s.id.name = Scenario[n].refs[f]
      BY <2>1, ReferenceOf
    <2>. QED
      BY <2>1, <2>2 DEF Rows
  <1>. QED
    BY <1>1, <1>2 DEF Refused

(***************************************************************************)
(* Frames.                                                                 *)
(***************************************************************************)

LEMMA SeedInvInit == Init => SeedInv
  <1> SUFFICES ASSUME Init PROVE SeedInv
    OBVIOUS
  <1>1. CommandsOK
    <2>1. run \in [Commands -> Run \cup {None}] /\ \A c \in Commands : run[c] = None
      BY DEF Init
    <2>2. started = 0 /\ raced \in BOOLEAN /\ MaxStarts \in Nat
      BY FixtureAssumption DEF Init
    <2>3. started \in 0..MaxStarts
      BY <2>2
    <2>. QED
      BY <2>1, <2>2, <2>3 DEF CommandsOK
  <1>2. RowsOK /\ KeysOK /\ RunsOK
    BY DEF Init, RowsOK, KeysOK, RunsOK
  <1>3. IdsOK
    BY FS_EmptySet DEF Init, IdsOK
  <1>. QED
    BY <1>1, <1>2, <1>3 DEF SeedInv

\* What the rows say stays true when only commands move on.
LEMMA RowsFrame ==
    ASSUME SeedInv, db' = db, raced => raced'
    PROVE  RowsOK' /\ IdsOK' /\ KeysOK'
  <1>1. RowsOK'
    BY DEF SeedInv, RowsOK, Is
  <1>2. IdsOK'
    BY DEF SeedInv, IdsOK, Copies
  <1>3. KeysOK'
    BY DEF SeedInv, KeysOK, Agree
  <1>. QED
    BY <1>1, <1>2, <1>3

\* What a command has passed it keeps, since no row is deleted.
LEMMA PassedStays ==
    ASSUME db \subseteq db', NEW got \in Seq({r.id : r \in db}), Passed(db, got)
    PROVE  got \in Seq({r.id : r \in db'}) /\ Passed(db', got)
  <1>1. {r.id : r \in db} \subseteq {r.id : r \in db'}
    OBVIOUS
  <1>2. got \in Seq({r.id : r \in db'})
    BY <1>1
  <1>3. Passed(db', got)
    BY DEF Passed
  <1>. QED
    BY <1>2, <1>3

\* A command that does not move, while another one does.
LEMMA OthersStay ==
    ASSUME SeedInv, NEW c \in Commands, NEW o \in Commands \ {c}, run'[o] = run[o], run'[o] # None,
           db \subseteq db', raced' = raced, Running(c)' => Running(c),
           \A p \in Commands \ {c} : run'[p] = run[p],
           db' = db \/ Running(c)
    PROVE  RunOK(o)' /\ run'[o] \in Run'
  <1>1. RunOK(o) /\ run[o] \in Run
    BY DEF SeedInv, RunsOK, CommandsOK
  <1>2. run[o].got \in Seq({r.id : r \in db}) /\ Passed(db, run[o].got)
    BY <1>1 DEF RunOK
  <1>3. run'[o].got \in Seq({r.id : r \in db'}) /\ Passed(db', run'[o].got)
    BY <1>2, PassedStays
  <1>4. \A p \in Commands \ {c} : Running(p)' <=> Running(p)
    BY DEF Running, Inserting, At
  <1>5. Running(o)' /\ ~run'[o].raced => \A p \in Commands \ {o} : ~Running(p)'
    BY <1>1, <1>4 DEF RunOK
  <1>6. Inserting(o)' /\ ~run'[o].raced => (Found(db, Position(o), run[o].got))' = {}
    <2> SUFFICES ASSUME Inserting(o)', ~run'[o].raced PROVE (Found(db, Position(o), run[o].got))' = {}
      OBVIOUS
    <2>1. Inserting(o) /\ ~run[o].raced /\ Running(o)
      BY DEF At, Inserting, Running
    <2>2. ~Running(c) /\ Found(db, Position(o), run[o].got) = {}
      BY <1>1, <2>1 DEF RunOK
    <2>3. db' = db /\ Position(o)' = Position(o)
      BY <2>2 DEF Position
    <2>. QED
      BY <2>2, <2>3 DEF Found
  <1>7. run'[o] \in Run'
    BY <1>1, <1>3 DEF Run
  <1>. QED
    BY <1>1, <1>3, <1>4, <1>5, <1>6, <1>7 DEF RunOK, At

\* One command moves on; the others stay as they are.
LEMMA OneMoves ==
    ASSUME SeedInv, NEW c \in Commands, NEW s, run' = [run EXCEPT ![c] = s],
           db \subseteq db', UNCHANGED <<raced, started>>,
           Running(c)' => Running(c), db' = db \/ Running(c),
           s \in Run', Len(s.got) \in 0..Len(Scenario), RunOK(c)'
    PROVE  CommandsOK' /\ RunsOK'
  <1>1. \A p \in Commands : run'[p] = IF p = c THEN s ELSE run[p]
    BY DEF SeedInv, CommandsOK
  <1>2. ASSUME NEW o \in Commands \ {c}, run'[o] # None PROVE RunOK(o)' /\ run'[o] \in Run'
    BY <1>1, <1>2, OthersStay
  <1>3. run' \in [Commands -> Run' \cup {None}]
    BY <1>1, <1>2 DEF SeedInv, CommandsOK
  <1>4. \A o \in Commands : run'[o] # None => Len(run'[o].got) \in 0..Len(Scenario)
    BY <1>1 DEF SeedInv, CommandsOK
  <1>5. CommandsOK'
    BY <1>3, <1>4 DEF SeedInv, CommandsOK
  <1>. QED
    BY <1>2, <1>5 DEF RunsOK

\* A command goes on to its next row, or is done: it has got one for item n.
LEMMA GoesOn ==
    ASSUME SeedInv, NEW c \in Commands, Running(c), NEW r \in db', Got(c, r.id),
           Serves(r, Position(c), run[c].got), db \subseteq db', UNCHANGED <<raced, started>>
    PROVE  CommandsOK' /\ RunsOK'
  <1> DEFINE n == Position(c)
             got == run[c].got
             s == [run[c] EXCEPT !.got = Append(@, r.id),
                                 !.step = IF n = Len(Scenario) THEN "done" ELSE "find"]
  <1>1. /\ got \in Seq({q.id : q \in db}) /\ Passed(db, got)
        /\ n \in Items /\ n = Len(got) + 1 /\ run[c] \in Run /\ RunOK(c)
    BY GotNames
  <1>2. Len(got) \in Nat /\ Len(Scenario) \in Nat /\ n <= Len(Scenario)
    BY <1>1, FixtureFitsSchema DEF RowsAreOrdered, Items
  <1>3. got \in Seq({q.id : q \in db'}) /\ Passed(db', got)
    BY <1>1, PassedStays
  <1>4. PICK more \in Seq({q.id : q \in db'}) : more = Append(got, r.id)
    <2> DEFINE ids == {q.id : q \in db'}
    <2>1. r.id \in ids /\ got \in Seq(ids)
      BY <1>3
    <2> HIDE DEF ids
    <2>2. Append(got, r.id) \in Seq(ids)
      BY <2>1
    <2>. QED
      BY <2>2 DEF ids
  <1>5. /\ Len(more) = Len(got) + 1 /\ more[Len(got) + 1] = r.id
        /\ \A m \in 1..Len(got) : more[m] = got[m]
    BY <1>3, <1>4
  <1>6. run' = [run EXCEPT ![c] = s]
    BY DEF Got
  <1>7. /\ s.got = more /\ s.raced = run[c].raced /\ s \in Run'
        /\ s.step = IF n = Len(Scenario) THEN "done" ELSE "find"
    BY <1>1, <1>4 DEF Run
  <1>8. run'[c] = s
    BY <1>6 DEF SeedInv, CommandsOK
  <1>9. Passed(db', more)
    <2> SUFFICES ASSUME NEW m \in 1..Len(more)
                 PROVE  \E q \in db' : q.id = more[m] /\ Serves(q, m, more)
      BY DEF Passed
    <2>1. m \in Items /\ m <= Len(got) + 1
      BY <1>2, <1>1, <1>5 DEF Items
    <2>2. Columns(m, more) = Columns(m, got)
      BY <1>3, <1>4, <2>1, ColumnsLookBack
    <2>3. CASE m \in 1..Len(got)
      <3>1. PICK q \in db' : q.id = got[m] /\ Serves(q, m, got)
        BY <2>3, <1>3 DEF Passed
      <3>. QED
        BY <3>1, <2>2, <2>3, <1>5 DEF Serves
    <2>4. CASE m = Len(got) + 1
      BY <2>2, <2>4, <1>1, <1>5 DEF Serves
    <2>. QED
      BY <2>1, <2>3, <2>4, <1>2
  <1>10. RunOK(c)'
    <2>1. (Running(c)' => Len(more) < Len(Scenario)) /\ (At(c, "done")' => Len(more) = Len(Scenario))
      BY <1>1, <1>2, <1>5, <1>7, <1>8 DEF Running, Inserting, At
    <2>2. ~Inserting(c)' /\ ~At(c, "refused")'
      BY <1>7, <1>8 DEF Inserting, At
    <2>3. \A o \in Commands \ {c} : Running(o)' <=> Running(o)
      BY <1>6 DEF SeedInv, CommandsOK, Running, Inserting, At
    <2>. QED
      BY <1>1, <1>7, <1>8, <1>9, <2>1, <2>2, <2>3 DEF RunOK
  <1>11. Len(s.got) \in 0..Len(Scenario)
    BY <1>1, <1>2, <1>5, <1>7
  <1>. QED
    BY <1>6, <1>7, <1>10, <1>11, OneMoves

(***************************************************************************)
(* The steps.                                                              *)
(***************************************************************************)

LEMMA StepStart ==
    ASSUME SeedInv, NEW c \in Commands, Start(c)
    PROVE  SeedInv'
  <1> DEFINE others == {o \in Commands : Running(o)}
             s == [step |-> "find", got |-> << >>, raced |-> others # {}]
  <1>1. /\ ~Running(c) /\ started < MaxStarts /\ started' = started + 1
        /\ db' = db /\ raced' = (raced \/ others # {})
        /\ run' = [o \in Commands |-> IF o = c THEN s
                                      ELSE IF o \in others THEN [run[o] EXCEPT !.raced = TRUE]
                                      ELSE run[o]]
    BY DEF Start
  <1>2. PICK ids : ids = {r.id : r \in db}
    OBVIOUS
  <1>3. << >> \in Seq(ids) /\ Len(<< >>) = 0
    OBVIOUS
  <1>4. s \in Run' /\ s.step = "find" /\ s.got = << >> /\ s.raced = (others # {}) /\ run'[c] = s
    BY <1>1, <1>2, <1>3 DEF Run
  <1>5. Len(Scenario) \in Nat /\ Len(Scenario) > 0
    BY FixtureFitsSchema DEF RowsAreOrdered
  <1>6. ASSUME NEW o \in Commands \ {c}
        PROVE  /\ run[o] \in Run \cup {None} /\ (run[o] # None => RunOK(o))
               /\ Running(o) => /\ run[o] # None /\ run'[o] = [run[o] EXCEPT !.raced = TRUE]
                                /\ run'[o] \in Run'
                                /\ run'[o].got = run[o].got /\ run'[o].step = run[o].step
                                /\ run'[o].raced
               /\ ~Running(o) => run'[o] = run[o] /\ run'[o] \in Run' \cup {None}
    <2>1. run[o] \in Run \cup {None} /\ (run[o] # None => RunOK(o))
      BY DEF SeedInv, CommandsOK, RunsOK
    <2>2. Run' = Run
      BY <1>1 DEF Run
    <2>3. CASE Running(o)
      <3>1. run[o] # None /\ run[o] \in Run
        BY <2>1, <2>3 DEF Running, Inserting, At
      <3>2. run'[o] = [run[o] EXCEPT !.raced = TRUE]
        BY <1>1, <2>3
      <3>. QED
        BY <2>1, <2>2, <2>3, <3>1, <3>2 DEF Run
    <2>4. CASE ~Running(o)
      BY <1>1, <2>1, <2>2, <2>4
    <2>. QED
      BY <2>1, <2>3, <2>4
  <1>7. \A o \in Commands \ {c} : Running(o)' => Running(o)
    BY <1>6 DEF Running, Inserting, At
  <1>8. CommandsOK'
    <2>1. run' \in [Commands -> Run' \cup {None}]
      BY <1>1, <1>4, <1>6
    <2>2. ASSUME NEW o \in Commands, run'[o] # None PROVE Len(run'[o].got) \in 0..Len(Scenario)
      <3>1. CASE o = c
        BY <3>1, <1>3, <1>4, <1>5
      <3>2. CASE o # c
        <4>1. run[o] # None /\ run'[o].got = run[o].got
          BY <3>2, <1>6, <2>2
        <4>. QED
          BY <4>1 DEF SeedInv, CommandsOK
      <3>. QED
        BY <3>1, <3>2
    <2>3. raced' \in BOOLEAN /\ started' \in 0..MaxStarts
      BY <1>1, FixtureAssumption DEF SeedInv, CommandsOK
    <2>. QED
      BY <2>1, <2>2, <2>3 DEF CommandsOK
  <1>9. RunOK(c)'
    <2>1. << >> \in Seq({r.id : r \in db'}) /\ Passed(db', << >>)
      BY <1>1, <1>2, <1>3 DEF Passed
    <2>2. ~At(c, "done")' /\ ~Inserting(c)' /\ ~At(c, "refused")'
      BY <1>4 DEF At, Inserting
    <2>3. ~run'[c].raced => raced' = raced /\ \A o \in Commands \ {c} : ~Running(o)'
      <3>1. raced \in BOOLEAN
        BY DEF SeedInv, CommandsOK
      <3>. QED
        BY <1>1, <1>4, <1>7, <3>1
    <2>4. ~raced' => ~run'[c].raced
      BY <1>1, <1>4
    <2>. QED
      BY <1>3, <1>4, <1>5, <2>1, <2>2, <2>3, <2>4 DEF RunOK
  <1>10. ASSUME NEW o \in Commands \ {c}, run'[o] # None PROVE RunOK(o)'
    <2>1. CASE Running(o)
      <3>1. RunOK(o) /\ o \in others
        BY <1>6, <2>1
      <3>2. raced' = TRUE
        BY <1>1, <3>1
      <3>3. (Running(o)' => Running(o)) /\ (At(o, "done")' => At(o, "done")) /\ ~At(o, "refused")'
        BY <1>6, <2>1 DEF Running, Inserting, At
      <3>. QED
        BY <1>1, <1>6, <2>1, <3>1, <3>2, <3>3 DEF RunOK
    <2>2. CASE ~Running(o)
      <3>1. RunOK(o) /\ run'[o] = run[o]
        BY <1>6, <1>10, <2>2
      <3>2. ~Running(o)' /\ ~Inserting(o)' /\ (At(o, "done")' => At(o, "done"))
            /\ (At(o, "refused")' => At(o, "refused"))
        BY <2>2, <3>1 DEF Running, Inserting, At
      <3>. QED
        BY <1>1, <3>1, <3>2 DEF RunOK
    <2>. QED
      BY <2>1, <2>2
  <1>11. RunsOK'
    BY <1>9, <1>10 DEF RunsOK
  <1>12. RowsOK' /\ IdsOK' /\ KeysOK'
    BY <1>1, RowsFrame
  <1>. QED
    BY <1>8, <1>11, <1>12 DEF SeedInv

\* A command ends: it died, what it had sent arrived or was lost, or a row that
\* another one had inserted was refused.
LEMMA CommandEnds ==
    ASSUME SeedInv, NEW c \in Commands, Running(c), NEW step \in {"died", "refused"},
           Ends(c, step), db \subseteq db', UNCHANGED <<raced, started>>,
           step = "refused" => run[c].raced
    PROVE  CommandsOK' /\ RunsOK'
  <1> DEFINE s == [run[c] EXCEPT !.step = step, !.got = << >>]
  <1>1. run[c] \in Run /\ RunOK(c)
    BY GotNames
  <1>2. run' = [run EXCEPT ![c] = s]
    BY DEF Ends
  <1>3. PICK ids : ids = {r.id : r \in db'}
    OBVIOUS
  <1>4. << >> \in Seq(ids) /\ Len(<< >>) = 0
    OBVIOUS
  <1>5. s \in Run' /\ s.step = step /\ s.got = << >> /\ s.raced = run[c].raced
    BY <1>1, <1>3, <1>4 DEF Run
  <1>6. run'[c] = s
    BY <1>2 DEF SeedInv, CommandsOK
  <1>7. Len(s.got) \in 0..Len(Scenario)
    BY <1>4, <1>5, FixtureFitsSchema DEF RowsAreOrdered
  <1>8. RunOK(c)' /\ ~Running(c)'
    <2>1. << >> \in Seq({r.id : r \in db'}) /\ Passed(db', << >>)
      BY <1>3, <1>4 DEF Passed
    <2>2. ~Running(c)' /\ ~At(c, "done")' /\ ~Inserting(c)' /\ (At(c, "refused")' => s.raced)
      BY <1>5, <1>6 DEF Running, Inserting, At
    <2>. QED
      BY <1>5, <1>6, <2>1, <2>2 DEF RunOK
  <1>. QED
    BY <1>2, <1>5, <1>7, <1>8, OneMoves

\* A command takes another step of those that leave what it has got alone.
LEMMA StepsOn ==
    ASSUME SeedInv, NEW c \in Commands, Running(c), NEW step \in {"insert", "adrift"},
           run' = [run EXCEPT ![c].step = step], UNCHANGED <<db, raced, started>>,
           ~run[c].raced => Found(db, Position(c), run[c].got) = {}
    PROVE  SeedInv'
  <1> DEFINE s == [run[c] EXCEPT !.step = step]
  <1>1. /\ run[c] \in Run /\ run[c] # None /\ RunOK(c)
    BY GotNames
  <1>2. run' = [run EXCEPT ![c] = s]
    OBVIOUS
  <1>3. s \in Run' /\ s.step = step /\ s.got = run[c].got /\ s.raced = run[c].raced
    BY <1>1 DEF Run
  <1>4. run'[c] = s
    BY <1>2 DEF SeedInv, CommandsOK
  <1>5. ~At(c, "done")' /\ ~At(c, "refused")' /\ Position(c)' = Position(c)
    BY <1>3, <1>4 DEF At, Position
  <1>6. \A o \in Commands \ {c} : Running(o)' <=> Running(o)
    BY <1>2 DEF SeedInv, CommandsOK, Running, Inserting, At
  <1>7. RunOK(c)'
    BY <1>1, <1>3, <1>4, <1>5, <1>6 DEF RunOK
  <1>8. Len(s.got) \in 0..Len(Scenario)
    BY <1>1, <1>3 DEF SeedInv, CommandsOK
  <1>9. CommandsOK' /\ RunsOK'
    BY <1>2, <1>3, <1>7, <1>8, OneMoves
  <1>10. RowsOK' /\ IdsOK' /\ KeysOK'
    BY RowsFrame
  <1>. QED
    BY <1>9, <1>10 DEF SeedInv

LEMMA StepDie ==
    ASSUME SeedInv, NEW c \in Commands, Die(c)
    PROVE  SeedInv'
  <1>1. Running(c) /\ UNCHANGED <<db, raced, started>>
    BY DEF Die, Running, Inserting
  <1>2. CASE Ends(c, "died")
    <2>1. CommandsOK' /\ RunsOK'
      BY <1>1, <1>2, CommandEnds
    <2>2. RowsOK' /\ IdsOK' /\ KeysOK'
      BY <1>1, RowsFrame
    <2>. QED
      BY <2>1, <2>2 DEF SeedInv
  <1>3. CASE At(c, "insert") /\ run' = [run EXCEPT ![c].step = "adrift"]
    <2>1. RunOK(c)
      BY <1>1, GotNames
    <2>2. ~run[c].raced => Found(db, Position(c), run[c].got) = {}
      BY <1>3, <2>1 DEF RunOK, Inserting
    <2>. QED
      BY <1>1, <1>3, <2>2, StepsOn
  <1>. QED
    BY <1>2, <1>3 DEF Die

LEMMA StepFind ==
    ASSUME SeedInv, NEW c \in Commands, Find(c)
    PROVE  SeedInv'
  <1>1. At(c, "find") /\ Running(c) /\ UNCHANGED <<db, raced, started>>
    BY DEF Find, Running
  <1>2. /\ Position(c) \in Items /\ run[c] \in Run /\ run[c] # None /\ RunOK(c)
        /\ Named(Position(c), run[c].got)
    BY <1>1, GotNames
  <1>3. RowsOK' /\ IdsOK' /\ KeysOK'
    BY <1>1, RowsFrame
  <1>4. {r \in Rows(TableOf(Position(c))) :
            Agree(r.cols, Columns(Position(c), run[c].got), Lookup[TableOf(Position(c))])}
        = Found(db, Position(c), run[c].got)
    BY DEF Found, Rows
  <1>5. CASE Found(db, Position(c), run[c].got) = {}
    <2>1. run' = [run EXCEPT ![c].step = "insert"]
      BY <1>4, <1>5 DEF Find
    <2>. QED
      BY <1>1, <1>5, <2>1, StepsOn
  <1>6. CASE Found(db, Position(c), run[c].got) # {}
    <2>1. PICK r \in Found(db, Position(c), run[c].got) : Got(c, r.id)
      BY <1>4, <1>6 DEF Find
    <2>2. r \in db /\ Serves(r, Position(c), run[c].got)
      BY <1>2, FoundServes
    <2>3. CommandsOK' /\ RunsOK'
      BY <1>1, <2>1, <2>2, GoesOn
    <2>. QED
      BY <1>3, <2>3 DEF SeedInv
  <1>. QED
    BY <1>5, <1>6

\* A new copy has an id of its own.
LEMMA NewIdIsNew ==
    ASSUME SeedInv, NEW n \in Items, NEW t, t.id = NewId(n), db' = db \cup {t}
    PROVE  IdsOK'
  <1> DEFINE name == Scenario[n].name
  <1>1. IsFiniteSet(db) /\ IsFiniteSet(db')
    BY FS_AddElement DEF SeedInv, IdsOK
  <1>2. \A x : Copies(x) \subseteq db /\ IsFiniteSet(Copies(x)) /\ Cardinality(Copies(x)) \in Nat
    BY <1>1, FS_Subset, FS_CardinalityType DEF Copies
  <1>3. t.id.name = name /\ t.id.copy = 1 + Cardinality(Copies(name))
    BY DEF NewId
  <1>4. \A r \in db : r.id # t.id
    <2> SUFFICES ASSUME NEW r \in db, r.id = t.id PROVE FALSE
      OBVIOUS
    <2>1. r.id.copy <= Cardinality(Copies(name)) /\ r.id.copy = 1 + Cardinality(Copies(name))
      BY <1>3 DEF SeedInv, IdsOK
    <2>. QED
      BY <1>2, <2>1
  <1>5. \A x : Copies(x)' = IF x = name THEN Copies(x) \cup {t} ELSE Copies(x)
    BY <1>3 DEF Copies
  <1>6. t \notin db
    BY <1>4
  <1>7. Cardinality(Copies(name) \cup {t}) = Cardinality(Copies(name)) + 1
    BY <1>2, <1>6, FS_AddElement
  <1>8. ASSUME NEW r \in db' PROVE r.id.copy \in Nat /\ r.id.copy <= Cardinality(Copies(r.id.name)')
    <2>1. CASE r = t
      <3>1. Copies(r.id.name)' = Copies(name) \cup {t}
        BY <2>1, <1>3, <1>5
      <3>2. Cardinality(Copies(r.id.name)') = Cardinality(Copies(name)) + 1
        BY <3>1, <1>7
      <3>. QED
        BY <2>1, <3>2, <1>2, <1>3
    <2>2. CASE r \in db
      <3>1. r.id.copy \in Nat /\ r.id.copy <= Cardinality(Copies(r.id.name))
        BY <2>2 DEF SeedInv, IdsOK
      <3>2. Cardinality(Copies(r.id.name)) <= Cardinality(Copies(r.id.name)')
        BY <1>2, <1>5, <1>7
      <3>3. Cardinality(Copies(r.id.name)') \in Nat
        BY <1>2, <1>5, <1>7
      <3>. QED
        BY <1>2, <3>1, <3>2, <3>3
    <2>. QED
      BY <2>1, <2>2
  <1>9. \A r, s \in db' : r.id = s.id => r = s
    BY <1>4 DEF SeedInv, IdsOK
  <1>. QED
    BY <1>1, <1>8, <1>9 DEF IdsOK

\* A row is inserted that item n asks for, after the rows of got, and the
\* database does not refuse it.
LEMMA RowArrives ==
    ASSUME SeedInv, NEW c \in Commands, Inserting(c), NEW t,
           t.id = NewId(Position(c)), t.cols = Columns(Position(c), run[c].got),
           ~Refused(TableOf(Position(c)), t.cols),
           db' = db \cup {t}, UNCHANGED <<raced, started>>
    PROVE  RowsOK' /\ IdsOK' /\ KeysOK' /\ Serves(t, Position(c), run[c].got)
  <1>1. PICK n, got : n = Position(c) /\ got = run[c].got
    OBVIOUS
  <1>2. /\ n \in Items /\ run[c] # None /\ RunOK(c) /\ Named(n, got)
        /\ t.id = NewId(n) /\ t.cols = Columns(n, got) /\ t.id.name = Scenario[n].name
    <2>1. Running(c)
      BY DEF Running
    <2>2. t.id.name = Scenario[n].name
      BY <1>1 DEF NewId
    <2>. QED
      BY <1>1, <2>1, <2>2, GotNames
  <1>3. ~run[c].raced => Found(db, n, got) = {}
    BY <1>1, <1>2 DEF RunOK
  <1>4. Serves(t, n, got)
    <2>1. \A f \in DOMAIN Scenario[n].refs : t.cols[f].name = Scenario[n].refs[f]
      BY <1>2, ReferenceOf
    <2>. QED
      BY <1>2, <2>1, ColumnsOf DEF Serves, Agree
  <1>5. IdsOK'
    BY <1>2, NewIdIsNew
  <1>6. RowsOK'
    <2>1. ASSUME NEW r \in db, NEW m \in Items, Is(r, m) PROVE Is(r, m)'
      BY <2>1 DEF Is
    <2>2. Is(t, n)'
      <3>1. \A f \in DOMAIN Scenario[n].own : t.cols[f] = Scenario[n].own[f]
        BY <1>2, ColumnsOf
      <3>2. \A f \in DOMAIN Scenario[n].refs :
               \E s \in db : s.id = t.cols[f] /\ s.id.name = Scenario[n].refs[f]
        BY <1>2, ReferenceOf
      <3>. QED
        BY <1>2, <3>1, <3>2 DEF Is
    <2>. QED
      BY <1>2, <2>1, <2>2 DEF SeedInv, RowsOK
  <1>7. ASSUME NEW r \in db, r.id.name[1] = t.id.name[1]
        PROVE  /\ \A key \in Tables[r.id.name[1]].keys : ~Agree(r.cols, t.cols, key)
               /\ Agree(r.cols, t.cols, Lookup[r.id.name[1]]) => raced
    <2>1. r.id.name[1] = TableOf(n) /\ r \in Rows(TableOf(n))
      BY <1>2, <1>7 DEF TableOf, Rows
    <2>2. \A key \in Tables[r.id.name[1]].keys : ~Agree(r.cols, t.cols, key)
      BY <1>1, <2>1 DEF Refused
    <2>3. Agree(r.cols, t.cols, Lookup[r.id.name[1]]) => r \in Found(db, n, got)
      BY <1>2, <2>1 DEF Found
    <2>4. run[c].raced => raced
      BY <1>2 DEF RunOK, Running
    <2>. QED
      BY <1>3, <2>2, <2>3, <2>4
  <1>8. KeysOK'
    <2>1. \A r, s : \A key : Agree(r.cols, s.cols, key) <=> Agree(s.cols, r.cols, key)
      BY DEF Agree
    <2>2. ASSUME NEW r \in db', NEW s \in db', r # s, r.id.name[1] = s.id.name[1]
          PROVE  /\ \A key \in Tables[r.id.name[1]].keys : ~Agree(r.cols, s.cols, key)
                 /\ Agree(r.cols, s.cols, Lookup[r.id.name[1]]) => raced'
      <3>1. CASE r \in db /\ s \in db
        BY <2>2, <3>1 DEF SeedInv, KeysOK
      <3>2. CASE r \in db /\ s = t
        BY <1>7, <2>2, <3>2
      <3>3. CASE r = t /\ s \in db
        BY <1>7, <2>1, <2>2, <3>3
      <3>. QED
        BY <2>2, <3>1, <3>2, <3>3
    <2>. QED
      BY <2>2 DEF KeysOK
  <1>. QED
    BY <1>1, <1>4, <1>5, <1>6, <1>8

LEMMA StepInsert ==
    ASSUME SeedInv, NEW c \in Commands, Insert(c)
    PROVE  SeedInv'
  <1>1. PICK n, got, cols : n = Position(c) /\ got = run[c].got /\ cols = Columns(n, got)
    OBVIOUS
  <1>2. At(c, "insert") /\ Inserting(c) /\ Running(c) /\ UNCHANGED <<raced, started>>
    BY DEF Insert, Inserting, Running
  <1>3. n \in Items /\ run[c] \in Run /\ RunOK(c) /\ Named(n, got)
    BY <1>1, <1>2, GotNames
  <1>4. CASE Refused(TableOf(n), cols)
    <2>1. Ends(c, "refused") /\ db' = db
      BY <1>1, <1>4 DEF Insert
    <2>2. run[c].raced
      BY <1>1, <1>2, <1>3, <1>4, NotRefused DEF Run, RunOK
    <2>3. CommandsOK' /\ RunsOK'
      BY <1>2, <2>1, <2>2, CommandEnds
    <2>4. RowsOK' /\ IdsOK' /\ KeysOK'
      BY <1>2, <2>1, RowsFrame
    <2>. QED
      BY <2>3, <2>4 DEF SeedInv
  <1>5. CASE ~Refused(TableOf(n), cols)
    <2>1. PICK t : t = [id |-> NewId(n), cols |-> cols]
      OBVIOUS
    <2>2. t.id = NewId(n) /\ t.cols = cols /\ db' = db \cup {t} /\ Got(c, t.id)
      BY <1>1, <1>5, <2>1 DEF Insert
    <2>3. RowsOK' /\ IdsOK' /\ KeysOK' /\ Serves(t, n, got)
      BY <1>1, <1>2, <1>5, <2>2, RowArrives
    <2>4. CommandsOK' /\ RunsOK'
      BY <1>1, <1>2, <2>2, <2>3, GoesOn
    <2>. QED
      BY <2>3, <2>4 DEF SeedInv
  <1>. QED
    BY <1>4, <1>5

LEMMA StepLand ==
    ASSUME SeedInv, NEW c \in Commands, Land(c)
    PROVE  SeedInv'
  <1>1. PICK n, got, cols : n = Position(c) /\ got = run[c].got /\ cols = Columns(n, got)
    OBVIOUS
  <1>2. Inserting(c) /\ Running(c) /\ Ends(c, "died") /\ UNCHANGED <<raced, started>>
    BY DEF Land, Inserting, Running
  <1>3. CASE db' = db
    <2>1. CommandsOK' /\ RunsOK'
      BY <1>2, <1>3, CommandEnds
    <2>2. RowsOK' /\ IdsOK' /\ KeysOK'
      BY <1>2, <1>3, RowsFrame
    <2>. QED
      BY <2>1, <2>2 DEF SeedInv
  <1>4. CASE ~Refused(TableOf(n), cols) /\ db' = db \cup {[id |-> NewId(n), cols |-> cols]}
    <2>1. PICK t : t = [id |-> NewId(n), cols |-> cols]
      OBVIOUS
    <2>2. t.id = NewId(n) /\ t.cols = cols /\ db' = db \cup {t}
      BY <1>4, <2>1
    <2>3. RowsOK' /\ IdsOK' /\ KeysOK'
      BY <1>1, <1>2, <1>4, <2>2, RowArrives
    <2>4. CommandsOK' /\ RunsOK'
      BY <1>2, <2>2, CommandEnds
    <2>. QED
      BY <2>3, <2>4 DEF SeedInv
  <1>. QED
    BY <1>1, <1>3, <1>4 DEF Land

(***************************************************************************)
(* The theorems.                                                           *)
(***************************************************************************)

LEMMA SeedInvNext == SeedInv /\ [Next]_vars => SeedInv'
  <1> SUFFICES ASSUME SeedInv, [Next]_vars PROVE SeedInv'
    OBVIOUS
  <1>1. ASSUME NEW c \in Commands, Start(c) \/ Find(c) \/ Insert(c) \/ Die(c) \/ Land(c)
        PROVE  SeedInv'
    BY <1>1, StepStart, StepFind, StepInsert, StepDie, StepLand
  <1>2. CASE UNCHANGED vars
    <2>1. RowsOK' /\ IdsOK' /\ KeysOK'
      BY <1>2, RowsFrame DEF vars
    <2>2. CommandsOK' /\ RunsOK'
      BY <1>2 DEF vars, SeedInv, CommandsOK, Run, RunsOK, RunOK, Running, Inserting, At, Position
    <2>. QED
      BY <2>1, <2>2 DEF SeedInv
  <1>. QED
    BY <1>1, <1>2 DEF Next

\* The invariant the rest follows from.
THEOREM SeedInvariant == Spec => []SeedInv
  BY SeedInvInit, SeedInvNext, PTL DEF Spec

\* Rows belong to tables of the schema and point to rows that are there, ids are
\* never given twice, and commands keep their types, whatever dies or races.
THEOREM SeedTypes == Spec => []TypeOK
  <1>1. SeedInv => TypeOK
    <2> SUFFICES ASSUME SeedInv PROVE TypeOK
      OBVIOUS
    <2>1. ASSUME NEW r \in db
          PROVE  r.id.name[1] \in DOMAIN Tables /\ References(r.id.name[1], r.cols)
      <3>1. PICK n \in Items : Is(r, n)
        BY DEF SeedInv, RowsOK
      <3>2. r.id.name[1] = Scenario[n].name[1] /\ Scenario[n].name[1] \in DOMAIN Tables
        BY <3>1, FixtureFitsSchema DEF Is, RowsAreOrdered, Items
      <3>3. ASSUME NEW f \in DOMAIN Tables[r.id.name[1]].references
            PROVE  \E s \in Rows(Tables[r.id.name[1]].references[f]) : s.id = r.cols[f]
        <4>1. /\ f \in DOMAIN Scenario[n].refs
              /\ Scenario[n].refs[f][1] = Tables[r.id.name[1]].references[f]
          BY <3>2, <3>3, FixtureFitsSchema DEF RowsAreOrdered, Items
        <4>2. PICK s \in db : s.id = r.cols[f] /\ s.id.name = Scenario[n].refs[f]
          BY <3>1, <4>1 DEF Is
        <4>. QED
          BY <4>1, <4>2 DEF Rows
      <3>. QED
        BY <3>2, <3>3 DEF References
    <2>. QED
      BY <2>1 DEF SeedInv, IdsOK, CommandsOK, TypeOK
  <1>. QED
    BY <1>1, SeedInvariant, PTL

\* A command that reports success leaves the fixture complete and single,
\* however many died before it or ran beside it: only a race can insert a row
\* twice, and only into a table without a unique key.
THEOREM SuccessExact == Spec => []SuccessIsExact
  <1>1. SeedInv => SuccessIsExact
    <2> SUFFICES ASSUME SeedInv, NEW c \in Commands, At(c, "done")
                 PROVE  /\ \A n \in 1..Len(Scenario) :
                              \E r \in db : r.id = run[c].got[n] /\ Serves(r, n, run[c].got)
                        /\ \A r \in Twins : raced /\ Tables[r.id.name[1]].keys = {}
      BY DEF SuccessIsExact
    <2>1. RunOK(c)
      BY DEF At, SeedInv, RunsOK
    <2>2. Passed(db, run[c].got) /\ Len(run[c].got) = Len(Scenario)
      BY <2>1 DEF RunOK
    <2>3. ASSUME NEW r \in Twins PROVE raced /\ Tables[r.id.name[1]].keys = {}
      <3>1. PICK s \in db : /\ r \in db /\ s # r /\ s.id.name[1] = r.id.name[1]
                            /\ Agree(s.cols, r.cols, Lookup[r.id.name[1]])
        BY DEF Twins, Rows
      <3>2. PICK n \in Items : Is(r, n)
        BY <3>1 DEF SeedInv, RowsOK
      <3>3. ASSUME NEW key \in Tables[r.id.name[1]].keys PROVE FALSE
        <4>1. PICK k \in Tables[r.id.name[1]].keys : k \subseteq Lookup[r.id.name[1]]
          BY <3>2, <3>3, FixtureFitsSchema DEF Is, LookupSeesKeys, Items
        <4>2. Agree(s.cols, r.cols, k)
          BY <3>1, <4>1 DEF Agree
        <4>. QED
          BY <3>1, <4>1, <4>2 DEF SeedInv, KeysOK
      <3>. QED
        BY <3>1, <3>3 DEF SeedInv, KeysOK
    <2>. QED
      BY <2>2, <2>3 DEF Passed
  <1>. QED
    BY <1>1, SeedInvariant, PTL

\* The database refuses a row only to a command beside which another one runs
\* or the last INSERT of a dead one is on its way: whatever dead commands and races have left, one that is run alone gets
\* through.
THEOREM RefusedIfRaced == Spec => []RefusedOnlyIfRaced
  <1>1. SeedInv => RefusedOnlyIfRaced
    BY DEF SeedInv, RunsOK, RunOK, RefusedOnlyIfRaced, At
  <1>. QED
    BY <1>1, SeedInvariant, PTL
=============================================================================
